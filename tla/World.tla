------------------------------- MODULE World -------------------------------
(***************************************************************************)
(* The life of one world: KubeDashboardService (service.py) and the        *)
(* cluster it drives.                                                      *)
(*                                                                         *)
(* Every handler of the service holds one RLock, so handlers never overlap *)
(* and each is one action.  What a handler does to the cluster is however  *)
(* a series of calls (save the record, create a Job, helm upgrade, ...),   *)
(* and the process may die or a call may fail between two of them: an      *)
(* action takes effect up to its n-th call, and Cut and Ended say which    *)
(* prefixes the faults of this run allow.  The calls of one handler touch  *)
(* different objects, and the cluster reacts to each object on its own, so *)
(* a pod or a Job that moves during a handler moves equally after it.      *)
(*                                                                         *)
(* Faults, bounded together by MaxFaults:                                  *)
(*   "crash"    the dashboard dies between two calls and is restarted      *)
(*   "refused"  a call fails and had no effect                             *)
(*   "lost"     a call takes effect and is reported as failed (a helm      *)
(*              upgrade that fails part-way, an API call that times out)   *)
(*   "job"      a Job pod fails (its Job retries once: backoffLimit 1)     *)
(*   "expire"   a finished Job passes its TTL before the dashboard sees it *)
(*   "rcon"     an RCON command fails                                      *)
(***************************************************************************)
EXTENDS Naturals, Sequences, FiniteSets, SequencesExt

CONSTANTS
  Jobs,       \* names of Jobs; a snapshot's file has the stamp of its Job
  Pods,       \* names of server pods
  Keep,       \* cfg.snapshot_keep
  Faults,     \* the faults that may happen
  MaxFaults,  \* bound: how many crashes, failed calls and early expiries
  Archive,    \* a backup that is never deleted
  None        \* no Job, no backup

AllFaults == {"crash", "refused", "lost", "job", "expire", "rcon"}

ASSUME KeepAssumption == Keep \in Nat \ {0}
ASSUME FaultsAssumption == Faults \subseteq AllFaults /\ MaxFaults \in Nat
ASSUME NamesAssumption ==
  /\ Archive \notin Jobs
  /\ None \notin Jobs \cup {Archive}

VARIABLES
  known,    \* the world's ConfigMap exists
  op,       \* the pending or failed operation stored in it
  release,  \* the Helm release: absent, stopped (0 replicas), running (1)
  vol,      \* the world's volume and the data on it
  pods,     \* the phase of each server pod
  saveOff,  \* server pods told save-off
  jobs,     \* the Jobs of the world
  files,    \* its snapshot files, oldest first
  kept,     \* history: the played data has been snapshotted
  faults    \* faults spent

vars == <<known, op, release, vol, pods, saveOff, jobs, files, kept, faults>>

-----------------------------------------------------------------------------
(* Records *)

Sources == Jobs \cup {Archive, None}

Steps == {"none", "snapshot", "drain", "seed", "install", "teardown"}

Kinds == {"none", "launch", "create", "snapshot", "stop", "restore", "delete"}

\* The steps that wait for a Job name it.
Ops ==
  {o \in [kind: Kinds, step: Steps, failed: BOOLEAN, job: Jobs \cup {None},
          src: Sources, paused: BOOLEAN] :
     o.step \in {"snapshot", "seed"} => o.job \in Jobs}

NewOp(kind, step, job, src) ==
  [kind |-> kind, step |-> step, failed |-> FALSE, job |-> job, src |-> src,
   paused |-> FALSE]

NoOp == NewOp("none", "none", None, None)

Failed(o) == [o EXCEPT !.failed = TRUE]

\* The first pod runs, or copies once it has wiped the volume; after a failure
\* the second pod does the same ("retrying", "recopying"; "recovered" at its end).
JobStatus == {"absent", "running", "copying", "succeeded",
              "retrying", "recopying", "recovered", "failed"}

JobRecords == [kind: {"none", "snapshot", "seed"}, src: Sources, status: JobStatus]

NoJob == [kind |-> "none", src |-> None, status |-> "absent"]

JobsWith(j, kind, src) ==
  [jobs EXCEPT ![j] = [kind |-> kind, src |-> src, status |-> "running"]]

Phases == {"none", "starting", "ready", "stopping", "replaced"}

Volumes == {"none", "empty", "partial", "seeded", "played", "doomed"}

TypeOK ==
  /\ known \in BOOLEAN
  /\ op \in Ops
  /\ release \in {"absent", "stopped", "running"}
  /\ vol \in Volumes
  /\ pods \in [Pods -> Phases]
  /\ saveOff \in SUBSET Pods
  /\ jobs \in [Jobs -> JobRecords]
  /\ files \in Seq(Jobs)
  /\ kept \in BOOLEAN
  /\ faults \in 0..MaxFaults

-----------------------------------------------------------------------------
(* What the handlers read *)

Pending == op.kind # "none" /\ ~op.failed

\* Mutant of Idle: a handler forgets _busy.
IdleUnchecked == known

Idle == known /\ ~Pending

Released == release # "absent"

Live == {p \in Pods : pods[p] # "none"}

Ready == {p \in Pods : pods[p] = "ready"}

ShuttingDown == release # "running" /\ Live # {}

FirstPod(j) == jobs[j].status \in {"running", "copying"}

Active(j) == FirstPod(j) \/ jobs[j].status \in {"retrying", "recopying"}

\* JobInfo.done and .failed count pods, so a Job that still retries is failed.
SawFailure(j) ==
  jobs[j].status \in {"retrying", "recopying", "recovered", "failed"}

SawSuccess(j) == jobs[j].status = "succeeded"

There(src) == src = Archive \/ src \in ToSet(files)

\* A stamp no Job, file or record uses yet.
Unused(j) ==
  /\ jobs[j].status = "absent"
  /\ j \notin ToSet(files)
  /\ j \notin {op.job, op.src} \cup {jobs[i].src : i \in Jobs}

Fresh == CHOOSE j \in Jobs : Unused(j)

HasFresh == \E j \in Jobs : Unused(j)

\* A restore names two Jobs; Jobs is a bound, so it starts with two names left.
HasTwoFresh == \E i, j \in Jobs : i # j /\ Unused(i) /\ Unused(j)

-----------------------------------------------------------------------------
(* Interrupted handlers *)

Affordable(f) == f \in Faults /\ faults < MaxFaults

\* A request handler makes n of its k calls: all of them, or the process died
\* or a call raised and the exception ended the request.
Cut(k, n) ==
  \/ n = k /\ UNCHANGED faults
  \/ /\ n \in 1..(k - 1)
     /\ Affordable("crash") \/ Affordable("refused") \/ Affordable("lost")
     /\ faults' = faults + 1

\* The same for a step of the reconciler, which records a failed call as the
\* operation's error.
Ended(k, n, how) ==
  \/ n = k /\ how = "done" /\ UNCHANGED faults
  \/ /\ \/ n \in 1..(k - 1) /\ how = "crash" /\ Affordable("crash")
        \/ n \in 0..(k - 1) /\ how = "error" /\ Affordable("refused")
        \/ n \in 1..k /\ how = "error" /\ Affordable("lost")
     /\ faults' = faults + 1

Endings == {"done", "crash", "error"}

Recorded(how, saved) == op' = IF how = "error" THEN Failed(op) ELSE saved

-----------------------------------------------------------------------------
(* Calls that do more than assign one variable *)

Retired(phase) ==
  [p \in Pods |-> IF pods[p] \in {"starting", "ready"} THEN phase ELSE pods[p]]

\* helm upgrade --install with 0 replicas.
ScaleDown ==
  /\ release' = "stopped"
  /\ pods' = Retired("stopping")
  /\ UNCHANGED kept

\* helm upgrade --install with 1 replica; a changed pod template replaces the
\* pod (strategy Recreate: the new one waits for the old).
ScaleUp ==
  /\ release' = "running"
  /\ pods' \in {pods, Retired("replaced")}
  /\ kept' = FALSE

ReleaseKept == UNCHANGED <<release, pods, kept>>

\* _create_volume_and_secret: an existing volume is left alone.
Provision == vol' = IF vol = "none" THEN "empty" ELSE vol

\* save-off, save-all flush: "paused" only when both are known to have run.
Pause(paused) ==
  \/ paused /\ saveOff' = saveOff \cup Ready
  \/ ~paused /\ "rcon" \in Faults /\ saveOff' \in {saveOff, saveOff \cup Ready}

SaveOn ==
  \/ saveOff' = IF op.paused THEN saveOff \ Ready ELSE saveOff
  \/ "rcon" \in Faults /\ UNCHANGED saveOff

Pruned == SubSeq(files, Len(files) - Keep + 1, Len(files))

Prune == files' = IF Len(files) > Keep THEN Pruned ELSE files

-----------------------------------------------------------------------------
(* Requests *)

Launch(src) ==
  /\ ~known /\ vol = "none"
  /\ There(src) /\ HasFresh
  /\ \E n \in 1..3 :
       /\ Cut(3, n)
       /\ known' = TRUE
       /\ op' = NewOp("launch", "seed", Fresh, src)
       /\ IF n >= 2 THEN Provision ELSE UNCHANGED vol
       /\ jobs' = IF n >= 3 THEN JobsWith(Fresh, "seed", src) ELSE jobs
  /\ UNCHANGED <<release, pods, saveOff, files, kept>>

CreateWorld ==
  /\ ~known /\ vol = "none"
  /\ known' = TRUE
  /\ \/ \E n \in 1..4 :
          /\ Cut(4, n)
          /\ op' = IF n = 4 THEN NoOp ELSE NewOp("create", "install", None, None)
          /\ IF n >= 2 THEN Provision ELSE UNCHANGED vol
          /\ IF n >= 3 THEN ScaleUp ELSE ReleaseKept
     \/ \* HelmError: recorded as the operation's error
        /\ op' = Failed(NewOp("create", "install", None, None))
        /\ Provision
        /\ \/ Affordable("refused") /\ ReleaseKept
           \/ Affordable("lost") /\ ScaleUp
        /\ faults' = faults + 1
  /\ UNCHANGED <<saveOff, jobs, files>>

RetrySeed ==
  /\ Idle /\ op.step = "seed"
  /\ HasFresh
  /\ \E n \in 1..2 :
       /\ Cut(2, n)
       /\ op' = [op EXCEPT !.job = Fresh, !.failed = FALSE]
       /\ jobs' = IF n >= 2 THEN JobsWith(Fresh, "seed", op.src) ELSE jobs
  /\ UNCHANGED <<known, release, vol, pods, saveOff, files, kept>>

\* Mutant of StartServer: the old pod is not waited for.
StartServerAtOnce ==
  /\ Idle /\ op.step # "seed"
  /\ op' = NoOp /\ ScaleUp
  /\ UNCHANGED <<known, vol, saveOff, jobs, files, faults>>

StartServer ==
  /\ Idle /\ op.step # "seed"
  /\ ~(Released /\ ShuttingDown)
  /\ \E n \in 1..2 :
       /\ Cut(2, n)
       /\ op' = NoOp
       /\ IF n >= 2 THEN ScaleUp ELSE ReleaseKept
  /\ UNCHANGED <<known, vol, saveOff, jobs, files>>

Start == RetrySeed \/ StartServer

Stop ==
  /\ Idle /\ Released
  /\ release = "running" \/ op # NoOp
  /\ \E n \in 1..2 :
       /\ Cut(2, n)
       /\ op' = NoOp
       /\ IF n >= 2 THEN ScaleDown ELSE ReleaseKept
  /\ UNCHANGED <<known, vol, saveOff, jobs, files>>

BeginSnapshot(kind, src) ==
  /\ ~(Released /\ ShuttingDown)
  /\ HasFresh
  /\ \E n \in 1..3, paused \in BOOLEAN :
       /\ Cut(3, n)
       /\ IF release = "running" /\ Ready # {}
          THEN Pause(paused)
          ELSE ~paused /\ UNCHANGED saveOff
       /\ op' = IF n >= 2
                THEN [NewOp(kind, "snapshot", Fresh, src) EXCEPT !.paused = paused]
                ELSE op
       /\ jobs' = IF n >= 3 THEN JobsWith(Fresh, "snapshot", None) ELSE jobs
       /\ kept' = (n = 1 /\ kept)
  /\ UNCHANGED <<known, release, vol, pods, files>>

RecordOnly(o) ==
  /\ op' = o
  /\ UNCHANGED <<known, release, vol, pods, saveOff, jobs, files, kept, faults>>

Snapshot == Idle /\ BeginSnapshot("snapshot", None)

\* Mutant of Restore: takes every world for one with nothing worth keeping.
RestoreUnsaved(src) ==
  /\ Idle /\ There(src) /\ HasTwoFresh
  /\ RecordOnly(NewOp("restore", "drain", None, src))

Restore(src) ==
  /\ Idle /\ There(src) /\ HasTwoFresh
  /\ IF op.step \in {"seed", "install"}
     THEN RecordOnly(NewOp("restore", "drain", None, src))
     ELSE BeginSnapshot("restore", src)

\* Mutant of Delete: tears a released world down without a snapshot.
DeleteUnsaved ==
  /\ Idle
  /\ RecordOnly(NewOp("delete", "teardown", None, None))

Delete ==
  /\ Idle
  /\ IF ~Released \/ op.step = "seed"
     THEN RecordOnly(NewOp("delete", "teardown", None, None))
     ELSE BeginSnapshot("delete", None)

\* A settings save of a stopped or unreleased world changes only its spec.
UpdateSettings ==
  /\ Idle /\ release = "running"
  /\ ScaleUp
  /\ UNCHANGED <<known, op, vol, saveOff, jobs, files, faults>>

DeleteBackup(f) ==
  /\ \E i \in DOMAIN files : files[i] = f /\ files' = RemoveAt(files, i)
  /\ UNCHANGED <<known, op, release, vol, pods, saveOff, jobs, kept, faults>>

-----------------------------------------------------------------------------
(* The reconciler: one _advance per action *)

At(step) == known /\ Pending /\ op.step = step

\* _job_status: a Job that is not there is created again under its name.
RecreateJob(kind, src) ==
  /\ jobs[op.job].status = "absent"
  /\ \E how \in Endings, n \in 0..1 :
       /\ Ended(1, n, how)
       /\ Recorded(how, op)
       /\ jobs' = IF n = 1 THEN JobsWith(op.job, kind, src) ELSE jobs
  /\ UNCHANGED <<known, release, vol, pods, saveOff, files, kept>>

RecreateSnapshotJob ==
  /\ At("snapshot") /\ op.job \notin ToSet(files)
  /\ RecreateJob("snapshot", None)

\* Mutant of SnapshotFailed: save-on only after a success.
SnapshotFailedPaused ==
  /\ At("snapshot") /\ SawFailure(op.job)
  /\ op' = NoOp
  /\ UNCHANGED <<known, release, vol, pods, saveOff, jobs, files, kept, faults>>

\* A failed snapshot aborts the operation.
SnapshotFailed ==
  /\ At("snapshot") /\ SawFailure(op.job)
  /\ SaveOn
  /\ op' = NoOp
  /\ UNCHANGED <<known, release, vol, pods, jobs, files, kept, faults>>

\* Mutant of SnapshotWritten: the file of a vanished Job does not count.
SnapshotJobThere == SawSuccess(op.job)

SnapshotWritten ==
  \/ SawSuccess(op.job)
  \/ jobs[op.job].status = "absent" /\ op.job \in ToSet(files)

\* Mutant of AfterSnapshot: a step name no handler knows.
AfterSnapshotUnknown == [op EXCEPT !.step = "stop"]

AfterSnapshot ==
  IF op.kind \in {"snapshot", "stop"} THEN NoOp
  ELSE [op EXCEPT !.step = IF op.kind = "restore" THEN "drain" ELSE "teardown"]

\* save-on and prune, then stop and restore scale to 0, then the record.
SnapshotDone ==
  /\ At("snapshot") /\ SnapshotWritten
  /\ SaveOn
  /\ Prune
  /\ \E how \in Endings, n \in 0..2 :
       /\ Ended(2, n, how)
       /\ IF n >= 1 /\ Released /\ op.kind \in {"stop", "restore"}
          THEN ScaleDown ELSE ReleaseKept
       /\ Recorded(how, IF n = 2 THEN AfterSnapshot ELSE op)
  /\ UNCHANGED <<known, vol, jobs>>

\* Mutant of Drain: seeds under the server that is still stopping.
DrainAtOnce ==
  /\ At("drain") /\ HasFresh
  /\ op' = [op EXCEPT !.step = "seed", !.job = Fresh]
  /\ jobs' = JobsWith(Fresh, "seed", op.src)
  /\ UNCHANGED <<known, release, vol, pods, saveOff, files, kept, faults>>

Drain ==
  /\ At("drain") /\ Live = {} /\ HasFresh
  /\ \E how \in Endings, n \in 0..2 :
       /\ Ended(2, n, how)
       /\ Recorded(how, IF n >= 1 THEN [op EXCEPT !.step = "seed", !.job = Fresh]
                                  ELSE op)
       /\ jobs' = IF n = 2 THEN JobsWith(Fresh, "seed", op.src) ELSE jobs
  /\ UNCHANGED <<known, release, vol, pods, saveOff, files, kept>>

RecreateSeedJob == At("seed") /\ RecreateJob("seed", op.src)

SeedFailed ==
  /\ At("seed") /\ SawFailure(op.job)
  /\ RecordOnly(Failed(op))

SeedDone ==
  /\ At("seed") /\ SawSuccess(op.job)
  /\ \E how \in Endings, n \in 0..2 :
       /\ Ended(2, n, how)
       /\ IF n >= 1 THEN ScaleUp ELSE ReleaseKept
       /\ Recorded(how, IF n = 2 THEN NoOp ELSE op)
  /\ UNCHANGED <<known, vol, saveOff, jobs, files>>

FinishInstall ==
  /\ At("install")
  /\ \E how \in Endings, n \in 0..3 :
       /\ Ended(3, n, how)
       /\ IF n >= 1 THEN Provision ELSE UNCHANGED vol
       /\ IF n >= 2 THEN ScaleUp ELSE ReleaseKept
       /\ Recorded(how, IF n = 3 THEN NoOp ELSE op)
  /\ UNCHANGED <<known, saveOff, jobs, files>>

\* Mutant of Teardown: the record goes first.
TeardownRecordFirst ==
  /\ At("teardown")
  /\ known' = FALSE /\ op' = NoOp
  /\ \E n \in 1..2 :
       /\ Cut(2, n)
       /\ release' = IF n = 2 THEN "absent" ELSE release
       /\ pods' = IF n = 2 THEN Retired("stopping") ELSE pods
  /\ UNCHANGED <<vol, jobs, saveOff, files, kept>>

\* Mutant of Teardown: the volume is forgotten.
TeardownLeavesVolume ==
  /\ At("teardown")
  /\ known' = FALSE /\ op' = NoOp /\ release' = "absent"
  /\ pods' = Retired("stopping")
  /\ jobs' = [j \in Jobs |-> NoJob]
  /\ UNCHANGED <<vol, saveOff, files, kept, faults>>

\* helm uninstall, the Jobs, the volume, the record.  A claim that a pod still
\* mounts is only marked for deletion.  Recording an error writes the record back.
Teardown ==
  /\ At("teardown")
  /\ \E how \in Endings, n \in 0..4 :
       /\ Ended(4, n, how)
       /\ release' = IF n >= 1 THEN "absent" ELSE release
       /\ pods' = IF n >= 1 THEN Retired("stopping") ELSE pods
       /\ jobs' = IF n >= 2 THEN [j \in Jobs |-> NoJob] ELSE jobs
       /\ vol' = IF n < 3 \/ vol = "none" THEN vol
                 ELSE IF Live = {} /\ ~(\E j \in Jobs : Active(j)) THEN "none"
                 ELSE "doomed"
       /\ known' = (n < 4 \/ how = "error")
       /\ Recorded(how, IF n = 4 THEN NoOp ELSE op)
  /\ UNCHANGED <<saveOff, files, kept>>

Reconcile ==
  \/ RecreateSnapshotJob \/ SnapshotFailed \/ SnapshotDone
  \/ Drain
  \/ RecreateSeedJob \/ SeedFailed \/ SeedDone
  \/ FinishInstall
  \/ Teardown

-----------------------------------------------------------------------------
(* The cluster *)

Usable == vol \notin {"none", "doomed"}

PodsOnly == UNCHANGED <<known, op, release, jobs, files, kept, faults>>

\* The ReplicaSet ignores a terminating pod of its own template; the
\* Deployment waits for one of an older template.
PodStarts(p) ==
  /\ release = "running" /\ pods[p] = "none"
  /\ \A q \in Pods : pods[q] \in {"none", "stopping"}
  /\ pods' = [pods EXCEPT ![p] = "starting"]
  /\ PodsOnly /\ UNCHANGED <<vol, saveOff>>

PodReady(p) ==
  /\ pods[p] = "starting" /\ Usable
  /\ pods' = [pods EXCEPT ![p] = "ready"]
  /\ vol' = IF vol = "partial" THEN vol ELSE "played"
  /\ PodsOnly /\ UNCHANGED saveOff

\* The server process restarts inside its pod, with saving on.
ServerRestarts(p) ==
  /\ pods[p] = "ready"
  /\ pods' = [pods EXCEPT ![p] = "starting"]
  /\ saveOff' = saveOff \ {p}
  /\ PodsOnly /\ UNCHANGED vol

PodGone(p) ==
  /\ pods[p] \in {"stopping", "replaced"}
  /\ pods' = [pods EXCEPT ![p] = "none"]
  /\ saveOff' = saveOff \ {p}
  /\ PodsOnly /\ UNCHANGED vol

VolumeGone ==
  /\ vol = "doomed" /\ Live = {}
  /\ vol' = "none"
  /\ PodsOnly /\ UNCHANGED <<pods, saveOff>>

JobsOnly == UNCHANGED <<known, op, release, pods, saveOff>>

JobIs(j, status) == jobs' = [jobs EXCEPT ![j].status = status]

Opened(j) == jobs[j].status \in {"copying", "recopying"}

Finished(j) == IF FirstPod(j) THEN "succeeded" ELSE "recovered"

\* seed.py opens its source before it wipes the volume.
SeedWipes(j) ==
  /\ jobs[j].kind = "seed" /\ Active(j) /\ ~Opened(j)
  /\ Usable /\ There(jobs[j].src)
  /\ vol' = "partial"
  /\ JobIs(j, IF FirstPod(j) THEN "copying" ELSE "recopying")
  /\ JobsOnly /\ UNCHANGED <<files, kept, faults>>

SeedSucceeds(j) ==
  /\ Opened(j) /\ Usable
  /\ vol' = "seeded"
  /\ JobIs(j, Finished(j))
  /\ JobsOnly /\ UNCHANGED <<files, kept, faults>>

\* snapshot.py refuses a volume with no world/level.dat.
SnapshotSucceeds(j) ==
  /\ Active(j) /\ jobs[j].kind = "snapshot"
  /\ vol \in {"partial", "seeded", "played"}
  /\ files' = IF j \in ToSet(files) THEN files ELSE Append(files, j)
  /\ kept' = TRUE
  /\ JobIs(j, Finished(j))
  /\ JobsOnly /\ UNCHANGED <<vol, faults>>

\* Nothing a Job could work with: it fails whatever happens.
Hopeless(j) ==
  \/ jobs[j].kind = "seed" /\ ~Opened(j) /\ ~There(jobs[j].src)
  \/ jobs[j].kind = "snapshot" /\ vol \in {"empty", "partial"}

JobPodFails(j) ==
  /\ Active(j) /\ Usable
  /\ "job" \in Faults \/ Hopeless(j)
  /\ JobIs(j, IF FirstPod(j) THEN "retrying" ELSE "failed")
  /\ JobsOnly /\ UNCHANGED <<vol, files, kept, faults>>

\* The TTL controller removes a Job an hour after it finished.
JobExpires(j) ==
  /\ jobs[j].status \in {"succeeded", "recovered", "failed"}
  /\ IF Pending /\ op.job = j
     THEN Affordable("expire") /\ faults' = faults + 1
     ELSE UNCHANGED faults
  /\ jobs' = [jobs EXCEPT ![j] = NoJob]
  /\ JobsOnly /\ UNCHANGED <<vol, files, kept>>

-----------------------------------------------------------------------------

\* A cluster with no world of this name, or a world whose "stop" operation an
\* older dashboard left behind.
Init ==
  /\ saveOff = {} /\ files = <<>> /\ kept = FALSE /\ faults = 0
  /\ \/ /\ known = FALSE /\ op = NoOp /\ release = "absent" /\ vol = "none"
        /\ pods = [p \in Pods |-> "none"]
        /\ jobs = [j \in Jobs |-> NoJob]
     \/ /\ known = TRUE /\ release = "running" /\ vol = "played"
        /\ \E p \in Pods, j \in Jobs :
             /\ pods = [q \in Pods |-> IF q = p THEN "ready" ELSE "none"]
             /\ op = NewOp("stop", "snapshot", j, None)
             /\ jobs = [i \in Jobs |-> NoJob]

Request ==
  \/ \E src \in Jobs \cup {Archive} : Launch(src) \/ Restore(src)
  \/ CreateWorld \/ Start \/ Stop \/ Snapshot \/ Delete \/ UpdateSettings
  \/ \E f \in Jobs : DeleteBackup(f)

Cluster ==
  \/ \E p \in Pods : PodStarts(p) \/ PodReady(p) \/ ServerRestarts(p) \/ PodGone(p)
  \/ VolumeGone
  \/ \E j \in Jobs :
       \/ SeedWipes(j) \/ SeedSucceeds(j) \/ SnapshotSucceeds(j)
       \/ JobPodFails(j) \/ JobExpires(j)

Next == Request \/ Reconcile \/ Cluster

Spec == Init /\ [][Next]_vars

\* The reconciler ticks every 3 seconds; pods terminate and Jobs run to an end.
Fairness ==
  /\ WF_vars(Reconcile)
  /\ WF_vars(VolumeGone)
  /\ \A p \in Pods : WF_vars(PodGone(p))
  /\ \A j \in Jobs :
       /\ WF_vars(SeedWipes(j) \/ SeedSucceeds(j) \/ SnapshotSucceeds(j)
                    \/ (Hopeless(j) /\ JobPodFails(j)))
       /\ WF_vars(JobExpires(j))

FairSpec == Spec /\ Fairness

-----------------------------------------------------------------------------
(* Properties *)

Seeding(j) == jobs[j].kind = "seed" /\ Active(j)

SeedingFirst(j) == jobs[j].kind = "seed" /\ FirstPod(j)

\* The first pod of a seed Job has the volume to itself: no server exists or
\* is wanted, and no other seed Job's first pod works (drain, _shutting_down).
FirstSeedAlone ==
  \A j \in Jobs :
    SeedingFirst(j) =>
      /\ Live = {} /\ release # "running"
      /\ \A i \in Jobs \ {j} : ~SeedingFirst(i)

\* "Two servers never share the PVC" (docs/design.md, Worlds).
OneServer == \A p, q \in Live : p = q

\* No server serves a half-copied world: "the Helm release is installed only
\* after the Job succeeds" (docs/design.md, Seeding).
ServerOnWholeWorld == Ready # {} => vol # "partial"

\* Data players changed is wiped or deleted only once a snapshot holds it
\* (restore and delete take one first).
PlayedDataKept ==
  [][vol = "played" /\ vol' \in {"partial", "seeded", "doomed", "none"} => kept]_vars

\* While a serving server does not save, the reconciler still has the
\* operation that will turn saving on again (save-off, Job, save-on).
SavingResumes == saveOff \cap Ready # {} => At("snapshot") /\ op.paused

\* The record is written before the first resource of a world and deleted
\* after the last: nothing is left that no page of the dashboard shows.
NoOrphans ==
  ~known =>
    /\ release = "absent" /\ vol \in {"none", "doomed"}
    /\ \A j \in Jobs : jobs[j] = NoJob

\* A pending operation only ends, fails or takes the next step of its kind,
\* whatever is requested meanwhile (_busy).
BusyProtected ==
  [][Pending /\ op' # op =>
       \/ op' \in {NoOp, Failed(op)}
       \/ /\ op'.kind = op.kind
          /\ \/ op.step = "snapshot" /\ op'.step \in {"drain", "teardown"}
             \/ op.step = "drain" /\ op'.step = "seed"]_vars

\* Every accepted operation ends, in success or with a recorded error.
OperationsEnd == Pending ~> ~Pending

\* A delete that passed its snapshot frees the name: record and volume go.
DeleteFrees == At("teardown") ~> ~known /\ vol = "none"

-----------------------------------------------------------------------------
(* Promises of the documentation that the code breaks *)

\* _job_status: "Finished Job status, or None while running": once a seed Job
\* was taken for finished none of its pods works on the volume.
SeedJobsTracked == \A j \in Jobs : Seeding(j) => At("seed") /\ op.job = j

\* "Restore from any backup" (README.md): the snapshot taken before a restore
\* does not push out the snapshot being restored.
RestoreKeepsSource ==
  [][At("snapshot") /\ op.kind = "restore" /\ There(op.src) /\ op'.step = "drain" =>
       op.src = Archive \/ op.src \in ToSet(files')]_vars

=============================================================================

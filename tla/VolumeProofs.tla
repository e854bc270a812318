---------------------------- MODULE VolumeProofs ----------------------------
(***************************************************************************)
(* Theorems about what World does to the data on the volume, and that it   *)
(* implements WorldVolume, for every set of Jobs and Pods, every Keep and  *)
(* every number of crashes and failed RCON commands.                       *)
(***************************************************************************)
EXTENDS WorldRefinement, WorldProofs

(***************************************************************************)
(* Where a seed Job's data comes from                                      *)
(*                                                                         *)
(* A seed Job whose first pod found no source tries once more, when a      *)
(* server may already run.  It never gets further: a backup that is gone   *)
(* stays gone, since the only Job that could write a file of that name has *)
(* written it before somebody could name it as a source (SourcesOld), and  *)
(* a file's Job no longer works (FilesDone).                               *)
(***************************************************************************)

SnapshotActive(j) == jobs[j].kind = "snapshot" /\ Active(j)

FilesDone == \A f \in Jobs : f \in ToSet(files) => ~SnapshotActive(f)

SourcesOld ==
  \A f \in Jobs :
    f = op.src \/ (\E i \in Jobs : f = jobs[i].src) =>
      ~SnapshotActive(f) /\ ~(op.step = "snapshot" /\ op.job = f)

SecondPodsFail ==
  \A j \in Jobs :
    jobs[j].kind = "seed" =>
      /\ jobs[j].status \notin {"recopying", "recovered"}
      /\ jobs[j].status = "retrying" => ~There(jobs[j].src)

OnlySeedsOpen == \A j \in Jobs : Opened(j) => jobs[j].kind = "seed"

SourceInv == FilesDone /\ SourcesOld /\ SecondPodsFail /\ OnlySeedsOpen

(* A record, or the removal of files, keeps the invariant when its source  *)
(* is there or was named before, and its snapshot Job was, or is a new one.*)
LEMMA SourceRecorded ==
  ASSUME TypeOK, SourceInv, jobs' = jobs, ToSet(files') \subseteq ToSet(files),
         op'.src \in Jobs => op'.src = op.src \/ op'.src \in ToSet(files),
         op'.step = "snapshot" =>
           \/ op.step = "snapshot" /\ op'.job = op.job /\ op'.src = op.src
           \/ Unused(op'.job) /\ (op'.src \in Jobs => op'.src \in ToSet(files))
  PROVE  SourceInv'
<1> USE DEF SourceInv
<1>1. \A j \in Jobs : SnapshotActive(j)' <=> SnapshotActive(j)
  BY DEF SnapshotActive, Active, FirstPod
<1>2. FilesDone' /\ OnlySeedsOpen'
  BY <1>1 DEF FilesDone, OnlySeedsOpen, Opened
<1>3. SecondPodsFail'
  BY DEF SecondPodsFail, There
<1>4. SourcesOld'
  BY <1>1 DEF SourcesOld, FilesDone, Unused
<1> QED BY <1>2, <1>3, <1>4

(* So does the making of a seed Job for the recorded source.               *)
LEMMA SeedJobMade ==
  ASSUME TypeOK, SourceInv, files' = files, op'.step # "snapshot",
         NEW j \in Jobs, jobs[j].status = "absent", jobs' = JobsWith(j, "seed", op'.src),
         op'.src \in Jobs => op'.src = op.src \/ op'.src \in ToSet(files)
  PROVE  SourceInv'
<1> USE DEF SourceInv
<1>1. \A i \in Jobs :
        jobs'[i] = IF i = j
                   THEN [kind |-> "seed", src |-> op'.src, status |-> "running"]
                   ELSE jobs[i]
  BY DEF TypeOK, JobsWith
<1>2. \A i \in Jobs : SnapshotActive(i)' => SnapshotActive(i)
  BY <1>1 DEF SnapshotActive, Active, FirstPod
<1>3. FilesDone' /\ OnlySeedsOpen'
  BY <1>1, <1>2 DEF FilesDone, OnlySeedsOpen, Opened
<1>4. SecondPodsFail'
  BY <1>1 DEF SecondPodsFail, There
<1>5. SourcesOld'
  BY <1>1, <1>2 DEF SourcesOld, FilesDone
<1> QED BY <1>3, <1>4, <1>5

(* And of a snapshot Job whose name nobody uses as a source.               *)
LEMMA SnapshotJobMade ==
  ASSUME TypeOK, SourceInv, files' = files,
         NEW j \in Jobs, j \notin ToSet(files), \A i \in Jobs : j # jobs[i].src,
         jobs' = JobsWith(j, "snapshot", None), op'.step = "snapshot", op'.job = j,
         op'.src # j,
         op'.src \in Jobs => op'.src = op.src \/ op'.src \in ToSet(files)
  PROVE  SourceInv'
<1> USE DEF SourceInv
<1>1. \A i \in Jobs :
        jobs'[i] = IF i = j
                   THEN [kind |-> "snapshot", src |-> None, status |-> "running"]
                   ELSE jobs[i]
  BY DEF TypeOK, JobsWith
<1>2. \A i \in Jobs : SnapshotActive(i)' => SnapshotActive(i) \/ i = j
  BY <1>1 DEF SnapshotActive, Active, FirstPod
<1>3. FilesDone' /\ OnlySeedsOpen'
  BY <1>1, <1>2 DEF FilesDone, OnlySeedsOpen, Opened
<1>4. SecondPodsFail'
  BY <1>1 DEF SecondPodsFail, There
<1>5. SourcesOld'
  <2> SUFFICES ASSUME NEW f \in Jobs, f = op'.src \/ \E i \in Jobs : f = jobs'[i].src
               PROVE  f # j /\ ~SnapshotActive(f)
    BY <1>2 DEF SourcesOld
  <2>1. f # j
    BY <1>1, NamesAssumption
  <2>2. f \in ToSet(files) \/ f = op.src \/ \E i \in Jobs : f = jobs[i].src
    BY <1>1, NamesAssumption
  <2> QED BY <2>1, <2>2 DEF SourcesOld, FilesDone
<1> QED BY <1>3, <1>4, <1>5

(* Deleting a backup, and pruning, keep some of the files.                 *)
LEMMA FileRemoved ==
  ASSUME TypeOK, NEW f \in Jobs, DeleteBackup(f)
  PROVE  ToSet(files') \subseteq ToSet(files)
<1>1. PICK i \in DOMAIN files : files' = RemoveAt(files, i)
  BY DEF DeleteBackup
<1>2. files' = SubSeq(files, 1, i - 1) \o SubSeq(files, i + 1, Len(files))
  BY <1>1 DEF RemoveAt
<1>3. ASSUME NEW m \in 1..(Len(files) + 1), NEW n \in 0..Len(files),
             NEW k \in DOMAIN SubSeq(files, m, n)
      PROVE  SubSeq(files, m, n)[k] \in ToSet(files)
  <2>1. /\ SubSeq(files, m, n)[k] = files[m + k - 1]
        /\ m + k - 1 \in DOMAIN files
    BY <1>3 DEF TypeOK
  <2> QED BY <2>1 DEF ToSet
<1>4. /\ i \in 1..Len(files) /\ files \in Seq(Jobs)
      /\ i - 1 \in 0..Len(files) /\ i + 1 \in 1..(Len(files) + 1)
      /\ 1 \in 1..(Len(files) + 1) /\ Len(files) \in 0..Len(files)
  BY <1>1 DEF TypeOK
<1>5. \A k \in DOMAIN files' : files'[k] \in ToSet(files)
  <2> DEFINE s == SubSeq(files, 1, i - 1)
             t == SubSeq(files, i + 1, Len(files))
  <2>1. s \in Seq(Jobs) /\ t \in Seq(Jobs)
    BY <1>4, SubSeqProperties
  <2>2. /\ \A k \in DOMAIN s : s[k] \in ToSet(files)
        /\ \A k \in DOMAIN t : t[k] \in ToSet(files)
    BY <1>3, <1>4
  <2>3. files' = s \o t
    BY <1>2
  <2> HIDE DEF s, t
  <2> QED BY <2>1, <2>2, <2>3
<1> QED BY <1>5 DEF ToSet

LEMMA RequestSourceInv ==
  ASSUME TypeOK, SourceInv, Request
  PROVE  SourceInv'
<1>1. ASSUME NEW src \in Jobs \cup {Archive}, There(src) PROVE src \in Jobs => src \in ToSet(files)
  BY <1>1, NamesAssumption DEF There
<1>2. ASSUME NEW src \in Jobs \cup {Archive}, Launch(src) PROVE SourceInv'
  <2>1. /\ op' = NewOp("launch", "seed", Fresh, src) /\ files' = files
        /\ Fresh \in Jobs /\ jobs[Fresh].status = "absent"
        /\ src \in Jobs => src \in ToSet(files)
    BY <1>1, <1>2, FreshIsUnused DEF Launch, Unused
  <2>2. op'.src = src /\ op'.step = "seed"
    BY <2>1 DEF NewOp
  <2>3. jobs' = jobs \/ jobs' = JobsWith(Fresh, "seed", src)
    BY <1>2 DEF Launch
  <2>4. CASE jobs' = jobs
    BY <2>1, <2>2, <2>4, SourceRecorded
  <2>5. CASE jobs' = JobsWith(Fresh, "seed", src)
    BY <2>1, <2>2, <2>5, SeedJobMade
  <2> QED BY <2>3, <2>4, <2>5
<1>3. ASSUME UNCHANGED <<jobs, files>>,
             op' = op \/ (op'.src \notin Jobs /\ op'.step # "snapshot")
      PROVE  SourceInv'
  BY <1>3, SourceRecorded
<1>4. NoOp.src \notin Jobs /\ NoOp.step = "none"
  BY NamesAssumption DEF NoOp, NewOp
<1>5. CASE CreateWorld
  <2>1. UNCHANGED <<jobs, files>>
    BY <1>5 DEF CreateWorld
  <2>2. op'.src = None /\ op'.step \in {"none", "install"}
    BY <1>5 DEF CreateWorld, NoOp, NewOp, Failed
  <2> QED BY <1>3, <2>1, <2>2, NamesAssumption
<1>6. CASE RetrySeed
  <2>1. /\ op' = [op EXCEPT !.job = Fresh, !.failed = FALSE] /\ files' = files
        /\ Fresh \in Jobs /\ jobs[Fresh].status = "absent" /\ op.step = "seed"
    BY <1>6, FreshIsUnused DEF RetrySeed, Unused
  <2>2. op'.src = op.src /\ op'.step = "seed"
    BY <2>1 DEF TypeOK, Ops
  <2>3. jobs' = jobs \/ jobs' = JobsWith(Fresh, "seed", op.src)
    BY <1>6 DEF RetrySeed
  <2>4. CASE jobs' = jobs
    BY <2>1, <2>2, <2>4, SourceRecorded
  <2>5. CASE jobs' = JobsWith(Fresh, "seed", op.src)
    BY <2>1, <2>2, <2>5, SeedJobMade
  <2> QED BY <2>3, <2>4, <2>5
<1>7. CASE StartServer \/ Stop
  BY <1>3, <1>4, <1>7 DEF StartServer, Stop
<1>8. ASSUME NEW kind, NEW src \in Sources, BeginSnapshot(kind, src),
             src \in Jobs => src \in ToSet(files)
      PROVE  SourceInv'
  <2>1. /\ files' = files /\ Fresh \in Jobs /\ Unused(Fresh)
        /\ Fresh \notin ToSet(files) /\ \A i \in Jobs : Fresh # jobs[i].src
    BY <1>8, FreshIsUnused DEF BeginSnapshot, Unused
  <2>2. PICK n \in 1..3, paused \in BOOLEAN :
          /\ op' = IF n >= 2
                   THEN [NewOp(kind, "snapshot", Fresh, src) EXCEPT !.paused = paused]
                   ELSE op
          /\ jobs' = IF n >= 3 THEN JobsWith(Fresh, "snapshot", None) ELSE jobs
    BY <1>8 DEF BeginSnapshot
  <2>3. CASE n = 1
    <3>1. op' = op /\ jobs' = jobs
      BY <2>2, <2>3
    <3> QED BY <1>3, <2>1, <3>1
  <2>4. CASE n >= 2
    <3>1. op'.step = "snapshot" /\ op'.job = Fresh /\ op'.src = src
      BY <2>2, <2>4 DEF NewOp
    <3>2. src # Fresh
      BY <1>8, <2>1
    <3>3. CASE jobs' = jobs
      BY <1>8, <2>1, <3>1, <3>3, SourceRecorded
    <3>4. CASE jobs' = JobsWith(Fresh, "snapshot", None)
      BY <1>8, <2>1, <3>1, <3>2, <3>4, SnapshotJobMade
    <3> QED BY <2>2, <3>3, <3>4
  <2> QED BY <2>3, <2>4
<1>9. ASSUME NEW kind, RecordOnly(NewOp(kind, "teardown", None, None)) PROVE SourceInv'
  BY <1>3, <1>9, NamesAssumption DEF RecordOnly, NewOp
<1>10. CASE Snapshot \/ Delete
  BY <1>8, <1>9, <1>10, NamesAssumption DEF Snapshot, Delete, Sources
<1>11. ASSUME NEW src \in Jobs \cup {Archive}, Restore(src) PROVE SourceInv'
  <2>1. src \in Jobs => src \in ToSet(files)
    BY <1>1, <1>11 DEF Restore
  <2>2. CASE RecordOnly(NewOp("restore", "drain", None, src))
    BY <2>1, <2>2, SourceRecorded DEF RecordOnly, NewOp
  <2> QED BY <1>8, <1>11, <2>1, <2>2 DEF Restore, Sources
<1>12. CASE UpdateSettings
  BY <1>3, <1>12 DEF UpdateSettings
<1>13. ASSUME NEW f \in Jobs, DeleteBackup(f) PROVE SourceInv'
  BY <1>13, FileRemoved, SourceRecorded DEF DeleteBackup
<1> QED
  BY <1>2, <1>5, <1>6, <1>7, <1>10, <1>11, <1>12, <1>13 DEF Request, Start

LEMMA PruneKeepsSome ==
  ASSUME TypeOK, Prune
  PROVE  ToSet(files') \subseteq ToSet(files)
<1>1. ASSUME Len(files) > Keep, files' = Pruned PROVE ToSet(files') \subseteq ToSet(files)
  <2> DEFINE d == Len(files) - Keep
  <2>1. files \in Seq(Jobs) /\ Len(files) \in Nat /\ Keep \in Nat
    BY KeepAssumption DEF TypeOK
  <2>2. d \in Nat /\ Len(files) = d + Keep /\ files' = SubSeq(files, d + 1, d + Keep)
    BY <1>1, <2>1 DEF Pruned
  <2> HIDE DEF d
  <2>3. /\ DOMAIN files' = 1..Keep
        /\ \A k \in 1..Keep : files'[k] = files[d + k]
    BY <2>1, <2>2
  <2>4. \A k \in 1..Keep : d + k \in DOMAIN files
    BY <2>1, <2>2
  <2> QED BY <2>3, <2>4 DEF ToSet
<1> QED BY <1>1 DEF Prune

LEMMA ReconcileSourceInv ==
  ASSUME TypeOK, SourceInv, Reconcile, Faults \subseteq {"crash", "rcon"}
  PROVE  SourceInv'
<1>0. NoOp.src \notin Jobs /\ NoOp.step = "none"
  BY NamesAssumption DEF NoOp, NewOp
<1>1. ASSUME UNCHANGED <<jobs, files>>, op' \in {op, NoOp} PROVE SourceInv'
  BY <1>0, <1>1, SourceRecorded
<1>2. CASE RecreateSnapshotJob
  <2>1. /\ op.step = "snapshot" /\ op' = op /\ files' = files /\ op.job \in Jobs
        /\ op.job \notin ToSet(files) /\ jobs[op.job].status = "absent"
        /\ jobs' \in {jobs, JobsWith(op.job, "snapshot", None)}
    BY <1>2, NoErrors DEF RecreateSnapshotJob, RecreateJob, At, Recorded, TypeOK, Ops
  <2>2. op.src # op.job /\ \A i \in Jobs : op.job # jobs[i].src
    BY <2>1 DEF SourceInv, SourcesOld
  <2> QED BY <1>1, <2>1, <2>2, SnapshotJobMade
<1>3. CASE RecreateSeedJob
  <2>1. /\ op.step = "seed" /\ op' = op /\ files' = files /\ op.job \in Jobs
        /\ jobs[op.job].status = "absent"
        /\ jobs' \in {jobs, JobsWith(op.job, "seed", op.src)}
    BY <1>3, NoErrors DEF RecreateSeedJob, RecreateJob, At, Recorded, TypeOK, Ops
  <2> QED BY <1>1, <2>1, SeedJobMade
<1>4. CASE SnapshotFailed \/ SeedDone \/ FinishInstall
  BY <1>1, <1>4, NoErrors DEF SnapshotFailed, SeedDone, FinishInstall, Recorded
<1>5. CASE SnapshotDone
  <2>1. /\ op.step = "snapshot" /\ jobs' = jobs /\ Prune
        /\ op' \in {op, NoOp, [op EXCEPT !.step = "drain"], [op EXCEPT !.step = "teardown"]}
    BY <1>5, NoErrors DEF SnapshotDone, At, Recorded, AfterSnapshot
  <2>2. op' = op \/ (op'.step # "snapshot" /\ (op'.src = op.src \/ op'.src \notin Jobs))
    BY <1>0, <2>1 DEF TypeOK, Ops
  <2> QED BY <2>1, <2>2, PruneKeepsSome, SourceRecorded
<1>6. CASE Drain
  <2>1. /\ op.step = "drain" /\ files' = files
        /\ Fresh \in Jobs /\ jobs[Fresh].status = "absent"
        /\ op' \in {op, [op EXCEPT !.step = "seed", !.job = Fresh]}
        /\ jobs' \in {jobs, JobsWith(Fresh, "seed", op.src)}
    BY <1>6, NoErrors, FreshIsUnused DEF Drain, At, Recorded, Unused
  <2>2. op'.step \in {"drain", "seed"} /\ op'.src = op.src
    BY <2>1 DEF TypeOK, Ops
  <2> QED BY <2>1, <2>2, SourceRecorded, SeedJobMade
<1>7. CASE SeedFailed
  <2>1. UNCHANGED <<jobs, files>> /\ op' = Failed(op) /\ op.step = "seed"
    BY <1>7 DEF SeedFailed, RecordOnly, At
  <2>2. op'.src = op.src /\ op'.step = "seed"
    BY <2>1 DEF Failed, TypeOK, Ops
  <2> QED BY <2>1, <2>2, SourceRecorded
<1>8. CASE Teardown
  <2>1. op' \in {op, NoOp} /\ files' = files /\ jobs' \in {jobs, [j \in Jobs |-> NoJob]}
    BY <1>8, NoErrors DEF Teardown, Recorded
  <2>2. CASE jobs' = [j \in Jobs |-> NoJob]
    <3>1. \A j \in Jobs : jobs'[j].kind = "none" /\ jobs'[j].src = None
                          /\ jobs'[j].status = "absent"
      BY <2>2 DEF NoJob
    <3>2. FilesDone' /\ SecondPodsFail' /\ OnlySeedsOpen'
      BY <3>1 DEF FilesDone, SecondPodsFail, OnlySeedsOpen, SnapshotActive, Opened
    <3>3. SourcesOld'
      <4> SUFFICES ASSUME NEW f \in Jobs, f = op'.src
                   PROVE  ~SnapshotActive(f)' /\ ~(op'.step = "snapshot" /\ op'.job = f)
        BY <3>1, NamesAssumption DEF SourcesOld
      <4>1. op' = op
        BY <1>0, <2>1
      <4> QED BY <3>1, <4>1 DEF SnapshotActive, SourceInv, SourcesOld
    <3> QED BY <3>2, <3>3 DEF SourceInv
  <2> QED BY <1>1, <2>1, <2>2
<1> QED BY <1>2, <1>3, <1>4, <1>5, <1>6, <1>7, <1>8 DEF Reconcile

LEMMA ClusterSourceInv ==
  ASSUME TypeOK, SourceInv, Cluster, Faults \subseteq {"crash", "rcon"}
  PROVE  SourceInv'
<1> USE DEF SourceInv
<1>1. ASSUME UNCHANGED <<op, jobs, files>> PROVE SourceInv'
  BY <1>1, SourceRecorded
<1>2. ASSUME NEW p \in Pods,
             PodStarts(p) \/ PodReady(p) \/ ServerRestarts(p) \/ PodGone(p)
      PROVE  SourceInv'
  BY <1>1, <1>2 DEF PodStarts, PodReady, ServerRestarts, PodGone, PodsOnly
<1>3. CASE VolumeGone
  BY <1>1, <1>3 DEF VolumeGone, PodsOnly
<1>4. ASSUME NEW j \in Jobs, NEW status, JobIs(j, status), Active(j), op' = op,
             ToSet(files') \subseteq ToSet(files) \cup {j},
             j \in ToSet(files') /\ j \notin ToSet(files) =>
               jobs[j].kind = "snapshot" /\ status \in {"succeeded", "recovered"},
             status \in {"copying", "recopying", "succeeded", "recovered",
                         "retrying", "failed"},
             status \in {"copying", "recopying"} => jobs[j].kind = "seed",
             jobs[j].kind = "seed" =>
               /\ status \notin {"recopying", "recovered"}
               /\ status = "retrying" => ~There(jobs[j].src)
      PROVE  SourceInv'
  <2>1. \A i \in Jobs :
          /\ jobs'[i].kind = jobs[i].kind /\ jobs'[i].src = jobs[i].src
          /\ jobs'[i].status = IF i = j THEN status ELSE jobs[i].status
    BY <1>4 DEF TypeOK, JobRecords, JobIs
  <2>2. \A i \in Jobs : SnapshotActive(i)' => SnapshotActive(i)
    BY <1>4, <2>1 DEF SnapshotActive, Active, FirstPod
  <2>3. OnlySeedsOpen'
    BY <1>4, <2>1 DEF OnlySeedsOpen, Opened
  <2>4. SourcesOld'
    BY <1>4, <2>1, <2>2 DEF SourcesOld
  <2>5. FilesDone'
    BY <1>4, <2>1, <2>2 DEF FilesDone, SnapshotActive, Active, FirstPod
  <2>6. SecondPodsFail'
    <3>1. ASSUME NEW i \in Jobs, jobs[i].kind = "seed", ~There(jobs[i].src)
          PROVE  ~There(jobs[i].src)'
      <4>1. jobs[i].src # Archive /\ jobs[i].src \notin ToSet(files)
        BY <3>1 DEF There
      <4>2. j \in ToSet(files') /\ j \notin ToSet(files) => jobs[i].src # j
        BY <1>4 DEF SourcesOld, SnapshotActive
      <4>3. jobs[i].src \notin ToSet(files')
        BY <1>4, <4>1, <4>2
      <4> QED BY <2>1, <4>1, <4>3 DEF There
    <3>2. \A i \in Jobs : jobs'[i].src = jobs[i].src
      BY <2>1
    <3> QED BY <1>4, <2>1, <3>1, <3>2 DEF SecondPodsFail, There
  <2> QED BY <2>3, <2>4, <2>5, <2>6
<1>5. ASSUME NEW j \in Jobs, SeedWipes(j) PROVE SourceInv'
  <2>1. FirstPod(j)
    BY <1>5 DEF SeedWipes, Active, SecondPodsFail
  <2> QED BY <1>4, <1>5, <2>1 DEF SeedWipes, JobsOnly
<1>6. ASSUME NEW j \in Jobs, SeedSucceeds(j) PROVE SourceInv'
  <2>1. jobs[j].kind = "seed" /\ Active(j)
    BY <1>6 DEF SeedSucceeds, OnlySeedsOpen, Opened, Active, FirstPod
  <2>2. FirstPod(j)
    BY <1>6, <2>1 DEF SeedSucceeds, Opened, SecondPodsFail, FirstPod
  <2> QED BY <1>4, <1>6, <2>1, <2>2 DEF SeedSucceeds, Finished, JobsOnly
<1>7. ASSUME NEW j \in Jobs, SnapshotSucceeds(j) PROVE SourceInv'
  <2>1. Finished(j) \in {"succeeded", "recovered"}
    BY DEF Finished
  <2>2. ToSet(files') \subseteq ToSet(files) \cup {j}
    BY <1>7 DEF SnapshotSucceeds, TypeOK, ToSet
  <2> QED BY <1>4, <1>7, <2>1, <2>2 DEF SnapshotSucceeds, JobsOnly
<1>8. ASSUME NEW j \in Jobs, JobPodFails(j) PROVE SourceInv'
  <2>1. Hopeless(j)
    BY <1>8 DEF JobPodFails
  <2>2. jobs[j].kind = "seed" => ~There(jobs[j].src)
    BY <2>1 DEF Hopeless
  <2> QED BY <1>4, <1>8, <2>2 DEF JobPodFails, JobsOnly
<1>9. ASSUME NEW j \in Jobs, JobExpires(j) PROVE SourceInv'
  <2>1. \A i \in Jobs : jobs'[i] = IF i = j THEN NoJob ELSE jobs[i]
    BY <1>9 DEF TypeOK, JobExpires
  <2>2. UNCHANGED <<op, files>>
    BY <1>9 DEF JobExpires, JobsOnly
  <2>3. \A i \in Jobs : SnapshotActive(i)' => SnapshotActive(i)
    BY <2>1 DEF SnapshotActive, Active, FirstPod, NoJob
  <2>4. FilesDone' /\ OnlySeedsOpen' /\ SecondPodsFail'
    BY <2>1, <2>2, <2>3
       DEF FilesDone, OnlySeedsOpen, Opened, SecondPodsFail, There, NoJob
  <2>5. SourcesOld'
    BY <2>1, <2>2, <2>3, NamesAssumption DEF SourcesOld, NoJob
  <2> QED BY <2>4, <2>5
<1> QED BY <1>2, <1>3, <1>5, <1>6, <1>7, <1>8, <1>9 DEF Cluster

LEMMA AlwaysSourceInv ==
  ASSUME Faults \subseteq {"crash", "rcon"}
  PROVE  Spec => []SourceInv
<1>1. Init => SourceInv
  <2> SUFFICES ASSUME Init PROVE SourceInv
    OBVIOUS
  <2>1. jobs = [j \in Jobs |-> NoJob] /\ files = <<>> /\ op.src = None
    BY DEF Init, NoOp, NewOp
  <2>2. ToSet(files) = {}
    BY <2>1 DEF ToSet
  <2>3. \A j \in Jobs : ~SnapshotActive(j) /\ ~Opened(j) /\ jobs[j].kind # "seed"
                        /\ jobs[j].src = None
    BY <2>1 DEF NoJob, SnapshotActive, Opened
  <2> QED BY <2>1, <2>2, <2>3, NamesAssumption
          DEF SourceInv, FilesDone, SourcesOld, SecondPodsFail, OnlySeedsOpen
<1>2. TypeOK /\ SourceInv /\ [Next]_vars => SourceInv'
  <2>1. ASSUME TypeOK, SourceInv, UNCHANGED vars PROVE SourceInv'
    BY <2>1, SourceRecorded DEF vars
  <2> QED BY <2>1, RequestSourceInv, ReconcileSourceInv, ClusterSourceInv DEF Next
<1> QED BY <1>1, <1>2, TypeCorrect, PTL DEF Spec

(***************************************************************************)
(* The data on the volume                                                  *)
(*                                                                         *)
(* PlayedDataKept is about the moment the data goes, long after the        *)
(* snapshot that saved it.  Between the two a pending drain, seed or       *)
(* teardown remembers that one was taken (SavedFirst), and a snapshot step *)
(* whose file or success is there, that it is of the present data          *)
(* (SnapshotSaves).  A volume without a release has nothing to save        *)
(* (PlayedIsReleased), and is what delete takes it for.  The volume is     *)
(* half-copied exactly while the recorded Job's first pod copies           *)
(* (WipedTracked, OpenedWiped).                                            *)
(***************************************************************************)

WipedTracked ==
  vol = "partial" =>
    /\ op.step = "seed" /\ ~op.failed
    /\ jobs[op.job].kind = "seed" /\ jobs[op.job].status = "copying"

OpenedWiped == \A j \in Jobs : Opened(j) => vol = "partial"

ServersWanted == \A p \in Pods : pods[p] \in {"starting", "ready"} => release = "running"

PlayedIsReleased == release = "absent" /\ vol = "played" => op.step = "teardown"

SavedFirst ==
  /\ op.step \in {"drain", "teardown"} \/ (op.step = "seed" /\ ~SeedDoneSeen)
  /\ vol = "played" \/ release = "running"
  => kept

SnapshotSaves ==
  op.step = "snapshot" /\ (op.job \in ToSet(files) \/ SawSuccess(op.job)) => kept

VolumeInv ==
  /\ WipedTracked /\ OpenedWiped /\ ServersWanted
  /\ PlayedIsReleased /\ SavedFirst /\ SnapshotSaves

(* helm retires the pods of a release it takes down.                       *)
LEMMA ScaledWanted ==
  ASSUME TypeOK, ServersWanted,
         \/ ScaleUp \/ ScaleDown \/ ReleaseKept \/ (pods' = pods /\ release' = release)
         \/ pods' = Retired("stopping")
  PROVE  ServersWanted'
<1>1. ASSUME NEW phase \in {"stopping", "replaced"}, pods' = Retired(phase)
      PROVE  \A p \in Pods : pods'[p] \notin {"starting", "ready"}
  BY <1>1 DEF Retired
<1> QED BY <1>1 DEF ServersWanted, ScaleUp, ScaleDown, ReleaseKept

(* A step that leaves the volume whole and opens no source keeps the       *)
(* first two parts.                                                        *)
LEMMA WholeKept ==
  ASSUME vol' # "partial", \A j \in Jobs : ~Opened(j)'
  PROVE  WipedTracked' /\ OpenedWiped'
BY DEF WipedTracked, OpenedWiped

(* A new Job has opened nothing.                                           *)
LEMMA NothingOpened ==
  ASSUME TypeOK, \A j \in Jobs : ~Opened(j),
         \/ jobs' = jobs \/ jobs' = [j \in Jobs |-> NoJob]
         \/ \E j \in Jobs : \E kind, src : jobs' = JobsWith(j, kind, src)
  PROVE  \A j \in Jobs : ~Opened(j)'
BY DEF TypeOK, Opened, NoJob, JobsWith

(* Only a pending seed finds the volume half-copied.                       *)
LEMMA WholeUnlessSeeding ==
  ASSUME TypeOK, SeedInv, VolumeInv,
         \/ op.step # "seed" \/ op.failed \/ ~known
         \/ jobs[op.job].status # "copying"
  PROVE  vol # "partial" /\ \A j \in Jobs : ~Opened(j)
<1>1. ~known => vol \in {"none", "doomed"}
  BY DEF SeedInv, Orphanless, NoOrphans
<1>2. vol # "partial"
  BY <1>1 DEF VolumeInv, WipedTracked
<1> QED BY <1>2 DEF VolumeInv, OpenedWiped

(* A request to an idle world keeps the invariant: what it begins without  *)
(* a snapshot is of a failed seed or of a world without a release.         *)
LEMMA IdleVolumeInv ==
  ASSUME TypeOK, SeedInv, VolumeInv, Idle, vol' = vol,
         \/ jobs' = jobs
         \/ \E j \in Jobs : \E kind, src : jobs' = JobsWith(j, kind, src),
         \/ ScaleUp \/ ScaleDown \/ (UNCHANGED <<release, pods>>),
         op'.step \in {"drain", "teardown", "seed"} =>
           /\ UNCHANGED <<release, kept>>
           /\ op.step = "seed" \/ ~Released,
         op'.step = "snapshot" => op'.job \notin ToSet(files') /\ ~SawSuccess(op.job)'
  PROVE  VolumeInv'
<1> USE DEF VolumeInv
<1>1. op.step \in {"none", "seed"} /\ (op.step = "seed" => op.failed)
  BY IdleFacts
<1>2. WipedTracked' /\ OpenedWiped'
  BY <1>1, WholeUnlessSeeding, NothingOpened, WholeKept
<1>3. ServersWanted'
  BY ScaledWanted
<1>4. release' = "absent" => release = "absent"
  BY DEF ScaleUp, ScaleDown
<1>5. ~Released => vol # "played"
  BY <1>1 DEF PlayedIsReleased, Released
<1>6. PlayedIsReleased'
  BY <1>4, <1>5 DEF PlayedIsReleased, Released
<1>7. SavedFirst'
  BY <1>1, <1>5 DEF SavedFirst, SeedDoneSeen, Released
<1>8. SnapshotSaves'
  BY DEF SnapshotSaves
<1> QED BY <1>2, <1>3, <1>6, <1>7, <1>8

LEMMA RequestVolumeInv ==
  ASSUME TypeOK, SeedInv, VolumeInv, Request, Faults \subseteq {"crash", "rcon"}
  PROVE  VolumeInv'
<1>1. NoOp.step = "none"
  BY DEF NoOp, NewOp
<1>2. ~known /\ vol = "none" =>
        /\ release = "absent" /\ Live = {}
        /\ \A j \in Jobs : ~Opened(j)
  BY WholeUnlessSeeding DEF SeedInv, Orphanless, NoOrphans, VolumeThere
<1>3. ASSUME ~known, vol = "none", vol' \in {"none", "empty"}, op'.step \in {"seed", "install", "none"},
             op'.step = "seed" => release' = "absent",
             ScaleUp \/ ReleaseKept \/ UNCHANGED <<release, pods>>,
             jobs' = jobs \/ \E j \in Jobs : \E kind, src : jobs' = JobsWith(j, kind, src)
      PROVE  VolumeInv'
  <2>1. WipedTracked' /\ OpenedWiped'
    BY <1>2, <1>3, NothingOpened, WholeKept
  <2>2. ServersWanted'
    BY <1>3, ScaledWanted DEF VolumeInv
  <2> QED BY <1>3, <2>1, <2>2 DEF VolumeInv, PlayedIsReleased, SavedFirst, SnapshotSaves
<1>4. ASSUME NEW src \in Jobs \cup {Archive}, Launch(src) PROVE VolumeInv'
  <2>1. op'.step = "seed" /\ ~known /\ vol = "none" /\ vol' \in {"none", "empty"}
    BY <1>4 DEF Launch, NewOp, Provision
  <2>2. jobs' = jobs \/ \E j \in Jobs : \E kind, s : jobs' = JobsWith(j, kind, s)
    BY <1>4, FreshIsUnused DEF Launch
  <2> QED BY <1>2, <1>3, <1>4, <2>1, <2>2 DEF Launch
<1>5. CASE CreateWorld
  <2>1. /\ op'.step \in {"none", "install"} /\ ~known /\ vol = "none"
        /\ vol' \in {"none", "empty"} /\ jobs' = jobs
    BY <1>5 DEF CreateWorld, NoOp, NewOp, Failed, Provision
  <2>2. ScaleUp \/ ReleaseKept
    BY <1>5 DEF CreateWorld
  <2> QED BY <1>3, <2>1, <2>2
<1>6. CASE RetrySeed
  <2>1. op'.step = "seed" /\ op.step = "seed"
    BY <1>6 DEF RetrySeed, TypeOK, Ops
  <2>2. jobs' = jobs \/ \E j \in Jobs : \E kind, s : jobs' = JobsWith(j, kind, s)
    BY <1>6, FreshIsUnused DEF RetrySeed
  <2> QED BY <1>6, <2>1, <2>2, IdleVolumeInv DEF RetrySeed
<1>7. CASE StartServer
  BY <1>1, <1>7, IdleVolumeInv DEF StartServer, ReleaseKept
<1>8. CASE Stop
  BY <1>1, <1>8, IdleVolumeInv DEF Stop, ReleaseKept
<1>9. ASSUME Idle, NEW kind, NEW src, BeginSnapshot(kind, src) PROVE VolumeInv'
  <2>1. PICK n \in 1..3, paused \in BOOLEAN :
          /\ op' = IF n >= 2
                   THEN [NewOp(kind, "snapshot", Fresh, src) EXCEPT !.paused = paused]
                   ELSE op
          /\ jobs' = IF n >= 3 THEN JobsWith(Fresh, "snapshot", None) ELSE jobs
          /\ kept' = (n = 1 /\ kept)
    BY <1>9 DEF BeginSnapshot
  <2>2. /\ Fresh \in Jobs /\ Unused(Fresh)
        /\ vol' = vol /\ files' = files /\ UNCHANGED <<release, pods>>
    BY <1>9, FreshIsUnused DEF BeginSnapshot
  <2>3. jobs' = jobs \/ \E j \in Jobs : \E k, s : jobs' = JobsWith(j, k, s)
    BY <2>1, <2>2
  <2>4. CASE n = 1
    <3>1. op' = op /\ kept' = kept
      BY <2>1, <2>4 DEF TypeOK
    <3>2. op.step \in {"none", "seed"}
      BY <1>9, IdleFacts
    <3> QED BY <1>9, <2>2, <2>3, <3>1, <3>2, IdleVolumeInv
  <2>5. CASE n >= 2
    <3>1. op'.step = "snapshot" /\ op'.job = Fresh
      BY <2>1, <2>5 DEF NewOp
    <3>2. jobs'[Fresh].status \in {"absent", "running"} /\ Fresh \notin ToSet(files')
      BY <2>1, <2>2 DEF TypeOK, JobsWith, Unused
    <3> QED BY <1>9, <2>2, <2>3, <3>1, <3>2, IdleVolumeInv DEF SawSuccess
  <2> QED BY <2>4, <2>5
<1>10. ASSUME Idle, NEW kind, NEW step \in {"drain", "teardown"}, NEW src,
              RecordOnly(NewOp(kind, step, None, src)), op.step = "seed" \/ ~Released
       PROVE  VolumeInv'
  BY <1>10, IdleVolumeInv DEF RecordOnly, NewOp
<1>11. CASE Snapshot \/ Delete
  BY <1>9, <1>10, <1>11 DEF Snapshot, Delete
<1>12. ASSUME NEW src \in Jobs \cup {Archive}, Restore(src) PROVE VolumeInv'
  <2>1. op.step # "install"
    BY <1>12, IdleFacts DEF Restore
  <2> QED BY <1>9, <1>10, <1>12, <2>1 DEF Restore
<1>13. CASE UpdateSettings
  <2>1. op.step = "none"
    BY <1>13, IdleFacts DEF UpdateSettings
  <2> QED BY <1>13, <2>1, IdleVolumeInv DEF UpdateSettings
<1>14. ASSUME NEW f \in Jobs, DeleteBackup(f) PROVE VolumeInv'
  <2>1. /\ UNCHANGED <<op, release, vol, pods, jobs, kept>>
        /\ ToSet(files') \subseteq ToSet(files)
    BY <1>14, FileRemoved DEF DeleteBackup
  <2>2. SnapshotSaves'
    BY <2>1 DEF VolumeInv, SnapshotSaves, SawSuccess
  <2> QED BY <2>1, <2>2 DEF VolumeInv, WipedTracked, OpenedWiped, Opened, ServersWanted,
          PlayedIsReleased, SavedFirst, SeedDoneSeen, SawSuccess
<1> QED
  BY <1>4, <1>5, <1>6, <1>7, <1>8, <1>11, <1>12, <1>13, <1>14 DEF Request, Start

LEMMA ReconcileVolumeInv ==
  ASSUME TypeOK, SeedInv, VolumeInv, Reconcile, Faults \subseteq {"crash", "rcon"}
  PROVE  VolumeInv'
<1> USE DEF VolumeInv
<1>0. op \in Ops /\ NoOp.step = "none"
  BY DEF TypeOK, NoOp, NewOp
<1>1. ASSUME vol' = vol, vol # "partial", \A j \in Jobs : ~Opened(j),
             \/ jobs' = jobs
             \/ \E j \in Jobs : \E kind, src : jobs' = JobsWith(j, kind, src),
             ScaleUp \/ ScaleDown \/ ReleaseKept \/ (pods' = pods /\ release' = release),
             op.step # "teardown"
      PROVE  WipedTracked' /\ OpenedWiped' /\ ServersWanted' /\ PlayedIsReleased'
  <2>1. WipedTracked' /\ OpenedWiped'
    BY <1>1, NothingOpened, WholeKept
  <2>2. ServersWanted'
    BY <1>1, ScaledWanted
  <2>3. release' = "absent" => release = "absent"
    BY <1>1 DEF ScaleUp, ScaleDown, ReleaseKept
  <2> QED BY <1>1, <2>1, <2>2, <2>3 DEF PlayedIsReleased
<1>2. CASE RecreateSnapshotJob
  <2>1. /\ op.step = "snapshot" /\ op' = op /\ op.job \in Jobs
        /\ op.job \notin ToSet(files) /\ jobs[op.job].status = "absent"
        /\ jobs' \in {jobs, JobsWith(op.job, "snapshot", None)}
        /\ UNCHANGED <<release, vol, pods, files, kept>>
    BY <1>0, <1>2, NoErrors DEF RecreateSnapshotJob, RecreateJob, At, Recorded, Ops
  <2>2. WipedTracked' /\ OpenedWiped' /\ ServersWanted' /\ PlayedIsReleased'
    BY <1>1, <2>1, WholeUnlessSeeding
  <2>3. jobs'[op.job].status \in {"absent", "running"}
    BY <2>1 DEF TypeOK, JobsWith
  <2> QED BY <2>1, <2>2, <2>3 DEF SavedFirst, SnapshotSaves, SawSuccess
<1>3. CASE SnapshotFailed
  <2>1. /\ op.step = "snapshot" /\ op' = NoOp
        /\ UNCHANGED <<release, vol, pods, jobs, files, kept>>
    BY <1>3 DEF SnapshotFailed, At
  <2>2. WipedTracked' /\ OpenedWiped' /\ ServersWanted' /\ PlayedIsReleased'
    BY <1>1, <2>1, WholeUnlessSeeding
  <2> QED BY <1>0, <2>1, <2>2 DEF SavedFirst, SnapshotSaves
<1>4. CASE SnapshotDone
  <2>1. /\ op.step = "snapshot" /\ UNCHANGED <<vol, jobs, kept>> /\ kept
        /\ ScaleDown \/ ReleaseKept
    BY <1>4 DEF SnapshotDone, At, SnapshotWritten, SnapshotSaves, ScaleDown, ReleaseKept
  <2>2. WipedTracked' /\ OpenedWiped' /\ ServersWanted' /\ PlayedIsReleased'
    BY <1>1, <2>1, WholeUnlessSeeding
  <2> QED BY <2>1, <2>2 DEF SavedFirst, SnapshotSaves
<1>5. CASE Drain
  <2>1. /\ op.step = "drain" /\ Fresh \in Jobs /\ jobs[Fresh].status = "absent"
        /\ op' = op \/ op' = [op EXCEPT !.step = "seed", !.job = Fresh]
        /\ jobs' \in {jobs, JobsWith(Fresh, "seed", op.src)}
        /\ UNCHANGED <<release, vol, pods, kept>>
    BY <1>5, FreshIsUnused, NoErrors DEF Drain, At, Recorded, Unused
  <2>2. WipedTracked' /\ OpenedWiped' /\ ServersWanted' /\ PlayedIsReleased'
    BY <1>1, <2>1, WholeUnlessSeeding
  <2>3. op'.step \in {"drain", "seed"}
    BY <1>0, <2>1 DEF Ops
  <2> QED BY <2>1, <2>2, <2>3 DEF SavedFirst, SnapshotSaves
<1>6. CASE RecreateSeedJob
  <2>1. /\ op.step = "seed" /\ op' = op /\ op.job \in Jobs
        /\ jobs[op.job].status = "absent"
        /\ jobs' \in {jobs, JobsWith(op.job, "seed", op.src)}
        /\ UNCHANGED <<release, vol, pods, kept>>
    BY <1>0, <1>6, NoErrors DEF RecreateSeedJob, RecreateJob, At, Recorded, Ops
  <2>2. WipedTracked' /\ OpenedWiped' /\ ServersWanted' /\ PlayedIsReleased'
    BY <1>1, <2>1, WholeUnlessSeeding
  <2> QED BY <2>1, <2>2 DEF SavedFirst, SnapshotSaves, SeedDoneSeen, SawSuccess
<1>7. CASE SeedFailed
  <2>1. /\ op.step = "seed" /\ op' = Failed(op) /\ SawFailure(op.job)
        /\ UNCHANGED <<release, vol, pods, jobs, kept>>
    BY <1>7 DEF SeedFailed, RecordOnly, At
  <2>2. WipedTracked' /\ OpenedWiped' /\ ServersWanted' /\ PlayedIsReleased'
    BY <1>1, <2>1, WholeUnlessSeeding DEF SawFailure
  <2>3. op'.step = "seed"
    BY <1>0, <2>1 DEF Failed, Ops
  <2> QED BY <2>1, <2>2, <2>3
          DEF SavedFirst, SnapshotSaves, SeedDoneSeen, SawSuccess, SawFailure
<1>8. CASE SeedDone
  <2>1. /\ op.step = "seed" /\ ~op.failed /\ SawSuccess(op.job) /\ op' \in {op, NoOp}
        /\ ScaleUp \/ ReleaseKept
        /\ UNCHANGED <<vol, jobs>>
    BY <1>8, NoErrors DEF SeedDone, At, Pending, Recorded
  <2>2. WipedTracked' /\ OpenedWiped' /\ ServersWanted' /\ PlayedIsReleased'
    BY <1>1, <2>1, WholeUnlessSeeding DEF SawSuccess
  <2> QED BY <1>0, <2>1, <2>2 DEF SavedFirst, SnapshotSaves, SeedDoneSeen, SawSuccess
<1>9. CASE FinishInstall
  <2>1. /\ op.step = "install" /\ op' \in {op, NoOp} /\ UNCHANGED jobs
        /\ ScaleUp \/ ReleaseKept
        /\ vol' = vol \/ vol' = "empty"
    BY <1>9, NoErrors DEF FinishInstall, At, Recorded, Provision
  <2>2. WipedTracked' /\ OpenedWiped'
    BY <2>1, WholeUnlessSeeding, NothingOpened, WholeKept
  <2>3. ServersWanted'
    BY <2>1, ScaledWanted
  <2>4. PlayedIsReleased'
    BY <2>1 DEF PlayedIsReleased, ScaleUp, ReleaseKept
  <2> QED BY <1>0, <2>1, <2>2, <2>3, <2>4 DEF SavedFirst, SnapshotSaves
<1>10. CASE Teardown
  <2>1. PICK how \in Endings, n \in 0..4 :
          /\ Ended(4, n, how)
          /\ release' = IF n >= 1 THEN "absent" ELSE release
          /\ pods' = IF n >= 1 THEN Retired("stopping") ELSE pods
          /\ jobs' = IF n >= 2 THEN [j \in Jobs |-> NoJob] ELSE jobs
          /\ vol' = IF n < 3 \/ vol = "none" THEN vol
                    ELSE IF Live = {} /\ ~(\E j \in Jobs : Active(j))
                      THEN "none" ELSE "doomed"
          /\ Recorded(how, IF n = 4 THEN NoOp ELSE op)
    BY <1>10 DEF Teardown
  <2>2. op' = (IF n = 4 THEN NoOp ELSE op) /\ op.step = "teardown" /\ kept' = kept
    BY <1>10, <2>1, NoErrors DEF Teardown, At, Recorded
  <2>3. vol # "partial" /\ (vol' = vol \/ vol' \in {"none", "doomed"})
    BY <2>1, <2>2, WholeUnlessSeeding
  <2>4. WipedTracked' /\ OpenedWiped'
    BY <2>1, <2>2, <2>3, WholeUnlessSeeding, NothingOpened, WholeKept
  <2>5. ServersWanted'
    BY <2>1, ScaledWanted
  <2>6. PlayedIsReleased'
    BY <2>1, <2>2 DEF PlayedIsReleased
  <2>7. SavedFirst' /\ SnapshotSaves'
    BY <1>0, <2>1, <2>2, <2>3 DEF SavedFirst, SnapshotSaves
  <2> QED BY <2>4, <2>5, <2>6, <2>7
<1> QED
  BY <1>2, <1>3, <1>4, <1>5, <1>6, <1>7, <1>8, <1>9, <1>10 DEF Reconcile

LEMMA ClusterVolumeInv ==
  ASSUME TypeOK, SeedInv, SourceInv, VolumeInv, Cluster, Faults \subseteq {"crash", "rcon"}
  PROVE  VolumeInv'
<1> USE DEF VolumeInv
<1>1. ASSUME NEW p \in Pods, PodStarts(p) \/ ServerRestarts(p) \/ PodGone(p)
      PROVE  VolumeInv'
  <2>1. /\ UNCHANGED <<op, release, vol, jobs, files, kept>>
        /\ \E phase : /\ pods' = [pods EXCEPT ![p] = phase]
                      /\ phase \in {"starting", "ready"} => release = "running"
    BY <1>1 DEF PodStarts, ServerRestarts, PodGone, PodsOnly, ServersWanted
  <2>2. ServersWanted'
    BY <2>1 DEF TypeOK, ServersWanted
  <2> QED BY <2>1, <2>2 DEF WipedTracked, OpenedWiped, Opened, PlayedIsReleased,
          SavedFirst, SnapshotSaves, SeedDoneSeen, SawSuccess
<1>2. ASSUME NEW p \in Pods, PodReady(p) PROVE VolumeInv'
  <2>1. /\ UNCHANGED <<op, release, jobs, files, kept>> /\ release = "running"
        /\ pods' = [pods EXCEPT ![p] = "ready"]
        /\ vol' = IF vol = "partial" THEN vol ELSE "played"
    BY <1>2 DEF PodReady, PodsOnly, ServersWanted
  <2>2. ServersWanted'
    BY <2>1 DEF TypeOK, ServersWanted
  <2>3. WipedTracked' /\ OpenedWiped' /\ PlayedIsReleased'
    BY <2>1 DEF WipedTracked, OpenedWiped, Opened, PlayedIsReleased
  <2>4. SavedFirst' /\ SnapshotSaves'
    BY <2>1 DEF SavedFirst, SnapshotSaves, SeedDoneSeen, SawSuccess
  <2> QED BY <2>2, <2>3, <2>4
<1>3. CASE VolumeGone
  BY <1>3 DEF VolumeGone, PodsOnly, WipedTracked, OpenedWiped, Opened, ServersWanted,
     PlayedIsReleased, SavedFirst, SnapshotSaves, SeedDoneSeen, SawSuccess
<1>4. ASSUME NEW j \in Jobs, NEW status, JobIs(j, status)
      PROVE  \A i \in Jobs :
               /\ jobs'[i].kind = jobs[i].kind
               /\ jobs'[i].status = IF i = j THEN status ELSE jobs[i].status
  BY <1>4 DEF TypeOK, JobRecords, JobIs
<1>5. op.step \in {"seed", "snapshot"} => op.job \in Jobs
  BY DEF TypeOK, Ops
<1>6. ASSUME NEW j \in Jobs, SeedWipes(j) PROVE VolumeInv'
  <2>1. FirstPod(j) /\ jobs[j].kind = "seed"
    BY <1>6 DEF SeedWipes, Active, SourceInv, SecondPodsFail
  <2>2. op.step = "seed" /\ ~op.failed /\ op.job = j
    BY <2>1 DEF SeedInv, SeedTracked, SeedingFirst
  <2>3. release # "running"
    BY <2>1, <2>2 DEF SeedInv, NoServerInSeed, SeedDoneSeen, SawSuccess, FirstPod
  <2>4. /\ JobIs(j, "copying") /\ vol' = "partial"
        /\ UNCHANGED <<op, release, pods>>
    BY <1>6, <2>1 DEF SeedWipes, JobsOnly
  <2>5. jobs'[op.job].kind = "seed" /\ jobs'[op.job].status = "copying"
    BY <1>4, <2>1, <2>2, <2>4
  <2> QED BY <2>2, <2>3, <2>4, <2>5 DEF WipedTracked, OpenedWiped, ServersWanted,
          PlayedIsReleased, SavedFirst, SnapshotSaves
<1>7. ASSUME NEW j \in Jobs, SeedSucceeds(j) PROVE VolumeInv'
  <2>1. FirstPod(j) /\ jobs[j].kind = "seed"
    BY <1>7 DEF SeedSucceeds, Opened, FirstPod, SourceInv, SecondPodsFail, OnlySeedsOpen
  <2>2. op.step = "seed" /\ op.job = j /\ \A i \in Jobs \ {j} : ~SeedingFirst(i)
    BY <2>1 DEF SeedInv, SeedTracked, SeedingFirst
  <2>3. release # "running"
    BY <2>1, <2>2 DEF SeedInv, NoServerInSeed, SeedDoneSeen, SawSuccess, FirstPod
  <2>4. /\ JobIs(j, "succeeded") /\ vol' = "seeded"
        /\ UNCHANGED <<op, release, pods>>
    BY <1>7, <2>1 DEF SeedSucceeds, Finished, JobsOnly
  <2>5. \A i \in Jobs \ {j} : ~Opened(i)
    BY <2>2 DEF Opened, SeedingFirst, FirstPod, SourceInv, SecondPodsFail, OnlySeedsOpen
  <2>6. \A i \in Jobs : ~Opened(i)'
    BY <1>4, <2>4, <2>5 DEF Opened
  <2> QED BY <2>2, <2>3, <2>4, <2>6 DEF WipedTracked, OpenedWiped, ServersWanted,
          PlayedIsReleased, SavedFirst, SnapshotSaves
<1>8. ASSUME NEW j \in Jobs, NEW status \in {"succeeded", "recovered", "retrying", "failed"},
             JobIs(j, status), ~Opened(j), jobs[j].kind = "seed" => status # "succeeded",
             UNCHANGED <<op, release, pods, vol>>, kept' \/ kept' = kept,
             kept' \/ (status # "succeeded" /\ files' = files),
             SeedDoneSeen => jobs[op.job].status # jobs[j].status
      PROVE  VolumeInv'
  <2>1. WipedTracked'
    BY <1>4, <1>5, <1>8 DEF WipedTracked, Opened
  <2>2. OpenedWiped'
    BY <1>4, <1>8 DEF OpenedWiped, Opened
  <2>3. ServersWanted' /\ PlayedIsReleased'
    BY <1>8 DEF ServersWanted, PlayedIsReleased
  <2>4. SavedFirst'
    BY <1>4, <1>5, <1>8 DEF SavedFirst, SeedDoneSeen, SawSuccess
  <2>5. SnapshotSaves'
    BY <1>4, <1>5, <1>8 DEF SnapshotSaves, SawSuccess
  <2> QED BY <2>1, <2>2, <2>3, <2>4, <2>5
<1>9. ASSUME NEW j \in Jobs, SnapshotSucceeds(j) PROVE VolumeInv'
  <2>1. /\ jobs[j].kind = "snapshot" /\ Active(j) /\ kept'
        /\ UNCHANGED <<op, release, pods, vol>>
        /\ JobIs(j, Finished(j)) /\ Finished(j) \in {"succeeded", "recovered"}
    BY <1>9 DEF SnapshotSucceeds, JobsOnly, Finished
  <2>2. ~Opened(j) /\ ~SawSuccess(j)
    BY <2>1 DEF SourceInv, OnlySeedsOpen, Active, FirstPod, SawSuccess
  <2> QED BY <1>8, <2>1, <2>2 DEF SeedDoneSeen, SawSuccess
<1>10. ASSUME NEW j \in Jobs, JobPodFails(j) PROVE VolumeInv'
  <2>1. Active(j) /\ Hopeless(j)
    BY <1>10 DEF JobPodFails
  <2>2. ~Opened(j) /\ ~SawSuccess(j)
    BY <2>1 DEF Hopeless, SourceInv, OnlySeedsOpen, Active, FirstPod, SawSuccess
  <2> QED BY <1>8, <1>10, <2>2 DEF JobPodFails, JobsOnly, SeedDoneSeen, SawSuccess
<1>11. ASSUME NEW j \in Jobs, JobExpires(j) PROVE VolumeInv'
  <2>1. /\ \A i \in Jobs : jobs'[i] = IF i = j THEN NoJob ELSE jobs[i]
        /\ UNCHANGED <<op, release, pods, vol, files, kept>>
        /\ jobs[j].status \in {"succeeded", "recovered", "failed"}
    BY <1>11 DEF TypeOK, JobExpires, JobsOnly
  <2>2. ~(Pending /\ op.job = j)
    BY <1>11 DEF JobExpires, Affordable
  <2>3. op.step = "seed" /\ ~op.failed => Pending
    BY DEF SeedInv, OpSane, Pending
  <2>4. WipedTracked' /\ OpenedWiped'
    BY <1>5, <2>1 DEF WipedTracked, OpenedWiped, Opened, NoJob
  <2>5. SavedFirst'
    BY <1>5, <2>1, <2>2, <2>3 DEF SavedFirst, SeedDoneSeen, SawSuccess
  <2>6. SnapshotSaves'
    BY <1>5, <2>1 DEF SnapshotSaves, SawSuccess, NoJob
  <2> QED BY <2>1, <2>4, <2>5, <2>6 DEF ServersWanted, PlayedIsReleased
<1> QED BY <1>1, <1>2, <1>3, <1>6, <1>7, <1>9, <1>10, <1>11 DEF Cluster

LEMMA AlwaysVolumeInv ==
  ASSUME Faults \subseteq {"crash", "rcon"}
  PROVE  Spec => []VolumeInv
<1>1. Init => VolumeInv
  <2> SUFFICES ASSUME Init PROVE VolumeInv
    OBVIOUS
  <2>1. /\ jobs = [j \in Jobs |-> NoJob] /\ files = <<>> /\ vol # "partial"
        /\ op.step \in {"none", "snapshot"} /\ (release = "absent" => vol = "none")
        /\ op.step = "snapshot" => op.job \in Jobs
    BY DEF Init, NoOp, NewOp
  <2>2. \A j \in Jobs : ~Opened(j) /\ ~SawSuccess(j)
    BY <2>1 DEF NoJob, Opened, SawSuccess
  <2>3. ServersWanted
    BY DEF Init, ServersWanted
  <2>4. ToSet(files) = {}
    BY <2>1 DEF ToSet
  <2> QED BY <2>1, <2>2, <2>3, <2>4 DEF VolumeInv, WipedTracked, OpenedWiped,
          PlayedIsReleased, SavedFirst, SnapshotSaves
<1>2. TypeOK /\ SeedInv /\ SourceInv /\ VolumeInv /\ [Next]_vars => VolumeInv'
  <2>1. ASSUME VolumeInv, UNCHANGED vars PROVE VolumeInv'
    BY <2>1 DEF vars, VolumeInv, WipedTracked, OpenedWiped, Opened, ServersWanted,
       PlayedIsReleased, SavedFirst, SnapshotSaves, SeedDoneSeen, SawSuccess
  <2> QED BY <2>1, RequestVolumeInv, ReconcileVolumeInv, ClusterVolumeInv DEF Next
<1>3. Faults \subseteq {"crash", "job", "rcon"}
  OBVIOUS
<1> QED BY <1>1, <1>2, <1>3, TypeCorrect, AlwaysSeedInv, AlwaysSourceInv, PTL DEF Spec

(* Nobody serves a half-copied world (service.py: the release is scaled up *)
(* only after the Job succeeds; seed.py): for any number of crashes and    *)
(* failed RCON commands, as long as no pod of a seed Job dies half-way.    *)
THEOREM ServedWorldIsWhole ==
  ASSUME Faults \subseteq {"crash", "rcon"}
  PROVE  Spec => []ServerOnWholeWorld
<1>1. TypeOK /\ SeedInv /\ VolumeInv => ServerOnWholeWorld
  BY DEF VolumeInv, WipedTracked, SeedInv, NoServerInSeed, SeedDoneSeen, SawSuccess,
     ServerOnWholeWorld, Ready, Live
<1>2. Faults \subseteq {"crash", "job", "rcon"}
  OBVIOUS
<1> QED BY <1>1, <1>2, TypeCorrect, AlwaysSeedInv, AlwaysVolumeInv, PTL

(* Who may write the volume, and what he finds there.                      *)
LEMMA Wiper ==
  ASSUME TypeOK, SeedInv, SourceInv, VolumeInv, NEW j \in Jobs,
         SeedWipes(j) \/ SeedSucceeds(j)
  PROVE  /\ SeedingFirst(j) /\ (vol = "played" => kept)
         /\ SeedSucceeds(j) => vol = "partial"
<1>1. jobs[j].kind = "seed" /\ FirstPod(j)
  BY DEF SeedWipes, SeedSucceeds, Active, Opened, FirstPod, SourceInv, SecondPodsFail,
     OnlySeedsOpen
<1>2. op.step = "seed" /\ op.job = j
  BY <1>1 DEF SeedInv, SeedTracked, SeedingFirst
<1>3. vol = "played" => kept
  BY <1>1, <1>2 DEF VolumeInv, SavedFirst, SeedDoneSeen, SawSuccess, FirstPod
<1>4. SeedSucceeds(j) => vol = "partial"
  BY DEF SeedSucceeds, VolumeInv, OpenedWiped
<1> QED BY <1>1, <1>3, <1>4 DEF SeedingFirst

(* The steps that may change what is on the volume.                        *)
LEMMA VolumeChanges ==
  ASSUME TypeOK, Next, vol' # vol
  PROVE  \/ vol = "none" /\ vol' = "empty"
         \/ Teardown \/ VolumeGone
         \/ \E p \in Pods : PodReady(p)
         \/ \E j \in Jobs : SeedWipes(j) \/ SeedSucceeds(j)
<1>1. CASE Request
  <2>1. ASSUME NEW src \in Jobs \cup {Archive}, Launch(src) \/ Restore(src)
        PROVE  vol = "none" /\ vol' = "empty"
    BY <2>1 DEF Launch, Provision, Restore, BeginSnapshot, RecordOnly
  <2>2. CASE CreateWorld
    BY <2>2 DEF CreateWorld, Provision
  <2>3. CASE Start \/ Stop \/ Snapshot \/ Delete \/ UpdateSettings
    BY <2>3 DEF Start, RetrySeed, StartServer, Stop, Snapshot, Delete, BeginSnapshot,
       RecordOnly, UpdateSettings
  <2>4. ASSUME NEW f \in Jobs, DeleteBackup(f) PROVE FALSE
    BY <2>4 DEF DeleteBackup
  <2> QED BY <1>1, <2>1, <2>2, <2>3, <2>4 DEF Request
<1>2. CASE Reconcile
  <2>1. CASE FinishInstall
    BY <2>1 DEF FinishInstall, Provision
  <2>2. CASE Reconcile /\ ~FinishInstall /\ ~Teardown
    BY <2>2 DEF Reconcile, RecreateSnapshotJob, RecreateSeedJob, RecreateJob,
       SnapshotFailed, SnapshotDone, Drain, SeedFailed, SeedDone, RecordOnly
  <2> QED BY <1>2, <2>1, <2>2
<1>3. CASE Cluster
  BY <1>3 DEF Cluster, PodStarts, ServerRestarts, PodGone, SnapshotSucceeds,
     JobPodFails, JobExpires
<1> QED BY <1>1, <1>2, <1>3 DEF Next

(* Data players changed is destroyed only once it was saved (service.py:   *)
(* restore_world, delete_world, _advance; seed.py wipes the volume), under *)
(* the faults of ServedWorldIsWhole.                                       *)
THEOREM PlayedDataSaved ==
  ASSUME Faults \subseteq {"crash", "rcon"}
  PROVE  Spec => PlayedDataKept
<1>1. TypeOK /\ SeedInv /\ SourceInv /\ VolumeInv /\ [Next]_vars =>
        [vol = "played" /\ vol' \in {"partial", "seeded", "doomed", "none"} => kept]_vars
  <2> SUFFICES ASSUME TypeOK, SeedInv, SourceInv, VolumeInv, Next,
                      vol = "played", vol' \in {"partial", "seeded", "doomed", "none"}
               PROVE  kept
    OBVIOUS
  <2>1. CASE Teardown
    BY <2>1 DEF Teardown, At, VolumeInv, SavedFirst
  <2>2. ASSUME NEW j \in Jobs, SeedWipes(j) \/ SeedSucceeds(j) PROVE kept
    BY <2>2, Wiper
  <2>3. ~VolumeGone /\ \A p \in Pods : ~PodReady(p)
    BY DEF VolumeGone, PodReady
  <2> QED BY <2>1, <2>2, <2>3, VolumeChanges
<1>2. Faults \subseteq {"crash", "job", "rcon"}
  OBVIOUS
<1> QED BY <1>1, <1>2, TypeCorrect, AlwaysSeedInv, AlwaysSourceInv, AlwaysVolumeInv, PTL
        DEF Spec, PlayedDataKept

(***************************************************************************)
(* World implements WorldVolume                                            *)
(*                                                                         *)
(* Every step of World is a step of WorldVolume: one that leaves the data  *)
(* and who works on it alone is its Saves, which also stands for no step.  *)
(***************************************************************************)

(* The cases of VolumeUser exclude each other.                             *)
LEMMA VolumeUserIs ==
  /\ Live # {} /\ FirstSeedAlone => VolumeUser = "server"
  /\ Live = {} /\ (\E j \in Jobs : SeedingFirst(j)) => VolumeUser = "copier"
  /\ Live = {} /\ (\A j \in Jobs : ~SeedingFirst(j)) => VolumeUser = "nobody"
BY DEF VolumeUser, FirstSeedAlone, Seeding, SeedingFirst, Active

(* The same of the state after a step.                                     *)
LEMMA VolumeUserWillBe ==
  /\ Live' # {} /\ FirstSeedAlone' => VolumeUser' = "server"
  /\ Live' = {} /\ (\E j \in Jobs : SeedingFirst(j)') => VolumeUser' = "copier"
  /\ Live' = {} /\ (\A j \in Jobs : ~SeedingFirst(j)') => VolumeUser' = "nobody"
BY DEF VolumeUser, FirstSeedAlone, Seeding, SeedingFirst, Active

UserKept ==
  /\ Live' = {} <=> Live = {}
  /\ (\E j \in Jobs : SeedingFirst(j)') <=> (\E j \in Jobs : SeedingFirst(j))

LEMMA SameUser ==
  ASSUME FirstSeedAlone, FirstSeedAlone', UserKept
  PROVE  VolumeUser' = VolumeUser
BY VolumeUserIs, VolumeUserWillBe DEF UserKept

LEMMA StepSaves ==
  ASSUME FirstSeedAlone, FirstSeedAlone', TypeOK', UserKept, vol' = vol
  PROVE  Volume!Next
BY SameUser DEF TypeOK, Volume!Next, Volume!Saves

LEMMA StepClaims ==
  ASSUME FirstSeedAlone, FirstSeedAlone', TypeOK', UserKept, vol = "none", vol' = "empty"
  PROVE  Volume!Next
BY SameUser DEF TypeOK, Volume!Next, Volume!Claim

(* Making a seed Job hands the volume over to its first pod.               *)
LEMMA StepEnters ==
  ASSUME TypeOK, Live = {}, Live' = {}, \A j \in Jobs : ~SeedingFirst(j), kept' = kept,
         NEW j \in Jobs, NEW src, jobs' = JobsWith(j, "seed", src),
         vol' = vol \/ (vol = "none" /\ vol' = "empty")
  PROVE  Volume!Next
<1>1. SeedingFirst(j)'
  BY DEF TypeOK, JobsWith, SeedingFirst, FirstPod
<1>2. VolumeUser = "nobody" /\ VolumeUser' = "copier"
  BY <1>1, VolumeUserIs, VolumeUserWillBe
<1> QED BY <1>2 DEF Volume!Next, Volume!CopierEnters

(* A Job that is made for a snapshot, or not at all, seeds nothing.        *)
LEMMA NoSeedMade ==
  ASSUME TypeOK, Live' = Live,
         \/ jobs' = jobs
         \/ \E j \in Jobs : /\ jobs[j].status = "absent"
                            /\ jobs' = JobsWith(j, "snapshot", None)
  PROVE  UserKept
<1>1. ASSUME NEW j \in Jobs, jobs[j].status = "absent", jobs' = JobsWith(j, "snapshot", None)
      PROVE  \A i \in Jobs : SeedingFirst(i)' <=> SeedingFirst(i)
  BY <1>1 DEF TypeOK, JobsWith, SeedingFirst, FirstPod
<1>2. ASSUME jobs' = jobs
      PROVE  \A i \in Jobs : SeedingFirst(i)' <=> SeedingFirst(i)
  BY <1>2 DEF SeedingFirst, FirstPod
<1> QED BY <1>1, <1>2 DEF UserKept

LEMMA RequestMaps ==
  ASSUME TypeOK, TypeOK', SeedInv, FirstSeedAlone, FirstSeedAlone', Request
  PROVE  Volume!Next
<1>1. ASSUME NEW src \in Jobs \cup {Archive}, Launch(src) PROVE Volume!Next
  <2>1. Live = {} /\ (\A j \in Jobs : ~SeedingFirst(j)) /\ vol = "none"
    BY <1>1 DEF Launch, SeedInv, Orphanless, NoOrphans, VolumeThere, SeedingFirst, NoJob
  <2>2. /\ Live' = Live /\ kept' = kept /\ vol' \in {vol, "empty"}
        /\ jobs' = jobs \/ jobs' = JobsWith(Fresh, "seed", src)
    BY <1>1, <2>1 DEF Launch, Provision, Live
  <2>3. CASE jobs' = jobs
    BY <2>1, <2>2, <2>3, NoSeedMade, StepSaves, StepClaims
  <2>4. CASE jobs' = JobsWith(Fresh, "seed", src)
    BY <1>1, <2>1, <2>2, <2>4, StepEnters, FreshIsUnused DEF Launch
  <2> QED BY <2>2, <2>3, <2>4
<1>2. CASE CreateWorld
  <2>1. vol = "none" /\ vol' \in {vol, "empty"} /\ jobs' = jobs
    BY <1>2 DEF CreateWorld, Provision
  <2>2. Live' = Live
    BY <1>2, LiveKept DEF CreateWorld
  <2> QED BY <2>1, <2>2, NoSeedMade, StepSaves, StepClaims
<1>3. CASE RetrySeed
  <2>1. Live = {} /\ (\A j \in Jobs : ~SeedingFirst(j))
    BY <1>3, IdleFacts DEF RetrySeed
  <2>2. /\ Live' = Live /\ kept' = kept /\ vol' = vol
        /\ jobs' = jobs \/ jobs' = JobsWith(Fresh, "seed", op.src)
    BY <1>3 DEF RetrySeed, Live
  <2>3. CASE jobs' = jobs
    BY <2>2, <2>3, NoSeedMade, StepSaves
  <2>4. CASE jobs' = JobsWith(Fresh, "seed", op.src)
    BY <1>3, <2>1, <2>2, <2>4, StepEnters, FreshIsUnused DEF RetrySeed
  <2> QED BY <2>2, <2>3, <2>4
<1>4. CASE StartServer \/ Stop \/ UpdateSettings
  <2>1. jobs' = jobs /\ vol' = vol /\ (ScaleUp \/ ScaleDown \/ ReleaseKept)
    BY <1>4 DEF StartServer, Stop, UpdateSettings
  <2>2. Live' = Live
    BY <2>1, LiveKept
  <2> QED BY <2>1, <2>2, NoSeedMade, StepSaves
<1>5. ASSUME NEW kind, NEW src, BeginSnapshot(kind, src) PROVE Volume!Next
  <2>1. /\ vol' = vol /\ Live' = Live
        /\ jobs' = jobs \/ jobs' = JobsWith(Fresh, "snapshot", None)
    BY <1>5 DEF BeginSnapshot, Live
  <2>2. Fresh \in Jobs /\ jobs[Fresh].status = "absent"
    BY <1>5, FreshIsUnused DEF BeginSnapshot, Unused
  <2> QED BY <2>1, <2>2, NoSeedMade, StepSaves
<1>6. ASSUME NEW o, RecordOnly(o) PROVE Volume!Next
  <2>1. Live' = Live /\ jobs' = jobs /\ vol' = vol
    BY <1>6 DEF RecordOnly, Live
  <2> QED BY <2>1, NoSeedMade, StepSaves
<1>7. CASE Snapshot \/ Delete
  BY <1>5, <1>6, <1>7 DEF Snapshot, Delete
<1>8. ASSUME NEW src \in Jobs \cup {Archive}, Restore(src) PROVE Volume!Next
  BY <1>5, <1>6, <1>8 DEF Restore
<1>9. ASSUME NEW f \in Jobs, DeleteBackup(f) PROVE Volume!Next
  <2>1. Live' = Live /\ jobs' = jobs /\ vol' = vol
    BY <1>9 DEF DeleteBackup, Live
  <2> QED BY <2>1, NoSeedMade, StepSaves
<1> QED BY <1>1, <1>2, <1>3, <1>4, <1>7, <1>8, <1>9 DEF Request, Start

LEMMA ReconcileMaps ==
  ASSUME TypeOK, TypeOK', SeedInv, VolumeInv, FirstSeedAlone, FirstSeedAlone', Reconcile
  PROVE  Volume!Next
<1>1. CASE RecreateSnapshotJob
  <2>1. /\ vol' = vol /\ Live' = Live
        /\ op.job \in Jobs /\ jobs[op.job].status = "absent"
        /\ jobs' = jobs \/ jobs' = JobsWith(op.job, "snapshot", None)
    BY <1>1 DEF RecreateSnapshotJob, RecreateJob, At, Live, TypeOK, Ops
  <2> QED BY <2>1, NoSeedMade, StepSaves
<1>2. CASE RecreateSeedJob
  <2>1. /\ op.step = "seed" /\ op.job \in Jobs /\ jobs[op.job].status = "absent"
        /\ Live' = Live /\ kept' = kept /\ vol' = vol
        /\ jobs' = jobs \/ jobs' = JobsWith(op.job, "seed", op.src)
    BY <1>2 DEF RecreateSeedJob, RecreateJob, At, Live, TypeOK, Ops
  <2>2. Live = {} /\ (\A j \in Jobs : ~SeedingFirst(j))
    BY <2>1 DEF SeedInv, NoServerInSeed, SeedDoneSeen, SawSuccess, SeedTracked,
       SeedingFirst, FirstPod
  <2> QED BY <2>1, <2>2, NoSeedMade, StepSaves, StepEnters
<1>3. CASE Drain
  <2>1. /\ op.step = "drain" /\ Fresh \in Jobs /\ Live = {}
        /\ Live' = Live /\ kept' = kept /\ vol' = vol
        /\ jobs' = jobs \/ jobs' = JobsWith(Fresh, "seed", op.src)
    BY <1>3, FreshIsUnused DEF Drain, At, Live
  <2>2. \A j \in Jobs : ~SeedingFirst(j)
    BY <2>1 DEF SeedInv, SeedTracked
  <2> QED BY <2>1, <2>2, NoSeedMade, StepSaves, StepEnters
<1>4. CASE SnapshotFailed \/ SeedFailed \/ SnapshotDone \/ SeedDone
  <2>1. vol' = vol /\ jobs' = jobs
    BY <1>4 DEF SnapshotFailed, SeedFailed, SnapshotDone, SeedDone, RecordOnly
  <2>2. Live' = Live
    BY <1>4, LiveKept DEF SnapshotFailed, SeedFailed, SnapshotDone, SeedDone, RecordOnly
  <2> QED BY <2>1, <2>2, NoSeedMade, StepSaves
<1>5. CASE FinishInstall
  <2>1. /\ jobs' = jobs
        /\ vol' = vol \/ (vol = "none" /\ vol' = "empty")
    BY <1>5 DEF FinishInstall, Provision
  <2>2. Live' = Live
    BY <1>5, LiveKept DEF FinishInstall
  <2> QED BY <2>1, <2>2, NoSeedMade, StepSaves, StepClaims
<1>6. CASE Teardown
  <2>1. /\ op.step = "teardown" /\ kept' = kept
        /\ pods' = pods \/ pods' = Retired("stopping")
        /\ jobs' = jobs \/ jobs' = [j \in Jobs |-> NoJob]
        /\ \/ vol' = vol
           \/ vol' = "none" /\ Live = {}
           \/ vol' = "doomed"
    BY <1>6 DEF Teardown, At
  <2>2. Live' = Live
    BY <2>1, LiveKept
  <2>3. \A j \in Jobs : ~SeedingFirst(j) /\ ~SeedingFirst(j)'
    BY <2>1 DEF SeedInv, SeedTracked, SeedingFirst, FirstPod, NoJob
  <2>4. UserKept
    BY <2>2, <2>3 DEF UserKept
  <2>5. VolumeUser' = VolumeUser /\ VolumeUser # "copier"
    BY <2>3, <2>4, SameUser, VolumeUserIs
  <2>6. Live = {} => VolumeUser = "nobody"
    BY <2>3, VolumeUserIs
  <2>7. vol = "played" => kept
    BY <2>1 DEF VolumeInv, SavedFirst
  <2>8. CASE vol' = vol
    BY <2>4, <2>8, StepSaves
  <2>9. CASE vol' # vol
    BY <2>1, <2>5, <2>6, <2>7, <2>9 DEF Volume!Next, Volume!Destroy, Volume!Destroyable
  <2> QED BY <2>8, <2>9
<1> QED BY <1>1, <1>2, <1>3, <1>4, <1>5, <1>6 DEF Reconcile

LEMMA ClusterMaps ==
  ASSUME TypeOK, TypeOK', SeedInv, OneInv, SourceInv, VolumeInv,
         FirstSeedAlone, FirstSeedAlone', Cluster
  PROVE  Volume!Next
<1>1. ASSUME NEW p \in Pods, PodStarts(p) PROVE Volume!Next
  <2>1. /\ release = "running" /\ \A q \in Pods : pods[q] \in {"none", "stopping"}
        /\ pods' = [pods EXCEPT ![p] = "starting"] /\ UNCHANGED <<vol, kept>>
    BY <1>1 DEF PodStarts, PodsOnly
  <2>2. Live = {}
    BY <2>1 DEF OneInv, NoneStops, Live
  <2>3. \A j \in Jobs : ~SeedingFirst(j)
    BY <2>1 DEF FirstSeedAlone
  <2>4. p \in Live'
    BY <2>1 DEF TypeOK, Live
  <2>5. VolumeUser = "nobody" /\ VolumeUser' = "server"
    BY <2>2, <2>3, <2>4, VolumeUserIs, VolumeUserWillBe
  <2>6. vol \in {"empty", "seeded", "played"}
    <3>1. vol \notin {"none", "doomed"}
      BY <2>1 DEF SeedInv, VolumeThere, Usable
    <3>2. vol # "partial"
      BY <2>1 DEF VolumeInv, WipedTracked, SeedInv, NoServerInSeed, SeedDoneSeen, SawSuccess
    <3> QED BY <3>1, <3>2 DEF TypeOK, Volumes
  <2> QED BY <2>1, <2>5, <2>6 DEF Volume!Next, Volume!ServerEnters
<1>2. ASSUME NEW p \in Pods, PodReady(p) PROVE Volume!Next
  <2>1. /\ pods[p] = "starting" /\ pods' = [pods EXCEPT ![p] = "ready"]
        /\ vol' = (IF vol = "partial" THEN vol ELSE "played") /\ kept' = kept
    BY <1>2 DEF PodReady, PodsOnly
  <2>2. p \in Live /\ p \in Live'
    BY <2>1 DEF TypeOK, Live
  <2>3. vol # "partial"
    BY <2>2 DEF VolumeInv, WipedTracked, SeedInv, NoServerInSeed, SeedDoneSeen, SawSuccess
  <2>4. VolumeUser = "server" /\ VolumeUser' = "server"
    BY <2>2, VolumeUserIs, VolumeUserWillBe
  <2> QED BY <2>1, <2>3, <2>4 DEF Volume!Next, Volume!Plays
<1>3. ASSUME NEW p \in Pods, ServerRestarts(p) PROVE Volume!Next
  <2>1. /\ pods[p] = "ready" /\ pods' = [pods EXCEPT ![p] = "starting"]
        /\ UNCHANGED <<vol, jobs>>
    BY <1>3 DEF ServerRestarts, PodsOnly
  <2>2. Live' = Live
    BY <2>1 DEF TypeOK, Live
  <2> QED BY <2>1, <2>2, NoSeedMade, StepSaves
<1>4. ASSUME NEW p \in Pods, PodGone(p) PROVE Volume!Next
  <2>1. /\ pods[p] \in {"stopping", "replaced"} /\ pods' = [pods EXCEPT ![p] = "none"]
        /\ UNCHANGED <<vol, kept, jobs>>
    BY <1>4 DEF PodGone, PodsOnly
  <2>2. p \in Live
    BY <2>1 DEF Live
  <2>3. \A q \in Pods : pods[q] # "none" => q = p
    BY <2>2 DEF OneInv, OneServer, Live
  <2>4. Live' = {}
    BY <2>1, <2>3 DEF TypeOK, Live
  <2>5. \A j \in Jobs : ~SeedingFirst(j)
    BY <2>2 DEF FirstSeedAlone
  <2>6. \A j \in Jobs : ~SeedingFirst(j)'
    BY <2>1, <2>5 DEF SeedingFirst, FirstPod
  <2>7. VolumeUser = "server" /\ VolumeUser' = "nobody"
    BY <2>2, <2>4, <2>6, VolumeUserIs, VolumeUserWillBe
  <2> QED BY <2>1, <2>7 DEF Volume!Next, Volume!Leaves
<1>5. CASE VolumeGone
  <2>1. /\ vol = "doomed" /\ vol' = "none" /\ Live = {} /\ Live' = {}
        /\ UNCHANGED <<jobs, kept>>
    BY <1>5 DEF VolumeGone, PodsOnly, Live
  <2>2. \A j \in Jobs : ~SeedingFirst(j)
    <3>1. ~known => \A j \in Jobs : jobs[j] = NoJob
      BY DEF SeedInv, Orphanless, NoOrphans
    <3>2. known => op.step = "teardown"
      BY <2>1 DEF SeedInv, VolumeThere, At
    <3> QED BY <3>1, <3>2 DEF SeedInv, SeedTracked, SeedingFirst, FirstPod, NoJob
  <2>3. \A j \in Jobs : ~SeedingFirst(j)'
    BY <2>1, <2>2 DEF SeedingFirst, FirstPod
  <2>4. VolumeUser = "nobody" /\ VolumeUser' = "nobody"
    BY <2>1, <2>2, <2>3, VolumeUserIs, VolumeUserWillBe
  <2> QED BY <2>1, <2>4 DEF Volume!Next, Volume!Destroy, Volume!Destroyable
<1>6. ASSUME NEW j \in Jobs, NEW status, JobIs(j, status)
      PROVE  \A i \in Jobs :
               /\ jobs'[i].kind = jobs[i].kind
               /\ jobs'[i].status = IF i = j THEN status ELSE jobs[i].status
  BY <1>6 DEF TypeOK, JobRecords, JobIs
<1>7. ASSUME NEW j \in Jobs, SeedWipes(j) PROVE Volume!Next
  <2>1. SeedingFirst(j) /\ (vol = "played" => kept)
    BY <1>7, Wiper
  <2>2. /\ JobIs(j, "copying") /\ vol' = "partial" /\ kept' = kept /\ Live' = Live
    BY <1>7, <2>1 DEF SeedWipes, SeedingFirst, JobsOnly, Live
  <2>3. SeedingFirst(j)' /\ Live = {}
    BY <1>6, <2>1, <2>2 DEF SeedingFirst, FirstPod, FirstSeedAlone
  <2>4. VolumeUser = "copier" /\ VolumeUser' = "copier"
    BY <2>1, <2>2, <2>3, VolumeUserIs, VolumeUserWillBe
  <2> QED BY <2>1, <2>2, <2>4 DEF Volume!Next, Volume!Copies, Volume!Destroyable
<1>8. ASSUME NEW j \in Jobs, NEW status \in {"succeeded", "retrying"}, SeedingFirst(j),
             JobIs(j, status), UNCHANGED <<pods, kept>>, vol' = vol \/ vol' = "seeded"
      PROVE  Volume!Next
  <2>1. /\ \A i \in Jobs : ~SeedingFirst(i)'
        /\ Live = {} /\ Live' = {}
    BY <1>6, <1>8 DEF SeedingFirst, FirstPod, FirstSeedAlone, Live
  <2>2. VolumeUser = "copier" /\ VolumeUser' = "nobody"
    BY <1>8, <2>1, VolumeUserIs, VolumeUserWillBe
  <2> QED BY <1>8, <2>2 DEF Volume!Next, Volume!Leaves
<1>9. ASSUME NEW j \in Jobs, SeedSucceeds(j) PROVE Volume!Next
  <2>1. SeedingFirst(j)
    BY <1>9, Wiper
  <2> QED BY <1>8, <1>9, <2>1
          DEF SeedSucceeds, Finished, SeedingFirst, JobsOnly
<1>10. ASSUME NEW j \in Jobs, ~SeedingFirst(j), vol' = vol, UNCHANGED pods,
              \A i \in Jobs : SeedingFirst(i)' <=> SeedingFirst(i)
       PROVE  Volume!Next
  <2>1. UserKept
    BY <1>10 DEF UserKept, Live
  <2> QED BY <1>10, <2>1, StepSaves
<1>11. ASSUME NEW j \in Jobs, SnapshotSucceeds(j) PROVE Volume!Next
  <2>1. jobs[j].kind = "snapshot" /\ JobIs(j, Finished(j)) /\ vol' = vol /\ UNCHANGED pods
    BY <1>11 DEF SnapshotSucceeds, JobsOnly
  <2>2. ~SeedingFirst(j) /\ \A i \in Jobs : SeedingFirst(i)' <=> SeedingFirst(i)
    BY <1>6, <2>1 DEF SeedingFirst, FirstPod
  <2> QED BY <1>10, <2>1, <2>2
<1>12. ASSUME NEW j \in Jobs, JobPodFails(j) PROVE Volume!Next
  <2>1. /\ JobIs(j, IF FirstPod(j) THEN "retrying" ELSE "failed")
        /\ vol' = vol /\ UNCHANGED <<pods, kept>>
    BY <1>12 DEF JobPodFails, JobsOnly
  <2>2. CASE SeedingFirst(j)
    BY <1>8, <2>1, <2>2 DEF SeedingFirst
  <2>3. CASE ~SeedingFirst(j)
    <3>1. \A i \in Jobs : SeedingFirst(i)' <=> SeedingFirst(i)
      BY <1>6, <2>1, <2>3 DEF SeedingFirst, FirstPod
    <3> QED BY <1>10, <2>1, <2>3, <3>1
  <2> QED BY <2>2, <2>3
<1>13. ASSUME NEW j \in Jobs, JobExpires(j) PROVE Volume!Next
  <2>1. /\ \A i \in Jobs : jobs'[i] = IF i = j THEN NoJob ELSE jobs[i]
        /\ jobs[j].status \in {"succeeded", "recovered", "failed"}
        /\ vol' = vol /\ UNCHANGED pods
    BY <1>13 DEF TypeOK, JobExpires, JobsOnly
  <2>2. ~SeedingFirst(j) /\ \A i \in Jobs : SeedingFirst(i)' <=> SeedingFirst(i)
    BY <2>1 DEF SeedingFirst, FirstPod, NoJob
  <2> QED BY <1>10, <2>1, <2>2
<1> QED
  BY <1>1, <1>2, <1>3, <1>4, <1>5, <1>7, <1>9, <1>11, <1>12, <1>13 DEF Cluster

(* World keeps what the dashboard promises about a volume (docs/design.md, *)
(* Worlds and Seeding; README.md, Snapshots): one user at a time, servers  *)
(* on whole worlds only, no unsaved data destroyed.  Under the faults of   *)
(* ServedWorldIsWhole.                                                     *)
THEOREM WorldImplementsVolume ==
  ASSUME Faults \subseteq {"crash", "rcon"}
  PROVE  Spec => VolumePromise
<1>1. Init => Volume!Init
  <2> SUFFICES ASSUME Init PROVE Volume!Init
    OBVIOUS
  <2>1. \A j \in Jobs : ~SeedingFirst(j)
    BY DEF Init, NoJob, SeedingFirst, FirstPod
  <2>2. FirstSeedAlone
    BY <2>1 DEF FirstSeedAlone
  <2>3. CASE vol = "none"
    <3>1. Live = {}
      BY <2>3 DEF Init, Live
    <3> QED BY <2>1, <2>3, <3>1, VolumeUserIs DEF Init, Volume!Init
  <2>4. CASE vol = "played"
    <3>1. Live # {}
      BY <2>4 DEF Init, Live
    <3> QED BY <2>2, <2>4, <3>1, VolumeUserIs DEF Init, Volume!Init
  <2> QED BY <2>3, <2>4 DEF Init
<1>2. /\ TypeOK /\ SeedInv /\ OneInv /\ SourceInv /\ VolumeInv
      /\ TypeOK' /\ SeedInv' /\ [Next]_vars
      => [Volume!Next]_(Volume!volumeVars)
  <2> SUFFICES ASSUME TypeOK, SeedInv, OneInv, SourceInv, VolumeInv, TypeOK', SeedInv',
                      [Next]_vars
               PROVE  Volume!Next
    OBVIOUS
  <2>1. FirstSeedAlone
    BY SeedInvSafe
  <2>2. FirstSeedAlone'
    BY DEF SeedInv, NoServerInSeed, SeedTracked, SeedDoneSeen, SawSuccess, FirstSeedAlone,
       SeedingFirst, FirstPod
  <2>3. CASE UNCHANGED vars
    <3>1. Live' = Live /\ jobs' = jobs /\ vol' = vol
      BY <2>3 DEF vars, Live
    <3> QED BY <2>1, <2>2, <3>1, NoSeedMade, StepSaves
  <2> QED BY <2>1, <2>2, <2>3, RequestMaps, ReconcileMaps, ClusterMaps DEF Next
<1>3. Faults \subseteq {"crash", "job", "rcon"}
  OBVIOUS
<1> QED BY <1>1, <1>2, <1>3, TypeCorrect, AlwaysSeedInv, AlwaysOneInv, AlwaysSourceInv,
        AlwaysVolumeInv, PTL DEF Spec, VolumePromise, Volume!Spec

=============================================================================

---------------------------- MODULE WorldProofs ----------------------------
(***************************************************************************)
(* Theorems about World, for every set of Jobs and Pods, every Keep and    *)
(* every number of faults.                                                 *)
(***************************************************************************)
EXTENDS World, SequenceTheorems, TLAPS

(* The name a handler gives a new Job is one of the names, and unused.     *)
LEMMA FreshIsUnused ==
  ASSUME HasFresh
  PROVE  Fresh \in Jobs /\ Unused(Fresh)
BY DEF HasFresh, Fresh

(* A restore that may name two Jobs may name one.                          *)
LEMMA TwoFreshIsFresh == HasTwoFresh => HasFresh
BY DEF HasTwoFresh, HasFresh

LEMMA OpTypes ==
  /\ NoOp \in Ops
  /\ \A o \in Ops : Failed(o) \in Ops
  /\ \A kind \in Kinds, step \in Steps, job \in Jobs \cup {None}, src \in Sources :
       (step \in {"snapshot", "seed"} => job \in Jobs) =>
         NewOp(kind, step, job, src) \in Ops
BY ZenonT(30) DEF NoOp, Ops, Failed, NewOp, Kinds, Steps, Sources

LEMMA JobTypes ==
  ASSUME TypeOK, NEW j \in Jobs, NEW kind \in {"snapshot", "seed"}, NEW src \in Sources
  PROVE  JobsWith(j, kind, src) \in [Jobs -> JobRecords]
BY DEF TypeOK, JobsWith, JobRecords, JobStatus

(* Every way a handler may touch the release keeps the types.              *)
LEMMA ScaleTypes ==
  ASSUME TypeOK, ScaleUp \/ ScaleDown \/ ReleaseKept
  PROVE  /\ release' \in {"absent", "stopped", "running"}
         /\ pods' \in [Pods -> Phases]
         /\ kept' \in BOOLEAN
BY DEF TypeOK, ScaleUp, ScaleDown, ReleaseKept, Retired, Phases

LEMMA ProvisionTypes ==
  ASSUME TypeOK, Provision \/ UNCHANGED vol
  PROVE  vol' \in Volumes
BY DEF TypeOK, Provision, Volumes

LEMMA SaveOffTypes ==
  ASSUME TypeOK, SaveOn \/ (\E paused \in BOOLEAN : Pause(paused)) \/ UNCHANGED saveOff
  PROVE  saveOff' \in SUBSET Pods
BY DEF TypeOK, SaveOn, Pause, Ready

LEMMA FaultTypes ==
  ASSUME TypeOK
  PROVE  /\ \A k, n : Cut(k, n) => faults' \in 0..MaxFaults
         /\ \A k, n, how : Ended(k, n, how) => faults' \in 0..MaxFaults
<1> USE FaultsAssumption DEF TypeOK
<1>1. ASSUME NEW f, Affordable(f), faults' = faults + 1 PROVE faults' \in 0..MaxFaults
  BY <1>1 DEF Affordable
<1> QED BY <1>1 DEF Cut, Ended

LEMMA RecordTypes ==
  ASSUME TypeOK, NEW how, NEW saved \in Ops, Recorded(how, saved)
  PROVE  op' \in Ops
BY OpTypes DEF TypeOK, Recorded

(***************************************************************************)
(* Type correctness                                                        *)
(***************************************************************************)

LEMMA RequestTypes == ASSUME TypeOK, Request PROVE TypeOK'
<1> USE DEF TypeOK
<1>1. ASSUME NEW src \in Jobs \cup {Archive}, Launch(src) PROVE TypeOK'
  <2>1. op' \in Ops /\ vol' \in Volumes /\ jobs' \in [Jobs -> JobRecords]
    BY <1>1, FreshIsUnused, OpTypes, JobTypes, ProvisionTypes
       DEF Launch, Kinds, Steps, Sources
  <2>2. faults' \in 0..MaxFaults
    BY <1>1, FaultTypes DEF Launch
  <2> QED BY <1>1, <2>1, <2>2 DEF Launch
<1>2. CASE CreateWorld
  <2>1. op' \in Ops /\ vol' \in Volumes
    BY <1>2, OpTypes, ProvisionTypes DEF CreateWorld, Kinds, Steps, Sources
  <2>2. faults' \in 0..MaxFaults
    BY <1>2, FaultTypes, FaultsAssumption DEF CreateWorld, Affordable
  <2> QED BY <1>2, <2>1, <2>2, ScaleTypes DEF CreateWorld
<1>3. CASE RetrySeed
  <2>1. op' \in Ops
    BY <1>3, FreshIsUnused DEF RetrySeed, Ops
  <2>2. jobs' \in [Jobs -> JobRecords]
    BY <1>3, FreshIsUnused, JobTypes DEF RetrySeed, Ops
  <2>3. faults' \in 0..MaxFaults
    BY <1>3, FaultTypes DEF RetrySeed
  <2> QED BY <1>3, <2>1, <2>2, <2>3 DEF RetrySeed
<1>4. CASE StartServer
  <2>1. faults' \in 0..MaxFaults
    BY <1>4, FaultTypes DEF StartServer
  <2> QED BY <1>4, <2>1, OpTypes, ScaleTypes DEF StartServer
<1>5. CASE Stop
  <2>1. faults' \in 0..MaxFaults
    BY <1>5, FaultTypes DEF Stop
  <2> QED BY <1>5, <2>1, OpTypes, ScaleTypes DEF Stop
<1>6. ASSUME NEW kind \in Kinds, NEW src \in Sources, BeginSnapshot(kind, src)
      PROVE  TypeOK'
  <2>1. op' \in Ops
    <3>1. NewOp(kind, "snapshot", Fresh, src) \in Ops
      BY <1>6, FreshIsUnused, OpTypes DEF BeginSnapshot, Steps
    <3> QED BY <1>6, <3>1 DEF BeginSnapshot, Ops
  <2>2. jobs' \in [Jobs -> JobRecords]
    BY <1>6, FreshIsUnused, JobTypes DEF BeginSnapshot, Sources
  <2>3. saveOff' \in SUBSET Pods
    BY <1>6, SaveOffTypes DEF BeginSnapshot
  <2>4. faults' \in 0..MaxFaults
    BY <1>6, FaultTypes DEF BeginSnapshot
  <2> QED BY <1>6, <2>1, <2>2, <2>3, <2>4 DEF BeginSnapshot
<1>7. CASE Snapshot
  BY <1>7, <1>6 DEF Snapshot, Kinds, Sources
<1>8. ASSUME NEW src \in Jobs \cup {Archive}, Restore(src) PROVE TypeOK'
  BY <1>8, <1>6, OpTypes, ZenonT(30) DEF Restore, RecordOnly, Kinds, Steps, Sources
<1>9. CASE Delete
  BY <1>9, <1>6, OpTypes DEF Delete, RecordOnly, Kinds, Steps, Sources
<1>10. CASE UpdateSettings
  BY <1>10, ScaleTypes DEF UpdateSettings
<1>11. ASSUME NEW f \in Jobs, DeleteBackup(f) PROVE TypeOK'
  BY <1>11 DEF DeleteBackup, RemoveAt
<1> QED
  BY <1>1, <1>2, <1>3, <1>4, <1>5, <1>7, <1>8, <1>9, <1>10, <1>11
     DEF Request, Start

LEMMA ReconcileTypes == ASSUME TypeOK, Reconcile PROVE TypeOK'
<1> USE DEF TypeOK
<1>0. Failed(op) \in Ops
  BY OpTypes
<1>1. ASSUME NEW kind \in {"snapshot", "seed"}, NEW src \in Sources,
             op.job \in Jobs, RecreateJob(kind, src)
      PROVE  TypeOK'
  <2>1. jobs' \in [Jobs -> JobRecords]
    BY <1>1, JobTypes DEF RecreateJob
  <2>2. op' \in Ops /\ faults' \in 0..MaxFaults
    BY <1>1, RecordTypes, FaultTypes DEF RecreateJob
  <2> QED BY <1>1, <2>1, <2>2 DEF RecreateJob
<1>2. CASE SnapshotFailed
  BY <1>2, OpTypes, SaveOffTypes DEF SnapshotFailed
<1>3. CASE SnapshotDone
  <2>1. AfterSnapshot \in Ops
    BY OpTypes DEF AfterSnapshot, Ops, Steps
  <2>2. op' \in Ops /\ faults' \in 0..MaxFaults
    BY <1>3, <2>1, RecordTypes, FaultTypes DEF SnapshotDone
  <2>3. files' \in Seq(Jobs)
    <3>1. ASSUME Len(files) > Keep PROVE Pruned \in Seq(Jobs)
      BY <3>1, KeepAssumption, SubSeqProperties DEF Pruned
    <3> QED BY <1>3, <3>1 DEF SnapshotDone, Prune
  <2>4. saveOff' \in SUBSET Pods
    BY <1>3, SaveOffTypes DEF SnapshotDone
  <2> QED BY <1>3, <2>2, <2>3, <2>4, ScaleTypes DEF SnapshotDone
<1>4. CASE Drain
  <2>1. [op EXCEPT !.step = "seed", !.job = Fresh] \in Ops
    BY <1>4, FreshIsUnused DEF Drain, Ops, Steps
  <2>2. op' \in Ops
    <3>1. PICK how \in Endings, n \in 0..2 :
            Recorded(how, IF n >= 1 THEN [op EXCEPT !.step = "seed", !.job = Fresh]
                                    ELSE op)
      BY <1>4 DEF Drain
    <3> QED BY <2>1, <3>1, <1>0 DEF Recorded
  <2>4. faults' \in 0..MaxFaults
    BY <1>4, FaultTypes DEF Drain
  <2>3. jobs' \in [Jobs -> JobRecords]
    BY <1>4, FreshIsUnused, JobTypes DEF Drain, Ops
  <2> QED BY <1>4, <2>2, <2>3, <2>4 DEF Drain
<1>5. CASE SeedFailed
  BY <1>5, <1>0 DEF SeedFailed, RecordOnly
<1>6. CASE SeedDone
  <2>1. op' \in Ops /\ faults' \in 0..MaxFaults
    BY <1>6, OpTypes, RecordTypes, FaultTypes DEF SeedDone
  <2> QED BY <1>6, <2>1, ScaleTypes DEF SeedDone
<1>7. CASE FinishInstall
  <2>1. op' \in Ops /\ faults' \in 0..MaxFaults
    BY <1>7, OpTypes, RecordTypes, FaultTypes DEF FinishInstall
  <2>2. vol' \in Volumes
    BY <1>7, ProvisionTypes DEF FinishInstall
  <2> QED BY <1>7, <2>1, <2>2, ScaleTypes DEF FinishInstall
<1>8. CASE Teardown
  <2>1. op' \in Ops /\ faults' \in 0..MaxFaults
    BY <1>8, OpTypes, RecordTypes, FaultTypes DEF Teardown
  <2>2. pods' \in [Pods -> Phases] /\ vol' \in Volumes
    BY <1>8 DEF Teardown, Retired, Phases, Volumes
  <2>3. jobs' \in [Jobs -> JobRecords]
    BY <1>8 DEF Teardown, NoJob, JobRecords, Sources, JobStatus
  <2> QED BY <1>8, <2>1, <2>2, <2>3 DEF Teardown
<1>9. CASE RecreateSnapshotJob
  BY <1>9, <1>1 DEF RecreateSnapshotJob, At, Ops, Sources
<1>10. CASE RecreateSeedJob
  BY <1>10, <1>1 DEF RecreateSeedJob, At, Ops
<1> QED
  BY <1>2, <1>3, <1>4, <1>5, <1>6, <1>7, <1>8, <1>9, <1>10 DEF Reconcile

LEMMA ClusterTypes == ASSUME TypeOK, Cluster PROVE TypeOK'
<1> USE DEF TypeOK
<1>1. ASSUME NEW p \in Pods,
             PodStarts(p) \/ PodReady(p) \/ ServerRestarts(p) \/ PodGone(p)
      PROVE  TypeOK'
  BY <1>1 DEF PodStarts, PodReady, ServerRestarts, PodGone, PodsOnly, Phases, Volumes
<1>2. CASE VolumeGone
  BY <1>2 DEF VolumeGone, PodsOnly, Volumes
<1>3. ASSUME NEW j \in Jobs, SeedWipes(j) \/ SeedSucceeds(j) \/ JobPodFails(j)
      PROVE  TypeOK'
  BY <1>3 DEF SeedWipes, SeedSucceeds, JobPodFails, JobIs, Finished, JobsOnly,
              JobRecords, JobStatus, Volumes
<1>4. ASSUME NEW j \in Jobs, SnapshotSucceeds(j) PROVE TypeOK'
  <2>1. files' \in Seq(Jobs)
    BY <1>4 DEF SnapshotSucceeds
  <2>2. jobs' \in [Jobs -> JobRecords]
    BY <1>4 DEF SnapshotSucceeds, JobIs, Finished, JobRecords, JobStatus
  <2> QED BY <1>4, <2>1, <2>2 DEF SnapshotSucceeds, JobsOnly
<1>5. ASSUME NEW j \in Jobs, JobExpires(j) PROVE TypeOK'
  <2>1. jobs' \in [Jobs -> JobRecords]
    BY <1>5 DEF JobExpires, NoJob, JobRecords, JobStatus, Sources
  <2>2. faults' \in 0..MaxFaults
    BY <1>5, FaultsAssumption DEF JobExpires, Affordable
  <2> QED BY <1>5, <2>1, <2>2 DEF JobExpires, JobsOnly
<1> QED BY <1>1, <1>2, <1>3, <1>4, <1>5 DEF Cluster

LEMMA InitTypes == Init => TypeOK
<1> SUFFICES ASSUME Init PROVE TypeOK
  OBVIOUS
<1>1. op \in Ops
  BY OpTypes DEF Init, Kinds, Steps, Sources
<1>2. jobs \in [Jobs -> JobRecords]
  BY DEF Init, NoJob, JobRecords, JobStatus, Sources
<1>3. pods \in [Pods -> Phases]
  BY DEF Init, Phases
<1>4. /\ known \in BOOLEAN /\ release \in {"absent", "stopped", "running"}
      /\ vol \in Volumes /\ saveOff \in SUBSET Pods /\ kept \in BOOLEAN
  BY DEF Init, Volumes
<1>5. files \in Seq(Jobs) /\ faults \in 0..MaxFaults
  BY FaultsAssumption DEF Init
<1> QED BY <1>1, <1>2, <1>3, <1>4, <1>5 DEF TypeOK

(* The variables keep their types: no handler, interrupted or not, writes  *)
(* a record that the next one cannot read (service.py, every handler).     *)
THEOREM TypeCorrect == Spec => []TypeOK
<1>1. TypeOK /\ [Next]_vars => TypeOK'
  <2>1. CASE Next
    BY <2>1, RequestTypes, ReconcileTypes, ClusterTypes DEF Next
  <2>2. ASSUME TypeOK, UNCHANGED vars PROVE TypeOK'
    BY <2>2 DEF vars, TypeOK
  <2> QED BY <2>1, <2>2
<1> QED BY InitTypes, <1>1, PTL DEF Spec

(***************************************************************************)
(* A name without a record has nothing in the cluster                      *)
(***************************************************************************)

Orphanless == NoOrphans /\ (~known => op = NoOp)

LEMMA RequestKnown == Request /\ ~UNCHANGED <<known, op, release, vol, jobs>> => known'
<1>1. ASSUME NEW src \in Jobs \cup {Archive}, Launch(src) PROVE known'
  BY <1>1 DEF Launch
<1>2. CASE CreateWorld
  BY <1>2 DEF CreateWorld
<1>3. CASE Start
  BY <1>3 DEF Start, RetrySeed, StartServer, Idle
<1>4. CASE Stop
  BY <1>4 DEF Stop, Idle
<1>5. CASE Snapshot
  BY <1>5 DEF Snapshot, BeginSnapshot, Idle
<1>6. ASSUME NEW src \in Jobs \cup {Archive}, Restore(src) PROVE known'
  BY <1>6 DEF Restore, BeginSnapshot, RecordOnly, Idle
<1>7. CASE Delete
  BY <1>7 DEF Delete, BeginSnapshot, RecordOnly, Idle
<1>8. CASE UpdateSettings
  BY <1>8 DEF UpdateSettings, Idle
<1>9. ASSUME NEW f \in Jobs, DeleteBackup(f)
      PROVE  UNCHANGED <<known, op, release, vol, jobs>>
  BY <1>9 DEF DeleteBackup
<1> QED
  BY <1>1, <1>2, <1>3, <1>4, <1>5, <1>6, <1>7, <1>8, <1>9 DEF Request

(* Every step of the reconciler but the last of a teardown keeps the       *)
(* record.                                                                 *)
LEMMA ReconcileKnown == Reconcile => known' \/ Teardown
<1>1. CASE RecreateSnapshotJob
  BY <1>1 DEF RecreateSnapshotJob, RecreateJob, At
<1>2. CASE RecreateSeedJob
  BY <1>2 DEF RecreateSeedJob, RecreateJob, At
<1>3. CASE SnapshotFailed \/ SnapshotDone
  BY <1>3 DEF SnapshotFailed, SnapshotDone, At
<1>4. CASE Drain \/ SeedFailed \/ SeedDone
  BY <1>4 DEF Drain, SeedFailed, SeedDone, RecordOnly, At
<1>5. CASE FinishInstall
  BY <1>5 DEF FinishInstall, At
<1> QED BY <1>1, <1>2, <1>3, <1>4, <1>5 DEF Reconcile

LEMMA AlwaysOrphanless == Spec => []Orphanless
<1>1. Init => Orphanless
  BY DEF Init, Orphanless, NoOrphans
<1>2. TypeOK /\ Orphanless /\ [Next]_vars => Orphanless'
  <2> SUFFICES ASSUME TypeOK, Orphanless, [Next]_vars, ~known'
               PROVE  Orphanless'
    BY DEF Orphanless, NoOrphans
  <2> USE DEF Orphanless, NoOrphans
  <2>1. CASE UNCHANGED <<known, op, release, vol, jobs>>
    BY <2>1
  <2>2. CASE Request
    BY <2>1, <2>2, RequestKnown
  <2>3. CASE Teardown
    <3>1. PICK how \in Endings, n \in 0..4 :
            /\ Ended(4, n, how)
            /\ release' = IF n >= 1 THEN "absent" ELSE release
            /\ jobs' = IF n >= 2 THEN [j \in Jobs |-> NoJob] ELSE jobs
            /\ vol' = IF n < 3 \/ vol = "none" THEN vol
                      ELSE IF Live = {} /\ ~(\E j \in Jobs : Active(j))
                      THEN "none" ELSE "doomed"
            /\ known' = (n < 4 \/ how = "error")
            /\ Recorded(how, IF n = 4 THEN NoOp ELSE op)
      BY <2>3 DEF Teardown
    <3>2. ~(n < 4 \/ how = "error")
      BY <3>1
    <3>3. n = 4
      BY <3>2
    <3> QED BY <3>1, <3>2, <3>3 DEF Recorded
  <2>4. CASE Reconcile /\ ~Teardown
    BY <2>4, ReconcileKnown
  <2>5. CASE Cluster
    <3>1. ASSUME NEW p \in Pods,
                 PodStarts(p) \/ PodReady(p) \/ ServerRestarts(p) \/ PodGone(p)
          PROVE  Orphanless'
      BY <3>1 DEF PodStarts, PodReady, ServerRestarts, PodGone, PodsOnly, Usable
    <3>2. CASE VolumeGone
      BY <3>2 DEF VolumeGone, PodsOnly
    <3>3. ASSUME NEW j \in Jobs,
                 SeedWipes(j) \/ SeedSucceeds(j) \/ SnapshotSucceeds(j)
                   \/ JobPodFails(j) \/ JobExpires(j)
          PROVE  FALSE
      BY <3>3 DEF NoJob, Active, FirstPod, Opened, SeedWipes, SeedSucceeds,
         SnapshotSucceeds, JobPodFails, JobExpires, JobsOnly
    <3> QED BY <2>5, <3>1, <3>2, <3>3 DEF Cluster
  <2> QED BY <2>1, <2>2, <2>3, <2>4, <2>5 DEF Next, vars
<1> QED BY <1>1, <1>2, TypeCorrect, PTL DEF Spec

(* Nothing is left in the cluster of a world whose ConfigMap is gone,      *)
(* whatever faults interrupt launch, create and delete.                    *)
THEOREM NoOrphansAlways == Spec => []NoOrphans
<1>1. Orphanless => NoOrphans
  BY DEF Orphanless
<1> QED BY <1>1, AlwaysOrphanless, PTL

(***************************************************************************)
(* A pending operation is not disturbed                                    *)
(***************************************************************************)

Undisturbed ==
  \/ op' \in {op, NoOp, Failed(op)}
  \/ /\ op'.kind = op.kind
     /\ \/ op.step = "snapshot" /\ op'.step \in {"drain", "teardown"}
        \/ op.step = "drain" /\ op'.step = "seed"

(* A world with a pending operation has a record, and every request that   *)
(* writes one finds it idle.                                               *)
LEMMA RequestWaits ==
  ASSUME Orphanless, Pending, Request
  PROVE  op' = op
<1> USE DEF Idle
<1>0. known
  BY DEF Orphanless, Pending, NoOp, NewOp
<1>1. ASSUME NEW src \in Jobs \cup {Archive}, Launch(src) \/ Restore(src) PROVE FALSE
  BY <1>0, <1>1 DEF Launch, Restore
<1>2. CASE CreateWorld \/ Start \/ Stop
  BY <1>0, <1>2 DEF CreateWorld, Start, RetrySeed, StartServer, Stop
<1>3. CASE Snapshot \/ Delete \/ UpdateSettings
  BY <1>3 DEF Snapshot, Delete, UpdateSettings
<1>4. ASSUME NEW f \in Jobs, DeleteBackup(f) PROVE op' = op
  BY <1>4 DEF DeleteBackup
<1> QED BY <1>1, <1>2, <1>3, <1>4 DEF Request

LEMMA ReconcileUndisturbed ==
  ASSUME TypeOK, Reconcile
  PROVE  Undisturbed
<1> USE DEF Undisturbed
<1>1. CASE RecreateSnapshotJob \/ RecreateSeedJob
  BY <1>1 DEF RecreateSnapshotJob, RecreateSeedJob, RecreateJob, Recorded
<1>2. CASE SnapshotFailed
  BY <1>2 DEF SnapshotFailed
<1>3. CASE SnapshotDone
  <2>1. PICK how \in Endings, n \in 0..2 : Recorded(how, IF n = 2 THEN AfterSnapshot ELSE op)
    BY <1>3 DEF SnapshotDone
  <2>2. op' \in {op, Failed(op), AfterSnapshot}
    BY <2>1 DEF Recorded
  <2>3. CASE op' = AfterSnapshot
    <3>1. op.step = "snapshot" /\ op \in Ops
      BY <1>3 DEF SnapshotDone, At, TypeOK
    <3>2. CASE AfterSnapshot = NoOp
      BY <2>3, <3>2
    <3>3. CASE AfterSnapshot # NoOp
      <4>1. op' = [op EXCEPT !.step = IF op.kind = "restore" THEN "drain" ELSE "teardown"]
        BY <2>3, <3>3 DEF AfterSnapshot
      <4> QED BY <3>1, <4>1 DEF Ops
    <3> QED BY <3>2, <3>3
  <2> QED BY <2>2, <2>3
<1>4. CASE Drain
  <2>1. PICK how \in Endings, n \in 0..2 :
          Recorded(how, IF n >= 1 THEN [op EXCEPT !.step = "seed", !.job = Fresh] ELSE op)
    BY <1>4 DEF Drain
  <2>2. op' \in {op, Failed(op), [op EXCEPT !.step = "seed", !.job = Fresh]}
    BY <2>1 DEF Recorded
  <2>3. op.step = "drain" /\ op \in Ops
    BY <1>4 DEF Drain, At, TypeOK
  <2> QED BY <2>2, <2>3 DEF Ops
<1>5. CASE SeedFailed
  BY <1>5 DEF SeedFailed, RecordOnly
<1>6. CASE SeedDone \/ FinishInstall \/ Teardown
  BY <1>6 DEF SeedDone, FinishInstall, Teardown, Recorded
<1> QED BY <1>1, <1>2, <1>3, <1>4, <1>5, <1>6 DEF Reconcile

LEMMA ClusterKeepsOp == Cluster => op' = op
BY DEF Cluster, PodStarts, PodReady, ServerRestarts, PodGone, VolumeGone, PodsOnly,
       SeedWipes, SeedSucceeds, SnapshotSucceeds, JobPodFails, JobExpires, JobsOnly

(* Whatever is requested and whatever fails, a pending operation only      *)
(* ends, fails or takes the next step of its kind (service.py: _busy).     *)
THEOREM PendingProtected == Spec => BusyProtected
<1>1. TypeOK /\ Orphanless /\ [Next]_vars =>
        [Pending /\ op' # op =>
           \/ op' \in {NoOp, Failed(op)}
           \/ /\ op'.kind = op.kind
              /\ \/ op.step = "snapshot" /\ op'.step \in {"drain", "teardown"}
                 \/ op.step = "drain" /\ op'.step = "seed"]_vars
  <2>1. ASSUME TypeOK, Orphanless, Pending, Next PROVE Undisturbed
    <3>1. CASE Request
      BY <2>1, <3>1, RequestWaits DEF Undisturbed
    <3>2. CASE Cluster
      BY <3>2, ClusterKeepsOp DEF Undisturbed
    <3> QED BY <2>1, <3>1, <3>2, ReconcileUndisturbed DEF Next
  <2> QED BY <2>1 DEF Undisturbed
<1> QED BY <1>1, TypeCorrect, AlwaysOrphanless, PTL DEF Spec, BusyProtected

(***************************************************************************)
(* A seed Job has the volume to itself                                     *)
(*                                                                         *)
(* FirstSeedAlone is not inductive.  Who makes a seed Job relies on having *)
(* seen no server and on the release being down since: that is what a      *)
(* pending "drain" and a "seed" step whose Job has not succeeded remember  *)
(* (NoServerInSeed), and what every handler that starts a server excludes. *)
(* A Job that copies is the one the record names (SeedTracked), so no      *)
(* second one is made beside it.  A fresh seed Job has no server because   *)
(* there is no volume yet (VolumeThere).                                   *)
(***************************************************************************)

OpSane ==
  /\ op.kind = "none" => op.step = "none"
  /\ op.failed => op.step = "seed"

SeedDoneSeen == ~op.failed /\ SawSuccess(op.job)

NoServerInSeed ==
  /\ op.step = "drain" => release # "running"
  /\ op.step = "seed" /\ ~SeedDoneSeen => release # "running" /\ Live = {}

SeedTracked ==
  \A j \in Jobs : SeedingFirst(j) => op.step = "seed" /\ ~op.failed /\ op.job = j

VolumeThere ==
  /\ vol = "none" => Live = {}
  /\ release = "running" => Usable
  /\ known /\ vol = "doomed" => At("teardown")
  /\ known /\ vol = "none" =>
       \/ At("install") \/ At("teardown")
       \/ At("seed") /\ ~SawFailure(op.job) /\ ~SawSuccess(op.job)

SeedInv == Orphanless /\ OpSane /\ NoServerInSeed /\ SeedTracked /\ VolumeThere

LEMMA SeedInvSafe == TypeOK /\ SeedInv => FirstSeedAlone
BY DEF SeedInv, NoServerInSeed, SeedTracked, SeedDoneSeen, SawSuccess, FirstSeedAlone,
       SeedingFirst, FirstPod

(* helm moves no pod out of the cluster by itself.                         *)
LEMMA LiveKept ==
  ASSUME TypeOK,
         ScaleUp \/ ScaleDown \/ ReleaseKept \/ pods' = pods \/ pods' = Retired("stopping")
  PROVE  Live' = Live
BY DEF TypeOK, ScaleUp, ScaleDown, ReleaseKept, Retired, Live

(* Without failed calls a step of the reconciler records no error.         *)
LEMMA NoErrors ==
  ASSUME Faults \subseteq {"crash", "job", "rcon"}, NEW k, NEW n, NEW how, Ended(k, n, how)
  PROVE  how # "error"
BY DEF Ended, Affordable

LEMMA SeedInvUnchanged ==
  SeedInv /\ UNCHANGED <<known, op, release, vol, pods, jobs>> => SeedInv'
BY DEF SeedInv, Orphanless, NoOrphans, OpSane, NoServerInSeed, SeedDoneSeen, SawSuccess,
       SawFailure, SeedTracked, SeedingFirst, FirstPod, VolumeThere, Usable, At, Pending, Live

(* A request that finds the world idle finds nobody seeding, a volume, and *)
(* no operation but a failed seed.                                         *)
LEMMA IdleFacts ==
  ASSUME TypeOK, SeedInv, Idle
  PROVE  /\ known /\ Usable
         /\ \A j \in Jobs : ~SeedingFirst(j)
         /\ op.step \in {"none", "seed"}
         /\ op.step = "seed" => op.failed /\ release # "running" /\ Live = {}
<1> USE DEF SeedInv, Idle, Pending
<1>1. known /\ Usable
  BY DEF VolumeThere, Usable, At
<1>2. op.kind = "none" \/ op.failed
  OBVIOUS
<1>3. op.step \in {"none", "seed"} /\ (op.step = "seed" => op.failed)
  BY <1>2 DEF OpSane
<1>4. \A j \in Jobs : ~SeedingFirst(j)
  BY <1>3 DEF SeedTracked
<1>5. op.step = "seed" => release # "running" /\ Live = {}
  BY <1>3 DEF NoServerInSeed, SeedDoneSeen
<1> QED BY <1>1, <1>3, <1>4, <1>5

(* An idle world keeps the invariant when a request makes no seed Job and  *)
(* stores no seed step.                                                    *)
LEMMA QuietRequest ==
  ASSUME TypeOK, SeedInv, Idle, known' = known, vol' = vol,
         \/ op' = op /\ pods' = pods /\ release' = release
         \/ /\ op'.step \notin {"seed", "drain"} /\ ~op'.failed
            /\ op'.kind = "none" => op'.step = "none"
         \/ /\ op'.step = "drain" /\ op'.kind # "none" /\ ~op'.failed
            /\ release' # "running",
         Live' = Live,
         \A j \in Jobs : SeedingFirst(j)' => SeedingFirst(j)
  PROVE  SeedInv'
<1>1. known /\ Usable /\ (\A j \in Jobs : ~SeedingFirst(j))
  BY IdleFacts
<1>2. Orphanless'
  BY <1>1 DEF Orphanless, NoOrphans
<1>3. OpSane'
  BY DEF SeedInv, OpSane
<1>4. SeedTracked'
  BY <1>1 DEF SeedTracked
<1>5. VolumeThere'
  BY <1>1 DEF VolumeThere, Usable
<1>6. NoServerInSeed'
  <2>1. CASE op' = op /\ pods' = pods /\ release' = release
    BY <2>1, IdleFacts DEF NoServerInSeed
  <2> QED BY <2>1 DEF NoServerInSeed
<1> QED BY <1>2, <1>3, <1>4, <1>5, <1>6 DEF SeedInv

LEMMA RequestSeedInv ==
  ASSUME TypeOK, SeedInv, Request, Faults \subseteq {"crash", "job", "rcon"}
  PROVE  SeedInv'
<1>1. ASSUME NEW src \in Jobs \cup {Archive}, Launch(src) PROVE SeedInv'
  <2> USE <1>1
  <2>1. release = "absent" /\ Live = {} /\ \A j \in Jobs : jobs[j] = NoJob
    BY DEF Launch, SeedInv, Orphanless, NoOrphans, VolumeThere
  <2>2. /\ known' /\ op' = NewOp("launch", "seed", Fresh, src)
        /\ vol' \in {"none", "empty"}
        /\ jobs' \in {jobs, JobsWith(Fresh, "seed", src)}
        /\ release' = "absent" /\ Live' = {}
    BY <2>1 DEF Launch, Provision, Live
  <2>3. \A j \in Jobs :
          /\ SeedingFirst(j)' => j = Fresh
          /\ jobs'[j].status \in {"absent", "running"}
    BY <2>1, <2>2 DEF TypeOK, JobsWith, NoJob, SeedingFirst, FirstPod
  <2>4. /\ op'.kind = "launch" /\ op'.step = "seed" /\ ~op'.failed
        /\ op'.job = Fresh /\ Fresh \in Jobs
    BY <2>2, FreshIsUnused DEF NewOp, Launch
  <2>5. VolumeThere'
    BY <2>2, <2>3, <2>4 DEF VolumeThere, At, Pending, Usable, SawFailure, SawSuccess
  <2>6. NoServerInSeed'
    BY <2>2, <2>4 DEF NoServerInSeed
  <2>7. SeedTracked'
    BY <2>3, <2>4 DEF SeedTracked
  <2> QED
    BY <2>2, <2>4, <2>5, <2>6, <2>7 DEF SeedInv, Orphanless, NoOrphans, OpSane
<1>2. CASE CreateWorld
  <2> USE <1>2
  <2>1. Live = {} /\ \A j \in Jobs : jobs[j] = NoJob
    BY DEF CreateWorld, SeedInv, Orphanless, NoOrphans, VolumeThere
  <2>2. Live' = {}
    BY <2>1, LiveKept DEF CreateWorld
  <2>3. /\ known' /\ vol' \in {"none", "empty"} /\ jobs' = jobs
        /\ op' \in {NoOp, NewOp("create", "install", None, None)}
        /\ vol' = "none" => op' # NoOp /\ release' = release
    <3>1. ~Affordable("refused") /\ ~Affordable("lost")
      BY DEF Affordable
    <3>2. PICK n \in 1..4 :
            /\ op' = IF n = 4 THEN NoOp ELSE NewOp("create", "install", None, None)
            /\ IF n >= 2 THEN Provision ELSE UNCHANGED vol
            /\ IF n >= 3 THEN ScaleUp ELSE ReleaseKept
      BY <3>1 DEF CreateWorld
    <3>3. CASE n = 1
      BY <3>2, <3>3 DEF CreateWorld, ReleaseKept, NoOp, NewOp
    <3>4. CASE n >= 2
      BY <3>2, <3>4 DEF CreateWorld, Provision
    <3> QED BY <3>3, <3>4
  <2>4. OpSane' /\ NoServerInSeed'
    BY <2>3 DEF OpSane, NoServerInSeed, NoOp, NewOp
  <2>5. SeedTracked'
    BY <2>1, <2>3 DEF SeedTracked, SeedingFirst, NoJob
  <2>6. VolumeThere'
    BY <2>2, <2>3 DEF CreateWorld, SeedInv, Orphanless, NoOrphans, VolumeThere, At,
       Pending, Usable, NoOp, NewOp
  <2> QED BY <2>3, <2>4, <2>5, <2>6 DEF SeedInv, Orphanless, NoOrphans
<1>3. CASE RetrySeed
  <2>1. /\ known /\ Usable /\ op.failed /\ release # "running" /\ Live = {}
        /\ \A j \in Jobs : ~SeedingFirst(j)
    BY <1>3, IdleFacts DEF RetrySeed
  <2>2. /\ op' = [op EXCEPT !.job = Fresh, !.failed = FALSE]
        /\ jobs' \in {jobs, JobsWith(Fresh, "seed", op.src)}
        /\ UNCHANGED <<known, release, vol, pods>>
    BY <1>3 DEF RetrySeed
  <2>3. op'.step = "seed" /\ ~op'.failed /\ op'.job = Fresh /\ op'.kind # "none"
    BY <1>3, <2>1, <2>2 DEF RetrySeed, SeedInv, OpSane, TypeOK, Ops
  <2>4. SeedTracked'
    BY <2>1, <2>2, <2>3 DEF SeedTracked, SeedingFirst, FirstPod, JobsWith, TypeOK
  <2>5. NoServerInSeed' /\ VolumeThere'
    BY <2>1, <2>2, <2>3 DEF NoServerInSeed, VolumeThere, Usable, Live
  <2> QED BY <2>1, <2>2, <2>3, <2>4, <2>5 DEF SeedInv, Orphanless, NoOrphans, OpSane
<1>4. CASE StartServer
  <2>1. Live' = Live
    BY <1>4, LiveKept DEF StartServer
  <2>2. op' = NoOp \/ (op' = op /\ pods' = pods /\ release' = release)
    BY <1>4 DEF StartServer
  <2> QED
    BY <1>4, <2>1, <2>2, QuietRequest
       DEF StartServer, NoOp, NewOp, SeedingFirst, FirstPod
<1>5. CASE Stop
  <2>1. Live' = Live
    BY <1>5, LiveKept DEF Stop
  <2> QED
    BY <1>5, <2>1, QuietRequest DEF Stop, NoOp, NewOp, SeedingFirst, FirstPod
<1>6. ASSUME NEW kind \in Kinds \ {"none"}, NEW src, Idle, BeginSnapshot(kind, src)
      PROVE  SeedInv'
  <2>1. /\ known' = known /\ vol' = vol /\ release' = release /\ pods' = pods
        /\ jobs' \in {jobs, JobsWith(Fresh, "snapshot", None)}
        /\ \/ op' = op
           \/ \E paused : op' = [NewOp(kind, "snapshot", Fresh, src)
                                   EXCEPT !.paused = paused]
    BY <1>6 DEF BeginSnapshot
  <2>2. \A j \in Jobs : SeedingFirst(j)' => SeedingFirst(j)
    BY <2>1 DEF TypeOK, JobsWith, SeedingFirst, FirstPod
  <2>3. Live' = Live
    BY <2>1 DEF Live
  <2>4. op' = op \/ (op'.step = "snapshot" /\ op'.kind = kind /\ ~op'.failed)
    BY <2>1 DEF NewOp
  <2> QED BY <1>6, <2>1, <2>2, <2>3, <2>4, QuietRequest
<1>7. CASE Snapshot
  BY <1>7, <1>6 DEF Snapshot, Kinds
<1>8. ASSUME NEW kind \in Kinds \ {"none"}, NEW step \in {"drain", "teardown"}, NEW src,
             Idle, RecordOnly(NewOp(kind, step, None, src)),
             step = "drain" => release # "running"
      PROVE  SeedInv'
  BY <1>8, QuietRequest DEF RecordOnly, NewOp, Live, SeedingFirst, FirstPod
<1>9. ASSUME NEW src \in Jobs \cup {Archive}, Restore(src) PROVE SeedInv'
  <2>1. Idle
    BY <1>9 DEF Restore
  <2>2. op.step \in {"seed", "install"} => release # "running"
    BY <2>1, IdleFacts
  <2> QED BY <1>9, <2>1, <2>2, <1>6, <1>8 DEF Restore, Kinds
<1>10. CASE Delete
  BY <1>10, <1>6, <1>8 DEF Delete, Kinds
<1>11. CASE UpdateSettings
  <2>1. Live' = Live /\ release' = release
    BY <1>11, LiveKept DEF UpdateSettings, ScaleUp
  <2>2. op.step # "seed" /\ known /\ Usable
    BY <1>11, IdleFacts DEF UpdateSettings
  <2>3. NoServerInSeed' /\ VolumeThere'
    BY <1>11, <2>1, <2>2, IdleFacts DEF UpdateSettings, NoServerInSeed, VolumeThere, Usable
  <2> QED
    BY <1>11, <2>2, <2>3 DEF UpdateSettings, SeedInv, Orphanless, NoOrphans, OpSane,
       SeedTracked, SeedingFirst, FirstPod
<1>12. ASSUME NEW f \in Jobs, DeleteBackup(f) PROVE SeedInv'
  BY <1>12, SeedInvUnchanged DEF DeleteBackup
<1> QED
  BY <1>1, <1>2, <1>3, <1>4, <1>5, <1>7, <1>9, <1>10, <1>11, <1>12
     DEF Request, Start

LEMMA ReconcileSeedInv ==
  ASSUME TypeOK, SeedInv, Reconcile, Faults \subseteq {"crash", "job", "rcon"}
  PROVE  SeedInv'
<1> USE DEF SeedInv
<1>1. CASE RecreateSnapshotJob
  <2>1. /\ known /\ op.step = "snapshot" /\ op' = op
        /\ jobs' \in {jobs, JobsWith(op.job, "snapshot", None)}
        /\ UNCHANGED <<known, release, vol, pods>>
    BY <1>1, NoErrors DEF RecreateSnapshotJob, RecreateJob, At, Recorded
  <2>2. SeedTracked'
    BY <2>1 DEF TypeOK, SeedTracked, SeedingFirst, FirstPod, JobsWith
  <2>3. NoServerInSeed' /\ VolumeThere'
    BY <2>1 DEF NoServerInSeed, VolumeThere, At, Usable, Live
  <2> QED BY <2>1, <2>2, <2>3 DEF Orphanless, NoOrphans, OpSane
<1>2. CASE SnapshotFailed
  <2>1. /\ known /\ op.step = "snapshot" /\ op' = NoOp
        /\ UNCHANGED <<known, release, vol, pods, jobs>>
    BY <1>2 DEF SnapshotFailed, At
  <2>2. SeedTracked'
    BY <2>1 DEF SeedTracked, SeedingFirst, FirstPod
  <2>3. NoServerInSeed' /\ VolumeThere' /\ OpSane'
    BY <2>1 DEF NoServerInSeed, VolumeThere, OpSane, At, Usable, Live, NoOp, NewOp
  <2> QED BY <2>1, <2>2, <2>3 DEF Orphanless, NoOrphans
<1>3. CASE SnapshotDone
  <2>1. /\ known /\ op.step = "snapshot" /\ op.kind # "none" /\ ~op.failed
        /\ op' \in {op, NoOp, [op EXCEPT !.step = "drain"], [op EXCEPT !.step = "teardown"]}
        /\ UNCHANGED <<known, vol, jobs>>
    BY <1>3, NoErrors DEF SnapshotDone, At, Pending, Recorded, AfterSnapshot
  <2>2. op'.step = "drain" => release' # "running"
    <3>1. PICK how \in Endings, n \in 0..2 :
            /\ Ended(2, n, how)
            /\ IF n >= 1 /\ Released /\ op.kind \in {"stop", "restore"}
               THEN ScaleDown ELSE ReleaseKept
            /\ Recorded(how, IF n = 2 THEN AfterSnapshot ELSE op)
      BY <1>3 DEF SnapshotDone
    <3>2. how # "error"
      BY <3>1, NoErrors
    <3>3. op'.step = "drain" => n = 2 /\ op.kind = "restore"
      BY <2>1, <3>1, <3>2 DEF Recorded, AfterSnapshot, NoOp, NewOp, TypeOK, Ops
    <3> QED BY <3>1, <3>3 DEF ScaleDown, ReleaseKept, Released
  <2>3. Live' = Live /\ release' \in {release, "stopped"}
    BY <1>3, LiveKept DEF SnapshotDone, ScaleDown, ReleaseKept
  <2>4. /\ op'.step \in {"none", "snapshot", "drain", "teardown"}
        /\ OpSane'
    BY <2>1 DEF TypeOK, Ops, NoOp, NewOp, OpSane
  <2>5. SeedTracked'
    BY <2>1 DEF SeedTracked, SeedingFirst, FirstPod
  <2>6. NoServerInSeed' /\ VolumeThere'
    BY <2>1, <2>2, <2>3, <2>4 DEF NoServerInSeed, VolumeThere, At, Usable
  <2> QED BY <2>1, <2>4, <2>5, <2>6 DEF Orphanless, NoOrphans
<1>4. CASE Drain
  <2>1. /\ known /\ op.step = "drain" /\ op.kind # "none" /\ ~op.failed
        /\ release # "running" /\ Live = {} /\ Fresh \in Jobs /\ Unused(Fresh)
    BY <1>4, FreshIsUnused DEF Drain, At, Pending, NoServerInSeed
  <2>2. /\ \/ op' = op /\ jobs' = jobs
           \/ /\ op' = [op EXCEPT !.step = "seed", !.job = Fresh]
              /\ jobs' \in {jobs, JobsWith(Fresh, "seed", op.src)}
        /\ UNCHANGED <<known, release, vol, pods>>
    BY <1>4, NoErrors DEF Drain, Recorded
  <2>3. /\ op'.kind # "none" /\ ~op'.failed
        /\ \/ op'.step = "seed" /\ op'.job = Fresh
           \/ op'.step = "drain" /\ jobs' = jobs
    <3>1. CASE op' = op /\ jobs' = jobs
      BY <2>1, <3>1
    <3>2. CASE op' = [op EXCEPT !.step = "seed", !.job = Fresh]
      BY <2>1, <3>2 DEF TypeOK, Ops
    <3> QED BY <2>2, <3>1, <3>2
  <2>4. SeedTracked'
    BY <2>1, <2>2, <2>3 DEF TypeOK, SeedTracked, SeedingFirst, FirstPod, JobsWith
  <2>5. NoServerInSeed' /\ VolumeThere'
    BY <2>1, <2>2, <2>3 DEF NoServerInSeed, VolumeThere, At, Usable, Live
  <2> QED BY <2>1, <2>2, <2>3, <2>4, <2>5 DEF Orphanless, NoOrphans, OpSane
<1>5. CASE RecreateSeedJob
  <2>1. /\ known /\ op.step = "seed" /\ ~op.failed /\ op.kind # "none" /\ op.job \in Jobs
        /\ jobs[op.job].status = "absent"
        /\ op' = op /\ jobs' \in {jobs, JobsWith(op.job, "seed", op.src)}
        /\ UNCHANGED <<known, release, vol, pods>>
    BY <1>5, NoErrors
       DEF RecreateSeedJob, RecreateJob, At, Pending, Recorded, TypeOK, Ops
  <2>2. jobs'[op.job].status \in {"absent", "running"} /\ release # "running" /\ Live = {}
    BY <2>1 DEF TypeOK, JobsWith, NoServerInSeed, SeedDoneSeen, SawSuccess
  <2>3. SeedTracked'
    BY <2>1 DEF TypeOK, SeedTracked, SeedingFirst, FirstPod, JobsWith
  <2>4. NoServerInSeed' /\ VolumeThere'
    BY <2>1, <2>2 DEF NoServerInSeed, VolumeThere, At, Pending, Usable, Live,
       SawFailure, SawSuccess
  <2> QED BY <2>1, <2>3, <2>4 DEF Orphanless, NoOrphans, OpSane
<1>6. CASE SeedFailed
  <2>1. /\ known /\ op.step = "seed" /\ ~op.failed /\ op.kind # "none"
        /\ SawFailure(op.job) /\ op' = Failed(op)
        /\ UNCHANGED <<known, release, vol, pods, jobs>>
    BY <1>6 DEF SeedFailed, RecordOnly, At, Pending
  <2>2. op'.step = "seed" /\ op'.failed
    BY <2>1 DEF Failed, TypeOK, Ops
  <2>3. \A j \in Jobs : ~SeedingFirst(j)
    BY <2>1 DEF SeedTracked, SeedingFirst, FirstPod, SawFailure
  <2>4. SeedTracked'
    BY <2>1, <2>3 DEF SeedTracked, SeedingFirst, FirstPod
  <2>5. release # "running" /\ Live = {}
    BY <2>1 DEF NoServerInSeed, SeedDoneSeen, SawSuccess, SawFailure
  <2>6. NoServerInSeed' /\ VolumeThere'
    BY <2>1, <2>2, <2>5 DEF NoServerInSeed, VolumeThere, At, Usable, Live
  <2> QED BY <2>1, <2>2, <2>4, <2>6 DEF Orphanless, NoOrphans, OpSane, Failed, TypeOK, Ops
<1>7. CASE SeedDone
  <2>1. /\ known /\ op.step = "seed" /\ ~op.failed /\ op.kind # "none"
        /\ SawSuccess(op.job) /\ Usable
        /\ UNCHANGED <<known, vol, jobs>> /\ op' \in {op, NoOp}
    BY <1>7, NoErrors DEF SeedDone, At, Pending, Recorded, VolumeThere, Usable
  <2>2. Live' = Live
    BY <1>7, LiveKept DEF SeedDone
  <2>3. \A j \in Jobs : ~SeedingFirst(j)
    BY <2>1 DEF SeedTracked, SeedingFirst, FirstPod, SawSuccess
  <2>4. SeedTracked'
    BY <2>1, <2>3 DEF SeedTracked, SeedingFirst, FirstPod
  <2>5. NoServerInSeed' /\ VolumeThere' /\ OpSane'
    BY <2>1, <2>2 DEF NoServerInSeed, SeedDoneSeen, SawSuccess, VolumeThere, Usable,
       OpSane, NoOp, NewOp
  <2> QED BY <2>1, <2>4, <2>5 DEF Orphanless, NoOrphans
<1>8. CASE FinishInstall
  <2>1. /\ known /\ op.step = "install" /\ op.kind # "none" /\ vol # "doomed"
        /\ UNCHANGED <<known, jobs>> /\ op' \in {op, NoOp}
    BY <1>8, NoErrors DEF FinishInstall, At, Pending, Recorded, VolumeThere
  <2>2. Live' = Live
    BY <1>8, LiveKept DEF FinishInstall
  <2>3. \/ op' = op /\ release' = release /\ vol' = vol
        \/ vol' \notin {"none", "doomed"}
    <3>1. PICK how \in Endings, n \in 0..3 :
            /\ Ended(3, n, how)
            /\ IF n >= 1 THEN Provision ELSE UNCHANGED vol
            /\ IF n >= 2 THEN ScaleUp ELSE ReleaseKept
            /\ Recorded(how, IF n = 3 THEN NoOp ELSE op)
      BY <1>8 DEF FinishInstall
    <3>2. how # "error"
      BY <3>1, NoErrors
    <3>3. CASE n = 0
      BY <3>1, <3>2, <3>3 DEF ReleaseKept, Recorded
    <3>4. CASE n >= 1
      BY <3>1, <3>4, <2>1 DEF Provision
    <3> QED BY <3>3, <3>4
  <2>4. SeedTracked'
    BY <2>1 DEF SeedTracked, SeedingFirst, FirstPod
  <2>5. NoServerInSeed' /\ OpSane'
    BY <2>1 DEF NoServerInSeed, OpSane, NoOp, NewOp
  <2>6. VolumeThere'
    BY <2>1, <2>2, <2>3 DEF VolumeThere, Usable, At, Pending
  <2> QED BY <2>1, <2>4, <2>5, <2>6 DEF Orphanless, NoOrphans
<1>9. CASE Teardown
  <2>1. PICK how \in Endings, n \in 0..4 :
          /\ Ended(4, n, how)
          /\ release' = IF n >= 1 THEN "absent" ELSE release
          /\ pods' = IF n >= 1 THEN Retired("stopping") ELSE pods
          /\ jobs' = IF n >= 2 THEN [j \in Jobs |-> NoJob] ELSE jobs
          /\ vol' = IF n < 3 \/ vol = "none" THEN vol
                    ELSE IF Live = {} /\ ~(\E j \in Jobs : Active(j))
                      THEN "none" ELSE "doomed"
          /\ known' = (n < 4 \/ how = "error")
          /\ Recorded(how, IF n = 4 THEN NoOp ELSE op)
    BY <1>9 DEF Teardown
  <2>2. how # "error"
    BY <2>1, NoErrors
  <2>3. op' = IF n = 4 THEN NoOp ELSE op
    BY <2>1, <2>2 DEF Recorded
  <2>4. known /\ op.step = "teardown" /\ op.kind # "none" /\ ~op.failed
    BY <1>9 DEF Teardown, At, Pending
  <2>5. Live' = Live
    BY <2>1, LiveKept
  <2>6. \A j \in Jobs : ~SeedingFirst(j)'
    BY <2>1, <2>4 DEF SeedTracked, SeedingFirst, FirstPod, NoJob
  <2>7. Orphanless'
    <3>1. known' <=> n < 4
      BY <2>1, <2>2
    <3>2. ASSUME ~known' PROVE n = 4
      BY <3>1, <3>2
    <3>3. n = 4 => /\ release' = "absent" /\ vol' \in {"none", "doomed"}
                   /\ jobs' = [j \in Jobs |-> NoJob] /\ op' = NoOp
      BY <2>1, <2>3
    <3> QED BY <3>2, <3>3 DEF Orphanless, NoOrphans
  <2>8. OpSane' /\ NoServerInSeed'
    BY <2>3, <2>4 DEF OpSane, NoServerInSeed, NoOp, NewOp
  <2>9. VolumeThere'
    <3>1. release' = "running" => Usable'
      BY <2>1 DEF VolumeThere, Usable
    <3>2. vol' = "none" => Live' = {}
      BY <2>1, <2>5 DEF VolumeThere
    <3>3. known' => n < 4
      BY <2>1, <2>2
    <3>4. known' => At("teardown")'
      BY <2>3, <2>4, <3>3 DEF At, Pending
    <3> QED BY <3>1, <3>2, <3>4 DEF VolumeThere
  <2> QED BY <2>6, <2>7, <2>8, <2>9 DEF SeedTracked
<1> QED
  BY <1>1, <1>2, <1>3, <1>4, <1>5, <1>6, <1>7, <1>8, <1>9 DEF Reconcile

LEMMA ClusterSeedInv ==
  ASSUME TypeOK, SeedInv, Cluster, Faults \subseteq {"crash", "job", "rcon"}
  PROVE  SeedInv'
<1> USE DEF SeedInv
<1>1. ASSUME NEW p \in Pods, PodStarts(p) PROVE SeedInv'
  <2>1. /\ release = "running" /\ Usable
        /\ UNCHANGED <<known, op, release, vol, jobs>>
    BY <1>1 DEF PodStarts, PodsOnly, VolumeThere
  <2>2. SeedTracked'
    BY <2>1 DEF SeedTracked, SeedingFirst, FirstPod
  <2>3. NoServerInSeed' /\ VolumeThere'
    BY <2>1 DEF NoServerInSeed, SeedDoneSeen, SawSuccess, VolumeThere, Usable
  <2> QED BY <2>1, <2>2, <2>3 DEF Orphanless, NoOrphans, OpSane
<1>2. ASSUME NEW p \in Pods, PodReady(p) \/ ServerRestarts(p) \/ PodGone(p) PROVE SeedInv'
  <2>1. /\ Live' \subseteq Live
        /\ vol' = vol \/ (Usable /\ Usable')
        /\ UNCHANGED <<known, op, release, jobs>>
    <3>1. Live' \subseteq Live
      BY <1>2 DEF TypeOK, Live, PodReady, ServerRestarts, PodGone
    <3>2. vol' = vol \/ (Usable /\ Usable')
      BY <1>2 DEF PodReady, ServerRestarts, PodGone, Usable
    <3> QED BY <1>2, <3>1, <3>2 DEF PodReady, ServerRestarts, PodGone, PodsOnly
  <2>2. SeedTracked'
    BY <2>1 DEF SeedTracked, SeedingFirst, FirstPod
  <2>3. NoServerInSeed'
    BY <2>1 DEF NoServerInSeed, SeedDoneSeen, SawSuccess
  <2>4. VolumeThere' /\ Orphanless'
    BY <2>1 DEF VolumeThere, Usable, Orphanless, NoOrphans, SawSuccess, SawFailure,
       At, Pending
  <2> QED BY <2>1, <2>2, <2>3, <2>4 DEF OpSane
<1>3. CASE VolumeGone
  <2>1. /\ vol = "doomed" /\ vol' = "none" /\ Live = {} /\ Live' = {}
        /\ UNCHANGED <<known, op, release, jobs>>
    BY <1>3 DEF VolumeGone, PodsOnly, Live
  <2>2. SeedTracked' /\ NoServerInSeed'
    BY <2>1 DEF SeedTracked, SeedingFirst, FirstPod, NoServerInSeed, SeedDoneSeen, SawSuccess
  <2>3. VolumeThere' /\ Orphanless'
    BY <2>1 DEF VolumeThere, Usable, Orphanless, NoOrphans, At, Pending
  <2> QED BY <2>1, <2>2, <2>3 DEF OpSane
<1>4. ASSUME NEW j \in Jobs,
             SeedWipes(j) \/ SeedSucceeds(j) \/ SnapshotSucceeds(j) \/ JobPodFails(j)
      PROVE  SeedInv'
  <2>1. /\ UNCHANGED <<known, op, release, pods>> /\ Live' = Live
        /\ jobs[j].kind # "none" \/ jobs[j].status # "absent"
    BY <1>4 DEF SeedWipes, SeedSucceeds, SnapshotSucceeds, JobPodFails, JobsOnly, Live,
       Opened, Active, FirstPod
  <2>2. known
    BY <2>1 DEF Orphanless, NoOrphans, NoJob
  <2>3. Usable /\ (vol' = vol \/ Usable')
    <3>1. CASE SeedWipes(j) \/ SeedSucceeds(j)
      BY <3>1 DEF SeedWipes, SeedSucceeds, Usable
    <3>2. CASE SnapshotSucceeds(j) \/ JobPodFails(j)
      BY <3>2 DEF SnapshotSucceeds, JobPodFails, Usable
    <3> QED BY <1>4, <3>1, <3>2
  <2>4. \A i \in Jobs :
          /\ SeedingFirst(i)' => SeedingFirst(i)
          /\ SawSuccess(i) => SawSuccess(i)'
    <3>1. \E status : /\ JobIs(j, status)
                      /\ status \in {"running", "copying"} => FirstPod(j)
      BY <1>4 DEF SeedWipes, SeedSucceeds, SnapshotSucceeds, JobPodFails, Finished
    <3>2. ~SawSuccess(j)
      BY <1>4 DEF SeedWipes, SeedSucceeds, SnapshotSucceeds, JobPodFails, Opened,
         Active, FirstPod, SawSuccess
    <3>3. PICK status : /\ JobIs(j, status)
                        /\ status \in {"running", "copying"} => FirstPod(j)
      BY <3>1
    <3>4. ASSUME NEW i \in Jobs
          PROVE  /\ jobs'[i].kind = jobs[i].kind
                 /\ jobs'[i].status = IF i = j THEN status ELSE jobs[i].status
      BY <3>3 DEF TypeOK, JobRecords, JobIs
    <3> QED BY <3>2, <3>3, <3>4 DEF FirstPod, SeedingFirst, SawSuccess
  <2>5. SeedTracked'
    BY <2>1, <2>4 DEF SeedTracked
  <2>6. NoServerInSeed'
    <3>1. op.step = "seed" => op.job \in Jobs
      BY DEF TypeOK, Ops
    <3> QED BY <2>1, <2>4, <3>1 DEF NoServerInSeed, SeedDoneSeen
  <2>7. VolumeThere' /\ Orphanless'
    BY <2>1, <2>2, <2>3 DEF VolumeThere, Usable, Orphanless, NoOrphans
  <2> QED BY <2>1, <2>5, <2>6, <2>7 DEF OpSane
<1>5. ASSUME NEW j \in Jobs, JobExpires(j) PROVE SeedInv'
  <2>1. ~(Pending /\ op.job = j)
    BY <1>5 DEF JobExpires, Affordable
  <2>2. /\ UNCHANGED <<known, op, release, pods, vol>> /\ Live' = Live
        /\ jobs' = [jobs EXCEPT ![j] = NoJob]
    BY <1>5 DEF JobExpires, JobsOnly, Live
  <2>3. \A i \in Jobs : SeedingFirst(i)' => SeedingFirst(i)
    BY <2>2 DEF TypeOK, NoJob, SeedingFirst, FirstPod
  <2>4. op.step = "seed" => op.job \in Jobs /\ op.kind # "none"
    BY DEF TypeOK, Ops, OpSane
  <2>5. ASSUME op.step = "seed", ~op.failed PROVE jobs'[op.job] = jobs[op.job]
    BY <2>1, <2>2, <2>4, <2>5 DEF TypeOK, Pending
  <2>6. NoServerInSeed'
    BY <2>2, <2>5 DEF NoServerInSeed, SeedDoneSeen, SawSuccess
  <2>7. VolumeThere' /\ Orphanless'
    BY <2>2, <2>5 DEF TypeOK, VolumeThere, Usable, At, Pending, SawSuccess, SawFailure,
       Orphanless, NoOrphans
  <2>8. SeedTracked'
    BY <2>2, <2>3 DEF SeedTracked
  <2> QED BY <2>2, <2>6, <2>7, <2>8 DEF OpSane
<1> QED BY <1>1, <1>2, <1>3, <1>4, <1>5 DEF Cluster

LEMMA AlwaysSeedInv ==
  ASSUME Faults \subseteq {"crash", "job", "rcon"}
  PROVE  Spec => []SeedInv
<1>1. Init => SeedInv
  BY DEF Init, SeedInv, Orphanless, NoOrphans, OpSane, NoServerInSeed, SeedTracked,
     SeedingFirst, FirstPod, VolumeThere, Usable, NoOp, NewOp, NoJob, Live
<1>2. TypeOK /\ SeedInv /\ [Next]_vars => SeedInv'
  <2>1. CASE Next
    BY <2>1, RequestSeedInv, ReconcileSeedInv, ClusterSeedInv DEF Next
  <2>2. CASE UNCHANGED vars
    BY <2>2, SeedInvUnchanged DEF vars
  <2> QED BY <2>1, <2>2
<1> QED BY <1>1, <1>2, TypeCorrect, PTL DEF Spec

(* No server runs or is wanted, and no other seed Job's first pod works,   *)
(* while the first pod of a seed Job does (service.py: drain,              *)
(* _shutting_down, _busy): for any number of crashes, failed Jobs and      *)
(* failed RCON commands, as long as no Kubernetes or Helm call fails and   *)
(* the dashboard sees a Job before its TTL ends.                           *)
THEOREM SeedsAlone ==
  ASSUME Faults \subseteq {"crash", "job", "rcon"}
  PROVE  Spec => []FirstSeedAlone
BY AlwaysSeedInv, SeedInvSafe, TypeCorrect, PTL

(***************************************************************************)
(* Two servers never share the volume                                      *)
(*                                                                         *)
(* A Deployment does not wait for a pod of its own template that still     *)
(* stops, so OneServer needs every handler that scales up to have seen     *)
(* none: no pod stops beside a wanted release (NoneStops), and who may     *)
(* scale up an absent release finds no server (AbsentIsEmpty).             *)
(***************************************************************************)

NoneStops == release = "running" => \A p \in Pods : pods[p] # "stopping"

AbsentIsEmpty == known /\ release = "absent" /\ op.step # "teardown" => Live = {}

OneInv ==
  /\ OneServer /\ NoneStops /\ AbsentIsEmpty
  /\ op.step = "install" => release # "stopped"
  /\ op.step = "seed" => release = "running" \/ Live = {}

(* Scaling up is safe while the release runs, and when no pod is left.     *)
LEMMA ScaleUpSafe ==
  ASSUME TypeOK, OneInv, ScaleUp, release = "running" \/ Live = {}
  PROVE  OneInv'
<1>1. Live' = Live
  BY LiveKept
<1>2. release' = "running" /\ pods' \in {pods, Retired("replaced")}
  BY DEF ScaleUp
<1>3. \A p \in Pods : pods[p] # "stopping"
  BY DEF OneInv, NoneStops, Live
<1>4. \A p \in Pods : pods'[p] # "stopping"
  BY <1>2, <1>3 DEF Retired
<1> QED BY <1>1, <1>2, <1>4 DEF OneInv, OneServer, NoneStops, AbsentIsEmpty

(* A step that makes no server keeps the invariant, unless it lets one of  *)
(* the operations begin that scale up.                                     *)
LEMMA NoServerMade ==
  ASSUME OneInv, Live' = Live, release' # "running" \/ (pods' = pods /\ release' = release),
         release' = "absent" => release = "absent" \/ op'.step = "teardown" \/ ~known',
         op'.step # "teardown" => op.step # "teardown" \/ ~known',
         known' => known \/ Live = {},
         op'.step = "install" => release' # "stopped",
         op'.step = "seed" => release' = "running" \/ Live = {}
  PROVE  OneInv'
BY DEF OneInv, OneServer, NoneStops, AbsentIsEmpty

LEMMA RecordMade ==
  ASSUME TypeOK, SeedInv, OneInv, Idle, UNCHANGED <<known, release, pods>>,
         op' = op \/ op'.step \in {"none", "snapshot", "drain", "teardown"}
  PROVE  OneInv'
<1>1. op.step \in {"none", "seed"}
  BY IdleFacts
<1>2. Live' = Live
  BY DEF Live
<1> QED BY <1>1, <1>2, NoServerMade DEF OneInv

LEMMA RequestOneInv ==
  ASSUME TypeOK, SeedInv, OneInv, Request
  PROVE  OneInv'
<1>1. \A kind, step, job, src : NewOp(kind, step, job, src).step = step
  BY DEF NewOp
<1>2. NoOp.step = "none"
  BY <1>1 DEF NoOp
<1>3. ~known /\ vol = "none" => Live = {} /\ release = "absent" /\ op.step = "none"
  BY <1>2 DEF SeedInv, Orphanless, NoOrphans, VolumeThere
<1>4. ASSUME NEW src \in Jobs \cup {Archive}, Launch(src) PROVE OneInv'
  <2>1. /\ ~known /\ vol = "none" /\ UNCHANGED <<release, pods>>
        /\ op' = NewOp("launch", "seed", Fresh, src)
    BY <1>4 DEF Launch
  <2>2. Live' = Live
    BY <2>1 DEF Live
  <2> QED BY <1>1, <1>3, <2>1, <2>2, NoServerMade
<1>5. CASE CreateWorld
  <2>1. Live = {} /\ release = "absent" /\ op.step = "none"
    BY <1>3, <1>5 DEF CreateWorld
  <2>2. CASE ScaleUp
    BY <2>1, <2>2, ScaleUpSafe
  <2>3. CASE ~ScaleUp
    <3>1. /\ ReleaseKept
          /\ op' \in {NoOp, NewOp("create", "install", None, None),
                     Failed(NewOp("create", "install", None, None))}
      BY <1>5, <2>3 DEF CreateWorld
    <3>2. op'.step \in {"none", "install"}
      BY <3>1 DEF NoOp, NewOp, Failed
    <3>3. UNCHANGED <<release, pods>>
      BY <3>1 DEF ReleaseKept
    <3>4. Live' = Live
      BY <3>1, LiveKept
    <3> QED BY <2>1, <3>1, <3>2, <3>3, <3>4, NoServerMade
  <2> QED BY <2>2, <2>3
<1>6. CASE RetrySeed
  <2>1. Live = {} /\ UNCHANGED <<known, release, pods>> /\ op.step = "seed"
    BY <1>6, IdleFacts DEF RetrySeed
  <2>2. op'.step = "seed"
    BY <1>6, <2>1 DEF RetrySeed, TypeOK, Ops
  <2>3. Live' = Live
    BY <2>1 DEF Live
  <2> QED BY <2>1, <2>2, <2>3, NoServerMade
<1>7. CASE StartServer
  <2>1. known /\ op.step = "none"
    BY <1>7, IdleFacts DEF StartServer
  <2>2. release = "running" \/ Live = {}
    BY <1>7, <2>1 DEF StartServer, Released, ShuttingDown, OneInv, AbsentIsEmpty
  <2>3. CASE ScaleUp
    BY <2>2, <2>3, ScaleUpSafe
  <2>4. CASE ~ScaleUp
    <3>1. UNCHANGED <<known, release, pods>> /\ op' = NoOp /\ Idle
      BY <1>7, <2>4 DEF StartServer, ReleaseKept
    <3> QED BY <1>2, <3>1, RecordMade
  <2> QED BY <2>3, <2>4
<1>8. CASE Stop
  <2>1. Idle /\ UNCHANGED known /\ op' = NoOp /\ (ScaleDown \/ ReleaseKept)
    BY <1>8 DEF Stop
  <2>2. CASE ScaleDown
    <3>1. release' = "stopped" /\ op.step # "teardown" /\ op'.step = "none"
      BY <1>2, <2>1, <2>2, IdleFacts DEF ScaleDown
    <3>2. Live' = Live
      BY <2>2, LiveKept
    <3> QED BY <2>1, <3>1, <3>2, NoServerMade
  <2>3. CASE ReleaseKept
    BY <1>2, <2>1, <2>3, RecordMade DEF ReleaseKept
  <2> QED BY <2>1, <2>2, <2>3
<1>9. ASSUME NEW kind, NEW src, Idle, BeginSnapshot(kind, src) PROVE OneInv'
  <2>1. PICK n \in 1..3, paused \in BOOLEAN :
          op' = IF n >= 2
                THEN [NewOp(kind, "snapshot", Fresh, src) EXCEPT !.paused = paused]
                ELSE op
    BY <1>9 DEF BeginSnapshot
  <2>2. op' = op \/ op'.step = "snapshot"
    BY <2>1 DEF NewOp
  <2>3. UNCHANGED <<known, release, pods>>
    BY <1>9 DEF BeginSnapshot
  <2> QED BY <1>9, <2>2, <2>3, RecordMade
<1>10. CASE Snapshot
  BY <1>9, <1>10 DEF Snapshot
<1>11. ASSUME NEW src \in Jobs \cup {Archive}, Restore(src) PROVE OneInv'
  BY <1>1, <1>9, <1>11, RecordMade DEF Restore, RecordOnly
<1>12. CASE Delete
  BY <1>1, <1>9, <1>12, RecordMade DEF Delete, RecordOnly
<1>13. CASE UpdateSettings
  BY <1>13, ScaleUpSafe DEF UpdateSettings
<1>14. ASSUME NEW f \in Jobs, DeleteBackup(f) PROVE OneInv'
  BY <1>14 DEF DeleteBackup, OneInv, OneServer, NoneStops, AbsentIsEmpty, Live
<1> QED BY <1>4, <1>5, <1>6, <1>7, <1>8, <1>10, <1>11, <1>12, <1>13, <1>14
        DEF Request, Start

LEMMA ReconcileOneInv ==
  ASSUME TypeOK, OneInv, Reconcile, Faults \subseteq {"crash", "job", "rcon"}
  PROVE  OneInv'
<1>0. op \in Ops /\ NoOp.step = "none"
  BY DEF TypeOK, NoOp, NewOp
<1>1. ASSUME UNCHANGED <<known, release, pods>>, op'.step \in {op.step, "none"},
             op.step # "teardown"
      PROVE  OneInv'
  <2>1. Live' = Live
    BY <1>1 DEF Live
  <2> QED BY <1>1, <2>1, NoServerMade DEF OneInv
<1>2. CASE RecreateSnapshotJob \/ RecreateSeedJob
  <2>1. op' = op
    BY <1>2, NoErrors DEF RecreateSnapshotJob, RecreateSeedJob, RecreateJob, Recorded
  <2> QED BY <1>1, <1>2, <2>1 DEF RecreateSnapshotJob, RecreateSeedJob, RecreateJob, At
<1>3. CASE SnapshotFailed
  BY <1>0, <1>1, <1>3 DEF SnapshotFailed, At
<1>4. CASE SnapshotDone
  <2>1. /\ UNCHANGED known /\ op.step = "snapshot" /\ op' \in {op, AfterSnapshot}
        /\ ScaleDown \/ ReleaseKept
    BY <1>4, NoErrors DEF SnapshotDone, At, Recorded
  <2>2. op'.step \in {"snapshot", "none", "drain", "teardown"}
    BY <1>0, <2>1 DEF AfterSnapshot, Ops
  <2>3. release' = "stopped" \/ UNCHANGED <<release, pods>>
    BY <2>1 DEF ScaleDown, ReleaseKept
  <2>4. Live' = Live
    BY <2>1, LiveKept
  <2>5. CASE release' = "stopped"
    BY <2>1, <2>2, <2>4, <2>5, NoServerMade
  <2>6. CASE UNCHANGED <<release, pods>>
    BY <2>1, <2>2, <2>4, <2>6, NoServerMade
  <2> QED BY <2>3, <2>5, <2>6
<1>5. CASE Drain
  <2>1. /\ UNCHANGED <<known, release, pods>> /\ Live = {} /\ op.step = "drain"
        /\ op' \in {op, [op EXCEPT !.step = "seed", !.job = Fresh]}
    BY <1>5, NoErrors DEF Drain, At, Recorded
  <2>2. op'.step \in {"drain", "seed"} /\ Live' = Live
    BY <1>0, <2>1 DEF Ops, Live
  <2> QED BY <2>1, <2>2, NoServerMade
<1>6. CASE SeedFailed
  <2>1. op'.step = op.step
    BY <1>0, <1>6 DEF SeedFailed, RecordOnly, Failed, Ops
  <2> QED BY <1>1, <1>6, <2>1 DEF SeedFailed, RecordOnly, At
<1>7. CASE SeedDone
  <2>1. CASE ScaleUp
    BY <1>7, <2>1, ScaleUpSafe DEF SeedDone, At, OneInv
  <2>2. CASE ~ScaleUp
    <3>1. /\ UNCHANGED <<known, release, pods>> /\ op.step = "seed"
          /\ op' \in {op, NoOp}
      BY <1>7, <2>2, NoErrors DEF SeedDone, At, Recorded, ReleaseKept
    <3> QED BY <1>0, <1>1, <3>1
  <2> QED BY <2>1, <2>2
<1>8. CASE FinishInstall
  <2>1. CASE ScaleUp
    <3>1. release = "running" \/ Live = {}
      BY <1>8 DEF FinishInstall, At, OneInv, AbsentIsEmpty, TypeOK
    <3> QED BY <2>1, <3>1, ScaleUpSafe
  <2>2. CASE ~ScaleUp
    <3>1. /\ UNCHANGED <<known, release, pods>> /\ op.step = "install"
          /\ op' \in {op, NoOp}
      BY <1>8, <2>2, NoErrors DEF FinishInstall, At, Recorded, ReleaseKept
    <3> QED BY <1>0, <1>1, <3>1
  <2> QED BY <2>1, <2>2
<1>9. CASE Teardown
  <2>1. PICK how \in Endings, n \in 0..4 :
          /\ Ended(4, n, how)
          /\ release' = IF n >= 1 THEN "absent" ELSE release
          /\ pods' = IF n >= 1 THEN Retired("stopping") ELSE pods
          /\ known' = (n < 4 \/ how = "error")
          /\ Recorded(how, IF n = 4 THEN NoOp ELSE op)
    BY <1>9 DEF Teardown
  <2>2. how # "error" /\ known /\ op.step = "teardown"
    BY <1>9, <2>1, NoErrors DEF Teardown, At
  <2>3. Live' = Live
    BY <2>1, LiveKept
  <2>4. (known' /\ op' = op) \/ (~known' /\ op' = NoOp)
    <3>1. op' = IF n = 4 THEN NoOp ELSE op
      BY <2>1, <2>2 DEF Recorded
    <3>2. n < 4 <=> n # 4
      OBVIOUS
    <3>3. known' <=> n # 4
      BY <2>1, <2>2, <3>2
    <3> QED BY <3>1, <3>3
  <2>5. release' = "absent" \/ UNCHANGED <<release, pods>>
    BY <2>1
  <2>6. CASE known' /\ op' = op
    BY <2>2, <2>3, <2>5, <2>6, NoServerMade
  <2>7. CASE ~known' /\ op' = NoOp
    BY <1>0, <2>2, <2>3, <2>5, <2>7, NoServerMade
  <2> QED BY <2>4, <2>6, <2>7
<1> QED BY <1>2, <1>3, <1>4, <1>5, <1>6, <1>7, <1>8, <1>9 DEF Reconcile

LEMMA ClusterOneInv ==
  ASSUME TypeOK, OneInv, Cluster
  PROVE  OneInv'
<1> USE DEF OneInv, OneServer, NoneStops, AbsentIsEmpty, Live
<1>1. ASSUME NEW p \in Pods, PodStarts(p) PROVE OneInv'
  <2>1. release = "running" /\ UNCHANGED <<op, known, release>>
        /\ pods' = [pods EXCEPT ![p] = "starting"]
    BY <1>1 DEF PodStarts, PodsOnly
  <2>2. \A q \in Pods : pods[q] = "none"
    BY <1>1, <2>1 DEF PodStarts
  <2>3. \A q \in Pods : pods'[q] = IF q = p THEN "starting" ELSE "none"
    BY <2>1, <2>2 DEF TypeOK
  <2> QED BY <2>1, <2>3
<1>2. ASSUME NEW p \in Pods, PodReady(p) \/ ServerRestarts(p) \/ PodGone(p)
      PROVE  OneInv'
  <2>1. PICK phase \in {"ready", "starting", "none"} :
          /\ pods' = [pods EXCEPT ![p] = phase] /\ pods[p] # "none"
          /\ UNCHANGED <<op, known, release>>
    BY <1>2 DEF PodReady, ServerRestarts, PodGone, PodsOnly
  <2>2. \A q \in Pods : pods'[q] = IF q = p THEN phase ELSE pods[q]
    BY <2>1 DEF TypeOK
  <2>3. Live' \subseteq Live /\ \A q \in Pods : pods'[q] = "stopping" => pods[q] = "stopping"
    BY <2>1, <2>2
  <2> QED BY <2>1, <2>3
<1>3. CASE VolumeGone
  BY <1>3 DEF VolumeGone, PodsOnly
<1>4. ASSUME NEW j \in Jobs,
             SeedWipes(j) \/ SeedSucceeds(j) \/ SnapshotSucceeds(j)
               \/ JobPodFails(j) \/ JobExpires(j)
      PROVE  OneInv'
  BY <1>4 DEF SeedWipes, SeedSucceeds, SnapshotSucceeds, JobPodFails, JobExpires, JobsOnly
<1> QED BY <1>1, <1>2, <1>3, <1>4 DEF Cluster

LEMMA AlwaysOneInv ==
  ASSUME Faults \subseteq {"crash", "job", "rcon"}
  PROVE  Spec => []OneInv
<1>1. Init => OneInv
  BY DEF Init, OneInv, OneServer, NoneStops, AbsentIsEmpty, NoOp, NewOp, Live
<1>2. TypeOK /\ SeedInv /\ OneInv /\ [Next]_vars => OneInv'
  <2>1. ASSUME OneInv, UNCHANGED vars PROVE OneInv'
    BY <2>1 DEF vars, OneInv, OneServer, NoneStops, AbsentIsEmpty, Live
  <2> QED BY <2>1, RequestOneInv, ReconcileOneInv, ClusterOneInv DEF Next
<1> QED BY <1>1, <1>2, TypeCorrect, AlwaysSeedInv, PTL DEF Spec

(* Two servers never share the volume (strategy Recreate, the drain of a   *)
(* restore, _shutting_down): for any number of crashes, failed Jobs and    *)
(* failed RCON commands, under the faults of SeedsAlone.                   *)
THEOREM NeverTwoServers ==
  ASSUME Faults \subseteq {"crash", "job", "rcon"}
  PROVE  Spec => []OneServer
<1>1. OneInv => OneServer
  BY DEF OneInv
<1> QED BY <1>1, AlwaysOneInv, PTL

(***************************************************************************)
(* Saving is turned on again                                               *)
(*                                                                         *)
(* SavingResumes only looks at serving pods.  It is inductive once a pod   *)
(* that was told save-off is known to leave that state with its process:   *)
(* a pod that starts is never in saveOff (OffWasReady).                    *)
(***************************************************************************)

OffWasReady == \A p \in saveOff : pods[p] \in {"ready", "stopping", "replaced"}

SaveInv == SavingResumes /\ OffWasReady

(* helm makes no pod ready, and starts none.                               *)
LEMMA RetiresOnly ==
  ASSUME TypeOK,
         ScaleUp \/ ScaleDown \/ ReleaseKept \/ pods' = pods \/ pods' = Retired("stopping")
  PROVE  /\ Ready' \subseteq Ready
         /\ OffWasReady /\ saveOff' \subseteq saveOff \cup Ready => OffWasReady'
<1>1. pods' \in {pods, Retired("stopping"), Retired("replaced")}
  BY DEF ScaleUp, ScaleDown, ReleaseKept
<1>2. \A p \in Pods : pods'[p] = pods[p] \/ pods'[p] \in {"stopping", "replaced"}
  BY <1>1 DEF Retired
<1>3. \A p \in Pods : pods[p] = "ready" => pods'[p] \in {"ready", "stopping", "replaced"}
  BY <1>2
<1>4. saveOff \subseteq Pods
  BY DEF TypeOK
<1> QED BY <1>2, <1>3, <1>4 DEF Ready, OffWasReady

(* A step keeps the invariant when nobody is told save-off, and either no  *)
(* serving pod is in that state or the operation that knows it stays.      *)
LEMMA NobodySilenced ==
  ASSUME TypeOK, SaveInv, saveOff' \subseteq saveOff,
         ScaleUp \/ ScaleDown \/ ReleaseKept \/ pods' = pods \/ pods' = Retired("stopping"),
         (saveOff' \cap Ready = {}) \/ (UNCHANGED <<known, op>>)
  PROVE  SaveInv'
<1>1. Ready' \subseteq Ready /\ OffWasReady'
  BY RetiresOnly DEF SaveInv
<1>2. saveOff' \cap Ready' \subseteq saveOff \cap Ready
  BY <1>1
<1> QED BY <1>1, <1>2 DEF SaveInv, SavingResumes, At, Pending

(* Without failed calls no handler is interrupted.                         *)
LEMMA NotInterrupted ==
  ASSUME Faults \subseteq {"job", "expire"}
  PROVE  /\ \A k, n : Cut(k, n) => n = k
         /\ \A k, n, how : Ended(k, n, how) => n = k /\ how = "done"
BY DEF Cut, Ended, Affordable

LEMMA RequestSaveInv ==
  ASSUME TypeOK, SaveInv, Request, Faults \subseteq {"job", "expire"}
  PROVE  SaveInv'
<1>1. ~known \/ ~Pending => saveOff \cap Ready = {}
  BY DEF SaveInv, SavingResumes, At
<1>2. ASSUME NEW src \in Jobs \cup {Archive}, Launch(src) PROVE SaveInv'
  BY <1>1, <1>2, NobodySilenced DEF Launch
<1>3. CASE CreateWorld
  BY <1>1, <1>3, NobodySilenced DEF CreateWorld
<1>4. CASE Start \/ Stop \/ UpdateSettings
  BY <1>1, <1>4, NobodySilenced DEF Start, RetrySeed, StartServer, Stop, UpdateSettings, Idle
<1>5. ASSUME NEW o, RecordOnly(o), Idle PROVE SaveInv'
  BY <1>1, <1>5, NobodySilenced DEF RecordOnly, Idle
<1>6. ASSUME NEW kind \in Kinds \ {"none"}, NEW src, Idle, BeginSnapshot(kind, src)
      PROVE  SaveInv'
  <2>1. PICK paused \in BOOLEAN :
          /\ IF release = "running" /\ Ready # {}
             THEN Pause(paused) ELSE ~paused /\ UNCHANGED saveOff
          /\ op' = [NewOp(kind, "snapshot", Fresh, src) EXCEPT !.paused = paused]
    BY <1>6, NotInterrupted DEF BeginSnapshot
  <2>2. UNCHANGED <<known, pods>> /\ known
    BY <1>6 DEF BeginSnapshot, Idle
  <2>3. Ready' = Ready /\ saveOff \cap Ready = {}
    BY <1>1, <1>6, <2>2 DEF Ready, Idle
  <2>4. CASE paused
    <3>1. At("snapshot")' /\ op'.paused
      BY <2>1, <2>2, <2>4 DEF At, Pending, NewOp, Kinds
    <3>2. saveOff' \subseteq saveOff \cup Ready
      BY <2>1 DEF Pause
    <3> QED BY <2>2, <3>1, <3>2, RetiresOnly DEF SaveInv, SavingResumes
  <2>5. CASE ~paused
    <3>1. UNCHANGED saveOff
      BY <2>1, <2>5 DEF Pause
    <3> QED BY <2>2, <2>3, <3>1, NobodySilenced
  <2> QED BY <2>4, <2>5
<1>7. CASE Snapshot \/ Delete
  BY <1>5, <1>6, <1>7 DEF Snapshot, Delete, Kinds
<1>8. ASSUME NEW src \in Jobs \cup {Archive}, Restore(src) PROVE SaveInv'
  BY <1>5, <1>6, <1>8 DEF Restore, Kinds
<1>9. ASSUME NEW f \in Jobs, DeleteBackup(f) PROVE SaveInv'
  BY <1>9, NobodySilenced DEF DeleteBackup
<1> QED BY <1>2, <1>3, <1>4, <1>7, <1>8, <1>9 DEF Request

LEMMA ReconcileSaveInv ==
  ASSUME TypeOK, SaveInv, Reconcile, Faults \subseteq {"job", "expire"}
  PROVE  SaveInv'
<1>1. ~At("snapshot") => saveOff \cap Ready = {}
  BY DEF SaveInv, SavingResumes
<1>2. CASE RecreateSnapshotJob \/ RecreateSeedJob
  <2>1. op' = op
    BY <1>2, NotInterrupted DEF RecreateSnapshotJob, RecreateSeedJob, RecreateJob, Recorded
  <2> QED BY <1>2, <2>1, NobodySilenced
          DEF RecreateSnapshotJob, RecreateSeedJob, RecreateJob
<1>3. CASE SnapshotFailed \/ SnapshotDone
  <2>1. SaveOn /\ (ScaleDown \/ ReleaseKept \/ pods' = pods)
    BY <1>3 DEF SnapshotFailed, SnapshotDone
  <2>2. saveOff' = IF op.paused THEN saveOff \ Ready ELSE saveOff
    BY <2>1 DEF SaveOn
  <2>3. saveOff' \cap Ready = {} /\ saveOff' \subseteq saveOff
    BY <2>2 DEF SaveInv, SavingResumes
  <2> QED BY <2>1, <2>3, NobodySilenced
<1>4. CASE Drain \/ SeedFailed \/ SeedDone \/ FinishInstall \/ Teardown
  <2>1. UNCHANGED saveOff /\ ~At("snapshot")
    BY <1>4 DEF Drain, SeedFailed, SeedDone, FinishInstall, Teardown, RecordOnly, At
  <2>2. ScaleUp \/ ReleaseKept \/ pods' = pods \/ pods' = Retired("stopping")
    BY <1>4 DEF Drain, SeedFailed, SeedDone, FinishInstall, Teardown, RecordOnly
  <2> QED BY <1>1, <2>1, <2>2, NobodySilenced
<1> QED BY <1>2, <1>3, <1>4 DEF Reconcile

LEMMA ClusterSaveInv ==
  ASSUME TypeOK, SaveInv, Cluster
  PROVE  SaveInv'
<1>1. ASSUME NEW p \in Pods, NEW phase,
             UNCHANGED <<known, op>>, pods' = [pods EXCEPT ![p] = phase],
             saveOff' \subseteq saveOff, p \notin saveOff'
      PROVE  SaveInv'
  <2>1. \A q \in Pods \ {p} : pods'[q] = pods[q]
    BY <1>1 DEF TypeOK
  <2>2. saveOff' \subseteq Pods \ {p}
    BY <1>1 DEF TypeOK
  <2>3. OffWasReady'
    BY <1>1, <2>1, <2>2 DEF SaveInv, OffWasReady
  <2>4. saveOff' \cap Ready' \subseteq saveOff \cap Ready
    BY <1>1, <2>1, <2>2 DEF Ready
  <2> QED BY <1>1, <2>3, <2>4 DEF SaveInv, SavingResumes, At, Pending
<1>2. ASSUME NEW p \in Pods, PodStarts(p) \/ PodReady(p) PROVE SaveInv'
  <2>1. p \notin saveOff
    BY <1>2 DEF PodStarts, PodReady, SaveInv, OffWasReady
  <2> QED BY <1>1, <1>2, <2>1 DEF PodStarts, PodReady, PodsOnly
<1>3. ASSUME NEW p \in Pods, ServerRestarts(p) \/ PodGone(p) PROVE SaveInv'
  BY <1>1, <1>3 DEF ServerRestarts, PodGone, PodsOnly
<1>4. CASE VolumeGone
  BY <1>4, NobodySilenced DEF VolumeGone, PodsOnly
<1>5. ASSUME NEW j \in Jobs,
             SeedWipes(j) \/ SeedSucceeds(j) \/ SnapshotSucceeds(j)
               \/ JobPodFails(j) \/ JobExpires(j)
      PROVE  SaveInv'
  BY <1>5, NobodySilenced
     DEF SeedWipes, SeedSucceeds, SnapshotSucceeds, JobPodFails, JobExpires, JobsOnly
<1> QED BY <1>2, <1>3, <1>4, <1>5 DEF Cluster

(* While a serving server does not save, the operation that turns saving   *)
(* on again is pending (service.py: _begin_snapshot, _advance),            *)
(* whatever Jobs fail or expire: only a failing call or a crash breaks it. *)
THEOREM SavingAlwaysResumes ==
  ASSUME Faults \subseteq {"job", "expire"}
  PROVE  Spec => []SavingResumes
<1>1. Init => SaveInv
  BY DEF Init, SaveInv, SavingResumes, OffWasReady
<1>2. TypeOK /\ SaveInv /\ [Next]_vars => SaveInv'
  <2>1. ASSUME TypeOK, SaveInv, UNCHANGED vars PROVE SaveInv'
    BY <2>1, NobodySilenced DEF vars
  <2> QED BY <2>1, RequestSaveInv, ReconcileSaveInv, ClusterSaveInv DEF Next
<1>3. SaveInv => SavingResumes
  BY DEF SaveInv
<1> QED BY <1>1, <1>2, <1>3, TypeCorrect, PTL DEF Spec

=============================================================================

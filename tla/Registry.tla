------------------------------ MODULE Registry ------------------------------
(***************************************************************************)
(* The worlds together: who holds which port (service.py).                 *)
(*                                                                         *)
(* A world is known by its record (a ConfigMap) and, once installed, by    *)
(* the mcdash values of its Helm release.  A record that got lost is       *)
(* written again from the release by whoever lists the worlds next, and a  *)
(* world that predates RCON NodePorts gets its second port late, when it   *)
(* is next installed running.  Every handler starts by listing (_records), *)
(* so an action works on SpecOf(w) and saves what the listing healed.          *)
(*                                                                         *)
(* Module World follows the Jobs, pods and data of one world; here a Job   *)
(* just ends well or badly, and a pod that still stops is a refusal that   *)
(* changes nothing.  A listing is one step: see the README for what a slow *)
(* one, or one that cannot read a release, breaks.                         *)
(*                                                                         *)
(* Faults, bounded together by MaxFaults:                                  *)
(*   "crash"  the dashboard dies between two calls of a handler            *)
(*   "helm"   a helm call fails, before or after it took effect            *)
(*   "lost"   the record of a world disappears                             *)
(***************************************************************************)
EXTENDS Naturals

CONSTANTS
  Worlds,     \* the names of worlds
  GamePorts,  \* cfg.port_min .. cfg.port_max
  RconPorts,  \* cfg.rcon_port_min .. cfg.rcon_port_max
  Faults,     \* the faults that may happen
  MaxFaults   \* bound: how many of them

\* Config.__post_init__ refuses ranges that overlap.
ASSUME PortsAssumption ==
  /\ GamePorts \subseteq Nat \ {0}
  /\ RconPorts \subseteq Nat \ {0}
  /\ GamePorts \cap RconPorts = {}

ASSUME RegistryFaultsAssumption == MaxFaults \in Nat

VARIABLES
  record,   \* the record of each world; port 0: none
  release,  \* the release of each world, with its mcdash values; port 0: none
  claim,    \* worlds that have a volume claim
  faults    \* faults spent

registryVars == <<record, release, claim, faults>>

\* The step an operation waits in; snapshots of a restore and of a delete.
Tasks == {"none", "seed", "install", "saving", "deleting", "teardown"}

Records ==
  [port: GamePorts \cup {0}, rcon: RconPorts \cup {0}, task: Tasks, failed: BOOLEAN]

NoRecord == [port |-> 0, rcon |-> 0, task |-> "none", failed |-> FALSE]

Releases == [port: GamePorts \cup {0}, rcon: RconPorts \cup {0}, up: BOOLEAN]

NoRelease == [port |-> 0, rcon |-> 0, up |-> FALSE]

\* Every variable keeps its shape, and ports stay inside the two ranges.
RegistryTypeOK ==
  /\ record \in [Worlds -> Records]
  /\ release \in [Worlds -> Releases]
  /\ claim \in SUBSET Worlds
  /\ faults \in 0..MaxFaults

-----------------------------------------------------------------------------
(* Listing the worlds *)

Released(w) == release[w].port # 0

NeedsHeal(w) == record[w].port = 0 /\ Released(w)

\* Mutant of FromRelease: the world is given a port anew.
FromReleaseAfresh(w) ==
  [port |-> CHOOSE p \in GamePorts : \A v \in Worlds : release[v].port # p,
   rcon |-> 0, task |-> "none", failed |-> FALSE]

FromRelease(w) ==
  [port |-> release[w].port, rcon |-> release[w].rcon, task |-> "none", failed |-> FALSE]

\* The records once the listing has written the lost ones again.
Stored == [w \in Worlds |-> IF NeedsHeal(w) THEN FromRelease(w) ELSE record[w]]

\* Mutant of SpecOf: no adoption.
SpecOfStored(w) == Stored[w]

\* What the handler works on: an RCON port only the release knows is adopted,
\* and saved when the handler next saves that world.
SpecOf(w) == IF Stored[w].rcon = 0 THEN [Stored[w] EXCEPT !.rcon = release[w].rcon]
                                 ELSE Stored[w]

Known(w) == Stored[w].port # 0

\* Mutant of Used: the records as they are, lost ones not healed.
UsedByRecords == {record[w].port : w \in Worlds} \cup {record[w].rcon : w \in Worlds}

Used == {SpecOf(w).port : w \in Worlds} \cup {SpecOf(w).rcon : w \in Worlds}

FreeGame == GamePorts \ Used

\* Mutant of FreeRcon: one port past the end of the range.
FreeRconOffByOne == (RconPorts \cup {p + 1 : p \in RconPorts}) \ Used

FreeRcon == RconPorts \ Used

Lowest(p, S) == p \in S /\ \A q \in S : p <= q

Idle(w) == Known(w) /\ (SpecOf(w).task = "none" \/ SpecOf(w).failed)

At(w, task) == Known(w) /\ SpecOf(w).task = task /\ ~SpecOf(w).failed

-----------------------------------------------------------------------------
(* Saving and installing *)

Fault(f) == f \in Faults /\ faults < MaxFaults /\ faults' = faults + 1

NoFault == UNCHANGED faults

Save(w, r) == record' = [Stored EXCEPT ![w] = r]

\* _fail for an operation; a request that fails just tells its caller.
Errored(r) == [r EXCEPT !.failed = r.task # "none"]

Cleared(r) == [r EXCEPT !.task = "none", !.failed = FALSE]

\* Mutant of NeedsRcon: an install with 0 replicas allocates too.
NeedsRconAlways(r, up) == r.rcon = 0

\* Only a server that is to run needs an RCON NodePort.
NeedsRcon(r, up) == up /\ r.rcon = 0

\* The RCON port is saved before helm runs.  next: the task once helm is done.
Installed(w, s, up, next) ==
  LET new == [release EXCEPT ![w] = [port |-> s.port, rcon |-> s.rcon, up |-> up]]
  IN \/ release' = new /\ Save(w, [s EXCEPT !.task = next]) /\ NoFault
     \/ release' \in {release, new} /\ Save(w, Errored(s)) /\ Fault("helm")
     \/ release' \in {release, new} /\ Save(w, s) /\ Fault("crash")

Install(w, r, up, next) ==
  \/ /\ ~NeedsRcon(r, up)
     /\ Installed(w, r, up, next)
  \/ /\ NeedsRcon(r, up)
     /\ \E p \in RconPorts :
          Lowest(p, FreeRcon) /\ Installed(w, [r EXCEPT !.rcon = p], up, next)
  \/ /\ NeedsRcon(r, up) /\ FreeRcon = {}
     /\ Save(w, Errored(r)) /\ UNCHANGED release /\ NoFault
  \/ Save(w, r) /\ UNCHANGED release /\ Fault("crash")

-----------------------------------------------------------------------------
(* Requests *)

Reserve(w, task, r) ==
  /\ ~Known(w) /\ w \notin claim
  /\ r.task = task /\ ~r.failed
  /\ Lowest(r.port, FreeGame) /\ Lowest(r.rcon, FreeRcon)

Reservations(task) ==
  [port: FreeGame, rcon: FreeRcon, task: {task}, failed: {FALSE}]

\* A launch that dies may have saved the record and not made the claim.
Launch(w) ==
  \E r \in Reservations("seed") :
    /\ Reserve(w, "seed", r)
    /\ Save(w, r)
    /\ \/ claim' = claim \cup {w} /\ NoFault
       \/ claim' \in {claim, claim \cup {w}} /\ Fault("crash")
    /\ UNCHANGED release

CreateWorld(w) ==
  \E r \in Reservations("install") :
    /\ Reserve(w, "install", r)
    /\ \/ Install(w, r, TRUE, "none") /\ claim' = claim \cup {w}
       \/ Save(w, r) /\ Fault("crash") /\ UNCHANGED <<release, claim>>

RetrySeed(w) ==
  /\ Idle(w) /\ SpecOf(w).task = "seed"
  /\ Save(w, [SpecOf(w) EXCEPT !.failed = FALSE])
  /\ UNCHANGED <<release, claim, faults>>

StartServer(w) ==
  /\ Idle(w) /\ SpecOf(w).task # "seed"
  /\ Install(w, Cleared(SpecOf(w)), TRUE, "none")
  /\ UNCHANGED claim

Stop(w) ==
  /\ Idle(w) /\ Released(w)
  /\ release[w].up \/ SpecOf(w).task # "none"
  /\ Install(w, Cleared(SpecOf(w)), FALSE, "none")
  /\ UNCHANGED claim

UpdateSettings(w) ==
  /\ Idle(w) /\ Released(w)
  /\ Install(w, SpecOf(w), release[w].up, SpecOf(w).task)
  /\ UNCHANGED claim

Restore(w) ==
  /\ Idle(w)
  /\ LET task == IF SpecOf(w).task \in {"seed", "install"} THEN "seed" ELSE "saving"
     IN Save(w, [SpecOf(w) EXCEPT !.task = task, !.failed = FALSE])
  /\ UNCHANGED <<release, claim, faults>>

Delete(w) ==
  /\ Idle(w)
  /\ LET task == IF ~Released(w) \/ SpecOf(w).task = "seed" THEN "teardown" ELSE "deleting"
     IN Save(w, [SpecOf(w) EXCEPT !.task = task, !.failed = FALSE])
  /\ UNCHANGED <<release, claim, faults>>

-----------------------------------------------------------------------------
(* The reconciler *)

SnapshotFailed(w) ==
  /\ At(w, "saving") \/ At(w, "deleting")
  /\ Save(w, Cleared(SpecOf(w)))
  /\ UNCHANGED <<release, claim, faults>>

RestoreSaved(w) ==
  /\ At(w, "saving")
  /\ \/ Released(w) /\ Install(w, SpecOf(w), FALSE, "seed")
     \/ ~Released(w) /\ Save(w, [SpecOf(w) EXCEPT !.task = "seed"]) /\ UNCHANGED <<release, faults>>
  /\ UNCHANGED claim

DeleteSaved(w) ==
  /\ At(w, "deleting")
  /\ Save(w, [SpecOf(w) EXCEPT !.task = "teardown"])
  /\ UNCHANGED <<release, claim, faults>>

SeedFailed(w) ==
  /\ At(w, "seed")
  /\ Save(w, Errored(SpecOf(w)))
  /\ UNCHANGED <<release, claim, faults>>

SeedDone(w) ==
  /\ At(w, "seed")
  /\ Install(w, SpecOf(w), TRUE, "none")
  /\ UNCHANGED claim

FinishInstall(w) ==
  /\ At(w, "install")
  /\ \/ Install(w, SpecOf(w), TRUE, "none") /\ claim' = claim \cup {w}
     \/ Save(w, SpecOf(w)) /\ Fault("crash") /\ UNCHANGED <<release, claim>>

\* uninstall, the claim, the record; it stops after any of them.
Teardown(w) ==
  /\ At(w, "teardown")
  /\ LET gone == [release EXCEPT ![w] = NoRelease]
     IN \/ /\ Save(w, NoRecord) /\ NoFault
           /\ release' = gone /\ claim' = claim \ {w}
        \/ /\ \/ Save(w, SpecOf(w)) /\ Fault("crash")
              \/ Save(w, Errored(SpecOf(w))) /\ Fault("helm")
           /\ \/ release' \in {release, gone} /\ UNCHANGED claim
              \/ release' = gone /\ claim' = claim \ {w}

\* A page or the reconciler lists the worlds.
Heal ==
  /\ record' = Stored /\ record' # record
  /\ UNCHANGED <<release, claim, faults>>

LoseRecord(w) ==
  /\ record[w].port # 0
  /\ record' = [record EXCEPT ![w] = NoRecord]
  /\ Fault("lost")
  /\ UNCHANGED <<release, claim>>

-----------------------------------------------------------------------------
(* Worlds an older dashboard left: running, on a game port of their own;   *)
(* the release may have an RCON port the record never saw.                 *)

OldRecords == [port: GamePorts, rcon: {0}, task: {"none"}, failed: {FALSE}]

OldReleases == [port: GamePorts, rcon: RconPorts \cup {0}, up: {TRUE}]

RegistryInit ==
  /\ record \in [Worlds -> OldRecords \cup {NoRecord}]
  /\ release \in [Worlds -> OldReleases \cup {NoRelease}]
  /\ claim = {w \in Worlds : record[w].port # 0}
  /\ faults = 0
  /\ \A w \in Worlds : record[w].port = release[w].port
  /\ \A v, w \in Worlds : v # w =>
       /\ record[v].port = record[w].port => record[v].port = 0
       /\ release[v].rcon = release[w].rcon => release[v].rcon = 0

Handled(w) ==
  \/ Launch(w) \/ CreateWorld(w) \/ RetrySeed(w) \/ StartServer(w) \/ Stop(w)
  \/ UpdateSettings(w) \/ Restore(w) \/ Delete(w)

Advanced(w) ==
  \/ SnapshotFailed(w) \/ RestoreSaved(w) \/ DeleteSaved(w) \/ SeedFailed(w)
  \/ SeedDone(w) \/ FinishInstall(w) \/ Teardown(w)

RegistryNext ==
  \/ \E w \in Worlds : Handled(w) \/ Advanced(w) \/ LoseRecord(w)
  \/ Heal

RegistrySpec == RegistryInit /\ [][RegistryNext]_registryVars

-----------------------------------------------------------------------------

Held(w) == {record[w].port, record[w].rcon, release[w].port, release[w].rcon} \ {0}

(***************************************************************************)
(* No two worlds hold the same port, game or RCON, in their records or in  *)
(* their releases: helm would refuse the second NodePort                   *)
(* (_allocate_port, _allocate_rcon_port, _records).                        *)
(***************************************************************************)
PortsUnique == \A v, w \in Worlds : v # w => Held(v) \cap Held(w) = {}

(***************************************************************************)
(* A served RCON port is kept as long as the release lives, also one the   *)
(* record never saw: restarts and failed installs do not move it.          *)
(***************************************************************************)
RconKept ==
  [][\A w \in Worlds :
       release[w].rcon # 0 /\ release'[w].port # 0 => release'[w].rcon = release[w].rcon
    ]_registryVars

(***************************************************************************)
(* A full RCON range never keeps a server from being stopped: as long as   *)
(* no call fails, an operation that failed has its server down             *)
(* (_install allocates only for a running server).                         *)
(***************************************************************************)
FullRangeStops ==
  faults = 0 => \A w \in Worlds : record[w].failed => ~release[w].up

=============================================================================

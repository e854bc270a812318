--------------------------- MODULE RegistryProofs ---------------------------
(***************************************************************************)
(* Proofs about Registry: ports stay in their ranges, no two worlds hold   *)
(* the same one, a served RCON port is kept, a full range of RCON ports    *)
(* fails no operation, and the leases of Leases are implemented, for any   *)
(* number of worlds, ports and faults.                                     *)
(*                                                                         *)
(* PortsUnique alone is not inductive: a port is free when no world uses   *)
(* it as the listing sees it (Used), while Held looks at record and        *)
(* release.  The two agree because a record and a release of one world     *)
(* never contradict each other (Agree), and a world without a game port    *)
(* has no RCON port either.                                                *)
(*                                                                         *)
(* Every action but LoseRecord and Heal changes one world and saves what   *)
(* the listing healed of the others; Changes says what it may do to it.    *)
(***************************************************************************)
EXTENDS RegistryRefinement, TLAPS

\* A record and a release of one world do not contradict each other.
Agree(r, q) ==
  /\ r.port = 0 => r.rcon = 0
  /\ q.port = 0 => q.rcon = 0
  /\ r.port # 0 /\ q.port # 0 => r.port = q.port
  /\ r.rcon # 0 /\ q.rcon # 0 => r.rcon = q.rcon

RegistryInv ==
  /\ RegistryTypeOK
  /\ \A w \in Worlds : Agree(record[w], release[w])
  /\ PortsUnique

\* What becomes of a release whose world has record r.
Follows(w, r, q) ==
  \/ q = release[w]
  \/ q.port = 0 /\ q.rcon = 0
  \/ q.port = r.port /\ q.rcon = r.rcon

Vacates(r, q) == r.port = 0 /\ r.rcon = 0 /\ q.port = 0 /\ q.rcon = 0

\* The record keeps its ports, and may get the RCON port it lacks ...
Keeps(w, r) ==
  /\ SpecOf(w).port # 0 /\ r.port = SpecOf(w).port
  /\ r.rcon = SpecOf(w).rcon \/ (SpecOf(w).rcon = 0 /\ r.rcon \in FreeRcon)

\* ... or is a new one.
Granted(w, r) ==
  SpecOf(w).port = 0 /\ r.port \in FreeGame /\ r.rcon \in FreeRcon

Owned(w, r) == Keeps(w, r) \/ Granted(w, r)

Changed(w, r, q) ==
  /\ record' = [Stored EXCEPT ![w] = r]
  /\ release' = [release EXCEPT ![w] = q]
  /\ claim' \in SUBSET Worlds
  /\ faults' \in 0..MaxFaults

Changes(w) ==
  \E r \in Records, q \in Releases :
    /\ Vacates(r, q) \/ (Owned(w, r) /\ Follows(w, r, q))
    /\ Changed(w, r, q)

-----------------------------------------------------------------------------
(* What a listing shows *)

\* The listing shows the record, or the release where the record is lost or
\* never saw the RCON port.
LEMMA Listing ==
  ASSUME RegistryTypeOK, NEW w \in Worlds, Agree(record[w], release[w])
  PROVE  /\ Stored[w] \in Records /\ SpecOf(w) \in Records
         /\ SpecOf(w).port = Either(record[w].port, release[w].port)
         /\ SpecOf(w).rcon = Either(record[w].rcon, release[w].rcon)
         /\ Stored[w].port = SpecOf(w).port
         /\ Stored[w].rcon \in {0, SpecOf(w).rcon}
         /\ Stored[w].rcon = 0 => release[w].rcon = SpecOf(w).rcon
<1>1. record[w] \in Records /\ release[w] \in Releases
  BY DEF RegistryTypeOK
<1>2. Stored[w] = IF NeedsHeal(w) THEN FromRelease(w) ELSE record[w]
  BY DEF Stored
<1>3. CASE NeedsHeal(w)
  <2>1. Stored[w] = [port |-> release[w].port, rcon |-> release[w].rcon,
                     task |-> "none", failed |-> FALSE]
    BY <1>2, <1>3 DEF FromRelease
  <2>2. record[w].port = 0 /\ record[w].rcon = 0
    BY <1>3 DEF NeedsHeal, Agree
  <2>3. Stored[w] \in Records
    BY <1>1, <2>1 DEF Records, Releases, Tasks
  <2>4. /\ SpecOf(w) \in Records
        /\ SpecOf(w).port = Stored[w].port /\ SpecOf(w).rcon = Stored[w].rcon
    <3>1. Stored[w].rcon = release[w].rcon
      BY <2>1
    <3> HIDE DEF Stored
    <3> QED BY <1>1, <2>3, <3>1 DEF SpecOf, Records, Releases
  <2> QED BY <2>1, <2>2, <2>3, <2>4 DEF Either
<1>4. CASE ~NeedsHeal(w)
  <2>1. Stored[w] = record[w]
    BY <1>2, <1>4
  <2>2. SpecOf(w) \in Records /\ SpecOf(w).port = record[w].port
        /\ SpecOf(w).rcon = Either(record[w].rcon, release[w].rcon)
    BY <1>1, <2>1 DEF SpecOf, Either, Records, Releases
  <2>3. record[w].port = Either(record[w].port, release[w].port)
    BY <1>4, <1>1 DEF NeedsHeal, Released, Either
  <2> QED BY <1>1, <2>1, <2>2, <2>3 DEF Either
<1> QED BY <1>3, <1>4

\* What a world holds is what the listing shows of it.
LEMMA HeldListed ==
  ASSUME RegistryTypeOK, NEW w \in Worlds, Agree(record[w], release[w])
  PROVE  Held(w) = {SpecOf(w).port, SpecOf(w).rcon} \ {0}
<1>1. SpecOf(w).port = Either(record[w].port, release[w].port)
      /\ SpecOf(w).rcon = Either(record[w].rcon, release[w].rcon)
  BY Listing
<1> QED BY <1>1 DEF Held, Either, Agree

\* A free port is held by nobody.
LEMMA FreeNotHeld ==
  ASSUME RegistryInv, NEW w \in Worlds, NEW p \in FreeGame \cup FreeRcon
  PROVE  p \notin Held(w) /\ p # 0
<1>1. p \notin Used /\ p # 0
  BY PortsAssumption DEF FreeGame, FreeRcon
<1>2. SpecOf(w).port \in Used /\ SpecOf(w).rcon \in Used
  BY DEF Used
<1> QED BY <1>1, <1>2, HeldListed DEF RegistryInv

-----------------------------------------------------------------------------
(* A change keeps the invariant *)

LEMMA ChangesKeep ==
  ASSUME RegistryInv, NEW w \in Worlds, Changes(w)
  PROVE  RegistryInv'
<1>1. PICK r \in Records, q \in Releases :
        /\ Vacates(r, q) \/ (Owned(w, r) /\ Follows(w, r, q))
        /\ Changed(w, r, q)
  BY DEF Changes
<1>2. \A v \in Worlds : record[v] \in Records /\ release[v] \in Releases
                        /\ Agree(record[v], release[v])
  BY DEF RegistryInv, RegistryTypeOK
<1>3. \A v \in Worlds : Stored[v] \in Records
  BY Listing DEF RegistryInv
<1>4. Stored \in [Worlds -> Records]
  BY <1>3 DEF Stored
<1>5. RegistryTypeOK'
  BY <1>1, <1>4 DEF RegistryTypeOK, Changed, RegistryInv
<1>6. /\ record'[w] = r /\ release'[w] = q
      /\ \A v \in Worlds \ {w} : record'[v] = Stored[v] /\ release'[v] = release[v]
  BY <1>1, <1>4 DEF Changed, RegistryInv, RegistryTypeOK
<1>7. ASSUME NEW v \in Worlds \ {w}
      PROVE  Agree(record'[v], release'[v]) /\ Held(v)' = Held(v)
  <2>1. /\ Stored[v].port = Either(record[v].port, release[v].port)
        /\ Stored[v].rcon \in {0, Either(record[v].rcon, release[v].rcon)}
        /\ Stored[v].rcon = 0 => release[v].rcon = Either(record[v].rcon, release[v].rcon)
    BY <1>2, Listing DEF RegistryInv
  <2>2. Agree(Stored[v], release[v])
    BY <2>1, <1>2 DEF Agree, Either
  <2>3. {Stored[v].port, Stored[v].rcon, release[v].port, release[v].rcon} \ {0} = Held(v)
    BY <2>1, <1>2 DEF Agree, Either, Held
  <2> QED BY <2>2, <2>3, <1>6 DEF Held
<1>8. Agree(r, q) /\ {r.port, r.rcon, q.port, q.rcon} \ {0} \subseteq Held(w) \cup FreeGame \cup FreeRcon
  <2>1. /\ SpecOf(w).port = Either(record[w].port, release[w].port)
        /\ SpecOf(w).rcon = Either(record[w].rcon, release[w].rcon)
    BY <1>2, Listing DEF RegistryInv
  <2>2. Held(w) = {SpecOf(w).port, SpecOf(w).rcon} \ {0}
    BY <1>2, HeldListed DEF RegistryInv
  <2>3. \A p \in FreeGame \cup FreeRcon : p # 0
    BY FreeNotHeld
  <2>4. CASE Vacates(r, q)
    BY <2>4 DEF Vacates, Agree
  <2>5. CASE Keeps(w, r) /\ Follows(w, r, q)
    BY <2>1, <2>2, <2>3, <2>5, <1>2 DEF Keeps, Follows, Agree, Either
  <2>6. CASE Granted(w, r) /\ Follows(w, r, q)
    BY <2>1, <2>2, <2>3, <2>6, <1>2 DEF Granted, Follows, Agree, Either
  <2> QED BY <1>1, <2>4, <2>5, <2>6 DEF Owned
<1>9. \A v \in Worlds \ {w} : Held(w)' \cap Held(v)' = {}
  BY <1>6, <1>7, <1>8, FreeNotHeld DEF Held, RegistryInv, PortsUnique
<1>10. PortsUnique'
  BY <1>7, <1>9 DEF RegistryInv, PortsUnique
<1> QED BY <1>5, <1>6, <1>7, <1>8, <1>10 DEF RegistryInv

-----------------------------------------------------------------------------
(* Every action of a world is such a change *)

LEMMA FaultsBounded ==
  ASSUME RegistryTypeOK
  PROVE  /\ NoFault => faults' \in 0..MaxFaults
         /\ \A f : Fault(f) => faults' \in 0..MaxFaults
BY RegistryFaultsAssumption DEF RegistryTypeOK, NoFault, Fault

LEMMA SavedChanges ==
  ASSUME RegistryInv, NEW w \in Worlds, NEW r \in Records, Owned(w, r),
         Save(w, r), UNCHANGED release,
         claim' \in SUBSET Worlds, faults' \in 0..MaxFaults
  PROVE  Changes(w)
<1>1. release[w] \in Releases /\ release' = [release EXCEPT ![w] = release[w]]
  BY DEF RegistryInv, RegistryTypeOK
<1> QED BY <1>1 DEF Changes, Changed, Follows, Save

\* The flags of a record do not matter.
LEMMA OwnedFlags ==
  ASSUME NEW w, NEW r \in Records, Owned(w, r), NEW s \in Records,
         s.port = r.port, s.rcon = r.rcon
  PROVE  Owned(w, s)
BY DEF Owned, Keeps, Granted

LEMMA InstalledChanges ==
  ASSUME RegistryInv, NEW w \in Worlds, NEW s \in Records, Owned(w, s),
         NEW up \in BOOLEAN, NEW next \in Tasks, Installed(w, s, up, next),
         claim' \in SUBSET Worlds
  PROVE  Changes(w)
<1> DEFINE q == [port |-> s.port, rcon |-> s.rcon, up |-> up]
           new == [release EXCEPT ![w] = q]
<1>1. q \in Releases /\ Follows(w, s, q)
  BY DEF Releases, Records, Follows
<1>2. PICK r \in Records : /\ r.port = s.port /\ r.rcon = s.rcon
                           /\ Save(w, r) /\ release' \in {release, new}
                           /\ faults' \in 0..MaxFaults
  <2>1. [s EXCEPT !.task = next] \in Records /\ Errored(s) \in Records
    BY DEF Records, Errored
  <2>2. /\ [s EXCEPT !.task = next].port = s.port /\ [s EXCEPT !.task = next].rcon = s.rcon
        /\ Errored(s).port = s.port /\ Errored(s).rcon = s.rcon
    BY DEF Records, Errored
  <2>3. CASE release' = new /\ Save(w, [s EXCEPT !.task = next]) /\ NoFault
    BY <2>1, <2>2, <2>3, FaultsBounded DEF RegistryInv
  <2>4. CASE release' \in {release, new} /\ Save(w, Errored(s)) /\ Fault("helm")
    BY <2>1, <2>2, <2>4, FaultsBounded DEF RegistryInv
  <2>5. CASE release' \in {release, new} /\ Save(w, s) /\ Fault("crash")
    BY <2>5, FaultsBounded DEF RegistryInv
  <2> QED BY <2>3, <2>4, <2>5 DEF Installed
<1>3. Owned(w, r)
  BY <1>2, OwnedFlags
<1>4. CASE release' = release
  BY <1>2, <1>3, <1>4, SavedChanges
<1>5. CASE release' = new
  <2>1. Follows(w, r, q)
    BY <1>1, <1>2 DEF Follows
  <2> QED BY <1>1, <1>2, <1>3, <1>5, <2>1 DEF Changes, Changed, Save
<1> QED BY <1>2, <1>4, <1>5

\* r: the record with the ports it had, or a fresh one with both.
LEMMA InstallChanges ==
  ASSUME RegistryInv, NEW w \in Worlds, NEW r \in Records,
         \/ SpecOf(w).port # 0 /\ r.port = SpecOf(w).port /\ r.rcon = SpecOf(w).rcon
         \/ Granted(w, r),
         NEW up \in BOOLEAN, NEW next \in Tasks, Install(w, r, up, next),
         claim' \in SUBSET Worlds
  PROVE  Changes(w)
<1>1. Owned(w, r)
  BY DEF Owned, Keeps
<1>2. CASE ~NeedsRcon(r, up) /\ Installed(w, r, up, next)
  BY <1>1, <1>2, InstalledChanges
<1>3. ASSUME NeedsRcon(r, up), NEW p \in RconPorts,
             Lowest(p, FreeRcon), Installed(w, [r EXCEPT !.rcon = p], up, next)
      PROVE  Changes(w)
  <2>1. [r EXCEPT !.rcon = p] \in Records
        /\ [r EXCEPT !.rcon = p].port = r.port /\ [r EXCEPT !.rcon = p].rcon = p
    BY DEF Records
  <2>2. p \in FreeRcon /\ r.rcon = 0
    BY <1>3 DEF Lowest, NeedsRcon
  <2>3. ~Granted(w, r)
    BY <2>2, PortsAssumption DEF Granted, FreeRcon
  <2>4. Owned(w, [r EXCEPT !.rcon = p])
    BY <2>1, <2>2, <2>3 DEF Owned, Keeps
  <2> QED BY <1>3, <2>1, <2>4, InstalledChanges
<1>4. CASE Save(w, Errored(r)) /\ UNCHANGED release /\ NoFault
  <2>1. Errored(r) \in Records /\ Errored(r).port = r.port /\ Errored(r).rcon = r.rcon
    BY DEF Records, Errored
  <2> QED BY <1>1, <1>4, <2>1, OwnedFlags, FaultsBounded, SavedChanges DEF RegistryInv
<1>5. CASE Save(w, r) /\ UNCHANGED release /\ Fault("crash")
  BY <1>1, <1>5, FaultsBounded, SavedChanges DEF RegistryInv
<1> QED BY <1>2, <1>3, <1>4, <1>5 DEF Install

LEMMA KnownSpec ==
  ASSUME RegistryInv, NEW w \in Worlds
  PROVE  /\ SpecOf(w) \in Records
         /\ Known(w) <=> SpecOf(w).port # 0
BY Listing DEF RegistryInv, Known

\* What the handlers make of a record leaves its ports alone.
LEMMA Edited ==
  ASSUME NEW r \in Records, NEW task \in Tasks
  PROVE  /\ Cleared(r) \in Records /\ Cleared(r).port = r.port /\ Cleared(r).rcon = r.rcon
         /\ Errored(r) \in Records /\ Errored(r).port = r.port /\ Errored(r).rcon = r.rcon
         /\ LET s == [r EXCEPT !.task = task, !.failed = FALSE]
            IN s \in Records /\ s.port = r.port /\ s.rcon = r.rcon
         /\ LET s == [r EXCEPT !.task = task]
            IN s \in Records /\ s.port = r.port /\ s.rcon = r.rcon
         /\ LET s == [r EXCEPT !.failed = FALSE]
            IN s \in Records /\ s.port = r.port /\ s.rcon = r.rcon
BY DEF Records, Tasks, Cleared, Errored

LEMMA ListedChanges ==
  ASSUME RegistryInv, NEW w \in Worlds, Known(w),
         NEW r \in Records, r.port = SpecOf(w).port, r.rcon = SpecOf(w).rcon,
         Save(w, r), UNCHANGED <<release, claim, faults>>
  PROVE  Changes(w)
<1>1. Owned(w, r)
  BY KnownSpec DEF Owned, Keeps
<1>2. claim' \in SUBSET Worlds /\ faults' \in 0..MaxFaults
  BY DEF RegistryInv, RegistryTypeOK
<1> QED BY <1>1, <1>2, SavedChanges

LEMMA ListedInstall ==
  ASSUME RegistryInv, NEW w \in Worlds, Known(w),
         NEW r \in Records, r.port = SpecOf(w).port, r.rcon = SpecOf(w).rcon,
         NEW up \in BOOLEAN, NEW next \in Tasks, Install(w, r, up, next),
         claim' \in SUBSET Worlds
  PROVE  Changes(w)
BY KnownSpec, InstallChanges

LEMMA ReservedRecord ==
  ASSUME RegistryInv, NEW w \in Worlds, NEW task \in Tasks,
         NEW r \in Reservations(task), Reserve(w, task, r)
  PROVE  r \in Records /\ Granted(w, r)
BY KnownSpec DEF Reservations, Reserve, Granted, Records, FreeGame, FreeRcon

LEMMA HandledChanges ==
  ASSUME RegistryInv, NEW w \in Worlds, Handled(w)
  PROVE  Changes(w)
<1> DEFINE s == SpecOf(w)
<1>1. s \in Records /\ s.task \in Tasks /\ release[w].up \in BOOLEAN /\ claim \in SUBSET Worlds
  BY KnownSpec DEF Records, Releases, RegistryInv, RegistryTypeOK
<1>2. "none" \in Tasks /\ "seed" \in Tasks /\ "install" \in Tasks /\ "saving" \in Tasks
      /\ "deleting" \in Tasks /\ "teardown" \in Tasks
  BY DEF Tasks
<1>3. Idle(w) => Known(w)
  BY DEF Idle
<1>4. CASE Launch(w)
  <2>1. PICK r \in Reservations("seed") :
          /\ Reserve(w, "seed", r) /\ Save(w, r) /\ UNCHANGED release
          /\ claim' \in SUBSET Worlds /\ (NoFault \/ Fault("crash"))
    BY <1>4, <1>1 DEF Launch
  <2>2. r \in Records /\ Owned(w, r)
    BY <2>1, <1>2, ReservedRecord DEF Owned
  <2> QED BY <2>1, <2>2, FaultsBounded, SavedChanges DEF RegistryInv
<1>5. CASE CreateWorld(w)
  <2>1. PICK r \in Reservations("install") :
          /\ Reserve(w, "install", r)
          /\ claim' \in SUBSET Worlds
          /\ \/ Install(w, r, TRUE, "none")
             \/ Save(w, r) /\ Fault("crash") /\ UNCHANGED release
    BY <1>5, <1>1 DEF CreateWorld
  <2>2. r \in Records /\ Granted(w, r)
    BY <2>1, <1>2, ReservedRecord
  <2>3. CASE Install(w, r, TRUE, "none")
    BY <2>1, <2>2, <2>3, <1>2, InstallChanges
  <2>4. CASE Save(w, r) /\ Fault("crash") /\ UNCHANGED release
    BY <2>1, <2>2, <2>4, FaultsBounded, SavedChanges DEF RegistryInv, Owned
  <2> QED BY <2>1, <2>3, <2>4
<1>6. CASE RetrySeed(w)
  BY <1>1, <1>2, <1>3, <1>6, Edited, ListedChanges DEF RetrySeed
<1>7. CASE StartServer(w)
  BY <1>1, <1>2, <1>3, <1>7, Edited, ListedInstall DEF StartServer
<1>8. CASE Stop(w)
  BY <1>1, <1>2, <1>3, <1>8, Edited, ListedInstall DEF Stop
<1>9. CASE UpdateSettings(w)
  BY <1>1, <1>3, <1>9, ListedInstall DEF UpdateSettings
<1>10. CASE Restore(w)
  <2>1. PICK task \in Tasks : Save(w, [s EXCEPT !.task = task, !.failed = FALSE])
    BY <1>2, <1>10 DEF Restore
  <2> QED BY <1>1, <1>3, <1>10, <2>1, Edited, ListedChanges DEF Restore
<1>11. CASE Delete(w)
  <2>1. PICK task \in Tasks : Save(w, [s EXCEPT !.task = task, !.failed = FALSE])
    BY <1>2, <1>11 DEF Delete
  <2> QED BY <1>1, <1>3, <1>11, <2>1, Edited, ListedChanges DEF Delete
<1> QED BY <1>4, <1>5, <1>6, <1>7, <1>8, <1>9, <1>10, <1>11 DEF Handled

LEMMA AdvancedChanges ==
  ASSUME RegistryInv, NEW w \in Worlds, Advanced(w)
  PROVE  Changes(w)
<1> DEFINE s == SpecOf(w)
<1>1. s \in Records /\ claim \in SUBSET Worlds
  BY KnownSpec DEF RegistryInv, RegistryTypeOK
<1>2. "none" \in Tasks /\ "seed" \in Tasks /\ "teardown" \in Tasks
  BY DEF Tasks
<1>3. \A task : At(w, task) => Known(w)
  BY DEF At
<1>4. CASE SnapshotFailed(w)
  BY <1>1, <1>2, <1>3, <1>4, Edited, ListedChanges DEF SnapshotFailed
<1>5. CASE RestoreSaved(w)
  <2>1. CASE Install(w, s, FALSE, "seed")
    BY <1>1, <1>2, <1>3, <1>5, <2>1, ListedInstall DEF RestoreSaved
  <2>2. CASE Save(w, [s EXCEPT !.task = "seed"]) /\ UNCHANGED <<release, faults>>
    BY <1>1, <1>2, <1>3, <1>5, <2>2, Edited, ListedChanges DEF RestoreSaved
  <2> QED BY <1>5, <2>1, <2>2 DEF RestoreSaved
<1>6. CASE DeleteSaved(w)
  BY <1>1, <1>2, <1>3, <1>6, Edited, ListedChanges DEF DeleteSaved
<1>7. CASE SeedFailed(w)
  BY <1>1, <1>2, <1>3, <1>7, Edited, ListedChanges DEF SeedFailed
<1>8. CASE SeedDone(w)
  BY <1>1, <1>2, <1>3, <1>8, ListedInstall DEF SeedDone
<1>9. CASE FinishInstall(w)
  <2>1. CASE Install(w, s, TRUE, "none") /\ claim' = claim \cup {w}
    BY <1>1, <1>2, <1>3, <1>9, <2>1, ListedInstall DEF FinishInstall
  <2>2. CASE Save(w, s) /\ Fault("crash") /\ UNCHANGED <<release, claim>>
    <3>1. Owned(w, s)
      BY <1>3, <1>9, KnownSpec DEF FinishInstall, Owned, Keeps
    <3> QED BY <1>1, <2>2, <3>1, FaultsBounded, SavedChanges DEF RegistryInv
  <2> QED BY <1>9, <2>1, <2>2 DEF FinishInstall
<1>10. CASE Teardown(w)
  <2> DEFINE gone == [release EXCEPT ![w] = NoRelease]
  <2>1. NoRelease \in Releases /\ NoRecord \in Records /\ Vacates(NoRecord, NoRelease)
    BY DEF NoRelease, NoRecord, Releases, Records, Tasks, Vacates
  <2>2. claim' \in SUBSET Worlds /\ faults' \in 0..MaxFaults
    BY <1>1, <1>10, FaultsBounded DEF Teardown, RegistryInv
  <2>3. CASE Save(w, NoRecord) /\ release' = gone
    BY <2>1, <2>2, <2>3 DEF Changes, Changed, Save
  <2>4. CASE (Save(w, s) \/ Save(w, Errored(s))) /\ release' \in {release, gone}
    <3>1. PICK r \in Records : Save(w, r) /\ r.port = s.port /\ r.rcon = s.rcon
      BY <1>1, <1>2, <2>4, Edited
    <3>2. Owned(w, r)
      BY <1>3, <1>10, <3>1, KnownSpec DEF Teardown, Owned, Keeps
    <3>3. CASE release' = release
      BY <2>2, <3>1, <3>2, <3>3, SavedChanges
    <3>4. CASE release' = gone
      <4>1. Follows(w, r, NoRelease)
        BY DEF Follows, NoRelease
      <4> QED BY <2>1, <2>2, <3>1, <3>2, <3>4, <4>1 DEF Changes, Changed, Save
    <3> QED BY <2>4, <3>3, <3>4
  <2> QED BY <1>10, <2>3, <2>4 DEF Teardown
<1> QED BY <1>4, <1>5, <1>6, <1>7, <1>8, <1>9, <1>10 DEF Advanced

-----------------------------------------------------------------------------
(* The invariant *)

\* A listing that writes lost records again changes nothing a world holds.
LEMMA StoredAlike ==
  ASSUME RegistryInv, NEW v \in Worlds
  PROVE  /\ Stored[v] \in Records /\ Agree(Stored[v], release[v])
         /\ {Stored[v].port, Stored[v].rcon, release[v].port, release[v].rcon} \ {0} = Held(v)
         /\ Either(Stored[v].port, release[v].port) = Either(record[v].port, release[v].port)
         /\ Either(Stored[v].rcon, release[v].rcon) = Either(record[v].rcon, release[v].rcon)
<1>1. record[v] \in Records /\ release[v] \in Releases /\ Agree(record[v], release[v])
  BY DEF RegistryInv, RegistryTypeOK
<1>2. /\ Stored[v] \in Records
      /\ Stored[v].port = Either(record[v].port, release[v].port)
      /\ Stored[v].rcon \in {0, Either(record[v].rcon, release[v].rcon)}
      /\ Stored[v].rcon = 0 => release[v].rcon = Either(record[v].rcon, release[v].rcon)
  BY <1>1, Listing DEF RegistryInv
<1> QED BY <1>1, <1>2 DEF Agree, Either, Held

LEMMA HealKeeps ==
  ASSUME RegistryInv, Heal
  PROVE  RegistryInv'
<1>1. record' = Stored /\ UNCHANGED <<release, claim, faults>>
  BY DEF Heal
<1>2. \A v \in Worlds : Stored[v] \in Records
  BY StoredAlike
<1>3. Stored \in [Worlds -> Records]
  BY <1>2 DEF Stored
<1>4. RegistryTypeOK'
  BY <1>1, <1>3 DEF RegistryInv, RegistryTypeOK
<1>5. \A v \in Worlds : Agree(record[v], release[v])' /\ Held(v)' = Held(v)
  BY <1>1, StoredAlike DEF Held
<1> QED BY <1>4, <1>5 DEF RegistryInv, PortsUnique

LEMMA LossKeeps ==
  ASSUME RegistryInv, NEW w \in Worlds, LoseRecord(w)
  PROVE  RegistryInv'
<1>1. /\ record' = [record EXCEPT ![w] = NoRecord] /\ UNCHANGED <<release, claim>>
      /\ faults' \in 0..MaxFaults
  BY FaultsBounded DEF LoseRecord, RegistryInv
<1>2. NoRecord \in Records /\ NoRecord.port = 0 /\ NoRecord.rcon = 0
  BY DEF NoRecord, Records, Tasks
<1>3. RegistryTypeOK'
  BY <1>1, <1>2 DEF RegistryInv, RegistryTypeOK
<1>4. \A v \in Worlds : record'[v] = record[v] \/ record'[v] = NoRecord
  BY <1>1 DEF RegistryInv, RegistryTypeOK
<1>5. \A v \in Worlds : Agree(record[v], release[v])' /\ Held(v)' \subseteq Held(v)
  BY <1>1, <1>2, <1>4 DEF RegistryInv, Agree, Held
<1> QED BY <1>3, <1>5 DEF RegistryInv, PortsUnique

LEMMA RegistryInvInit ==
  RegistryInit => RegistryInv
<1> SUFFICES ASSUME RegistryInit PROVE RegistryInv
  OBVIOUS
<1> DEFINE SomeRecord(r) == r \in Records /\ r.rcon = 0
           SomeRelease(q) == q \in Releases /\ (q.port = 0 => q.rcon = 0)
<1>1. /\ \A r \in OldRecords \cup {NoRecord} : SomeRecord(r)
      /\ \A q \in OldReleases \cup {NoRelease} : SomeRelease(q)
  <2>1. SomeRecord(NoRecord) /\ SomeRelease(NoRelease)
    BY DEF NoRecord, Records, NoRelease, Releases, Tasks
  <2>2. ASSUME NEW r \in OldRecords PROVE SomeRecord(r)
    <3>1. r = [port |-> r.port, rcon |-> r.rcon, task |-> r.task, failed |-> r.failed]
      BY DEF OldRecords
    <3>2. r.port \in GamePorts /\ r.rcon = 0 /\ r.task = "none" /\ r.failed = FALSE
      BY DEF OldRecords
    <3> QED BY <3>1, <3>2 DEF Records, Tasks
  <2>3. ASSUME NEW q \in OldReleases PROVE SomeRelease(q)
    <3>1. q = [port |-> q.port, rcon |-> q.rcon, up |-> q.up]
      BY DEF OldReleases
    <3>2. q.port \in GamePorts /\ q.rcon \in RconPorts \cup {0} /\ q.up = TRUE
      BY DEF OldReleases
    <3> QED BY <3>1, <3>2, PortsAssumption DEF Releases
  <2> QED BY <2>1, <2>2, <2>3
<1>2. RegistryTypeOK
  BY <1>1, RegistryFaultsAssumption DEF RegistryInit, RegistryTypeOK
<1>3. \A w \in Worlds : /\ record[w].rcon = 0
                        /\ record[w].port = release[w].port
                        /\ release[w].port = 0 => release[w].rcon = 0
                        /\ record[w] \in Records /\ release[w] \in Releases
  BY <1>1 DEF RegistryInit
<1>4. \A w \in Worlds : Agree(record[w], release[w])
  BY <1>3 DEF Agree
<1>5. \A w \in Worlds : Held(w) = {release[w].port, release[w].rcon} \ {0}
  BY <1>3 DEF Held
<1>6. ASSUME NEW v \in Worlds, NEW w \in Worlds, v # w
      PROVE  Held(v) \cap Held(w) = {}
  <2>1. /\ record[v].port = record[w].port => record[v].port = 0
        /\ release[v].rcon = release[w].rcon => release[v].rcon = 0
    BY <1>6 DEF RegistryInit
  <2>2. {release[v].port, release[w].port} \subseteq GamePorts \cup {0}
        /\ {release[v].rcon, release[w].rcon} \subseteq RconPorts \cup {0}
    BY <1>3 DEF Releases
  <2>3. record[v].port = release[v].port /\ record[w].port = release[w].port
    BY <1>3
  <2>4. /\ Held(v) = {release[v].port, release[v].rcon} \ {0}
        /\ Held(w) = {release[w].port, release[w].rcon} \ {0}
    BY <1>5
  <2>5. ASSUME NEW p \in Held(v), p \in Held(w) PROVE FALSE
    <3>1. p # 0 /\ p \in GamePorts \cup RconPorts
      BY <2>2, <2>4, <2>5
    <3>2. CASE p \in GamePorts
      <4>1. p \notin RconPorts
        BY <3>2, PortsAssumption
      <4>2. p = release[v].port /\ p = release[w].port
        BY <2>2, <2>4, <2>5, <3>1, <4>1
      <4> QED BY <2>1, <2>3, <3>1, <4>2
    <3>3. CASE p \in RconPorts
      <4>1. p \notin GamePorts
        BY <3>3, PortsAssumption
      <4>2. p = release[v].rcon /\ p = release[w].rcon
        BY <2>2, <2>4, <2>5, <3>1, <4>1
      <4> QED BY <2>1, <3>1, <4>2
    <3> QED BY <3>1, <3>2, <3>3
  <2> QED BY <2>5
<1> QED BY <1>2, <1>4, <1>6 DEF RegistryInv, PortsUnique

LEMMA RegistryInvNext ==
  RegistryInv /\ [RegistryNext]_registryVars => RegistryInv'
<1> SUFFICES ASSUME RegistryInv, [RegistryNext]_registryVars PROVE RegistryInv'
  OBVIOUS
<1>1. ASSUME NEW w \in Worlds, Handled(w) \/ Advanced(w)
      PROVE  RegistryInv'
  BY <1>1, HandledChanges, AdvancedChanges, ChangesKeep
<1>2. ASSUME NEW w \in Worlds, LoseRecord(w)
      PROVE  RegistryInv'
  BY <1>2, LossKeeps
<1>3. CASE Heal
  BY <1>3, HealKeeps
<1>4. CASE UNCHANGED registryVars
  <2>1. RegistryTypeOK'
    BY <1>4 DEF RegistryInv, RegistryTypeOK, registryVars
  <2>2. \A v \in Worlds : Agree(record[v], release[v])' /\ Held(v)' = Held(v)
    BY <1>4 DEF RegistryInv, Held, registryVars
  <2> QED BY <2>1, <2>2 DEF RegistryInv, PortsUnique
<1> QED BY <1>1, <1>2, <1>3, <1>4 DEF RegistryNext

LEMMA RegistryInvariant == RegistrySpec => []RegistryInv
BY RegistryInvInit, RegistryInvNext, PTL DEF RegistrySpec

(***************************************************************************)
(* Every variable of Registry keeps its shape: no world is ever given a    *)
(* port outside the configured ranges.                                     *)
(***************************************************************************)
THEOREM RegistryTypeCorrect == RegistrySpec => []RegistryTypeOK
BY RegistryInvariant, PTL DEF RegistryInv

(***************************************************************************)
(* No two worlds ever hold the same port, for any number of worlds, ports  *)
(* and faults (_allocate_port, _allocate_rcon_port, _records).             *)
(***************************************************************************)
THEOREM PortsStayUnique == RegistrySpec => []PortsUnique
BY RegistryInvariant, PTL DEF RegistryInv

-----------------------------------------------------------------------------
(* A served RCON port is kept *)

LEMMA ChangesKeepRcon ==
  ASSUME RegistryInv, NEW w \in Worlds, Changes(w), NEW v \in Worlds,
         release[v].rcon # 0, release'[v].port # 0
  PROVE  release'[v].rcon = release[v].rcon
<1>1. PICK r \in Records, q \in Releases :
        /\ Vacates(r, q) \/ (Owned(w, r) /\ Follows(w, r, q))
        /\ Changed(w, r, q)
  BY DEF Changes
<1>2. release'[w] = q /\ (v # w => release'[v] = release[v])
  BY <1>1 DEF Changed, RegistryInv, RegistryTypeOK
<1>3. CASE v = w
  <2>1. /\ SpecOf(w).port = Either(record[w].port, release[w].port)
        /\ SpecOf(w).rcon = Either(record[w].rcon, release[w].rcon)
        /\ Agree(record[w], release[w])
    BY Listing DEF RegistryInv
  <2>2. SpecOf(w).rcon = release[w].rcon /\ SpecOf(w).port # 0
    BY <2>1, <1>3 DEF Agree, Either
  <2> QED BY <1>1, <1>2, <1>3, <2>2 DEF Vacates, Owned, Keeps, Granted, Follows
<1> QED BY <1>2, <1>3

(***************************************************************************)
(* A served RCON port is kept as long as the release lives, also one the   *)
(* record never saw (_spec_from_values, _ensure_rcon_port).                *)
(***************************************************************************)
THEOREM RconPortKept == RegistrySpec => RconKept
<1>1. RegistryInv /\ [RegistryNext]_registryVars =>
        [\A w \in Worlds : release[w].rcon # 0 /\ release'[w].port # 0
                           => release'[w].rcon = release[w].rcon]_registryVars
  <2> SUFFICES ASSUME RegistryInv, RegistryNext, NEW v \in Worlds,
                      release[v].rcon # 0, release'[v].port # 0
               PROVE  release'[v].rcon = release[v].rcon
    OBVIOUS
  <2>1. ASSUME NEW w \in Worlds, Handled(w) \/ Advanced(w)
        PROVE  release'[v].rcon = release[v].rcon
    BY <2>1, HandledChanges, AdvancedChanges, ChangesKeepRcon
  <2>2. CASE release' = release
    BY <2>2
  <2> QED BY <2>1, <2>2 DEF RegistryNext, LoseRecord, Heal
<1> QED BY <1>1, RegistryInvariant, PTL DEF RegistrySpec, RconKept

-----------------------------------------------------------------------------
(* The leases *)

\* The lease of a world is what the listing shows.
LEMMA LeaseListed ==
  ASSUME RegistryInv, NEW w \in Worlds
  PROVE  /\ LeaseOf(w).game = SpecOf(w).port /\ LeaseOf(w).rcon = SpecOf(w).rcon
         /\ LeaseOf(w) = [game |-> SpecOf(w).port, rcon |-> SpecOf(w).rcon]
BY Listing DEF RegistryInv, LeaseOf

LEMMA FreeNotTaken ==
  ASSUME RegistryInv, NEW p \in FreeGame \cup FreeRcon
  PROVE  ~Lease!Taken(p)
<1> SUFFICES ASSUME NEW w \in Worlds, p \in {LeaseOf(w).game, LeaseOf(w).rcon}
             PROVE  FALSE
  BY DEF Lease!Taken
<1>1. p \in Used
  BY LeaseListed DEF Used
<1> QED BY <1>1 DEF FreeGame, FreeRcon

LEMMA ChangesLease ==
  ASSUME RegistryInv, NEW w \in Worlds, Changes(w)
  PROVE  Lease!Next \/ UNCHANGED [v \in Worlds |-> LeaseOf(v)]
<1> DEFINE L == [v \in Worlds |-> LeaseOf(v)]
<1>1. PICK r \in Records, q \in Releases :
        /\ Vacates(r, q) \/ (Owned(w, r) /\ Follows(w, r, q))
        /\ Changed(w, r, q)
  BY DEF Changes
<1>2. \A v \in Worlds : Stored[v] \in Records
  BY StoredAlike
<1>3. /\ record'[w] = r /\ release'[w] = q
      /\ \A v \in Worlds \ {w} : record'[v] = Stored[v] /\ release'[v] = release[v]
  BY <1>1, <1>2 DEF Changed, RegistryInv, RegistryTypeOK, Stored
<1>4. \A v \in Worlds \ {w} : LeaseOf(v)' = LeaseOf(v)
  BY <1>3, StoredAlike DEF LeaseOf
<1>5. LeaseOf(w)' = [game |-> Either(r.port, q.port), rcon |-> Either(r.rcon, q.rcon)]
  BY <1>3 DEF LeaseOf
<1>6. L' = [L EXCEPT ![w] = LeaseOf(w)']
  BY <1>4
<1>7. /\ L[w] = [game |-> SpecOf(w).port, rcon |-> SpecOf(w).rcon]
      /\ SpecOf(w).port = Either(record[w].port, release[w].port)
      /\ SpecOf(w).rcon = Either(record[w].rcon, release[w].rcon)
      /\ Agree(record[w], release[w])
  BY LeaseListed, Listing DEF RegistryInv
<1>8. CASE Vacates(r, q)
  <2>1. LeaseOf(w)' = Lease!Vacant
    BY <1>5, <1>8 DEF Vacates, Either, Lease!Vacant
  <2> QED BY <1>6, <2>1 DEF Lease!Next, Lease!End
<1>9. CASE Keeps(w, r) /\ Follows(w, r, q)
  <2>1. Either(r.port, q.port) = SpecOf(w).port /\ SpecOf(w).port # 0
    BY <1>9 DEF Keeps, Either
  <2>2. CASE r.rcon = SpecOf(w).rcon
    <3>1. Either(r.rcon, q.rcon) = SpecOf(w).rcon
      BY <1>7, <1>9, <2>2 DEF Follows, Either
    <3>2. LeaseOf(w)' = LeaseOf(w)
      BY <1>5, <2>1, <3>1, LeaseListed
    <3> QED BY <1>4, <3>2
  <2>3. CASE SpecOf(w).rcon = 0 /\ r.rcon \in FreeRcon
    <3>1. r.rcon \in RconPorts /\ r.rcon # 0 /\ ~Lease!Taken(r.rcon)
      BY <2>3, FreeNotHeld, FreeNotTaken DEF FreeRcon
    <3>2. LeaseOf(w)' = [game |-> L[w].game, rcon |-> r.rcon]
      BY <1>5, <1>7, <2>1, <3>1 DEF Either
    <3>3. L[w].game # 0 /\ L[w].rcon = 0
      BY <1>7, <2>1, <2>3
    <3>4. Lease!Extend(w)
      BY <1>6, <3>1, <3>2, <3>3 DEF Lease!Extend
    <3> QED BY <3>4 DEF Lease!Next
  <2> QED BY <1>9, <2>2, <2>3 DEF Keeps
<1>10. CASE Granted(w, r) /\ Follows(w, r, q)
  <2>1. /\ r.port \in GamePorts /\ r.port # 0 /\ ~Lease!Taken(r.port)
        /\ r.rcon \in RconPorts /\ r.rcon # 0 /\ ~Lease!Taken(r.rcon)
    BY <1>10, FreeNotHeld, FreeNotTaken DEF Granted, FreeGame, FreeRcon
  <2>2. L[w] = Lease!Vacant
    BY <1>7, <1>10 DEF Granted, Agree, Either, Lease!Vacant
  <2>3. LeaseOf(w)' = [game |-> r.port, rcon |-> r.rcon]
    BY <1>5, <2>1 DEF Either
  <2>4. Lease!Grant(w)
    BY <1>6, <2>1, <2>2, <2>3 DEF Lease!Grant
  <2> QED BY <2>4 DEF Lease!Next
<1> QED BY <1>1, <1>8, <1>9, <1>10 DEF Owned

LEMMA LossLease ==
  ASSUME RegistryInv, NEW w \in Worlds, LoseRecord(w)
  PROVE  Lease!Next \/ UNCHANGED [v \in Worlds |-> LeaseOf(v)]
<1> DEFINE L == [v \in Worlds |-> LeaseOf(v)]
<1>1. /\ record'[w] = NoRecord /\ release' = release
      /\ \A v \in Worlds \ {w} : record'[v] = record[v]
  BY DEF LoseRecord, RegistryInv, RegistryTypeOK
<1>2. L' = [L EXCEPT ![w] = LeaseOf(w)']
  BY <1>1 DEF LeaseOf
<1>3. LeaseOf(w)' = [game |-> release[w].port, rcon |-> release[w].rcon]
  BY <1>1 DEF LeaseOf, NoRecord, Either
<1>4. L[w] = [game |-> record[w].port, rcon |-> Either(record[w].rcon, release[w].rcon)]
      /\ record[w].port # 0 /\ Agree(record[w], release[w])
  BY DEF LeaseOf, LoseRecord, Either, RegistryInv
<1>5. CASE release[w].port = 0
  <2>1. LeaseOf(w)' = Lease!Vacant
    BY <1>3, <1>4, <1>5 DEF Agree, Lease!Vacant
  <2> QED BY <1>2, <2>1 DEF Lease!Next, Lease!End
<1>6. CASE release[w].port # 0 /\ release[w].rcon = 0
  <2>1. LeaseOf(w)' = [game |-> L[w].game, rcon |-> 0]
    BY <1>3, <1>4, <1>6 DEF Agree
  <2> QED BY <1>2, <2>1 DEF Lease!Next, Lease!Forget
<1>7. CASE release[w].port # 0 /\ release[w].rcon # 0
  <2>1. LeaseOf(w)' = L[w]
    BY <1>3, <1>4, <1>7 DEF Agree, Either
  <2> QED BY <1>2, <2>1
<1> QED BY <1>5, <1>6, <1>7

(***************************************************************************)
(* Registry implements Leases: the game port a world was let stays until   *)
(* the world is gone, and no port is let twice, whatever fails or is lost. *)
(***************************************************************************)
THEOREM RegistryImplementsLeases == RegistrySpec => LeasesKept
<1>1. RegistryInit => Lease!Init
  <2> SUFFICES ASSUME RegistryInit PROVE Lease!Init
    OBVIOUS
  <2>1. RegistryInv
    BY RegistryInvInit
  <2>2. \A w \in Worlds : LeaseOf(w) \in [game: GamePorts \cup {0}, rcon: RconPorts \cup {0}]
    <3> SUFFICES ASSUME NEW w \in Worlds
                 PROVE  LeaseOf(w) \in [game: GamePorts \cup {0}, rcon: RconPorts \cup {0}]
      OBVIOUS
    <3>1. SpecOf(w).port \in GamePorts \cup {0} /\ SpecOf(w).rcon \in RconPorts \cup {0}
      BY <2>1, KnownSpec DEF Records
    <3> QED BY <2>1, <3>1, LeaseListed
  <2>3. \A w \in Worlds : {LeaseOf(w).game, LeaseOf(w).rcon} \ {0} = Held(w)
    BY <2>1, LeaseListed, HeldListed DEF RegistryInv
  <2>4. Lease!Apart
    BY <2>1, <2>3 DEF Lease!Apart, RegistryInv, PortsUnique
  <2> QED BY <2>2, <2>4 DEF Lease!Init
<1>2. RegistryInv /\ [RegistryNext]_registryVars => [Lease!Next]_[w \in Worlds |-> LeaseOf(w)]
  <2> SUFFICES ASSUME RegistryInv, [RegistryNext]_registryVars
               PROVE  Lease!Next \/ UNCHANGED [w \in Worlds |-> LeaseOf(w)]
    OBVIOUS
  <2>1. ASSUME NEW w \in Worlds, Handled(w) \/ Advanced(w)
        PROVE  Lease!Next \/ UNCHANGED [v \in Worlds |-> LeaseOf(v)]
    BY <2>1, HandledChanges, AdvancedChanges, ChangesLease
  <2>2. ASSUME NEW w \in Worlds, LoseRecord(w)
        PROVE  Lease!Next \/ UNCHANGED [v \in Worlds |-> LeaseOf(v)]
    BY <2>2, LossLease
  <2>3. CASE Heal
    <3>1. record' = Stored /\ release' = release
      BY <2>3 DEF Heal
    <3>2. \A v \in Worlds : LeaseOf(v)' = LeaseOf(v)
      BY <3>1, StoredAlike DEF LeaseOf
    <3> QED BY <3>2
  <2>4. CASE UNCHANGED registryVars
    BY <2>4 DEF registryVars, LeaseOf
  <2> QED BY <2>1, <2>2, <2>3, <2>4 DEF RegistryNext
<1> QED BY <1>1, <1>2, RegistryInvariant, PTL DEF RegistrySpec, LeasesKept, Lease!Spec

-----------------------------------------------------------------------------
(* A full RCON range                                                       *)
(*                                                                         *)
(* An operation fails, without a failing call, when its seed does or when  *)
(* an install finds no port.  Its server is down then because it already   *)
(* was while the operation waited in seed or install (Calm).               *)

Calm(r, q) ==
  /\ r.failed \/ r.task \in {"seed", "install"} => ~q.up
  /\ q.port = 0 => ~q.up

AllCalm == \A w \in Worlds : Calm(record[w], release[w])

LEMMA ListedCalm ==
  ASSUME RegistryInv, AllCalm, NEW w \in Worlds
  PROVE  /\ Calm(Stored[w], release[w]) /\ Calm(SpecOf(w), release[w])
         /\ ~Known(w) => ~release[w].up
         /\ SpecOf(w).port = 0 => ~Known(w)
<1>1. /\ record[w] \in Records /\ release[w] \in Releases
      /\ Calm(record[w], release[w])
  BY DEF RegistryInv, RegistryTypeOK, AllCalm
<1>2. Stored[w] = IF NeedsHeal(w) THEN FromRelease(w) ELSE record[w]
  BY DEF Stored
<1>3. Stored[w] \in Records /\ Stored[w].port = SpecOf(w).port
  BY Listing DEF RegistryInv
<1>4. Calm(Stored[w], release[w])
  BY <1>1, <1>2 DEF Calm, FromRelease
<1>5. SpecOf(w).task = Stored[w].task /\ SpecOf(w).failed = Stored[w].failed
  BY <1>3 DEF SpecOf, Records
<1>6. ~Known(w) => release[w].port = 0
  BY <1>1, <1>2 DEF Known, NeedsHeal, Released, FromRelease
<1> QED BY <1>3, <1>4, <1>5, <1>6 DEF Calm, Known

LEMMA SavedCalm ==
  ASSUME RegistryInv, AllCalm, NEW w \in Worlds, NEW r, Save(w, r),
         NEW q, release' = [release EXCEPT ![w] = q], Calm(r, q)
  PROVE  AllCalm'
<1>1. /\ record'[w] = r /\ release'[w] = q
      /\ \A v \in Worlds \ {w} : record'[v] = Stored[v] /\ release'[v] = release[v]
  BY DEF Save, Stored, RegistryInv, RegistryTypeOK
<1>2. \A v \in Worlds \ {w} : Calm(Stored[v], release[v])
  BY ListedCalm
<1> QED BY <1>1, <1>2 DEF AllCalm

\* The same of a step that leaves the releases alone.
LEMMA RecordedCalm ==
  ASSUME RegistryInv, AllCalm, NEW w \in Worlds, NEW r, Save(w, r), release' = release,
         r.failed \/ r.task \in {"seed", "install"} => ~release[w].up
  PROVE  AllCalm'
<1>1. release' = [release EXCEPT ![w] = release[w]]
  BY DEF RegistryInv, RegistryTypeOK
<1>2. Calm(r, release[w])
  BY DEF AllCalm, Calm
<1> QED BY <1>1, <1>2, SavedCalm

\* An install without a fault: r is what it works on.
LEMMA InstallCalm ==
  ASSUME RegistryInv, AllCalm, NEW w \in Worlds, NEW r \in Records, r.port # 0,
         NEW up \in BOOLEAN, NEW next \in Tasks, Install(w, r, up, next),
         \A f : ~Fault(f),
         r.failed \/ next \in {"seed", "install"} => ~up,
         up /\ r.rcon = 0 /\ r.task # "none" => ~release[w].up
  PROVE  AllCalm'
<1>1. ASSUME NEW s \in Records, s.port = r.port, s.failed = r.failed, Installed(w, s, up, next)
      PROVE  AllCalm'
  <2> DEFINE q == [port |-> s.port, rcon |-> s.rcon, up |-> up]
             t == [s EXCEPT !.task = next]
  <2>1. release' = [release EXCEPT ![w] = q] /\ Save(w, t)
    BY <1>1 DEF Installed
  <2>2. Calm(t, q)
    BY <1>1 DEF Calm, Records
  <2> QED BY <2>1, <2>2, SavedCalm
<1>2. CASE Installed(w, r, up, next)
  BY <1>1, <1>2
<1>3. ASSUME NEW p \in RconPorts, Installed(w, [r EXCEPT !.rcon = p], up, next)
      PROVE  AllCalm'
  <2>1. /\ [r EXCEPT !.rcon = p] \in Records
        /\ [r EXCEPT !.rcon = p].port = r.port /\ [r EXCEPT !.rcon = p].failed = r.failed
    BY DEF Records
  <2> QED BY <1>1, <1>3, <2>1
<1>4. CASE NeedsRcon(r, up) /\ Save(w, Errored(r)) /\ UNCHANGED release
  <2>1. /\ Errored(r).failed = (r.task # "none") /\ Errored(r).task = r.task
    BY DEF Errored, Records
  <2>2. r.task # "none" => ~release[w].up
    BY <1>4 DEF NeedsRcon
  <2> QED BY <1>4, <2>1, <2>2, RecordedCalm
<1> QED BY <1>2, <1>3, <1>4 DEF Install

\* A step that is no fault spends none.
LEMMA FaultsKept ==
  ASSUME NEW w, Handled(w) \/ Advanced(w), \A f : ~Fault(f)
  PROVE  faults' = faults
<1>1. \A r, up, next : Install(w, r, up, next) => faults' = faults
  BY ZenonT(30) DEF Install, Installed, NoFault
<1>2. CASE Handled(w)
  BY <1>1, <1>2 DEF Handled, Launch, CreateWorld, RetrySeed, StartServer, Stop,
     UpdateSettings, Restore, Delete, NoFault
<1>3. CASE Advanced(w)
  BY <1>1, <1>3 DEF Advanced, SnapshotFailed, RestoreSaved, DeleteSaved, SeedFailed,
     SeedDone, FinishInstall, Teardown, NoFault
<1> QED BY <1>2, <1>3

LEMMA HandledCalm ==
  ASSUME RegistryInv, AllCalm, NEW w \in Worlds, Handled(w), \A f : ~Fault(f)
  PROVE  AllCalm'
<1>1. /\ SpecOf(w) \in Records /\ (Known(w) => SpecOf(w).port # 0)
      /\ release[w].up \in BOOLEAN
  BY KnownSpec DEF RegistryInv, RegistryTypeOK, Releases
<1>2. /\ SpecOf(w).failed \/ SpecOf(w).task \in {"seed", "install"} => ~release[w].up
      /\ ~Known(w) => ~release[w].up
  BY ListedCalm DEF Calm
<1>3. Idle(w) => Known(w) /\ (SpecOf(w).task # "none" => ~release[w].up)
  BY <1>2 DEF Idle
<1>4. "none" \in Tasks /\ SpecOf(w).task \in Tasks /\ "seed" \in Tasks /\ "install" \in Tasks
  BY <1>1 DEF Tasks, Records
<1>5. CASE Launch(w)
  <2>1. PICK r \in Reservations("seed") : Reserve(w, "seed", r) /\ Save(w, r) /\ release' = release
    BY <1>5 DEF Launch
  <2>2. ~release[w].up
    BY <1>2, <2>1 DEF Reserve
  <2> QED BY <2>1, <2>2, RecordedCalm
<1>6. CASE CreateWorld(w)
  <2>1. PICK r \in Reservations("install") :
          Reserve(w, "install", r) /\ Install(w, r, TRUE, "none")
    BY <1>6 DEF CreateWorld
  <2>2. r \in Records /\ Granted(w, r)
    BY <2>1, <1>4, ReservedRecord
  <2>3. ~release[w].up /\ ~r.failed /\ r.port # 0
    BY <1>2, <2>1, <2>2, FreeNotHeld DEF Reserve, Granted
  <2> QED BY <1>4, <2>1, <2>2, <2>3, InstallCalm
<1>7. CASE RetrySeed(w)
  <2>1. /\ Save(w, [SpecOf(w) EXCEPT !.failed = FALSE]) /\ release' = release
        /\ ~release[w].up
    BY <1>2, <1>7 DEF RetrySeed
  <2> QED BY <2>1, RecordedCalm
<1>8. ASSUME Known(w), NEW up \in BOOLEAN, Install(w, Cleared(SpecOf(w)), up, "none")
      PROVE  AllCalm'
  <2>1. Cleared(SpecOf(w)) \in Records /\ Cleared(SpecOf(w)).port = SpecOf(w).port
    BY <1>1, <1>4, Edited
  <2>2. Cleared(SpecOf(w)).task = "none" /\ ~Cleared(SpecOf(w)).failed
    BY <1>1 DEF Cleared, Records
  <2> QED BY <1>1, <1>4, <1>8, <2>1, <2>2, InstallCalm
<1>9. CASE StartServer(w) \/ Stop(w)
  BY <1>3, <1>8, <1>9 DEF StartServer, Stop
<1>10. CASE UpdateSettings(w)
  <2>1. Known(w) /\ Install(w, SpecOf(w), release[w].up, SpecOf(w).task)
    BY <1>3, <1>10 DEF UpdateSettings
  <2>2. SpecOf(w).task # "none" => ~release[w].up
    BY <1>3, <1>10 DEF UpdateSettings
  <2> QED BY <1>1, <1>2, <1>4, <2>1, <2>2, InstallCalm
<1>11. ASSUME NEW task \in Tasks, Known(w),
              Save(w, [SpecOf(w) EXCEPT !.task = task, !.failed = FALSE]), release' = release,
              task \in {"seed", "install"} => ~release[w].up
       PROVE  AllCalm'
  <2>1. /\ [SpecOf(w) EXCEPT !.task = task, !.failed = FALSE].task = task
        /\ ~[SpecOf(w) EXCEPT !.task = task, !.failed = FALSE].failed
    BY <1>1 DEF Records
  <2> QED BY <1>11, <2>1, RecordedCalm
<1>12. CASE Restore(w)
  <2>1. PICK task \in {"seed", "saving"} :
          /\ Save(w, [SpecOf(w) EXCEPT !.task = task, !.failed = FALSE])
          /\ release' = release
          /\ task = "seed" => SpecOf(w).task \in {"seed", "install"}
    BY <1>12 DEF Restore
  <2> QED BY <1>2, <1>3, <1>11, <1>12, <2>1 DEF Restore, Tasks
<1>13. CASE Delete(w)
  <2>1. PICK task \in {"teardown", "deleting"} :
          Save(w, [SpecOf(w) EXCEPT !.task = task, !.failed = FALSE]) /\ release' = release
    BY <1>13 DEF Delete
  <2> QED BY <1>3, <1>11, <1>13, <2>1 DEF Delete, Tasks
<1> QED BY <1>5, <1>6, <1>7, <1>9, <1>10, <1>12, <1>13 DEF Handled

LEMMA AdvancedCalm ==
  ASSUME RegistryInv, AllCalm, NEW w \in Worlds, Advanced(w), \A f : ~Fault(f)
  PROVE  AllCalm'
<1>1. /\ SpecOf(w) \in Records /\ (Known(w) => SpecOf(w).port # 0)
  BY KnownSpec
<1>2. /\ SpecOf(w).failed \/ SpecOf(w).task \in {"seed", "install"} => ~release[w].up
      /\ release[w].port = 0 => ~release[w].up
  BY ListedCalm DEF Calm
<1>3. "none" \in Tasks /\ "seed" \in Tasks
  BY DEF Tasks
<1>4. CASE SnapshotFailed(w)
  <2>1. Cleared(SpecOf(w)).task = "none" /\ ~Cleared(SpecOf(w)).failed
    BY <1>1 DEF Cleared, Records
  <2> QED BY <1>4, <2>1, RecordedCalm DEF SnapshotFailed
<1>5. CASE RestoreSaved(w)
  <2>1. Known(w) /\ ~SpecOf(w).failed
    BY <1>5 DEF RestoreSaved, At
  <2>2. CASE Install(w, SpecOf(w), FALSE, "seed")
    BY <1>1, <1>3, <2>1, <2>2, InstallCalm
  <2>3. CASE ~Released(w) /\ Save(w, [SpecOf(w) EXCEPT !.task = "seed"]) /\ release' = release
    BY <1>2, <2>3, RecordedCalm DEF Released
  <2> QED BY <1>5, <2>2, <2>3 DEF RestoreSaved
<1>6. CASE DeleteSaved(w)
  <2>1. /\ Save(w, [SpecOf(w) EXCEPT !.task = "teardown"]) /\ release' = release
        /\ ~SpecOf(w).failed
    BY <1>6 DEF DeleteSaved, At
  <2>2. /\ [SpecOf(w) EXCEPT !.task = "teardown"].task = "teardown"
        /\ [SpecOf(w) EXCEPT !.task = "teardown"].failed = SpecOf(w).failed
    BY <1>1 DEF Records
  <2> QED BY <2>1, <2>2, RecordedCalm
<1>7. CASE SeedFailed(w)
  <2>1. Save(w, Errored(SpecOf(w))) /\ release' = release /\ ~release[w].up
    BY <1>2, <1>7 DEF SeedFailed, At
  <2> QED BY <2>1, RecordedCalm
<1>8. CASE SeedDone(w) \/ FinishInstall(w)
  <2>1. /\ Known(w) /\ ~SpecOf(w).failed /\ ~release[w].up
        /\ Install(w, SpecOf(w), TRUE, "none")
    BY <1>2, <1>8 DEF SeedDone, FinishInstall, At
  <2> QED BY <1>1, <1>3, <2>1, InstallCalm
<1>9. CASE Teardown(w)
  <2>1. Save(w, NoRecord) /\ release' = [release EXCEPT ![w] = NoRelease]
    BY <1>9 DEF Teardown
  <2>2. Calm(NoRecord, NoRelease)
    BY DEF Calm, NoRecord, NoRelease
  <2> QED BY <2>1, <2>2, SavedCalm
<1> QED BY <1>4, <1>5, <1>6, <1>7, <1>8, <1>9 DEF Advanced

(***************************************************************************)
(* A full RCON range never keeps a server from being stopped: without      *)
(* failing calls, an operation that failed has its server down             *)
(* (_ensure_rcon_port is asked only for a server that is to run).          *)
(***************************************************************************)
THEOREM FullRangeNeverBlocks == RegistrySpec => []FullRangeStops
<1> DEFINE StopInv == faults = 0 => AllCalm
<1>1. RegistryInit => StopInv
  <2> SUFFICES ASSUME RegistryInit PROVE AllCalm
    OBVIOUS
  <2>1. \A r \in OldRecords \cup {NoRecord} : ~r.failed /\ r.task = "none"
    <3>1. ~NoRecord.failed /\ NoRecord.task = "none"
      BY DEF NoRecord
    <3>2. \A r \in OldRecords : r.failed = FALSE /\ r.task = "none"
      BY DEF OldRecords
    <3> QED BY <3>1, <3>2
  <2>2. \A q \in OldReleases : q.port # 0
    BY PortsAssumption DEF OldReleases
  <2>3. ~NoRelease.up
    BY DEF NoRelease
  <2> QED BY <2>1, <2>2, <2>3 DEF RegistryInit, AllCalm, Calm
<1>2. RegistryInv /\ StopInv /\ [RegistryNext]_registryVars => StopInv'
  <2> SUFFICES ASSUME RegistryInv, StopInv, [RegistryNext]_registryVars, faults' = 0
               PROVE  AllCalm'
    OBVIOUS
  <2>1. \A f : ~Fault(f)
    BY RegistryFaultsAssumption DEF Fault, RegistryInv, RegistryTypeOK
  <2>2. ASSUME NEW w \in Worlds, Handled(w) \/ Advanced(w) PROVE AllCalm'
    <3>1. faults = 0
      BY <2>1, <2>2, FaultsKept
    <3> QED BY <2>1, <2>2, <3>1, HandledCalm, AdvancedCalm
  <2>3. CASE Heal
    <3>1. AllCalm /\ record' = Stored /\ release' = release
      BY <2>3 DEF Heal
    <3> QED BY <3>1, ListedCalm DEF AllCalm
  <2>4. CASE UNCHANGED registryVars
    BY <2>4 DEF registryVars, AllCalm
  <2>5. \A w \in Worlds : ~LoseRecord(w)
    BY <2>1 DEF LoseRecord
  <2> QED BY <2>2, <2>3, <2>4, <2>5 DEF RegistryNext
<1>3. StopInv => FullRangeStops
  BY DEF AllCalm, Calm, FullRangeStops
<1> QED BY <1>1, <1>2, <1>3, RegistryInvariant, PTL DEF RegistrySpec

=============================================================================

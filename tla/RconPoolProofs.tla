--------------------------- MODULE RconPoolProofs ---------------------------
(***************************************************************************)
(* Proofs about RconPool: connections are not shared, replies not mixed up *)
(* and commands not repeated, for any callers and any number of servers    *)
(* and passwords.                                                          *)
(***************************************************************************)
EXTENDS RconPool, TLAPS

USE DEF slot, cluster, callers

InRun == {"running", "ready", "sent"}

\* A step of one caller changes where it is, and nobody else.
LEMMA GoesOn ==
  ASSUME TypeOK, NEW t \in Callers, NEW phase \in Phases, Goes(t, phase)
  PROVE  /\ at' \in [Callers -> Phases] /\ at'[t] = phase
         /\ \A u \in Callers \ {t} : at'[u] = at[u]
BY DEF Goes, TypeOK

LEMMA NewRunTyped == NewRun \in [next : 1..2, reused : BOOLEAN, retried : BOOLEAN]
BY DEF NewRun

LEMMA NoConnTyped ==
  NoConn \in [server : 0..MaxServers, key : 0..MaxSecrets, link : Links]
BY BoundsAssumption DEF NoConn, Links

\* Every password number may be cached, and so may none.
LEMMA CachedTyped ==
  ASSUME TypeOK
  PROVE  cached \in 0..MaxSecrets /\ secret \in 0..MaxSecrets /\ 0 \in 0..MaxSecrets
<1>1. cached \in 0..MaxSecrets /\ secret \in 1..MaxSecrets
  BY DEF TypeOK
<1> QED BY <1>1, BoundsAssumption

LEMMA TypeInit == Init => TypeOK
<1> SUFFICES ASSUME Init PROVE TypeOK
  OBVIOUS
<1>1. late \in [Callers -> [1..2 -> Nat]] /\ ran \in [Callers -> [1..2 -> Nat]]
  BY DEF Init
<1>2. at \in [Callers -> Phases]
  BY DEF Init, Phases
<1>3. seen \in [Callers -> 0..MaxServers] /\ key \in [Callers -> 0..MaxSecrets]
  BY BoundsAssumption DEF Init
<1>4. server \in 0..MaxServers /\ started \in 0..MaxServers /\ target \in 0..MaxServers
  BY BoundsAssumption DEF Init
<1>5. accepts \in 0..MaxSecrets /\ secret \in 1..MaxSecrets /\ cached \in 0..MaxSecrets
  BY BoundsAssumption DEF Init
<1> QED BY <1>1, <1>2, <1>3, <1>4, <1>5, NoConnTyped, NewRunTyped DEF Init, TypeOK

LEMMA CallerTyped ==
  ASSUME TypeOK, NEW t \in Callers, Step(t)
  PROVE  TypeOK'
<1> USE NoConnTyped, NewRunTyped
<1>1. CASE List(t)
  BY <1>1 DEF List, TypeOK, Goes, Phases
<1>2. CASE Note(t)
  <2>1. Noted(t) \in Phases
    BY DEF Noted, Phases
  <2> QED BY <1>2, <2>1 DEF Note, TypeOK, Goes, Drop
<1>3. CASE NoteBusy(t)
  BY <1>3 DEF NoteBusy, TypeOK, Goes, Phases
<1>4. CASE Mark(t)
  <2>1. Noted(t) \in Phases
    BY DEF Noted, Phases
  <2> QED BY <1>4, <2>1 DEF Mark, TypeOK, Goes, MarkPending
<1>5. CASE ReadKey(t)
  <2>1. cached' \in 0..MaxSecrets
    BY <1>5, CachedTyped DEF ReadKey
  <2>2. key' \in [Callers -> 0..MaxSecrets]
    BY <1>5, <2>1 DEF ReadKey, TypeOK
  <2> QED BY <1>5, <2>1, <2>2 DEF ReadKey, TypeOK, Goes, Phases
<1>6. CASE Acquire(t)
  BY <1>6 DEF Acquire, TypeOK, Goes, Phases, Drop
<1>7. CASE Reuse(t)
  BY <1>7 DEF Reuse, TypeOK, Goes, Phases
<1>8. CASE Connect(t)
  BY <1>8 DEF Connect, TypeOK, Goes, Phases, Links
<1>9. CASE ConnectFails(t)
  <2>1. cached' \in 0..MaxSecrets
    BY <1>9, CachedTyped DEF ConnectFails
  <2>2. pending' \in BOOLEAN
    BY <1>9 DEF ConnectFails, TypeOK
  <2> QED BY <1>9, <2>1, <2>2 DEF ConnectFails, TypeOK, Goes, Phases, Release
<1>10. CASE Send(t)
  BY <1>10 DEF Send, TypeOK, Goes, Phases
<1>11. ASSUME NEW unsent \in BOOLEAN, Error(t, unsent) PROVE TypeOK'
  <2>1. /\ run.next \in 1..2 /\ late[t] \in [1..2 -> Nat]
        /\ late[t][run.next] + 1 \in Nat
    <3>1. run \in [next : 1..2, reused : BOOLEAN, retried : BOOLEAN]
          /\ late \in [Callers -> [1..2 -> Nat]]
      BY DEF TypeOK
    <3>2. run.next \in 1..2
      BY <3>1
    <3> QED BY <3>1, <3>2
  <2>2. late' \in [Callers -> [1..2 -> Nat]]
    <3>1. CASE late' = [late EXCEPT ![t][run.next] = @ + 1]
      BY <2>1, <3>1 DEF TypeOK
    <3>2. CASE late' = late
      BY <3>2 DEF TypeOK
    <3> QED BY <1>11, <3>1, <3>2 DEF Error
  <2>3. UNCHANGED <<cluster, cached, target, seen, key, evictor, ran>> /\ Drop
    BY <1>11 DEF Error
  <2>4. CASE MayRetry(t, unsent)
    <3>1. /\ Goes(t, "running") /\ run' = [run EXCEPT !.retried = TRUE]
          /\ wire' = "quiet" /\ UNCHANGED holder
      BY <1>11, <2>4 DEF Error
    <3> QED BY <2>2, <2>3, <3>1 DEF TypeOK, Drop, Goes, Phases
  <2>5. CASE ~MayRetry(t, unsent)
    <3>1. Goes(t, "failed") /\ Release
      BY <1>11, <2>5 DEF Error
    <3> QED BY <2>2, <2>3, <3>1 DEF TypeOK, Drop, Goes, Phases, Release
  <2> QED BY <2>4, <2>5
<1>12. CASE Reply(t)
  <2>1. run' \in [next : 1..2, reused : BOOLEAN, retried : BOOLEAN]
    <3>1. run \in [next : 1..2, reused : BOOLEAN, retried : BOOLEAN]
      BY DEF TypeOK
    <3>2. CASE Last(t)
      BY <1>12, <3>2 DEF Reply, Release
    <3>3. CASE ~Last(t)
      <4>1. run' = [run EXCEPT !.next = run.next + 1]
        BY <1>12, <3>3 DEF Reply
      <4>2. run.next = 1
        BY <3>1, <3>3 DEF Last, Commands
      <4> QED BY <3>1, <4>1, <4>2
    <3> QED BY <3>2, <3>3
  <2>2. at' \in [Callers -> Phases]
    BY <1>12 DEF Reply, TypeOK, Goes, Phases
  <2> QED BY <1>12, <2>1, <2>2 DEF Reply, TypeOK, Release
<1> QED BY <1>1, <1>2, <1>3, <1>4, <1>5, <1>6, <1>7, <1>8, <1>9, <1>10, <1>11, <1>12
        DEF Step, Unsent, Lost

LEMMA EnvironmentTyped ==
  ASSUME TypeOK, Environment
  PROVE  TypeOK'
<1> USE NoConnTyped
<1>1. CASE Evict
  BY <1>1 DEF Evict, TypeOK, Drop
<1>2. CASE EvictBusy
  BY <1>2 DEF EvictBusy, TypeOK
<1>3. CASE EvictMark
  BY <1>3 DEF EvictMark, TypeOK, MarkPending
<1>4. ASSUME NEW t \in Callers, NEW n \in 1..2, Counted(t, n)
      PROVE  ran' \in [Callers -> [1..2 -> Nat]]
  <2>1. ran \in [Callers -> [1..2 -> Nat]] /\ ran' = [ran EXCEPT ![t][n] = @ + 1]
    BY <1>4 DEF TypeOK, Counted
  <2>2. ran[t] \in [1..2 -> Nat] /\ ran[t][n] + 1 \in Nat
    BY <2>1
  <2> QED BY <2>1, <2>2
<1>5. CASE Execute
  <2>1. run.next \in 1..2 /\ Counted(holder, run.next)
    BY <1>5 DEF Execute, TypeOK
  <2>2. ASSUME holder \in Callers PROVE ran' \in [Callers -> [1..2 -> Nat]]
    BY <1>4, <2>1, <2>2
  <2>3. ASSUME holder \notin Callers PROVE ran' \in [Callers -> [1..2 -> Nat]]
    BY <2>1, <2>3 DEF Counted, TypeOK
  <2>4. ran' \in [Callers -> [1..2 -> Nat]]
    BY <2>2, <2>3
  <2> QED BY <1>5, <2>4 DEF Execute, TypeOK
<1>6. ASSUME NEW t \in Callers, NEW n \in 1..2, ExecuteLate(t, n) PROVE TypeOK'
  <2>1. ran' \in [Callers -> [1..2 -> Nat]]
    BY <1>6, <1>4 DEF ExecuteLate
  <2>2. late \in [Callers -> [1..2 -> Nat]] /\ late[t] \in [1..2 -> Nat]
    BY DEF TypeOK
  <2>3. late[t][n] - 1 \in Nat
    BY <1>6, <2>2 DEF ExecuteLate
  <2>4. late' \in [Callers -> [1..2 -> Nat]]
    BY <1>6, <2>2, <2>3 DEF ExecuteLate
  <2> QED BY <1>6, <2>1, <2>4 DEF ExecuteLate, TypeOK
<1>7. CASE ServerStops
  <2>1. late' \in [Callers -> [1..2 -> Nat]]
    BY <1>7 DEF ServerStops
  <2>2. conn' \in [server : 0..MaxServers, key : 0..MaxSecrets, link : Links]
    BY <1>7, ZenonT(30) DEF ServerStops, TypeOK, Links
  <2>3. server' \in 0..MaxServers
    BY <1>7, BoundsAssumption DEF ServerStops
  <2> QED BY <1>7, <2>1, <2>2, <2>3 DEF ServerStops, TypeOK
<1>8. CASE ServerStarts
  <2>1. started \in 0..MaxServers
    BY DEF TypeOK
  <2>2. started + 1 \in 0..MaxServers
    BY <1>8, <2>1, BoundsAssumption DEF ServerStarts
  <2>3. secret \in 0..MaxSecrets
    BY CachedTyped
  <2> QED BY <1>8, <2>2, <2>3 DEF ServerStarts, TypeOK
<1>9. CASE LinkCloses
  BY <1>9 DEF LinkCloses, TypeOK, Links
<1>10. CASE SecretChanges
  <2>1. secret \in 1..MaxSecrets
    BY DEF TypeOK
  <2>2. secret' \in 1..MaxSecrets
    BY <1>10, <2>1, BoundsAssumption DEF SecretChanges
  <2>3. cached' \in 0..MaxSecrets
    BY <1>10, CachedTyped DEF SecretChanges
  <2> QED BY <1>10, <2>2, <2>3 DEF SecretChanges, TypeOK
<1> QED BY <1>1, <1>2, <1>3, <1>5, <1>6, <1>7, <1>8, <1>9, <1>10 DEF Environment

\* The pool's variables keep their types, whatever callers and servers do.
THEOREM PoolTypeCorrect == Spec => []TypeOK
<1>1. TypeOK /\ [Next]_vars => TypeOK'
  <2> SUFFICES ASSUME TypeOK, [Next]_vars PROVE TypeOK'
    OBVIOUS
  <2>1. CASE Next
    BY <2>1, CallerTyped, EnvironmentTyped DEF Next
  <2>2. CASE UNCHANGED vars
    BY <2>2 DEF vars, TypeOK
  <2> QED BY <2>1, <2>2
<1> QED BY <1>1, TypeInit, PTL DEF Spec

-----------------------------------------------------------------------------
(* The slot's lock                                                         *)

\* A caller is in a run exactly while it holds the lock; a connection it found
\* or made there is one of its own key.
Owns(t) ==
  /\ at[t] \in InRun <=> holder = t
  /\ at[t] \in {"ready", "sent"} => Open
  /\ at[t] \in InRun /\ Open => conn.key = key[t]

\* A doomed connection carries the mark, and no run has one it was doomed before.
DoomKnown ==
  /\ doomed # "no" => pending
  /\ holder # Nobody => doomed # "before"

LockInv == TypeOK /\ (\A t \in Callers : Owns(t)) /\ DoomKnown

LEMMA NobodyCalls == \A t \in Callers : t # Nobody
BY CallersAssumption

\* A step of one caller leaves every other caller, and its run, alone.
LEMMA OthersUntouched ==
  ASSUME TypeOK, NEW u \in Callers, Step(u), NEW t \in Callers \ {u}
  PROVE  /\ at'[t] = at[t] /\ key'[t] = key[t]
         /\ ran'[t] = ran[t] /\ late'[t] = late[t]
         /\ holder' = t <=> holder = t
         /\ holder = t => UNCHANGED <<run, wire, conn>>
<1> USE NobodyCalls DEF Runs
<1>1. \A phase : Goes(u, phase) => at'[t] = at[t]
  BY DEF Goes, TypeOK
<1>2. CASE List(u)
  BY <1>1, <1>2 DEF List
<1>3. CASE Note(u)
  BY <1>1, <1>3 DEF Note
<1>4. CASE NoteBusy(u)
  BY <1>1, <1>4 DEF NoteBusy
<1>5. CASE Mark(u)
  BY <1>1, <1>5 DEF Mark, MarkPending
<1>6. CASE ReadKey(u)
  BY <1>1, <1>6 DEF ReadKey, TypeOK
<1>7. CASE Acquire(u)
  BY <1>1, <1>7 DEF Acquire
<1>8. CASE Reuse(u)
  BY <1>1, <1>8 DEF Reuse
<1>9. CASE Connect(u)
  BY <1>1, <1>9 DEF Connect, NeedsConnection
<1>10. CASE ConnectFails(u)
  BY <1>1, <1>10 DEF ConnectFails, NeedsConnection, Release
<1>11. CASE Send(u)
  BY <1>1, <1>11 DEF Send
<1>12. ASSUME NEW unsent, Error(u, unsent), holder = u
       PROVE  /\ UNCHANGED <<key, ran>> /\ holder' # t
              /\ at'[t] = at[t] /\ late'[t] = late[t]
  <2>1. late'[t] = late[t]
    BY <1>12 DEF Error, TypeOK
  <2>2. at'[t] = at[t]
    BY <1>1, <1>12 DEF Error
  <2> QED BY <1>12, <2>1, <2>2 DEF Error, Release
<1>13. CASE Unsent(u) \/ Lost(u)
  BY <1>12, <1>13 DEF Unsent, Lost
<1>14. CASE Reply(u)
  BY <1>1, <1>14 DEF Reply, Release
<1> QED BY <1>2, <1>3, <1>4, <1>5, <1>6, <1>7, <1>8, <1>9, <1>10, <1>11, <1>13, <1>14
        DEF Step

\* A step keeps a caller's own side of the lock.
LEMMA CallerOwns ==
  ASSUME LockInv, NEW t \in Callers, Step(t)
  PROVE  Owns(t)' /\ DoomKnown'
<1> USE NobodyCalls DEF LockInv, Owns, DoomKnown, InRun, Runs
<1>0. \A phase \in Phases : Goes(t, phase) => at'[t] = phase
  BY GoesOn
<1>1. CASE List(t)
  BY <1>1, <1>0 DEF List, Phases, Open
<1>2. CASE Note(t)
  <2>1. Noted(t) \in {"skipped", "noted"}
    BY DEF Noted
  <2> QED BY <1>2, <1>0, <2>1 DEF Note, Phases, Drop, Open
<1>3. CASE NoteBusy(t)
  BY <1>3, <1>0 DEF NoteBusy, Phases, Open
<1>4. CASE Mark(t)
  <2>1. Noted(t) \in {"skipped", "noted"}
    BY DEF Noted
  <2> QED BY <1>4, <1>0, <2>1 DEF Mark, Phases, MarkPending, Open
<1>5. CASE ReadKey(t)
  BY <1>5, <1>0 DEF ReadKey, Phases, Open
<1>6. CASE Acquire(t)
  <2>1. at'[t] = "running" /\ holder' = t
    BY <1>6, <1>0 DEF Acquire, Phases
  <2>2. CASE Unwanted(t)
    BY <1>6, <2>1, <2>2 DEF Acquire, Drop, Open
  <2>3. CASE ~Unwanted(t)
    BY <1>6, <2>1, <2>3 DEF Acquire, Unwanted, Open
  <2> QED BY <2>2, <2>3
<1>7. CASE Reuse(t)
  BY <1>7, <1>0 DEF Reuse, Phases, Open
<1>8. CASE Connect(t)
  BY <1>8, <1>0 DEF Connect, NeedsConnection, Phases, Open, NoConn
<1>9. CASE ConnectFails(t)
  BY <1>9, <1>0 DEF ConnectFails, NeedsConnection, Phases, Release
<1>10. CASE Send(t)
  BY <1>10, <1>0 DEF Send, Phases, Open
<1>11. ASSUME NEW unsent, Error(t, unsent), holder = t PROVE Owns(t)' /\ DoomKnown'
  <2>1. CASE MayRetry(t, unsent)
    BY <1>11, <1>0, <2>1 DEF Error, Phases, Drop, Open
  <2>2. CASE ~MayRetry(t, unsent)
    BY <1>11, <1>0, <2>2 DEF Error, Phases, Drop, Open, Release
  <2> QED BY <2>1, <2>2
<1>12. CASE Unsent(t) \/ Lost(t)
  BY <1>11, <1>12 DEF Unsent, Lost
<1>13. CASE Reply(t)
  BY <1>13, <1>0 DEF Reply, Phases, Release, Open
<1> QED BY <1>1, <1>2, <1>3, <1>4, <1>5, <1>6, <1>7, <1>8, <1>9, <1>10, <1>12, <1>13
        DEF Step

\* A connection whose peer goes is still a connection, with its key.
LEMMA LinkChanges ==
  ASSUME TypeOK, conn.link # "none", NEW link \in Links \ {"none"},
         conn' = [conn EXCEPT !.link = link]
  PROVE  Open /\ Open' /\ conn'.key = conn.key
<1>1. conn \in [server : 0..MaxServers, key : 0..MaxSecrets, link : Links]
  BY DEF TypeOK
<1>2. conn'.link = link /\ conn'.key = conn.key
  BY <1>1
<1>3. NoConn.link = "none"
  BY DEF NoConn
<1> QED BY <1>2, <1>3 DEF Open, Links

\* Evictions wait for the lock or only mark; a server that goes takes no key.
LEMMA EnvironmentOwns ==
  ASSUME LockInv, Environment
  PROVE  (\A t \in Callers : Owns(t)') /\ DoomKnown'
<1> USE NobodyCalls DEF LockInv, Owns, DoomKnown, InRun
<1>1. CASE Evict
  BY <1>1 DEF Evict, Drop
<1>2. CASE EvictBusy
  BY <1>2 DEF EvictBusy, Open
<1>3. CASE EvictMark
  BY <1>3 DEF EvictMark, MarkPending, Open
<1>4. CASE Execute
  BY <1>4 DEF Execute, Open
<1>5. ASSUME NEW t \in Callers, NEW n \in 1..2, ExecuteLate(t, n)
      PROVE  (\A c \in Callers : Owns(c)') /\ DoomKnown'
  BY <1>5 DEF ExecuteLate, Open
<1>6. CASE ServerStops
  <2>1. (Open' <=> Open) /\ conn'.key = conn.key
    BY <1>6, LinkChanges DEF ServerStops, LockInv, Open, Links
  <2> QED BY <1>6, <2>1 DEF ServerStops
<1>7. CASE ServerStarts
  BY <1>7 DEF ServerStarts, Open
<1>8. CASE LinkCloses
  <2>1. (Open' <=> Open) /\ conn'.key = conn.key
    BY <1>8, LinkChanges DEF LinkCloses, LockInv, Open, Links
  <2> QED BY <1>8, <2>1 DEF LinkCloses
<1>9. CASE SecretChanges
  BY <1>9 DEF SecretChanges, Open
<1> QED BY <1>1, <1>2, <1>3, <1>4, <1>5, <1>6, <1>7, <1>8, <1>9 DEF Environment

LEMMA LockInvInit == Init => LockInv
BY TypeInit, NobodyCalls DEF Init, LockInv, Owns, DoomKnown, InRun

LEMMA LockInvNext == LockInv /\ [Next]_vars => LockInv'
<1> SUFFICES ASSUME LockInv, [Next]_vars PROVE LockInv'
  OBVIOUS
<1>1. ASSUME NEW u \in Callers, Step(u) PROVE LockInv'
  <2>1. TypeOK' /\ Owns(u)' /\ DoomKnown'
    BY <1>1, CallerTyped, CallerOwns DEF LockInv
  <2>2. ASSUME NEW t \in Callers \ {u} PROVE Owns(t)'
    <3>1. /\ at'[t] = at[t] /\ key'[t] = key[t] /\ (holder' = t <=> holder = t)
          /\ holder = t => UNCHANGED conn
      BY <1>1, OthersUntouched DEF LockInv
    <3> QED BY <3>1 DEF LockInv, Owns, InRun, Open
  <2> QED BY <2>1, <2>2 DEF LockInv
<1>2. CASE Environment
  BY <1>2, EnvironmentTyped, EnvironmentOwns DEF LockInv
<1>3. CASE UNCHANGED vars
  BY <1>3 DEF vars, LockInv, TypeOK, Owns, DoomKnown, Open
<1> QED BY <1>1, <1>2, <1>3 DEF Next

LEMMA AlwaysLockInv == Spec => []LockInv
BY LockInvInit, LockInvNext, PTL DEF Spec

\* From connecting to the reply a run has its connection to itself: evict and
\* the idle sweep never close it, and no second run begins on the slot.
THEOREM ConnectionsNotShared == Spec => []OwnConnection
<1>1. LockInv => OwnConnection
  BY DEF LockInv, Owns, InRun, OwnConnection
<1> QED BY <1>1, AlwaysLockInv, PTL

\* A run never uses a connection somebody asked to close before it began,
\* though the one who asked did not wait for the lock.
THEOREM EvictionsHonoured == Spec => []EvictionHonoured
<1>1. LockInv => EvictionHonoured
  BY NobodyCalls DEF LockInv, Owns, DoomKnown, InRun, EvictionHonoured
<1> QED BY <1>1, AlwaysLockInv, PTL

-----------------------------------------------------------------------------
(* How often a command may run                                             *)

\* A command's runs so far, and those that may yet follow from its packets.
Attempts(t, n) ==
  ran[t][n] + late[t][n]
    + (IF holder = t /\ run.next = n /\ wire = "unread" THEN 1 ELSE 0)

Limit(t) == IF Idempotent(t) THEN 2 ELSE 1

\* What a caller may have attempted of a command, from where it is.
Allowed(t, n) ==
  IF at[t] \in {"ok", "failed"} THEN Limit(t)
  ELSE IF holder # t \/ n > run.next THEN 0
  ELSE IF n < run.next THEN Limit(t)
  ELSE (IF Idempotent(t) /\ run.retried THEN 1 ELSE 0) + (IF at[t] = "sent" THEN 1 ELSE 0)

Counts(t) ==
  /\ \A n \in 1..2 : Attempts(t, n) <= Allowed(t, n)
  /\ Attempts(t, 2) > 0 => ran[t][1] > 0
  /\ holder = t =>
       /\ run.next \in Commands(t)
       /\ wire # "quiet" => at[t] = "sent"
       /\ wire = "answered" => ran[t][run.next] > 0
       /\ run.next = 2 => ran[t][1] > 0
  /\ at[t] = "ok" => \A n \in Commands(t) : ran[t][n] > 0

\* Between two runs nothing is left of the first.
FreshRun == holder = Nobody => run = NewRun /\ wire = "quiet"

CountInv == LockInv /\ (\A t \in Callers : Counts(t)) /\ FreshRun

LEMMA CountTypes ==
  ASSUME TypeOK
  PROVE  /\ run \in [next : 1..2, reused : BOOLEAN, retried : BOOLEAN]
         /\ run.next \in 1..2 /\ run.retried \in BOOLEAN
         /\ \A t \in Callers, n \in 1..2 : ran[t][n] \in Nat /\ late[t][n] \in Nat
         /\ \A t \in Callers : /\ late[t] \in [1..2 -> Nat] /\ ran[t] \in [1..2 -> Nat]
                              /\ Commands(t) \subseteq 1..2 /\ 1 \in Commands(t)
<1>1. /\ run \in [next : 1..2, reused : BOOLEAN, retried : BOOLEAN]
      /\ late \in [Callers -> [1..2 -> Nat]] /\ ran \in [Callers -> [1..2 -> Nat]]
  BY DEF TypeOK
<1>2. run.next \in 1..2 /\ run.retried \in BOOLEAN
  BY <1>1
<1>3. \A t \in Callers : /\ late[t] \in [1..2 -> Nat] /\ ran[t] \in [1..2 -> Nat]
                         /\ Commands(t) \subseteq 1..2 /\ 1 \in Commands(t)
  BY <1>1 DEF Commands
<1> QED BY <1>1, <1>2, <1>3

\* The limit is never below what a run may have attempted.
LEMMA AllowedIsLimited ==
  ASSUME TypeOK, NEW t \in Callers, NEW n \in 1..2
  PROVE  Allowed(t, n) \in 0..2 /\ Limit(t) \in 1..2 /\ Allowed(t, n) <= Limit(t)
BY CountTypes DEF Allowed, Limit

\* A caller whose own part of the state a step leaves alone counts as before.
LEMMA CountsKept ==
  ASSUME NEW t \in Callers, Counts(t),
         at'[t] = at[t], ran'[t] = ran[t], late'[t] = late[t],
         holder' = t <=> holder = t,
         holder = t => UNCHANGED <<run, wire>>
  PROVE  Counts(t)'
BY DEF Counts, Attempts, Allowed, Limit

\* So does one that is not in a run, has not been, and begins none.
LEMMA CountsBefore ==
  ASSUME LockInv, NEW t \in Callers, Counts(t),
         UNCHANGED <<ran, late, holder, run, wire>>,
         at[t] \in {"new", "listed", "marking", "noted"},
         at'[t] \in {"listed", "marking", "noted", "queued", "skipped"}
  PROVE  Counts(t)'
<1>1. holder # t
  BY DEF LockInv, Owns, InRun
<1> QED BY <1>1 DEF Counts, Attempts, Allowed, Limit

\* One that ends its run having attempted no more than it was allowed.
LEMMA CountsAtEnd ==
  ASSUME TypeOK, NEW t \in Callers, Counts(t), holder' # t,
         at'[t] \in {"ok", "failed"}, UNCHANGED ran,
         \A n \in 1..2 : late'[t][n] \in Nat /\ ran[t][n] + late'[t][n] <= Attempts(t, n),
         at'[t] = "ok" => \A n \in Commands(t) : ran[t][n] > 0
  PROVE  Counts(t)'
<1>1. \A n \in 1..2 : Attempts(t, n)' = ran[t][n] + late'[t][n]
  BY CountTypes DEF Attempts
<1>2. \A n \in 1..2 : Allowed(t, n)' = Limit(t)
  BY DEF Allowed, Limit
<1>3. \A n \in 1..2 : Attempts(t, n) \in Nat
  BY CountTypes DEF Attempts
<1>4. \A n \in 1..2 : Attempts(t, n)' <= Allowed(t, n)'
  BY <1>1, <1>2, <1>3, AllowedIsLimited, CountTypes DEF Counts
<1>5. Attempts(t, 2)' > 0 => ran[t][1] > 0
  BY <1>1, <1>3, CountTypes DEF Counts
<1> QED BY <1>4, <1>5 DEF Counts

LEMMA CallerCounts ==
  ASSUME CountInv, NEW t \in Callers, Step(t)
  PROVE  Counts(t)' /\ FreshRun'
<1> USE NobodyCalls DEF Runs
<1>0. /\ TypeOK /\ Owns(t) /\ Counts(t) /\ FreshRun /\ LockInv
      /\ \A phase \in Phases : Goes(t, phase) => at'[t] = phase
  BY GoesOn DEF CountInv, LockInv
<1>1. CASE List(t)
  BY <1>0, <1>1, CountsBefore DEF List, Phases, FreshRun
<1>2. CASE Note(t) \/ Mark(t)
  <2>1. Noted(t) \in {"skipped", "noted"}
    BY DEF Noted
  <2> QED BY <1>0, <1>2, <2>1, CountsBefore DEF Note, Mark, Phases, FreshRun
<1>3. CASE NoteBusy(t)
  BY <1>0, <1>3, CountsBefore DEF NoteBusy, Phases, FreshRun
<1>4. CASE ReadKey(t)
  BY <1>0, <1>4, CountsBefore DEF ReadKey, Phases, FreshRun
<1>5. CASE Acquire(t)
  <2>1. /\ at'[t] = "running" /\ holder' = t /\ holder = Nobody /\ at[t] = "queued"
        /\ UNCHANGED <<run, wire, ran, late>> /\ run = NewRun /\ wire = "quiet"
    BY <1>0, <1>5 DEF Acquire, FreshRun, Phases
  <2>2. \A n \in 1..2 : Attempts(t, n)' = Attempts(t, n) /\ Allowed(t, n) = 0
    BY <2>1 DEF Attempts, Allowed
  <2>3. \A n \in 1..2 : Allowed(t, n)' = 0
    BY <2>1 DEF Allowed, NewRun, Idempotent
  <2> QED BY <1>0, <2>1, <2>2, <2>3, CountTypes DEF Counts, FreshRun, NewRun
<1>6. CASE Reuse(t) \/ Connect(t)
  <2>1. /\ at[t] = "running" /\ at'[t] = "ready" /\ holder = t /\ holder' = t
        /\ run'.next = run.next /\ run'.retried = run.retried
        /\ UNCHANGED <<wire, ran, late>>
    BY <1>0, <1>6, CountTypes DEF Reuse, Connect, NeedsConnection, Phases
  <2>2. \A n \in 1..2 : Attempts(t, n)' = Attempts(t, n) /\ Allowed(t, n)' = Allowed(t, n)
    BY <2>1 DEF Attempts, Allowed, Limit
  <2> QED BY <1>0, <2>1, <2>2 DEF Counts, FreshRun
<1>7. CASE ConnectFails(t)
  <2>1. /\ at'[t] = "failed" /\ holder' = Nobody /\ UNCHANGED <<ran, late>> /\ FreshRun'
    BY <1>0, <1>7 DEF ConnectFails, Phases, Release, FreshRun
  <2>2. \A n \in 1..2 : late'[t][n] \in Nat /\ ran[t][n] + late'[t][n] <= Attempts(t, n)
    BY <1>0, <2>1, CountTypes DEF Attempts
  <2> QED BY <1>0, <2>1, <2>2, CountsAtEnd
<1>8. CASE Send(t)
  <2>1. /\ at[t] = "ready" /\ at'[t] = "sent" /\ holder = t /\ holder' = t
        /\ wire' \in {"unread", "quiet"} /\ UNCHANGED <<run, ran, late>>
    BY <1>0, <1>8 DEF Send, Phases
  <2>2. wire = "quiet"
    BY <1>0, <2>1 DEF Counts, TypeOK
  <2>3. \A n \in 1..2 :
          /\ n = run.next => Attempts(t, n)' <= Attempts(t, n) + 1
                             /\ Allowed(t, n)' = Allowed(t, n) + 1
          /\ n # run.next => Attempts(t, n)' = Attempts(t, n)
                             /\ Allowed(t, n)' = Allowed(t, n)
    BY <1>0, <2>1, <2>2, CountTypes DEF Attempts, Allowed, Limit
  <2>4. \A n \in 1..2 : /\ Attempts(t, n) \in Nat /\ Attempts(t, n)' \in Nat
                        /\ Allowed(t, n) \in 0..2
    BY <1>0, <2>1, CountTypes, AllowedIsLimited DEF Attempts
  <2>5. \A n \in 1..2 : Attempts(t, n)' <= Allowed(t, n)'
    BY <1>0, <2>3, <2>4 DEF Counts
  <2>6. Attempts(t, 2)' > 0 => ran[t][1] > 0
    BY <1>0, <2>1, <2>3, <2>4, CountTypes DEF Counts
  <2> QED BY <1>0, <2>1, <2>5, <2>6 DEF Counts, FreshRun
<1>9. ASSUME NEW unsent \in BOOLEAN, Error(t, unsent), holder = t,
             at[t] \in {"ready", "sent"}, unsent <=> at[t] = "ready"
      PROVE  Counts(t)' /\ FreshRun'
  <2>1. UNCHANGED ran
    BY <1>9 DEF Error
  <2>2. \A n \in 1..2 : /\ late'[t][n] \in Nat
                        /\ ran[t][n] + late'[t][n] = Attempts(t, n)
    <3>1. CASE wire = "unread"
      <4>1. /\ late'[t][run.next] = late[t][run.next] + 1
            /\ \A n \in 1..2 \ {run.next} : late'[t][n] = late[t][n]
        BY <1>0, <1>9, <3>1, CountTypes DEF Error, TypeOK
      <4> QED BY <1>0, <1>9, <3>1, <4>1, CountTypes DEF Attempts
    <3>2. CASE wire # "unread"
      BY <1>0, <1>9, <3>2, CountTypes DEF Error, Attempts
    <3> QED BY <3>1, <3>2
  <2>3. \A n \in 1..2 : Attempts(t, n) \in Nat
    BY <1>0, CountTypes DEF Attempts
  <2>4. CASE MayRetry(t, unsent)
    <3>1. /\ at'[t] = "running" /\ holder' = t /\ wire' = "quiet"
          /\ run'.next = run.next /\ run'.retried = TRUE /\ run.retried = FALSE
          /\ at[t] = "ready" \/ Idempotent(t)
      BY <1>0, <1>9, <2>4, CountTypes DEF Error, MayRetry, Phases
    <3>2. \A n \in 1..2 : Attempts(t, n)' = Attempts(t, n)
      BY <2>1, <2>2, <3>1, <1>0, CountTypes DEF Attempts
    <3>3. \A n \in 1..2 : Allowed(t, n) <= Allowed(t, n)'
      BY <1>0, <1>9, <3>1, CountTypes DEF Allowed, Limit
    <3>4. \A n \in 1..2 : Allowed(t, n) \in 0..2 /\ Allowed(t, n)' \in 0..2
      BY <1>0, <1>9, <3>1 DEF Allowed, Limit
    <3> QED BY <1>0, <1>9, <2>1, <2>3, <3>1, <3>2, <3>3, <3>4 DEF Counts, FreshRun
  <2>5. CASE ~MayRetry(t, unsent)
    <3>1. at'[t] = "failed" /\ holder' = Nobody /\ FreshRun'
      BY <1>0, <1>9, <2>5 DEF Error, Phases, Release, FreshRun
    <3> QED BY <1>0, <2>1, <2>2, <2>3, <3>1, CountsAtEnd
  <2> QED BY <2>4, <2>5
<1>10. CASE Unsent(t) \/ Lost(t)
  BY <1>9, <1>10 DEF Unsent, Lost
<1>11. CASE Reply(t)
  <2>1. /\ holder = t /\ at[t] = "sent" /\ wire = "answered" /\ UNCHANGED <<ran, late>>
    BY <1>11 DEF Reply
  <2>2. /\ ran[t][run.next] > 0 /\ run.next \in Commands(t)
        /\ run.next = 2 => ran[t][1] > 0
    BY <1>0, <2>1 DEF Counts
  <2>3. \A n \in 1..2 : late'[t][n] \in Nat /\ ran[t][n] + late'[t][n] = Attempts(t, n)
    BY <1>0, <2>1, CountTypes DEF Attempts
  <2>4. \A n \in 1..2 : Attempts(t, n) \in Nat
    BY <1>0, CountTypes DEF Attempts
  <2>5. CASE Last(t)
    <3>1. at'[t] = "ok" /\ holder' = Nobody /\ FreshRun'
      BY <1>0, <1>11, <2>5 DEF Reply, Phases, Release, FreshRun
    <3>2. \A n \in Commands(t) : n = 1 \/ n = run.next
      BY <1>0, <2>5, CountTypes DEF Last, Commands
    <3>3. \A n \in Commands(t) : ran[t][n] > 0
      BY <1>0, <2>2, <3>2, CountTypes
    <3> QED BY <1>0, <2>1, <2>3, <2>4, <3>1, <3>3, CountsAtEnd
  <2>6. CASE ~Last(t)
    <3>1. run.next = 1 /\ t \in Batches
      BY <1>0, <2>6, CountTypes DEF Last, Commands
    <3>2. /\ at'[t] = "running" /\ holder' = t /\ wire' = "quiet" /\ run'.next = 2
      BY <1>0, <1>11, <2>6, <3>1, CountTypes DEF Reply, Phases
    <3>3. Attempts(t, 1) <= Limit(t) /\ Attempts(t, 2) <= 0
      <4>1. Attempts(t, 1) <= Allowed(t, 1) /\ Attempts(t, 2) <= Allowed(t, 2)
        BY <1>0 DEF Counts
      <4>2. Allowed(t, 2) = 0
        BY <2>1, <3>1 DEF Allowed
      <4> QED BY <1>0, <4>1, <4>2, <2>4, AllowedIsLimited
    <3>4. \A n \in 1..2 : Attempts(t, n)' = Attempts(t, n)
      BY <2>1, <2>3, <3>2, <1>0, CountTypes DEF Attempts
    <3>5. /\ Allowed(t, 1)' = Limit(t)
          /\ Allowed(t, 2)' \in {0, 1}
      BY <3>1, <3>2 DEF Allowed, Limit
    <3>6. \A n \in 1..2 : Attempts(t, n)' <= Allowed(t, n)'
      BY <2>4, <3>3, <3>4, <3>5
    <3>7. 2 \in Commands(t)
      BY <3>1 DEF Commands
    <3> QED BY <2>1, <2>2, <3>1, <3>2, <3>6, <3>7 DEF Counts, FreshRun
  <2> QED BY <2>5, <2>6
<1> QED BY <1>1, <1>2, <1>3, <1>4, <1>5, <1>6, <1>7, <1>8, <1>10, <1>11 DEF Step

\* A packet read turns one attempt into one run, of its own command.
LEMMA ExecuteCounts ==
  ASSUME CountInv, Execute, NEW t \in Callers
  PROVE  Counts(t)'
<1>0. TypeOK /\ Counts(t)
  BY DEF CountInv, LockInv
<1>1. /\ wire = "unread" /\ wire' = "answered"
      /\ UNCHANGED <<at, holder, run, late>>
      /\ ran' = [ran EXCEPT ![holder][run.next] = @ + 1]
  BY DEF Execute, Counted
<1>2. CASE holder = t
  <2>1. /\ ran'[t][run.next] = ran[t][run.next] + 1
        /\ \A n \in 1..2 \ {run.next} : ran'[t][n] = ran[t][n]
    BY <1>0, <1>1, <1>2, CountTypes DEF TypeOK
  <2>2. \A n \in 1..2 : /\ Attempts(t, n)' = Attempts(t, n)
                        /\ Allowed(t, n)' = Allowed(t, n)
                        /\ ran'[t][n] \in Nat /\ ran'[t][n] >= ran[t][n]
    BY <1>0, <1>1, <1>2, <2>1, CountTypes DEF Attempts, Allowed, Limit
  <2> QED BY <1>0, <1>1, <1>2, <2>1, <2>2, CountTypes DEF Counts
<1>3. CASE holder # t
  <2>1. ran'[t] = ran[t]
    BY <1>0, <1>1, <1>3 DEF TypeOK
  <2> QED BY <1>0, <1>1, <1>3, <2>1, CountsKept
<1> QED BY <1>2, <1>3

\* So does one that is read after its caller gave up.
LEMMA ExecuteLateCounts ==
  ASSUME CountInv, NEW u \in Callers, NEW m \in 1..2, ExecuteLate(u, m), NEW t \in Callers
  PROVE  Counts(t)'
<1>0. TypeOK /\ Counts(t)
  BY DEF CountInv, LockInv
<1>1. /\ UNCHANGED <<at, holder, run, wire>> /\ late[u][m] > 0
      /\ late' = [late EXCEPT ![u][m] = @ - 1] /\ ran' = [ran EXCEPT ![u][m] = @ + 1]
  BY DEF ExecuteLate, Counted
<1>2. CASE u = t
  <2>1. /\ ran'[t][m] = ran[t][m] + 1 /\ late'[t][m] = late[t][m] - 1
        /\ \A n \in 1..2 \ {m} : ran'[t][n] = ran[t][n] /\ late'[t][n] = late[t][n]
    BY <1>0, <1>1, <1>2, CountTypes DEF TypeOK
  <2>2. \A n \in 1..2 : /\ Attempts(t, n)' = Attempts(t, n)
                        /\ Allowed(t, n)' = Allowed(t, n)
                        /\ ran'[t][n] \in Nat /\ ran'[t][n] >= ran[t][n]
    BY <1>0, <1>1, <2>1, CountTypes DEF Attempts, Allowed, Limit
  <2> QED BY <1>0, <1>1, <2>2, CountTypes DEF Counts
<1>3. CASE u # t
  <2>1. ran'[t] = ran[t] /\ late'[t] = late[t]
    BY <1>0, <1>1, <1>3 DEF TypeOK
  <2> QED BY <1>0, <1>1, <2>1, CountsKept
<1> QED BY <1>2, <1>3

\* What a server takes with it is not attempted any more.
LEMMA ServerStopsCounts ==
  ASSUME CountInv, ServerStops, NEW t \in Callers
  PROVE  Counts(t)'
<1>0. TypeOK /\ Counts(t)
  BY DEF CountInv, LockInv
<1>1. /\ UNCHANGED <<at, holder, run, ran>> /\ wire' \in {wire, "quiet"}
      /\ wire' # "unread" /\ \A n \in 1..2 : late'[t][n] = 0
  BY <1>0 DEF ServerStops, TypeOK
<1>2. \A n \in 1..2 : /\ Attempts(t, n)' \in Nat /\ Attempts(t, n) \in Nat
                      /\ Attempts(t, n)' <= Attempts(t, n)
                      /\ Allowed(t, n)' = Allowed(t, n) /\ Allowed(t, n) \in 0..2
  BY <1>0, <1>1, CountTypes, AllowedIsLimited DEF Attempts, Allowed, Limit
<1>3. \A n \in 1..2 : Attempts(t, n)' <= Allowed(t, n)'
  BY <1>0, <1>2 DEF Counts
<1>4. Attempts(t, 2)' > 0 => Attempts(t, 2) > 0
  BY <1>2
<1> QED BY <1>0, <1>1, <1>3, <1>4 DEF Counts

LEMMA EnvironmentCounts ==
  ASSUME CountInv, Environment
  PROVE  (\A t \in Callers : Counts(t)') /\ FreshRun'
<1>0. /\ \A t \in Callers : Counts(t)
      /\ FreshRun /\ TypeOK
  BY DEF CountInv, LockInv
<1>1. ASSUME UNCHANGED <<at, ran, late, holder, run, wire>>
      PROVE  (\A t \in Callers : Counts(t)') /\ FreshRun'
  BY <1>0, <1>1, CountsKept DEF FreshRun
<1>2. CASE Evict \/ EvictBusy \/ EvictMark \/ ServerStarts \/ LinkCloses \/ SecretChanges
  BY <1>1, <1>2 DEF Evict, EvictBusy, EvictMark, ServerStarts, LinkCloses, SecretChanges
<1>3. CASE Execute
  BY <1>0, <1>3, ExecuteCounts DEF Execute, FreshRun
<1>4. ASSUME NEW u \in Callers, NEW m \in 1..2, ExecuteLate(u, m)
      PROVE  (\A t \in Callers : Counts(t)') /\ FreshRun'
  BY <1>0, <1>4, ExecuteLateCounts DEF ExecuteLate, FreshRun
<1>5. CASE ServerStops
  BY <1>0, <1>5, ServerStopsCounts DEF ServerStops, FreshRun
<1> QED BY <1>2, <1>3, <1>4, <1>5 DEF Environment

LEMMA CountInvInit == Init => CountInv
<1> SUFFICES ASSUME Init PROVE CountInv
  OBVIOUS
<1>1. ASSUME NEW t \in Callers PROVE Counts(t)
  <2>1. /\ at[t] = "new" /\ holder # t /\ wire = "quiet"
        /\ \A n \in 1..2 : ran[t][n] = 0 /\ late[t][n] = 0
    BY NobodyCalls DEF Init
  <2> QED BY <2>1 DEF Counts, Attempts, Allowed
<1>2. FreshRun
  BY DEF Init, FreshRun
<1> QED BY <1>1, <1>2, LockInvInit DEF CountInv

LEMMA CountInvNext == CountInv /\ [Next]_vars => CountInv'
<1> SUFFICES ASSUME CountInv, [Next]_vars PROVE CountInv'
  OBVIOUS
<1>0. LockInv'
  BY LockInvNext DEF CountInv
<1>1. ASSUME NEW u \in Callers, Step(u) PROVE CountInv'
  <2>1. Counts(u)' /\ FreshRun'
    BY <1>1, CallerCounts
  <2>2. ASSUME NEW t \in Callers \ {u} PROVE Counts(t)'
    <3>1. /\ at'[t] = at[t] /\ ran'[t] = ran[t] /\ late'[t] = late[t]
          /\ (holder' = t <=> holder = t) /\ (holder = t => UNCHANGED <<run, wire>>)
      BY <1>1, OthersUntouched DEF CountInv, LockInv
    <3> QED BY <3>1, CountsKept DEF CountInv
  <2> QED BY <1>0, <2>1, <2>2 DEF CountInv
<1>2. CASE Environment
  BY <1>0, <1>2, EnvironmentCounts DEF CountInv
<1>3. CASE UNCHANGED vars
  <2>1. UNCHANGED <<at, ran, late, holder, run, wire>>
    BY <1>3 DEF vars
  <2> QED BY <1>0, <2>1, CountsKept DEF CountInv, FreshRun
<1> QED BY <1>1, <1>2, <1>3 DEF Next

LEMMA AlwaysCountInv == Spec => []CountInv
BY CountInvInit, CountInvNext, PTL DEF Spec

\* However often a run fails, is retried, loses its connection or is answered
\* too late, no server runs a command more than once, the read-only list twice.
THEOREM NeverRepeated == Spec => []RunsAtMostOnce
<1>1. ASSUME CountInv, NEW t \in Callers, NEW n \in 1..2
      PROVE  ran[t][n] <= (IF Idempotent(t) THEN 2 ELSE 1)
  <2>1. TypeOK /\ Attempts(t, n) <= Allowed(t, n)
    BY <1>1 DEF CountInv, LockInv, Counts
  <2>2. Attempts(t, n) \in Nat /\ ran[t][n] \in Nat /\ ran[t][n] <= Attempts(t, n)
    BY <2>1, CountTypes DEF Attempts
  <2> QED BY <2>1, <2>2, AllowedIsLimited DEF Limit
<1>2. CountInv => RunsAtMostOnce
  BY <1>1 DEF RunsAtMostOnce
<1> QED BY <1>2, AlwaysCountInv, PTL

\* A batch's second command runs only after its first, and a call that reports
\* success had every one of its commands run.
THEOREM BatchesInOrder == Spec => []BatchInOrder
<1>1. ASSUME CountInv, NEW t \in Callers
      PROVE  /\ ran[t][2] > 0 => ran[t][1] > 0
             /\ at[t] = "ok" => \A n \in Commands(t) : ran[t][n] > 0
  <2>1. TypeOK /\ Counts(t)
    BY <1>1 DEF CountInv, LockInv
  <2>2. ran[t][2] > 0 => Attempts(t, 2) > 0
    BY <2>1, CountTypes DEF Attempts
  <2> QED BY <2>1, <2>2 DEF Counts
<1>2. CountInv => BatchInOrder
  BY <1>1 DEF BatchInOrder
<1> QED BY <1>2, AlwaysCountInv, PTL

=============================================================================

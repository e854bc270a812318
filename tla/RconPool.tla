------------------------------ MODULE RconPool ------------------------------
(***************************************************************************)
(* One world's slot of the RCON connection pool (rcon.py) and the threads  *)
(* that share it: web requests that list the pods, note the server they    *)
(* saw and run commands, and whoever upgrades the release and evicts.      *)
(*                                                                         *)
(* A slot's lock is held for a whole run, so a run shares its steps with   *)
(* nobody; but eviction never waits for the lock, the slot's mark and its  *)
(* target are written without it, and the server comes, goes and answers   *)
(* late at any point of a run.                                             *)
(***************************************************************************)
EXTENDS Naturals, FiniteSets

CONSTANTS
  Polls,       \* status polls: one "list", which may be sent twice
  Consoles,    \* console input: one command
  Batches,     \* whitelist edits, or save-off and flush: two commands
  MaxServers,  \* bound: server pods over time
  MaxSecrets,  \* bound: RCON passwords over time
  Nobody       \* no caller

Callers == Polls \cup Consoles \cup Batches

ASSUME CallersAssumption ==
  /\ Polls \cap Consoles = {} /\ Polls \cap Batches = {} /\ Consoles \cap Batches = {}
  /\ Nobody \notin Callers
ASSUME BoundsAssumption == MaxServers \in Nat /\ MaxSecrets \in Nat \ {0}

VARIABLES
  server,   \* the ready server pod, numbered in order; 0 when there is none
  started,  \* server pods so far
  accepts,  \* the password it was started with
  secret,   \* the password in the Secret
  cached,   \* _secret_cache; 0 when empty
  conn,     \* slot.client and slot.key
  pending,  \* slot.evict_pending
  doomed,   \* history: when an eviction asked to close this connection
  target,   \* slot.target; 0 for None
  holder,   \* who holds slot.lock
  run,      \* the locals of its run
  wire,     \* its outstanding command
  at,       \* where each caller is
  seen,     \* the server pod it listed
  key,      \* the password it read
  evictor,  \* where the thread that upgraded the release is, in evict
  late,     \* commands given up by their caller that the server may still run
  ran       \* how often each command of each caller ran

slot == <<conn, pending, doomed>>
cluster == <<server, started, accepts, secret>>
callers == <<at, seen, key>>
vars == <<cluster, cached, slot, target, holder, run, wire, callers, evictor, late, ran>>

-----------------------------------------------------------------------------

Commands(t) == IF t \in Batches THEN {1, 2} ELSE {1}

Idempotent(t) == t \in Polls

Phases == {"new", "listed", "marking", "noted", "queued", "running", "ready", "sent",
           "ok", "skipped", "failed"}

NewRun == [next |-> 1, reused |-> FALSE, retried |-> FALSE]

NoConn == [server |-> 0, key |-> 0, link |-> "none"]

\* A peer that closed its end is "closed", which alive() sees; one that
\* vanished without a word is "gone", which it does not.
Links == {"none", "up", "closed", "gone"}

TypeOK ==
  /\ server \in 0..MaxServers /\ started \in 0..MaxServers
  /\ accepts \in 0..MaxSecrets /\ secret \in 1..MaxSecrets /\ cached \in 0..MaxSecrets
  /\ conn \in [server : 0..MaxServers, key : 0..MaxSecrets, link : Links]
  /\ pending \in BOOLEAN /\ doomed \in {"no", "in use", "before"}
  /\ target \in 0..MaxServers
  /\ holder \in Callers \cup {Nobody}
  /\ run \in [next : 1..2, reused : BOOLEAN, retried : BOOLEAN]
  /\ wire \in {"quiet", "unread", "answered"}
  /\ at \in [Callers -> Phases]
  /\ seen \in [Callers -> 0..MaxServers] /\ key \in [Callers -> 0..MaxSecrets]
  /\ evictor \in {"idle", "marking"}
  /\ late \in [Callers -> [1..2 -> Nat]] /\ ran \in [Callers -> [1..2 -> Nat]]

Open == conn # NoConn

Alive == conn.link \in {"up", "gone"}

Runs(t, phase) == holder = t /\ at[t] = phase

Goes(t, phase) == at' = [at EXCEPT ![t] = phase]

\* _drop
Drop == conn' = NoConn /\ pending' = FALSE /\ doomed' = "no"

\* evict, once it found the lock taken: the mark is for the connection of now.
MarkPending ==
  /\ pending' = TRUE
  /\ doomed' = IF ~Open THEN doomed
               ELSE IF holder = Nobody THEN "before"
               ELSE IF doomed = "no" THEN "in use" ELSE doomed
  /\ UNCHANGED conn

\* The run ends and the lock is free.
Release ==
  /\ holder' = Nobody /\ run' = NewRun /\ wire' = "quiet"

-----------------------------------------------------------------------------
(* A caller, up to the slot's lock *)

\* list_server_pods
List(t) ==
  /\ at[t] = "new"
  /\ Goes(t, "listed") /\ seen' = [seen EXCEPT ![t] = server]
  /\ UNCHANGED <<cluster, cached, slot, target, holder, run, wire, key, evictor, late, ran>>

\* Only the console sends whatever it saw.
Noted(t) == IF seen[t] = 0 /\ t \notin Consoles THEN "skipped" ELSE "noted"

Changed(t) == seen[t] = 0 \/ (target # 0 /\ target # seen[t])

\* note_target, with evict when it finds the lock free
Note(t) ==
  /\ at[t] = "listed"
  /\ \/ Changed(t) /\ holder = Nobody /\ Drop
     \/ ~Changed(t) /\ UNCHANGED slot
  /\ target' = seen[t]
  /\ Goes(t, Noted(t))
  /\ UNCHANGED <<cluster, cached, holder, run, wire, seen, key, evictor, late, ran>>

\* Mutant of NoteBusy: evict closes the connection without the lock.
NoteAtOnce(t) ==
  /\ at[t] = "listed" /\ Changed(t) /\ holder # Nobody
  /\ Goes(t, "marking") /\ Drop
  /\ UNCHANGED <<cluster, cached, target, holder, run, wire, seen, key, evictor, late, ran>>

NoteBusy(t) ==
  /\ at[t] = "listed" /\ Changed(t) /\ holder # Nobody
  /\ Goes(t, "marking")
  /\ UNCHANGED <<cluster, cached, slot, target, holder, run, wire, seen, key, evictor, late,
                 ran>>

Mark(t) ==
  /\ at[t] = "marking"
  /\ MarkPending
  /\ target' = seen[t]
  /\ Goes(t, Noted(t))
  /\ UNCHANGED <<cluster, cached, holder, run, wire, seen, key, evictor, late, ran>>

\* _rcon_password
ReadKey(t) ==
  /\ at[t] = "noted"
  /\ cached' = IF cached = 0 THEN secret ELSE cached
  /\ key' = [key EXCEPT ![t] = cached']
  /\ Goes(t, "queued")
  /\ UNCHANGED <<cluster, slot, target, holder, run, wire, seen, evictor, late, ran>>

-----------------------------------------------------------------------------
(* run *)

\* Mutant of Unwanted: only the mark is looked at.
UnwantedMarked(t) == pending

\* Mutant of Unwanted: only the key is looked at.
UnwantedRekeyed(t) == Open /\ conn.key # key[t]

Unwanted(t) == pending \/ (Open /\ conn.key # key[t])

\* Mutant of Acquire: the lock is not taken.
AcquireUnlocked(t) ==
  /\ at[t] = "queued"
  /\ holder' = t
  /\ IF Unwanted(t) THEN Drop ELSE UNCHANGED slot
  /\ Goes(t, "running")
  /\ UNCHANGED <<cluster, cached, target, run, wire, seen, key, evictor, late, ran>>

Acquire(t) ==
  /\ at[t] = "queued" /\ holder = Nobody
  /\ holder' = t
  /\ IF Unwanted(t) THEN Drop ELSE UNCHANGED slot
  /\ Goes(t, "running")
  /\ UNCHANGED <<cluster, cached, target, run, wire, seen, key, evictor, late, ran>>

Reuse(t) ==
  /\ Runs(t, "running") /\ Open /\ Alive
  /\ Goes(t, "ready") /\ run' = [run EXCEPT !.reused = TRUE]
  /\ UNCHANGED <<cluster, cached, slot, target, holder, wire, seen, key, evictor, late, ran>>

\* No connection, or a dead one, which is dropped first.
NeedsConnection(t) == Runs(t, "running") /\ ~(Open /\ Alive)

Connect(t) ==
  /\ NeedsConnection(t)
  /\ server # 0 /\ accepts = key[t]
  /\ conn' = [server |-> server, key |-> key[t], link |-> "up"]
  /\ pending' = (pending /\ ~Open) /\ doomed' = "no"
  /\ Goes(t, "ready") /\ run' = [run EXCEPT !.reused = FALSE]
  /\ UNCHANGED <<cluster, cached, target, holder, wire, seen, key, evictor, late, ran>>

\* Mutant of ConnectFails: the error leaves the slot locked.
ConnectFailsLocked(t) ==
  /\ NeedsConnection(t)
  /\ conn' = NoConn /\ Goes(t, "failed")
  /\ UNCHANGED <<cluster, cached, pending, doomed, target, holder, run, wire, seen, key,
                 evictor, late, ran>>

\* An authentication failure forgets the cached password.
ConnectFails(t) ==
  /\ NeedsConnection(t)
  /\ conn' = NoConn /\ pending' = (pending /\ ~Open) /\ doomed' = "no"
  /\ cached' = IF server # 0 /\ accepts # key[t] THEN 0 ELSE cached
  /\ Goes(t, "failed") /\ Release
  /\ UNCHANGED <<cluster, target, seen, key, evictor, late, ran>>

\* The packet is written; a server at the other end will read it.
Send(t) ==
  /\ Runs(t, "ready")
  /\ wire' = IF conn.link = "up" THEN "unread" ELSE "quiet"
  /\ Goes(t, "sent")
  /\ UNCHANGED <<cluster, cached, slot, target, holder, run, seen, key, evictor, late, ran>>

\* Mutant of MayRetry: any error is retried on a new connection.
MayRetryAlways(t, unsent) == run.reused /\ ~run.retried

MayRetry(t, unsent) == run.reused /\ ~run.retried /\ (unsent \/ Idempotent(t))

\* An error drops the connection; the server may still read what was sent.
Error(t, unsent) ==
  /\ Drop
  /\ late' = IF wire = "unread" THEN [late EXCEPT ![t][run.next] = @ + 1] ELSE late
  /\ IF MayRetry(t, unsent)
     THEN /\ Goes(t, "running") /\ run' = [run EXCEPT !.retried = TRUE]
          /\ wire' = "quiet" /\ UNCHANGED holder
     ELSE Goes(t, "failed") /\ Release
  /\ UNCHANGED <<cluster, cached, target, seen, key, evictor, ran>>

\* RconUnsentError: the packet could not be written.
Unsent(t) == Runs(t, "ready") /\ Error(t, TRUE)

\* Timeout or end of file, after the packet was written.
Lost(t) == Runs(t, "sent") /\ Error(t, FALSE)

\* Mutant of Last: the loop runs once too often.
LastOffByOne(t) == run.next \notin Commands(t)

Last(t) == run.next + 1 \notin Commands(t)

\* Mutant of Reply: a reply ends the run.
ReplyEndsRun(t) ==
  /\ Runs(t, "sent") /\ wire = "answered"
  /\ Goes(t, "ok") /\ Release
  /\ doomed' = IF doomed = "no" THEN "no" ELSE "before"
  /\ UNCHANGED <<cluster, cached, conn, pending, target, seen, key, evictor, late, ran>>

Reply(t) ==
  /\ Runs(t, "sent") /\ wire = "answered"
  /\ IF Last(t)
     THEN /\ Goes(t, "ok") /\ Release
          /\ doomed' = IF doomed = "no" THEN "no" ELSE "before"
     ELSE /\ Goes(t, "running") /\ run' = [run EXCEPT !.next = @ + 1]
          /\ wire' = "quiet" /\ UNCHANGED <<holder, doomed>>
  /\ UNCHANGED <<cluster, cached, conn, pending, target, seen, key, evictor, late, ran>>

-----------------------------------------------------------------------------
(* Evictions, the idle sweep, and the server *)

\* evict after helm upgrade or in a teardown; sweep_idle and close_all.
Evict ==
  /\ evictor = "idle" /\ holder = Nobody /\ Open
  /\ Drop
  /\ UNCHANGED <<cluster, cached, target, holder, run, wire, callers, evictor, late, ran>>

EvictBusy ==
  /\ evictor = "idle" /\ holder # Nobody
  /\ evictor' = "marking"
  /\ UNCHANGED <<cluster, cached, slot, target, holder, run, wire, callers, late, ran>>

EvictMark ==
  /\ evictor = "marking"
  /\ evictor' = "idle"
  /\ MarkPending
  /\ UNCHANGED <<cluster, cached, target, holder, run, wire, callers, late, ran>>

Counted(t, n) == ran' = [ran EXCEPT ![t][n] = @ + 1]

Execute ==
  /\ wire = "unread"
  /\ wire' = "answered" /\ Counted(holder, run.next)
  /\ UNCHANGED <<cluster, cached, slot, target, holder, run, callers, evictor, late>>

ExecuteLate(t, n) ==
  /\ late[t][n] > 0
  /\ late' = [late EXCEPT ![t][n] = @ - 1] /\ Counted(t, n)
  /\ UNCHANGED <<cluster, cached, slot, target, holder, run, wire, callers, evictor>>

\* What a server has not read or run goes with it.
ServerStops ==
  /\ server # 0
  /\ server' = 0
  /\ wire' = IF wire = "unread" THEN "quiet" ELSE wire
  /\ late' = [t \in Callers |-> [n \in 1..2 |-> 0]]
  /\ \E link \in {"closed", "gone"} :
       conn' = IF conn.link = "up" THEN [conn EXCEPT !.link = link] ELSE conn
  /\ UNCHANGED <<started, accepts, secret, cached, pending, doomed, target, holder, run,
                 callers, evictor, ran>>

ServerStarts ==
  /\ server = 0 /\ started < MaxServers
  /\ started' = started + 1 /\ server' = started + 1 /\ accepts' = secret
  /\ UNCHANGED <<secret, cached, slot, target, holder, run, wire, callers, evictor, late,
                 ran>>

\* The network cuts a connection, or keepalive notices a dead one.
LinkCloses ==
  /\ conn.link \in {"up", "gone"}
  /\ conn' = [conn EXCEPT !.link = "closed"]
  /\ UNCHANGED <<cluster, cached, pending, doomed, target, holder, run, wire, callers,
                 evictor, late, ran>>

\* By hand, or by a teardown, which also forgets the cached password.
SecretChanges ==
  /\ secret < MaxSecrets
  /\ secret' = secret + 1 /\ cached' \in {cached, 0}
  /\ UNCHANGED <<server, started, accepts, slot, target, holder, run, wire, callers,
                 evictor, late, ran>>

-----------------------------------------------------------------------------

Init ==
  /\ server = 0 /\ started = 0 /\ accepts = 0 /\ secret = 1 /\ cached = 0
  /\ conn = NoConn /\ pending = FALSE /\ doomed = "no"
  /\ target = 0 /\ holder = Nobody /\ run = NewRun /\ wire = "quiet"
  /\ at = [t \in Callers |-> "new"]
  /\ seen = [t \in Callers |-> 0] /\ key = [t \in Callers |-> 0]
  /\ evictor = "idle"
  /\ late = [t \in Callers |-> [n \in 1..2 |-> 0]]
  /\ ran = [t \in Callers |-> [n \in 1..2 |-> 0]]

Step(t) ==
  \/ List(t) \/ Note(t) \/ NoteBusy(t) \/ Mark(t) \/ ReadKey(t)
  \/ Acquire(t) \/ Reuse(t) \/ Connect(t) \/ ConnectFails(t)
  \/ Send(t) \/ Unsent(t) \/ Lost(t) \/ Reply(t)

Environment ==
  \/ Evict \/ EvictBusy \/ EvictMark
  \/ Execute \/ \E t \in Callers, n \in 1..2 : ExecuteLate(t, n)
  \/ ServerStops \/ ServerStarts \/ LinkCloses \/ SecretChanges

Next == (\E t \in Callers : Step(t)) \/ Environment

Spec == Init /\ [][Next]_vars

\* Threads run, and a socket answers or times out after 5 seconds.
Fairness == \A t \in Callers : WF_vars(Step(t))

FairSpec == Spec /\ Fairness

-----------------------------------------------------------------------------
(* Properties *)

\* Whatever fails, times out, is evicted or retried, no server runs a command
\* more often than its caller allows: once, or twice for the read-only list
\* ("never retried", docs/design.md, RCON connections).
RunsAtMostOnce ==
  \A t \in Callers, n \in 1..2 : ran[t][n] <= (IF Idempotent(t) THEN 2 ELSE 1)

\* A batch's second command runs only after the first, and a call that reports
\* success had every one of its commands run.
BatchInOrder ==
  \A t \in Callers :
    /\ ran[t][2] > 0 => ran[t][1] > 0
    /\ at[t] = "ok" => \A n \in Commands(t) : ran[t][n] > 0

\* From connecting to the reply a run has its connection to itself: one that
\* was opened with its key, that nobody closes, and no second run beside it.
OwnConnection ==
  \A t \in Callers :
    at[t] \in {"ready", "sent"} =>
      /\ holder = t /\ Open /\ conn.key = key[t]
      /\ \A u \in Callers \ {t} : at[u] \notin {"running", "ready", "sent"}

\* A connection whose eviction was asked for before a run began is never used
\* by that run, though evict does not wait for the lock.
EvictionHonoured == \A t \in Callers : at[t] = "sent" => doomed # "before"

\* No call hangs: not on the lock, not on a server that never answers.
CallsEnd == \A t \in Callers : at[t] = "queued" ~> at[t] \in {"ok", "failed"}

\* "A peer that vanished without closing the socket looks alive to the
\* liveness check, so the console lists the pods before every command"
\* (docs/design.md): input never goes to an older server than the one listed.
ConsoleReachesListed ==
  \A t \in Consoles : at[t] = "sent" => conn.server >= seen[t]

=============================================================================

---------------------------- MODULE CommandsJob ----------------------------
(***************************************************************************)
(* Reading the command list of one world's server: complete,               *)
(* _command_source and _commands_job of service.py, and the Job they       *)
(* start (REPORT_SCRIPT of completion.py).                                 *)
(*                                                                         *)
(* A server is named by a number: a replaced pod and a container that      *)
(* restarts in its pod both start a new one, only the former under a new   *)
(* pod name.  The Job runs in the server's image and says in the store     *)
(* which pod it read.                                                      *)
(***************************************************************************)
EXTENDS Naturals, FiniteSets

CONSTANTS
  MaxServers,  \* bound: servers started
  MaxRepeats   \* bound: Jobs past their TTL that are created again

ASSUME CommandsAssumption == MaxServers \in Nat \ {0} /\ MaxRepeats \in Nat

VARIABLES
  server,   \* the server that is ready; 0: none, or an operation is pending
  started,  \* servers started so far
  podOf,    \* the pod name of each server
  recorded, \* the pod the pointer file in the store names; 0: none
  job,      \* the commands Job created while each server ran
  cache,    \* _cmd_cache: the status last worked out, until its TTL
  repeats   \* Jobs past their TTL

commandsVars == <<server, started, podOf, recorded, job, cache, repeats>>

Servers == 1..MaxServers

\* Shapes; and there is at most one unfinished commands Job.
CommandsTypeOK ==
  /\ server \in 0..started /\ started \in 0..MaxServers
  /\ podOf \in [Servers -> Servers \cup {0}]
  /\ recorded \in Servers \cup {0}
  /\ job \in [Servers -> {"none", "running", "ended"}]
  /\ Cardinality({s \in Servers : job[s] = "running"}) <= 1
  /\ cache \in {"none", "ready", "pending"}
  /\ repeats \in 0..MaxRepeats

-----------------------------------------------------------------------------

\* Mutant of Unfinished: only this server's Job counts.
UnfinishedOwn == job[server] = "running"

Unfinished == \E s \in Servers : job[s] = "running"

CommandsKnown == server = 0 \/ recorded = podOf[server]

\* Mutant of NeedsJob: one that ended without recording the pod is created again.
NeedsJobAgain == ~CommandsKnown /\ ~Unfinished

\* A Job that ran since this server started is not repeated.
NeedsJob == ~CommandsKnown /\ ~Unfinished /\ job[server] = "none"

Status == IF ~CommandsKnown /\ (Unfinished \/ NeedsJob) THEN "pending" ELSE "ready"

\* A console asks; a fresh answer needs no look at the cluster.
Asks ==
  /\ cache = "none"
  /\ cache' = Status
  /\ job' = IF NeedsJob THEN [job EXCEPT ![server] = "running"] ELSE job
  /\ UNCHANGED <<server, started, podOf, recorded, repeats>>

CacheExpires ==
  /\ cache # "none" /\ cache' = "none"
  /\ UNCHANGED <<server, started, podOf, recorded, job, repeats>>

\* The script records its pod at every end, also when it found no commands; not
\* when the Job is killed at its deadline or cannot write.
JobEnds(s) ==
  /\ job[s] = "running" /\ job' = [job EXCEPT ![s] = "ended"]
  /\ recorded' \in {recorded, podOf[s]}
  /\ UNCHANGED <<server, started, podOf, cache, repeats>>

\* An hour later nothing is left of the Job.
JobExpires(s) ==
  /\ job[s] = "ended" /\ repeats < MaxRepeats
  /\ job' = [job EXCEPT ![s] = "none"] /\ repeats' = repeats + 1
  /\ UNCHANGED <<server, started, podOf, recorded, cache>>

ServerStarts ==
  /\ started < MaxServers
  /\ started' = started + 1 /\ server' = started + 1
  /\ \E p \in {started + 1} \cup {podOf[s] : s \in Servers \cap {started}} :
       podOf' = [podOf EXCEPT ![started + 1] = p]
  /\ UNCHANGED <<recorded, job, cache, repeats>>

ServerStops ==
  /\ server # 0 /\ server' = 0
  /\ UNCHANGED <<started, podOf, recorded, job, cache, repeats>>

CommandsInit ==
  /\ server = 0 /\ started = 0 /\ podOf = [s \in Servers |-> 0]
  /\ recorded = 0 /\ job = [s \in Servers |-> "none"] /\ cache = "none" /\ repeats = 0

CommandsNext ==
  \/ Asks \/ CacheExpires \/ ServerStarts \/ ServerStops
  \/ \E s \in Servers : JobEnds(s) \/ JobExpires(s)

\* Somebody keeps asking, the cache has its TTL and the Job its deadline.
CommandsFairness ==
  /\ WF_commandsVars(Asks) /\ WF_commandsVars(CacheExpires)
  /\ \A s \in Servers : WF_commandsVars(JobEnds(s))

CommandsSpec == CommandsInit /\ [][CommandsNext]_commandsVars /\ CommandsFairness

-----------------------------------------------------------------------------

(***************************************************************************)
(* The pointer file never goes back to a pod that is gone: the Job of an   *)
(* earlier server has ended before one for the next is created             *)
(* (_commands_job).                                                        *)
(***************************************************************************)
RecordedForward == [][recorded' >= recorded]_commandsVars

(***************************************************************************)
(* A console that keeps asking is not told "pending" for ever, whether the *)
(* Job records its pod, fails, or belongs to an earlier server.            *)
(***************************************************************************)
PendingEnds == (cache = "pending") ~> (cache = "ready")

=============================================================================

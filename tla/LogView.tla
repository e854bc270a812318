------------------------------ MODULE LogView ------------------------------
(***************************************************************************)
(* One viewer of a server log: the container, the pump thread that follows *)
(* it (stream_pod_log, stream_logs), the event loop's bounded queue, the   *)
(* coroutine that feeds the browser, and a browser that may leave          *)
(* (_log_events).                                                          *)
(*                                                                         *)
(* Log lines are numbered.  The stream ends by itself only when the        *)
(* container exits; when nothing was logged for LOG_IDLE_TIMEOUT it is     *)
(* opened again, looking back two seconds: aged is the last line older     *)
(* than that.  A connection that breaks in mid-stream is not modelled.     *)
(***************************************************************************)
EXTENDS Naturals, Sequences

CONSTANTS
  MaxLines,   \* bound: lines the container logs
  TailLines,  \* lines shown of the log so far (200)
  QueueSize   \* the queue between the pump and the coroutine (1000)

ASSUME LogAssumption == MaxLines \in Nat /\ TailLines \in Nat /\ QueueSize \in Nat \ {0}

VARIABLES
  box,     \* the container: running, exited, and gone with its pod
  logged,  \* lines it has logged
  aged,    \* lines logged more than two seconds ago
  pump,    \* the pump thread
  read,    \* the last line it has read
  posted,  \* items on their way to the event loop
  queue,   \* items waiting for the coroutine
  shown,   \* lines the browser has, in the order they came
  viewer,  \* open; told the end; gone; left once its coroutine knows
  missed   \* history: an item was dropped, or a line aged unread

logVars == <<box, logged, aged, pump, read, posted, queue, shown, viewer, missed>>

pumpVars == <<pump, read, posted>>

Items == [kind: {"line", "notice", "end", "error"}, line: 0..MaxLines]

Item(kind) == [kind |-> kind, line |-> 0]

\* Shapes, and the queue is never longer than its size.
LogTypeOK ==
  /\ box \in {"running", "exited", "gone"}
  /\ logged \in 0..MaxLines /\ aged \in 0..logged /\ read \in 0..logged
  /\ pump \in {"opening", "reopening", "reading", "ending", "done"}
  /\ posted \in Seq(Items)
  /\ queue \in Seq(Items) /\ Len(queue) <= QueueSize
  /\ shown \in Seq(1..MaxLines)
  /\ viewer \in {"open", "told", "gone", "left"}
  /\ missed \in BOOLEAN

\* stop is set when the coroutine ends, for whatever reason.
Stopped == viewer \in {"told", "left"}

Post(item) == posted' = Append(posted, item)

-----------------------------------------------------------------------------
(* The container *)

Logs ==
  /\ box = "running" /\ logged < MaxLines
  /\ logged' = logged + 1
  /\ UNCHANGED <<box, aged, pumpVars, queue, shown, viewer, missed>>

Ages ==
  /\ aged < logged
  /\ aged' = aged + 1
  /\ UNCHANGED <<box, logged, pumpVars, queue, shown, viewer, missed>>

Exits ==
  /\ box = "running" /\ box' = "exited"
  /\ UNCHANGED <<logged, aged, pumpVars, queue, shown, viewer, missed>>

PodGoes ==
  /\ box = "exited" /\ box' = "gone"
  /\ UNCHANGED <<logged, aged, pumpVars, queue, shown, viewer, missed>>

-----------------------------------------------------------------------------
(* The pump thread *)

\* Where the stream starts: the tail, or the look-back of a reconnect.
\* Mutant of From: a reconnect asks for the tail again.
FromTail == IF logged > TailLines THEN logged - TailLines ELSE 0

From == IF pump = "opening" THEN FromTail ELSE aged

StreamOpens ==
  /\ pump \in {"opening", "reopening"} /\ box # "gone"
  /\ pump' = "reading" /\ read' = From
  /\ missed' = (missed \/ (pump = "reopening" /\ aged > read))
  /\ UNCHANGED <<box, logged, aged, posted, queue, shown, viewer>>

\* No pod: one line says so, and the stream ends.
OpensNothing ==
  /\ pump \in {"opening", "reopening"} /\ box = "gone"
  /\ pump' = "ending"
  /\ IF Stopped THEN UNCHANGED posted ELSE Post(Item("notice"))
  /\ UNCHANGED <<box, logged, aged, read, queue, shown, viewer, missed>>

OpenFails ==
  /\ pump \in {"opening", "reopening"}
  /\ pump' = "done" /\ Post(Item("error"))
  /\ UNCHANGED <<box, logged, aged, read, queue, shown, viewer, missed>>

ReadsLine ==
  /\ pump = "reading" /\ read < logged
  /\ IF Stopped THEN pump' = "ending" /\ UNCHANGED <<read, posted>>
     ELSE /\ read' = read + 1 /\ Post([kind |-> "line", line |-> read + 1])
          /\ UNCHANGED pump
  /\ UNCHANGED <<box, logged, aged, queue, shown, viewer, missed>>

\* Mutant of AfterHeartbeat: a heartbeat is skipped before stop is looked at.
AfterHeartbeatOn == "reopening"

AfterHeartbeat == IF Stopped THEN "ending" ELSE "reopening"

\* Nothing was logged for a while: a heartbeat, and the stream is opened again.
Idles ==
  /\ pump = "reading" /\ box = "running" /\ read = logged /\ aged = logged
  /\ pump' = AfterHeartbeat
  /\ UNCHANGED <<box, logged, aged, read, posted, queue, shown, viewer, missed>>

StreamEnds ==
  /\ pump = "reading" /\ box # "running" /\ read = logged
  /\ pump' = "ending"
  /\ UNCHANGED <<box, logged, aged, read, posted, queue, shown, viewer, missed>>

\* Mutant of Farewell: the pump just returns.
NoFarewell == UNCHANGED posted

Farewell == Post(Item("end"))

Ends ==
  /\ pump = "ending" /\ pump' = "done"
  /\ Farewell
  /\ UNCHANGED <<box, logged, aged, read, queue, shown, viewer, missed>>

-----------------------------------------------------------------------------
(* The event loop *)

Room == Len(queue) < QueueSize

Put ==
  /\ posted # <<>> /\ posted' = Tail(posted)
  /\ \/ Room /\ queue' = Append(queue, Head(posted)) /\ UNCHANGED missed
     \/ ~Room /\ missed' = TRUE /\ UNCHANGED queue
  /\ UNCHANGED <<box, logged, aged, pump, read, shown, viewer>>

Feeds ==
  /\ viewer = "open" /\ queue # <<>> /\ queue' = Tail(queue)
  /\ shown' = IF Head(queue).kind = "line" THEN Append(shown, Head(queue).line) ELSE shown
  /\ viewer' = IF Head(queue).kind \in {"end", "error"} THEN "told" ELSE viewer
  /\ UNCHANGED <<box, logged, aged, pumpVars, missed>>

Leaves ==
  /\ viewer = "open" /\ viewer' = "gone"
  /\ UNCHANGED <<box, logged, aged, pumpVars, queue, shown, missed>>

\* The server cancels the response, or the keepalive finds the request gone.
Noticed ==
  /\ viewer = "gone" /\ viewer' = "left"
  /\ UNCHANGED <<box, logged, aged, pumpVars, queue, shown, missed>>

LogInit ==
  /\ box = "running" /\ logged = 0 /\ aged = 0
  /\ pump = "opening" /\ read = 0
  /\ posted = <<>> /\ queue = <<>> /\ shown = <<>>
  /\ viewer = "open" /\ missed = FALSE

Pump == StreamOpens \/ OpensNothing \/ OpenFails \/ ReadsLine \/ Idles \/ StreamEnds \/ Ends

Loop == Put \/ Feeds \/ Noticed

LogNext == Logs \/ Ages \/ Exits \/ PodGoes \/ Pump \/ Loop \/ Leaves

\* The thread and the event loop run; lines get old.
LogFairness ==
  /\ WF_logVars(Pump) /\ WF_logVars(Put) /\ WF_logVars(Feeds)
  /\ WF_logVars(Noticed) /\ WF_logVars(Ages)

LogSpec == LogInit /\ [][LogNext]_logVars /\ LogFairness

-----------------------------------------------------------------------------

(***************************************************************************)
(* The viewer sees the lines in order, none twice, however often the       *)
(* stream is opened again; and without a gap as long as the queue had room *)
(* and no reconnect took longer than its look-back.                        *)
(***************************************************************************)
LinesInOrder ==
  \A i \in 1..Len(shown) - 1 :
    shown[i + 1] = shown[i] + 1 \/ (missed /\ shown[i + 1] > shown[i])

(***************************************************************************)
(* Once the container has exited a viewer who stays is told so, unless the *)
(* queue was full.                                                         *)
(***************************************************************************)
EndTold == (box # "running") ~> (viewer # "open" \/ missed)

(***************************************************************************)
(* The thread does not outlive its viewer, also when the server logs       *)
(* nothing any more.                                                       *)
(***************************************************************************)
PumpEnds == (viewer # "open") ~> (pump = "done")

=============================================================================

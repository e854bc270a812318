----------------------------- MODULE PageProofs -----------------------------
(***************************************************************************)
(* Proofs about what the page of a server shows.  The four parts share no  *)
(* state.                                                                  *)
(*                                                                         *)
(* LogView: the queue never outgrows its size, and the viewer sees the     *)
(* lines of the log in order, for any length of the log, of the tail and   *)
(* of the queue.  The argument follows the lines through the pipeline from *)
(* the thread to the browser: what is shown, queued and posted rises       *)
(* strictly in this order and ends at the last line read (Increasing), the *)
(* items that are not lines come after all the lines (LinesFirst), and as  *)
(* long as nothing was missed the line at each place of the pipeline is    *)
(* the place added to one number (Exact).                                  *)
(*                                                                         *)
(* The console: the suggestions shown are the ones for the text            *)
(* (Suggestions), the command list never goes back to that of an earlier   *)
(* pod (CommandsJob), and a suggestion that is accepted is understood      *)
(* (Completion).                                                           *)
(***************************************************************************)
EXTENDS LogView, Suggestions, CommandsJob, Completion, FiniteSetTheorems, TLAPS

-----------------------------------------------------------------------------
(* LogView *)

IsLine(item) == item.kind = "line"

LinesFirst ==
  /\ \A i, j \in 1..Len(queue) : i < j /\ IsLine(queue[j]) => IsLine(queue[i])
  /\ \A i, j \in 1..Len(posted) : i < j /\ IsLine(posted[j]) => IsLine(posted[i])
  /\ \A i \in 1..Len(queue), j \in 1..Len(posted) : IsLine(posted[j]) => IsLine(queue[i])

AllLines ==
  pump \in {"opening", "reopening", "reading"} =>
    /\ \A i \in 1..Len(queue) : IsLine(queue[i])
    /\ \A i \in 1..Len(posted) : IsLine(posted[i])

NothingYet == pump = "opening" => posted = <<>> /\ queue = <<>> /\ shown = <<>>

\* The stream is opened again only when every line read is older than the look-back.
ReadAged == pump = "reopening" => read <= aged

Increasing ==
  /\ \A i, j \in 1..Len(shown) : i < j => shown[i] < shown[j]
  /\ \A i, j \in 1..Len(queue) : i < j /\ IsLine(queue[j]) => queue[i].line < queue[j].line
  /\ \A i, j \in 1..Len(posted) : i < j /\ IsLine(posted[j]) => posted[i].line < posted[j].line
  /\ \A i \in 1..Len(shown), j \in 1..Len(queue) : IsLine(queue[j]) => shown[i] < queue[j].line
  /\ \A i \in 1..Len(shown), j \in 1..Len(posted) :
       IsLine(posted[j]) => shown[i] < posted[j].line
  /\ \A i \in 1..Len(queue), j \in 1..Len(posted) :
       IsLine(posted[j]) => queue[i].line < posted[j].line

ReadLast ==
  pump \in {"reopening", "reading"} =>
    /\ \A i \in 1..Len(shown) : shown[i] <= read
    /\ \A i \in 1..Len(queue) : queue[i].line <= read
    /\ \A i \in 1..Len(posted) : posted[i].line <= read

Exact(f) ==
  /\ \A i \in 1..Len(shown) : shown[i] = f + i
  /\ \A i \in 1..Len(queue) : IsLine(queue[i]) => queue[i].line = f + Len(shown) + i
  /\ \A i \in 1..Len(posted) :
       IsLine(posted[i]) => posted[i].line = f + Len(shown) + Len(queue) + i
  /\ pump \in {"reopening", "reading"} => read = f + Len(shown) + Len(queue) + Len(posted)

OrderInv ==
  /\ LinesFirst /\ AllLines /\ NothingYet /\ ReadAged /\ Increasing /\ ReadLast
  /\ missed \/ \E f \in Nat : Exact(f)

-----------------------------------------------------------------------------
(* Sequences *)

LEMMA Typed ==
  ASSUME NEW S, NEW s \in Seq(S)
  PROVE  Len(s) \in Nat /\ \A i \in 1..Len(s) : s[i] \in S
OBVIOUS

LEMMA Appended ==
  ASSUME NEW S, NEW s \in Seq(S), NEW e \in S
  PROVE  /\ Append(s, e) \in Seq(S) /\ Len(Append(s, e)) = Len(s) + 1 /\ Len(s) \in Nat
         /\ \A i \in 1..Len(s) : Append(s, e)[i] = s[i]
         /\ Append(s, e)[Len(s) + 1] = e
OBVIOUS

LEMMA Headed ==
  ASSUME NEW S, NEW s \in Seq(S), s # <<>>
  PROVE  /\ Len(s) \in Nat /\ Len(s) >= 1 /\ 1 \in 1..Len(s)
         /\ Head(s) = s[1] /\ Head(s) \in S
         /\ Tail(s) \in Seq(S) /\ Len(Tail(s)) = Len(s) - 1
         /\ \A i \in 1..Len(s) - 1 : i + 1 \in 1..Len(s) /\ Tail(s)[i] = s[i + 1]
OBVIOUS

-----------------------------------------------------------------------------
(* Shapes; and lines are numbered from one. *)

Posts == {item \in Items : IsLine(item) => item.line # 0}

LogTypes == LogTypeOK /\ queue \in Seq(Posts) /\ posted \in Seq(Posts)

\* What the lines of the pipeline are, as numbers.
LEMMA Numbers ==
  ASSUME LogTypes
  PROVE  /\ MaxLines \in Nat /\ read \in Nat /\ aged \in Nat /\ logged \in Nat
         /\ aged <= logged /\ read <= logged /\ logged <= MaxLines
         /\ Len(shown) \in Nat /\ Len(queue) \in Nat /\ Len(posted) \in Nat
         /\ \A i \in 1..Len(shown) : shown[i] \in Nat
         /\ \A i \in 1..Len(queue) : queue[i] \in Posts /\ queue[i].line \in Nat
         /\ \A i \in 1..Len(posted) : posted[i] \in Posts /\ posted[i].line \in Nat
<1>1. MaxLines \in Nat /\ logged \in 0..MaxLines /\ aged \in 0..logged /\ read \in 0..logged
  BY LogAssumption DEF LogTypes, LogTypeOK
<1>2. \A item \in Posts : item.line \in Nat
  BY <1>1 DEF Items, Posts
<1>3. shown \in Seq(1..MaxLines) /\ queue \in Seq(Posts) /\ posted \in Seq(Posts)
  BY DEF LogTypes, LogTypeOK
<1>4. Len(shown) \in Nat /\ \A i \in 1..Len(shown) : shown[i] \in 1..MaxLines
  BY <1>3, Typed
<1>5. Len(queue) \in Nat /\ \A i \in 1..Len(queue) : queue[i] \in Posts
  BY <1>3, Typed
<1>6. Len(posted) \in Nat /\ \A i \in 1..Len(posted) : posted[i] \in Posts
  BY <1>3, Typed
<1>7. \A i \in 1..Len(shown) : shown[i] \in Nat
  BY <1>1, <1>4
<1>8. read \in Nat /\ aged \in Nat /\ logged \in Nat
      /\ aged <= logged /\ read <= logged /\ logged <= MaxLines
  BY <1>1
<1> QED BY <1>1, <1>2, <1>4, <1>5, <1>6, <1>7, <1>8

LEMMA PostedItem ==
  ASSUME NEW kind \in {"notice", "end", "error"}
  PROVE  Item(kind) \in Posts /\ ~IsLine(Item(kind))
BY LogAssumption DEF Item, Items, Posts, IsLine

LEMMA PostedLine ==
  ASSUME LogTypes, read < logged
  PROVE  [kind |-> "line", line |-> read + 1] \in Posts
<1>1. read + 1 \in 0..MaxLines /\ read + 1 # 0
  BY Numbers
<1> QED BY <1>1 DEF Items, Posts

LEMMA SeqOfItems == \A s \in Seq(Posts) : s \in Seq(Items)
<1>1. Posts \subseteq Items
  BY DEF Posts
<1> QED BY <1>1

LEMMA LogTypeInit == LogInit => LogTypes
<1> SUFFICES ASSUME LogInit PROVE LogTypes
  OBVIOUS
<1>1. <<>> \in Seq(Posts) /\ <<>> \in Seq(1..MaxLines) /\ Len(<<>>) = 0
  OBVIOUS
<1>2. 0 \in 0..MaxLines /\ 0 \in 0..0 /\ 0 <= QueueSize
  BY LogAssumption
<1> QED BY <1>1, <1>2, SeqOfItems DEF LogInit, LogTypeOK, LogTypes

LEMMA LogTypeNext == LogTypes /\ [LogNext]_logVars => LogTypes'
<1> SUFFICES ASSUME LogTypes, [LogNext]_logVars PROVE LogTypes'
  OBVIOUS
<1> USE DEF LogTypeOK, LogTypes
<1>1. CASE Logs \/ Ages \/ Exits \/ PodGoes \/ Leaves \/ Noticed
  BY <1>1, Numbers DEF Logs, Ages, Exits, PodGoes, Leaves, Noticed, pumpVars
<1>2. CASE StreamOpens
  <2>1. From \in 0..logged
    BY Numbers, LogAssumption DEF From, FromTail
  <2> QED BY <1>2, <2>1, Numbers DEF StreamOpens
<1>3. CASE OpensNothing \/ OpenFails \/ Ends
  <2>1. UNCHANGED posted \/ \E kind \in {"notice", "end", "error"} : Post(Item(kind))
    BY <1>3 DEF OpensNothing, OpenFails, Ends, Farewell
  <2>2. ASSUME NEW kind \in {"notice", "end", "error"}, Post(Item(kind))
        PROVE  posted' \in Seq(Posts)
    <3>1. Item(kind) \in Posts
      BY PostedItem
    <3> QED BY <2>2, <3>1, Appended DEF Post
  <2>3. posted' \in Seq(Posts)
    BY <2>1, <2>2
  <2> QED BY <1>3, <2>3, SeqOfItems DEF OpensNothing, OpenFails, Ends
<1>4. CASE ReadsLine
  <2>1. CASE Stopped
    BY <1>4, <2>1 DEF ReadsLine
  <2>2. CASE ~Stopped
    <3>1. read' = read + 1 /\ posted' = Append(posted, [kind |-> "line", line |-> read + 1])
      BY <1>4, <2>2 DEF ReadsLine, Post
    <3>2. [kind |-> "line", line |-> read + 1] \in Posts /\ read + 1 \in 0..logged
      BY <1>4, PostedLine, Numbers DEF ReadsLine
    <3>3. posted' \in Seq(Posts)
      BY <3>1, <3>2, Appended
    <3> QED BY <1>4, <2>2, <3>1, <3>2, <3>3, SeqOfItems DEF ReadsLine
  <2> QED BY <2>1, <2>2
<1>5. CASE Idles \/ StreamEnds
  BY <1>5 DEF Idles, AfterHeartbeat, StreamEnds
<1>6. CASE Put
  <2>1. Head(posted) \in Posts /\ posted' \in Seq(Posts)
    BY <1>6, Headed DEF Put
  <2>2. CASE Room /\ queue' = Append(queue, Head(posted)) /\ UNCHANGED missed
    <3>1. queue' \in Seq(Posts) /\ Len(queue') <= QueueSize
      BY <2>1, <2>2, Appended, LogAssumption DEF Room
    <3> QED BY <1>6, <2>1, <2>2, <3>1, SeqOfItems DEF Put
  <2>3. CASE ~Room /\ missed' = TRUE /\ UNCHANGED queue
    BY <1>6, <2>1, <2>3, SeqOfItems DEF Put
  <2> QED BY <1>6, <2>2, <2>3 DEF Put
<1>7. CASE Feeds
  <2>1. queue' = Tail(queue) /\ queue # <<>>
    BY <1>7 DEF Feeds
  <2>2. /\ queue' \in Seq(Posts) /\ Len(queue') = Len(queue) - 1 /\ Head(queue) \in Posts
        /\ Len(queue) \in Nat
    BY <2>1, Headed
  <2>3. Len(queue') <= QueueSize
    BY <2>2, LogAssumption
  <2>4. IsLine(Head(queue)) => Head(queue).line \in 1..MaxLines
    BY <2>2, LogAssumption DEF Posts, Items
  <2>5. shown' \in Seq(1..MaxLines)
    BY <1>7, <2>4, Appended DEF Feeds, IsLine
  <2>6. viewer' \in {"open", "told"}
    BY <1>7 DEF Feeds
  <2> QED BY <1>7, <2>2, <2>3, <2>5, <2>6, SeqOfItems DEF Feeds, pumpVars
<1>8. CASE UNCHANGED logVars
  BY <1>8 DEF logVars
<1> QED BY <1>1, <1>2, <1>3, <1>4, <1>5, <1>6, <1>7, <1>8 DEF LogNext, Pump, Loop

-----------------------------------------------------------------------------
(* The pipeline *)

LEMMA OrderInit == LogInit => OrderInv
BY DEF LogInit, OrderInv, LinesFirst, AllLines, NothingYet, ReadAged, Increasing, ReadLast,
       Exact

\* A step beside the pipeline.
LEMMA BesideKeeps ==
  ASSUME LogTypes, OrderInv, UNCHANGED <<pumpVars, queue, shown, missed>>,
         aged' \in Nat, aged' >= aged
  PROVE  OrderInv'
<1>1. ReadAged'
  BY Numbers DEF OrderInv, ReadAged, pumpVars
<1>2. \A f : Exact(f)' <=> Exact(f)
  BY DEF Exact, pumpVars
<1>3. LinesFirst' /\ AllLines' /\ NothingYet' /\ Increasing' /\ ReadLast'
  BY DEF OrderInv, LinesFirst, AllLines, NothingYet, Increasing, ReadLast, pumpVars
<1> QED BY <1>1, <1>2, <1>3 DEF OrderInv

\* The thread stops reading; what it may still post is not a line.
LEMMA StopKeeps ==
  ASSUME LogTypes, OrderInv, UNCHANGED <<read, queue, shown, missed>>,
         pump' \in {"ending", "done"}, NEW item \in Posts, ~IsLine(item),
         posted' \in {posted, Append(posted, item)}
  PROVE  OrderInv'
<1>1. AllLines' /\ NothingYet' /\ ReadAged' /\ ReadLast'
  BY DEF AllLines, NothingYet, ReadAged, ReadLast
<1>2. posted \in Seq(Posts) /\ Len(posted) \in Nat
  BY Numbers DEF LogTypes
<1>3. /\ \A i \in 1..Len(posted') : IsLine(posted'[i]) => i \in 1..Len(posted)
      /\ \A i \in 1..Len(posted) : posted'[i] = posted[i] /\ i \in 1..Len(posted')
  BY <1>2, Appended
<1>4. LinesFirst'
  <2>1. \A i, j \in 1..Len(posted') : i < j /\ IsLine(posted'[j]) => i \in 1..Len(posted)
    BY <1>2, <1>3, Appended
  <2> QED BY <1>3, <2>1 DEF OrderInv, LinesFirst
<1>5. Increasing'
  <2>1. \A i, j \in 1..Len(posted') : i < j /\ IsLine(posted'[j]) => i \in 1..Len(posted)
    BY <1>2, <1>3, Appended
  <2> QED BY <1>3, <2>1 DEF OrderInv, Increasing
<1>6. \A f : Exact(f) => Exact(f)'
  BY <1>3 DEF Exact
<1> QED BY <1>1, <1>4, <1>5, <1>6 DEF OrderInv

LEMMA ReadsLineKeeps ==
  ASSUME LogTypes, OrderInv, ReadsLine, ~Stopped
  PROVE  OrderInv'
<1> DEFINE item == [kind |-> "line", line |-> read + 1]
<1>1. /\ pump = "reading" /\ pump' = "reading" /\ read' = read + 1
      /\ posted' = Append(posted, item)
      /\ UNCHANGED <<queue, shown, missed>>
  BY DEF ReadsLine, Post
<1>2. item \in Posts /\ IsLine(item) /\ item.line = read + 1
  BY PostedLine DEF ReadsLine, IsLine
<1> HIDE DEF item
<1>3. /\ posted \in Seq(Posts) /\ Len(posted) \in Nat /\ Len(posted') = Len(posted) + 1
      /\ \A i \in 1..Len(posted) : posted'[i] = posted[i]
      /\ posted'[Len(posted) + 1] = item
  BY <1>1, <1>2, Appended DEF LogTypes
<1>4. /\ \A i \in 1..Len(queue) : IsLine(queue[i])
      /\ \A i \in 1..Len(posted) : IsLine(posted[i])
  BY <1>1 DEF OrderInv, AllLines
<1>5. /\ \A i \in 1..Len(shown) : shown[i] <= read
      /\ \A i \in 1..Len(queue) : queue[i].line <= read
      /\ \A i \in 1..Len(posted) : posted[i].line <= read
  BY <1>1 DEF OrderInv, ReadLast
<1>6. \A i \in 1..Len(posted') : i \in 1..Len(posted) \/ i = Len(posted) + 1
  BY <1>3
<1>7. \A i \in 1..Len(posted') : IsLine(posted'[i])
  BY <1>2, <1>3, <1>4, <1>6
<1>8. LinesFirst' /\ AllLines' /\ NothingYet' /\ ReadAged'
  BY <1>1, <1>4, <1>7 DEF LinesFirst, AllLines, NothingYet, ReadAged
<1>9. Increasing'
  <2>1. /\ \A i, j \in 1..Len(shown') : i < j => shown'[i] < shown'[j]
        /\ \A i, j \in 1..Len(queue') :
             i < j /\ IsLine(queue'[j]) => queue'[i].line < queue'[j].line
        /\ \A i \in 1..Len(shown'), j \in 1..Len(queue') :
             IsLine(queue'[j]) => shown'[i] < queue'[j].line
    BY <1>1 DEF OrderInv, Increasing
  <2>2. \A i, j \in 1..Len(posted') :
          i < j /\ IsLine(posted'[j]) => posted'[i].line < posted'[j].line
    <3> SUFFICES ASSUME NEW i \in 1..Len(posted'), NEW j \in 1..Len(posted'), i < j
                 PROVE  posted'[i].line < posted'[j].line
      OBVIOUS
    <3>1. i \in 1..Len(posted) /\ posted'[i] = posted[i]
      BY <1>3
    <3>2. CASE j \in 1..Len(posted)
      BY <1>3, <1>4, <3>1, <3>2 DEF OrderInv, Increasing
    <3>3. CASE j = Len(posted) + 1
      BY <1>2, <1>3, <1>5, <3>1, <3>3, Numbers, SMTT(30)
    <3> QED BY <1>6, <3>2, <3>3
  <2>3. \A i \in 1..Len(shown'), j \in 1..Len(posted') : shown'[i] < posted'[j].line
    <3> SUFFICES ASSUME NEW i \in 1..Len(shown), NEW j \in 1..Len(posted')
                 PROVE  shown[i] < posted'[j].line
      BY <1>1
    <3>1. CASE j \in 1..Len(posted)
      BY <1>3, <1>4, <3>1 DEF OrderInv, Increasing
    <3>2. CASE j = Len(posted) + 1
      BY <1>2, <1>3, <1>5, <3>2, Numbers
    <3> QED BY <1>6, <3>1, <3>2
  <2>4. \A i \in 1..Len(queue'), j \in 1..Len(posted') : queue'[i].line < posted'[j].line
    <3> SUFFICES ASSUME NEW i \in 1..Len(queue), NEW j \in 1..Len(posted')
                 PROVE  queue[i].line < posted'[j].line
      BY <1>1
    <3>1. CASE j \in 1..Len(posted)
      BY <1>3, <1>4, <3>1 DEF OrderInv, Increasing
    <3>2. CASE j = Len(posted) + 1
      BY <1>2, <1>3, <1>5, <3>2, Numbers
    <3> QED BY <1>6, <3>1, <3>2
  <2> QED BY <2>1, <2>2, <2>3, <2>4 DEF Increasing
<1>10. ReadLast'
  <2>1. \A i \in 1..Len(posted) : posted'[i].line <= read + 1
    BY <1>3, <1>5, Numbers
  <2>2. posted'[Len(posted) + 1].line <= read + 1
    BY <1>2, <1>3, Numbers
  <2>3. \A i \in 1..Len(posted') : posted'[i].line <= read + 1
    BY <1>6, <2>1, <2>2
  <2>4. /\ \A i \in 1..Len(shown) : shown[i] <= read + 1
        /\ \A i \in 1..Len(queue) : queue[i].line <= read + 1
    <3>1. /\ read \in Nat /\ \A i \in 1..Len(shown) : shown[i] \in Nat
          /\ \A i \in 1..Len(queue) : queue[i].line \in Nat
      BY Numbers
    <3>2. \A m, n \in Nat : m <= n => m <= n + 1
      OBVIOUS
    <3> QED BY <1>5, <3>1, <3>2
  <2> QED BY <1>1, <2>3, <2>4 DEF ReadLast
<1>11. ASSUME NEW f \in Nat, Exact(f) PROVE Exact(f)'
  <2>1. read = f + Len(shown) + Len(queue) + Len(posted)
    BY <1>1, <1>11 DEF Exact
  <2>2. \A i \in 1..Len(posted') : posted'[i].line = f + Len(shown) + Len(queue) + i
    <3>1. \A i \in 1..Len(posted) : posted'[i].line = f + Len(shown) + Len(queue) + i
      BY <1>3, <1>4, <1>11 DEF Exact
    <3>2. read + 1 = f + Len(shown) + Len(queue) + (Len(posted) + 1)
      BY <2>1, Numbers
    <3>3. posted'[Len(posted) + 1].line = read + 1
      BY <1>2, <1>3
    <3> QED BY <1>6, <3>1, <3>2, <3>3
  <2>3. read' = f + Len(shown') + Len(queue') + Len(posted')
    <3>1. read' = read + 1 /\ Len(posted') = Len(posted) + 1
      BY <1>1, <1>3
    <3>2. shown' = shown /\ queue' = queue
      BY <1>1
    <3>3. read + 1 = f + Len(shown) + Len(queue) + (Len(posted) + 1)
      BY <2>1, Numbers
    <3> QED BY <3>1, <3>2, <3>3
  <2> QED BY <1>1, <1>11, <2>2, <2>3 DEF Exact
<1> QED BY <1>1, <1>8, <1>9, <1>10, <1>11 DEF OrderInv

LEMMA OpensKeeps ==
  ASSUME LogTypes, LogTypes', OrderInv, StreamOpens
  PROVE  OrderInv'
<1>1. /\ pump \in {"opening", "reopening"} /\ pump' = "reading" /\ read' = From
      /\ missed' = (missed \/ (pump = "reopening" /\ aged > read))
      /\ UNCHANGED <<aged, posted, queue, shown>>
  BY DEF StreamOpens
<1>2. LinesFirst' /\ Increasing'
  BY <1>1 DEF OrderInv, LinesFirst, Increasing
<1>3. AllLines' /\ NothingYet' /\ ReadAged'
  BY <1>1 DEF OrderInv, AllLines, NothingYet, ReadAged
<1>4. CASE pump = "opening"
  <2>1. posted' = <<>> /\ queue' = <<>> /\ shown' = <<>>
    BY <1>1, <1>4 DEF OrderInv, NothingYet
  <2>2. read' \in Nat
    BY Numbers DEF LogTypes, LogTypeOK
  <2>3. ReadLast' /\ \A f \in Nat : f = read' => Exact(f)'
    <3>1. Len(shown') = 0 /\ Len(queue') = 0 /\ Len(posted') = 0
      BY <2>1
    <3> QED BY <2>2, <3>1 DEF ReadLast, Exact
  <2> QED BY <1>2, <1>3, <2>2, <2>3 DEF OrderInv
<1>5. CASE pump = "reopening"
  <2>1. read' = aged /\ read <= aged
    BY <1>1, <1>5 DEF From, OrderInv, ReadAged
  <2>2. ReadLast'
    BY <1>1, <1>5, <2>1, Numbers DEF OrderInv, ReadLast
  <2>3. CASE missed'
    BY <1>2, <1>3, <2>2, <2>3 DEF OrderInv
  <2>4. CASE ~missed'
    <3>1. read' = read /\ ~missed
      <4>1. ~(aged > read) /\ ~missed
        BY <1>1, <1>5, <2>4
      <4> QED BY <2>1, <4>1, Numbers
    <3>2. \A f : Exact(f) => Exact(f)'
      BY <1>1, <1>5, <3>1 DEF Exact
    <3> QED BY <1>2, <1>3, <2>2, <3>1, <3>2 DEF OrderInv
  <2> QED BY <2>3, <2>4
<1> QED BY <1>1, <1>4, <1>5

\* The stream is opened again only when all lines have been read and have aged.
LEMMA IdlesKeeps ==
  ASSUME LogTypes, OrderInv, Idles, ~Stopped
  PROVE  OrderInv'
<1>1. /\ pump = "reading" /\ pump' = "reopening" /\ read = logged /\ aged = logged
      /\ UNCHANGED <<aged, read, posted, queue, shown, missed>>
  BY DEF Idles, AfterHeartbeat
<1>2. ReadAged'
  BY <1>1, Numbers DEF ReadAged
<1>3. LinesFirst' /\ Increasing' /\ AllLines' /\ NothingYet' /\ ReadLast'
  BY <1>1 DEF OrderInv, LinesFirst, Increasing, AllLines, NothingYet, ReadLast
<1>4. \A f : Exact(f) => Exact(f)'
  BY <1>1 DEF Exact
<1> QED BY <1>1, <1>2, <1>3, <1>4 DEF OrderInv

\* The event loop takes an item from the way to it, and puts it last in the queue.
LEMMA PutKeeps ==
  ASSUME LogTypes, OrderInv, Put
  PROVE  OrderInv'
<1>1. /\ posted # <<>> /\ posted' = Tail(posted) /\ UNCHANGED <<aged, pump, read, shown>>
      /\ \/ queue' = Append(queue, Head(posted)) /\ UNCHANGED missed
         \/ missed' = TRUE /\ UNCHANGED queue
  BY DEF Put
<1>2. /\ 1 \in 1..Len(posted) /\ Head(posted) = posted[1] /\ Head(posted) \in Posts
      /\ Len(posted') = Len(posted) - 1
      /\ \A i \in 1..Len(posted') : i + 1 \in 1..Len(posted) /\ posted'[i] = posted[i + 1]
  BY <1>1, Headed, Numbers DEF LogTypes
<1>3. NothingYet' /\ ReadAged'
  BY <1>1 DEF OrderInv, NothingYet, ReadAged
<1>4. \A i, j \in 1..Len(posted') : i < j => i + 1 < j + 1
  BY <1>2, Numbers
<1>5. \A i \in 1..Len(posted') : 1 < i + 1
  BY <1>2, Numbers
<1>6. CASE missed' = TRUE /\ UNCHANGED queue
  <2>1. LinesFirst' /\ AllLines'
    BY <1>1, <1>2, <1>4, <1>6 DEF OrderInv, LinesFirst, AllLines
  <2>2. Increasing'
    BY <1>1, <1>2, <1>4, <1>6 DEF OrderInv, Increasing
  <2>3. ReadLast'
    BY <1>1, <1>2, <1>6 DEF OrderInv, ReadLast
  <2> QED BY <1>3, <1>6, <2>1, <2>2, <2>3 DEF OrderInv
<1>7. CASE queue' = Append(queue, Head(posted)) /\ UNCHANGED missed
  <2>1. /\ Len(queue) \in Nat /\ Len(queue') = Len(queue) + 1
        /\ \A i \in 1..Len(queue) : queue'[i] = queue[i]
        /\ queue'[Len(queue) + 1] = posted[1]
    BY <1>2, <1>7, Appended DEF LogTypes
  <2>2. \A i \in 1..Len(queue') : i \in 1..Len(queue) \/ i = Len(queue) + 1
    BY <2>1
  <2>3. \A i, j \in 1..Len(queue') : i < j => i \in 1..Len(queue)
    BY <2>1
  <2>4. LinesFirst'
    <3>1. \A i, j \in 1..Len(queue') : i < j /\ IsLine(queue'[j]) => IsLine(queue'[i])
      BY <1>2, <2>1, <2>2, <2>3 DEF OrderInv, LinesFirst
    <3>2. \A i, j \in 1..Len(posted') : i < j /\ IsLine(posted'[j]) => IsLine(posted'[i])
      BY <1>2, <1>4 DEF OrderInv, LinesFirst
    <3>3. \A i \in 1..Len(queue'), j \in 1..Len(posted') :
            IsLine(posted'[j]) => IsLine(queue'[i])
      BY <1>2, <1>5, <2>1, <2>2 DEF OrderInv, LinesFirst
    <3> QED BY <3>1, <3>2, <3>3 DEF LinesFirst
  <2>5. AllLines' /\ ReadLast'
    BY <1>1, <1>2, <2>1, <2>2 DEF OrderInv, AllLines, ReadLast
  <2>6. Increasing'
    <3>1. \A i, j \in 1..Len(queue') :
            i < j /\ IsLine(queue'[j]) => queue'[i].line < queue'[j].line
      BY <1>2, <2>1, <2>2, <2>3 DEF OrderInv, Increasing
    <3>2. \A i, j \in 1..Len(posted') :
            i < j /\ IsLine(posted'[j]) => posted'[i].line < posted'[j].line
      BY <1>2, <1>4 DEF OrderInv, Increasing
    <3>3. \A i \in 1..Len(queue'), j \in 1..Len(posted') :
            IsLine(posted'[j]) => queue'[i].line < posted'[j].line
      BY <1>2, <1>5, <2>1, <2>2, SMTT(30) DEF OrderInv, Increasing
    <3>4. \A i, j \in 1..Len(shown') : i < j => shown'[i] < shown'[j]
      BY <1>1 DEF OrderInv, Increasing
    <3>5. \A i \in 1..Len(shown'), j \in 1..Len(queue') :
            IsLine(queue'[j]) => shown'[i] < queue'[j].line
      BY <1>1, <1>2, <2>1, <2>2 DEF OrderInv, Increasing
    <3>6. \A i \in 1..Len(shown'), j \in 1..Len(posted') :
            IsLine(posted'[j]) => shown'[i] < posted'[j].line
      BY <1>1, <1>2 DEF OrderInv, Increasing
    <3> QED BY <3>1, <3>2, <3>3, <3>4, <3>5, <3>6 DEF Increasing
  <2>7. ASSUME NEW f \in Nat, Exact(f) PROVE Exact(f)'
    <3>1. \A i \in 1..Len(shown') : shown'[i] = f + i
      BY <1>1, <2>7 DEF Exact
    <3>2. \A i \in 1..Len(queue') : IsLine(queue'[i]) => queue'[i].line = f + Len(shown') + i
      <4>1. IsLine(posted[1]) => posted[1].line = f + Len(shown) + Len(queue) + 1
        BY <1>2, <2>7 DEF Exact
      <4>2. f + Len(shown) + Len(queue) + 1 = f + Len(shown) + (Len(queue) + 1)
        BY Numbers
      <4>3. \A i \in 1..Len(queue) : IsLine(queue'[i]) => queue'[i].line = f + Len(shown) + i
        BY <2>1, <2>7 DEF Exact
      <4> QED BY <1>1, <2>1, <2>2, <4>1, <4>2, <4>3
    <3>3. \A i \in 1..Len(posted') :
            IsLine(posted'[i]) => posted'[i].line = f + Len(shown') + Len(queue') + i
      <4>1. \A i \in 1..Len(posted') :
              IsLine(posted'[i]) => posted'[i].line = f + Len(shown) + Len(queue) + (i + 1)
        BY <1>2, <2>7 DEF Exact
      <4>2. \A i \in Nat :
              f + Len(shown) + Len(queue) + (i + 1) = f + Len(shown) + (Len(queue) + 1) + i
        BY Numbers
      <4> QED BY <1>1, <2>1, <4>1, <4>2
    <3>4. pump' \in {"reopening", "reading"} =>
            read' = f + Len(shown') + Len(queue') + Len(posted')
      <4>1. pump \in {"reopening", "reading"} =>
              read = f + Len(shown) + Len(queue) + Len(posted)
        BY <2>7 DEF Exact
      <4>2. f + Len(shown) + Len(queue) + Len(posted)
              = f + Len(shown) + (Len(queue) + 1) + (Len(posted) - 1)
        BY Numbers
      <4> QED BY <1>1, <1>2, <2>1, <4>1, <4>2
    <3> QED BY <3>1, <3>2, <3>3, <3>4 DEF Exact
  <2> QED BY <1>3, <1>7, <2>4, <2>5, <2>6, <2>7 DEF OrderInv
<1> QED BY <1>1, <1>6, <1>7

\* The coroutine shows a line; when another item is taken, no line is behind it.
LEMMA FeedsKeeps ==
  ASSUME LogTypes, OrderInv, Feeds
  PROVE  OrderInv'
<1>1. /\ queue # <<>> /\ queue' = Tail(queue)
      /\ shown' = IF IsLine(Head(queue)) THEN Append(shown, Head(queue).line) ELSE shown
      /\ UNCHANGED <<aged, pump, read, posted, missed>>
  BY DEF Feeds, IsLine, pumpVars
<1>2. /\ 1 \in 1..Len(queue) /\ Head(queue) = queue[1]
      /\ Len(queue') = Len(queue) - 1
      /\ \A i \in 1..Len(queue') : i + 1 \in 1..Len(queue) /\ queue'[i] = queue[i + 1]
  BY <1>1, Headed, Numbers DEF LogTypes
<1>3. NothingYet' /\ ReadAged'
  BY <1>1 DEF OrderInv, NothingYet, ReadAged
<1>4. \A i, j \in 1..Len(queue') : i < j => i + 1 < j + 1
  BY <1>2, Numbers
<1>5. \A i \in 1..Len(queue') : 1 < i + 1
  BY <1>2, Numbers
<1>6. LinesFirst' /\ AllLines'
  BY <1>1, <1>2, <1>4 DEF OrderInv, LinesFirst, AllLines
<1>7. /\ \A i, j \in 1..Len(queue') :
           i < j /\ IsLine(queue'[j]) => queue'[i].line < queue'[j].line
      /\ \A i, j \in 1..Len(posted') :
           i < j /\ IsLine(posted'[j]) => posted'[i].line < posted'[j].line
      /\ \A i \in 1..Len(queue'), j \in 1..Len(posted') :
           IsLine(posted'[j]) => queue'[i].line < posted'[j].line
  BY <1>1, <1>2, <1>4 DEF OrderInv, Increasing
<1>8. CASE ~IsLine(queue[1])
  <2>1. shown' = shown
    BY <1>1, <1>2, <1>8
  <2>2. /\ \A i \in 1..Len(queue') : ~IsLine(queue'[i])
        /\ \A i \in 1..Len(posted') : ~IsLine(posted'[i])
        /\ pump' \notin {"reopening", "reading"}
    BY <1>1, <1>2, <1>5, <1>8 DEF OrderInv, LinesFirst, AllLines
  <2>3. Increasing' /\ ReadLast'
    BY <1>7, <2>1, <2>2 DEF OrderInv, Increasing, ReadLast
  <2>4. \A f : Exact(f) => Exact(f)'
    BY <2>1, <2>2 DEF Exact
  <2> QED BY <1>1, <1>3, <1>6, <2>3, <2>4 DEF OrderInv
<1>9. CASE IsLine(queue[1])
  <2>1. shown' = Append(shown, queue[1].line) /\ queue[1].line \in Nat
    BY <1>1, <1>2, <1>9, Numbers
  <2>2. /\ Len(shown) \in Nat /\ Len(shown') = Len(shown) + 1
        /\ \A i \in 1..Len(shown) : shown'[i] = shown[i]
        /\ shown'[Len(shown) + 1] = queue[1].line
    <3>1. queue[1].line \in 1..MaxLines /\ shown \in Seq(1..MaxLines)
      BY <1>2, <1>9, Numbers DEF Posts, Items, LogTypes, LogTypeOK
    <3> QED BY <2>1, <3>1, Appended
  <2>3. \A i \in 1..Len(shown') : i \in 1..Len(shown) \/ i = Len(shown) + 1
    BY <2>2
  <2>4. \A i, j \in 1..Len(shown') : i < j => i \in 1..Len(shown)
    BY <2>2
  <2>5. Increasing'
    <3>1. \A i, j \in 1..Len(shown') : i < j => shown'[i] < shown'[j]
      BY <1>2, <1>9, <2>2, <2>3, <2>4, SMTT(30) DEF OrderInv, Increasing
    <3>2. \A i \in 1..Len(shown'), j \in 1..Len(queue') :
            IsLine(queue'[j]) => shown'[i] < queue'[j].line
      BY <1>2, <1>5, <2>2, <2>3 DEF OrderInv, Increasing
    <3>3. \A i \in 1..Len(shown'), j \in 1..Len(posted') :
            IsLine(posted'[j]) => shown'[i] < posted'[j].line
      <4>1. \A j \in 1..Len(posted) : IsLine(posted[j]) =>
              /\ \A i \in 1..Len(shown) : shown'[i] < posted[j].line
              /\ shown'[Len(shown) + 1] < posted[j].line
        BY <1>2, <2>2 DEF OrderInv, Increasing
      <4> QED BY <1>1, <2>3, <4>1
    <3> QED BY <1>7, <3>1, <3>2, <3>3 DEF Increasing
  <2>6. ReadLast'
    BY <1>1, <1>2, <2>2, <2>3 DEF OrderInv, ReadLast
  <2>7. ASSUME NEW f \in Nat, Exact(f) PROVE Exact(f)'
    <3>1. \A i \in 1..Len(shown') : shown'[i] = f + i
      <4>1. queue[1].line = f + Len(shown) + 1
        BY <1>2, <1>9, <2>7 DEF Exact
      <4>2. f + Len(shown) + 1 = f + (Len(shown) + 1)
        BY Numbers
      <4>3. \A i \in 1..Len(shown) : shown'[i] = f + i
        BY <2>2, <2>7 DEF Exact
      <4> QED BY <2>2, <2>3, <4>1, <4>2, <4>3
    <3>2. \A i \in 1..Len(queue') :
            IsLine(queue'[i]) => queue'[i].line = f + Len(shown') + i
      <4>1. \A i \in 1..Len(queue') :
              IsLine(queue'[i]) => queue'[i].line = f + Len(shown) + (i + 1)
        BY <1>2, <2>7 DEF Exact
      <4>2. \A i \in 1..Len(queue') : f + Len(shown) + (i + 1) = f + (Len(shown) + 1) + i
        BY <1>2, <2>2, Numbers
      <4>3. Len(shown') = Len(shown) + 1
        BY <2>2
      <4> QED BY <4>1, <4>2, <4>3
    <3>3. \A i \in 1..Len(posted') :
            IsLine(posted'[i]) => posted'[i].line = f + Len(shown') + Len(queue') + i
      <4>1. \A i \in 1..Len(posted) :
              IsLine(posted[i]) => posted[i].line = f + Len(shown) + Len(queue) + i
        BY <2>7 DEF Exact
      <4>2. \A i \in Nat :
              f + Len(shown) + Len(queue) + i = f + (Len(shown) + 1) + (Len(queue) - 1) + i
        BY Numbers
      <4> QED BY <1>1, <1>2, <2>2, <4>1, <4>2
    <3>4. pump' \in {"reopening", "reading"} =>
            read' = f + Len(shown') + Len(queue') + Len(posted')
      <4>1. pump \in {"reopening", "reading"} =>
              read = f + Len(shown) + Len(queue) + Len(posted)
        BY <2>7 DEF Exact
      <4>2. f + Len(shown) + Len(queue) + Len(posted)
              = f + (Len(shown) + 1) + (Len(queue) - 1) + Len(posted)
        BY Numbers
      <4> QED BY <1>1, <1>2, <2>2, <4>1, <4>2
    <3> QED BY <3>1, <3>2, <3>3, <3>4 DEF Exact
  <2> QED BY <1>1, <1>3, <1>6, <2>5, <2>6, <2>7 DEF OrderInv
<1> QED BY <1>8, <1>9

LEMMA OrderNext ==
  LogTypes /\ OrderInv /\ [LogNext]_logVars => OrderInv'
<1> SUFFICES ASSUME LogTypes, OrderInv, [LogNext]_logVars PROVE OrderInv'
  OBVIOUS
<1>1. CASE Logs \/ Exits \/ PodGoes \/ Leaves \/ Noticed \/ UNCHANGED logVars
  <2>1. UNCHANGED <<pumpVars, queue, shown, missed, aged>>
    BY <1>1 DEF Logs, Exits, PodGoes, Leaves, Noticed, logVars, pumpVars
  <2>2. aged' \in Nat /\ aged' >= aged
    BY <2>1, Numbers
  <2> QED BY <2>1, <2>2, BesideKeeps
<1>2. CASE Ages
  <2>1. UNCHANGED <<pumpVars, queue, shown, missed>> /\ aged' = aged + 1
    BY <1>2 DEF Ages
  <2>2. aged' \in Nat /\ aged' >= aged
    BY <2>1, Numbers
  <2> QED BY <2>1, <2>2, BesideKeeps
<1>3. CASE OpensNothing \/ OpenFails \/ Ends
  <2>1. PICK kind \in {"notice", "end", "error"} :
          posted' \in {posted, Append(posted, Item(kind))}
    BY <1>3 DEF OpensNothing, OpenFails, Ends, Farewell, Post
  <2>2. pump' \in {"ending", "done"} /\ UNCHANGED <<read, queue, shown, missed>>
    BY <1>3 DEF OpensNothing, OpenFails, Ends
  <2>3. Item(kind) \in Posts /\ ~IsLine(Item(kind))
    BY PostedItem
  <2> QED BY <2>1, <2>2, <2>3, StopKeeps
<1>4. CASE StreamEnds \/ (Stopped /\ (ReadsLine \/ Idles))
  <2>1. pump' \in {"ending", "done"} /\ UNCHANGED <<read, queue, shown, missed, posted>>
    BY <1>4 DEF StreamEnds, ReadsLine, Idles, AfterHeartbeat
  <2>2. Item("end") \in Posts /\ ~IsLine(Item("end"))
    BY PostedItem
  <2> QED BY <2>1, <2>2, StopKeeps
<1>5. CASE ~Stopped /\ (ReadsLine \/ Idles)
  BY <1>5, ReadsLineKeeps, IdlesKeeps
<1>6. CASE StreamOpens
  BY <1>6, LogTypeNext, OpensKeeps
<1>7. CASE Put
  BY <1>7, PutKeeps
<1>8. CASE Feeds
  BY <1>8, FeedsKeeps
<1> QED BY <1>1, <1>2, <1>3, <1>4, <1>5, <1>6, <1>7, <1>8 DEF LogNext, Pump, Loop

-----------------------------------------------------------------------------

(***************************************************************************)
(* The queue never holds more than its size, whatever the thread posts,    *)
(* and every line is one the container has logged.                         *)
(***************************************************************************)
THEOREM LogTypeCorrect ==
  LogSpec => []LogTypeOK
<1>1. LogInit => LogTypes
  BY LogTypeInit
<1>2. LogTypes /\ [LogNext]_logVars => LogTypes'
  BY LogTypeNext
<1>3. LogTypes => LogTypeOK
  BY DEF LogTypes
<1> QED BY <1>1, <1>2, <1>3, PTL DEF LogSpec

(***************************************************************************)
(* The viewer sees the lines in order, none twice, however often the       *)
(* stream is opened again; and none is left out as long as the queue had   *)
(* room and no reconnect took longer than its look-back.                   *)
(***************************************************************************)
THEOREM LinesStayInOrder ==
  LogSpec => []LinesInOrder
<1>1. LogInit => LogTypes /\ OrderInv
  BY LogTypeInit, OrderInit
<1>2. LogTypes /\ OrderInv /\ [LogNext]_logVars => (LogTypes /\ OrderInv)'
  BY LogTypeNext, OrderNext
<1>3. LogTypes /\ OrderInv => LinesInOrder
  <2> SUFFICES ASSUME LogTypes, OrderInv, NEW i \in 1..Len(shown) - 1
               PROVE  shown[i + 1] = shown[i] + 1 \/ (missed /\ shown[i + 1] > shown[i])
    BY DEF LinesInOrder
  <2>1. /\ i \in 1..Len(shown) /\ i + 1 \in 1..Len(shown) /\ i < i + 1
        /\ shown[i] \in Nat /\ shown[i + 1] \in Nat
    BY Numbers
  <2>2. CASE missed
    <3>1. shown[i] < shown[i + 1]
      BY <2>1 DEF OrderInv, Increasing
    <3> QED BY <2>1, <2>2, <3>1
  <2>3. CASE ~missed
    <3>1. PICK f \in Nat : Exact(f)
      BY <2>3 DEF OrderInv
    <3>2. shown[i] = f + i /\ shown[i + 1] = f + (i + 1)
      BY <2>1, <3>1 DEF Exact
    <3> QED BY <3>2
  <2> QED BY <2>2, <2>3
<1> QED BY <1>1, <1>2, <1>3, PTL DEF LogSpec

-----------------------------------------------------------------------------
(* Suggestions *)

LEMMA SuggestionsTypeInit == SuggestionsInit => SuggestionsTypeOK
<1> SUFFICES ASSUME SuggestionsInit PROVE SuggestionsTypeOK
  OBVIOUS
<1>1. 0 \in Texts /\ 0 \in 0..MaxReads
  BY SuggestionsAssumption DEF Texts
<1>2. /\ Closed \in [open: BOOLEAN, text: Texts, pending: BOOLEAN]
      /\ NoRequest \in [text: Texts, answer: {"none", "asked", "ready", "pending", "failed"}]
  BY <1>1 DEF Closed, NoRequest
<1> QED BY <1>1, <1>2 DEF SuggestionsInit, SuggestionsTypeOK

LEMMA SupersededTyped == SuggestionsTypeOK => Superseded \subseteq Texts
BY DEF SuggestionsTypeOK, Superseded

LEMMA FetchTyped ==
  ASSUME SuggestionsTypeOK, NEW t \in Texts, NEW left \in SUBSET {"type", "retry", "blur"},
         Fetch(t, left)
  PROVE  /\ timers' \subseteq {"type", "retry", "blur"} /\ handle' = "none"
         /\ newest' \in [text: Texts, answer: {"none", "asked", "ready", "pending", "failed"}]
         /\ stale' \subseteq Texts
BY SupersededTyped DEF Fetch

LEMMA SuggestionsTypeNext ==
  SuggestionsTypeOK /\ [SuggestionsNext]_suggestionsVars
    => SuggestionsTypeOK'
<1> SUFFICES ASSUME SuggestionsTypeOK,
                    [SuggestionsNext]_suggestionsVars
             PROVE  SuggestionsTypeOK'
  OBVIOUS
<1> USE DEF SuggestionsTypeOK, serviceVars
<1>1. /\ Closed \in [open: BOOLEAN, text: Texts, pending: BOOLEAN]
      /\ NoRequest \in [text: Texts, answer: {"none", "asked", "ready", "pending", "failed"}]
      /\ Superseded \subseteq Texts
  BY SupersededTyped, SuggestionsAssumption DEF Closed, NoRequest, Texts
<1>2. text < MaxTexts => text + 1 \in Texts
  BY SuggestionsAssumption DEF Texts
<1>3. CASE Types
  BY <1>2, <1>3 DEF Types
<1>4. ASSUME NEW t \in {"type", "retry"}, TimerFires(t) PROVE SuggestionsTypeOK'
  <2>1. CASE typed /\ Fetch(text, timers \ {t}) /\ UNCHANGED list
    <3>1. timers \ {t} \in SUBSET {"type", "retry", "blur"}
      OBVIOUS
    <3> QED BY <1>4, <2>1, <3>1, FetchTyped DEF TimerFires
  <2>2. CASE /\ ~typed /\ list' = Closed /\ UNCHANGED <<newest, stale>>
             /\ timers' = timers \ {t, handle} /\ handle' = "none"
    BY <1>1, <1>4, <2>2 DEF TimerFires
  <2> QED BY <1>4, <2>1, <2>2 DEF TimerFires
<1>5. CASE Accepts
  BY <1>2, <1>5, FetchTyped DEF Accepts
<1>6. CASE Dismisses
  BY <1>1, <1>2, <1>6 DEF Dismisses
<1>7. CASE Focuses
  BY <1>7, FetchTyped DEF Focuses
<1>8. CASE Blurs \/ BlurCloses
  BY <1>1, <1>8 DEF Blurs, BlurCloses
<1>9. CASE Answers
  <2>1. PICK a \in {status, "failed"} : newest' = [newest EXCEPT !.answer = a]
    BY <1>9 DEF Answers
  <2>2. newest' \in [text: Texts, answer: {"none", "asked", "ready", "pending", "failed"}]
    BY <2>1
  <2> QED BY <1>9, <2>2 DEF Answers
<1>10. CASE Arrives
  <2>1. newest' = NoRequest /\ UNCHANGED <<text, typed, focus, stale, status, reads>>
    BY <1>10 DEF Arrives
  <2>2. list' \in [open: BOOLEAN, text: Texts, pending: BOOLEAN]
    <3>1. \A pending \in BOOLEAN :
            [open |-> text # 0, text |-> newest.text, pending |-> pending]
              \in [open: BOOLEAN, text: Texts, pending: BOOLEAN]
      OBVIOUS
    <3>2. (newest.answer = "pending") \in BOOLEAN
      OBVIOUS
    <3>3. \/ UNCHANGED list \/ list' = Closed
          \/ Shows(newest.text, newest.answer = "pending")
      BY <1>10 DEF Arrives
    <3> QED BY <1>1, <3>1, <3>2, <3>3 DEF Shows
  <2>3. timers' \subseteq {"type", "retry", "blur"} /\ handle' \in {"none", "type", "retry"}
    BY <1>10 DEF Arrives
  <2> QED BY <1>1, <2>1, <2>2, <2>3
<1>11. ASSUME NEW t \in Texts, ArrivesLate(t) PROVE SuggestionsTypeOK'
  BY <1>11 DEF ArrivesLate, Outdated
<1>12. CASE StartsReading \/ HasRead
  <2>1. reads < MaxReads => reads + 1 \in 0..MaxReads
    BY SuggestionsAssumption
  <2> QED BY <1>12, <2>1 DEF StartsReading, HasRead
<1>13. CASE UNCHANGED suggestionsVars
  BY <1>13 DEF suggestionsVars
<1> QED BY <1>3, <1>4, <1>5, <1>6, <1>7, <1>8, <1>9, <1>10, <1>11, <1>12, <1>13
      DEF SuggestionsNext, User, Delivery

\* Under a text typed at its end: it is still to be asked for, has been asked for, or
\* the list shown is the one for it.
UnderWay == "type" \in timers \/ (newest # NoRequest /\ newest.text = text)

FreshInv ==
  focus /\ typed => UnderWay \/ (newest = NoRequest /\ (list.open => list.text = text))

LEMMA FetchUnderWay ==
  ASSUME NEW left, NEW t, Fetch(t, left), text' = t
  PROVE  UnderWay'
BY DEF Fetch, UnderWay, NoRequest

LEMMA FreshInvNext ==
  SuggestionsTypeOK /\ FreshInv /\ [SuggestionsNext]_suggestionsVars => FreshInv'
<1> SUFFICES ASSUME SuggestionsTypeOK, FreshInv, [SuggestionsNext]_suggestionsVars
             PROVE  FreshInv'
  OBVIOUS
<1> USE DEF FreshInv, serviceVars
<1>1. CASE Types
  BY <1>1 DEF Types, UnderWay
<1>2. ASSUME NEW t \in {"type", "retry"}, TimerFires(t) PROVE FreshInv'
  <2>1. CASE typed /\ Fetch(text, timers \ {t})
    <3>1. text' = text
      BY <1>2 DEF TimerFires
    <3> QED BY <2>1, <3>1, FetchUnderWay
  <2>2. CASE ~typed
    BY <1>2, <2>2 DEF TimerFires
  <2> QED BY <1>2, <2>1, <2>2 DEF TimerFires
<1>3. CASE Accepts
  BY <1>3, FetchUnderWay DEF Accepts
<1>4. CASE Focuses
  BY <1>4, FetchUnderWay DEF Focuses
<1>5. CASE Dismisses \/ Blurs
  BY <1>5 DEF Dismisses, Blurs
<1>6. CASE BlurCloses
  BY <1>6 DEF BlurCloses, Closed, UnderWay
<1>7. CASE Answers
  <2>1. PICK a \in {status, "failed"} : newest' = [newest EXCEPT !.answer = a]
    BY <1>7 DEF Answers
  <2>2. newest # NoRequest /\ newest'.text = newest.text /\ newest' # NoRequest
    BY <1>7, <2>1 DEF Answers, NoRequest, SuggestionsTypeOK
  <2> QED BY <1>7, <2>2 DEF Answers, UnderWay
<1>8. CASE Arrives
  <2>1. newest # NoRequest /\ newest' = NoRequest /\ UNCHANGED <<text, typed, focus>>
    BY <1>8 DEF Arrives, NoRequest
  <2>2. focus => list' = Closed \/ list'.text = newest.text
    BY <1>8 DEF Arrives, Shows
  <2>3. "type" \in timers => "type" \in timers'
    BY <1>8 DEF Arrives
  <2> QED BY <2>1, <2>2, <2>3 DEF UnderWay, Closed
<1>9. ASSUME NEW t \in Texts, ArrivesLate(t) PROVE FreshInv'
  BY <1>9 DEF ArrivesLate, Outdated, UnderWay
<1>10. CASE StartsReading \/ HasRead \/ UNCHANGED suggestionsVars
  BY <1>10 DEF StartsReading, HasRead, suggestionsVars, UnderWay
<1> QED BY <1>1, <1>2, <1>3, <1>4, <1>5, <1>6, <1>7, <1>8, <1>9, <1>10
      DEF SuggestionsNext, User, Delivery

(***************************************************************************)
(* The timers and requests of the page stay in their shapes, for any       *)
(* number of changes of the text.                                          *)
(***************************************************************************)
THEOREM SuggestionsTypeCorrect ==
  SuggestionsSpec => []SuggestionsTypeOK
BY SuggestionsTypeInit, SuggestionsTypeNext, PTL DEF SuggestionsSpec

(***************************************************************************)
(* When nothing is under way, the list under a text typed at its end is    *)
(* the list for that text, in whatever order answers and timers came.      *)
(***************************************************************************)
THEOREM SuggestionsStayFresh ==
  SuggestionsSpec => []SuggestionsFresh
<1>1. SuggestionsInit => FreshInv
  BY DEF SuggestionsInit, FreshInv
<1>2. FreshInv => SuggestionsFresh
  BY DEF FreshInv, UnderWay, SuggestionsFresh
<1> QED BY <1>1, <1>2, SuggestionsTypeInit, SuggestionsTypeNext, FreshInvNext,
           PTL DEF SuggestionsSpec

-----------------------------------------------------------------------------
(* CommandsJob: servers get later pods, and one Job runs at a time.        *)

CommandsShapes ==
  /\ server \in {0, started} /\ started \in 0..MaxServers
  /\ podOf \in [Servers -> Servers \cup {0}]
  /\ recorded \in Servers \cup {0}
  /\ job \in [Servers -> {"none", "running", "ended"}]
  /\ cache \in {"none", "ready", "pending"}
  /\ repeats \in 0..MaxRepeats

OneJob == \A r, s \in Servers : job[r] = "running" /\ job[s] = "running" => r = s

\* A later server's pod is no earlier one, and nothing is recorded before it ran.
PodsForward ==
  /\ \A s \in Servers : podOf[s] <= s
  /\ \A r, s \in Servers : r <= s /\ s <= started => podOf[r] <= podOf[s]
  /\ recorded = 0 \/ (started # 0 /\ recorded <= podOf[started])
  /\ \A s \in Servers : job[s] = "running" => s <= started /\ recorded <= podOf[s]

CommandsInv == CommandsShapes /\ OneJob /\ PodsForward

LEMMA CommandsInit0 == CommandsInit => CommandsInv
<1> SUFFICES ASSUME CommandsInit PROVE CommandsInv
  OBVIOUS
<1>1. 0 \in 0..MaxServers /\ 0 \in 0..MaxRepeats
  BY CommandsAssumption
<1>2. CommandsShapes
  BY <1>1 DEF CommandsInit, CommandsShapes
<1>3. OneJob /\ PodsForward
  BY <1>1, CommandsAssumption DEF CommandsInit, OneJob, PodsForward, Servers
<1> QED BY <1>2, <1>3 DEF CommandsInv

LEMMA CommandNumbers ==
  ASSUME CommandsInv
  PROVE  /\ Servers \subseteq Nat /\ 0 \notin Servers
         /\ started \in Nat /\ server \in Nat /\ recorded \in Nat
         /\ \A s \in Servers : podOf[s] \in Nat
         /\ started # 0 => started \in Servers
BY CommandsAssumption DEF CommandsInv, CommandsShapes, Servers

LEMMA AsksKeeps ==
  ASSUME CommandsInv, Asks
  PROVE  CommandsInv'
<1>1. /\ cache' = Status
      /\ job' = IF NeedsJob THEN [job EXCEPT ![server] = "running"] ELSE job
      /\ UNCHANGED <<server, started, podOf, recorded, repeats>>
  BY DEF Asks
<1>2. cache' \in {"ready", "pending"}
  BY <1>1 DEF Status
<1>3. CASE ~NeedsJob
  BY <1>1, <1>2, <1>3 DEF CommandsInv, CommandsShapes, OneJob, PodsForward
<1>4. CASE NeedsJob
  <2>1. /\ server = started /\ started # 0 /\ started \in Servers
        /\ \A s \in Servers : job[s] # "running"
    BY <1>4, CommandNumbers
       DEF NeedsJob, CommandsKnown, Unfinished, CommandsInv, CommandsShapes
  <2>2. job' = [job EXCEPT ![started] = "running"]
    BY <1>1, <1>4, <2>1
  <2>3. \A s \in Servers : job'[s] = "running" => s = started
    BY <2>1, <2>2 DEF CommandsInv, CommandsShapes
  <2>4. job' \in [Servers -> {"none", "running", "ended"}]
    BY <2>2 DEF CommandsInv, CommandsShapes
  <2>5. CommandsShapes'
    BY <1>1, <1>2, <2>4 DEF CommandsInv, CommandsShapes
  <2>6. OneJob'
    BY <2>3 DEF OneJob
  <2>7. started <= started /\ recorded <= podOf[started]
    BY <2>1, CommandNumbers DEF CommandsInv, PodsForward
  <2>8. PodsForward'
    BY <1>1, <2>3, <2>7 DEF CommandsInv, PodsForward
  <2> QED BY <2>5, <2>6, <2>8 DEF CommandsInv
<1> QED BY <1>3, <1>4

LEMMA JobEndsKeeps ==
  ASSUME CommandsInv, NEW s \in Servers, JobEnds(s)
  PROVE  CommandsInv' /\ recorded' >= recorded
<1>1. /\ job[s] = "running" /\ job' = [job EXCEPT ![s] = "ended"]
      /\ recorded' \in {recorded, podOf[s]}
      /\ UNCHANGED <<server, started, podOf, cache, repeats>>
  BY DEF JobEnds
<1>2. s <= started /\ recorded <= podOf[s] /\ started \in Servers /\ started # 0
  <2>1. s <= started /\ recorded <= podOf[s]
    BY <1>1 DEF CommandsInv, PodsForward
  <2>2. s # 0 /\ s \in Nat /\ started \in Nat
    BY CommandNumbers
  <2>3. started # 0
    BY <2>1, <2>2
  <2> QED BY <2>1, <2>3, CommandNumbers
<1>3. recorded' >= recorded /\ recorded' \in Servers \cup {0}
  <2>1. podOf[s] \in Servers \cup {0} /\ recorded \in Servers \cup {0}
    BY DEF CommandsInv, CommandsShapes
  <2> QED BY <1>1, <1>2, <2>1, CommandNumbers
<1>4. \A r \in Servers : job'[r] # "running"
  BY <1>1 DEF CommandsInv, CommandsShapes, OneJob
<1>5. job' \in [Servers -> {"none", "running", "ended"}]
  BY <1>1 DEF CommandsInv, CommandsShapes
<1>6. CommandsShapes' /\ OneJob'
  BY <1>1, <1>3, <1>4, <1>5 DEF CommandsInv, CommandsShapes, OneJob
<1>7. recorded' <= podOf[started]
  <2>1. podOf[s] <= podOf[started]
    BY <1>2, CommandNumbers DEF CommandsInv, PodsForward
  <2> QED BY <1>1, <1>2, <2>1, CommandNumbers
<1>8. PodsForward'
  BY <1>1, <1>2, <1>4, <1>7 DEF CommandsInv, PodsForward
<1> QED BY <1>3, <1>6, <1>8 DEF CommandsInv

LEMMA ServerStartsKeeps ==
  ASSUME CommandsInv, ServerStarts
  PROVE  CommandsInv'
<1> DEFINE n == started + 1
<1>1. /\ started < MaxServers /\ started' = n /\ server' = n
      /\ UNCHANGED <<recorded, job, cache, repeats>>
  BY DEF ServerStarts
<1>2. PICK p \in {n} \cup {podOf[s] : s \in Servers \cap {started}} :
        podOf' = [podOf EXCEPT ![n] = p]
  BY DEF ServerStarts
<1>3. n \in Servers /\ n \in Nat /\ n # 0 /\ started < n
  BY <1>1, CommandNumbers, CommandsAssumption DEF Servers
<1>4. p \in Servers \cup {0} /\ p \in Nat /\ p <= n
      /\ (started # 0 => podOf[started] <= p)
  <2>1. CASE p = n
    <3>1. started # 0 => podOf[started] <= started
      BY CommandNumbers DEF CommandsInv, PodsForward
    <3> QED BY <1>3, <2>1, <3>1, CommandNumbers
  <2>2. CASE p \in {podOf[s] : s \in Servers \cap {started}}
    <3>1. started \in Servers /\ p = podOf[started]
      BY <2>2
    <3>2. podOf[started] <= started /\ podOf[started] \in Servers \cup {0}
      BY <3>1 DEF CommandsInv, PodsForward, CommandsShapes
    <3> QED BY <1>3, <3>1, <3>2, CommandNumbers
  <2> QED BY <2>1, <2>2
<1>5. podOf'[n] = p /\ \A s \in Servers \ {n} : podOf'[s] = podOf[s]
  BY <1>2, <1>3 DEF CommandsInv, CommandsShapes
<1>6. CommandsShapes'
  <2>1. podOf' \in [Servers -> Servers \cup {0}]
    BY <1>2, <1>4 DEF CommandsInv, CommandsShapes
  <2>2. n \in 0..MaxServers
    BY <1>1, <1>3, CommandNumbers, CommandsAssumption
  <2> QED BY <1>1, <2>1, <2>2 DEF CommandsInv, CommandsShapes
<1>7. OneJob'
  BY <1>1 DEF CommandsInv, OneJob
<1>8. \A s \in Servers : podOf'[s] <= s
  BY <1>4, <1>5 DEF CommandsInv, PodsForward
<1>9. \A s \in Servers : s <= n => s = n \/ (s <= started /\ s # n)
  BY CommandNumbers, <1>3
<1>10. \A r \in Servers : r <= started => podOf[r] <= p
  <2> SUFFICES ASSUME NEW r \in Servers, r <= started PROVE podOf[r] <= p
    OBVIOUS
  <2>1. started # 0 /\ started \in Servers
    BY CommandNumbers
  <2>2. podOf[r] <= podOf[started]
    BY <2>1, CommandNumbers DEF CommandsInv, PodsForward
  <2> QED BY <1>4, <2>1, <2>2, CommandNumbers
<1>11. \A r, s \in Servers : r <= s /\ s <= n => podOf'[r] <= podOf'[s]
  <2> SUFFICES ASSUME NEW r \in Servers, NEW s \in Servers, r <= s, s <= n
               PROVE  podOf'[r] <= podOf'[s]
    OBVIOUS
  <2>1. r <= n
    BY CommandNumbers, <1>3
  <2>2. CASE s = n
    BY <1>4, <1>5, <1>9, <1>10, <2>1, <2>2
  <2>3. CASE s <= started /\ s # n
    <3>1. r <= started /\ r # n
      BY <1>3, <2>3, CommandNumbers
    <3> QED BY <1>5, <2>3, <3>1 DEF CommandsInv, PodsForward
  <2> QED BY <1>9, <2>2, <2>3
<1>12. recorded' = 0 \/ (started' # 0 /\ recorded' <= podOf'[started'])
  BY <1>1, <1>3, <1>4, <1>5, CommandNumbers DEF CommandsInv, PodsForward
<1>13. \A s \in Servers : job'[s] = "running" => s <= started' /\ recorded' <= podOf'[s]
  <2> SUFFICES ASSUME NEW s \in Servers, job[s] = "running"
               PROVE  s <= n /\ recorded <= podOf'[s]
    BY <1>1
  <2>1. s <= started /\ recorded <= podOf[s]
    BY DEF CommandsInv, PodsForward
  <2>2. s # n
    BY <1>3, <2>1, CommandNumbers
  <2> QED BY <1>3, <1>5, <2>1, <2>2, CommandNumbers
<1>14. PodsForward'
  BY <1>1, <1>8, <1>11, <1>12, <1>13 DEF PodsForward
<1> QED BY <1>6, <1>7, <1>14 DEF CommandsInv

LEMMA CommandsStep ==
  CommandsInv /\ [CommandsNext]_commandsVars
    => CommandsInv' /\ [recorded' >= recorded]_commandsVars
<1> SUFFICES ASSUME CommandsInv, [CommandsNext]_commandsVars
             PROVE  CommandsInv' /\ recorded' >= recorded
  OBVIOUS
<1>1. ASSUME recorded' = recorded PROVE recorded' >= recorded
  BY <1>1, CommandNumbers
<1>2. CASE Asks
  BY <1>1, <1>2, AsksKeeps DEF Asks
<1>3. CASE CacheExpires
  BY <1>1, <1>3 DEF CacheExpires, CommandsInv, CommandsShapes, OneJob, PodsForward
<1>4. CASE ServerStarts
  BY <1>1, <1>4, ServerStartsKeeps DEF ServerStarts
<1>5. CASE ServerStops
  BY <1>1, <1>5 DEF ServerStops, CommandsInv, CommandsShapes, OneJob, PodsForward
<1>6. ASSUME NEW s \in Servers, JobEnds(s) PROVE CommandsInv' /\ recorded' >= recorded
  BY <1>6, JobEndsKeeps
<1>7. ASSUME NEW s \in Servers, JobExpires(s) PROVE CommandsInv' /\ recorded' >= recorded
  <2>1. /\ job' = [job EXCEPT ![s] = "none"] /\ repeats < MaxRepeats /\ repeats' = repeats + 1
        /\ UNCHANGED <<server, started, podOf, recorded, cache>>
    BY <1>7 DEF JobExpires
  <2>2. job' \in [Servers -> {"none", "running", "ended"}]
        /\ \A r \in Servers : job'[r] = "running" => job[r] = "running"
    BY <2>1 DEF CommandsInv, CommandsShapes
  <2>3. repeats' \in 0..MaxRepeats
    BY <2>1, CommandsAssumption DEF CommandsInv, CommandsShapes
  <2>4. CommandsShapes'
    BY <2>1, <2>2, <2>3 DEF CommandsInv, CommandsShapes
  <2>5. OneJob' /\ PodsForward'
    BY <2>1, <2>2 DEF CommandsInv, OneJob, PodsForward
  <2> QED BY <1>1, <2>1, <2>4, <2>5 DEF CommandsInv
<1>8. CASE UNCHANGED commandsVars
  BY <1>1, <1>8 DEF commandsVars, CommandsInv, CommandsShapes, OneJob, PodsForward
<1> QED BY <1>2, <1>3, <1>4, <1>5, <1>6, <1>7, <1>8 DEF CommandsNext

LEMMA OneJobCounted ==
  ASSUME CommandsInv
  PROVE  Cardinality({s \in Servers : job[s] = "running"}) <= 1
<1> DEFINE R == {s \in Servers : job[s] = "running"}
<1>1. CASE R = {}
  BY <1>1, FS_EmptySet
<1>2. CASE R # {}
  <2>1. PICK s \in R : TRUE
    BY <1>2
  <2>2. R = {s}
    BY <2>1 DEF CommandsInv, OneJob
  <2> QED BY <2>2, FS_Singleton
<1> QED BY <1>1, <1>2

LEMMA CommandsTyped == CommandsInv => CommandsTypeOK
<1> SUFFICES ASSUME CommandsInv PROVE CommandsTypeOK
  OBVIOUS
<1>1. server \in 0..started
  BY CommandNumbers DEF CommandsInv, CommandsShapes
<1> QED BY <1>1, OneJobCounted DEF CommandsInv, CommandsShapes, CommandsTypeOK

(***************************************************************************)
(* There is never more than one unfinished commands Job, for any number of *)
(* servers and of consoles that ask.                                       *)
(***************************************************************************)
THEOREM CommandsTypeCorrect ==
  CommandsSpec => []CommandsTypeOK
BY CommandsInit0, CommandsStep, CommandsTyped, PTL DEF CommandsSpec

(***************************************************************************)
(* The pointer file never goes back to an earlier pod: whatever Job ends,  *)
(* and however late, no Job of a later server has recorded its pod.        *)
(***************************************************************************)
THEOREM RecordedStaysForward ==
  CommandsSpec => RecordedForward
<1>1. CommandsInit => CommandsInv
  BY CommandsInit0
<1>2. CommandsInv /\ [CommandsNext]_commandsVars
        => CommandsInv' /\ [recorded' >= recorded]_commandsVars
  BY CommandsStep
<1> QED BY <1>1, <1>2, PTL DEF CommandsSpec, RecordedForward

-----------------------------------------------------------------------------
(* Completion: the nodes the walk over a line comes to are those of every  *)
(* set that has the root and is closed under its steps, so that the walk   *)
(* over a longer line comes to them too.                                   *)

PartOf(l, n, i) == (i + 1)..(IF i + Nodes[n].width <= Len(l) THEN i + Nodes[n].width
                                                             ELSE Len(l))

TakesOf(l, n, i) == \A j \in PartOf(l, n, i) : l[j] \in Nodes[n].accept

PushedOn(l, n, i) ==
  IF l[i + 1] \in Literals(Kids(n)) THEN {<<l[i + 1], i + 1>>}
  ELSE {<<c, i + Nodes[c].width>> :
         c \in {a \in Arguments(Kids(n)) :
                 ~Nodes[a].greedy /\ TakesOf(l, a, i) /\ i + Nodes[a].width <= Len(l)}}

ClosedOn(l, C) ==
  /\ <<Root, 0>> \in C
  /\ \A n \in DOMAIN Nodes, i \in 0..Len(l) - 1 : <<n, i>> \in C => PushedOn(l, n, i) \subseteq C

ReachedOn(l, n, i) == \A C : ClosedOn(l, C) => <<n, i>> \in C

Offers(n, t) ==
  \/ t \in Literals(Kids(n))
  \/ \E a \in Arguments(Kids(n)) : t \in Nodes[a].values

\* The walk so far: what is seen has been followed, and only what can be reached is.
WalkInv ==
  /\ line \in Seq(Tokens)
  /\ <<Root, 0>> \in seen \cup stack
  /\ \A e \in seen \cup stack : e \in (DOMAIN Nodes) \X Nat /\ ReachedOn(line, e[1], e[2])
  /\ \A e \in seen : e[2] < Len(line) =>
       Pushed(e[1], e[2]) \subseteq seen \cup stack /\ Within(e[1], e[2]) \subseteq inside
  /\ \A n : n \in ends <=> <<n, Len(line)>> \in seen

\* The last token was offered after the line before it.
TakenInv ==
  taken => \E l \in Seq(Tokens), t \in Tokens, n \in DOMAIN Nodes :
             line = Append(l, t) /\ ReachedOn(l, n, Len(l)) /\ Offers(n, t)

LEMMA PushedIs == \A n, i : Pushed(n, i) = PushedOn(line, n, i)
BY DEF Pushed, PushedOn, Takes, TakesOf, Part, PartOf

LEMMA PushedInto ==
  ASSUME NEW l \in Seq(Tokens), NEW n \in DOMAIN Nodes,
         NEW i \in 0..Len(l) - 1
  PROVE  PushedOn(l, n, i) \subseteq (DOMAIN Nodes) \X Nat
<1>1. Kids(n) \subseteq DOMAIN Nodes
  BY CompletionAssumption
<1>2. i \in Nat /\ i + 1 \in Nat
  OBVIOUS
<1>3. \A c \in Arguments(Kids(n)) : c \in DOMAIN Nodes /\ i + Nodes[c].width \in Nat
  BY <1>1, <1>2, CompletionAssumption DEF Arguments
<1>4. \A t \in Literals(Kids(n)) : t \in DOMAIN Nodes
  BY <1>1 DEF Literals
<1> QED BY <1>2, <1>3, <1>4 DEF PushedOn

\* A set that is closed under the steps on a longer line is so on its beginning.
LEMMA LongerPushes ==
  ASSUME NEW l \in Seq(Tokens), NEW t \in Tokens,
         NEW n \in DOMAIN Nodes, NEW i \in 0..Len(l) - 1
  PROVE  PushedOn(l, n, i) \subseteq PushedOn(Append(l, t), n, i)
<1> DEFINE k == Append(l, t)
<1>1. Len(l) \in Nat /\ Len(k) = Len(l) + 1 /\ \A j \in 1..Len(l) : k[j] = l[j]
  OBVIOUS
<1> HIDE DEF k
<1>2. i \in Nat /\ i + 1 \in 1..Len(l)
  BY <1>1
<1>3. k[i + 1] = l[i + 1]
  BY <1>1, <1>2
<1>4. ASSUME NEW a \in Arguments(Kids(n)), TakesOf(l, a, i), i + Nodes[a].width <= Len(l)
      PROVE  TakesOf(k, a, i) /\ i + Nodes[a].width <= Len(k)
  <2>1. Nodes[a].width \in Nat
    BY CompletionAssumption DEF Arguments
  <2>2. i + Nodes[a].width <= Len(k)
    BY <1>1, <1>2, <1>4, <2>1
  <2>3. PartOf(k, a, i) = PartOf(l, a, i) /\ PartOf(l, a, i) \subseteq 1..Len(l)
    BY <1>1, <1>2, <1>4, <2>1, <2>2 DEF PartOf
  <2> QED BY <1>1, <1>4, <2>2, <2>3 DEF TakesOf
<1>5. {a \in Arguments(Kids(n)) :
        ~Nodes[a].greedy /\ TakesOf(l, a, i) /\ i + Nodes[a].width <= Len(l)}
      \subseteq {a \in Arguments(Kids(n)) :
        ~Nodes[a].greedy /\ TakesOf(k, a, i) /\ i + Nodes[a].width <= Len(k)}
  BY <1>4
<1> QED BY <1>3, <1>5 DEF PushedOn, k

LEMMA LongerReaches ==
  ASSUME NEW l \in Seq(Tokens), NEW t \in Tokens,
         NEW n, NEW i, ReachedOn(l, n, i)
  PROVE  ReachedOn(Append(l, t), n, i)
<1> SUFFICES ASSUME NEW C, ClosedOn(Append(l, t), C) PROVE <<n, i>> \in C
  BY DEF ReachedOn
<1>1. Len(l) \in Nat /\ Len(Append(l, t)) = Len(l) + 1
  OBVIOUS
<1>2. \A j \in 0..Len(l) - 1 : j \in 0..Len(Append(l, t)) - 1
  BY <1>1
<1>3. ClosedOn(l, C)
  BY <1>2, LongerPushes DEF ClosedOn
<1> QED BY <1>3 DEF ReachedOn

LEMMA RootReached ==
  ASSUME NEW l
  PROVE  <<Root, 0>> \in (DOMAIN Nodes) \X Nat /\ ReachedOn(l, Root, 0)
BY CompletionAssumption DEF ReachedOn, ClosedOn

LEMMA FollowReaches ==
  ASSUME WalkInv, NEW e \in stack, e[2] < Len(line)
  PROVE  \A f \in Pushed(e[1], e[2]) :
           f \in (DOMAIN Nodes) \X Nat /\ ReachedOn(line, f[1], f[2])
<1>1. /\ e[1] \in DOMAIN Nodes /\ e[2] \in Nat /\ e = <<e[1], e[2]>>
      /\ ReachedOn(line, e[1], e[2]) /\ line \in Seq(Tokens)
  BY DEF WalkInv
<1>2. e[2] \in 0..Len(line) - 1
  BY <1>1
<1>3. Pushed(e[1], e[2]) = PushedOn(line, e[1], e[2])
  BY PushedIs
<1>4. Pushed(e[1], e[2]) \subseteq (DOMAIN Nodes) \X Nat
  BY <1>1, <1>2, <1>3, PushedInto
<1>5. ASSUME NEW f \in Pushed(e[1], e[2]), NEW C, ClosedOn(line, C)
      PROVE  f \in C
  <2>1. <<e[1], e[2]>> \in C
    BY <1>1, <1>5 DEF ReachedOn
  <2>2. PushedOn(line, e[1], e[2]) \subseteq C
    BY <1>1, <1>2, <1>5, <2>1 DEF ClosedOn
  <2> QED BY <1>3, <2>2
<1>6. \A f \in Pushed(e[1], e[2]) : f = <<f[1], f[2]>>
  BY <1>4
<1>7. \A f \in Pushed(e[1], e[2]) : ReachedOn(line, f[1], f[2])
  BY <1>5, <1>6 DEF ReachedOn
<1> QED BY <1>4, <1>7

LEMMA FollowKeeps ==
  ASSUME WalkInv, NEW e \in stack, Follow(e)
  PROVE  WalkInv'
<1>1. /\ e[2] < Len(line) /\ UNCHANGED <<line, taken, ends>>
      /\ stack' = (stack \ {e}) \cup Pushed(e[1], e[2]) /\ seen' = seen \cup {e}
      /\ inside' = inside \cup Within(e[1], e[2])
  BY DEF Follow
<1>2. seen' \cup stack' = (seen \cup stack) \cup Pushed(e[1], e[2])
  BY <1>1
<1>3. \A f \in Pushed(e[1], e[2]) :
        f \in (DOMAIN Nodes) \X Nat /\ ReachedOn(line, f[1], f[2])
  BY <1>1, FollowReaches
<1>4. \A f \in seen' \cup stack' :
        f \in (DOMAIN Nodes) \X Nat /\ ReachedOn(line', f[1], f[2])
  BY <1>1, <1>2, <1>3 DEF WalkInv
<1>5. \A n, i : Pushed(n, i)' = Pushed(n, i) /\ Within(n, i)' = Within(n, i)
  BY <1>1 DEF Pushed, Within, Takes, Part
<1>6. \A f \in seen' : f[2] < Len(line) =>
        /\ Pushed(f[1], f[2]) \subseteq seen' \cup stack'
        /\ Within(f[1], f[2]) \subseteq inside'
  BY <1>1, <1>2 DEF WalkInv
<1>7. \A f \in seen' : f[2] < Len(line') =>
        /\ Pushed(f[1], f[2])' \subseteq seen' \cup stack'
        /\ Within(f[1], f[2])' \subseteq inside'
  BY <1>1, <1>5, <1>6
<1>8. \A n : n \in ends' <=> <<n, Len(line')>> \in seen'
  <2>1. \A n : e # <<n, Len(line)>>
    BY <1>1 DEF WalkInv
  <2> QED BY <1>1, <2>1 DEF WalkInv
<1> QED BY <1>1, <1>2, <1>4, <1>7, <1>8 DEF WalkInv

LEMMA ReachKeeps ==
  ASSUME WalkInv, NEW e \in stack, Skip(e) \/ Reach(e)
  PROVE  WalkInv'
<1>1. /\ UNCHANGED <<line, taken, inside>> /\ stack' = stack \ {e}
      /\ \/ e \in seen /\ UNCHANGED <<seen, ends>>
         \/ /\ e[2] = Len(line) /\ seen' = seen \cup {e} /\ ends' = ends \cup {e[1]}
  BY DEF Skip, Reach, Looked
<1>2. seen' \cup stack' = seen \cup stack
  BY <1>1
<1>3. \A n, i : Pushed(n, i)' = Pushed(n, i) /\ Within(n, i)' = Within(n, i)
  BY <1>1 DEF Pushed, Within, Takes, Part
<1>4. e = <<e[1], e[2]>> /\ e[2] \in Nat /\ Len(line) \in Nat
  BY DEF WalkInv
<1>5. \A f \in seen' : f[2] < Len(line) => f \in seen
  BY <1>1, <1>4
<1>6. \A f \in seen' : f[2] < Len(line') =>
        /\ Pushed(f[1], f[2])' \subseteq seen' \cup stack'
        /\ Within(f[1], f[2])' \subseteq inside'
  BY <1>1, <1>2, <1>3, <1>5 DEF WalkInv
<1>7. \A n : n \in ends' <=> <<n, Len(line')>> \in seen'
  <2>1. \A n : <<n, Len(line)>> = e <=> n = e[1] /\ Len(line) = e[2]
    BY <1>4
  <2> QED BY <1>1, <2>1 DEF WalkInv
<1> QED BY <1>1, <1>2, <1>6, <1>7 DEF WalkInv

LEMMA NextTokenKeeps ==
  ASSUME WalkInv, NEW t \in Tokens, NextToken(t)
  PROVE  WalkInv' /\ TakenInv'
<1>1. /\ line' = Append(line, t) /\ taken' = (t \in Offered)
      /\ stack' = {<<Root, 0>>} /\ seen' = {} /\ ends' = {} /\ inside' = {}
      /\ line \in Seq(Tokens)
  BY DEF NextToken, WalkInv
<1>2. WalkInv'
  <2>1. line' \in Seq(Tokens)
    BY <1>1
  <2> QED BY <1>1, <2>1, RootReached DEF WalkInv
<1>3. ASSUME t \in Offered
      PROVE  \E n \in ends : Offers(n, t)
  BY <1>3 DEF Offered, Offers, Literals, Arguments
<1>4. ASSUME NEW n \in ends
      PROVE  n \in DOMAIN Nodes /\ ReachedOn(line, n, Len(line))
  <2> DEFINE e == <<n, Len(line)>>
  <2>1. e \in seen
    BY <1>4 DEF WalkInv
  <2>2. e \in (DOMAIN Nodes) \X Nat /\ ReachedOn(line, e[1], e[2])
    BY <2>1 DEF WalkInv
  <2>3. e[1] = n /\ e[2] = Len(line)
    OBVIOUS
  <2> QED BY <2>2, <2>3
<1>5. TakenInv'
  <2> SUFFICES ASSUME taken' PROVE TakenInv'
    BY DEF TakenInv
  <2>1. PICK n \in ends : Offers(n, t)
    BY <1>1, <1>3
  <2>2. n \in DOMAIN Nodes /\ ReachedOn(line, n, Len(line))
    BY <1>4
  <2> QED BY <1>1, <2>1, <2>2 DEF TakenInv
<1> QED BY <1>2, <1>5

LEMMA CompletionNextInv ==
  WalkInv /\ TakenInv /\ [CompletionNext]_completionVars
    => WalkInv' /\ TakenInv'
<1> SUFFICES ASSUME WalkInv, TakenInv,
                    [CompletionNext]_completionVars
             PROVE  WalkInv' /\ TakenInv'
  OBVIOUS
<1>1. ASSUME UNCHANGED <<line, taken>> PROVE TakenInv'
  BY <1>1 DEF TakenInv
<1>2. ASSUME NEW e \in stack, Skip(e) \/ Reach(e) PROVE WalkInv' /\ TakenInv'
  BY <1>1, <1>2, ReachKeeps DEF Skip, Reach
<1>3. ASSUME NEW e \in stack, Follow(e) PROVE WalkInv' /\ TakenInv'
  BY <1>1, <1>3, FollowKeeps DEF Follow
<1>4. ASSUME NEW t \in Tokens, NextToken(t) PROVE WalkInv' /\ TakenInv'
  BY <1>4, NextTokenKeeps
<1>5. CASE UNCHANGED completionVars
  <2>1. UNCHANGED <<line, taken>> /\ UNCHANGED <<stack, seen, ends, inside>>
    BY <1>5 DEF completionVars
  <2>2. \A n, i : Pushed(n, i)' = Pushed(n, i) /\ Within(n, i)' = Within(n, i)
    BY <2>1 DEF Pushed, Within, Takes, Part
  <2>3. WalkInv'
    BY <2>1, <2>2 DEF WalkInv
  <2> QED BY <1>1, <2>1, <2>3
<1> QED BY <1>2, <1>3, <1>4, <1>5 DEF CompletionNext

LEMMA AcceptedOnce ==
  ASSUME WalkInv, TakenInv, taken, stack = {}
  PROVE  ends \cup inside # {}
<1>1. PICK l \in Seq(Tokens), t \in Tokens, n \in DOMAIN Nodes :
        line = Append(l, t) /\ ReachedOn(l, n, Len(l)) /\ Offers(n, t)
  BY DEF TakenInv
<1> DEFINE i == Len(l)
<1>2. i \in Nat /\ Len(line) = i + 1 /\ line[i + 1] = t /\ i < Len(line)
  BY <1>1
<1>3. \A m \in DOMAIN Nodes, j \in 0..Len(line) - 1 :
        <<m, j>> \in seen => PushedOn(line, m, j) \subseteq seen
  <2> SUFFICES ASSUME NEW m \in DOMAIN Nodes, NEW j \in 0..Len(line) - 1, <<m, j>> \in seen
               PROVE  PushedOn(line, m, j) \subseteq seen
    OBVIOUS
  <2>1. j < Len(line)
    BY <1>2
  <2>2. Pushed(m, j) \subseteq seen
    BY <2>1 DEF WalkInv
  <2> QED BY <2>2, PushedIs
<1>4. ClosedOn(line, seen)
  BY <1>3 DEF ClosedOn, WalkInv
<1>5. <<n, i>> \in seen
  BY <1>1, <1>4, LongerReaches DEF ReachedOn
<1>6. Pushed(n, i) \subseteq seen /\ Within(n, i) \subseteq inside
  BY <1>2, <1>5 DEF WalkInv
<1> HIDE DEF i
<1>7. CASE t \in Literals(Kids(n))
  <2>1. <<t, i + 1>> \in Pushed(n, i)
    BY <1>2, <1>7 DEF Pushed
  <2> QED BY <1>2, <1>6, <2>1 DEF WalkInv
<1>8. CASE t \notin Literals(Kids(n))
  <2>1. PICK a \in Arguments(Kids(n)) : t \in Nodes[a].values
    BY <1>1, <1>8 DEF Offers
  <2>2. Nodes[a].width = 1 /\ t \in Nodes[a].accept
    BY <2>1, CompletionAssumption DEF Arguments
  <2>3. CASE Nodes[a].greedy
    <3>1. a \in Within(n, i)
      BY <1>2, <1>8, <2>1, <2>3 DEF Within
    <3> QED BY <1>6, <3>1
  <2>4. CASE ~Nodes[a].greedy
    <3>1. Part(a, i) = {i + 1}
      BY <1>2, <2>2 DEF Part
    <3>2. Takes(a, i) /\ i + Nodes[a].width <= Len(line)
      BY <1>2, <2>2, <3>1 DEF Takes
    <3>3. <<a, i + Nodes[a].width>> \in Pushed(n, i)
      BY <1>2, <1>8, <2>1, <2>4, <3>2 DEF Pushed
    <3> QED BY <1>2, <1>6, <2>2, <3>3 DEF WalkInv
  <2> QED BY <2>3, <2>4
<1> QED BY <1>7, <1>8

(***************************************************************************)
(* A suggestion that is accepted is understood, for every tree whose nodes *)
(* lead to nodes and whose arguments take what is offered for them,        *)
(* however its redirects lead back.                                        *)
(***************************************************************************)
THEOREM AcceptedAlwaysContinues ==
  CompletionSpec => []AcceptedContinues
<1>1. CompletionInit => WalkInv /\ TakenInv
  <2> SUFFICES ASSUME CompletionInit PROVE WalkInv /\ TakenInv
    OBVIOUS
  <2>1. line \in Seq(Tokens)
    BY DEF CompletionInit
  <2> QED BY <2>1, RootReached DEF CompletionInit, WalkInv, TakenInv
<1>2. WalkInv /\ TakenInv /\ [CompletionNext]_completionVars => (WalkInv /\ TakenInv)'
  BY CompletionNextInv
<1>3. WalkInv /\ TakenInv => AcceptedContinues
  BY AcceptedOnce DEF AcceptedContinues
<1> QED BY <1>1, <1>2, <1>3, PTL DEF CompletionSpec


=============================================================================

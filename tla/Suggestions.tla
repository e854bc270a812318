---------------------------- MODULE Suggestions ----------------------------
(***************************************************************************)
(* Suggestions in the RCON console, as the script of the page drives them  *)
(* (startConsole of app.js): a request for each text the user leaves for a *)
(* moment, answers in any order, and a retry while the service is still    *)
(* reading the command list of the server (module CommandsJob).            *)
(*                                                                         *)
(* The text of the input is named by a number that every change raises; 0  *)
(* is the empty text, under which no list is shown.  What the suggestions  *)
(* are is in module Completion.                                            *)
(***************************************************************************)
EXTENDS Naturals

CONSTANTS
  MaxTexts,  \* bound: changes of the text
  MaxReads   \* bound: how often the service starts to read a command list

ASSUME SuggestionsAssumption == MaxTexts \in Nat /\ MaxReads \in Nat

VARIABLES
  text,    \* the input's text
  typed,   \* the user typed it, at its end
  focus,   \* the input has the focus
  timers,  \* timers running: "type" (120 ms), "retry" (4 s), "blur" (150 ms)
  handle,  \* the one clearTimeout would stop
  newest,  \* the newest request: its text and answer
  stale,   \* the text of the request before it, as long as it is unanswered
  list,    \* the suggestions shown: for which text, and whether pending
  status,  \* what the service answers
  reads    \* command lists it has started to read

suggestionsVars ==
  <<text, typed, focus, timers, handle, newest, stale, list, status, reads>>

serviceVars == <<status, reads>>

Texts == 0..MaxTexts

NoRequest == [text |-> 0, answer |-> "none"]

Closed == [open |-> FALSE, text |-> 0, pending |-> FALSE]

\* Shapes.
SuggestionsTypeOK ==
  /\ text \in Texts /\ typed \in BOOLEAN /\ focus \in BOOLEAN
  /\ timers \subseteq {"type", "retry", "blur"} /\ handle \in {"none", "type", "retry"}
  /\ newest \in [text: Texts, answer: {"none", "asked", "ready", "pending", "failed"}]
  /\ stale \subseteq Texts
  /\ list \in [open: BOOLEAN, text: Texts, pending: BOOLEAN]
  /\ status \in {"ready", "pending"} /\ reads \in 0..MaxReads

-----------------------------------------------------------------------------

\* ++seq: the request under way, if any, is stale.
Superseded == IF newest = NoRequest THEN stale ELSE {newest.text}

\* fetchSuggestions, from a timer or a handler that leaves these timers.
Fetch(new, left) ==
  /\ timers' = left \ {handle}
  /\ handle' = "none"
  /\ newest' = [text |-> new, answer |-> "asked"]
  /\ stale' = Superseded

\* The user types at the end of the text, or somewhere inside it.
Types ==
  /\ focus /\ text < MaxTexts
  /\ text' = text + 1
  /\ typed' \in BOOLEAN
  /\ timers' = (timers \ {handle}) \cup {"type"} /\ handle' = "type"
  /\ UNCHANGED <<focus, newest, stale, list, serviceVars>>

\* With the caret inside the text the list is closed and nothing is asked.
TimerFires(t) ==
  /\ t \in timers \cap {"type", "retry"}
  /\ \/ typed /\ Fetch(text, timers \ {t}) /\ UNCHANGED list
     \/ /\ ~typed /\ list' = Closed /\ UNCHANGED <<newest, stale>>
        /\ timers' = timers \ {t, handle} /\ handle' = "none"
  /\ UNCHANGED <<text, typed, focus, serviceVars>>

Accepts ==
  /\ focus /\ list.open /\ text < MaxTexts
  /\ text' = text + 1 /\ typed' = TRUE
  /\ Fetch(text + 1, timers)
  /\ UNCHANGED <<focus, list, serviceVars>>

\* Escape closes the list; an arrow key recalls a command and closes it too.
Dismisses ==
  /\ focus
  /\ \/ UNCHANGED text
     \/ text < MaxTexts /\ text' = text + 1
  /\ typed' = FALSE /\ list' = Closed
  /\ UNCHANGED <<focus, timers, handle, newest, stale, serviceVars>>

Focuses ==
  /\ ~focus /\ focus' = TRUE
  /\ Fetch(text, timers)
  /\ UNCHANGED <<text, typed, list, serviceVars>>

Blurs ==
  /\ focus /\ focus' = FALSE
  /\ timers' = (timers \ {handle}) \cup {"blur"} /\ handle' = "none"
  /\ newest' = NoRequest /\ stale' = Superseded
  /\ UNCHANGED <<text, typed, list, serviceVars>>

BlurCloses ==
  /\ "blur" \in timers /\ timers' = timers \ {"blur"}
  /\ list' = Closed
  /\ UNCHANGED <<text, typed, focus, handle, newest, stale, serviceVars>>

-----------------------------------------------------------------------------
(* Requests *)

Answers ==
  /\ newest.answer = "asked"
  /\ newest' \in {[newest EXCEPT !.answer = a] : a \in {status, "failed"}}
  /\ UNCHANGED <<text, typed, focus, timers, handle, stale, list, serviceVars>>

Shows(t, pending) == list' = [open |-> text # 0, text |-> t, pending |-> pending]

\* Mutant of Rearmed: a pending answer is not asked for again.
RearmedNever(answer) == FALSE

Rearmed(answer) == answer = "pending"

\* Without the focus, the answer is dropped.
Arrives ==
  /\ newest.answer \in {"ready", "pending", "failed"} /\ newest' = NoRequest
  /\ \/ ~focus /\ UNCHANGED <<list, timers, handle>>
     \/ focus /\ newest.answer = "failed" /\ list' = Closed /\ UNCHANGED <<timers, handle>>
     \/ /\ focus /\ newest.answer # "failed"
        /\ Shows(newest.text, newest.answer = "pending")
        /\ IF Rearmed(newest.answer) THEN timers' = timers \cup {"retry"} /\ handle' = "retry"
                                      ELSE UNCHANGED <<timers, handle>>
  /\ UNCHANGED <<text, typed, focus, stale, serviceVars>>

\* Mutant of Outdated: whatever arrives is shown.
OutdatedShown(t) == Shows(t, FALSE)

Outdated(t) == UNCHANGED list

ArrivesLate(t) ==
  /\ t \in stale /\ stale' = stale \ {t}
  /\ Outdated(t)
  /\ UNCHANGED <<text, typed, focus, timers, handle, newest, serviceVars>>

StartsReading ==
  /\ status = "ready" /\ reads < MaxReads
  /\ status' = "pending" /\ reads' = reads + 1
  /\ UNCHANGED <<text, typed, focus, timers, handle, newest, stale, list>>

HasRead ==
  /\ status = "pending" /\ status' = "ready"
  /\ UNCHANGED <<text, typed, focus, timers, handle, newest, stale, list, reads>>

SuggestionsInit ==
  /\ text = 0 /\ typed = TRUE /\ focus = FALSE
  /\ timers = {} /\ handle = "none" /\ newest = NoRequest /\ stale = {}
  /\ list = Closed /\ status = "ready" /\ reads = 0

User == Types \/ Accepts \/ Dismisses \/ Focuses \/ Blurs

Delivery == Answers \/ Arrives \/ \E t \in Texts : ArrivesLate(t)

SuggestionsNext ==
  \/ User \/ Delivery \/ StartsReading \/ HasRead
  \/ BlurCloses \/ TimerFires("type") \/ TimerFires("retry")

\* Timers fire, requests are answered, and CommandsJob!PendingEnds.
SuggestionsFairness ==
  /\ \A t \in {"type", "retry"} : WF_suggestionsVars(TimerFires(t))
  /\ WF_suggestionsVars(BlurCloses) /\ WF_suggestionsVars(HasRead)
  /\ WF_suggestionsVars(Answers) /\ WF_suggestionsVars(Arrives)

SuggestionsSpec ==
  SuggestionsInit /\ [][SuggestionsNext]_suggestionsVars /\ SuggestionsFairness

-----------------------------------------------------------------------------

(***************************************************************************)
(* When nothing is under way any more, the list under a text that was      *)
(* typed at its end is the list for that text, in whatever order answers   *)
(* and timers came (the comment "stale" in app.js).                        *)
(***************************************************************************)
SuggestionsFresh ==
  timers = {} /\ newest = NoRequest /\ focus /\ typed /\ list.open => list.text = text

(***************************************************************************)
(* "Loading the command list" does not stay: as long as it is shown it is  *)
(* asked for again.                                                        *)
(***************************************************************************)
LoadingEnds == (list.open /\ list.pending) ~> ~(list.open /\ list.pending)

=============================================================================

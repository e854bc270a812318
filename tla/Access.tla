------------------------------- MODULE Access -------------------------------
(***************************************************************************)
(* Who may join one world, and who is an admin: the record, the release    *)
(* values of the last install, and the server's whitelist.json, ops.json   *)
(* and whitelist switch (set_whitelist, render_values, the web forms).     *)
(*                                                                         *)
(* An edit is saved in the record and, on a live server, sent over RCON;   *)
(* the release values follow with the next install.  A container that      *)
(* starts rewrites its files from the values it was installed with: a      *)
(* player list replaces the file, an empty one leaves it alone.            *)
(*                                                                         *)
(* Names are compared without case in most places of the code; a name here *)
(* has one spelling (the README says what two spellings break).            *)
(***************************************************************************)
EXTENDS Naturals

CONSTANT Players  \* the names of players

VARIABLES
  rec,      \* the access settings of the world record
  env,      \* those of the last install
  replicas, \* the release: "absent", or how many servers it is to run
  pod,      \* the server pod: none, booting, ready
  server,   \* whitelist.json, ops.json and the switch of the volume
  form,     \* <<what the settings form read>> while its handler runs, else <<>>
  behind,   \* history: the server missed an edit
  demoted   \* history: admins an accepted edit took off

accessVars == <<rec, env, replicas, pod, server, form, behind, demoted>>

Settings == [list: SUBSET Players, open: BOOLEAN, ops: SUBSET Players]

Files == [white: SUBSET Players, on: BOOLEAN, ops: SUBSET Players]

\* check_players: on a closed world every admin is on the whitelist.
Valid(s) == s.open \/ s.ops \subseteq s.list

(***************************************************************************)
(* Shapes; and the record always passes check_players, whichever form      *)
(* wrote it last.                                                          *)
(***************************************************************************)
AccessTypeOK ==
  /\ rec \in Settings /\ Valid(rec)
  /\ env \in Settings /\ Valid(env)
  /\ replicas \in {"absent", "0", "1"}
  /\ pod \in {"none", "booting", "ready"}
  /\ server \in Files
  /\ form = <<>> \/ form[1] \in Settings
  /\ behind \in BOOLEAN
  /\ demoted \in SUBSET Players

-----------------------------------------------------------------------------
(* What an edit does *)

\* Taking somebody off the whitelist of a closed world takes their admin too.
NextOps(asked, players, open) ==
  IF open THEN asked ELSE asked \ (rec.list \ players)

\* Mutant of Added: closing adds only the new names.
AddedNew(new) == new.list \ rec.list

\* Closing adds every name again: an open world's file was never synced.
Added(new) == IF rec.open /\ ~new.open THEN new.list ELSE new.list \ rec.list

Removed(new) == rec.list \ new.list

\* The server once it has run the whole batch.
Obeyed(new) ==
  [white |-> (server.white \cup Added(new)) \ Removed(new),
   on |-> IF new.open # rec.open THEN ~new.open ELSE server.on,
   ops |-> (server.ops \cup (new.ops \ rec.ops)) \ (rec.ops \ new.ops)]

\* The batch adds, removes, switches, ops and deops, in this order; a failure
\* leaves what came before it.
HalfWay(new) ==
  LET all == Obeyed(new)
      added == server.white \cup Added(new)
      opped == server.ops \cup (new.ops \ rec.ops)
      between(lo, hi) == {s \in SUBSET Players : lo \subseteq s /\ s \subseteq hi}
  IN {[server EXCEPT !.white = w] :
        w \in between(server.white, added) \cup between(all.white, added)}
     \cup {[all EXCEPT !.ops = o] :
        o \in between(server.ops, opped) \cup between(all.ops, opped)}

\* A container starts: EXISTING_WHITELIST_FILE and EXISTING_OPS_FILE.
Booted(values) ==
  [white |-> IF values.open \/ values.list = {} THEN server.white ELSE values.list,
   on |-> ~values.open,
   ops |-> IF values.ops = {} THEN server.ops ELSE values.ops]

Live == replicas = "1" /\ pod = "ready"

Starting == replicas = "1" /\ pod # "ready"

-----------------------------------------------------------------------------
(* The forms.  Both handlers are coroutines without an await between what  *)
(* they read and what they save, so the event loop runs one at a time.     *)

\* Mutant of LoopFree: the handlers run in threads.
LoopShared == TRUE

LoopFree == form = <<>>

\* Mutant of LastAdminStays: no such check.
LastAdminGoes(new) == TRUE

\* check_ops_change: an empty list would leave a stopped server's ops.json.
LastAdminStays(new) == replicas = "0" /\ rec.ops # {} => new.ops # {}

\* A booting server has the mode and the admins of its install.
BootUndisturbed(new) == Starting => new.open = rec.open /\ new.ops = rec.ops

Accepted(new) == Valid(new) /\ BootUndisturbed(new) /\ LastAdminStays(new)

Demote(new) ==
  demoted' = IF replicas = "absent" THEN demoted
             ELSE (demoted \cup (rec.ops \ new.ops)) \ new.ops

SetWhitelist ==
  /\ LoopFree
  /\ \E players, asked \in SUBSET Players, open \in BOOLEAN :
       LET new == [list |-> players, open |-> open, ops |-> NextOps(asked, players, open)]
       IN /\ Accepted(new)
          /\ rec' = new
          /\ server' = IF Live THEN Obeyed(new) ELSE server
          /\ behind' = (behind \/ (Starting /\ new.list # rec.list))
          /\ Demote(new)
  /\ UNCHANGED <<env, replicas, pod, form>>

\* The connection fails: the edit is reported as failed, and not recorded.
WhitelistBatchCut ==
  /\ LoopFree /\ Live
  /\ \E players, asked \in SUBSET Players, open \in BOOLEAN :
       LET new == [list |-> players, open |-> open, ops |-> NextOps(asked, players, open)]
       IN /\ Accepted(new)
          /\ server' \in HalfWay(new)
          /\ server' # server
          /\ demoted' = demoted \ server'.ops
  /\ behind' = TRUE
  /\ UNCHANGED <<rec, env, replicas, pod, form>>

\* The settings form keeps the access settings it has just read ...
FormReads ==
  /\ LoopFree
  /\ form' = <<rec>>
  /\ UNCHANGED <<rec, env, replicas, pod, server, behind, demoted>>

\* ... and update_settings installs them, unless an operation is pending.
FormSaves ==
  /\ form # <<>> /\ form' = <<>>
  /\ \/ /\ rec' = form[1]
        /\ env' = IF replicas = "absent" THEN env ELSE form[1]
     \/ UNCHANGED <<rec, env>>
  /\ UNCHANGED <<replicas, pod, server, behind, demoted>>

-----------------------------------------------------------------------------
(* Installs and the server *)

\* launch or create_world has come to its install, a restore to its end, or start.
Start ==
  /\ replicas # "1" /\ pod = "none"
  /\ env' = rec /\ replicas' = "1"
  /\ UNCHANGED <<rec, pod, server, form, behind, demoted>>

Stop ==
  /\ replicas = "1"
  /\ env' = rec /\ replicas' = "0" /\ pod' = "none"
  /\ UNCHANGED <<rec, server, form, behind, demoted>>

\* The seed Job of a restore writes the files of its backup.
Reseed ==
  /\ replicas = "0" /\ pod = "none"
  /\ server' \in Files
  /\ demoted' = {}
  /\ UNCHANGED <<rec, env, replicas, pod, form, behind>>

\* A new pod, a replaced one, or a container that restarts.
Boot ==
  /\ replicas = "1"
  /\ pod' = "booting"
  /\ server' = Booted(env)
  /\ behind' = (env # rec \/ (behind /\ env.ops = {}))
  /\ UNCHANGED <<rec, env, replicas, form, demoted>>

Comes ==
  /\ pod = "booting"
  /\ pod' = "ready"
  /\ UNCHANGED <<rec, env, replicas, server, form, behind, demoted>>

AccessInit ==
  /\ rec = [list |-> {}, open |-> FALSE, ops |-> {}] /\ env = rec
  /\ replicas = "absent" /\ pod = "none"
  /\ server \in Files
  /\ form = <<>> /\ behind = FALSE /\ demoted = {}

AccessNext ==
  \/ SetWhitelist \/ WhitelistBatchCut \/ FormReads \/ FormSaves
  \/ Start \/ Stop \/ Reseed \/ Boot \/ Comes

AccessSpec == AccessInit /\ [][AccessNext]_accessVars

-----------------------------------------------------------------------------

(***************************************************************************)
(* Everybody on the list of a closed world gets in, on a server that has   *)
(* seen every edit: also on one that was open, or stopped, or restored     *)
(* meanwhile.                                                              *)
(***************************************************************************)
ListedMayJoin ==
  Live /\ ~behind /\ ~rec.open => server.on /\ rec.list \subseteq server.white

(***************************************************************************)
(* The admins of the record are admins on such a server, and whoever lost  *)
(* their admin is not: although an empty list leaves ops.json alone.       *)
(***************************************************************************)
AdminsAgree ==
  Live /\ ~behind => rec.ops \subseteq server.ops /\ demoted \cap server.ops = {}

(***************************************************************************)
(* Saving the settings form never changes who may join or administer: no   *)
(* edit of the whitelist form gets lost to it (world_settings).            *)
(***************************************************************************)
FormKeepsAccess == [][FormSaves => rec' = rec]_accessVars

=============================================================================

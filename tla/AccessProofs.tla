----------------------------- MODULE AccessProofs -----------------------------
(***************************************************************************)
(* Proofs about Access: the record passes check_players, the list of a     *)
(* closed world and the admins of a server that saw every edit agree with  *)
(* it, and the settings form loses no edit, for any set of players.        *)
(*                                                                         *)
(* AdminsAgree is not inductive: a server that starts with no admins in    *)
(* its values keeps the file it has, so nobody demoted may be in that file *)
(* already while the world is stopped (EmptyIsClean); only the check for   *)
(* the last admin of a stopped world sees to that.                         *)
(***************************************************************************)
EXTENDS Access, TLAPS

\* Nobody demoted is an admin of the record; a world starts with nobody demoted.
DemotedGone ==
  /\ demoted \cap rec.ops = {}
  /\ replicas = "absent" => demoted = {} /\ pod = "none"

\* Without admins in the record, ops.json has nobody who was taken off.
EmptyIsClean == ~behind /\ rec.ops = {} => demoted \cap server.ops = {}

\* A container has begun to run and has seen every edit.
Follows == replicas = "1" /\ pod # "none" /\ ~behind

Agrees ==
  Follows =>
    /\ ~rec.open => server.on /\ rec.list \subseteq server.white
    /\ rec.ops \subseteq server.ops /\ demoted \cap server.ops = {}

FormCurrent == form = <<>> \/ form = <<rec>>

AccessInv ==
  /\ AccessTypeOK
  /\ DemotedGone
  /\ EmptyIsClean
  /\ Agrees
  /\ FormCurrent

-----------------------------------------------------------------------------

LEMMA AccessInvInit == AccessInit => AccessInv
<1> SUFFICES ASSUME AccessInit PROVE AccessInv
  OBVIOUS
<1> USE DEF AccessInit
<1>1. AccessTypeOK
  BY DEF AccessTypeOK, Settings, Valid
<1>2. DemotedGone /\ EmptyIsClean /\ Agrees /\ FormCurrent
  BY DEF DemotedGone, EmptyIsClean, Agrees, Follows, FormCurrent
<1> QED BY <1>1, <1>2 DEF AccessInv

\* What an edit asks for: the settings the whitelist form makes of its fields.
Asked(players, asked, open) ==
  [list |-> players, open |-> open, ops |-> NextOps(asked, players, open)]

\* A live server that has run the whole batch agrees with the new settings.
LEMMA ObeyedAgrees ==
  ASSUME AccessInv, Live, ~behind, NEW new \in Settings
  PROVE  LET obeyed == Obeyed(new)
             gone == (demoted \cup (rec.ops \ new.ops)) \ new.ops
         IN /\ ~new.open => obeyed.on /\ new.list \subseteq obeyed.white
            /\ new.ops \subseteq obeyed.ops /\ gone \cap obeyed.ops = {}
<1>1. /\ ~rec.open => server.on /\ rec.list \subseteq server.white
      /\ rec.ops \subseteq server.ops /\ demoted \cap server.ops = {}
  BY DEF AccessInv, Agrees, Follows, Live
<1>2. rec \in Settings
  BY DEF AccessInv, AccessTypeOK
<1>3. ~new.open => Obeyed(new).on
  BY <1>1, <1>2 DEF Obeyed, Settings
<1>4. ~new.open => new.list \subseteq Obeyed(new).white
  BY <1>1, <1>2 DEF Obeyed, Added, Removed, Settings
<1>5. new.ops \subseteq Obeyed(new).ops
  BY <1>1 DEF Obeyed
<1>6. ((demoted \cup (rec.ops \ new.ops)) \ new.ops) \cap Obeyed(new).ops = {}
  BY <1>1 DEF Obeyed
<1> QED BY <1>3, <1>4, <1>5, <1>6

LEMMA ObeyedFiles ==
  ASSUME server \in Files, rec \in Settings, NEW new \in Settings
  PROVE  Obeyed(new) \in Files
BY DEF Obeyed, Added, Removed, Files, Settings

LEMMA SetWhitelistKeeps ==
  ASSUME AccessInv, SetWhitelist
  PROVE  AccessInv'
<1>1. PICK players \in SUBSET Players, asked \in SUBSET Players, open \in BOOLEAN :
        LET new == Asked(players, asked, open)
        IN /\ Accepted(new)
           /\ rec' = new
           /\ server' = IF Live THEN Obeyed(new) ELSE server
           /\ behind' = (behind \/ (Starting /\ new.list # rec.list))
           /\ Demote(new)
  BY DEF SetWhitelist, Asked
<1> DEFINE new == Asked(players, asked, open)
<1>2. new \in Settings
  BY DEF Asked, NextOps, Settings
<1>3. /\ Accepted(new) /\ rec' = new
      /\ server' = IF Live THEN Obeyed(new) ELSE server
      /\ behind' = (behind \/ (Starting /\ new.list # rec.list))
      /\ Demote(new)
      /\ UNCHANGED <<env, replicas, pod, form>> /\ form = <<>>
  BY <1>1 DEF SetWhitelist, LoopFree
<1> HIDE DEF new
<1>4. AccessTypeOK'
  <2>1. demoted' \in SUBSET Players
    BY <1>2, <1>3 DEF AccessInv, AccessTypeOK, Demote, Settings
  <2>2. server' \in Files
    BY <1>2, <1>3, ObeyedFiles DEF AccessInv, AccessTypeOK
  <2>3. rec' \in Settings /\ Valid(rec')
    BY <1>2, <1>3 DEF Accepted
  <2>4. behind' \in BOOLEAN
    BY <1>3 DEF AccessInv, AccessTypeOK
  <2> QED BY <1>3, <2>1, <2>2, <2>3, <2>4 DEF AccessInv, AccessTypeOK
<1>5. DemotedGone'
  BY <1>3 DEF AccessInv, DemotedGone, Demote
<1>6. CASE Live
  <2>1. demoted' = (demoted \cup (rec.ops \ new.ops)) \ new.ops
    BY <1>3, <1>6 DEF Demote, Live
  <2>2. behind' = behind
    BY <1>3, <1>6 DEF Live, Starting, AccessInv, AccessTypeOK
  <2>3. ~behind => /\ ~new.open => server'.on /\ new.list \subseteq server'.white
                   /\ new.ops \subseteq server'.ops /\ demoted' \cap server'.ops = {}
    BY <1>2, <1>3, <1>6, <2>1, ObeyedAgrees
  <2> QED BY <1>3, <1>4, <1>5, <2>2, <2>3
        DEF AccessInv, EmptyIsClean, Agrees, Follows, FormCurrent
<1>7. CASE Starting
  <2>1. behind \/ new = rec \/ behind'
    <3>1. new.open = rec.open /\ new.ops = rec.ops
      BY <1>3, <1>7 DEF Accepted, BootUndisturbed
    <3>2. rec \in Settings
      BY DEF AccessInv, AccessTypeOK
    <3>3. new.list = rec.list => new = rec
      BY <1>2, <3>1, <3>2 DEF Settings
    <3> QED BY <1>3, <1>7, <3>3
  <2>2. new = rec => demoted' = demoted /\ server' = server
    BY <1>3, <1>7 DEF Starting, Live, Demote, AccessInv, DemotedGone
  <2> QED BY <1>3, <1>4, <1>5, <2>1, <2>2
        DEF AccessInv, EmptyIsClean, Agrees, Follows, FormCurrent, AccessTypeOK
<1>8. CASE replicas = "0"
  <2>1. behind' = behind /\ server' = server
    BY <1>3, <1>8 DEF Starting, Live, AccessInv, AccessTypeOK
  <2>2. new.ops = {} => rec.ops = {} /\ demoted' = demoted
    BY <1>3, <1>8 DEF Accepted, LastAdminStays, Demote
  <2> QED BY <1>3, <1>4, <1>5, <1>8, <2>1, <2>2
        DEF AccessInv, EmptyIsClean, Agrees, Follows, FormCurrent
<1>9. CASE replicas = "absent"
  <2>1. demoted' = {}
    BY <1>3, <1>9 DEF Demote, AccessInv, DemotedGone
  <2> QED BY <1>3, <1>4, <1>5, <1>9, <2>1
        DEF AccessInv, EmptyIsClean, Agrees, Follows, FormCurrent
<1> QED BY <1>6, <1>7, <1>8, <1>9 DEF Live, Starting, AccessInv, AccessTypeOK

\* What is left of a batch that was cut is a server's files all the same.
LEMMA HalfWayFiles ==
  ASSUME server \in Files, rec \in Settings, NEW new \in Settings
  PROVE  HalfWay(new) \subseteq Files
<1>1. Obeyed(new) \in Files
  BY ObeyedFiles
<1>2. \A w \in SUBSET Players : [server EXCEPT !.white = w] \in Files
  BY DEF Files
<1>3. \A o \in SUBSET Players : [Obeyed(new) EXCEPT !.ops = o] \in Files
  BY <1>1 DEF Files
<1> QED BY <1>2, <1>3 DEF HalfWay

LEMMA BatchCutKeeps ==
  ASSUME AccessInv, WhitelistBatchCut
  PROVE  AccessInv'
<1>1. PICK players \in SUBSET Players, asked \in SUBSET Players, open \in BOOLEAN :
        /\ server' \in HalfWay(Asked(players, asked, open))
        /\ demoted' = demoted \ server'.ops
  BY DEF WhitelistBatchCut, Asked
<1>2. Asked(players, asked, open) \in Settings
  BY DEF Asked, NextOps, Settings
<1>3. server' \in Files
  BY <1>1, <1>2, HalfWayFiles DEF AccessInv, AccessTypeOK
<1>4. behind' = TRUE /\ UNCHANGED <<rec, env, replicas, pod, form>> /\ Live
  BY DEF WhitelistBatchCut
<1>5. AccessTypeOK'
  BY <1>1, <1>3, <1>4 DEF AccessInv, AccessTypeOK
<1> QED BY <1>1, <1>4, <1>5
      DEF AccessInv, DemotedGone, EmptyIsClean, Agrees, Follows, FormCurrent, Live

LEMMA BootKeeps ==
  ASSUME AccessInv, Boot
  PROVE  AccessInv'
<1> USE DEF Boot
<1>1. AccessTypeOK'
  <2>1. Booted(env) \in Files
    BY DEF AccessInv, AccessTypeOK, Booted, Files, Settings
  <2> QED BY <2>1 DEF AccessInv, AccessTypeOK
<1>2. CASE behind'
  BY <1>1, <1>2 DEF AccessInv, DemotedGone, EmptyIsClean, Agrees, Follows, FormCurrent
<1>3. CASE ~behind'
  <2>1. env = rec /\ (behind => rec.ops # {})
    BY <1>3
  <2>2. ~rec.open => server'.on /\ rec.list \subseteq server'.white
    BY <2>1 DEF Booted
  <2>3. rec.ops \subseteq server'.ops
    BY <2>1 DEF Booted
  <2>4. demoted \cap server'.ops = {}
    BY <2>1 DEF Booted, AccessInv, DemotedGone, EmptyIsClean
  <2> QED BY <1>1, <2>2, <2>3, <2>4
        DEF AccessInv, DemotedGone, EmptyIsClean, Agrees, Follows, FormCurrent
<1> QED BY <1>2, <1>3

LEMMA AccessInvNext == AccessInv /\ [AccessNext]_accessVars => AccessInv'
<1> SUFFICES ASSUME AccessInv, [AccessNext]_accessVars PROVE AccessInv'
  OBVIOUS
<1> USE DEF AccessInv, DemotedGone, EmptyIsClean, Agrees, Follows, FormCurrent
<1>1. CASE SetWhitelist
  BY <1>1, SetWhitelistKeeps
<1>2. CASE WhitelistBatchCut
  BY <1>2, BatchCutKeeps
<1>3. CASE FormReads
  BY <1>3 DEF FormReads, LoopFree, AccessTypeOK
<1>4. CASE FormSaves
  <2>1. rec' = rec /\ form' = <<>> /\ env' \in {rec, env}
    BY <1>4 DEF FormSaves
  <2> QED BY <1>4, <2>1 DEF FormSaves, AccessTypeOK
<1>5. CASE Start
  BY <1>5 DEF Start, AccessTypeOK
<1>6. CASE Stop
  BY <1>6 DEF Stop, AccessTypeOK
<1>7. CASE Reseed
  BY <1>7 DEF Reseed, AccessTypeOK
<1>8. CASE Boot
  BY <1>8, BootKeeps
<1>9. CASE Comes
  BY <1>9 DEF Comes, AccessTypeOK
<1>10. CASE UNCHANGED accessVars
  BY <1>10 DEF accessVars, AccessTypeOK
<1> QED BY <1>1, <1>2, <1>3, <1>4, <1>5, <1>6, <1>7, <1>8, <1>9, <1>10 DEF AccessNext

LEMMA AccessInvariant == AccessSpec => []AccessInv
BY AccessInvInit, AccessInvNext, PTL DEF AccessSpec

-----------------------------------------------------------------------------

(***************************************************************************)
(* The state is well typed, and the record and the values of the last      *)
(* install always pass check_players, whichever form wrote them.           *)
(***************************************************************************)
THEOREM AccessTypeCorrect == AccessSpec => []AccessTypeOK
<1>1. AccessInv => AccessTypeOK
  BY DEF AccessInv
<1> QED BY <1>1, AccessInvariant, PTL

(***************************************************************************)
(* Everybody on the list of a closed world gets in, on a live server that  *)
(* has seen every edit.                                                    *)
(***************************************************************************)
THEOREM ListedMayAlwaysJoin == AccessSpec => []ListedMayJoin
<1>1. AccessInv => ListedMayJoin
  BY DEF AccessInv, Agrees, Follows, ListedMayJoin, Live
<1> QED BY <1>1, AccessInvariant, PTL

(***************************************************************************)
(* On such a server the admins of the record are admins, and whoever was   *)
(* taken off is not.                                                       *)
(***************************************************************************)
THEOREM AdminsAlwaysAgree == AccessSpec => []AdminsAgree
<1>1. AccessInv => AdminsAgree
  BY DEF AccessInv, Agrees, Follows, AdminsAgree, Live
<1> QED BY <1>1, AccessInvariant, PTL

(***************************************************************************)
(* The settings form never saves an access setting it read before an edit. *)
(***************************************************************************)
THEOREM FormNeverLosesEdit == AccessSpec => FormKeepsAccess
<1>1. AccessInv /\ FormSaves => rec' = rec
  BY DEF AccessInv, FormCurrent, FormSaves
<1>2. AccessInv /\ [AccessNext]_accessVars => [FormSaves => rec' = rec]_accessVars
  BY <1>1
<1> QED BY <1>2, AccessInvariant, PTL DEF AccessSpec, FormKeepsAccess

=============================================================================

---------------------------- MODULE WorldVolume ----------------------------
(***************************************************************************)
(* What the dashboard promises about the volume of a world, seen by        *)
(* somebody who knows nothing of operations, Jobs or Helm: it has one user *)
(* at a time, a server is only ever given a whole world, and data a server *)
(* wrote is destroyed only after it was saved elsewhere.                   *)
(***************************************************************************)

VARIABLES
  data,   \* what is on the volume
  user,   \* who works on it
  saved   \* the data a server wrote is saved elsewhere

volumeVars == <<data, user, saved>>

Data == {"none", "empty", "partial", "seeded", "played", "doomed"}

Users == {"nobody", "server", "copier"}

Destroyable == data = "played" => saved

-----------------------------------------------------------------------------

Claim ==
  /\ data = "none"
  /\ data' = "empty" /\ saved' \in BOOLEAN
  /\ UNCHANGED user

\* The volume is handed over, from nobody or back to nobody.
CopierEnters ==
  /\ user = "nobody"
  /\ user' = "copier"
  /\ data' \in {data} \cup (IF data = "none" THEN {"empty"} ELSE {})
  /\ UNCHANGED saved

ServerEnters ==
  /\ user = "nobody" /\ data \in {"empty", "seeded", "played"}
  /\ user' = "server"
  /\ UNCHANGED <<data, saved>>

Leaves ==
  /\ user # "nobody"
  /\ user' = "nobody"
  /\ data' \in {data} \cup (IF user = "copier" THEN {"seeded"} ELSE {})
  /\ UNCHANGED saved

Copies ==
  /\ user = "copier" /\ Destroyable
  /\ data' = "partial"
  /\ UNCHANGED <<user, saved>>

Plays ==
  /\ user = "server"
  /\ data' = "played"
  /\ UNCHANGED <<user, saved>>

\* The data is saved, or a request asks for a newer save.
Saves ==
  /\ saved' \in BOOLEAN
  /\ UNCHANGED <<data, user>>

Destroy ==
  /\ user # "copier" /\ Destroyable
  /\ data' \in {"none", "doomed"}
  /\ data' = "none" => user = "nobody"
  /\ UNCHANGED <<user, saved>>

Init ==
  /\ ~saved
  /\ \/ data = "none" /\ user = "nobody"
     \/ data = "played" /\ user = "server"

Next ==
  \/ Claim \/ CopierEnters \/ ServerEnters \/ Leaves \/ Copies \/ Plays
  \/ Saves \/ Destroy

Spec == Init /\ [][Next]_volumeVars

=============================================================================

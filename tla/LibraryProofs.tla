---------------------------- MODULE LibraryProofs ----------------------------
(***************************************************************************)
(* Proofs about backups.                                                   *)
(*                                                                         *)
(* Library: listed backups are complete, temporary files do not stay, and  *)
(* labels neither undo each other nor are shown with a backup they were    *)
(* not given to, for any number of promote requests and file names.  A     *)
(* file is named by the copy in it, so the argument is about copies: a     *)
(* copy is new to the request that opens it (FreshCopies), two requests    *)
(* have one only if it counts as shared (SharedCopies), and a request that *)
(* is through with copying has a whole or a shared one (CopiedWhole).      *)
(*                                                                         *)
(* Archive: no file of a zip is written over another, and a snapshot       *)
(* seeded again comes back as it was, for any paths.                       *)
(***************************************************************************)
EXTENDS Library, Archive, SequenceTheorems, TLAPS

Stages == {"idle", "named", "copying", "copied", "placed", "done"}

LibraryTypes ==
  /\ request \in [Promotes -> [at: Stages, name: Names \cup {0}, copy: Copies]]
  /\ temp \in [Names -> Copies] /\ file \in [Names -> Copies]
  /\ \A q \in Promotes :
       /\ request[q].at \in {"copying", "copied", "placed"} =>
            request[q].name # 0 /\ request[q].copy # 0
       /\ request[q].at = "named" => request[q].name # 0 /\ request[q].copy = 0
       /\ request[q].at \in {"idle", "done"} => request[q].copy = 0

FreshCopies ==
  \A q \in Promotes : request[q].at \in {"idle", "named"} =>
    /\ \A n \in Names : temp[n] # q /\ file[n] # q
    /\ \A r \in Promotes : request[r].copy # q

SharedCopies ==
  \A q, r \in Promotes :
    q # r /\ request[q].copy # 0 /\ request[q].copy = request[r].copy =>
      request[q].copy \in shared

CopiedWhole ==
  \A q \in Promotes :
    request[q].at = "copied" => request[q].copy \in whole \cup shared

TempsOwned ==
  \A n \in Names : temp[n] # 0 =>
    \E q \in Promotes : request[q].name = n /\ request[q].at \in {"copying", "copied"}

LibraryInv ==
  /\ LibraryTypes /\ FreshCopies /\ SharedCopies /\ CopiedWhole
  /\ TempsOwned /\ WholeOrShared

-----------------------------------------------------------------------------

LEMMA LibraryInvInit == LibraryInit => LibraryInv
<1> SUFFICES ASSUME LibraryInit PROVE LibraryInv
  OBVIOUS
<1>1. 0 \notin Promotes
  BY LibraryAssumption
<1> QED BY <1>1
      DEF LibraryInit, LibraryInv, LibraryTypes, FreshCopies, SharedCopies, CopiedWhole,
          TempsOwned, WholeOrShared, Waiting, Stages, Copies, Names

\* An action that leaves promotes and files alone.
LEMMA OthersKeep ==
  ASSUME LibraryInv, UNCHANGED <<promoteVars, file>>
  PROVE  LibraryInv'
BY DEF promoteVars, LibraryInv, LibraryTypes, FreshCopies, SharedCopies, CopiedWhole,
       TempsOwned, WholeOrShared

LEMMA UnlinksKeeps ==
  ASSUME LibraryInv, NEW n \in Names, Unlinks(n)
  PROVE  LibraryInv'
<1>1. file' = [file EXCEPT ![n] = 0] /\ UNCHANGED promoteVars
  BY DEF Unlinks
<1>2. \A m \in Names : file'[m] \in {file[m], 0}
  BY <1>1 DEF LibraryInv, LibraryTypes
<1>3. file' \in [Names -> Copies]
  BY <1>1 DEF LibraryInv, LibraryTypes, Copies
<1>4. 0 \notin Promotes
  BY LibraryAssumption
<1> QED BY <1>1, <1>2, <1>3, <1>4
      DEF promoteVars, LibraryInv, LibraryTypes, FreshCopies, SharedCopies, CopiedWhole,
          TempsOwned, WholeOrShared

LEMMA ChoosesKeeps ==
  ASSUME LibraryInv, NEW q \in Promotes, Chooses(q)
  PROVE  LibraryInv'
<1>1. PICK n \in Names :
        request' = [request EXCEPT ![q] = [at |-> "named", name |-> n, copy |-> 0]]
  BY DEF Chooses
<1>2. request[q].at = "idle" /\ UNCHANGED <<temp, file, whole, shared>>
  BY DEF Chooses
<1>3. request'[q] = [at |-> "named", name |-> n, copy |-> 0]
      /\ \A r \in Promotes \ {q} : request'[r] = request[r]
  BY <1>1 DEF LibraryInv, LibraryTypes
<1>4. 0 \notin Promotes /\ n # 0
  BY LibraryAssumption DEF Names
<1>5. LibraryTypes'
  BY <1>1, <1>2, <1>3, <1>4 DEF LibraryInv, LibraryTypes, Stages, Copies
<1>6. FreshCopies'
  BY <1>2, <1>3, <1>4 DEF LibraryInv, FreshCopies
<1>7. SharedCopies' /\ CopiedWhole'
  BY <1>2, <1>3 DEF LibraryInv, SharedCopies, CopiedWhole
<1>8. TempsOwned' /\ WholeOrShared'
  BY <1>2, <1>3 DEF LibraryInv, TempsOwned, WholeOrShared
<1> QED BY <1>5, <1>6, <1>7, <1>8 DEF LibraryInv

LEMMA OpensKeeps ==
  ASSUME LibraryInv, NEW q \in Promotes, Opens(q)
  PROVE  LibraryInv'
<1> DEFINE n == request[q].name
           c == IF temp[n] = 0 THEN q ELSE temp[n]
<1>1. /\ request[q].at = "named"
      /\ temp' = [temp EXCEPT ![n] = c]
      /\ request' = [request EXCEPT ![q].at = "copying", ![q].copy = c]
      /\ whole' = whole \ {c}
      /\ shared' = IF c = q THEN shared ELSE shared \cup {c}
      /\ file' = file
  BY DEF Opens
<1>2. n \in Names /\ temp[n] \in Copies
  BY <1>1 DEF LibraryInv, LibraryTypes, Names
<1>3. c \in Promotes /\ c # 0
  BY <1>2, LibraryAssumption DEF Copies
<1>4. c = q => temp[n] = 0
  BY <1>1, <1>2 DEF LibraryInv, FreshCopies
<1>5. c # q => temp[n] = c
  OBVIOUS
<1>6. /\ request'[q].at = "copying" /\ request'[q].name = n /\ request'[q].copy = c
      /\ request'[q] \in [at: Stages, name: Names \cup {0}, copy: Copies]
      /\ \A r \in Promotes \ {q} : request'[r] = request[r]
  BY <1>1, <1>2, <1>3 DEF LibraryInv, LibraryTypes, Stages, Copies
<1>7. temp'[n] = c /\ \A m \in Names \ {n} : temp'[m] = temp[m]
  BY <1>1, <1>2 DEF LibraryInv, LibraryTypes
<1>8. temp' \in [Names -> Copies]
  BY <1>1, <1>3 DEF LibraryInv, LibraryTypes, Copies
<1> HIDE DEF c
<1>9. LibraryTypes'
  <2>1. request' \in [Promotes -> [at: Stages, name: Names \cup {0}, copy: Copies]]
    BY <1>1, <1>6 DEF LibraryInv, LibraryTypes
  <2> QED BY <1>1, <1>3, <1>6, <1>8, <2>1, <1>2 DEF LibraryInv, LibraryTypes, Names
<1>10. FreshCopies'
  <2> SUFFICES ASSUME NEW r \in Promotes, request'[r].at \in {"idle", "named"}
               PROVE  /\ \A m \in Names : temp'[m] # r /\ file'[m] # r
                      /\ \A s \in Promotes : request'[s].copy # r
    BY DEF FreshCopies
  <2>1. r # q /\ request[r].at \in {"idle", "named"}
    BY <1>6
  <2>2. c # r
    BY <1>2, <1>5, <2>1 DEF LibraryInv, FreshCopies
  <2>3. /\ \A m \in Names : temp[m] # r /\ file[m] # r
        /\ \A s \in Promotes : request[s].copy # r
    BY <2>1 DEF LibraryInv, FreshCopies
  <2>4. \A m \in Names : temp'[m] # r /\ file'[m] # r
    BY <1>1, <1>7, <2>2, <2>3
  <2>5. \A s \in Promotes : request'[s].copy # r
    BY <1>6, <2>2, <2>3
  <2> QED BY <2>4, <2>5
<1>11. SharedCopies'
  <2>1. \A r \in Promotes \ {q} : request[r].copy = c => c # q
    BY <1>1 DEF LibraryInv, FreshCopies
  <2>2. shared \subseteq shared' /\ (c # q => c \in shared')
    BY <1>1
  <2>3. \A r \in Promotes \ {q} : request'[r].copy = c => c \in shared'
    BY <1>6, <2>1, <2>2
  <2> SUFFICES ASSUME NEW r \in Promotes, NEW s \in Promotes, r # s,
                      request'[r].copy # 0, request'[r].copy = request'[s].copy
               PROVE  request'[r].copy \in shared'
    BY DEF SharedCopies
  <2>4. CASE r = q
    BY <1>6, <2>3, <2>4
  <2>5. CASE s = q
    BY <1>6, <2>3, <2>5
  <2>6. CASE r # q /\ s # q
    BY <1>6, <2>2, <2>6 DEF LibraryInv, SharedCopies
  <2> QED BY <2>4, <2>5, <2>6
<1>12. CopiedWhole'
  <2> SUFFICES ASSUME NEW r \in Promotes, request'[r].at = "copied"
               PROVE  request'[r].copy \in whole' \cup shared'
    BY DEF CopiedWhole
  <2>1. r # q /\ request'[r] = request[r]
    BY <1>6
  <2>2. request[r].copy = c => c # q
    BY <1>1 DEF LibraryInv, FreshCopies
  <2> QED BY <1>1, <2>1, <2>2 DEF LibraryInv, CopiedWhole
<1>13. TempsOwned'
  <2> SUFFICES ASSUME NEW m \in Names, temp'[m] # 0
               PROVE  \E r \in Promotes :
                        request'[r].name = m /\ request'[r].at \in {"copying", "copied"}
    BY DEF TempsOwned
  <2>1. CASE m = n
    BY <1>6, <2>1
  <2>2. CASE m # n
    <3>1. PICK r \in Promotes :
            request[r].name = m /\ request[r].at \in {"copying", "copied"}
      BY <1>7, <2>2 DEF LibraryInv, TempsOwned
    <3>2. r # q
      BY <1>1, <3>1
    <3> QED BY <1>6, <3>1, <3>2
  <2> QED BY <2>1, <2>2
<1>14. WholeOrShared'
  <2>1. \A m \in Names : file[m] = c => c # q
    BY <1>1 DEF LibraryInv, FreshCopies
  <2> QED BY <1>1, <2>1 DEF LibraryInv, WholeOrShared
<1> QED BY <1>9, <1>10, <1>11, <1>12, <1>13, <1>14 DEF LibraryInv

LEMMA CopyEndsKeeps ==
  ASSUME LibraryInv, NEW q \in Promotes, CopyEnds(q)
  PROVE  LibraryInv'
<1> DEFINE c == request[q].copy
<1>1. /\ request[q].at = "copying"
      /\ request' = [request EXCEPT ![q].at = "copied"]
      /\ UNCHANGED <<temp, file, shared>>
  BY DEF CopyEnds
<1>2. \/ whole' = whole \cup {c}
      \/ whole' = whole /\ \E r \in Promotes \ {q} : request[r].copy = c
  BY DEF CopyEnds
<1>3. c # 0
  BY <1>1 DEF LibraryInv, LibraryTypes
<1>4. c \in whole' \cup shared' /\ whole \subseteq whole'
  BY <1>1, <1>2, <1>3 DEF LibraryInv, SharedCopies
<1>5. /\ request'[q].at = "copied" /\ request'[q].name = request[q].name
      /\ request'[q].copy = c
      /\ \A r \in Promotes \ {q} : request'[r] = request[r]
  BY <1>1 DEF LibraryInv, LibraryTypes
<1>6. LibraryTypes'
  BY <1>1, <1>5 DEF LibraryInv, LibraryTypes, Stages
<1>7. FreshCopies' /\ SharedCopies'
  BY <1>1, <1>5 DEF LibraryInv, FreshCopies, SharedCopies
<1>8. CopiedWhole'
  BY <1>1, <1>4, <1>5 DEF LibraryInv, CopiedWhole
<1>9. TempsOwned' /\ WholeOrShared'
  BY <1>1, <1>4, <1>5 DEF LibraryInv, TempsOwned, WholeOrShared
<1> QED BY <1>6, <1>7, <1>8, <1>9 DEF LibraryInv

\* A request that ends, or has placed its copy, and leaves no temporary file.
LEMMA Leaves ==
  ASSUME LibraryInv, NEW q \in Promotes,
         request[q].at \in {"copying", "copied"},
         NEW new \in [at: {"placed", "done"}, name: Names \cup {0}, copy: Copies],
         new.at = "placed" => new.name = request[q].name /\ new.copy = request[q].copy,
         new.at = "done" => new.copy = 0,
         request' = [request EXCEPT ![q] = new],
         temp' = [temp EXCEPT ![request[q].name] = 0],
         whole' = whole, shared \subseteq shared'
  PROVE  /\ (file' \in [Names -> Copies] => LibraryTypes')
         /\ ((\A m \in Names : file'[m] \in {file[m], temp[m]}) => FreshCopies')
         /\ SharedCopies' /\ CopiedWhole' /\ TempsOwned'
<1> DEFINE n == request[q].name
<1>1. n \in Names /\ 0 \notin Promotes
  BY LibraryAssumption DEF LibraryInv, LibraryTypes, Names
<1>2. /\ request'[q] = new /\ new.at \in {"placed", "done"}
      /\ new.copy \in {request[q].copy, 0}
      /\ new.at = "placed" => new.name = n /\ new.copy = request[q].copy
      /\ new.at = "done" => new.copy = 0
      /\ new \in [at: Stages, name: Names \cup {0}, copy: Copies]
      /\ \A r \in Promotes \ {q} : request'[r] = request[r]
  BY DEF LibraryInv, LibraryTypes, Stages, Copies
<1>3. temp'[n] = 0 /\ \A m \in Names \ {n} : temp'[m] = temp[m]
  BY <1>1 DEF LibraryInv, LibraryTypes
<1>4. temp' \in [Names -> Copies]
  BY DEF LibraryInv, LibraryTypes, Copies
<1>5. request' \in [Promotes -> [at: Stages, name: Names \cup {0}, copy: Copies]]
  BY <1>2 DEF LibraryInv, LibraryTypes
<1>6. file' \in [Names -> Copies] => LibraryTypes'
  BY <1>1, <1>2, <1>4, <1>5 DEF LibraryInv, LibraryTypes
<1>7. (\A m \in Names : file'[m] \in {file[m], temp[m]}) => FreshCopies'
  BY <1>1, <1>2, <1>3 DEF LibraryInv, FreshCopies
<1>8. SharedCopies'
  BY <1>2 DEF LibraryInv, SharedCopies
<1>9. CopiedWhole'
  BY <1>2 DEF LibraryInv, CopiedWhole
<1>10. TempsOwned'
  BY <1>2, <1>3 DEF LibraryInv, TempsOwned
<1> QED BY <1>6, <1>7, <1>8, <1>9, <1>10

LEMMA CopyFailsKeeps ==
  ASSUME LibraryInv, NEW q \in Promotes, CopyFails(q)
  PROVE  LibraryInv'
<1>1. /\ request[q].at = "copying"
      /\ request' = [request EXCEPT ![q] = Done]
      /\ temp' = [temp EXCEPT ![request[q].name] = 0]
      /\ file' = file /\ whole' = whole /\ shared' = shared
  BY DEF CopyFails, Unlinked
<1>2. file' \in [Names -> Copies] /\ \A m \in Names : file'[m] \in {file[m], temp[m]}
  BY <1>1 DEF LibraryInv, LibraryTypes
<1>3. WholeOrShared'
  BY <1>1 DEF LibraryInv, WholeOrShared
<1>4. request[q].at \in {"copying", "copied"} /\ shared \subseteq shared'
  BY <1>1
<1>5. /\ Done \in [at: {"placed", "done"}, name: Names \cup {0}, copy: Copies]
      /\ Done.at = "done" /\ Done.copy = 0
  BY DEF Done, Copies
<1>6. LibraryTypes' /\ FreshCopies' /\ SharedCopies' /\ CopiedWhole' /\ TempsOwned'
  BY <1>1, <1>2, <1>4, <1>5, Leaves
<1> QED BY <1>3, <1>6 DEF LibraryInv

LEMMA ReplacesKeeps ==
  ASSUME LibraryInv, NEW q \in Promotes, Replaces(q)
  PROVE  LibraryInv'
<1> DEFINE n == request[q].name
<1>1. /\ request[q].at = "copied"
      /\ temp' = [temp EXCEPT ![n] = 0]
      /\ shared' = IF temp[n] = request[q].copy THEN shared ELSE shared \cup {temp[n]}
      /\ whole' = whole
      /\ \/ /\ temp[n] # 0 /\ file' = [file EXCEPT ![n] = temp[n]]
            /\ request' = [request EXCEPT ![q].at = "placed"]
         \/ /\ temp[n] = 0 /\ file' = file
            /\ request' = [request EXCEPT ![q] = Done]
  BY DEF Replaces, Copied
<1>2. n \in Names
  BY <1>1 DEF LibraryInv, LibraryTypes, Names
<1>3. file' \in [Names -> Copies] /\ \A m \in Names : file'[m] \in {file[m], temp[m]}
  BY <1>1, <1>2 DEF LibraryInv, LibraryTypes
<1>4. PICK new \in [at: {"placed", "done"}, name: Names \cup {0}, copy: Copies] :
        /\ request' = [request EXCEPT ![q] = new]
        /\ new.at = "placed" => new.name = n /\ new.copy = request[q].copy
        /\ new.at = "done" => new.copy = 0
  <2>1. CASE request' = [request EXCEPT ![q] = Done]
    <3>1. Done \in [at: {"placed", "done"}, name: Names \cup {0}, copy: Copies]
      BY DEF Done, Copies
    <3>2. Done.at = "done" /\ Done.copy = 0
      BY DEF Done
    <3> QED BY <2>1, <3>1, <3>2
  <2>2. CASE request' = [request EXCEPT ![q].at = "placed"]
    <3> DEFINE new == [at |-> "placed", name |-> n, copy |-> request[q].copy]
    <3>1. new \in [at: {"placed", "done"}, name: Names \cup {0}, copy: Copies]
      BY DEF LibraryInv, LibraryTypes
    <3>2. request[q] \in [at: Stages, name: Names \cup {0}, copy: Copies]
      BY DEF LibraryInv, LibraryTypes
    <3>3. [request[q] EXCEPT !.at = "placed"] = new
      BY <3>2
    <3>4. request' = [request EXCEPT ![q] = [request[q] EXCEPT !.at = "placed"]]
      BY <2>2
    <3>5. request' = [request EXCEPT ![q] = new]
      BY <3>3, <3>4, Zenon
    <3> QED BY <3>1, <3>5
  <2> QED BY <1>1, <2>1, <2>2
<1>5. WholeOrShared'
  <2>1. temp[n] # 0 => temp[n] \in whole' \cup shared'
    BY <1>1 DEF LibraryInv, CopiedWhole
  <2> QED BY <1>1, <1>2, <2>1 DEF LibraryInv, LibraryTypes, WholeOrShared
<1>6. shared \subseteq shared'
  BY <1>1
<1>7. request[q].at \in {"copying", "copied"}
  BY <1>1
<1>8. LibraryTypes' /\ FreshCopies' /\ SharedCopies' /\ CopiedWhole' /\ TempsOwned'
  BY <1>1, <1>3, <1>4, <1>6, <1>7, Leaves
<1> QED BY <1>5, <1>8 DEF LibraryInv

LEMMA WritesSidecarKeeps ==
  ASSUME LibraryInv, NEW q \in Promotes, WritesSidecar(q)
  PROVE  LibraryInv'
<1>1. /\ request[q].at = "placed"
      /\ request' = [request EXCEPT ![q] = Done]
      /\ UNCHANGED <<temp, file, whole, shared>>
  BY DEF WritesSidecar
<1>2. /\ request'[q] = Done /\ \A r \in Promotes \ {q} : request'[r] = request[r]
      /\ Done \in [at: Stages, name: Names \cup {0}, copy: Copies]
      /\ Done.at = "done" /\ Done.copy = 0 /\ 0 \notin Promotes
  BY <1>1, LibraryAssumption DEF LibraryInv, LibraryTypes, Done, Stages, Copies
<1>3. LibraryTypes'
  BY <1>1, <1>2 DEF LibraryInv, LibraryTypes
<1>4. FreshCopies' /\ SharedCopies' /\ CopiedWhole'
  BY <1>1, <1>2 DEF LibraryInv, FreshCopies, SharedCopies, CopiedWhole
<1>5. TempsOwned' /\ WholeOrShared'
  BY <1>1, <1>2 DEF LibraryInv, TempsOwned, WholeOrShared
<1> QED BY <1>3, <1>4, <1>5 DEF LibraryInv

LEMMA LibraryInvNext == LibraryInv /\ [LibraryNext]_libraryVars => LibraryInv'
<1> SUFFICES ASSUME LibraryInv, [LibraryNext]_libraryVars PROVE LibraryInv'
  OBVIOUS
<1>1. ASSUME NEW q \in Promotes, Chooses(q) PROVE LibraryInv'
  BY <1>1, ChoosesKeeps
<1>2. ASSUME NEW q \in Promotes, Opens(q) PROVE LibraryInv'
  BY <1>2, OpensKeeps
<1>3. ASSUME NEW q \in Promotes, CopyEnds(q) PROVE LibraryInv'
  BY <1>3, CopyEndsKeeps
<1>4. ASSUME NEW q \in Promotes, CopyFails(q) PROVE LibraryInv'
  BY <1>4, CopyFailsKeeps
<1>5. ASSUME NEW q \in Promotes, Replaces(q) PROVE LibraryInv'
  BY <1>5, ReplacesKeeps
<1>6. ASSUME NEW q \in Promotes, WritesSidecar(q) PROVE LibraryInv'
  BY <1>6, WritesSidecarKeeps
<1>7. ASSUME NEW n \in Names,
             \/ LabelBegins(n) \/ LabelWritesSidecar(n) \/ LabelLocks(n) \/ LabelSaves(n)
             \/ UnlinksSidecar(n) \/ DropLocks(n) \/ LabelDropped(n)
      PROVE  LibraryInv'
  <2>1. UNCHANGED <<promoteVars, file>>
    BY <1>7 DEF LabelBegins, LabelWritesSidecar, LabelLocks, LabelSaves, UnlinksSidecar,
                DropLocks, LabelDropped
  <2> QED BY <2>1, OthersKeep
<1>8. ASSUME NEW n \in Names, Unlinks(n) PROVE LibraryInv'
  BY <1>8, UnlinksKeeps
<1>9. CASE UNCHANGED libraryVars
  BY <1>9, OthersKeep DEF libraryVars, promoteVars
<1> QED BY <1>1, <1>2, <1>3, <1>4, <1>5, <1>6, <1>7, <1>8, <1>9 DEF LibraryNext

LEMMA LibraryInvariant == LibrarySpec => []LibraryInv
BY LibraryInvInit, LibraryInvNext, PTL DEF LibrarySpec

(***************************************************************************)
(* A listed backup is complete, however copies fail, unless two requests   *)
(* that chose one name have been at it.                                    *)
(***************************************************************************)
THEOREM ListedAreWhole == LibrarySpec => []WholeOrShared
<1>1. LibraryInv => WholeOrShared
  BY DEF LibraryInv
<1> QED BY <1>1, LibraryInvariant, PTL

(***************************************************************************)
(* No promote leaves its temporary file behind.                            *)
(***************************************************************************)
THEOREM TempsAlwaysGone == LibrarySpec => []TempsGone
<1>1. LibraryInv => TempsGone
  <2> SUFFICES ASSUME LibraryInv, NEW n \in Names, temp[n] # 0
               PROVE  \E q \in Promotes : request[q].name = n /\ request[q].copy # 0
    BY DEF TempsGone
  <2>1. PICK q \in Promotes :
          request[q].name = n /\ request[q].at \in {"copying", "copied"}
    BY DEF LibraryInv, TempsOwned
  <2> QED BY <2>1 DEF LibraryInv, LibraryTypes
<1> QED BY <1>1, LibraryInvariant, PTL

-----------------------------------------------------------------------------
(* The labels file: whoever holds the lock works on what is in the file.   *)

LockHeld(n) == labelling[n].at = "locked" \/ deleting[n].at = "locked"

Edits ==
  [at: {"none", "found", "sidecar", "locked", "unlinked"}, copy: Copies,
   read: [Names -> Copies]]

LockTypes ==
  /\ labels \in [Names -> Copies]
  /\ labelling \in [Names -> Edits] /\ deleting \in [Names -> Edits]

LockInv ==
  /\ LockTypes
  /\ \A n \in Names : ~(labelling[n].at = "locked" /\ deleting[n].at = "locked")
  /\ \A m, n \in Names : m # n => ~(LockHeld(m) /\ LockHeld(n))
  /\ \A n \in Names : labelling[n].at = "locked" => labelling[n].read = labels
  /\ \A n \in Names : deleting[n].at = "locked" => deleting[n].read = labels

LEMMA NoEditType == NoEdit \in Edits /\ NoEdit.at = "none"
BY DEF NoEdit, Edits, Copies

LEMMA LockInvInit == LibraryInit => LockInv
<1> SUFFICES ASSUME LibraryInit PROVE LockInv
  OBVIOUS
<1>1. LockTypes
  BY NoEditType DEF LibraryInit, LockTypes, Copies
<1> QED BY <1>1, NoEditType DEF LibraryInit, LockInv, LockHeld

\* An edit that steps on without the lock.
LEMMA UnlockedKeeps ==
  ASSUME LockInv, NEW n \in Names, NEW e \in Edits, NEW f \in Edits,
         labelling' = [labelling EXCEPT ![n] = e], deleting' = [deleting EXCEPT ![n] = f],
         e.at = "locked" => e = labelling[n], f.at = "locked" => f = deleting[n],
         labels' = labels
  PROVE  LockInv'
<1>1. /\ labelling'[n] = e /\ deleting'[n] = f
      /\ \A m \in Names \ {n} : labelling'[m] = labelling[m] /\ deleting'[m] = deleting[m]
  BY DEF LockInv, LockTypes
<1>2. LockTypes'
  BY DEF LockInv, LockTypes
<1>3. \A m \in Names : LockHeld(m)' => LockHeld(m)
  BY <1>1 DEF LockHeld
<1> QED BY <1>1, <1>2, <1>3 DEF LockInv

\* One that takes the lock, and reads the labels.
LEMMA LockingKeeps ==
  ASSUME LockInv, LockFree, NEW n \in Names, NEW e \in Edits, NEW f \in Edits,
         labelling' = [labelling EXCEPT ![n] = e], deleting' = [deleting EXCEPT ![n] = f],
         \/ e.at = "locked" /\ e.read = labels /\ f = deleting[n]
         \/ f.at = "locked" /\ f.read = labels /\ e = labelling[n],
         labels' = labels
  PROVE  LockInv'
<1>1. /\ labelling'[n] = e /\ deleting'[n] = f
      /\ \A m \in Names \ {n} : labelling'[m] = labelling[m] /\ deleting'[m] = deleting[m]
  BY DEF LockInv, LockTypes
<1>2. LockTypes'
  BY DEF LockInv, LockTypes
<1>3. \A m \in Names : ~LockHeld(m)
  BY DEF LockFree, LockHeld
<1>4. \A m \in Names \ {n} : ~LockHeld(m)'
  BY <1>1, <1>3 DEF LockHeld
<1>5. ~(e.at = "locked" /\ f.at = "locked")
  BY <1>3 DEF LockHeld
<1> QED BY <1>1, <1>2, <1>4, <1>5 DEF LockInv, LockHeld

\* One that writes what it read, but for its own name, and gives the lock back.
Releases(n, l) ==
  /\ LockHeld(n) /\ l \in Copies
  /\ labels' = [labels EXCEPT ![n] = l]
  /\ \/ labelling' = [labelling EXCEPT ![n] = NoEdit] /\ UNCHANGED deleting
        /\ labelling[n].at = "locked"
     \/ deleting' = [deleting EXCEPT ![n] = NoEdit] /\ UNCHANGED labelling
        /\ deleting[n].at = "locked"

LEMMA ReleasingKeeps ==
  ASSUME LockInv, NEW n \in Names, NEW l, Releases(n, l)
  PROVE  LockInv'
<1>1. LockTypes'
  BY NoEditType DEF Releases, LockInv, LockTypes
<1>2. \A m \in Names \ {n} : ~LockHeld(m)
  BY DEF Releases, LockInv
<1>3. /\ \A m \in Names \ {n} : labelling'[m] = labelling[m] /\ deleting'[m] = deleting[m]
      /\ labelling'[n].at # "locked" /\ deleting'[n].at # "locked"
  BY NoEditType DEF Releases, LockInv, LockTypes
<1>4. \A m \in Names : ~LockHeld(m)'
  BY <1>2, <1>3 DEF LockHeld
<1> QED BY <1>1, <1>4 DEF LockInv, LockHeld

LEMMA SavesReleases ==
  ASSUME LockInv, NEW n \in Names, LabelSaves(n) \/ LabelDropped(n)
  PROVE  \E l : Releases(n, l)
<1>1. CASE LabelSaves(n)
  <2>1. PICK l \in {labelling[n].copy, 0} : labels' = [labelling[n].read EXCEPT ![n] = l]
    BY <1>1 DEF LabelSaves
  <2>2. labelling[n].read = labels /\ l \in Copies
    BY <1>1 DEF LabelSaves, LockInv, LockTypes, Edits, Copies
  <2> QED BY <1>1, <2>1, <2>2 DEF LabelSaves, Releases, LockHeld
<1>2. CASE LabelDropped(n)
  <2>1. deleting[n].read = labels /\ 0 \in Copies
    BY <1>2 DEF LabelDropped, LockInv, Copies
  <2> QED BY <1>2, <2>1 DEF LabelDropped, Dropped, Releases, LockHeld
<1> QED BY <1>1, <1>2

LEMMA LockInvNext ==
  LibraryInv /\ LockInv /\ [LibraryNext]_libraryVars => LockInv'
<1> SUFFICES ASSUME LibraryInv, LockInv, [LibraryNext]_libraryVars PROVE LockInv'
  OBVIOUS
<1> USE DEF LockTypes
<1>1. ASSUME UNCHANGED <<labels, labelling, deleting>> PROVE LockInv'
  BY <1>1 DEF LockInv, LockHeld
<1>2. ASSUME NEW q \in Promotes,
             \/ Chooses(q) \/ Opens(q) \/ CopyEnds(q) \/ CopyFails(q)
             \/ Replaces(q) \/ WritesSidecar(q)
      PROVE  LockInv'
  BY <1>1, <1>2 DEF Chooses, Opens, CopyEnds, CopyFails, Replaces, WritesSidecar
<1>3. ASSUME NEW n \in Names PROVE
        /\ labelling[n] \in Edits /\ deleting[n] \in Edits /\ file[n] \in Copies
        /\ labels \in [Names -> Copies] /\ labelling[n].copy \in Copies
        /\ labelling = [labelling EXCEPT ![n] = labelling[n]]
        /\ deleting = [deleting EXCEPT ![n] = deleting[n]]
  BY DEF LockInv, LibraryInv, LibraryTypes, Edits
<1>4. ASSUME NEW n \in Names, LabelBegins(n) PROVE LockInv'
  <2> DEFINE e == [labelling[n] EXCEPT !.at = "found", !.copy = file[n]]
  <2>1. labelling' = [labelling EXCEPT ![n] = e] /\ UNCHANGED <<labels, deleting>>
    BY <1>4 DEF LabelBegins
  <2>2. e \in Edits /\ e.at = "found"
    BY <1>3 DEF Edits
  <2> HIDE DEF e
  <2> QED BY <1>3, <2>1, <2>2, UnlockedKeeps
<1>5. ASSUME NEW n \in Names, LabelWritesSidecar(n) PROVE LockInv'
  <2> DEFINE e == [labelling[n] EXCEPT !.at = "sidecar"]
  <2>1. labelling' = [labelling EXCEPT ![n] = e] /\ UNCHANGED <<labels, deleting>>
    BY <1>5 DEF LabelWritesSidecar
  <2>2. e \in Edits /\ e.at = "sidecar"
    BY <1>3 DEF Edits
  <2> HIDE DEF e
  <2> QED BY <1>3, <2>1, <2>2, UnlockedKeeps
<1>6. ASSUME NEW n \in Names, LabelLocks(n) PROVE LockInv'
  <2> DEFINE e == [labelling[n] EXCEPT !.at = "locked", !.read = labels]
  <2>1. labelling' = [labelling EXCEPT ![n] = e] /\ UNCHANGED <<labels, deleting>> /\ LockFree
    BY <1>6 DEF LabelLocks
  <2>2. e \in Edits /\ e.at = "locked" /\ e.read = labels
    BY <1>3 DEF Edits
  <2> HIDE DEF e
  <2> QED BY <1>3, <2>1, <2>2, LockingKeeps
<1>7. ASSUME NEW n \in Names, Unlinks(n) PROVE LockInv'
  <2> DEFINE f == [deleting[n] EXCEPT !.at = "unlinked"]
  <2>1. deleting' = [deleting EXCEPT ![n] = f] /\ UNCHANGED <<labels, labelling>>
    BY <1>7 DEF Unlinks
  <2>2. f \in Edits /\ f.at = "unlinked"
    BY <1>3 DEF Edits
  <2> HIDE DEF f
  <2> QED BY <1>3, <2>1, <2>2, UnlockedKeeps
<1>8. ASSUME NEW n \in Names, UnlinksSidecar(n) PROVE LockInv'
  <2> DEFINE f == [deleting[n] EXCEPT !.at = "sidecar"]
  <2>1. deleting' = [deleting EXCEPT ![n] = f] /\ UNCHANGED <<labels, labelling>>
    BY <1>8 DEF UnlinksSidecar
  <2>2. f \in Edits /\ f.at = "sidecar"
    BY <1>3 DEF Edits
  <2> HIDE DEF f
  <2> QED BY <1>3, <2>1, <2>2, UnlockedKeeps
<1>9. ASSUME NEW n \in Names, DropLocks(n) PROVE LockInv'
  <2> DEFINE f == [deleting[n] EXCEPT !.at = "locked", !.read = labels]
  <2>1. deleting' = [deleting EXCEPT ![n] = f] /\ UNCHANGED <<labels, labelling>> /\ LockFree
    BY <1>9 DEF DropLocks
  <2>2. f \in Edits /\ f.at = "locked" /\ f.read = labels
    BY <1>3 DEF Edits
  <2> HIDE DEF f
  <2> QED BY <1>3, <2>1, <2>2, LockingKeeps
<1>10. ASSUME NEW n \in Names, LabelSaves(n) \/ LabelDropped(n) PROVE LockInv'
  BY <1>10, SavesReleases, ReleasingKeeps
<1>11. CASE UNCHANGED libraryVars
  BY <1>1, <1>11 DEF libraryVars
<1> QED BY <1>2, <1>4, <1>5, <1>6, <1>7, <1>8, <1>9, <1>10, <1>11 DEF LibraryNext

LEMMA LabelsStep ==
  LockInv /\ [LibraryNext]_libraryVars =>
    \A n \in Names : labels'[n] # labels[n] => LabelSaves(n) \/ LabelDropped(n)
<1> SUFFICES ASSUME LockInv, [LibraryNext]_libraryVars, NEW n \in Names,
                    labels'[n] # labels[n]
             PROVE  LabelSaves(n) \/ LabelDropped(n)
  OBVIOUS
<1>1. PICK m \in Names : LabelSaves(m) \/ LabelDropped(m)
  BY DEF LibraryNext, libraryVars, Chooses, Opens, CopyEnds, CopyFails, Replaces,
         WritesSidecar, LabelBegins, LabelWritesSidecar, LabelLocks, Unlinks,
         UnlinksSidecar, DropLocks
<1>2. PICK l : Releases(m, l)
  BY <1>1, SavesReleases
<1>3. \A k \in Names \ {m} : labels'[k] = labels[k]
  BY <1>2 DEF Releases, LockInv, LockTypes
<1> QED BY <1>1, <1>3

(***************************************************************************)
(* The labels file is read and written under one lock, so that an edit of  *)
(* one backup's label never brings back or takes away another's.           *)
(***************************************************************************)
THEOREM LabelsNeverUndone == LibrarySpec => LabelsKept
<1>1. LibrarySpec => [](LibraryInv /\ LockInv)
  BY LibraryInvInit, LibraryInvNext, LockInvInit, LockInvNext, PTL DEF LibrarySpec
<1>2. LockInv /\ [LibraryNext]_libraryVars
        => [\A n \in Names : labels'[n] # labels[n] => LabelSaves(n) \/ LabelDropped(n)
           ]_libraryVars
  BY LabelsStep
<1> QED BY <1>1, <1>2, PTL DEF LibrarySpec, LabelsKept

-----------------------------------------------------------------------------
(* Whose label: what one operation on a name finds and leaves, as long as  *)
(* no other was at it.  A promote may choose a name while the delete of    *)
(* its old file goes on; then the sidecar is the delete's until it has     *)
(* removed it, and the entry of the labels file until it has dropped it.   *)

NameOwn(n) ==
  /\ \A q, r \in Promotes : request[q].name = n /\ request[r].name = n => q = r
  /\ \A q \in Promotes : request[q].name = n =>
       \/ request[q].at = "named" /\ file[n] = 0
       \/ request[q].at \in {"copying", "copied"} /\ file[n] = 0 /\ temp[n] = request[q].copy
       \/ request[q].at = "placed" /\ file[n] = request[q].copy
  /\ labelling[n] # NoEdit =>
       ~Promoting(n) /\ deleting[n].at = "none" /\ labelling[n].copy = file[n]
  /\ deleting[n].at = "none" => labels[n] \in {file[n], 0}
  /\ deleting[n].at # "unlinked" => sidecar[n] \in {file[n], 0}

OwnInv ==
  /\ sidecar \in [Names -> Copies]
  /\ \A n \in Names \ mixed : NameOwn(n)

LEMMA OwnInvInit == LibraryInit => OwnInv
<1> SUFFICES ASSUME LibraryInit PROVE OwnInv
  OBVIOUS
<1>1. \A q \in Promotes : request[q].name = 0
  BY DEF LibraryInit, Waiting
<1>2. sidecar \in [Names -> Copies]
  BY DEF LibraryInit, Copies
<1>3. \A n \in Names : n # 0
  BY DEF Names
<1> QED BY <1>1, <1>2, <1>3, NoEditType DEF LibraryInit, OwnInv, NameOwn

\* A step on one name leaves every other as it is.
LEMMA OtherNameOwn ==
  ASSUME NEW k \in Names, NameOwn(k),
         \A q \in Promotes :
           request'[q] = request[q] \/ (request[q].name # k /\ request'[q].name # k),
         temp'[k] = temp[k], file'[k] = file[k], sidecar'[k] = sidecar[k],
         labels'[k] = labels[k], labelling'[k] = labelling[k], deleting'[k] = deleting[k]
  PROVE  NameOwn(k)'
<1>1. \A q \in Promotes : request'[q].name = k => request'[q] = request[q]
  OBVIOUS
<1>2. \A q, r \in Promotes : request'[q].name = k /\ request'[r].name = k => q = r
  BY <1>1 DEF NameOwn
<1>3. Promoting(k)' => Promoting(k)
  BY <1>1 DEF Promoting
<1> QED BY <1>1, <1>2, <1>3 DEF NameOwn

LEMMA ChoosesOwn ==
  ASSUME LibraryInv, LockInv, OwnInv, NEW q \in Promotes, Chooses(q),
         NEW k \in Names \ mixed'
  PROVE  NameOwn(k)'
<1>1. PICK n \in Names :
        /\ file[n] = 0
        /\ request' = [request EXCEPT ![q] = [at |-> "named", name |-> n, copy |-> 0]]
        /\ mixed' = IF Promoting(n) \/ labelling[n] # NoEdit THEN mixed \cup {n} ELSE mixed
  BY DEF Chooses
<1>2. /\ request[q].at = "idle"
      /\ UNCHANGED <<temp, file, whole, shared, sidecar, labels, labelling, deleting>>
  BY DEF Chooses
<1>3. request'[q] = [at |-> "named", name |-> n, copy |-> 0]
      /\ \A r \in Promotes \ {q} : request'[r] = request[r]
  BY <1>1 DEF LibraryInv, LibraryTypes
<1>4. k \in Names \ mixed /\ NameOwn(k)
  BY <1>1 DEF OwnInv
<1>5. request[q].name # k
  BY <1>2, <1>4 DEF NameOwn
<1>6. CASE k # n
  BY <1>2, <1>3, <1>4, <1>5, <1>6, OtherNameOwn
<1>7. CASE k = n
  <2>1. ~Promoting(n) /\ labelling[n] = NoEdit
    BY <1>1, <1>7
  <2>2. \A r \in Promotes : request'[r].name = k => r = q
    BY <1>3, <1>7, <2>1 DEF Promoting
  <2> QED BY <1>1, <1>2, <1>3, <1>4, <1>7, <2>1, <2>2 DEF NameOwn
<1> QED BY <1>6, <1>7

LEMMA OpensOwn ==
  ASSUME LibraryInv, LockInv, OwnInv, NEW q \in Promotes, Opens(q),
         NEW k \in Names \ mixed'
  PROVE  NameOwn(k)'
<1> DEFINE n == request[q].name
           c == IF temp[n] = 0 THEN q ELSE temp[n]
           new == [at |-> "copying", name |-> n, copy |-> c]
<1>1. /\ request[q].at = "named"
      /\ temp' = [temp EXCEPT ![n] = c]
      /\ request' = [request EXCEPT ![q].at = "copying", ![q].copy = c]
      /\ UNCHANGED <<file, sidecar, labels, labelling, deleting, mixed>>
  BY DEF Opens
<1>2. n \in Names
  BY <1>1 DEF LibraryInv, LibraryTypes, Names
<1>3. request[q] \in [at: Stages, name: Names \cup {0}, copy: Copies]
  BY DEF LibraryInv, LibraryTypes
<1>4. /\ request'[q].at = "copying" /\ request'[q].name = n /\ request'[q].copy = c
      /\ \A r \in Promotes \ {q} : request'[r] = request[r]
  BY <1>1, <1>3 DEF LibraryInv, LibraryTypes
<1>5. temp'[n] = c /\ \A m \in Names \ {n} : temp'[m] = temp[m]
  BY <1>1, <1>2 DEF LibraryInv, LibraryTypes
<1> HIDE DEF c, new
<1>6. k \in Names \ mixed /\ NameOwn(k)
  BY <1>1 DEF OwnInv
<1>7. CASE k # n
  <2>1. \A r \in Promotes :
          request'[r] = request[r] \/ (request[r].name # k /\ request'[r].name # k)
    BY <1>4, <1>7
  <2> QED BY <1>1, <1>5, <1>6, <1>7, <2>1, OtherNameOwn
<1>8. CASE k = n
  <2>1. \A r \in Promotes : request'[r].name = k => r = q
    BY <1>4, <1>6, <1>8 DEF NameOwn
  <2>2. Promoting(n) /\ labelling[n] = NoEdit
    BY <1>6, <1>8 DEF NameOwn, Promoting
  <2>3. file[n] = 0
    BY <1>1, <1>6, <1>8 DEF NameOwn
  <2> QED BY <1>1, <1>4, <1>5, <1>6, <1>8, <2>1, <2>2, <2>3 DEF NameOwn
<1> QED BY <1>7, <1>8

LEMMA CopyEndsOwn ==
  ASSUME LibraryInv, LockInv, OwnInv, NEW q \in Promotes, CopyEnds(q),
         NEW k \in Names \ mixed'
  PROVE  NameOwn(k)'
<1> DEFINE n == request[q].name
<1>1. /\ request[q].at = "copying"
      /\ request' = [request EXCEPT ![q].at = "copied"]
      /\ UNCHANGED <<temp, file, sidecar, labels, labelling, deleting, mixed>>
  BY DEF CopyEnds
<1>2. /\ request'[q].at = "copied" /\ request'[q].name = n
      /\ request'[q].copy = request[q].copy
      /\ \A r \in Promotes \ {q} : request'[r] = request[r]
  BY <1>1 DEF LibraryInv, LibraryTypes
<1>3. k \in Names \ mixed /\ NameOwn(k)
  BY <1>1 DEF OwnInv
<1>4. CASE k # n
  <2>1. \A r \in Promotes :
          request'[r] = request[r] \/ (request[r].name # k /\ request'[r].name # k)
    BY <1>2, <1>4
  <2> QED BY <1>1, <1>3, <2>1, OtherNameOwn
<1>5. CASE k = n
  <2>1. \A r \in Promotes : request'[r].name = k => r = q
    BY <1>2, <1>3, <1>5 DEF NameOwn
  <2>2. Promoting(n) /\ labelling[n] = NoEdit
    BY <1>3, <1>5 DEF NameOwn, Promoting
  <2>3. file[n] = 0 /\ temp[n] = request[q].copy
    BY <1>1, <1>3, <1>5 DEF NameOwn
  <2> QED BY <1>1, <1>2, <1>3, <1>5, <2>1, <2>2, <2>3 DEF NameOwn
<1> QED BY <1>4, <1>5

\* A request that is through is on no name.
LEMMA ThroughOwn ==
  ASSUME LibraryInv, NEW q \in Promotes, NEW k \in Names, NameOwn(k),
         request' = [request EXCEPT ![q] = Done]
  PROVE  /\ request[q].name # k => \A r \in Promotes :
              request'[r] = request[r] \/ (request[r].name # k /\ request'[r].name # k)
         /\ request[q].name = k => \A r \in Promotes : request'[r].name # k
<1>1. request'[q] = Done /\ Done.name = 0 /\ k # 0
      /\ \A r \in Promotes \ {q} : request'[r] = request[r]
  BY DEF LibraryInv, LibraryTypes, Done, Names
<1> QED BY <1>1 DEF NameOwn

LEMMA CopyFailsOwn ==
  ASSUME LibraryInv, LockInv, OwnInv, NEW q \in Promotes, CopyFails(q),
         NEW k \in Names \ mixed'
  PROVE  NameOwn(k)'
<1> DEFINE n == request[q].name
<1>1. /\ request[q].at = "copying"
      /\ request' = [request EXCEPT ![q] = Done]
      /\ temp' = [temp EXCEPT ![n] = 0]
      /\ UNCHANGED <<file, sidecar, labels, labelling, deleting, mixed>>
  BY DEF CopyFails, Unlinked
<1>2. k \in Names \ mixed /\ NameOwn(k)
  BY <1>1 DEF OwnInv
<1>3. CASE k # n
  <2>1. temp'[k] = temp[k]
    BY <1>1, <1>3 DEF LibraryInv, LibraryTypes
  <2>2. \A r \in Promotes :
          request'[r] = request[r] \/ (request[r].name # k /\ request'[r].name # k)
    BY <1>1, <1>2, <1>3, ThroughOwn
  <2> QED BY <1>1, <1>2, <2>1, <2>2, OtherNameOwn
<1>4. CASE k = n
  <2>1. \A r \in Promotes : request'[r].name # k
    BY <1>1, <1>2, <1>4, ThroughOwn
  <2> QED BY <1>1, <1>2, <2>1 DEF NameOwn, Promoting
<1> QED BY <1>3, <1>4

LEMMA ReplacesOwn ==
  ASSUME LibraryInv, LockInv, OwnInv, NEW q \in Promotes, Replaces(q),
         NEW k \in Names \ mixed'
  PROVE  NameOwn(k)'
<1> DEFINE n == request[q].name
<1>1. /\ request[q].at = "copied"
      /\ temp' = [temp EXCEPT ![n] = 0]
      /\ \/ /\ temp[n] # 0 /\ file' = [file EXCEPT ![n] = temp[n]]
            /\ request' = [request EXCEPT ![q].at = "placed"]
         \/ /\ temp[n] = 0 /\ file' = file
            /\ request' = [request EXCEPT ![q] = Done]
      /\ UNCHANGED <<sidecar, labels, labelling, deleting, mixed>>
  BY DEF Replaces, Copied
<1>2. k \in Names \ mixed /\ NameOwn(k) /\ n \in Names /\ request[q].copy # 0
  BY <1>1 DEF OwnInv, LibraryInv, LibraryTypes, Names
<1>3. CASE k # n
  <2>1. temp'[k] = temp[k] /\ file'[k] = file[k]
    BY <1>1, <1>2, <1>3 DEF LibraryInv, LibraryTypes
  <2>2. \A r \in Promotes :
          request'[r] = request[r] \/ (request[r].name # k /\ request'[r].name # k)
    <3>1. CASE request' = [request EXCEPT ![q] = Done]
      BY <1>2, <1>3, <3>1, ThroughOwn
    <3>2. CASE request' = [request EXCEPT ![q].at = "placed"]
      BY <1>3, <3>2 DEF LibraryInv, LibraryTypes
    <3> QED BY <1>1, <3>1, <3>2
  <2> QED BY <1>1, <1>2, <2>1, <2>2, OtherNameOwn
<1>4. CASE k = n
  <2>1. temp[n] = request[q].copy /\ file[n] = 0
    BY <1>1, <1>2, <1>4 DEF NameOwn
  <2>2. file' = [file EXCEPT ![n] = temp[n]] /\ request' = [request EXCEPT ![q].at = "placed"]
    BY <1>1, <1>2, <2>1
  <2>3. file'[n] = request[q].copy
    BY <1>2, <2>1, <2>2 DEF LibraryInv, LibraryTypes
  <2>4. /\ request'[q].at = "placed" /\ request'[q].name = n
        /\ request'[q].copy = request[q].copy
        /\ \A r \in Promotes \ {q} : request'[r] = request[r]
    BY <2>2 DEF LibraryInv, LibraryTypes
  <2>5. \A r \in Promotes : request'[r].name = k => r = q
    BY <1>2, <1>4, <2>4 DEF NameOwn
  <2>6. labelling[n] = NoEdit
    BY <1>2, <1>4 DEF NameOwn, Promoting
  <2>7. /\ deleting'[n].at = "none" => labels'[n] \in {file'[n], 0}
        /\ deleting'[n].at # "unlinked" => sidecar'[n] \in {file'[n], 0}
    BY <1>1, <1>2, <1>4, <2>1 DEF NameOwn
  <2> QED BY <1>1, <1>4, <2>3, <2>4, <2>5, <2>6, <2>7 DEF NameOwn
<1> QED BY <1>3, <1>4

LEMMA WritesSidecarOwn ==
  ASSUME LibraryInv, LockInv, OwnInv, NEW q \in Promotes, WritesSidecar(q),
         NEW k \in Names \ mixed'
  PROVE  NameOwn(k)'
<1> DEFINE n == request[q].name
<1>1. /\ request[q].at = "placed"
      /\ sidecar' = [sidecar EXCEPT ![n] = request[q].copy]
      /\ request' = [request EXCEPT ![q] = Done]
      /\ UNCHANGED <<temp, file, labels, labelling, deleting, mixed>>
  BY DEF WritesSidecar
<1>2. k \in Names \ mixed /\ NameOwn(k)
  BY <1>1 DEF OwnInv
<1>3. CASE k # n
  <2>1. sidecar'[k] = sidecar[k]
    BY <1>1, <1>3 DEF OwnInv
  <2>2. \A r \in Promotes :
          request'[r] = request[r] \/ (request[r].name # k /\ request'[r].name # k)
    BY <1>1, <1>2, <1>3, ThroughOwn
  <2> QED BY <1>1, <1>2, <2>1, <2>2, OtherNameOwn
<1>4. CASE k = n
  <2>1. \A r \in Promotes : request'[r].name # k
    BY <1>1, <1>2, <1>4, ThroughOwn
  <2>2. file[n] = request[q].copy
    BY <1>1, <1>2, <1>4 DEF NameOwn
  <2>3. sidecar'[n] = file'[n]
    BY <1>1, <1>2, <1>4, <2>2 DEF OwnInv
  <2> QED BY <1>1, <1>2, <1>4, <2>1, <2>3 DEF NameOwn, Promoting
<1> QED BY <1>3, <1>4

\* The steps of labelling and deleting leave the requests and temporary files alone.
LEMMA EditOwn ==
  ASSUME NEW k \in Names, NameOwn(k), UNCHANGED promoteVars
  PROVE  /\ \A q \in Promotes : request'[q] = request[q]
         /\ temp'[k] = temp[k] /\ (Promoting(k)' <=> Promoting(k))
BY DEF promoteVars, Promoting

LEMMA LabelBeginsOwn ==
  ASSUME LibraryInv, LockInv, OwnInv, NEW n \in Names, LabelBegins(n),
         NEW k \in Names \ mixed'
  PROVE  NameOwn(k)'
<1>1. /\ labelling' = [labelling EXCEPT ![n].at = "found", ![n].copy = file[n]]
      /\ UNCHANGED <<promoteVars, file, sidecar, labels, deleting>>
      /\ mixed' = IF Quiet(n) THEN mixed ELSE mixed \cup {n}
  BY DEF LabelBegins, Enter
<1>2. k \in Names \ mixed /\ NameOwn(k)
  BY <1>1 DEF OwnInv
<1>3. UNCHANGED promoteVars
  BY <1>1
<1>4. /\ \A q \in Promotes : request'[q] = request[q]
      /\ temp'[k] = temp[k] /\ (Promoting(k)' <=> Promoting(k))
  BY <1>2, <1>3, EditOwn
<1>5. CASE k # n
  <2>1. labelling'[k] = labelling[k]
    BY <1>1, <1>5 DEF LockInv, LockTypes
  <2> QED BY <1>1, <1>2, <1>4, <2>1, OtherNameOwn
<1>6. CASE k = n
  <2>1. Quiet(n)
    BY <1>1, <1>6
  <2>2. labelling'[n].copy = file[n]
    BY <1>1 DEF LockInv, LockTypes, Edits
  <2>3. \A q \in Promotes : request[q].name # n
    BY <2>1 DEF Quiet, Promoting
  <2> QED BY <1>1, <1>2, <1>4, <1>6, <2>1, <2>2, <2>3 DEF NameOwn, Quiet
<1> QED BY <1>5, <1>6

LEMMA LabelWritesSidecarOwn ==
  ASSUME LibraryInv, LockInv, OwnInv, NEW n \in Names, LabelWritesSidecar(n),
         NEW k \in Names \ mixed'
  PROVE  NameOwn(k)'
<1>1. /\ labelling[n].at = "found"
      /\ sidecar' = [sidecar EXCEPT ![n] = labelling[n].copy]
      /\ labelling' = [labelling EXCEPT ![n].at = "sidecar"]
      /\ UNCHANGED <<promoteVars, file, labels, deleting, mixed>>
  BY DEF LabelWritesSidecar
<1>2. k \in Names \ mixed /\ NameOwn(k)
  BY <1>1 DEF OwnInv
<1>3. UNCHANGED promoteVars
  BY <1>1
<1>4. /\ \A q \in Promotes : request'[q] = request[q]
      /\ temp'[k] = temp[k] /\ (Promoting(k)' <=> Promoting(k))
  BY <1>2, <1>3, EditOwn
<1>5. CASE k # n
  <2>1. labelling'[k] = labelling[k] /\ sidecar'[k] = sidecar[k]
    BY <1>1, <1>5 DEF LockInv, LockTypes, OwnInv
  <2> QED BY <1>1, <1>2, <1>4, <2>1, OtherNameOwn
<1>6. CASE k = n
  <2>1. labelling[n] # NoEdit
    BY <1>1, NoEditType
  <2>2. ~Promoting(n) /\ deleting[n].at = "none" /\ labelling[n].copy = file[n]
    BY <1>2, <1>6, <2>1 DEF NameOwn
  <2>3. sidecar'[n] = file[n]
    BY <1>1, <2>2 DEF OwnInv
  <2>4. labelling'[n].copy = labelling[n].copy
    BY <1>1 DEF LockInv, LockTypes, Edits
  <2> QED BY <1>1, <1>2, <1>4, <1>6, <2>2, <2>3, <2>4 DEF NameOwn
<1> QED BY <1>5, <1>6

LEMMA LabelLocksOwn ==
  ASSUME LibraryInv, LockInv, OwnInv, NEW n \in Names, LabelLocks(n),
         NEW k \in Names \ mixed'
  PROVE  NameOwn(k)'
<1>1. /\ labelling[n].at = "sidecar"
      /\ labelling' = [labelling EXCEPT ![n].at = "locked", ![n].read = labels]
      /\ UNCHANGED <<promoteVars, file, sidecar, labels, deleting, mixed>>
  BY DEF LabelLocks
<1>2. k \in Names \ mixed /\ NameOwn(k)
  BY <1>1 DEF OwnInv
<1>3. UNCHANGED promoteVars
  BY <1>1
<1>4. /\ \A q \in Promotes : request'[q] = request[q]
      /\ temp'[k] = temp[k] /\ (Promoting(k)' <=> Promoting(k))
  BY <1>2, <1>3, EditOwn
<1>5. CASE k # n
  <2>1. labelling'[k] = labelling[k]
    BY <1>1, <1>5 DEF LockInv, LockTypes
  <2> QED BY <1>1, <1>2, <1>4, <2>1, OtherNameOwn
<1>6. CASE k = n
  <2>1. labelling[n] # NoEdit
    BY <1>1, NoEditType
  <2>2. labelling'[n].copy = labelling[n].copy
    BY <1>1 DEF LockInv, LockTypes, Edits
  <2> QED BY <1>1, <1>2, <1>4, <1>6, <2>1, <2>2 DEF NameOwn
<1> QED BY <1>5, <1>6

LEMMA LabelSavesOwn ==
  ASSUME LibraryInv, LockInv, OwnInv, NEW n \in Names, LabelSaves(n),
         NEW k \in Names \ mixed'
  PROVE  NameOwn(k)'
<1>1. /\ labelling[n].at = "locked"
      /\ labelling' = [labelling EXCEPT ![n] = NoEdit]
      /\ UNCHANGED <<promoteVars, file, sidecar, deleting, mixed>>
  BY DEF LabelSaves
<1>2. PICK l \in {labelling[n].copy, 0} : labels' = [labels EXCEPT ![n] = l]
  BY <1>1 DEF LabelSaves, LockInv
<1>3. k \in Names \ mixed /\ NameOwn(k)
  BY <1>1 DEF OwnInv
<1>4. UNCHANGED promoteVars
  BY <1>1
<1>5. /\ \A q \in Promotes : request'[q] = request[q]
      /\ temp'[k] = temp[k] /\ (Promoting(k)' <=> Promoting(k))
  BY <1>3, <1>4, EditOwn
<1>6. CASE k # n
  <2>1. labelling'[k] = labelling[k] /\ labels'[k] = labels[k]
    BY <1>1, <1>2, <1>6 DEF LockInv, LockTypes
  <2> QED BY <1>1, <1>3, <1>5, <2>1, OtherNameOwn
<1>7. CASE k = n
  <2>1. labelling[n] # NoEdit
    BY <1>1, NoEditType
  <2>2. labelling[n].copy = file[n]
    BY <1>3, <1>7, <2>1 DEF NameOwn
  <2>3. labels'[n] \in {file[n], 0} /\ labelling'[n] = NoEdit
    BY <1>1, <1>2, <2>2 DEF LockInv, LockTypes
  <2> QED BY <1>1, <1>3, <1>5, <1>7, <2>3 DEF NameOwn
<1> QED BY <1>6, <1>7

LEMMA UnlinksOwn ==
  ASSUME LibraryInv, LockInv, OwnInv, NEW n \in Names, Unlinks(n),
         NEW k \in Names \ mixed'
  PROVE  NameOwn(k)'
<1>1. /\ file' = [file EXCEPT ![n] = 0]
      /\ deleting' = [deleting EXCEPT ![n].at = "unlinked"]
      /\ UNCHANGED <<promoteVars, sidecar, labels, labelling>>
      /\ mixed' = IF Quiet(n) THEN mixed ELSE mixed \cup {n}
  BY DEF Unlinks, Enter
<1>2. k \in Names \ mixed /\ NameOwn(k)
  BY <1>1 DEF OwnInv
<1>3. UNCHANGED promoteVars
  BY <1>1
<1>4. /\ \A q \in Promotes : request'[q] = request[q]
      /\ temp'[k] = temp[k] /\ (Promoting(k)' <=> Promoting(k))
  BY <1>2, <1>3, EditOwn
<1>5. CASE k # n
  <2>1. deleting'[k] = deleting[k] /\ file'[k] = file[k]
    BY <1>1, <1>5 DEF LockInv, LockTypes, LibraryInv, LibraryTypes
  <2> QED BY <1>1, <1>2, <1>4, <2>1, OtherNameOwn
<1>6. CASE k = n
  <2>1. Quiet(n)
    BY <1>1, <1>6
  <2>2. deleting'[n].at = "unlinked"
    BY <1>1 DEF LockInv, LockTypes, Edits
  <2>3. (\A q \in Promotes : request[q].name # n) /\ labelling'[n] = NoEdit
    BY <1>1, <2>1 DEF Quiet, Promoting
  <2> QED BY <1>4, <1>6, <2>2, <2>3 DEF NameOwn
<1> QED BY <1>5, <1>6

\* The later steps of a delete: no label is being set on the name.
LEMMA DeletingOwn ==
  ASSUME LibraryInv, LockInv, OwnInv, NEW n \in Names,
         deleting[n].at # "none", NEW f, deleting' = [deleting EXCEPT ![n] = f],
         UNCHANGED <<promoteVars, file, labelling, mixed>>,
         \A m \in Names \ {n} : sidecar'[m] = sidecar[m] /\ labels'[m] = labels[m],
         f.at = "none" => labels'[n] = 0,
         f.at # "unlinked" =>
           sidecar'[n] = 0 \/ (deleting[n].at # "unlinked" /\ sidecar'[n] = sidecar[n]),
         NEW k \in Names \ mixed'
  PROVE  NameOwn(k)'
<1>1. k \in Names \ mixed /\ NameOwn(k)
  BY DEF OwnInv
<1>2. UNCHANGED promoteVars
  OBVIOUS
<1>3. /\ \A q \in Promotes : request'[q] = request[q]
      /\ temp'[k] = temp[k] /\ (Promoting(k)' <=> Promoting(k))
  BY <1>1, <1>2, EditOwn
<1>4. deleting'[n] = f /\ \A m \in Names \ {n} : deleting'[m] = deleting[m]
  BY DEF LockInv, LockTypes
<1>5. CASE k # n
  BY <1>1, <1>3, <1>4, <1>5, OtherNameOwn
<1>6. CASE k = n
  <2>1. labelling'[n] = NoEdit
    BY <1>1, <1>6 DEF NameOwn
  <2> QED BY <1>1, <1>3, <1>4, <1>6, <2>1 DEF NameOwn
<1> QED BY <1>5, <1>6

LEMMA UnlinksSidecarOwn ==
  ASSUME LibraryInv, LockInv, OwnInv, NEW n \in Names, UnlinksSidecar(n),
         NEW k \in Names \ mixed'
  PROVE  NameOwn(k)'
<1> DEFINE f == [deleting[n] EXCEPT !.at = "sidecar"]
<1>1. /\ deleting[n].at = "unlinked" /\ sidecar' = [sidecar EXCEPT ![n] = 0]
      /\ deleting' = [deleting EXCEPT ![n] = f]
      /\ UNCHANGED <<promoteVars, file, labels, labelling, mixed>>
  BY DEF UnlinksSidecar
<1>2. f.at = "sidecar"
  BY DEF LockInv, LockTypes, Edits
<1>3. sidecar'[n] = 0 /\ \A m \in Names \ {n} : sidecar'[m] = sidecar[m]
  BY <1>1 DEF OwnInv
<1> HIDE DEF f
<1> QED BY <1>1, <1>2, <1>3, DeletingOwn

LEMMA DropLocksOwn ==
  ASSUME LibraryInv, LockInv, OwnInv, NEW n \in Names, DropLocks(n),
         NEW k \in Names \ mixed'
  PROVE  NameOwn(k)'
<1> DEFINE f == [deleting[n] EXCEPT !.at = "locked", !.read = labels]
<1>1. /\ deleting[n].at = "sidecar" /\ deleting' = [deleting EXCEPT ![n] = f]
      /\ UNCHANGED <<promoteVars, file, sidecar, labels, labelling, mixed>>
  BY DEF DropLocks
<1>2. f.at = "locked"
  BY DEF LockInv, LockTypes, Edits
<1> HIDE DEF f
<1> QED BY <1>1, <1>2, DeletingOwn

LEMMA LabelDroppedOwn ==
  ASSUME LibraryInv, LockInv, OwnInv, NEW n \in Names, LabelDropped(n),
         NEW k \in Names \ mixed'
  PROVE  NameOwn(k)'
<1>1. /\ deleting[n].at = "locked" /\ deleting' = [deleting EXCEPT ![n] = NoEdit]
      /\ UNCHANGED <<promoteVars, file, sidecar, labelling, mixed>>
  BY DEF LabelDropped
<1>2. labels' = [labels EXCEPT ![n] = 0]
  BY <1>1 DEF LabelDropped, Dropped, LockInv
<1>3. labels'[n] = 0 /\ \A m \in Names \ {n} : labels'[m] = labels[m]
  BY <1>2 DEF LockInv, LockTypes
<1> QED BY <1>1, <1>3, NoEditType, DeletingOwn

LEMMA SidecarTyped ==
  ASSUME LibraryInv, LockInv, OwnInv, [LibraryNext]_libraryVars
  PROVE  sidecar' \in [Names -> Copies]
<1>1. ASSUME NEW q \in Promotes, WritesSidecar(q) PROVE sidecar' \in [Names -> Copies]
  <2>1. request[q].copy \in Copies
    BY DEF LibraryInv, LibraryTypes
  <2> QED BY <1>1, <2>1 DEF WritesSidecar, OwnInv
<1>2. ASSUME NEW n \in Names, LabelWritesSidecar(n) PROVE sidecar' \in [Names -> Copies]
  <2>1. labelling[n].copy \in Copies
    BY DEF LockInv, LockTypes, Edits
  <2> QED BY <1>2, <2>1 DEF LabelWritesSidecar, OwnInv
<1>3. ASSUME NEW n \in Names, UnlinksSidecar(n) PROVE sidecar' \in [Names -> Copies]
  BY <1>3 DEF UnlinksSidecar, OwnInv, Copies
<1>4. ASSUME sidecar' = sidecar PROVE sidecar' \in [Names -> Copies]
  BY <1>4 DEF OwnInv
<1> QED BY <1>1, <1>2, <1>3, <1>4
      DEF LibraryNext, libraryVars, Chooses, Opens, CopyEnds, CopyFails, Replaces,
          LabelBegins, LabelLocks, LabelSaves, Unlinks, DropLocks, LabelDropped

LEMMA OwnInvNext ==
  LibraryInv /\ LockInv /\ OwnInv /\ [LibraryNext]_libraryVars => OwnInv'
<1> SUFFICES ASSUME LibraryInv, LockInv, OwnInv, [LibraryNext]_libraryVars,
                    NEW k \in Names \ mixed'
             PROVE  NameOwn(k)'
  BY SidecarTyped DEF OwnInv
<1>1. ASSUME NEW q \in Promotes, Chooses(q) \/ Opens(q) \/ CopyEnds(q) PROVE NameOwn(k)'
  BY <1>1, ChoosesOwn, OpensOwn, CopyEndsOwn
<1>2. ASSUME NEW q \in Promotes, CopyFails(q) \/ Replaces(q) \/ WritesSidecar(q)
      PROVE  NameOwn(k)'
  BY <1>2, CopyFailsOwn, ReplacesOwn, WritesSidecarOwn
<1>3. ASSUME NEW n \in Names,
             LabelBegins(n) \/ LabelWritesSidecar(n) \/ LabelLocks(n) \/ LabelSaves(n)
      PROVE  NameOwn(k)'
  BY <1>3, LabelBeginsOwn, LabelWritesSidecarOwn, LabelLocksOwn, LabelSavesOwn
<1>4. ASSUME NEW n \in Names,
             Unlinks(n) \/ UnlinksSidecar(n) \/ DropLocks(n) \/ LabelDropped(n)
      PROVE  NameOwn(k)'
  BY <1>4, UnlinksOwn, UnlinksSidecarOwn, DropLocksOwn, LabelDroppedOwn
<1>5. CASE UNCHANGED libraryVars
  BY <1>5, OtherNameOwn DEF libraryVars, OwnInv
<1> QED BY <1>1, <1>2, <1>3, <1>4, <1>5 DEF LibraryNext

(***************************************************************************)
(* A backup never wears the label of a deleted one whose name it took      *)
(* over, for any number of requests and names, unless two operations were  *)
(* at once on its name.                                                    *)
(***************************************************************************)
THEOREM LabelsAreOwn == LibrarySpec => []ShownOwn
<1>1. LibrarySpec => [](LibraryInv /\ LockInv /\ OwnInv)
  BY LibraryInvInit, LibraryInvNext, LockInvInit, LockInvNext, OwnInvInit, OwnInvNext,
     PTL DEF LibrarySpec
<1>2. OwnInv => ShownOwn
  BY NoEditType DEF OwnInv, NameOwn, ShownOwn, Quiet
<1> QED BY <1>1, <1>2, PTL

-----------------------------------------------------------------------------
(* Archive: where the files of a zip go.  A path is mapped by taking a     *)
(* beginning off it, so that different paths stay different; and what is   *)
(* put beside the world does not begin with "world".                       *)

Parts == STRING \cup {"world", LevelDat}

Paths == Seq(Parts) \ {<<>>}

LEMMA SamePath ==
  ASSUME NEW S, NEW s \in Seq(S), NEW t \in Seq(S), Len(s) = Len(t),
         \A i \in 1..Len(s) : s[i] = t[i]
  PROVE  s = t
OBVIOUS

LEMMA RestOf ==
  ASSUME NEW p \in Seq(Parts), NEW n \in Seq(Parts), IsPrefix(p, n)
  PROVE  /\ After(n, p) \in Seq(Parts) /\ Len(After(n, p)) = Len(n) - Len(p)
         /\ Len(p) \in Nat /\ Len(n) \in Nat /\ Len(p) <= Len(n)
         /\ \A i \in 1..Len(n) - Len(p) : After(n, p)[i] = n[Len(p) + i]
         /\ \A i \in 1..Len(p) : n[i] = p[i]
<1>1. Len(p) \in Nat /\ Len(n) \in Nat /\ Len(p) <= Len(n)
  BY DEF IsPrefix
<1>2. /\ After(n, p) \in Seq(Parts) /\ Len(After(n, p)) = Len(n) - Len(p)
      /\ \A i \in 1..Len(n) - Len(p) : After(n, p)[i] = n[Len(p) + i]
  BY <1>1 DEF After
<1>3. \A i \in 1..Len(p) : SubSeq(p, 1, Len(p))[i] = p[i] /\ SubSeq(n, 1, Len(p))[i] = n[i]
  BY <1>1
<1>4. \A i \in 1..Len(p) : n[i] = p[i]
  BY <1>3 DEF IsPrefix
<1> QED BY <1>1, <1>2, <1>4

LEMMA RestDecides ==
  ASSUME NEW p \in Seq(Parts), NEW n \in Seq(Parts), NEW o \in Seq(Parts),
         IsPrefix(p, n), IsPrefix(p, o), After(n, p) = After(o, p)
  PROVE  n = o
<1>1. /\ Len(n) = Len(o) /\ Len(n) \in Nat /\ Len(p) \in Nat /\ Len(p) <= Len(n)
  BY RestOf
<1>2. \A i \in 1..Len(p) : n[i] = o[i]
  <2>1. \A i \in 1..Len(p) : n[i] = p[i]
    BY RestOf
  <2>2. \A i \in 1..Len(p) : o[i] = p[i]
    BY RestOf
  <2> QED BY <2>1, <2>2
<1>3. \A i \in 1..Len(n) - Len(p) : n[Len(p) + i] = o[Len(p) + i]
  <2>1. \A i \in 1..Len(n) - Len(p) : After(n, p)[i] = n[Len(p) + i]
    BY RestOf
  <2>2. \A i \in 1..Len(o) - Len(p) : After(o, p)[i] = o[Len(p) + i]
    BY RestOf
  <2> QED BY <1>1, <2>1, <2>2
<1>4. ASSUME NEW i \in 1..Len(n) PROVE n[i] = o[i]
  <2>1. CASE i <= Len(p)
    BY <1>1, <1>2, <2>1
  <2>2. CASE i > Len(p)
    <3>1. i - Len(p) \in 1..Len(n) - Len(p) /\ Len(p) + (i - Len(p)) = i
      BY <1>1, <2>2
    <3> QED BY <1>3, <3>1
  <2> QED BY <1>1, <2>1, <2>2
<1> QED BY <1>1, <1>4, SamePath

LEMMA Beginning ==
  ASSUME NEW S, NEW s \in Seq(S), NEW k \in Nat, k <= Len(s)
  PROVE  /\ SubSeq(s, 1, k) \in Seq(S) /\ Len(SubSeq(s, 1, k)) = k
         /\ \A i \in 1..k : SubSeq(s, 1, k)[i] = s[i]
<1>1. Len(s) \in Nat
  OBVIOUS
<1>2. SubSeq(s, 1, k) \in Seq(S)
  BY <1>1
<1>3. Len(SubSeq(s, 1, k)) = k
  BY <1>1
<1>4. \A i \in 1..k : SubSeq(s, 1, k)[i] = s[i]
  BY <1>1
<1> QED BY <1>2, <1>3, <1>4

LEMMA AllButLast ==
  ASSUME NEW S, NEW s \in Seq(S), s # <<>>
  PROVE  /\ Front(s) \in Seq(S) /\ Len(Front(s)) = Len(s) - 1
         /\ \A i \in 1..Len(s) - 1 : Front(s)[i] = s[i]
<1> DEFINE k == Len(s) - 1
<1>1. k \in Nat /\ k <= Len(s)
  OBVIOUS
<1>2. Front(s) = SubSeq(s, 1, k)
  BY DEF Front
<1> HIDE DEF k
<1>3. /\ Front(s) \in Seq(S) /\ Len(Front(s)) = k
      /\ \A i \in 1..k : Front(s)[i] = s[i]
  BY <1>1, <1>2, Beginning
<1> QED BY <1>3 DEF k

LEMMA Joined ==
  ASSUME NEW S, NEW s \in Seq(S), NEW t \in Seq(S)
  PROVE  /\ s \o t \in Seq(S) /\ Len(s \o t) = Len(s) + Len(t)
         /\ \A i \in 1..Len(s) : (s \o t)[i] = s[i]
         /\ \A i \in 1..Len(t) : (s \o t)[Len(s) + i] = t[i]
<1>1. Len(s) \in Nat /\ Len(t) \in Nat
  OBVIOUS
<1>2. s \o t \in Seq(S)
  OBVIOUS
<1>3. Len(s \o t) = Len(s) + Len(t)
  OBVIOUS
<1>4. \A i \in 1..Len(s) : (s \o t)[i] = s[i]
  BY <1>1
<1>5. \A i \in 1..Len(t) : (s \o t)[Len(s) + i] = t[i]
  BY <1>1
<1> QED BY <1>2, <1>3, <1>4, <1>5

LEMMA UnderWorld ==
  ASSUME NEW s \in Seq(Parts)
  PROVE  /\ <<"world">> \o s \in Seq(Parts) /\ Len(<<"world">> \o s) = 1 + Len(s)
         /\ (<<"world">> \o s)[1] = "world"
         /\ \A i \in 1..Len(s) : (<<"world">> \o s)[i + 1] = s[i]
<1> DEFINE w == <<"world">>
           u == w \o s
<1>1. w \in Seq(Parts) /\ Len(w) = 1 /\ w[1] = "world"
  BY DEF Parts
<1>2. Len(s) \in Nat
  OBVIOUS
<1> HIDE DEF w
<1>3. /\ u \in Seq(Parts) /\ Len(u) = Len(w) + Len(s)
      /\ \A i \in 1..Len(w) : u[i] = w[i]
      /\ \A i \in 1..Len(s) : u[Len(w) + i] = s[i]
  <2>1. w \in Seq(Parts)
    BY <1>1
  <2> QED BY <2>1, Joined
<1> HIDE DEF u
<1>4. Len(u) = 1 + Len(s)
  BY <1>1, <1>3
<1>5. u[1] = "world"
  <2>1. 1 \in 1..Len(w)
    BY <1>1
  <2> QED BY <1>1, <1>3, <2>1
<1>6. \A i \in 1..Len(s) : u[i + 1] = s[i]
  <2>1. \A i \in 1..Len(s) : Len(w) + i = i + 1
    BY <1>1, <1>2
  <2> QED BY <1>3, <2>1
<1> QED BY <1>3, <1>4, <1>5, <1>6 DEF u, w

LEMMA UnderWorldDecides ==
  ASSUME NEW s \in Seq(Parts), NEW t \in Seq(Parts), <<"world">> \o s = <<"world">> \o t
  PROVE  s = t
<1>1. Len(s) = Len(t) /\ Len(s) \in Nat
  BY UnderWorld
<1>2. \A i \in 1..Len(s) : s[i] = t[i]
  BY <1>1, UnderWorld
<1> QED BY <1>1, <1>2, SamePath

LEMMA PrefixTyped ==
  ASSUME NEW dir \in Seq(Parts)
  PROVE  /\ PrefixOf(dir) \in Seq(Parts)
         /\ dir # <<>> => Len(PrefixOf(dir)) = Len(dir) - 1
                          /\ \A i \in 1..Len(dir) - 1 : PrefixOf(dir)[i] = dir[i]
         /\ dir = <<>> => PrefixOf(dir) = <<>>
<1>1. CASE dir = <<>>
  BY <1>1 DEF PrefixOf
<1>2. CASE dir # <<>>
  <2>1. PrefixOf(dir) = Front(dir)
    BY <1>2 DEF PrefixOf
  <2> QED BY <1>2, <2>1, AllButLast
<1> QED BY <1>1, <1>2

\* A member beside the world directory is skipped, or keeps its path, which does not
\* begin with "world".
LEMMA BesideShape ==
  ASSUME NEW dir \in Seq(Parts), NEW n \in Seq(Parts), NEW m,
         ~IsPrefix(dir, n), IsPrefix(PrefixOf(dir), n),
         MapMember(n, dir, m) # <<>>
  PROVE  /\ MapMember(n, dir, m) = After(n, PrefixOf(dir))
         /\ MapMember(n, dir, m)[1] # "world"
<1> DEFINE p == PrefixOf(dir)
           rel == After(n, p)
<1>1. MapMember(n, dir, m) = Beside(rel, dir, m)
  BY DEF MapMember
<1>2. Beside(rel, dir, m) = rel /\ ~Stray(rel, dir)
  BY <1>1 DEF Beside
<1>3. rel # <<>> /\ p \in Seq(Parts)
  BY <1>1, <1>2, PrefixTyped
<1>4. /\ rel \in Seq(Parts) /\ Len(rel) = Len(n) - Len(p) /\ Len(p) \in Nat /\ Len(n) \in Nat
      /\ Len(p) <= Len(n)
      /\ \A i \in 1..Len(n) - Len(p) : rel[i] = n[Len(p) + i]
      /\ \A i \in 1..Len(p) : n[i] = p[i]
  BY <1>3, RestOf
<1> HIDE DEF rel
<1>5. Len(rel) >= 1
  BY <1>3, <1>4
<1>6. ASSUME rel[1] = "world" PROVE FALSE
  <2>1. dir = p \o <<"world">>
    BY <1>2, <1>6 DEF Stray
  <2>2. /\ Len(dir) = Len(p) + 1 /\ dir[Len(p) + 1] = "world"
        /\ \A i \in 1..Len(p) : dir[i] = p[i]
    BY <1>3, <1>4, <2>1
  <2>3. n[Len(p) + 1] = "world" /\ Len(dir) <= Len(n)
    BY <1>4, <1>5, <1>6, <2>2
  <2>4. \A i \in 1..Len(dir) : dir[i] = n[i]
    <3>1. \A i \in 1..Len(dir) : i \in 1..Len(p) \/ i = Len(p) + 1
      BY <1>4, <2>2
    <3> QED BY <1>4, <2>2, <2>3, <3>1
  <2>5. /\ SubSeq(dir, 1, Len(dir)) \in Seq(Parts) /\ SubSeq(n, 1, Len(dir)) \in Seq(Parts)
        /\ Len(SubSeq(dir, 1, Len(dir))) = Len(dir) /\ Len(SubSeq(n, 1, Len(dir))) = Len(dir)
        /\ \A i \in 1..Len(dir) :
             SubSeq(dir, 1, Len(dir))[i] = dir[i] /\ SubSeq(n, 1, Len(dir))[i] = n[i]
    BY <1>4, <2>2, <2>3
  <2>6. SubSeq(dir, 1, Len(dir)) = SubSeq(n, 1, Len(dir))
    BY <2>4, <2>5, SamePath
  <2> QED BY <2>3, <2>6 DEF IsPrefix
<1> QED BY <1>1, <1>2, <1>6 DEF rel

LEMMA MapDecides ==
  ASSUME NEW dir \in Seq(Parts), NEW n \in Paths, NEW o \in Paths, NEW m, n # o,
         MapMember(n, dir, m) # <<>>
  PROVE  MapMember(n, dir, m) # MapMember(o, dir, m)
<1> DEFINE p == PrefixOf(dir)
<1>1. n \in Seq(Parts) /\ o \in Seq(Parts) /\ p \in Seq(Parts)
  BY PrefixTyped DEF Paths
<1>2. \A k \in {n, o} : IsPrefix(dir, k) =>
        /\ MapMember(k, dir, m) = <<"world">> \o After(k, dir)
        /\ After(k, dir) \in Seq(Parts)
        /\ MapMember(k, dir, m)[1] = "world"
  BY <1>1, RestOf, UnderWorld DEF MapMember
<1>3. \A k \in {n, o} : ~IsPrefix(dir, k) /\ ~IsPrefix(p, k) => MapMember(k, dir, m) = <<>>
  BY DEF MapMember
<1>4. \A k \in {n, o} : ~IsPrefix(dir, k) /\ IsPrefix(p, k) /\ MapMember(k, dir, m) # <<>> =>
        /\ MapMember(k, dir, m) = After(k, p)
        /\ MapMember(k, dir, m)[1] # "world"
  BY <1>1, BesideShape
<1> SUFFICES ASSUME MapMember(n, dir, m) = MapMember(o, dir, m) PROVE FALSE
  OBVIOUS
<1>5. CASE IsPrefix(dir, n)
  <2>1. IsPrefix(dir, o)
    BY <1>2, <1>3, <1>4, <1>5
  <2>2. After(n, dir) = After(o, dir)
    BY <1>2, <1>5, <2>1, UnderWorldDecides
  <2> QED BY <1>1, <1>5, <2>1, <2>2, RestDecides
<1>6. CASE ~IsPrefix(dir, n)
  <2>1. IsPrefix(p, n) /\ MapMember(n, dir, m)[1] # "world"
    BY <1>3, <1>4, <1>6
  <2>2. ~IsPrefix(dir, o)
    BY <1>2, <2>1
  <2>3. IsPrefix(p, o)
    BY <1>3, <2>2
  <2>4. After(n, p) = After(o, p)
    BY <1>4, <1>6, <2>1, <2>2, <2>3
  <2> QED BY <1>1, <2>1, <2>3, <2>4, RestDecides
<1> QED BY <1>5, <1>6

LEMMA WiderSeq ==
  ASSUME NEW S, NEW T, S \subseteq T, NEW s \in Seq(S)
  PROVE  s \in Seq(T)
<1>1. Len(s) \in Nat /\ s \in [1..Len(s) -> S]
  OBVIOUS
<1>2. s \in [1..Len(s) -> T]
  BY <1>1
<1> QED BY <1>1, <1>2, SeqDef

LEMMA MemberPaths ==
  Members \subseteq Paths
<1> SUFFICES ASSUME NEW n \in Members PROVE n \in Paths
  OBVIOUS
<1>1. n \in Seq(STRING) /\ n # <<>>
  BY ArchiveAssumption
<1>2. STRING \subseteq Parts
  BY DEF Parts
<1> HIDE DEF Parts
<1>3. n \in Seq(Parts)
  BY <1>1, <1>2, WiderSeq
<1> QED BY <1>1, <1>3 DEF Paths

LEMMA OfOne ==
  ASSUME NEW e \in Parts
  PROVE  <<e>> \in Seq(Parts) /\ Len(<<e>>) = 1 /\ <<e>>[1] = e
OBVIOUS

LEMMA KnownParts == "world" \in Parts /\ LevelDat \in Parts
BY DEF Parts

LEMMA WorldLevelPath ==
  /\ WorldLevel \in Seq(Parts) /\ Len(WorldLevel) = 2
  /\ WorldLevel[1] = "world" /\ WorldLevel[2] = LevelDat
BY KnownParts DEF WorldLevel

\* A directory that find_world returns is that of a level.dat of the zip.
LEMMA WorldRooted ==
  ASSUME NEW names \in SUBSET Paths, NEW dir \in FindWorld(names)
  PROVE  /\ dir \in Seq(Parts)
         /\ \E n \in names : IsPrefix(dir, n) /\ After(n, dir) = <<LevelDat>>
<1>1. PICK n \in Levels(names) : dir = Front(n)
  BY DEF FindWorld, Shallowest, WorldDirs, ServerDirs, DirOf
<1>2. n \in names /\ n \in Seq(Parts) /\ n # <<>> /\ n[Len(n)] = LevelDat
  BY DEF Levels, Paths, Last
<1>3. /\ dir \in Seq(Parts) /\ Len(dir) = Len(n) - 1
      /\ \A i \in 1..Len(n) - 1 : dir[i] = n[i]
  BY <1>1, <1>2, AllButLast
<1>4. Len(n) \in Nat /\ Len(dir) \in Nat /\ Len(dir) <= Len(n) /\ Len(n) = Len(dir) + 1
  BY <1>2, <1>3
<1>5. IsPrefix(dir, n)
  <2>1. /\ SubSeq(dir, 1, Len(dir)) \in Seq(Parts) /\ Len(SubSeq(dir, 1, Len(dir))) = Len(dir)
        /\ \A i \in 1..Len(dir) : SubSeq(dir, 1, Len(dir))[i] = dir[i]
    BY <1>3, <1>4, Beginning
  <2>2. /\ SubSeq(n, 1, Len(dir)) \in Seq(Parts) /\ Len(SubSeq(n, 1, Len(dir))) = Len(dir)
        /\ \A i \in 1..Len(dir) : SubSeq(n, 1, Len(dir))[i] = n[i]
    BY <1>2, <1>4, Beginning
  <2>3. \A i \in 1..Len(dir) : dir[i] = n[i]
    BY <1>3, <1>4
  <2>4. SubSeq(dir, 1, Len(dir)) = SubSeq(n, 1, Len(dir))
    BY <2>1, <2>2, <2>3, SamePath
  <2> QED BY <1>4, <2>4 DEF IsPrefix
<1>6. After(n, dir) = <<LevelDat>>
  <2>1. /\ After(n, dir) \in Seq(Parts) /\ Len(After(n, dir)) = Len(n) - Len(dir)
        /\ \A i \in 1..Len(n) - Len(dir) : After(n, dir)[i] = n[Len(dir) + i]
    BY <1>2, <1>3, <1>5, RestOf
  <2>2. Len(After(n, dir)) = 1 /\ After(n, dir)[1] = LevelDat
    BY <1>2, <1>4, <2>1
  <2>3. <<LevelDat>> \in Seq(Parts) /\ Len(<<LevelDat>>) = 1 /\ <<LevelDat>>[1] = LevelDat
    BY KnownParts, OfOne
  <2>4. \A i \in 1..Len(After(n, dir)) : After(n, dir)[i] = <<LevelDat>>[i]
    BY <2>2, <2>3
  <2> QED BY <2>1, <2>2, <2>3, <2>4, SamePath
<1> QED BY <1>2, <1>3, <1>5, <1>6

ZipInv == zip \subseteq Members /\ mode \in {"vanilla", "full"}

LEMMA AlwaysZipInv == ArchiveSpec => []ZipInv
<1>1. ArchiveInit => ZipInv
  BY DEF ArchiveInit, ZipInv
<1>2. ZipInv /\ [ArchiveNext]_archiveVars => ZipInv'
  BY DEF ZipInv, ArchiveNext, archiveVars
<1> QED BY <1>1, <1>2, PTL DEF ArchiveSpec

(***************************************************************************)
(* Whatever paths a zip may have, no two of its files are written to one   *)
(* place, and the level.dat find_world chose becomes that of the world     *)
(* (map_member of jobs/seed.py).                                           *)
(***************************************************************************)
THEOREM NoFileOverAnother ==
  ArchiveSpec => []NothingMerged
<1>1. ASSUME ZipInv PROVE NothingMerged
  <2>1. zip \in SUBSET Paths
    BY <1>1, MemberPaths DEF ZipInv
  <2> SUFFICES ASSUME NEW dir \in FindWorld(zip)
               PROVE  /\ WorldLevel \in Seeded(zip, dir, mode)
                      /\ \A n, o \in zip :
                           n # o /\ MapMember(n, dir, mode) # <<>> =>
                             MapMember(n, dir, mode) # MapMember(o, dir, mode)
    BY DEF NothingMerged
  <2>2. dir \in Seq(Parts)
    BY <2>1, WorldRooted
  <2>3. WorldLevel \in Seeded(zip, dir, mode)
    <3>1. PICK n \in zip : IsPrefix(dir, n) /\ After(n, dir) = <<LevelDat>>
      BY <2>1, WorldRooted
    <3>2. MapMember(n, dir, mode) = <<"world">> \o <<LevelDat>>
      BY <3>1 DEF MapMember
    <3>3. <<"world">> \o <<LevelDat>> = WorldLevel
      <4> DEFINE l == <<LevelDat>>
                 w == <<"world">> \o l
      <4>1. l \in Seq(Parts) /\ Len(l) = 1 /\ l[1] = LevelDat
        BY KnownParts, OfOne
      <4> HIDE DEF l
      <4>2. w \in Seq(Parts) /\ Len(w) = 2 /\ w[1] = "world" /\ w[2] = LevelDat
        <5>1. /\ w \in Seq(Parts) /\ Len(w) = 1 + Len(l) /\ w[1] = "world"
              /\ \A i \in 1..Len(l) : w[i + 1] = l[i]
          BY <4>1, UnderWorld
        <5> HIDE DEF w
        <5>2. 1 \in 1..Len(l) /\ 1 + 1 = 2
          BY <4>1
        <5> QED BY <4>1, <5>1, <5>2
      <4> HIDE DEF w
      <4>3. w = WorldLevel
        BY <4>2, WorldLevelPath, SamePath
      <4> QED BY <4>3 DEF w, l
    <3>4. WorldLevel # <<>>
      BY DEF WorldLevel
    <3> QED BY <3>2, <3>3, <3>4 DEF Seeded
  <2>4. ASSUME NEW n \in zip, NEW o \in zip, n # o, MapMember(n, dir, mode) # <<>>
        PROVE  MapMember(n, dir, mode) # MapMember(o, dir, mode)
    <3>1. n \in Paths /\ o \in Paths
      BY <2>1
    <3> QED BY <2>2, <2>4, <3>1, MapDecides
  <2> QED BY <2>3, <2>4
<1> QED BY <1>1, AlwaysZipInv, PTL

-----------------------------------------------------------------------------
(* A snapshot seeded again: its world is found where it lies, at the top,  *)
(* so that every file keeps its path.                                      *)

WorldDir == <<"world">>

LEMMA WorldDirPath ==
  /\ WorldDir \in Seq(Parts) /\ Len(WorldDir) = 1 /\ WorldDir[1] = "world"
  /\ WorldDir # <<>> /\ PrefixOf(WorldDir) = <<>>
<1>1. WorldDir \in Seq(Parts) /\ Len(WorldDir) = 1 /\ WorldDir[1] = "world"
  BY KnownParts, OfOne DEF WorldDir
<1>2. WorldDir # <<>>
  BY DEF WorldDir
<1>3. Front(WorldDir) \in Seq(Parts) /\ Len(Front(WorldDir)) = 0
  BY <1>1, <1>2, AllButLast
<1>4. Front(WorldDir) = <<>>
  BY <1>3
<1> QED BY <1>1, <1>2, <1>4 DEF PrefixOf

LEMMA ServerDirShape ==
  ASSUME NEW names \in SUBSET Paths, NEW dir \in ServerDirs(names)
  PROVE  /\ dir \in Seq(Parts) /\ Len(dir) \in Nat /\ Len(dir) >= 1
         /\ Len(dir) = 1 => dir = WorldDir
<1>1. PICK n \in names : Len(n) > 1 /\ n[Len(n) - 1] = "world" /\ dir = Front(n)
  BY DEF ServerDirs, Levels, DirOf
<1>2. n \in Seq(Parts) /\ n # <<>> /\ Len(n) \in Nat
  BY DEF Paths
<1>3. /\ dir \in Seq(Parts) /\ Len(dir) = Len(n) - 1
      /\ \A i \in 1..Len(n) - 1 : dir[i] = n[i]
  BY <1>1, <1>2, AllButLast
<1>4. Len(dir) \in Nat /\ Len(dir) >= 1
  BY <1>1, <1>2, <1>3
<1>5. ASSUME Len(dir) = 1 PROVE dir = WorldDir
  <2> DEFINE k == Len(n)
  <2>1. k \in Nat /\ k - 1 = 1
    BY <1>2, <1>3, <1>5
  <2> HIDE DEF k
  <2>2. k = 2 /\ 1 \in 1..k - 1
    BY <2>1
  <2>3. n[1] = "world" /\ 1 \in 1..Len(n) - 1
    BY <1>1, <2>1, <2>2 DEF k
  <2>4. dir[1] = "world"
    BY <1>3, <2>3
  <2>5. \A i \in 1..Len(dir) : dir[i] = WorldDir[i]
    BY <1>5, <2>4, WorldDirPath
  <2> QED BY <1>3, <1>5, <2>5, WorldDirPath, SamePath
<1> QED BY <1>3, <1>4, <1>5

LEMMA TopWorldFound ==
  ASSUME NEW names \in SUBSET Paths, WorldLevel \in names
  PROVE  FindWorld(names) = {WorldDir}
<1>1. WorldLevel \in Levels(names)
  <2>1. Last(WorldLevel) = LevelDat
    BY WorldLevelPath DEF Last
  <2>2. "__MACOSX" \notin ToSet(WorldLevel)
    <3>1. DOMAIN WorldLevel = 1..2
      BY WorldLevelPath
    <3>2. \A i \in 1..2 : WorldLevel[i] = "world" \/ WorldLevel[i] = LevelDat
      BY WorldLevelPath
    <3> QED BY <3>1, <3>2 DEF ToSet, LevelDat
  <2> QED BY <2>1, <2>2 DEF Levels
<1>2. DirOf(WorldLevel) = WorldDir
  <2>1. WorldLevel # <<>>
    BY DEF WorldLevel
  <2>2. /\ Front(WorldLevel) \in Seq(Parts) /\ Len(Front(WorldLevel)) = 2 - 1
        /\ \A i \in 1..2 - 1 : Front(WorldLevel)[i] = WorldLevel[i]
    BY <2>1, WorldLevelPath, AllButLast
  <2>3. \A i \in 1..1 : Front(WorldLevel)[i] = WorldDir[i]
    BY <2>2, WorldLevelPath, WorldDirPath
  <2>4. Front(WorldLevel) = WorldDir
    BY <2>2, <2>3, WorldDirPath, SamePath
  <2> QED BY <2>4 DEF DirOf
<1>3. WorldDir \in ServerDirs(names)
  <2>1. Len(WorldLevel) > 1 /\ WorldLevel[Len(WorldLevel) - 1] = "world"
    BY WorldLevelPath
  <2> QED BY <1>1, <1>2, <2>1 DEF ServerDirs
<1>4. FindWorld(names) = Shallowest(ServerDirs(names))
  BY <1>3 DEF FindWorld, WorldDirs
<1>5. WorldDir \in Shallowest(ServerDirs(names))
  <2>1. \A e \in ServerDirs(names) : Len(WorldDir) <= Len(e)
    BY ServerDirShape, WorldDirPath
  <2> QED BY <1>3, <2>1 DEF Shallowest
<1>6. ASSUME NEW d \in Shallowest(ServerDirs(names)) PROVE d = WorldDir
  <2>1. d \in ServerDirs(names) /\ Len(d) <= Len(WorldDir)
    BY <1>3 DEF Shallowest
  <2>2. Len(d) \in Nat /\ Len(d) >= 1
    BY <2>1, ServerDirShape
  <2>3. Len(d) = 1
    <3>1. Len(WorldDir) = 1
      BY WorldDirPath
    <3>2. Len(d) <= 1
      BY <2>1, <3>1
    <3> QED BY <2>2, <3>2
  <2> QED BY <2>1, <2>3, ServerDirShape
<1> QED BY <1>4, <1>5, <1>6

LEMMA TopWorldKeeps ==
  ASSUME NEW n \in Paths, n[1] \notin Regenerable
  PROVE  MapMember(n, WorldDir, "full") = n
<1>1. n \in Seq(Parts) /\ n # <<>> /\ Len(n) \in Nat /\ Len(n) >= 1
  BY DEF Paths
<1>2. CASE IsPrefix(WorldDir, n)
  <2> DEFINE r == After(n, WorldDir)
             u == <<"world">> \o r
  <2>1. /\ r \in Seq(Parts) /\ Len(r) = Len(n) - 1
        /\ \A i \in 1..Len(n) - 1 : r[i] = n[1 + i]
        /\ n[1] = "world"
    <3>1. /\ r \in Seq(Parts) /\ Len(r) = Len(n) - Len(WorldDir)
          /\ \A i \in 1..Len(n) - Len(WorldDir) : r[i] = n[Len(WorldDir) + i]
          /\ \A i \in 1..Len(WorldDir) : n[i] = WorldDir[i]
      BY <1>1, <1>2, WorldDirPath, RestOf
    <3> HIDE DEF r
    <3> QED BY <3>1, WorldDirPath
  <2> HIDE DEF r
  <2>2. /\ u \in Seq(Parts) /\ Len(u) = 1 + Len(r) /\ u[1] = "world"
        /\ \A i \in 1..Len(r) : u[i + 1] = r[i]
    BY <2>1, UnderWorld
  <2> HIDE DEF u
  <2>3. Len(u) = Len(n)
    BY <1>1, <2>1, <2>2
  <2>4. ASSUME NEW i \in 1..Len(u) PROVE u[i] = n[i]
    <3>1. CASE i = 1
      BY <2>1, <2>2, <3>1
    <3>2. CASE i # 1
      <4> DEFINE j == i - 1
      <4>1. j \in 1..Len(n) - 1 /\ j \in 1..Len(r) /\ j + 1 = i /\ 1 + j = i
        BY <1>1, <2>1, <2>3, <3>2
      <4> HIDE DEF j
      <4>2. u[j + 1] = n[1 + j]
        BY <2>1, <2>2, <4>1
      <4> QED BY <4>1, <4>2
    <3> QED BY <3>1, <3>2
  <2>5. u = n
    BY <1>1, <2>2, <2>3, <2>4, SamePath
  <2> QED BY <1>2, <2>5 DEF MapMember, u, r
<1>3. CASE ~IsPrefix(WorldDir, n)
  <2> DEFINE p == PrefixOf(WorldDir)
  <2>1. p = <<>> /\ Len(p) = 0 /\ p \in Seq(Parts)
    BY WorldDirPath
  <2>2. IsPrefix(p, n)
    <3>1. SubSeq(p, 1, Len(p)) = <<>> /\ SubSeq(n, 1, Len(p)) = <<>>
      BY <1>1, <2>1
    <3> QED BY <1>1, <2>1, <3>1 DEF IsPrefix
  <2>3. After(n, p) = n
    <3>1. /\ After(n, p) \in Seq(Parts) /\ Len(After(n, p)) = Len(n)
          /\ \A i \in 1..Len(n) : After(n, p)[i] = n[i]
      <4>1. /\ After(n, p) \in Seq(Parts) /\ Len(After(n, p)) = Len(n) - Len(p)
            /\ \A i \in 1..Len(n) - Len(p) : After(n, p)[i] = n[Len(p) + i]
        BY <1>1, <2>1, <2>2, RestOf
      <4>2. Len(n) - Len(p) = Len(n) /\ \A i \in 1..Len(n) : Len(p) + i = i
        BY <1>1, <2>1
      <4> QED BY <4>1, <4>2
    <3> QED BY <1>1, <3>1, SamePath
  <2>4. p \o <<"world">> = WorldDir
    BY <2>1 DEF WorldDir
  <2>5. Beside(n, WorldDir, "full") = n
    BY <2>4 DEF Beside, Stray
  <2> QED BY <1>3, <2>2, <2>3, <2>5 DEF MapMember
<1> QED BY <1>2, <1>3

(***************************************************************************)
(* Restoring a snapshot gives back the data it was taken of, except for    *)
(* what the server makes again, whatever else the data has (snapshot of    *)
(* jobs/snapshot.py, then find_world and map_member in full mode).         *)
(***************************************************************************)
THEOREM SnapshotComesBack ==
  ArchiveSpec => []SnapshotRestores
<1>1. ASSUME ZipInv PROVE SnapshotRestores
  <2> DEFINE names == Snapshot(zip)
  <2>1. zip \in SUBSET Paths
    BY <1>1, MemberPaths DEF ZipInv
  <2>2. names \in SUBSET Paths /\ \A n \in names : n[1] \notin Regenerable
    BY <2>1 DEF Snapshot
  <2>3. ASSUME WorldLevel \in zip PROVE WorldLevel \in names
    BY <2>3, WorldLevelPath, ArchiveAssumption DEF Snapshot
  <2> HIDE DEF names
  <2>4. ASSUME WorldLevel \in names PROVE FindWorld(names) = {WorldDir}
    BY <2>2, <2>4, TopWorldFound
  <2>5. Seeded(names, WorldDir, "full") = names
    <3>1. \A n \in names : MapMember(n, WorldDir, "full") = n /\ n # <<>>
      BY <2>2, TopWorldKeeps DEF Paths
    <3> QED BY <3>1 DEF Seeded
  <2>6. WorldLevel \in zip =>
          /\ FindWorld(names) # {}
          /\ \A dir \in FindWorld(names) : Seeded(names, dir, "full") = names
    BY <2>3, <2>4, <2>5
  <2> QED BY <2>6 DEF SnapshotRestores, names
<1> QED BY <1>1, AlwaysZipInv, PTL

=============================================================================

------------------------------ MODULE Library ------------------------------
(***************************************************************************)
(* The promoted backups: promote, set_label and delete of BackupIndex, and *)
(* the labels file of Store, by request threads that hold no lock but the  *)
(* store's around a change of the labels.                                  *)
(*                                                                         *)
(* The snapshots being promoted all have one world and time, so that the   *)
(* requests want the same file name; name n stands for "(n)".  A copy is   *)
(* named after the request that made it: the temporary file of a name is   *)
(* one file for whoever opens it, also after it was renamed.  A label is   *)
(* the copy it was given to.  Copying fails when the store is full or the  *)
(* snapshot is pruned.  The crash of the dashboard is not modelled.        *)
(***************************************************************************)
EXTENDS Naturals

CONSTANTS
  Promotes,  \* requests that promote; numbers above 0
  MaxNames   \* bound: file names

ASSUME LibraryAssumption == Promotes \subseteq Nat \ {0} /\ MaxNames \in Nat

VARIABLES
  request,   \* the promote requests
  temp,      \* the temporary file of each name; 0: none
  file,      \* the backup of each name
  whole,     \* copies that are complete
  shared,    \* history: copies two requests have written or moved
  sidecar,   \* the label in the sidecar of each name
  labels,    \* the labels file
  labelling, \* set_label on each name
  deleting,  \* delete on each name
  mixed      \* history: names used by two operations at once

libraryVars ==
  <<request, temp, file, whole, shared, sidecar, labels, labelling, deleting, mixed>>

promoteVars == <<request, temp, whole, shared>>

Names == 1..MaxNames

Copies == Promotes \cup {0}

Waiting == [at |-> "idle", name |-> 0, copy |-> 0]

Done == [at |-> "done", name |-> 0, copy |-> 0]

NoEdit == [at |-> "none", copy |-> 0, read |-> [n \in Names |-> 0]]

-----------------------------------------------------------------------------

Promoting(n) == \E q \in Promotes : request[q].name = n

Quiet(n) == ~Promoting(n) /\ labelling[n] = NoEdit /\ deleting[n].at = "none"

\* An operation begins on n; that the file of a delete is gone does not count.
Enter(n) == mixed' = IF Quiet(n) THEN mixed ELSE mixed \cup {n}

-----------------------------------------------------------------------------
(* promote *)

\* The first name without a file.
Chooses(q) ==
  /\ request[q].at = "idle"
  /\ \E n \in Names :
       /\ file[n] = 0 /\ \A m \in 1..n - 1 : file[m] # 0
       /\ request' = [request EXCEPT ![q] = [at |-> "named", name |-> n, copy |-> 0]]
       /\ mixed' = IF Promoting(n) \/ labelling[n] # NoEdit THEN mixed \cup {n} ELSE mixed
  /\ UNCHANGED <<temp, file, whole, shared, sidecar, labels, labelling, deleting>>

\* copyfile opens the temporary file, or empties the one that is there.
Opens(q) ==
  /\ request[q].at = "named"
  /\ LET n == request[q].name
         c == IF temp[n] = 0 THEN q ELSE temp[n]
     IN /\ temp' = [temp EXCEPT ![n] = c]
        /\ request' = [request EXCEPT ![q].at = "copying", ![q].copy = c]
        /\ whole' = whole \ {c}
        /\ shared' = IF c = q THEN shared ELSE shared \cup {c}
  /\ UNCHANGED <<file, sidecar, labels, labelling, deleting, mixed>>

\* A file two requests write is whole once both are through.
CopyEnds(q) ==
  /\ request[q].at = "copying"
  /\ request' = [request EXCEPT ![q].at = "copied"]
  /\ LET c == request[q].copy
     IN whole' = IF \E r \in Promotes \ {q} : request[r].at = "copying" /\ request[r].copy = c
                 THEN whole ELSE whole \cup {c}
  /\ UNCHANGED <<temp, file, shared, sidecar, labels, labelling, deleting, mixed>>

\* Mutant of Unlinked: an exception leaves the temporary file.
UnlinkedNot(n) == UNCHANGED temp

Unlinked(n) == temp' = [temp EXCEPT ![n] = 0]

CopyFails(q) ==
  /\ request[q].at = "copying"
  /\ request' = [request EXCEPT ![q] = Done]
  /\ Unlinked(request[q].name)
  /\ UNCHANGED <<file, whole, shared, sidecar, labels, labelling, deleting, mixed>>

\* Mutant of Copied: the rename does not wait for the copy.
CopiedOrNot(q) == request[q].at \in {"copying", "copied"}

Copied(q) == request[q].at = "copied"

\* The temporary file may be gone: another request has renamed or removed it.
Replaces(q) ==
  /\ Copied(q)
  /\ LET n == request[q].name
     IN /\ temp' = [temp EXCEPT ![n] = 0]
        /\ shared' = IF temp[n] = request[q].copy THEN shared ELSE shared \cup {temp[n]}
        /\ \/ /\ temp[n] # 0
              /\ file' = [file EXCEPT ![n] = temp[n]]
              /\ request' = [request EXCEPT ![q].at = "placed"]
           \/ /\ temp[n] = 0
              /\ request' = [request EXCEPT ![q] = Done]
              /\ UNCHANGED file
  /\ UNCHANGED <<whole, sidecar, labels, labelling, deleting, mixed>>

WritesSidecar(q) ==
  /\ request[q].at = "placed"
  /\ sidecar' = [sidecar EXCEPT ![request[q].name] = request[q].copy]
  /\ request' = [request EXCEPT ![q] = Done]
  /\ UNCHANGED <<temp, file, whole, shared, labels, labelling, deleting, mixed>>

-----------------------------------------------------------------------------
(* set_label, and the change of the labels file it shares with delete *)

LabelBegins(n) ==
  /\ labelling[n] = NoEdit /\ file[n] # 0
  /\ labelling' = [labelling EXCEPT ![n].at = "found", ![n].copy = file[n]]
  /\ Enter(n)
  /\ UNCHANGED <<promoteVars, file, sidecar, labels, deleting>>

LabelWritesSidecar(n) ==
  /\ labelling[n].at = "found"
  /\ sidecar' = [sidecar EXCEPT ![n] = labelling[n].copy]
  /\ labelling' = [labelling EXCEPT ![n].at = "sidecar"]
  /\ UNCHANGED <<promoteVars, file, labels, deleting, mixed>>

\* Mutant of LockFree: the store's lock is not taken.
LockHeldToo == TRUE

LockFree == \A n \in Names : labelling[n].at # "locked" /\ deleting[n].at # "locked"

LabelLocks(n) ==
  /\ labelling[n].at = "sidecar" /\ LockFree
  /\ labelling' = [labelling EXCEPT ![n].at = "locked", ![n].read = labels]
  /\ UNCHANGED <<promoteVars, file, sidecar, labels, deleting, mixed>>

\* An empty label and description take the entry out.
LabelSaves(n) ==
  /\ labelling[n].at = "locked"
  /\ \E l \in {labelling[n].copy, 0} : labels' = [labelling[n].read EXCEPT ![n] = l]
  /\ labelling' = [labelling EXCEPT ![n] = NoEdit]
  /\ UNCHANGED <<promoteVars, file, sidecar, deleting, mixed>>

-----------------------------------------------------------------------------
(* delete *)

Unlinks(n) ==
  /\ deleting[n].at = "none" /\ file[n] # 0
  /\ file' = [file EXCEPT ![n] = 0]
  /\ deleting' = [deleting EXCEPT ![n].at = "unlinked"]
  /\ Enter(n)
  /\ UNCHANGED <<promoteVars, sidecar, labels, labelling>>

UnlinksSidecar(n) ==
  /\ deleting[n].at = "unlinked"
  /\ sidecar' = [sidecar EXCEPT ![n] = 0]
  /\ deleting' = [deleting EXCEPT ![n].at = "sidecar"]
  /\ UNCHANGED <<promoteVars, file, labels, labelling, mixed>>

DropLocks(n) ==
  /\ deleting[n].at = "sidecar" /\ LockFree
  /\ deleting' = [deleting EXCEPT ![n].at = "locked", ![n].read = labels]
  /\ UNCHANGED <<promoteVars, file, sidecar, labels, labelling, mixed>>

\* Mutant of Dropped: the entry stays.
DroppedNot(n) == deleting[n].read

Dropped(n) == [deleting[n].read EXCEPT ![n] = 0]

LabelDropped(n) ==
  /\ deleting[n].at = "locked"
  /\ labels' = Dropped(n)
  /\ deleting' = [deleting EXCEPT ![n] = NoEdit]
  /\ UNCHANGED <<promoteVars, file, sidecar, labelling, mixed>>

LibraryInit ==
  /\ request = [q \in Promotes |-> Waiting]
  /\ temp = [n \in Names |-> 0] /\ file = [n \in Names |-> 0]
  /\ whole = {} /\ shared = {}
  /\ sidecar = [n \in Names |-> 0] /\ labels = [n \in Names |-> 0]
  /\ labelling = [n \in Names |-> NoEdit] /\ deleting = [n \in Names |-> NoEdit]
  /\ mixed = {}

LibraryNext ==
  \/ \E q \in Promotes :
       \/ Chooses(q) \/ Opens(q) \/ CopyEnds(q) \/ CopyFails(q)
       \/ Replaces(q) \/ WritesSidecar(q)
  \/ \E n \in Names :
       \/ LabelBegins(n) \/ LabelWritesSidecar(n) \/ LabelLocks(n) \/ LabelSaves(n)
       \/ Unlinks(n) \/ UnlinksSidecar(n) \/ DropLocks(n) \/ LabelDropped(n)

LibrarySpec == LibraryInit /\ [][LibraryNext]_libraryVars

-----------------------------------------------------------------------------

(***************************************************************************)
(* The file a backup is listed from is complete, whatever fails, unless    *)
(* two requests that chose one name have been at it (promote).             *)
(***************************************************************************)
WholeOrShared ==
  \A n \in Names : file[n] # 0 => file[n] \in whole \cup shared

(***************************************************************************)
(* No temporary file is left behind when no request is at work on it.      *)
(***************************************************************************)
TempsGone ==
  \A n \in Names : temp[n] # 0 => \E q \in Promotes : request[q].name = n /\ request[q].copy # 0

(***************************************************************************)
(* A backup never wears the label of a deleted one whose name it took over *)
(* (delete drops the label): not even when the delete was under way as the *)
(* name was chosen.  Other operations at once on one name are excluded.    *)
(***************************************************************************)
ShownOwn ==
  \A n \in Names \ mixed :
    file[n] # 0 /\ Quiet(n) => {sidecar[n], labels[n]} \subseteq {file[n], 0}

(***************************************************************************)
(* Changing the label of one backup never undoes that of another.          *)
(***************************************************************************)
LabelsKept ==
  [][\A n \in Names : labels'[n] # labels[n] => LabelSaves(n) \/ LabelDropped(n)
    ]_libraryVars

=============================================================================

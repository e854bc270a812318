------------------------------ MODULE Archive ------------------------------
(***************************************************************************)
(* Which file of a backup zip goes where: find_world of detect.py, and     *)
(* map_member and excluded_top of jobs/seed.py with the walk of            *)
(* jobs/snapshot.py.                                                       *)
(*                                                                         *)
(* A member is the sequence of the parts of its path; only files count.    *)
(* The shallowest level.dat is taken, and any of several at one depth (the *)
(* code: the first by name).  Symlinks and unsafe paths, which are left    *)
(* out, and what a regular expression matches beyond the sets below are    *)
(* not modelled.  Module World has the Jobs around this.                   *)
(***************************************************************************)
EXTENDS Naturals, Sequences, SequencesExt

CONSTANTS
  Members,      \* paths a zip may have
  Regenerable,  \* top-level names that excluded_top matches
  VanillaFiles  \* names VANILLA_FILES matches

\* EXCLUDED_TOP does not have the world itself.
ASSUME ArchiveAssumption ==
  /\ Members \subseteq Seq(STRING) \ {<<>>}
  /\ "world" \notin Regenerable

VARIABLES
  zip,  \* the members of the zip
  mode  \* vanilla or full

archiveVars == <<zip, mode>>

LevelDat == "level.dat"

WorldLevel == <<"world", LevelDat>>

-----------------------------------------------------------------------------
(* find_world *)

DirOf(n) == Front(n)

Levels(names) == {n \in names : Last(n) = LevelDat /\ "__MACOSX" \notin ToSet(n)}

ServerDirs(names) ==
  {DirOf(n) : n \in {m \in Levels(names) : Len(m) > 1 /\ m[Len(m) - 1] = "world"}}

WorldDirs(names) ==
  IF ServerDirs(names) # {} THEN ServerDirs(names) ELSE {DirOf(n) : n \in Levels(names)}

\* Mutant of Shallowest: the order is reversed.
Deepest(dirs) == {d \in dirs : \A e \in dirs : Len(d) >= Len(e)}

Shallowest(dirs) == {d \in dirs : \A e \in dirs : Len(d) <= Len(e)}

FindWorld(names) == Shallowest(WorldDirs(names))

\* The /data layout starts where the world directory lies.
PrefixOf(dir) == IF dir = <<>> THEN <<>> ELSE Front(dir)

-----------------------------------------------------------------------------
(* map_member; <<>> skips the member *)

\* Mutant of Stray: a directory "world" is taken as any other.
StrayNot(rel, dir) == FALSE

\* Single-player layout: another directory is to become world.
Stray(rel, dir) == dir # PrefixOf(dir) \o <<"world">> /\ rel[1] = "world"

Beside(rel, dir, m) ==
  IF \/ Stray(rel, dir)
     \/ m = "vanilla" /\ (Len(rel) > 1 \/ rel[1] \notin VanillaFiles)
     \/ m = "full" /\ rel[1] \in Regenerable
  THEN <<>> ELSE rel

After(n, part) == SubSeq(n, Len(part) + 1, Len(n))

MapMember(n, dir, m) ==
  CASE IsPrefix(dir, n) -> <<"world">> \o After(n, dir)
    [] ~IsPrefix(dir, n) /\ IsPrefix(PrefixOf(dir), n) -> Beside(After(n, PrefixOf(dir)), dir, m)
    [] OTHER -> <<>>

Seeded(names, dir, m) == {MapMember(n, dir, m) : n \in names} \ {<<>>}

-----------------------------------------------------------------------------
(* snapshot *)

Snapshot(data) == {f \in data : f[1] \notin Regenerable}

\* A zip is any set of members, put together one by one.
ArchiveInit == zip = {} /\ mode \in {"vanilla", "full"}

ArchiveNext ==
  /\ \E n \in Members \ zip : zip' = zip \cup {n}
  /\ UNCHANGED mode

ArchiveSpec == ArchiveInit /\ [][ArchiveNext]_archiveVars

-----------------------------------------------------------------------------

(***************************************************************************)
(* Whatever the zip has, no two of its files are written to one place, and *)
(* a zip with a level.dat that counts gives a world: a second world in it  *)
(* is not mixed into the first (map_member).                               *)
(***************************************************************************)
NothingMerged ==
  \A dir \in FindWorld(zip) :
    /\ WorldLevel \in Seeded(zip, dir, mode)
    /\ \A n, o \in zip :
         n # o /\ MapMember(n, dir, mode) # <<>> => MapMember(n, dir, mode) # MapMember(o, dir, mode)

(***************************************************************************)
(* Restoring a snapshot gives back the data it was taken of, except for    *)
(* what the server makes again, also when the data has other worlds and    *)
(* copies of worlds in it (snapshot, then seed in full mode).              *)
(***************************************************************************)
SnapshotRestores ==
  WorldLevel \in zip =>
    /\ FindWorld(Snapshot(zip)) # {}
    /\ \A dir \in FindWorld(Snapshot(zip)) : Seeded(Snapshot(zip), dir, "full") = Snapshot(zip)

=============================================================================

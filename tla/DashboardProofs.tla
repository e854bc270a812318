-------------------------- MODULE DashboardProofs --------------------------
(***************************************************************************)
(* Proofs about Dashboard: putting the parts together for one run changes  *)
(* none of them, so that what is proved of a part holds in that run, and   *)
(* the types the run checks are those of the parts.                        *)
(***************************************************************************)
EXTENDS Dashboard, RegistryProofs, PageProofs

\* A step of one part leaves the variables of the others alone.
LEMMA OnePartSteps ==
  ASSUME [DashboardNext]_dashboardVars
  PROVE  /\ [RegistryNext]_registryVars /\ [LogNext]_logVars
         /\ [SuggestionsNext]_suggestionsVars /\ [CommandsNext]_commandsVars
         /\ [LibraryNext]_libraryVars /\ [ArchiveNext]_archiveVars
         /\ [CompletionNext]_completionVars
<1>1. CASE Steps("registry", RegistryNext)
  BY <1>1 DEF Steps, Rests
<1>2. CASE Steps("log", LogNext)
  BY <1>2 DEF Steps, Rests
<1>3. CASE Steps("console", SuggestionsNext)
  BY <1>3 DEF Steps, Rests
<1>4. CASE Steps("commands", CommandsNext)
  BY <1>4 DEF Steps, Rests
<1>5. CASE Steps("library", LibraryNext)
  BY <1>5 DEF Steps, Rests
<1>6. CASE Steps("archive", ArchiveNext)
  BY <1>6 DEF Steps, Rests
<1>7. CASE Steps("completion", CompletionNext)
  BY <1>7 DEF Steps, Rests
<1>8. CASE UNCHANGED dashboardVars
  BY <1>8 DEF dashboardVars
<1> QED BY <1>1, <1>2, <1>3, <1>4, <1>5, <1>6, <1>7, <1>8 DEF DashboardNext

(***************************************************************************)
(* Each part behaves in Dashboard as it does alone: a behaviour of all is  *)
(* a behaviour of each, up to fairness.  What is proved of a part without  *)
(* its fairness is therefore true in the run of Dashboard.                 *)
(***************************************************************************)
THEOREM EachPartAlone ==
  DashboardSpec =>
    /\ RegistrySpec /\ LibrarySpec /\ ArchiveSpec /\ CompletionSpec
    /\ LogInit /\ [][LogNext]_logVars
    /\ SuggestionsInit /\ [][SuggestionsNext]_suggestionsVars
    /\ CommandsInit /\ [][CommandsNext]_commandsVars
<1>1. DashboardInit =>
        /\ RegistryInit /\ LibraryInit /\ ArchiveInit /\ CompletionInit
        /\ LogInit /\ SuggestionsInit /\ CommandsInit
  BY DEF DashboardInit
<1>2. [DashboardNext]_dashboardVars =>
         /\ [RegistryNext]_registryVars /\ [LogNext]_logVars
         /\ [SuggestionsNext]_suggestionsVars /\ [CommandsNext]_commandsVars
         /\ [LibraryNext]_libraryVars /\ [ArchiveNext]_archiveVars
         /\ [CompletionNext]_completionVars
  BY OnePartSteps
<1> QED
  BY <1>1, <1>2, PTL
     DEF DashboardSpec, RegistrySpec, LibrarySpec, ArchiveSpec, CompletionSpec

(***************************************************************************)
(* The shapes of the parts' variables, for any values of their constants:  *)
(* ports stay in their ranges, the log queue within its size, and there is *)
(* one commands Job.                                                       *)
(***************************************************************************)
THEOREM DashboardTypeCorrect == DashboardSpec => []DashboardTypeOK
<1>1. LogInit /\ [][LogNext]_logVars => []LogTypeOK
  <2>1. LogTypes => LogTypeOK
    BY DEF LogTypes
  <2> QED BY <2>1, LogTypeInit, LogTypeNext, PTL
<1>2. SuggestionsInit /\ [][SuggestionsNext]_suggestionsVars => []SuggestionsTypeOK
  BY SuggestionsTypeInit, SuggestionsTypeNext, PTL
<1>3. CommandsInit /\ [][CommandsNext]_commandsVars => []CommandsTypeOK
  BY CommandsInit0, CommandsStep, CommandsTyped, PTL
<1> QED BY <1>1, <1>2, <1>3, EachPartAlone, RegistryTypeCorrect, PTL DEF DashboardTypeOK

=============================================================================

----------------------------- MODULE Dashboard -----------------------------
(***************************************************************************)
(* The parts of the dashboard around the operations on one world (World),  *)
(* its RCON pool (RconPool) and its whitelist (Access), for model checking.*)
(*                                                                         *)
(* These parts share no state: in each behaviour one of them is live and   *)
(* the others stay as they begin, so that one run explores the sum of      *)
(* their states and not the product.  Where one relies on another it says  *)
(* so: Suggestions assumes of the service what CommandsJob shows.          *)
(***************************************************************************)
EXTENDS RegistryRefinement, Library, LogView, Suggestions, CommandsJob, Archive, Completion

VARIABLE part  \* the part that is live

dashboardVars ==
  <<part, registryVars, logVars, suggestionsVars, commandsVars, libraryVars,
    archiveVars, completionVars>>

-----------------------------------------------------------------------------
(* A zip with a server world, single-player worlds, and a copy in each *)

ZipMembers ==
  { <<"level.dat">>, <<"ops.json">>, <<"logs", "latest.log">>,
    <<"world", "level.dat">>, <<"world", "region">>,
    <<"save", "level.dat">>, <<"save", "region">>, <<"save", "ops.json">>,
    <<"save", "world", "level.dat">>, <<"save", "old", "level.dat">>,
    <<"__MACOSX", "world", "level.dat">> }

-----------------------------------------------------------------------------
(* A command tree with the shapes of the real one: redirects, a leaf that  *)
(* means the root, arguments that hide each other, are wide, or greedy     *)

Literal(kids, runs) ==
  [kind |-> "literal", kids |-> kids, executable |-> runs, redirect |-> <<>>,
   greedy |-> FALSE, width |-> 1, accept |-> {}, values |-> {}]

Argument(redirect, width, accept, values) ==
  [kind |-> "argument", kids |-> {}, executable |-> TRUE, redirect |-> redirect,
   greedy |-> FALSE, width |-> width, accept |-> accept, values |-> values]

Tree ==
  [root |-> Literal({"execute", "tp", "say", "list"}, FALSE),
   execute |-> Literal({"as", "run"}, FALSE),
   as |-> Literal({"targets", "name"}, FALSE),
   targets |-> Argument(<<"execute">>, 1, {"@a"}, {"@a"}),
   name |-> Argument(<<"execute">>, 1, {"@a", "~", "list"}, {"@a"}),
   run |-> Literal({}, FALSE),
   tp |-> Literal({"location", "destination"}, FALSE),
   location |-> Argument(<<>>, 3, {"~"}, {}),
   destination |-> Argument(<<>>, 1, {"@a"}, {"@a"}),
   say |-> Literal({"message"}, FALSE),
   message |-> [Argument(<<>>, 1, {}, {}) EXCEPT !.greedy = TRUE],
   list |-> Literal({}, TRUE)]

Words == {"execute", "as", "run", "@a", "tp", "~", "say", "list"}

-----------------------------------------------------------------------------

Parts ==
  {"registry", "log", "console", "commands", "library", "archive", "completion"}

\* A part that begins in many states rests in one of them.
DashboardInit ==
  /\ part \in Parts
  /\ RegistryInit /\ (part # "registry" => record = [w \in Worlds |-> NoRecord])
  /\ LogInit /\ SuggestionsInit /\ CommandsInit
  /\ LibraryInit /\ CompletionInit
  /\ ArchiveInit /\ (part # "archive" => mode = "full")

Rests(p, vars) == IF part = p THEN TRUE ELSE UNCHANGED vars

Steps(p, next) ==
  /\ part = p /\ next /\ UNCHANGED part
  /\ Rests("registry", registryVars)
  /\ Rests("log", logVars)
  /\ Rests("console", suggestionsVars)
  /\ Rests("commands", commandsVars)
  /\ Rests("library", libraryVars)
  /\ Rests("archive", archiveVars)
  /\ Rests("completion", completionVars)

DashboardNext ==
  \/ Steps("registry", RegistryNext)
  \/ Steps("log", LogNext)
  \/ Steps("console", SuggestionsNext)
  \/ Steps("commands", CommandsNext)
  \/ Steps("library", LibraryNext)
  \/ Steps("archive", ArchiveNext)
  \/ Steps("completion", CompletionNext)

\* The fairness of the parts, each as long as it is live.
DashboardFairness ==
  /\ WF_dashboardVars(Steps("log", Pump))
  /\ WF_dashboardVars(Steps("log", Put))
  /\ WF_dashboardVars(Steps("log", Feeds))
  /\ WF_dashboardVars(Steps("log", Noticed))
  /\ WF_dashboardVars(Steps("log", Ages))
  /\ WF_dashboardVars(Steps("console", TimerFires("type")))
  /\ WF_dashboardVars(Steps("console", TimerFires("retry")))
  /\ WF_dashboardVars(Steps("console", BlurCloses))
  /\ WF_dashboardVars(Steps("console", HasRead))
  /\ WF_dashboardVars(Steps("console", Answers))
  /\ WF_dashboardVars(Steps("console", Arrives))
  /\ WF_dashboardVars(Steps("commands", Asks))
  /\ WF_dashboardVars(Steps("commands", CacheExpires))
  /\ \A s \in Servers : WF_dashboardVars(Steps("commands", JobEnds(s)))

DashboardSpec == DashboardInit /\ [][DashboardNext]_dashboardVars /\ DashboardFairness

-----------------------------------------------------------------------------

(***************************************************************************)
(* The shapes of the parts' variables: no port is out of its range, the    *)
(* log queue never exceeds its size, and there is one commands Job.        *)
(***************************************************************************)
DashboardTypeOK == RegistryTypeOK /\ LogTypeOK /\ SuggestionsTypeOK /\ CommandsTypeOK

=============================================================================

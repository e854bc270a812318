----------------------------- MODULE Completion -----------------------------
(***************************************************************************)
(* Completing a command line from a Brigadier command tree: _kids, _walk,  *)
(* _values and suggest of CommandTree (completion.py).                     *)
(*                                                                         *)
(* A line is a sequence of tokens; the one being completed is empty, so    *)
(* that everything matches.  Values and tokens are members of a small set: *)
(* the regular expressions are left out, accept says which token an        *)
(* argument takes.  The stack of _walk is a set here: the order in which   *)
(* it takes its entries makes no difference to what is found.              *)
(***************************************************************************)
EXTENDS Naturals, Sequences

CONSTANTS
  Root,      \* the node every line starts at
  Nodes,     \* name -> [kind, kids, executable, redirect, greedy, width, accept, values]
  Tokens,    \* tokens of a line
  MaxTokens  \* bound: how many

VARIABLES
  line,   \* the tokens before the one being completed
  taken,  \* the last of them was a suggestion
  stack,  \* nodes to look at, each with the number of tokens consumed
  seen,   \* those looked at
  ends,   \* nodes reached by all the tokens
  inside  \* arguments the next token belongs to

completionVars == <<line, taken, stack, seen, ends, inside>>

Literals(ns) == {n \in ns : Nodes[n].kind = "literal"}

Arguments(ns) == {n \in ns : Nodes[n].kind = "argument"}

\* A redirect; a leaf that cannot be run continues at the root.
Kids(n) ==
  CASE Nodes[n].redirect # <<>> -> Nodes[Nodes[n].redirect[1]].kids
    [] Nodes[n].redirect = <<>> /\ Nodes[n].kids = {} /\ Nodes[n].kind = "literal"
         /\ ~Nodes[n].executable -> Nodes[Root].kids
    [] OTHER -> Nodes[n].kids

\* Nodes lead to nodes, an argument is as wide as WIDTH says, and it takes what is
\* offered for it: its parser's fixed values, names of a registry, selectors, players
\* that are online.
ASSUME CompletionAssumption ==
  /\ Root \in DOMAIN Nodes
  /\ \A n \in DOMAIN Nodes :
       /\ Kids(n) \subseteq DOMAIN Nodes /\ Nodes[n].width \in Nat \ {0}
       /\ Nodes[n].values # {} =>
            Nodes[n].width = 1 /\ Nodes[n].values \subseteq Nodes[n].accept
  /\ MaxTokens \in Nat

-----------------------------------------------------------------------------
(* _walk *)

\* The tokens argument n takes at position i, as far as the line has them.
Part(n, i) == (i + 1)..(IF i + Nodes[n].width <= Len(line) THEN i + Nodes[n].width
                                                           ELSE Len(line))

Takes(n, i) == \A j \in Part(n, i) : line[j] \in Nodes[n].accept

\* A literal of that name hides the arguments beside it.
Pushed(n, i) ==
  IF line[i + 1] \in Literals(Kids(n)) THEN {<<line[i + 1], i + 1>>}
  ELSE {<<c, i + Nodes[c].width>> :
         c \in {a \in Arguments(Kids(n)) :
                 ~Nodes[a].greedy /\ Takes(a, i) /\ i + Nodes[a].width <= Len(line)}}

Within(n, i) ==
  IF line[i + 1] \in Literals(Kids(n)) THEN {}
  ELSE {a \in Arguments(Kids(n)) :
         Nodes[a].greedy \/ (Takes(a, i) /\ i + Nodes[a].width > Len(line))}

\* Mutant of Looked: a node is looked at once, whatever has been consumed.
LookedNode(e) == \E f \in seen : f[1] = e[1]

Looked(e) == e \in seen

Skip(e) ==
  /\ Looked(e)
  /\ stack' = stack \ {e}
  /\ UNCHANGED <<line, taken, seen, ends, inside>>

Reach(e) ==
  /\ ~Looked(e) /\ e[2] = Len(line)
  /\ stack' = stack \ {e} /\ seen' = seen \cup {e}
  /\ ends' = ends \cup {e[1]}
  /\ UNCHANGED <<line, taken, inside>>

Follow(e) ==
  /\ ~Looked(e) /\ e[2] < Len(line)
  /\ stack' = (stack \ {e}) \cup Pushed(e[1], e[2]) /\ seen' = seen \cup {e}
  /\ inside' = inside \cup Within(e[1], e[2])
  /\ UNCHANGED <<line, taken, ends>>

-----------------------------------------------------------------------------
(* suggest: what is offered once the walk is over; the code ranks it and   *)
(* gives the first MAX_ITEMS of it.                                        *)

Offered ==
  LET kids == UNION {Kids(n) : n \in ends}
  IN Literals(kids) \cup UNION {Nodes[a].values : a \in Arguments(kids)}

\* The next token is typed or accepted, and the whole line is walked again.
NextToken(t) ==
  /\ stack = {} /\ Len(line) < MaxTokens
  /\ line' = Append(line, t)
  /\ taken' = (t \in Offered)
  /\ stack' = {<<Root, 0>>} /\ seen' = {} /\ ends' = {} /\ inside' = {}

CompletionInit ==
  /\ line = <<>> /\ taken = FALSE
  /\ stack = {<<Root, 0>>} /\ seen = {} /\ ends = {} /\ inside = {}

CompletionNext ==
  \/ \E e \in stack : Skip(e) \/ Reach(e) \/ Follow(e)
  \/ \E t \in Tokens : NextToken(t)

CompletionSpec == CompletionInit /\ [][CompletionNext]_completionVars

-----------------------------------------------------------------------------

(***************************************************************************)
(* A suggestion that is accepted is understood: the walk over the line it  *)
(* completes comes to a node, or ends inside an argument, also when the    *)
(* tree leads back to a node the line has been at (seen in _walk, and the  *)
(* redirects of execute).                                                  *)
(***************************************************************************)
AcceptedContinues == taken /\ stack = {} => ends \cup inside # {}

=============================================================================

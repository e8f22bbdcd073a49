------------------------------ MODULE Explore ------------------------------
(***************************************************************************)
(* The bounded search of rsm/verify/explore.py: every world that a few     *)
(* moves lead to, from a queue taken from one end or from the other, with  *)
(* a bound on the length of a path and one on the worlds seen.             *)
(*                                                                         *)
(* A world here is all that the search carries: the nodes, the messages,   *)
(* the counts and who has led.  Which move leads where is given by a       *)
(* graph; a world is bad if `check' finds a violation in it.  The seen set *)
(* holds keys, and a key is less than a world: it leaves out next_index,   *)
(* match_index, the votes and what has been applied, and with symmetry it  *)
(* is the same for a world and its renamings.  So worlds that go on        *)
(* differently may have one key, and the second to be met is dropped.      *)
(***************************************************************************)
EXTENDS Integers, Sequences, FiniteSets, FiniteSetsExt

CONSTANTS
  World, Root,    \* worlds are numbers, so that the moves of one have an order
  Graphs,         \* the graphs tried, each the set of worlds one move away
  Shapes,         \* what a key may keep of each world: any function of it
  BadOnes,        \* the sets of bad worlds tried
  Depths, Budgets,
  None

ExploreConstants ==
  /\ World \subseteq Nat /\ Root \in World
  /\ \A g \in Graphs : g \in [World -> SUBSET World] /\ \A w \in World : IsFiniteSet(g[w])
  /\ \A s \in Shapes : DOMAIN s = World
  /\ Depths \subseteq Nat /\ Budgets \subseteq Nat
  /\ None \notin [world : World, path : Nat, untried : SUBSET World]

VARIABLES
  moves, bad, shape,        \* the worlds
  depth, budget, order,     \* the arguments of explore
  queue,
  seen,                     \* keys, not worlds
  frontier,
  at,                       \* the world whose moves are being tried; None between two
  outcome, length           \* what the Coverage says, and the path to a violation

arguments == <<moves, bad, shape, depth, budget, order>>
vars == <<arguments, queue, seen, frontier, at, outcome, length>>

BREADTH == "breadth"
DEPTH   == "depth"

RUNNING   == "running"
VIOLATION == "violation"
CUT       == "cut"         \* the budget ran out
EXHAUSTED == "exhausted"

\* What the seen set knows of a world: World.key, and _history.
Key(w) == shape[w]

\* An entry of the queue is a world, not a key.
Item(world, path) == [world |-> world, path |-> path, untried |-> moves[world]]

\* The end that breadth first does not take from.
WrongTaken == IF order = BREADTH THEN Len(queue) ELSE 1

\* popleft or pop.
Taken == IF order = BREADTH THEN 1 ELSE Len(queue)

\* The next world of the queue: its moves are tried, unless it is too far away.
Pop ==
  LET item == queue[Taken] IN
  /\ outcome = RUNNING /\ at = None /\ queue # << >>
  /\ queue' = SubSeq(queue, 1, Taken - 1) \o SubSeq(queue, Taken + 1, Len(queue))
  /\ IF item.path >= depth
     THEN frontier' = frontier + 1 /\ UNCHANGED at
     ELSE at' = item /\ UNCHANGED frontier
  /\ UNCHANGED <<arguments, seen, outcome, length>>

\* One move, and what is made of the world it leads to.
Move ==
  LET made == Min(at.untried) IN
  /\ outcome = RUNNING /\ at # None /\ at.untried # {}
  /\ at' = [at EXCEPT !.untried = @ \ {made}]
  /\ IF made \in bad
     THEN outcome' = VIOLATION /\ length' = at.path + 1 /\ UNCHANGED <<queue, seen, frontier>>
     ELSE /\ UNCHANGED length
          /\ seen' = seen \cup {Key(made)}
          /\ IF Key(made) \in seen
             THEN UNCHANGED <<queue, frontier, outcome>>
             ELSE IF Cardinality(seen') >= budget
             THEN outcome' = CUT /\ frontier' = frontier + 1 /\ UNCHANGED queue
             ELSE /\ queue' = Append(queue, Item(made, at.path + 1))
                  /\ UNCHANGED <<frontier, outcome>>
  /\ UNCHANGED arguments

\* All moves of the world have been tried.
Leave ==
  /\ outcome = RUNNING /\ at # None /\ at.untried = {}
  /\ at' = None
  /\ UNCHANGED <<arguments, queue, seen, frontier, outcome, length>>

\* The queue is empty.
Finish ==
  /\ outcome = RUNNING /\ at = None /\ queue = << >>
  /\ outcome' = EXHAUSTED
  /\ UNCHANGED <<arguments, queue, seen, frontier, at, length>>

\* The root is not checked.
Init ==
  /\ moves \in Graphs /\ bad \in BadOnes /\ shape \in Shapes
  /\ depth \in Depths /\ budget \in Budgets /\ order \in {BREADTH, DEPTH}
  /\ queue = <<Item(Root, 0)>>
  /\ seen = {Key(Root)}
  /\ frontier = 0
  /\ at = None
  /\ outcome = RUNNING /\ length = 0

Next == Pop \/ Move \/ Leave \/ Finish

Spec == Init /\ [][Next]_vars

-----------------------------------------------------------------------------

\* The worlds that up to n steps of a graph lead to.
Reach(graph, n) ==
  LET reach[k \in 0..n] ==
        IF k = 0 THEN {Root} ELSE reach[k - 1] \cup UNION {graph[w] : w \in reach[k - 1]}
  IN  reach[n]

Within(n) == Reach(moves, n)

\* The key tells the world from every one that goes on differently: whatever has the same
\* key can be moved to the same keys, and finds the same of them bad.
ToldApart(w) ==
  \A v \in World : Key(v) = Key(w) =>
    \A x \in moves[w] : \E y \in moves[v] : Key(y) = Key(x) /\ (y \in bad <=> x \in bad)

\* The worlds that up to n moves lead to, all of them from worlds that are told apart: a
\* world that is met in place of one of these leads to the same.
Surely(n) == Reach([w \in World |-> IF ToldApart(w) THEN moves[w] ELSE {}], n)

Keys(worlds) == {Key(w) : w \in worlds}

\* A violation that is reported is one, at the end of a path of that length; and whatever
\* the search calls seen is within its depth.
ReportIsReal ==
  /\ outcome = VIOLATION => Within(length) \cap bad # {}
  /\ seen \subseteq Keys(Within(depth))

\* A search that says it is exhausted has seen the key of every world within its depth
\* that worlds told apart lead to, and none of these is bad.  Of a world behind one that
\* was dropped for another of its key it says nothing.  Depth first it says so much only
\* if nothing lay at the frontier: a key is marked as seen at whatever depth it was first
\* met, the depth is not in it, and so a later, shorter path to it goes no further than
\* the longer one did.
ExhaustedIsComplete ==
  (outcome = EXHAUSTED /\ (order = BREADTH \/ frontier = 0)) =>
    /\ Keys(Surely(depth)) \subseteq seen
    /\ Surely(depth) \cap (bad \ {Root}) = {}

\* "Breadth first finds the shallowest violation": of the worlds that worlds told apart
\* lead to, none that is bad is nearer than the one it reports, and a search that the
\* budget cut short has missed none so near.
ShallowestFirst ==
  order = BREADTH =>
    /\ outcome = VIOLATION => Surely(length - 1) \cap (bad \ {Root}) = {}
    /\ outcome = CUT => Surely(at.path) \cap (bad \ {Root}) = {}

\* What a Coverage says of the worlds is so, as far as their keys tell them apart.
SearchIsSound == ReportIsReal /\ ExhaustedIsComplete /\ ShallowestFirst
=============================================================================

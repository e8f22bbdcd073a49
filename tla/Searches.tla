------------------------------ MODULE Searches ------------------------------
(***************************************************************************)
(* The searches of rsm/verify, side by side, for any values of their       *)
(* constants: for an order that explains a history, for a bad world, for a *)
(* smaller schedule, for a breach in a finished run; and the drawing of    *)
(* schedules.  A behaviour is one of one of them; the others stay where    *)
(* they began.  The search for the place where two logs part is Repair.    *)
(***************************************************************************)
EXTENDS Integers, Sequences, FiniteSets

VARIABLE part   \* which of them

CONSTANTS None

-----------------------------------------------------------------------------
(* An order that explains a history.                                       *)

CONSTANTS Absent, Refused, Yes, No, Wish, Told, StatesAllowed, MaxCalls

VARIABLES operations, clock, budget, searching, states, longest, seen, stack, entering, answer
search == <<operations, clock, budget, searching, states, longest, seen, stack,
            entering, answer>>

L == INSTANCE Linearize WITH Random <- {}, Replies <- Told, Budgets <- StatesAllowed

\* A verdict is right, and a rejection names the longest prefix that can be explained.
VerdictIsRight == L!VerdictIsRight /\ L!LongestIsLongest
CacheIsSound == L!CacheIsSound

-----------------------------------------------------------------------------
(* The worlds of a bounded search.                                         *)

CONSTANTS World, Root, Graphs, Shapes, BadOnes, Depths, WorldsAllowed

VARIABLES moves, bad, shape, depth, limit, order, queue, met, frontier, at, outcome, length
worlds == <<moves, bad, shape, depth, limit, order, queue, met, frontier, at, outcome,
            length>>

X == INSTANCE Explore WITH Budgets <- WorldsAllowed, budget <- limit, seen <- met

SearchIsSound == X!SearchIsSound

-----------------------------------------------------------------------------
(* A schedule that is cut down.                                            *)

CONSTANTS Firing, RunLength, Floor, Schedules

VARIABLES failing, best, index, runs, shrunk
schedule == <<failing, best, index, runs, shrunk>>

F == INSTANCE Shrink WITH FiresAt <- Firing, Ticks <- RunLength

ShrunkIsMinimal == F!ShrunkIsMinimal

-----------------------------------------------------------------------------
(* Drawing a schedule and injecting it.                                    *)

CONSTANTS Sizes, Ticks, Drawn

VARIABLES size, whens, out, marked, split, raised, tick, down, sides, applied, skipped
drawn == <<size, whens, out, marked, split, raised, tick, down, sides, applied, skipped>>

D == INSTANCE Faults WITH Faults <- Drawn

NoFaultIsInert == D!NoFaultIsInert

-----------------------------------------------------------------------------
(* Finished runs.                                                          *)

CONSTANTS Runs, Cmd

VARIABLES run, inspected, broken
finished == <<run, inspected, broken>>

K == INSTANCE Checkers

AlarmsAreReal == K!AlarmsAreReal
ViolationsAreFound == K!ViolationsAreFound

-----------------------------------------------------------------------------

ASSUME SearchesAssumption ==
  /\ L!LinearizeConstants /\ X!ExploreConstants /\ F!ShrinkConstants
  /\ D!FaultsConstants /\ K!CheckersConstants

\* "logs" is Repair, which moves none of these.
Looks == {"logs", "history", "worlds", "schedule", "faults", "runs"}

Begin == part \in Looks /\ L!Init /\ X!Init /\ F!Init /\ D!Init /\ K!Init

Step ==
  \/ part = "history" /\ L!Next /\ UNCHANGED <<part, worlds, schedule, drawn, finished>>
  \/ part = "worlds" /\ X!Next /\ UNCHANGED <<part, search, schedule, drawn, finished>>
  \/ part = "schedule" /\ F!Next /\ UNCHANGED <<part, search, worlds, drawn, finished>>
  \/ part = "faults" /\ D!Next /\ UNCHANGED <<part, search, worlds, schedule, finished>>
  \/ part = "runs" /\ K!Next /\ UNCHANGED <<part, search, worlds, schedule, drawn>>

searched == <<part, search, worlds, schedule, drawn, finished>>

Searching == Begin /\ [][Step]_searched
=============================================================================

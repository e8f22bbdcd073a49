------------------------------- MODULE Shrink -------------------------------
(***************************************************************************)
(* Cutting a failing fault schedule down to a small one that still fails   *)
(* in the same way: shrink of rsm/verify/fuzz.py.                          *)
(*                                                                         *)
(* Whether a schedule fails like the first one is given by a set: a run is *)
(* a function of its schedule, and of what happens in it nothing else      *)
(* matters here.  A fault is a number, in the order of the list.           *)
(***************************************************************************)
EXTENDS Integers, Sequences, FiniteSets, FiniteSetsExt

CONSTANTS
  FiresAt,     \* the tick each fault fires at
  Ticks,       \* the length of the run that failed
  Floor,       \* floor
  Schedules    \* the schedules that may fail

VARIABLES
  failing,     \* those that fail as the first one did
  best,        \* the smallest so far
  index,       \* the place in its list of the next fault to leave out
  runs,
  shrunk       \* neither move has helped

vars == <<failing, best, index, runs, shrunk>>

Faults == DOMAIN FiresAt

Schedule(faults, ticks) == [faults |-> faults, ticks |-> ticks]
First == Schedule(Faults, Ticks)

ShrinkConstants ==
  /\ FiresAt \in Seq(Nat) /\ Ticks \in Nat /\ Floor \in Nat
  /\ \A f \in Faults : FiresAt[f] <= Ticks
  /\ Schedules \subseteq [faults : SUBSET Faults, ticks : Nat]
  /\ IsFiniteSet(Schedules) /\ First \in Schedules

\* The fault at a place of the list that is left.
FaultAt(s, i) == CHOOSE f \in s.faults : Cardinality({g \in s.faults : g < f}) = i

\* fewer.pop(index).
Without(s, i) == [s EXCEPT !.faults = @ \ {FaultAt(s, i)}]

Half(s) == Max({Floor, s.ticks \div 2})

\* The run is cut, and the faults that would fire after its end with it.
Halved(s) == Schedule({f \in s.faults : FiresAt[f] <= Half(s)}, Half(s))

\* The round goes on where it was.
WrongKeep(s) ==
  /\ best' = s
  /\ UNCHANGED index

\* A cut is kept if it fails in the same way, and then all cuts are tried again.
Keep(s) ==
  /\ best' = s
  /\ index' = 0

\* One round of the inner loop.
TryWithout ==
  LET fewer == Without(best, index) IN
  /\ ~shrunk
  /\ index < Cardinality(best.faults)
  /\ runs' = runs + 1
  /\ IF fewer \in failing THEN Keep(fewer) ELSE index' = index + 1 /\ UNCHANGED best
  /\ UNCHANGED <<failing, shrunk>>

\* The inner loop has not helped.
TryHalf ==
  /\ ~shrunk
  /\ index = Cardinality(best.faults)
  /\ Half(best) < best.ticks
  /\ runs' = runs + 1
  /\ IF Halved(best) \in failing
     THEN Keep(Halved(best)) /\ UNCHANGED shrunk
     ELSE shrunk' = TRUE /\ UNCHANGED <<best, index>>
  /\ UNCHANGED failing

\* Nor can the run be cut any more.
AtTheFloor ==
  /\ ~shrunk
  /\ index = Cardinality(best.faults)
  /\ Half(best) >= best.ticks
  /\ shrunk' = TRUE
  /\ UNCHANGED <<failing, best, index, runs>>

Init ==
  /\ failing \in {f \in SUBSET Schedules : First \in f}
  /\ best = First
  /\ index = 0
  /\ runs = 0
  /\ shrunk = FALSE

Next == TryWithout \/ TryHalf \/ AtTheFloor

Spec == Init /\ [][Next]_vars

-----------------------------------------------------------------------------

\* What shrink returns fails like the schedule it was given, and no single cut that it
\* can make still does: leaving a fault out, or halving the run.  Every schedule it
\* runs is one that can be made, with no fault after the end; and it is done within a
\* try of every cut for each that it keeps.
ShrunkIsMinimal ==
  /\ best \in failing
  /\ \A f \in best.faults : FiresAt[f] <= best.ticks
  /\ shrunk => \A f \in best.faults : [best EXCEPT !.faults = @ \ {f}] \notin failing
  /\ shrunk /\ Half(best) < best.ticks => Halved(best) \notin failing
  /\ LET cuts == Cardinality(Faults)
     IN  runs <= (cuts + 1) * (cuts + Cardinality({s.ticks : s \in Schedules}))
=============================================================================

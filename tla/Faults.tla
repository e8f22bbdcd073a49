------------------------------- MODULE Faults -------------------------------
(***************************************************************************)
(* Fault schedules: drawing one at random and injecting it into a cluster, *)
(* random_schedule, run and _apply of rsm/verify/faults.py.                *)
(*                                                                         *)
(* The generator keeps its own account of who is down and whether there is *)
(* a partition; the cluster has the real one.  How a partition divides the *)
(* members is left out: a fault only asks whether there is one.            *)
(***************************************************************************)
EXTENDS Integers, Sequences, FiniteSets, FiniteSetsExt

CONSTANTS
  Sizes,     \* the sizes of the cluster tried
  Ticks,     \* the length of a run
  Faults     \* how many faults a schedule has

FaultsConstants == Sizes \subseteq Nat \ {0} /\ Ticks \in Nat /\ Faults \in Nat

VARIABLES
  size,
  whens,     \* the ticks drawn that have no fault yet
  out,       \* the faults drawn, as [kind, at, target]
  marked,    \* those the generator counts as down
  split,     \* there is a partition, by its account
  raised,    \* an exception has ended the drawing
  tick,      \* of the run; 0 while drawing
  down, sides,   \* of the cluster: the stopped nodes; whether there is a partition
  applied, skipped

drawing == <<whens, out, marked, split, raised>>
running == <<tick, down, sides, applied, skipped>>
vars == <<size, drawing, running>>

CRASH     == "crash"
RESTART   == "restart"
PARTITION == "partition"
HEAL      == "heal"

NoTarget == 0
Members == 1..size

-----------------------------------------------------------------------------
(* random_schedule.                                                        *)

\* The ticks are taken in no order.
WrongAt == Max(whens)

\* The ticks are walked in order.
At == Min(whens)

Adds(kind, target) ==
  /\ out' = Append(out, [kind |-> kind, at |-> At, target |-> target])
  /\ whens' = whens \ {At}
  /\ UNCHANGED raised

Stops(n) == Adds(CRASH, n) /\ marked' = marked \cup {n} /\ UNCHANGED split
Starts(n) == Adds(RESTART, n) /\ marked' = marked \ {n} /\ UNCHANGED split

\* randint(1, size - 1) has nothing to draw from in a cluster of one.
Splits ==
  IF size = 1
  THEN raised' = TRUE /\ UNCHANGED <<whens, out, marked, split>>
  ELSE Adds(PARTITION, NoTarget) /\ split' = TRUE /\ UNCHANGED marked

Heals == Adds(HEAL, NoTarget) /\ split' = FALSE /\ UNCHANGED marked

\* One round: pick falls below 0.35, 0.6, 0.85 or 1, the quarters 1 to 4.
Draw(quarter) ==
  /\ whens # {} /\ ~raised
  /\ IF quarter = 1 /\ Cardinality(marked) < size \div 2
     THEN \E n \in Members \ marked : Stops(n)
     ELSE IF quarter <= 2 /\ marked # {}
     THEN \E n \in marked : Starts(n)
     ELSE IF quarter <= 3 /\ ~split
     THEN Splits
     ELSE IF split
     THEN Heals
     ELSE IF marked # {}
     THEN \E n \in marked : Starts(n)
     ELSE \E n \in Members : Stops(n)
  /\ UNCHANGED <<size, running>>

-----------------------------------------------------------------------------
(* run.                                                                    *)

\* Does the fault find anything to do?
Bites(fault) ==
  \/ fault.kind = CRASH /\ fault.target \notin down
  \/ fault.kind = RESTART /\ fault.target \in down
  \/ fault.kind = PARTITION /\ ~sides
  \/ fault.kind = HEAL /\ sides

\* _apply, and the count that run makes of it.
Inject(fault) ==
  IF Bites(fault)
  THEN /\ applied' = applied + 1 /\ UNCHANGED skipped
       /\ down' = CASE fault.kind = CRASH   -> down \cup {fault.target}
                    [] fault.kind = RESTART -> down \ {fault.target}
                    [] OTHER                -> down
       /\ sides' = IF fault.kind \in {PARTITION, HEAL} THEN fault.kind = PARTITION ELSE sides
  ELSE skipped' = skipped + 1 /\ UNCHANGED <<down, sides, applied>>

\* One tick of the loop.  A generated schedule has at most one fault for it.
Tick ==
  /\ whens = {} /\ tick < Ticks
  /\ tick' = tick + 1
  /\ \/ /\ \A i \in DOMAIN out : out[i].at # tick + 1
        /\ UNCHANGED <<down, sides, applied, skipped>>
     \/ \E i \in DOMAIN out : out[i].at = tick + 1 /\ Inject(out[i])
  /\ UNCHANGED <<size, drawing>>

Init ==
  /\ size \in Sizes
  /\ whens \in kSubset(Faults, 2..(Ticks - 2))
  /\ out = << >> /\ marked = {} /\ split = FALSE /\ raised = FALSE
  /\ tick = 0 /\ down = {} /\ sides = FALSE
  /\ applied = 0 /\ skipped = 0

Next == Tick \/ \E quarter \in 1..4 : Draw(quarter)

Spec == Init /\ [][Next]_vars

-----------------------------------------------------------------------------

\* Every fault of a generated schedule does something when it comes, whatever else has
\* come before it, and no schedule stops more than half of a cluster of two or more.
NoFaultIsInert ==
  /\ skipped = 0
  /\ applied = Cardinality({i \in DOMAIN out : out[i].at <= tick})
  /\ size > 1 => 2 * Cardinality(down) <= size
=============================================================================

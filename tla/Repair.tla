------------------------------- MODULE Repair -------------------------------
(***************************************************************************)
(* How a leader finds where a follower's log stopped agreeing with its     *)
(* own: the four searches of rsm/repair.py, the two of rsm/log.py, and the *)
(* one that nodes really make, the retries of Node._on_appended.           *)
(*                                                                         *)
(* A probe is an append without entries at an index; the follower accepts  *)
(* it or says where it disagrees.  Each step is one round trip.  Walk,     *)
(* skip and the like go back from the end of the leader's log; a bisection *)
(* halves the indices left; the hybrid does a little of the first and then *)
(* the second.                                                             *)
(*                                                                         *)
(* Neither log changes, and neither has been compacted.  A log is that of  *)
(* the module Log, its entries reduced to their terms.                     *)
(***************************************************************************)
EXTENDS Log

CONSTANTS
  Candidate,   \* the logs that leader and follower may have
  Limit,       \* LIMIT, the probes before a search of repair.py gives up
  Patience,    \* how many steps the hybrid goes back first
  MaxProbes    \* bound: where the count of probes stops

Termed == [term : Nat \ {0}]

\* Terms never go down along a log, which is what Log.append sees to.
Ordered(l) ==
  \A i, j \in 1..LastIndex(l) : i <= j => At(l, i).term <= At(l, j).term

ASSUME RepairAssumption ==
  /\ \A l \in Candidate : l \in LogOf(Termed) /\ l.base = 0 /\ Ordered(l)
  /\ Limit \in Nat /\ Patience \in Nat /\ MaxProbes \in Nat
  /\ Limit < MaxProbes /\ Patience < MaxProbes

\* The logs hold the same entry at i: the same term, by log matching.
Same(l, r, i) == Holds(l, i) /\ Holds(r, i) /\ At(l, i).term = At(r, i).term

\* What the logs of two nodes have in common, the precondition of every search: log
\* matching (RaftProperties!LogMatching), and that the entries of a term were written
\* one after the other by its leader, so that they begin at one index in every log.
Match(l, r) ==
  /\ \A i \in 1..LastIndex(l) : Same(l, r, i) => \A j \in 1..i : Same(l, r, j)
  /\ \A i \in 1..LastIndex(l), j \in 1..LastIndex(r) :
       At(l, i).term = At(r, j).term => RunStart(l, i) = RunStart(r, j)

VARIABLES
  strategy,      \* the search under way
  mine, theirs,  \* the leader's log and the follower's
  phase,         \* going back, halving or done
  low, high,     \* the indices still to be asked about; going back, high is next
  found,         \* the highest index known to agree; -1 when a search gave up
  probes         \* round trips so far

vars == <<strategy, mine, theirs, phase, low, high, found, probes>>

Limited   == {"walk_back", "skip_term", "bisect", "hybrid"}
Unlimited == {"one_at_a_time", "conflict_term", "node"}
Strategy  == Limited \cup Unlimited

\* agree_up_to.
AgreeUpTo(l, r) == Max({0} \cup {i \in 1..LastIndex(l) : Same(l, r, i)})

Agreed == AgreeUpTo(mine, theirs)

\* One round trip: does the follower take an append after index i?
Accepts(i) == Matches(theirs, i, TermAt(mine, i))

-----------------------------------------------------------------------------

\* Back to the leader's first entry of the term instead of its last.
WrongNextIndex(c, i) ==
  LET own == {j \in 1..LastIndex(mine) : At(mine, j).term = c.term}
  IN  IF c.term > 0 /\ own # {} THEN Min({Min(own), i - 1})
      ELSE Min({Max({c.index - 1, 0}), i - 1})

\* _next_index, after the refusal c at index i: the leader's last entry of the term
\* the follower named, or the index before the follower's first of it.
NextIndex(c, i) ==
  LET own == {j \in 1..LastIndex(mine) : At(mine, j).term = c.term}
  IN  IF c.term > 0 /\ own # {} THEN Min({Max(own), i - 1})
      ELSE Min({Max({c.index - 1, 0}), i - 1})

\* The loop of reconcile_by_conflict_term: back to the follower's end, or to before
\* its run of the term it disagrees on.
Reconciled(i) ==
  IF i > LastIndex(theirs) THEN LastIndex(theirs) ELSE RunStart(theirs, i) - 1

\* One index too far on.
WrongRetried(c) == SkipTerm(mine, c.term, c.index + 1) - 1

\* The append that Node._on_appended sends after a refusal follows this index.
Retried(c) == SkipTerm(mine, c.term, c.index) - 1

\* Where to ask after a refusal at i.
Retreat(i) ==
  CASE strategy = "skip_term"     -> NextIndex(Conflict(theirs, i), i)
    [] strategy = "conflict_term" -> Reconciled(i)
    [] strategy = "node"          -> Retried(Conflict(theirs, i))
    [] OTHER                      -> i - 1

\* How many probes going back may take.  The other test of the loops, that the index
\* is not below 0, never fails: every follower accepts an append after index 0.
MayGoOn ==
  \/ strategy \in Unlimited
  \/ strategy = "hybrid" /\ probes < Patience
  \/ strategy \in {"walk_back", "skip_term"} /\ probes < Limit

GoBack ==
  /\ phase = "back"
  /\ MayGoOn
  /\ probes' = Min({probes + 1, MaxProbes})
  /\ IF Accepts(high)
     THEN phase' = "done" /\ found' = high /\ UNCHANGED high
     ELSE high' = Retreat(high) /\ UNCHANGED <<phase, found>>
  /\ UNCHANGED <<strategy, mine, theirs, low>>

\* A search that has used up its probes; the hybrid goes on with the other half of
\* its plan.
GiveUp ==
  /\ phase = "back"
  /\ ~MayGoOn
  /\ IF strategy = "hybrid"
     THEN phase' = "halve" /\ UNCHANGED found
     ELSE phase' = "done" /\ found' = -1
  /\ UNCHANGED <<strategy, mine, theirs, low, high, probes>>

\* The middle itself stays among the indices to ask about.
WrongHalve ==
  LET middle == (low + high) \div 2
  IN  /\ phase = "halve"
      /\ low <= high /\ probes < Limit
      /\ probes' = Min({probes + 1, MaxProbes})
      /\ IF Accepts(middle)
         THEN found' = middle /\ low' = middle + 1 /\ UNCHANGED high
         ELSE high' = middle /\ UNCHANGED <<found, low>>
      /\ UNCHANGED <<strategy, mine, theirs, phase>>

Halve ==
  LET middle == (low + high) \div 2
  IN  /\ phase = "halve"
      /\ low <= high /\ probes < Limit
      /\ probes' = Min({probes + 1, MaxProbes})
      /\ IF Accepts(middle)
         THEN found' = middle /\ low' = middle + 1 /\ UNCHANGED high
         ELSE high' = middle - 1 /\ UNCHANGED <<found, low>>
      /\ UNCHANGED <<strategy, mine, theirs, phase>>

Settle ==
  /\ phase = "halve"
  /\ ~(low <= high /\ probes < Limit)
  /\ phase' = "done"
  /\ UNCHANGED <<strategy, mine, theirs, low, high, found, probes>>

Init ==
  /\ mine \in Candidate /\ theirs \in Candidate
  /\ Match(mine, theirs)
  /\ strategy \in Strategy
  /\ phase = IF strategy = "bisect" THEN "halve" ELSE "back"
  /\ low = 0 /\ high = LastIndex(mine)
  /\ found = 0
  /\ probes = 0

Next == GoBack \/ GiveUp \/ Halve \/ Settle

Spec == Init /\ [][Next]_vars

\* Every strategy is a loop that runs to its end.
FairSpec == Spec /\ WF_vars(Next)

-----------------------------------------------------------------------------

\* No search ever jumps past the place: while one goes on, the agreement point is
\* among the indices it will still ask about, or is the best it has found.  The
\* conflict term walk of log.py is left out, which jumps over a whole run of the
\* follower's though the leader may hold the first of it.
InReach ==
  /\ (phase = "back" /\ strategy # "conflict_term") => Agreed <= high
  /\ phase = "halve" => (low = 0 \/ low = found + 1) /\ found <= Agreed /\ Agreed <= high

\* every_strategy_finds_the_same_place: whatever the logs, a search that ends ends at
\* the agreement point, unless it ran into the limit.  One index early would cut off
\* entries both logs hold, one late would leave a conflict in place.  The conflict
\* term walk may end early but never late.
FindsThePlace ==
  phase = "done" =>
    \/ found = Agreed
    \/ strategy = "conflict_term" /\ found <= Agreed
    \/ strategy \in Limited /\ probes >= Limit

\* What a search costs.  Walking is one probe for every index it gives back;
\* skipping is never worse, and pays at most one probe for each term of the
\* follower that the two do not share, one for a follower that is too short and
\* one for the answer; halving is logarithmic in the length of the log, and the
\* hybrid adds its patience, unless that alone used up the limit.  Only a search
\* without a limit can go on after the count has stopped.
ForeignTerms ==
  {At(theirs, i).term : i \in (Agreed + 1)..LastIndex(theirs)}

Cost ==
  LET given == LastIndex(mine) - Agreed
      length == LastIndex(mine) + 1
  IN  phase = "done" /\ found = Agreed /\ probes < MaxProbes =>
        /\ strategy \in {"walk_back", "one_at_a_time"} => probes = given + 1
        /\ strategy \in {"skip_term", "conflict_term", "node"} =>
             /\ probes <= given + 1
             /\ probes <= Cardinality(ForeignTerms) + 2
        /\ strategy = "bisect" => 2 ^ probes <= 2 * length
        /\ strategy = "hybrid" =>
             \/ probes <= Patience /\ (probes = given + 1 \/ probes >= Limit)
             \/ probes > Patience /\ 2 ^ (probes - Patience) <= 2 * length

\* Every search ends, though nothing stops the ones of rsm/log.py and of the nodes
\* from turning in circles.
Ends == <>(phase = "done")
=============================================================================

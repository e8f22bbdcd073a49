----------------------------- MODULE Membership -----------------------------
(***************************************************************************)
(* Changing who is in the cluster: Configuration of rsm/membership.py,     *)
(* which goes through a joint configuration, and Roster of rsm/learner.py, *)
(* which makes a listener a voter in one step.                             *)
(*                                                                         *)
(* A change is an entry of the log and reaches the nodes at different      *)
(* times, so several configurations are in use at once: the last one that  *)
(* is known to be committed and those begun since.  Once one is committed, *)
(* those it does not come from can decide nothing any more.                *)
(***************************************************************************)
EXTENDS Quorums

CONSTANTS
  Node,     \* every node there may ever be
  MaxOpen   \* bound: configurations in use at once

MembershipConstants == IsFiniteSet(Node) /\ MaxOpen \in Nat

VARIABLES
  kind,        \* which of the two classes is used
  use,         \* the configurations in use, each with the one it came from
  overlapped   \* a change has been begun while another was open

vars == <<kind, use, overlapped>>

\* A configuration is steady if it has no old members.
Joint(c) == c.old # {}

\* Either side is enough.
WrongQuorum(c, votes) ==
  HasMajority(votes, c.members) \/ (Joint(c) /\ HasMajority(votes, c.old))

\* Configuration.quorum.
Decides(c, votes) ==
  HasMajority(votes, c.members) /\ (Joint(c) => HasMajority(votes, c.old))

WithMember(c, n) == [c EXCEPT !.members = @ \cup {n}, !.old = c.members]
WithoutMember(c, n) == [c EXCEPT !.members = @ \ {n}, !.old = c.members]
Settled(c) == [c EXCEPT !.old = {}]
WithLearner(c, n) == [c EXCEPT !.learners = @ \cup {n}]
Promote(c, n) == [c EXCEPT !.members = @ \cup {n}, !.learners = @ \ {n}]

\* What a configuration can be changed to, with the refusals of the methods.
Changes(c) ==
  {WithMember(c, n) : n \in Node \ c.members}
    \cup {WithoutMember(c, n) : n \in {m \in c.members : c.members # {m}}}

RosterChanges(c) ==
  {WithLearner(c, n) : n \in Node \ (c.members \cup c.learners)}
    \cup {Promote(c, n) : n \in c.learners}

Step(c, d) == [config |-> d, from |-> c]

\* A leader begins a change from a configuration it holds.  None of the methods asks
\* whether another change is still open.
Begin(u) ==
  /\ kind = "configuration" /\ Cardinality(use) < MaxOpen
  /\ \E d \in Changes(u.config) :
       /\ use' = use \cup {Step(u.config, d)}
       /\ overlapped' = (overlapped \/ Joint(u.config))
  /\ UNCHANGED kind

\* The joint configuration is committed, by both its sides, and the leader begins the
\* settled one.
Settle(u) ==
  /\ Joint(u.config)
  /\ use' = {u, Step(u.config, Settled(u.config))}
  /\ UNCHANGED <<kind, overlapped>>

\* A listener joins or becomes a voter.
Enroll(u) ==
  /\ kind = "roster" /\ Cardinality(use) < MaxOpen
  /\ \E d \in RosterChanges(u.config) :
       /\ use' = use \cup {Step(u.config, d)}
       /\ overlapped' = (overlapped \/ \E v \in use : v.config.members # u.config.members)
  /\ UNCHANGED kind

\* A steady configuration is committed, by its own members.
Adopt(u) ==
  /\ ~Joint(u.config)
  /\ use # {u}
  /\ use' = {u}
  /\ UNCHANGED <<kind, overlapped>>

Init ==
  /\ kind \in {"configuration", "roster"}
  /\ \E members \in (SUBSET Node) \ {{}} :
       LET c == [members |-> members, old |-> {}, learners |-> {}]
       IN  use = {Step(c, c)}
  /\ overlapped = FALSE

Next == \E u \in use : Begin(u) \/ Settle(u) \/ Enroll(u) \/ Adopt(u)

Spec == Init /\ [][Next]_vars

-----------------------------------------------------------------------------

\* No two sets of nodes, one deciding by c and the other by d, are disjoint: nobody
\* can be elected by the one and by the other in the same term.
Meet(c, d) ==
  \A p, q \in SUBSET Node : Decides(c, p) /\ Decides(d, q) => p \cap q # {}

\* Whatever configurations the nodes hold at a moment, two of them never decide apart,
\* rival changes of two leaders included; unless one change was begun inside another,
\* which no method refuses.  Even then each meets the one it was made from.
NobodyDecidesApart ==
  \A u, v \in use : (~overlapped \/ v.config = u.from) => Meet(u.config, v.config)

\* The rule that election and commit quorums add up to more than the cluster is
\* exactly that no pair of them is disjoint, at every size a cluster passes through.
RuleIsExact ==
  \A u \in use : LET n == Cardinality(u.config.members) IN
    /\ \A e, k \in 1..n :
         Intersects(n, e, k) <=> Disjoint(u.config.members, e, k) = {}
    /\ \A e \in 1..n : Intersects(n, e, e) => Majority(n) <= e
    /\ Tolerates(n) < Majority(n)
=============================================================================

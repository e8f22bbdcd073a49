------------------------------ MODULE Quorums ------------------------------
(***************************************************************************)
(* The arithmetic of rsm/quorum.py, and what it is about: which sets of    *)
(* nodes are enough to decide, and whether two of them always share one.   *)
(***************************************************************************)
EXTENDS Integers, FiniteSets

\* Half is enough.
WrongMajority(size) == IF size > 1 THEN size \div 2 ELSE 1

\* quorum.majority, Configuration.quorum and Roster.quorum.
Majority(size) == size \div 2 + 1

Tolerates(size) == size - Majority(size)

HasMajority(votes, members) ==
  Cardinality(votes \cap members) >= Majority(Cardinality(members))

\* Rule.intersects.
Intersects(size, election, commit) == election + commit > size

\* quorum.disjoint: an election quorum and a commit quorum of these members that
\* share nothing.
Disjoint(members, election, commit) ==
  {pair \in (SUBSET members) \X (SUBSET members) :
     /\ Cardinality(pair[1]) = election
     /\ Cardinality(pair[2]) = commit
     /\ pair[1] \cap pair[2] = {}}
=============================================================================

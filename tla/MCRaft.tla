------------------------------- MODULE MCRaft -------------------------------
EXTENDS RaftProperties, TLC

\* Nodes that may stand, and nodes that may not, are interchangeable.
Symm == Permutations(Contender) \cup Permutations(Node \ Contender)
=============================================================================

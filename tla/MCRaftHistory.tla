--------------------------- MODULE MCRaftHistory ---------------------------
EXTENDS RaftRecord, TLC

\* Nodes that may stand, and nodes that may not, are interchangeable.
Symm == Permutations(Contender) \cup Permutations(Node \ Contender)
=============================================================================

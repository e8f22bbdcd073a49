---------------------------- MODULE MCRaftServed ----------------------------
(***************************************************************************)
(* The consensus core from a cluster that has already served.              *)
(***************************************************************************)
EXTENDS RaftProperties, TLC

CONSTANT First   \* the leader of term 2

\* First led term 2.  Its empty entry and one write were committed and applied by
\* every node, it compacted its log there, took one more write and stopped before
\* anybody else had it.
Served ==
  LET write   == [term |-> 2, cmd |-> CHOOSE cmd \in Command : TRUE]
      entries == <<[term |-> 2, cmd |-> None], write>>
      whole   == Extend(EmptyLog, entries)
      back(x, y) == [n \in Node |-> IF n = First THEN x ELSE y]
  IN  /\ term = [n \in Node |-> 2]
      /\ votedFor = [n \in Node |-> First]
      /\ log = back(Extend(Compact(whole, 2), <<write>>), whole)
      /\ role = back(LEADER, FOLLOWER)
      /\ votes = [n \in Node |-> {}]
      /\ preVotes = [n \in Node |-> {}]
      /\ commitIndex = [n \in Node |-> 2]
      /\ lastApplied = [n \in Node |-> 2]
      /\ applied = [n \in Node |-> entries]
      /\ machine = [n \in Node |-> write.cmd]
      /\ nextIndex = back([p \in Node |-> 3], [p \in Node |-> 0])
      /\ matchIndex = back([p \in Node |-> IF p = First THEN 3 ELSE 2],
                           [p \in Node |-> 0])
      /\ net = EmptyBag
      /\ down = {First} /\ crashes = 1 /\ raised = FALSE
      /\ ledger = [i \in 1..2 |-> [term |-> 2, cmd |-> entries[i].cmd, at |-> 2]]

\* What a leader counts for a follower of its term is there: what both still hold is the
\* same, and what the leader has compacted the follower has, or has compacted.  The one
\* exception is a follower that has taken no entry of the leader's term: it may have
\* answered a snapshot, which it ignored because its log reached as far, with the end of
\* a log that the leader never compared with its own (Node._on_install), and so have
\* something else where the leader has compacted.  What can come of that is shown by the
\* run snapshot_ack.
CountedIsThere ==
  /\ MatchIsTruthful
  /\ \A n, p \in Node : (role[n] = LEADER /\ term[p] = term[n]) =>
       \A i \in 1..Min({matchIndex[n][p], log[n].base}) :
         Keeps(p, i) \/ LastTerm(log[p]) < term[n]

\* The two properties of commitment, which compaction and snapshots could break together:
\* what a leader counts is there, but for the answer to an ignored snapshot, and what is
\* committed is on a majority.
CommitsAreTruthful == CommittedOnMajority /\ CountedIsThere

ServedSpec == Served /\ [][Next]_vars

Symm == Permutations(Contender \ {First}) \cup Permutations(Node \ (Contender \cup {First}))
=============================================================================

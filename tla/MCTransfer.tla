----------------------------- MODULE MCTransfer -----------------------------
(***************************************************************************)
(* A transfer of a cluster that has begun to serve.                        *)
(***************************************************************************)
EXTENDS Transfer, TLC

CONSTANT First   \* the leader of term 2

\* First leads term 2.  Its empty entry is committed and applied by every node, and it
\* has one more write, which nobody else has yet.
Serving ==
  LET entry(cmd) == [term |-> 2, cmd |-> cmd]
      begun      == Extend(EmptyLog, <<entry(None)>>)
      write      == entry(CHOOSE cmd \in Command : TRUE)
      back(x, y) == [n \in Node |-> IF n = First THEN x ELSE y]
  IN  /\ term = [n \in Node |-> 2]
      /\ votedFor = [n \in Node |-> First]
      /\ log = back(Extend(begun, <<write>>), begun)
      /\ role = back(LEADER, FOLLOWER)
      /\ votes = [n \in Node |-> {}]
      /\ preVotes = [n \in Node |-> {}]
      /\ commitIndex = [n \in Node |-> 1]
      /\ lastApplied = [n \in Node |-> 1]
      /\ applied = [n \in Node |-> <<entry(None)>>]
      /\ machine = [n \in Node |-> None]
      /\ nextIndex = back([p \in Node |-> 2], [p \in Node |-> 0])
      /\ matchIndex = back([p \in Node |-> IF p = First THEN 2 ELSE 1],
                           [p \in Node |-> 0])
      /\ net = EmptyBag
      /\ down = {} /\ crashes = 0 /\ raised = FALSE
      /\ ledger = <<[term |-> 2, cmd |-> None, at |-> 2]>>
      /\ boss = First /\ target = First /\ stage = NOT_STARTED

TransferSpec == Serving /\ [][TransferNext]_<<vars, transferVars>>

Symm == Permutations(Node \ {First})
=============================================================================

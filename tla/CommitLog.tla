----------------------------- MODULE CommitLog -----------------------------
(***************************************************************************)
(* What the cluster promises its clients: there is one log of committed    *)
(* commands, which only ever grows at its end, and every replica has       *)
(* applied a prefix of it.  A replica that restarts begins again from      *)
(* nothing.                                                                *)
(***************************************************************************)
EXTENDS Naturals, SequencesExt

CONSTANT Node

VARIABLES
  chosen,   \* the committed log
  done      \* what each replica has applied

Init ==
  /\ chosen = << >>
  /\ done = [n \in Node |-> << >>]

\* A replica moves on along the log, which a leader may have made longer in the
\* same step.
Apply(n) ==
  /\ IsPrefix(chosen, chosen')
  /\ \E k \in Len(done[n])..Len(chosen') :
       done' = [done EXCEPT ![n] = SubSeq(chosen', 1, k)]

Forget(n) ==
  /\ done' = [done EXCEPT ![n] = << >>]
  /\ UNCHANGED chosen

Next == \E n \in Node : Apply(n) \/ Forget(n)

Spec == Init /\ [][Next]_<<chosen, done>>
=============================================================================

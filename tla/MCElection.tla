----------------------------- MODULE MCElection -----------------------------
(***************************************************************************)
(* The way to the first leader as a question of progress.  The network     *)
(* delivers everything, nobody crashes, and after the first term only one  *)
(* node's timer still runs out: the others redraw theirs at random and     *)
(* come out later.  That is as lucky as a run can be.                      *)
(***************************************************************************)
EXTENDS RaftProperties

CONSTANT Steady   \* the node whose timer comes out first from term 2 on

\* A timer of 10 to 20 ticks outlasts the two delays, of 4 ticks at most, that a
\* question and its answer take: a node that has asked hears before it asks again.
Answered(n) ==
  \A m \in BagToSet(net) :
    /\ m.kind = "request vote" => m.from # n
    /\ m.kind = "vote" => m.to # n

TimesOut(n) == (n = Steady \/ term[n] = 1) /\ Answered(n) /\ Stand(n)

CalmNext == Deliver \/ \E n \in Node : TimesOut(n)

\* Some request that is on its way to n arrives.
Asked(n) ==
  /\ Deliver
  /\ \E m \in BagToSet(net) : m.to = n /\ m.kind = "request vote" /\ ~BagIn(m, net')

\* Network.tick delivers a message when its delay is over, so that none waits for
\* ever while others pass, and Cluster.tick gives every node its tick.
CalmSpec ==
  /\ Init /\ [][CalmNext]_vars
  /\ WF_vars(Deliver)
  /\ \A n \in Node : WF_vars(Asked(n))
  /\ WF_vars(TimesOut(Steady))

\* A leader is elected: LEADER_ELECTED of verify/liveness.py, with a majority in
\* reach all the time.
EventuallyLed == <>(\E n \in Node : role[n] = LEADER)

\* A write is committed once there is a leader to take it: WRITE_COMMITS of
\* verify/liveness.py.  The write is the empty entry that a leader begins its term
\* with, and a leader that another term deposes may leave it to the next.
EventuallyCommitted ==
  \A n \in Node : <>[](role[n] = LEADER) => <>(commitIndex[n] > 0)
=============================================================================

------------------------------ MODULE Transfer ------------------------------
(***************************************************************************)
(* Handing leadership to a named node: hand_over of rsm/transfer.py, which *)
(* drives the nodes of the consensus core from outside, a tick at a time.  *)
(* The preferred leader of rsm/priority.py gets its place by it too.       *)
(*                                                                         *)
(* It asks who leads once, and drives that node from then on.  Whatever    *)
(* the cluster does in a tick may come between two of its steps.  A crash  *)
(* during a transfer is left out: the node that hand_over holds would not  *)
(* be the one that comes back.                                             *)
(***************************************************************************)
EXTENDS RaftProperties

VARIABLES
  boss, target,   \* the leader it began with, and the node to hand over to
  stage

transferVars == <<boss, target, stage>>

NOT_STARTED == "not_started"
STARTED     == "started"
CAUGHT_UP   == "caught_up"
HANDED_OVER == "handed_over"
ABANDONED   == "abandoned"

\* hand_over, for a leader and another node.
HandOver(n, to) ==
  /\ stage # STARTED
  /\ Leads(n) /\ n # to
  /\ boss' = n /\ target' = to
  /\ stage' = STARTED
  /\ UNCHANGED vars

LevelWithBoss == matchIndex[boss][target] >= LastIndex(log[boss])

\* One round of the first loop: the target is sent what it is missing, by a node that
\* led when the transfer began.
CatchUp ==
  /\ stage = STARTED /\ ~raised
  /\ ~LevelWithBoss
  /\ Exchange({},
       {ReplicateTo(boss, target, term[boss], log[boss], nextIndex[boss][target],
                    commitIndex[boss], machine[boss])})
  /\ UNCHANGED <<ballotVars, log, machineVars, leaderVars, worldVars, ledger, transferVars>>

\* The target is told to stand, whoever leads by now.
Tell ==
  /\ stage = STARTED /\ ~raised
  /\ LevelWithBoss
  /\ stage' = CAUGHT_UP
  /\ IF PreVote THEN BecomePreCandidate(target) ELSE BecomeCandidate(target, {})
  /\ UNCHANGED <<boss, target>>

\* Either loop runs out of patience.
Abandon ==
  /\ stage = STARTED
  /\ stage' = ABANDONED
  /\ UNCHANGED <<vars, boss, target>>

\* The target leads.
Conclude ==
  /\ stage = CAUGHT_UP
  /\ Leads(target)
  /\ stage' = HANDED_OVER
  /\ UNCHANGED <<vars, boss, target>>

Transferring ==
  \/ \E n, to \in Node : HandOver(n, to)
  \/ CatchUp \/ Tell \/ Abandon \/ Conclude

TransferNext ==
  \/ Transferring
  \/ Next /\ UNCHANGED transferVars
=============================================================================

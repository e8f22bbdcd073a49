------------------------------ MODULE Services ------------------------------
(***************************************************************************)
(* The components around the consensus core that stand on its promises and *)
(* not on each other, side by side, for any values of their constants.  A  *)
(* behaviour is one of a single component; the others stay where they      *)
(* began.                                                                  *)
(***************************************************************************)
EXTENDS Integers, FiniteSets

VARIABLE part   \* the component whose behaviour this is

-----------------------------------------------------------------------------
(* Clients and their sessions.                                             *)

CONSTANTS
  None, Absent, Refused, Yes, No, Random,   \* what a key may hold and a client be told
  Server, Key, Wish, MaxCopies, MaxLog, MaxUpsets

VARIABLES command, sent, chosen, place, held, answers, restarts, forgets, took, told
clients == <<command, sent, chosen, place, held, answers, restarts, forgets, took, told>>

Ses == INSTANCE Sessions WITH Replica <- Server

TakesEffectOnce == part = "sessions" => Ses!TakesEffectOnce
AnswerStands == part = "sessions" => Ses!AnswerStands

-----------------------------------------------------------------------------
(* A leader's lease, with the timers of node.py and the delays of net.py.  *)

CONSTANTS MinTimeout, Heartbeat, MinDelay, Lengths, Drifts, Reads

VARIABLES length, drift, now, stage, since, stale
holder == <<length, drift, now, stage, since, stale>>

Lea == INSTANCE Lease

LeaseReadsAreCurrent == part = "lease" => Lea!LeaseReadsAreCurrent

-----------------------------------------------------------------------------
(* Changes of the membership.                                              *)

CONSTANTS Node, MaxOpen

VARIABLES kind, use, overlapped
configurations == <<kind, use, overlapped>>

Mem == INSTANCE Membership

NobodyDecidesApart == part = "membership" => Mem!NobodyDecidesApart
RuleIsExact == part = "membership" => Mem!RuleIsExact

-----------------------------------------------------------------------------
(* A node and its disk.                                                    *)

CONSTANTS Candidate, Term, LeaderLog, Lists, MaxCrashes

VARIABLES durable, order, term, votedFor, log, disk, reply, written, crashes, said
node == <<durable, order, term, votedFor, log, disk, reply, written, crashes, said>>

Per == INSTANCE Persist

OneVoteInATerm == part = "persist" => Per!OneVoteInATerm
AcknowledgedIsKept == part = "persist" => Per!AcknowledgedIsKept

-----------------------------------------------------------------------------
(* A range that moves between groups.                                      *)

CONSTANTS Writes, WriteEveries, CopyTicks

VARIABLES every, copyTicks, unsafe, tick, phase, frozenAt, handedAt,
          attempted, served, refused, taken, committed, inverted
move == <<every, copyTicks, unsafe, tick, phase, frozenAt, handedAt,
          attempted, served, refused, taken, committed, inverted>>

Reb == INSTANCE Rebalance WITH Everies <- WriteEveries

\* A move keeps the order of what is written, as far as it can, for the price of the freeze.
MoveIsOrdered == part = "rebalance" => Reb!OrderedByTheFreeze /\ Reb!FreezeIsTheCost

-----------------------------------------------------------------------------
(* Keys that expire.                                                       *)

CONSTANTS Replicas, Window, Leases, Length, GrantEveries, Skews, Sweeps

VARIABLES byClock, grantEvery, skew, sweep, round, pending, leases,
          granted, revoked, entries, divergences, worstDifference, worstDelay
stores == <<byClock, grantEvery, skew, sweep, round, pending, leases,
            granted, revoked, entries, divergences, worstDifference, worstDelay>>

Exp == INSTANCE Expiry WITH
  Everies <- GrantEveries, every <- grantEvery, tick <- round

ExpiryIsAgreed == part = "expiry" => Exp!ExpiryIsAgreed

-----------------------------------------------------------------------------
(* Watchers.                                                               *)

CONSTANTS Watcher, Watched, All, MaxIndex, MaxGap

VARIABLES wanted, events, seen, at, connected, mark, skipped
feed == <<wanted, events, seen, at, connected, mark, skipped>>

Wat == INSTANCE Watch WITH Key <- Watched

SeenIsWanted == part = "watch" => Wat!SeenIsWanted

-----------------------------------------------------------------------------
(* The network.                                                            *)

CONSTANTS Member, Cut, Anyone, Delays, MaxSent, MaxDivisions

VARIABLES conditions, sides, cuts, hour, flight, sequence, delivered, dropped, upsets
links == <<conditions, sides, cuts, hour, flight, sequence, delivered, dropped, upsets>>

Net == INSTANCE Network WITH now <- hour, MaxUpsets <- MaxDivisions

NetworkKeepsItsWord == Net!NetworkKeepsItsWord

-----------------------------------------------------------------------------

ASSUME ServicesAssumption ==
  /\ Ses!SessionsConstants /\ Lea!LeaseConstants
  /\ Mem!MembershipConstants /\ Per!PersistConstants /\ Reb!RebalanceConstants
  /\ Exp!ExpiryConstants /\ Wat!WatchConstants /\ Net!NetworkConstants

Parts == {"sessions", "lease", "membership", "persist", "rebalance", "expiry", "watch", "network"}

Init ==
  /\ part \in Parts
  /\ Ses!Init /\ Lea!Init /\ Mem!Init /\ Per!Init /\ Reb!Init /\ Exp!Init /\ Wat!Init /\ Net!Init

Next ==
  \/ /\ part = "sessions" /\ Ses!Next
     /\ UNCHANGED <<part, holder, configurations, node, move, stores, feed, links>>
  \/ /\ part = "lease" /\ Lea!Next
     /\ UNCHANGED <<part, clients, configurations, node, move, stores, feed, links>>
  \/ /\ part = "membership" /\ Mem!Next
     /\ UNCHANGED <<part, clients, holder, node, move, stores, feed, links>>
  \/ /\ part = "persist" /\ Per!Next
     /\ UNCHANGED <<part, clients, holder, configurations, move, stores, feed, links>>
  \/ /\ part = "rebalance" /\ Reb!Round
     /\ UNCHANGED <<part, clients, holder, configurations, node, stores, feed, links>>
  \/ /\ part = "expiry" /\ Exp!Round
     /\ UNCHANGED <<part, clients, holder, configurations, node, move, feed, links>>
  \/ /\ part = "watch" /\ Wat!Next
     /\ UNCHANGED <<part, clients, holder, configurations, node, move, stores, links>>
  \/ /\ part = "network" /\ Net!Next
     /\ UNCHANGED <<part, clients, holder, configurations, node, move, stores, feed>>

vars == <<part, clients, holder, configurations, node, move, stores, feed, links>>

Spec == Init /\ [][Next]_vars
=============================================================================

---------------------------- MODULE RaftHistory ----------------------------
(***************************************************************************)
(* The consensus core with a record of every vote cast and every election  *)
(* won, which no state keeps: a node that hears of a later term forgets    *)
(* both.                                                                   *)
(***************************************************************************)
EXTENDS RaftProperties

VARIABLES
  ballots,   \* every vote ever cast: in what term, by whom, for whom
  elected    \* who has ever led, and in what term

allVars == <<vars, ballots, elected>>

Ballot(t, p, n) == [term |-> t, by |-> p, for |-> n]
Election(t, n)  == [term |-> t, node |-> n]

Voted   == {Ballot(term[p], p, votedFor[p]) : p \in {q \in Node : votedFor[q] # None}}
Leading == {Election(term[n], n) : n \in {q \in Node : role[q] = LEADER}}

HInit == Init /\ ballots = {} /\ elected = {}

HNext ==
  /\ Next
  /\ ballots' = ballots \cup Voted'
  /\ elected' = elected \cup Leading'

HSpec == HInit /\ [][HNext]_allVars

-----------------------------------------------------------------------------

\* No term ever has two leaders, not even one after the other: what
\* Cluster.verify asks of the leaders of one tick, over the whole run, crashes
\* and restarts included.
OneLeaderPerTerm ==
  \A a, b \in elected : a.term = b.term => a.node = b.node

\* A vote that Node._on_request_vote has sent.
Granted(m) == m.kind = "vote" /\ ~m.preVote /\ m.granted

\* A node's own fields tell its latest vote truly.
BallotsOnDisk ==
  /\ Voted \subseteq ballots
  /\ \A b \in ballots :
       /\ b.term <= term[b.by]
       /\ b.term = term[b.by] => votedFor[b.by] = b.for

\* Nobody votes twice in a term.
OneBallotEach ==
  \A a, b \in ballots : (a.term = b.term /\ a.by = b.by) => a.for = b.for

\* A vote that is on its way, or that a candidate has counted, was cast.
BallotsCounted ==
  /\ \A m \in BagToSet(net) : Granted(m) => Ballot(m.term, m.from, m.to) \in ballots
  /\ \A n \in Node : \A p \in votes[n] : Ballot(term[n], p, n) \in ballots

ElectedByMajority ==
  /\ Leading \subseteq elected
  /\ \A e \in elected : Majority({p \in Node : Ballot(e.term, p, e.node) \in ballots})

\* Every leader there has ever been was put there by a majority of votes really
\* cast for it in its term, each node casting one: answers that come late, twice
\* or after a crash are never counted for another term or another node.
ElectedByBallot ==
  /\ ballots \subseteq [term : Nat, by : Node, for : Node]
  /\ elected \subseteq [term : Nat, node : Node]
  /\ BallotsOnDisk /\ OneBallotEach /\ BallotsCounted /\ ElectedByMajority

\* Nobody sends itself a message.
SentToOthers == \A m \in BagToSet(net) : m.from # m.to

\* Appends and snapshots come from the leader of their term.
SentByLeaders ==
  /\ SentToOthers
  /\ \A m \in BagToSet(net) :
       m.kind \in {"append", "install snapshot"} => Election(m.term, m.from) \in elected
=============================================================================

------------------------- MODULE RaftElectionProofs -------------------------
(***************************************************************************)
(* Elections are safe, for clusters of any size: a vote stands for the     *)
(* rest of its term, and no term ever has two leaders.                     *)
(*                                                                         *)
(* The argument is in two halves.  The first reads every action and finds  *)
(* that it is a BallotStep: one node moves, by rules that only speak of    *)
(* terms, votes, roles and granted votes on the wire.  The second half     *)
(* shows that a BallotStep keeps ElectedByBallot, and no longer looks at   *)
(* the actions.                                                            *)
(*                                                                         *)
(* The last section does the same for terms: with pre votes, no term runs  *)
(* ahead of a majority's by more than one.                                 *)
(***************************************************************************)
EXTENDS RaftHistory, RaftTypeProofs

USE ConstantsAssumption

\* The nodes whose vote n has counted in its term or has on its way.
Backing(n) ==
  {p \in Node :
     \/ p \in votes[n]
     \/ \E m \in BagToSet(net) :
          Granted(m) /\ m.from = p /\ m.to = n /\ m.term = term[n]}

\* One node takes a step, as far as elections go.
BallotStep(n) ==
  /\ \A p \in Node \ {n} :
       /\ term'[p] = term[p] /\ votedFor'[p] = votedFor[p]
       /\ role'[p] = role[p] /\ votes'[p] = votes[p]
  /\ \/ term'[n] = term[n] /\ (votedFor[n] # None => votedFor'[n] = votedFor[n])
     \/ term'[n] > term[n]
  /\ \A p \in votes'[n] :
       \/ term'[n] = term[n] /\ p \in Backing(n)
       \/ p = n /\ votedFor'[n] = n
  /\ role'[n] = LEADER =>
       term'[n] = term[n] /\ (role[n] = LEADER \/ Majority(Backing(n)))
  /\ \A m \in BagToSet(net') : Granted(m) =>
       \/ m \in BagToSet(net)
       \/ m.from = n /\ m.term = term'[n] /\ m.to = votedFor'[n]

-----------------------------------------------------------------------------
(* Majorities and messages.                                                *)

LEMMA MajorityGrows ==
  ASSUME NEW S \in SUBSET Node, NEW T \in SUBSET Node, S \subseteq T, Majority(S)
  PROVE  Majority(T)
<1>1. IsFiniteSet(S) /\ IsFiniteSet(T)
  BY FS_Subset
<1>2. Cardinality(S) <= Cardinality(T)
  BY <1>1, FS_Subset
<1>3. Cardinality(S) \in Nat /\ Cardinality(T) \in Nat /\ Cardinality(Node) \in Nat
  BY <1>1, FS_CardinalityType
<1> QED
  BY <1>2, <1>3 DEF Majority

LEMMA MajoritiesMeet ==
  ASSUME NEW S \in SUBSET Node, NEW T \in SUBSET Node, Majority(S), Majority(T)
  PROVE  S \cap T # {}
<1>1. Cardinality(S) \in Nat /\ Cardinality(T) \in Nat /\ Cardinality(Node) \in Nat
  BY FS_Subset, FS_CardinalityType
<1>2. Cardinality(S) + Cardinality(T) > Cardinality(Node)
  BY <1>1 DEF Majority
<1> QED
  BY <1>2, FS_MajoritiesIntersect

LEMMA ExchangeSubset ==
  ASSUME NetOK, NEW gone, NEW out, Exchange(gone, out)
  PROVE  BagToSet(net') \subseteq BagToSet(net) \cup out
<1>1. PICK kept \in SUBSET out : net' = (net (-) SetToBag(gone)) (+) SetToBag(kept)
  BY DEF Exchange
<1> DEFINE left == net (-) SetToBag(gone)
<1>2. DOMAIN left \subseteq DOMAIN net
  BY DEF (-)
<1>3. DOMAIN SetToBag(kept) = kept
  BY DEF SetToBag
<1> HIDE DEF left
<1>4. DOMAIN net' = DOMAIN left \cup kept
  BY <1>1, <1>3 DEF (+), left
<1> QED
  BY <1>2, <1>4 DEF BagToSet

\* A question is no vote, and neither is what a leader sends.
LEMMA RequestIsNoVote ==
  ASSUME NEW n, NEW t, NEW l, NEW pre \in BOOLEAN
  PROVE  \A m \in {RequestVoteMsg(n, p, t, l, pre) : p \in Peers(n)} : ~Granted(m)
<1>1. ASSUME NEW m \in {RequestVoteMsg(n, p, t, l, pre) : p \in Peers(n)}
      PROVE  ~Granted(m)
  <2>1. PICK p \in Peers(n) : m = RequestVoteMsg(n, p, t, l, pre)
    BY <1>1
  <2>2. m.kind = "request vote"
    BY <2>1 DEF RequestVoteMsg
  <2> QED
    BY <2>2 DEF Granted
<1> QED
  BY <1>1

LEMMA ReplicateToIsNoVote ==
  ASSUME NEW n, NEW p, NEW t, NEW l, NEW next, NEW commit, NEW state
  PROVE  ~Granted(ReplicateTo(n, p, t, l, next, commit, state))
BY DEF ReplicateTo, InstallMsg, AppendMsg, Granted

-----------------------------------------------------------------------------
(* Every action is a BallotStep.                                           *)

\* A step that no election notices.
LEMMA QuietStep ==
  ASSUME TypeOK, NEW n \in Node, UNCHANGED <<term, votedFor, role, votes>>,
         \A m \in BagToSet(net') : Granted(m) => m \in BagToSet(net)
  PROVE  BallotStep(n)
BY DEF BallotStep, Backing, TypeOK, BallotsOK

LEMMA QuietExchange ==
  ASSUME TypeOK, NEW n \in Node, UNCHANGED <<term, votedFor, role, votes>>,
         NEW gone, NEW out, Exchange(gone, out), \A m \in out : ~Granted(m)
  PROVE  BallotStep(n)
<1>1. \A m \in BagToSet(net') : Granted(m) => m \in BagToSet(net)
  BY ExchangeSubset DEF TypeOK
<1> QED
  BY <1>1, QuietStep

\* A receiver that looks at the term: its vote is kept or, if it was free, given to
\* the one it tells so.
LEMMA JoinStep ==
  ASSUME TypeOK, NEW m \in Message, ~Stale(m), NEW r \in Role, NEW v \in Node \cup {None},
         Join(m, r, v),
         r = LEADER => role[m.to] = LEADER /\ ~Ahead(m),
         VoteOn(m) # None => v = VoteOn(m),
         NEW gone, NEW out, Exchange(gone, out),
         \A a \in out : Granted(a) => a.from = m.to /\ a.term = TermOn(m) /\ a.to = v
  PROVE  BallotStep(m.to)
<1> DEFINE n == m.to
<1>1. n \in Node /\ m.term \in Nat /\ term[n] \in Nat
  BY MessageFields DEF TypeOK, BallotsOK
<1>2. /\ term' = [term EXCEPT ![n] = TermOn(m)]
      /\ votedFor' = [votedFor EXCEPT ![n] = v]
      /\ role' = [role EXCEPT ![n] = r]
      /\ votes' = [votes EXCEPT ![n] = IF Ahead(m) \/ r # role[n] THEN {} ELSE votes[n]]
  BY DEF Join
<1>3. \A p \in Node \ {n} :
        /\ term'[p] = term[p] /\ votedFor'[p] = votedFor[p]
        /\ role'[p] = role[p] /\ votes'[p] = votes[p]
  BY <1>1, <1>2 DEF TypeOK, BallotsOK
<1>4. term'[n] = TermOn(m) /\ votedFor'[n] = v /\ role'[n] = r
  BY <1>1, <1>2 DEF TypeOK, BallotsOK
<1>5. \/ term'[n] = term[n] /\ (votedFor[n] # None => votedFor'[n] = votedFor[n])
      \/ term'[n] > term[n]
  BY <1>1, <1>4 DEF TermOn, VoteOn, Ahead
<1>6. \A p \in votes'[n] : term'[n] = term[n] /\ p \in Backing(n)
  <2>1. \A p \in votes'[n] : p \in votes[n] /\ ~Ahead(m)
    BY <1>1, <1>2 DEF TypeOK, BallotsOK
  <2>2. votes[n] \subseteq Backing(n)
    BY <1>1 DEF Backing, TypeOK, BallotsOK
  <2> QED
    BY <1>4, <2>1, <2>2 DEF TermOn
<1>7. role'[n] = LEADER => term'[n] = term[n] /\ role[n] = LEADER
  BY <1>4 DEF TermOn
<1>8. \A a \in BagToSet(net') : Granted(a) =>
        \/ a \in BagToSet(net)
        \/ a.from = n /\ a.term = term'[n] /\ a.to = votedFor'[n]
  BY <1>4, ExchangeSubset DEF TypeOK
<1> QED
  BY <1>3, <1>5, <1>6, <1>7, <1>8 DEF BallotStep

\* The common case: the vote stays where the term rule leaves it.
LEMMA JoinQuietly ==
  ASSUME TypeOK, NEW m \in Message, ~Stale(m), NEW r \in {FOLLOWER, RoleOn(m)},
         Join(m, r, VoteOn(m)),
         NEW gone, NEW out, Exchange(gone, out), \A a \in out : ~Granted(a)
  PROVE  BallotStep(m.to)
<1>1. r \in Role /\ VoteOn(m) \in Node \cup {None}
  BY ReceiverTypes DEF TypeOK, FOLLOWER, Role
<1>2. r = LEADER => role[m.to] = LEADER /\ ~Ahead(m)
  BY DEF RoleOn, FOLLOWER, LEADER
<1> QED
  BY <1>1, <1>2, JoinStep

LEMMA BecomeCandidateStep ==
  ASSUME TypeOK, NEW n \in Node, NEW gone, BecomeCandidate(n, gone)
  PROVE  BallotStep(n)
<1> DEFINE out == {RequestVoteMsg(n, p, term[n] + 1, log[n], FALSE) : p \in Peers(n)}
<1>1. /\ term' = [term EXCEPT ![n] = @ + 1]
      /\ votedFor' = [votedFor EXCEPT ![n] = n]
      /\ role' = [role EXCEPT ![n] = CANDIDATE]
      /\ votes' = [votes EXCEPT ![n] = {n}]
      /\ Exchange(gone, out)
  BY DEF BecomeCandidate
<1>2. \A m \in out : ~Granted(m)
  BY RequestIsNoVote
<1>3. \A m \in BagToSet(net') : Granted(m) => m \in BagToSet(net)
  BY <1>1, <1>2, ExchangeSubset DEF TypeOK
<1>4. \A p \in Node \ {n} :
        /\ term'[p] = term[p] /\ votedFor'[p] = votedFor[p]
        /\ role'[p] = role[p] /\ votes'[p] = votes[p]
  BY <1>1 DEF TypeOK, BallotsOK
<1>5. /\ term'[n] > term[n] /\ votedFor'[n] = n
      /\ votes'[n] = {n} /\ role'[n] # LEADER
  BY <1>1 DEF TypeOK, BallotsOK, CANDIDATE, LEADER
<1> QED
  BY <1>3, <1>4, <1>5 DEF BallotStep

LEMMA StandStep ==
  ASSUME TypeOK, NEW n \in Node, Stand(n)
  PROVE  BallotStep(n)
<1>1. CASE BecomeCandidate(n, {})
  BY <1>1, BecomeCandidateStep
<1>2. CASE BecomePreCandidate(n)
  <2>1. \A m \in {RequestVoteMsg(n, p, term[n] + 1, log[n], TRUE) : p \in Peers(n)} :
          ~Granted(m)
    BY RequestIsNoVote
  <2> QED
    BY <1>2, <2>1, QuietExchange DEF BecomePreCandidate
<1> QED
  BY <1>1, <1>2 DEF Stand

LEMMA BecomeLeaderStep ==
  ASSUME TypeOK, NEW m \in BagToSet(net), Granted(m), m.to \in Node, m.from \in Node,
         m.term = term[m.to], Majority(votes[m.to] \cup {m.from}),
         BecomeLeader(m.to, {m})
  PROVE  BallotStep(m.to)
<1> DEFINE n == m.to
           sent(p) == ReplicateTo(n, p, term[n], Extend(log[n], <<[term |-> term[n], cmd |-> None]>>),
                        LastIndex(log[n]) + 1, commitIndex[n], machine[n])
           out == {sent(p) : p \in Peers(n)}
<1>1. /\ role' = [role EXCEPT ![n] = LEADER]
      /\ votes' = [votes EXCEPT ![n] = {}]
      /\ Exchange({m}, out)
      /\ UNCHANGED <<term, votedFor>>
  BY DEF BecomeLeader
<1>2. \A a \in out : ~Granted(a)
  <2>1. \A p : ~Granted(sent(p))
    BY ReplicateToIsNoVote
  <2> HIDE DEF sent
  <2> QED
    BY <2>1
<1>3. \A a \in BagToSet(net') : Granted(a) => a \in BagToSet(net)
  <2> HIDE DEF out
  <2> QED
    BY <1>1, <1>2, ExchangeSubset DEF TypeOK
<1>4. \A p \in Node \ {n} :
        /\ term'[p] = term[p] /\ votedFor'[p] = votedFor[p]
        /\ role'[p] = role[p] /\ votes'[p] = votes[p]
  BY <1>1 DEF TypeOK, BallotsOK
<1>5. term'[n] = term[n] /\ votedFor'[n] = votedFor[n] /\ votes'[n] = {}
  BY <1>1 DEF TypeOK, BallotsOK
<1>6. Majority(Backing(n))
  <2>1. votes[n] \cup {m.from} \in SUBSET Node
    BY DEF TypeOK, BallotsOK
  <2>2. votes[n] \cup {m.from} \subseteq Backing(n) /\ Backing(n) \in SUBSET Node
    BY <2>1 DEF Backing
  <2> QED
    BY <2>1, <2>2, MajorityGrows
<1> QED
  BY <1>3, <1>4, <1>5, <1>6 DEF BallotStep

LEMMA CountVoteStep ==
  ASSUME TypeOK, CountVote
  PROVE  \E n \in Node : BallotStep(n)
<1> PICK m \in Landed("vote") :
      /\ ~m.preVote /\ m.granted
      /\ m.term = term[m.to]
      /\ \/ Majority(votes[m.to] \cup {m.from}) /\ BecomeLeader(m.to, {m})
         \/ /\ votes' = [votes EXCEPT ![m.to] = @ \cup {m.from}]
            /\ Exchange({m}, {})
            /\ UNCHANGED <<term, votedFor, role, preVotes,
                           log, machineVars, leaderVars, worldVars, ledger>>
  BY DEF CountVote
<1> DEFINE n == m.to
<1>1. m \in Message /\ m.kind = "vote" /\ m \in BagToSet(net)
  BY LandedType DEF TypeOK, Landed
<1>2. n \in Node /\ m.from \in Node /\ Granted(m)
  BY <1>1, MessageFields DEF Granted
<1>3. CASE Majority(votes[n] \cup {m.from}) /\ BecomeLeader(n, {m})
  BY <1>1, <1>2, <1>3, BecomeLeaderStep
<1>4. CASE /\ votes' = [votes EXCEPT ![n] = @ \cup {m.from}]
           /\ Exchange({m}, {})
           /\ UNCHANGED <<term, votedFor, role>>
  <2>1. BagToSet(net') \subseteq BagToSet(net)
    BY <1>4, ExchangeSubset DEF TypeOK
  <2>2. \A p \in Node \ {n} :
          /\ term'[p] = term[p] /\ votedFor'[p] = votedFor[p]
          /\ role'[p] = role[p] /\ votes'[p] = votes[p]
    BY <1>4 DEF TypeOK, BallotsOK
  <2>3. \A p \in votes'[n] : p \in Backing(n)
    <3>1. \A p \in votes'[n] : p \in Node /\ (p \in votes[n] \/ p = m.from)
      BY <1>2, <1>4 DEF TypeOK, BallotsOK
    <3> QED
      BY <1>1, <1>2, <3>1 DEF Backing
  <2> QED
    BY <1>2, <1>4, <2>1, <2>2, <2>3 DEF BallotStep
<1> QED
  BY <1>2, <1>3, <1>4

LEMMA OnRequestVoteStep ==
  ASSUME TypeOK, OnRequestVote
  PROVE  \E n \in Node : BallotStep(n)
<1> PICK m \in Landed("request vote") :
      /\ ~Stale(m)
      /\ Join(m, RoleOn(m), IF Grants(m) THEN m.from ELSE VoteOn(m))
      /\ Exchange({m}, {VoteMsg(m.to, m.from, TermOn(m), Grants(m), FALSE)})
  BY DEF OnRequestVote
<1> DEFINE v == IF Grants(m) THEN m.from ELSE VoteOn(m)
           answer == VoteMsg(m.to, m.from, TermOn(m), Grants(m), FALSE)
<1>1. m \in Message /\ m.to \in Node /\ m.from \in Node
  BY LandedType, MessageFields DEF TypeOK
<1>2. RoleOn(m) \in Role /\ v \in Node \cup {None}
  BY <1>1, ReceiverTypes DEF TypeOK
<1>3. RoleOn(m) = LEADER => role[m.to] = LEADER /\ ~Ahead(m)
  BY DEF RoleOn, FOLLOWER, LEADER
<1>4. VoteOn(m) # None => v = VoteOn(m)
  BY DEF Grants
<1>5. /\ answer.from = m.to /\ answer.term = TermOn(m) /\ answer.to = m.from
      /\ Granted(answer) => Grants(m)
  BY DEF VoteMsg, Granted
<1>6. Granted(answer) => answer.to = v
  BY <1>5
<1> HIDE DEF v, answer
<1>7. \A a \in {answer} : Granted(a) => a.from = m.to /\ a.term = TermOn(m) /\ a.to = v
  BY <1>5, <1>6
<1>8. Join(m, RoleOn(m), v) /\ Exchange({m}, {answer})
  BY DEF v, answer
<1>9. BallotStep(m.to)
  BY <1>1, <1>2, <1>3, <1>4, <1>7, <1>8, JoinStep
<1> QED
  BY <1>1, <1>9

LEMMA IgnoreVoteStep ==
  ASSUME TypeOK, IgnoreVote
  PROVE  \E n \in Node : BallotStep(n)
<1> PICK m \in Landed("vote") :
      ~Stale(m) /\ Join(m, RoleOn(m), VoteOn(m)) /\ Exchange({m}, {})
  BY DEF IgnoreVote
<1>1. m \in Message /\ m.to \in Node
  BY LandedType, MessageFields DEF TypeOK
<1>2. \A a \in {} : ~Granted(a)
  OBVIOUS
<1>3. BallotStep(m.to)
  BY <1>1, <1>2, JoinQuietly
<1> QED
  BY <1>1, <1>3

LEMMA OnPreVoteStep ==
  ASSUME TypeOK, OnPreVote
  PROVE  \E n \in Node : BallotStep(n)
<1> PICK m \in Landed("vote") :
      \/ BecomeCandidate(m.to, {m})
      \/ Exchange({m}, {}) /\ UNCHANGED <<term, votedFor, role, votes>>
  BY DEF OnPreVote
<1>1. m.to \in Node
  BY LandedType, MessageFields DEF TypeOK
<1>2. CASE BecomeCandidate(m.to, {m})
  BY <1>1, <1>2, BecomeCandidateStep
<1>3. CASE Exchange({m}, {}) /\ UNCHANGED <<term, votedFor, role, votes>>
  BY <1>1, <1>3, QuietExchange
<1> QED
  BY <1>2, <1>3

\* Appends, snapshots and the answers to them reach a vote only through the term.
LEMMA AcceptAppendStep ==
  ASSUME TypeOK, AcceptAppend
  PROVE  \E n \in Node : BallotStep(n)
<1> PICK m \in Landed("append") :
      /\ ~Stale(m)
      /\ Join(m, FOLLOWER, VoteOn(m))
      /\ Exchange({m}, {AppendedMsg(m.to, m.from, m.term, m.prevIndex + Len(m.entries))})
  BY DEF AcceptAppend
<1>1. m \in Message /\ m.to \in Node
  BY LandedType, MessageFields DEF TypeOK
<1>2. ~Granted(AppendedMsg(m.to, m.from, m.term, m.prevIndex + Len(m.entries)))
  BY DEF AppendedMsg, Granted
<1>3. BallotStep(m.to)
  BY <1>1, <1>2, JoinQuietly
<1> QED
  BY <1>1, <1>3

LEMMA RejectAppendStep ==
  ASSUME TypeOK, RejectAppend
  PROVE  \E n \in Node : BallotStep(n)
<1> PICK m \in Landed("append") :
      /\ ~Stale(m)
      /\ Join(m, FOLLOWER, VoteOn(m))
      /\ Exchange({m}, {RefusedMsg(m.to, m.from, m.term, Conflict(log[m.to], m.prevIndex))})
  BY DEF RejectAppend
<1>1. m \in Message /\ m.to \in Node
  BY LandedType, MessageFields DEF TypeOK
<1>2. ~Granted(RefusedMsg(m.to, m.from, m.term, Conflict(log[m.to], m.prevIndex)))
  BY DEF RefusedMsg, Granted
<1>3. BallotStep(m.to)
  BY <1>1, <1>2, JoinQuietly
<1> QED
  BY <1>1, <1>3

LEMMA IgnoreReplyStep ==
  ASSUME TypeOK, IgnoreReply
  PROVE  \E n \in Node : BallotStep(n)
<1> PICK m \in Landed("appended") \cup Landed("installed") :
      ~Stale(m) /\ Join(m, RoleOn(m), VoteOn(m)) /\ Exchange({m}, {})
  BY DEF IgnoreReply
<1>1. m \in Message /\ m.to \in Node
  BY LandedType, MessageFields DEF TypeOK
<1>2. \A a \in {} : ~Granted(a)
  OBVIOUS
<1>3. BallotStep(m.to)
  BY <1>1, <1>2, JoinQuietly
<1> QED
  BY <1>1, <1>3

LEMMA OnInstallStep ==
  ASSUME TypeOK, OnInstall
  PROVE  \E n \in Node : BallotStep(n)
<1> PICK m \in Landed("install snapshot") :
      /\ ~Stale(m)
      /\ Join(m, RoleOn(m), VoteOn(m))
      /\ \E last : Exchange({m}, {InstalledMsg(m.to, m.from, m.term, last)})
  BY DEF OnInstall
<1> PICK last : Exchange({m}, {InstalledMsg(m.to, m.from, m.term, last)})
  OBVIOUS
<1>1. m \in Message /\ m.to \in Node
  BY LandedType, MessageFields DEF TypeOK
<1>2. ~Granted(InstalledMsg(m.to, m.from, m.term, last))
  BY DEF InstalledMsg, Granted
<1>3. BallotStep(m.to)
  BY <1>1, <1>2, JoinQuietly
<1> QED
  BY <1>1, <1>3

\* A stale question is refused, an older append is, and an answer is dropped.
LEMMA RefuseStaleStep ==
  ASSUME TypeOK, RefuseStale
  PROVE  \E n \in Node : BallotStep(n)
<1> DEFINE Refuses(m, out) ==
             /\ \/ out = {VoteMsg(m.to, m.from, term[m.to], FALSE, FALSE)}
                \/ out = {RefusedMsg(m.to, m.from, term[m.to], [term |-> 0, index |-> 0])}
                \/ out = {}
             /\ Exchange({m}, out)
             /\ UNCHANGED <<term, votedFor, role, votes>>
<1> PICK m \in BagToSet(net) : \E out : Refuses(m, out)
  BY DEF RefuseStale, ballotVars
<1> PICK out : Refuses(m, out)
  OBVIOUS
<1>1. m.to \in Node
  BY MessageFields DEF TypeOK, NetOK
<1>2. /\ ~Granted(VoteMsg(m.to, m.from, term[m.to], FALSE, FALSE))
      /\ ~Granted(RefusedMsg(m.to, m.from, term[m.to], [term |-> 0, index |-> 0]))
  BY DEF VoteMsg, RefusedMsg, Granted
<1>3. \A a \in out : ~Granted(a)
  BY <1>2
<1> QED
  BY <1>1, <1>3, QuietExchange

LEMMA OnPreVoteRequestStep ==
  ASSUME TypeOK, OnPreVoteRequest
  PROVE  \E n \in Node : BallotStep(n)
<1> PICK m \in Landed("request vote"), granted \in BOOLEAN :
      /\ Exchange({m}, {VoteMsg(m.to, m.from, term[m.to], granted, TRUE)})
      /\ UNCHANGED <<term, votedFor, role, votes>>
  BY DEF OnPreVoteRequest, ballotVars
<1>1. m.to \in Node
  BY LandedType, MessageFields DEF TypeOK
<1>2. ~Granted(VoteMsg(m.to, m.from, term[m.to], granted, TRUE))
  BY DEF VoteMsg, Granted
<1> QED
  BY <1>1, <1>2, QuietExchange

LEMMA AcknowledgeStep ==
  ASSUME TypeOK, NEW m \in Message, NEW upto, NEW anyway \in BOOLEAN,
         Acknowledge(m, upto, anyway)
  PROVE  \E n \in Node : BallotStep(n)
<1> DEFINE next == Acknowledged(m, upto)[m.from] + 1
           sent == ReplicateTo(m.to, m.from, term[m.to], log[m.to], next,
                               commitIndex'[m.to], machine'[m.to])
<1>1. PICK out : /\ out = {sent} \/ out = {}
                 /\ Exchange({m}, out)
                 /\ UNCHANGED <<term, votedFor, role, votes>>
  BY DEF Acknowledge, ballotVars
<1>2. ~Granted(sent)
  BY ReplicateToIsNoVote
<1> HIDE DEF sent
<1>3. \A a \in out : ~Granted(a)
  BY <1>1, <1>2
<1>4. m.to \in Node
  BY MessageFields
<1> QED
  BY <1>1, <1>3, <1>4, QuietExchange

LEMMA AppendRefusedStep ==
  ASSUME TypeOK, AppendRefused
  PROVE  \E n \in Node : BallotStep(n)
<1> DEFINE sent(m) == ReplicateTo(m.to, m.from, term[m.to], log[m.to],
                                  SkipTerm(log[m.to], m.conflictTerm, m.conflictIndex),
                                  commitIndex[m.to], machine[m.to])
<1>1. PICK m \in ForLeader("appended") :
        Exchange({m}, {sent(m)}) /\ UNCHANGED <<term, votedFor, role, votes>>
  BY DEF AppendRefused, ballotVars
<1>2. ~Granted(sent(m))
  BY ReplicateToIsNoVote
<1>3. m.to \in Node
  BY LandedType, MessageFields DEF TypeOK, ForLeader
<1> HIDE DEF sent
<1>4. \A a \in {sent(m)} : ~Granted(a)
  BY <1>2
<1> QED
  BY <1>1, <1>3, <1>4, QuietExchange

LEMMA RestartStep ==
  ASSUME TypeOK, NEW n \in Node, Restart(n)
  PROVE  BallotStep(n)
<1>1. /\ role' = [role EXCEPT ![n] = FOLLOWER]
      /\ votes' = [votes EXCEPT ![n] = {}]
      /\ UNCHANGED <<term, votedFor, net>>
  BY DEF Restart
<1>2. \A p \in Node \ {n} :
        /\ term'[p] = term[p] /\ votedFor'[p] = votedFor[p]
        /\ role'[p] = role[p] /\ votes'[p] = votes[p]
  BY <1>1 DEF TypeOK, BallotsOK
<1>3. votes'[n] = {} /\ role'[n] # LEADER
  BY <1>1 DEF TypeOK, BallotsOK, FOLLOWER, LEADER
<1> QED
  BY <1>1, <1>2, <1>3 DEF BallotStep

LEMMA DriveStep ==
  ASSUME TypeOK, NEW n \in Node, Drive(n)
  PROVE  BallotStep(n)
<1>1. CASE Stand(n)
  BY <1>1, StandStep
<1> DEFINE sent(l) == {ReplicateTo(n, p, term[n], l, nextIndex[n][p], commitIndex[n],
                                   machine[n]) : p \in Peers(n)}
<1>2. \A l : \A a \in sent(l) : ~Granted(a)
  BY ReplicateToIsNoVote
<1>3. CASE Heartbeat(n)
  <2>1. Exchange({}, sent(log[n])) /\ UNCHANGED <<term, votedFor, role, votes>>
    BY <1>3 DEF Heartbeat, ballotVars
  <2> HIDE DEF sent
  <2> QED
    BY <1>2, <2>1, QuietExchange
<1>4. ASSUME NEW cmd \in Command, Propose(n, cmd)
      PROVE  BallotStep(n)
  <2>1. PICK l : Exchange({}, sent(l)) /\ UNCHANGED <<term, votedFor, role, votes>>
    BY <1>4 DEF Propose, ballotVars
  <2> HIDE DEF sent
  <2> QED
    BY <1>2, <2>1, QuietExchange
<1>5. CASE CompactLog(n) \/ Crash(n)
  <2>1. UNCHANGED <<term, votedFor, role, votes, net>>
    BY <1>5 DEF CompactLog, Crash, ballotVars
  <2> QED
    BY <2>1, QuietStep
<1>6. CASE Restart(n)
  BY <1>6, RestartStep
<1> QED
  BY <1>1, <1>3, <1>4, <1>5, <1>6 DEF Drive

\* Every step of the cluster is one node's step, as far as elections go.
LEMMA NextStep ==
  ASSUME TypeOK, Next
  PROVE  \E n \in Node : BallotStep(n)
<1>1. CASE RefuseStale \/ OnRequestVote \/ OnPreVoteRequest
  BY <1>1, RefuseStaleStep, OnRequestVoteStep, OnPreVoteRequestStep
<1>2. CASE CountVote \/ IgnoreVote \/ OnPreVote
  BY <1>2, CountVoteStep, IgnoreVoteStep, OnPreVoteStep
<1>3. CASE AcceptAppend \/ RejectAppend \/ IgnoreReply \/ OnInstall
  BY <1>3, AcceptAppendStep, RejectAppendStep, IgnoreReplyStep, OnInstallStep
<1>4. CASE AppendRefused
  BY <1>4, AppendRefusedStep
<1>5. CASE AppendSucceeded
  <2>1. PICK m \in ForLeader("appended") : Acknowledge(m, m.match, FALSE)
    BY <1>5 DEF AppendSucceeded
  <2>2. m \in Message
    BY LandedType DEF TypeOK, ForLeader
  <2> QED
    BY <2>1, <2>2, AcknowledgeStep
<1>6. CASE OnInstalled
  <2>1. PICK m \in ForLeader("installed") : Acknowledge(m, m.lastIndex, TRUE)
    BY <1>6 DEF OnInstalled
  <2>2. m \in Message
    BY LandedType DEF TypeOK, ForLeader
  <2> QED
    BY <2>1, <2>2, AcknowledgeStep
<1>7. CASE DropAtDown
  <2>1. PICK m \in BagToSet(net) :
          Exchange({m}, {}) /\ UNCHANGED <<term, votedFor, role, votes>>
    BY <1>7 DEF DropAtDown, ballotVars
  <2>2. m.to \in Node
    BY <2>1, MessageFields DEF TypeOK, NetOK
  <2> QED
    BY <2>1, <2>2, QuietExchange
<1>8. CASE ConflictRaises \/ AcknowledgeRaises
  <2>1. PICK m \in BagToSet(net) : UNCHANGED <<term, votedFor, role, votes, net>>
    BY <1>8 DEF ConflictRaises, AcknowledgeRaises, Raise, ForLeader, Landed, ballotVars
  <2>2. m.to \in Node
    BY <2>1, MessageFields DEF TypeOK, NetOK
  <2> QED
    BY <2>1, <2>2, QuietStep
<1>9. ASSUME NEW n \in Node, Drive(n) PROVE BallotStep(n)
  BY <1>9, DriveStep
<1> QED
  BY <1>1, <1>2, <1>3, <1>4, <1>5, <1>6, <1>7, <1>8, <1>9 DEF Next, Deliver

-----------------------------------------------------------------------------
(* A vote stands.                                                          *)

\* The step form of VoteStands follows from the rules of a BallotStep.
LEMMA BallotStepKeepsVotes ==
  ASSUME TypeOK, TypeOK', NEW q \in Node, BallotStep(q), NEW n \in Node
  PROVE  /\ term'[n] >= term[n]
         /\ (term'[n] = term[n] /\ votedFor[n] # None) => votedFor'[n] = votedFor[n]
<1>1. term[n] \in Nat /\ term'[n] \in Nat
  BY DEF TypeOK, BallotsOK
<1>2. CASE n = q
  BY <1>1, <1>2 DEF BallotStep
<1>3. CASE n # q
  BY <1>1, <1>3 DEF BallotStep
<1> QED
  BY <1>2, <1>3

\* A node's term never falls and its vote, once cast, stands for the rest of its
\* term: _on_request_vote, become_candidate and become_follower together never
\* cast two votes in a term, and Cluster.restart loses none.
THEOREM VotesStand == Spec => VoteStands
<1>1. ASSUME TypeOK, TypeOK', [Next]_vars
      PROVE  [\A n \in Node :
                /\ term'[n] >= term[n]
                /\ (term'[n] = term[n] /\ votedFor[n] # None)
                      => votedFor'[n] = votedFor[n]]_vars
  BY <1>1, NextStep, BallotStepKeepsVotes
<1> QED
  BY <1>1, TypeCorrect, PTL DEF Spec, VoteStands

-----------------------------------------------------------------------------
(* Elections.                                                              *)

LEMMA ElectedByBallotInit == HInit => ElectedByBallot
<1> SUFFICES ASSUME HInit PROVE ElectedByBallot
  OBVIOUS
<1>1. Voted = {} /\ Leading = {}
  BY DEF HInit, Init, Voted, Leading, FOLLOWER, LEADER
<1>2. BagToSet(net) = {} /\ \A n \in Node : votes[n] = {}
  BY DEF HInit, Init, EmptyBag, SetToBag, BagToSet
<1>3. ballots = {} /\ elected = {}
  BY DEF HInit
<1> QED
  BY <1>1, <1>2, <1>3 DEF ElectedByBallot, BallotsOnDisk, OneBallotEach, BallotsCounted,
                          ElectedByMajority

LEMMA BallotStepKeepsElections ==
  ASSUME TypeOK, TypeOK', ElectedByBallot, NEW n \in Node, BallotStep(n),
         ballots' = ballots \cup Voted', elected' = elected \cup Leading'
  PROVE  ElectedByBallot'
<1>1. /\ \A p \in Node : /\ term[p] \in Nat /\ term'[p] \in Nat
                         /\ votedFor[p] \in Node \cup {None}
                         /\ votedFor'[p] \in Node \cup {None}
                         /\ votes'[p] \subseteq Node
      /\ BagToSet(net') \subseteq Message
  BY DEF TypeOK, BallotsOK, NetOK
<1>2. \A b \in Voted' : /\ b \in [term : Nat, by : Node, for : Node]
                        /\ b.term = term'[b.by] /\ b.for = votedFor'[b.by]
  BY <1>1 DEF Voted, Ballot
<1>3. \A p, q \in Node : votedFor'[p] = q => Ballot(term'[p], p, q) \in ballots'
  BY DEF Voted
<1>4. ballots' \subseteq [term : Nat, by : Node, for : Node]
  BY <1>2 DEF ElectedByBallot
<1>5. elected' \subseteq [term : Nat, node : Node]
  <2>1. Leading' \subseteq [term : Nat, node : Node]
    BY <1>1 DEF Leading, Election
  <2> QED
    BY <2>1 DEF ElectedByBallot
<1>6. BallotsOnDisk'
  <2>1. ASSUME NEW b \in ballots
        PROVE  /\ b.term <= term'[b.by]
               /\ b.term = term'[b.by] => votedFor'[b.by] = b.for
    <3>1. /\ b.by \in Node /\ b.for \in Node /\ b.term \in Nat
          /\ b.term <= term[b.by]
          /\ b.term = term[b.by] => votedFor[b.by] = b.for
      BY DEF ElectedByBallot, BallotsOnDisk
    <3>2. /\ term'[b.by] >= term[b.by]
          /\ (term'[b.by] = term[b.by] /\ votedFor[b.by] # None)
                => votedFor'[b.by] = votedFor[b.by]
      BY <3>1, BallotStepKeepsVotes
    <3>3. b.term <= term'[b.by]
      BY <1>1, <3>1, <3>2
    <3>4. b.term = term'[b.by] => term'[b.by] = term[b.by]
      BY <1>1, <3>1, <3>2
    <3> QED
      BY <3>1, <3>2, <3>3, <3>4
  <2>2. \A b \in Voted' : b.term <= term'[b.by] /\ votedFor'[b.by] = b.for
    BY <1>2
  <2>3. \A b \in ballots' : /\ b.term <= term'[b.by]
                            /\ b.term = term'[b.by] => votedFor'[b.by] = b.for
    BY <2>1, <2>2
  <2> QED
    BY <2>3 DEF BallotsOnDisk
<1>7. OneBallotEach'
  <2>1. ASSUME NEW a \in ballots', NEW b \in ballots', a.term = b.term, a.by = b.by
        PROVE  a.for = b.for
    <3>1. CASE a \in ballots /\ b \in ballots
      BY <2>1, <3>1 DEF ElectedByBallot, OneBallotEach
    <3>2. CASE a \in Voted'
      BY <1>2, <1>6, <2>1, <3>2 DEF BallotsOnDisk
    <3>3. CASE b \in Voted'
      BY <1>2, <1>6, <2>1, <3>3 DEF BallotsOnDisk
    <3> QED
      BY <3>1, <3>2, <3>3
  <2> QED
    BY <2>1 DEF OneBallotEach
<1>8. \A p \in Backing(n) : Ballot(term[n], p, n) \in ballots
  BY DEF Backing, ElectedByBallot, BallotsCounted
<1>9. BallotsCounted'
  <2>1. ASSUME NEW m \in BagToSet(net'), Granted(m)
        PROVE  Ballot(m.term, m.from, m.to) \in ballots'
    <3>1. CASE m \in BagToSet(net)
      BY <2>1, <3>1 DEF ElectedByBallot, BallotsCounted
    <3>2. CASE m.from = n /\ m.term = term'[n] /\ m.to = votedFor'[n]
      BY <1>1, <1>3, <3>2, MessageFields
    <3> QED
      BY <2>1, <3>1, <3>2 DEF BallotStep
  <2>2. ASSUME NEW q \in Node, NEW p \in votes'[q]
        PROVE  Ballot(term'[q], p, q) \in ballots'
    <3>1. CASE q # n
      BY <3>1 DEF BallotStep, ElectedByBallot, BallotsCounted
    <3>2. CASE q = n /\ term'[n] = term[n] /\ p \in Backing(n)
      BY <1>8, <3>2
    <3>3. CASE q = n /\ p = n /\ votedFor'[n] = n
      BY <1>3, <3>3
    <3> QED
      BY <3>1, <3>2, <3>3 DEF BallotStep
  <2> QED
    BY <2>1, <2>2 DEF BallotsCounted
<1>10. ElectedByMajority'
  <2>1. \A e \in elected : Majority({p \in Node : Ballot(e.term, p, e.node) \in ballots})
    BY DEF ElectedByBallot, ElectedByMajority
  <2>2. ASSUME NEW e, Majority({p \in Node : Ballot(e.term, p, e.node) \in ballots})
        PROVE  Majority({p \in Node : Ballot(e.term, p, e.node) \in ballots'})
    BY <2>2, MajorityGrows
  <2>3. ASSUME NEW q \in Node, role'[q] = LEADER
        PROVE  Majority({p \in Node : Ballot(term'[q], p, q) \in ballots})
    <3>1. CASE role[q] = LEADER /\ term'[q] = term[q]
      <4>1. Election(term[q], q) \in elected
        BY <3>1 DEF Leading, ElectedByBallot, ElectedByMajority
      <4> QED
        BY <2>1, <3>1, <4>1 DEF Election
    <3>2. CASE q = n /\ term'[n] = term[n] /\ Majority(Backing(n))
      <4>1. Backing(n) \subseteq {p \in Node : Ballot(term[n], p, n) \in ballots}
        BY <1>8 DEF Backing
      <4>2. Backing(n) \in SUBSET Node
        BY DEF Backing
      <4> QED
        BY <3>2, <4>1, <4>2, MajorityGrows
    <3> QED
      BY <2>3, <3>1, <3>2 DEF BallotStep
  <2>4. \A e \in Leading' : Majority({p \in Node : Ballot(e.term, p, e.node) \in ballots})
    BY <2>3 DEF Leading, Election
  <2>5. \A e \in elected' : Majority({p \in Node : Ballot(e.term, p, e.node) \in ballots'})
    BY <2>1, <2>2, <2>4
  <2> QED
    BY <2>5 DEF ElectedByMajority
<1> QED
  BY <1>4, <1>5, <1>6, <1>7, <1>9, <1>10 DEF ElectedByBallot

\* Two leaders of a term were elected by majorities that share a node, which has
\* cast one vote.
LEMMA OneLeader ==
  ASSUME ElectedByBallot
  PROVE  OneLeaderPerTerm
<1>1. ASSUME NEW a \in elected, NEW b \in elected, a.term = b.term
      PROVE  a.node = b.node
  <2> DEFINE for(e) == {p \in Node : Ballot(e.term, p, e.node) \in ballots}
  <2>1. Majority(for(a)) /\ Majority(for(b))
    BY DEF ElectedByBallot, ElectedByMajority
  <2>2. PICK p \in Node : p \in for(a) /\ p \in for(b)
    BY <2>1, MajoritiesMeet
  <2>3. Ballot(a.term, p, a.node) \in ballots /\ Ballot(b.term, p, b.node) \in ballots
    BY <2>2
  <2> QED
    BY <1>1, <2>3 DEF ElectedByBallot, OneBallotEach, Ballot
<1> QED
  BY <1>1 DEF OneLeaderPerTerm

\* The history changes nothing of what the cluster does.
LEMMA HistoryIsSpec == HSpec => Spec
<1>1. HInit => Init
  BY DEF HInit
<1>2. [HNext]_allVars => [Next]_vars
  BY DEF HNext, allVars
<1> QED
  BY <1>1, <1>2, PTL DEF HSpec, Spec

\* Every leader there ever is was elected by a majority of ballots really cast for
\* it, in any cluster, with any losses, delays, crashes and restarts.
THEOREM LeadersAreElected == HSpec => []ElectedByBallot
<1>1. ASSUME TypeOK, TypeOK', ElectedByBallot, [HNext]_allVars
      PROVE  ElectedByBallot'
  <2>1. CASE HNext
    BY <1>1, <2>1, NextStep, BallotStepKeepsElections DEF HNext
  <2>2. CASE UNCHANGED allVars
    BY <1>1, <2>2 DEF allVars, vars, ballotVars, ElectedByBallot, BallotsOnDisk,
       OneBallotEach, BallotsCounted, ElectedByMajority, Voted, Leading
  <2> QED
    BY <1>1, <2>1, <2>2
<1> QED
  BY <1>1, ElectedByBallotInit, HistoryIsSpec, TypeCorrect, PTL DEF HSpec

\* No term has two leaders: what Cluster.verify asks of one moment holds of the
\* whole run, for any number of nodes.
THEOREM ElectionSafety == HSpec => []OneLeaderPerTerm
BY LeadersAreElected, OneLeader, PTL

-----------------------------------------------------------------------------
(* Terms.  Every action is a TermStep: one node moves, by rules that only  *)
(* speak of its term, the pre votes it has counted, and the terms of       *)
(* messages.                                                               *)

\* A granted pre vote on its way to n, or one that n would take for it.
Backs(m, n) ==
  /\ m \in BagToSet(net) /\ m.kind = "vote" /\ m.preVote
  /\ m.to = n /\ m.from \in Node /\ m.term >= term[n]

\* What one node may do with its term and with the pre votes it has counted.
TermMoves(n) ==
  \/ \* it does nothing, or forgets them
     term'[n] = term[n] /\ preVotes'[n] \subseteq preVotes[n]
  \/ \* it asks
     term'[n] = term[n] /\ term[n] < MaxTerm /\ preVotes'[n] = {n}
  \/ \* it hears an answer
     /\ term'[n] = term[n] /\ preVotes[n] # {}
     /\ \E m \in BagToSet(net) : Backs(m, n) /\ preVotes'[n] = preVotes[n] \cup {m.from}
  \/ \* it takes the later term of a message
     /\ preVotes'[n] = {}
     /\ \E m \in BagToSet(net) : ~Asking(m) /\ term'[n] = m.term /\ m.term > term[n]
  \/ \* it stands
     /\ preVotes'[n] = {} /\ term'[n] = term[n] + 1
     /\ \/ ~PreVote /\ term[n] < MaxTerm
        \/ /\ preVotes[n] # {}
           /\ \E m \in BagToSet(net) : Backs(m, n) /\ Majority(preVotes[n] \cup {m.from})

\* What it sends is of its own term, save the question that comes before a candidacy.
Told(n, m) ==
  \/ m.kind = "request vote" /\ m.preVote
  \/ m.term = term'[n] /\ (m.kind = "vote" => m.from = n)

TermStep(n) ==
  /\ \A p \in Node \ {n} : term'[p] = term[p] /\ preVotes'[p] = preVotes[p]
  /\ TermMoves(n)
  /\ \A m \in BagToSet(net') : m \in BagToSet(net) \/ Told(n, m)

LEMMA ReplicateToIsTold ==
  ASSUME NEW n \in Node, UNCHANGED term,
         NEW p, NEW l, NEW next, NEW commit, NEW state
  PROVE  Told(n, ReplicateTo(n, p, term[n], l, next, commit, state))
BY DEF ReplicateTo, InstallMsg, AppendMsg, Told

LEMMA SteadyStep ==
  ASSUME TypeOK, NEW n \in Node, UNCHANGED <<term, preVotes>>,
         \A m \in BagToSet(net') : m \in BagToSet(net) \/ Told(n, m)
  PROVE  TermStep(n)
BY DEF TermStep, TermMoves

LEMMA SteadyExchange ==
  ASSUME TypeOK, NEW n \in Node, UNCHANGED <<term, preVotes>>,
         NEW gone, NEW out, Exchange(gone, out), \A m \in out : Told(n, m)
  PROVE  TermStep(n)
<1>1. \A m \in BagToSet(net') : m \in BagToSet(net) \/ Told(n, m)
  BY ExchangeSubset DEF TypeOK
<1> QED
  BY <1>1, SteadyStep

LEMMA JoinTermStep ==
  ASSUME TypeOK, NEW m \in BagToSet(net), ~Stale(m), ~Asking(m), NEW r, NEW v,
         Join(m, r, v),
         NEW gone, NEW out, Exchange(gone, out),
         \A a \in out : a.term = TermOn(m) /\ a.from = m.to
  PROVE  m.to \in Node /\ TermStep(m.to)
<1> DEFINE n == m.to
<1>1. m \in Message /\ n \in Node /\ m.term \in Nat /\ term[n] \in Nat
  BY MessageFields DEF TypeOK, NetOK, BallotsOK
<1>2. /\ term' = [term EXCEPT ![n] = TermOn(m)]
      /\ preVotes' = [preVotes EXCEPT ![n] =
                        IF Ahead(m) \/ r # role[n] THEN {} ELSE preVotes[n]]
  BY DEF Join
<1>3. \A p \in Node \ {n} : term'[p] = term[p] /\ preVotes'[p] = preVotes[p]
  BY <1>1, <1>2 DEF TypeOK, BallotsOK
<1>4. /\ term'[n] = TermOn(m)
      /\ preVotes'[n] = IF Ahead(m) \/ r # role[n] THEN {} ELSE preVotes[n]
  BY <1>1, <1>2 DEF TypeOK, BallotsOK
<1>5. TermMoves(n)
  <2>1. CASE Ahead(m)
    <3>1. term'[n] = m.term /\ m.term > term[n] /\ preVotes'[n] = {}
      BY <1>4, <2>1 DEF TermOn, Ahead
    <3> QED
      BY <3>1 DEF TermMoves
  <2>2. CASE ~Ahead(m)
    <3>1. term'[n] = term[n] /\ preVotes'[n] \subseteq preVotes[n]
      BY <1>4, <2>2 DEF TermOn
    <3> QED
      BY <3>1 DEF TermMoves
  <2> QED
    BY <2>1, <2>2
<1>6. \A a \in BagToSet(net') : a \in BagToSet(net) \/ Told(n, a)
  BY <1>4, ExchangeSubset DEF TypeOK, Told
<1> QED
  BY <1>1, <1>3, <1>5, <1>6 DEF TermStep

LEMMA BecomeCandidateTermStep ==
  ASSUME TypeOK, NEW n \in Node, NEW gone, BecomeCandidate(n, gone),
         \/ ~PreVote /\ term[n] < MaxTerm
         \/ /\ preVotes[n] # {}
            /\ \E m \in BagToSet(net) : Backs(m, n) /\ Majority(preVotes[n] \cup {m.from})
  PROVE  TermStep(n)
<1> DEFINE ask(p) == RequestVoteMsg(n, p, term[n] + 1, log[n], FALSE)
           out    == {ask(p) : p \in Peers(n)}
<1>1. /\ term' = [term EXCEPT ![n] = @ + 1]
      /\ preVotes' = [preVotes EXCEPT ![n] = {}]
      /\ Exchange(gone, out)
  BY DEF BecomeCandidate
<1>2. \A p \in Node \ {n} : term'[p] = term[p] /\ preVotes'[p] = preVotes[p]
  BY <1>1 DEF TypeOK, BallotsOK
<1>3. term'[n] = term[n] + 1 /\ preVotes'[n] = {}
  BY <1>1 DEF TypeOK, BallotsOK
<1>4. \A m \in out : Told(n, m)
  <2>1. \A p : ask(p).term = term[n] + 1 /\ ask(p).kind = "request vote"
    BY DEF RequestVoteMsg
  <2>2. \A p : Told(n, ask(p))
    BY <1>3, <2>1 DEF Told
  <2> HIDE DEF ask
  <2> QED
    BY <2>2
<1> HIDE DEF out
<1>5. \A m \in BagToSet(net') : m \in BagToSet(net) \/ Told(n, m)
  BY <1>1, <1>4, ExchangeSubset DEF TypeOK
<1>6. TermMoves(n)
  BY <1>3 DEF TermMoves
<1> QED
  BY <1>2, <1>5, <1>6 DEF TermStep

LEMMA StandTermStep ==
  ASSUME TypeOK, NEW n \in Node, Stand(n)
  PROVE  TermStep(n)
<1>1. CASE ~PreVote
  BY <1>1, BecomeCandidateTermStep DEF Stand
<1>2. CASE PreVote
  <2> DEFINE ask(p) == RequestVoteMsg(n, p, term[n] + 1, log[n], TRUE)
             out    == {ask(p) : p \in Peers(n)}
  <2>1. /\ Exchange({}, out) /\ term' = term
        /\ preVotes' = [preVotes EXCEPT ![n] = {n}] /\ term[n] < MaxTerm
    BY <1>2 DEF Stand, BecomePreCandidate
  <2>2. \A m \in out : Told(n, m)
    <3>1. \A p : Told(n, ask(p))
      BY DEF RequestVoteMsg, Told
    <3> HIDE DEF ask
    <3> QED
      BY <3>1
  <2> HIDE DEF out
  <2>3. \A m \in BagToSet(net') : m \in BagToSet(net) \/ Told(n, m)
    BY <2>1, <2>2, ExchangeSubset DEF TypeOK
  <2>4. /\ \A p \in Node \ {n} : term'[p] = term[p] /\ preVotes'[p] = preVotes[p]
        /\ term'[n] = term[n] /\ preVotes'[n] = {n}
    BY <2>1 DEF TypeOK, BallotsOK
  <2> QED
    BY <2>1, <2>3, <2>4 DEF TermStep, TermMoves
<1> QED
  BY <1>1, <1>2

LEMMA RefuseStaleTermStep ==
  ASSUME TypeOK, RefuseStale
  PROVE  \E n \in Node : TermStep(n)
<1> DEFINE Refuses(m, out) ==
             /\ \/ out = {VoteMsg(m.to, m.from, term[m.to], FALSE, FALSE)}
                \/ out = {RefusedMsg(m.to, m.from, term[m.to], [term |-> 0, index |-> 0])}
                \/ out = {}
             /\ Exchange({m}, out)
             /\ UNCHANGED <<term, preVotes>>
<1> PICK m \in BagToSet(net) : \E out : Refuses(m, out)
  BY DEF RefuseStale, ballotVars
<1> PICK out : Refuses(m, out)
  OBVIOUS
<1>1. m.to \in Node
  BY MessageFields DEF TypeOK, NetOK
<1>2. /\ Told(m.to, VoteMsg(m.to, m.from, term[m.to], FALSE, FALSE))
      /\ Told(m.to, RefusedMsg(m.to, m.from, term[m.to], [term |-> 0, index |-> 0]))
  BY DEF VoteMsg, RefusedMsg, Told
<1>3. \A a \in out : Told(m.to, a)
  BY <1>2
<1> QED
  BY <1>1, <1>3, SteadyExchange

LEMMA OnRequestVoteTermStep ==
  ASSUME TypeOK, OnRequestVote
  PROVE  \E n \in Node : TermStep(n)
<1> PICK m \in Landed("request vote") :
      /\ ~m.preVote /\ ~Stale(m)
      /\ Join(m, RoleOn(m), IF Grants(m) THEN m.from ELSE VoteOn(m))
      /\ Exchange({m}, {VoteMsg(m.to, m.from, TermOn(m), Grants(m), FALSE)})
  BY DEF OnRequestVote
<1> DEFINE answer == VoteMsg(m.to, m.from, TermOn(m), Grants(m), FALSE)
<1>1. m \in BagToSet(net) /\ ~Asking(m)
  BY DEF Landed, Asking
<1>2. answer.term = TermOn(m) /\ answer.from = m.to
  BY DEF VoteMsg
<1> HIDE DEF answer
<1>3. Exchange({m}, {answer})
  BY DEF answer
<1>4. \A a \in {answer} : a.term = TermOn(m) /\ a.from = m.to
  BY <1>2
<1> QED
  BY <1>1, <1>3, <1>4, JoinTermStep

LEMMA OnPreVoteRequestTermStep ==
  ASSUME TypeOK, OnPreVoteRequest
  PROVE  \E n \in Node : TermStep(n)
<1>1. PICK m \in Landed("request vote") :
        \E answer : Told(m.to, answer) /\ Exchange({m}, {answer})
  <2>1. PICK m \in Landed("request vote"), granted \in BOOLEAN :
          /\ Exchange({m}, {VoteMsg(m.to, m.from, term[m.to], granted, TRUE)})
          /\ UNCHANGED <<term, preVotes>>
    BY DEF OnPreVoteRequest, ballotVars
  <2>2. Told(m.to, VoteMsg(m.to, m.from, term[m.to], granted, TRUE))
    BY <2>1 DEF VoteMsg, Told
  <2> QED
    BY <2>1, <2>2
<1>2. PICK answer : Told(m.to, answer) /\ Exchange({m}, {answer})
  BY <1>1
<1>3. UNCHANGED <<term, preVotes>>
  BY DEF OnPreVoteRequest, ballotVars
<1>4. m.to \in Node
  BY LandedType, MessageFields DEF TypeOK
<1>5. \A a \in {answer} : Told(m.to, a)
  BY <1>2
<1>6. TermStep(m.to)
  BY <1>2, <1>3, <1>4, <1>5, SteadyExchange
<1> QED
  BY <1>4, <1>6

LEMMA CountVoteTermStep ==
  ASSUME TypeOK, CountVote
  PROVE  \E n \in Node : TermStep(n)
<1> PICK m \in Landed("vote") :
      \/ BecomeLeader(m.to, {m})
      \/ Exchange({m}, {}) /\ UNCHANGED <<term, preVotes>>
  BY DEF CountVote
<1> DEFINE n == m.to
<1>1. n \in Node
  BY LandedType, MessageFields DEF TypeOK
<1>2. CASE BecomeLeader(n, {m})
  <2> DEFINE sent(p) == ReplicateTo(n, p, term[n],
                          Extend(log[n], <<[term |-> term[n], cmd |-> None]>>),
                          LastIndex(log[n]) + 1, commitIndex[n], machine[n])
             out == {sent(p) : p \in Peers(n)}
  <2>1. UNCHANGED <<term, preVotes>> /\ Exchange({m}, out)
    BY <1>2 DEF BecomeLeader
  <2>2. \A p : Told(n, sent(p))
    BY <1>1, <2>1, ReplicateToIsTold
  <2> HIDE DEF sent
  <2>3. \A a \in out : Told(n, a)
    BY <2>2
  <2> HIDE DEF out
  <2> QED
    BY <1>1, <2>1, <2>3, SteadyExchange
<1>3. CASE Exchange({m}, {}) /\ UNCHANGED <<term, preVotes>>
  BY <1>1, <1>3, SteadyExchange
<1> QED
  BY <1>2, <1>3

LEMMA OnPreVoteTermStep ==
  ASSUME TypeOK, OnPreVote
  PROVE  \E n \in Node : TermStep(n)
<1> PICK m \in Landed("vote") :
      /\ m.preVote /\ ~Stale(m)
      /\ IF CountsPreVote(m) /\ Majority(preVotes[m.to] \cup {m.from})
         THEN BecomeCandidate(m.to, {m})
         ELSE /\ preVotes' = IF CountsPreVote(m)
                             THEN [preVotes EXCEPT ![m.to] = @ \cup {m.from}]
                             ELSE preVotes
              /\ Exchange({m}, {}) /\ term' = term
  BY DEF OnPreVote
<1> DEFINE n == m.to
<1>1. /\ m \in BagToSet(net) /\ m \in Message /\ m.kind = "vote"
      /\ n \in Node /\ m.from \in Node /\ m.term \in Nat /\ term[n] \in Nat
  BY LandedType, MessageFields DEF TypeOK, Landed, BallotsOK
<1>2. Backs(m, n)
  BY <1>1 DEF Backs, Stale
<1>3. CASE CountsPreVote(m) /\ Majority(preVotes[n] \cup {m.from})
  <2>1. BecomeCandidate(n, {m}) /\ preVotes[n] # {}
    BY <1>3 DEF CountsPreVote
  <2> QED
    BY <1>1, <1>2, <1>3, <2>1, BecomeCandidateTermStep
<1>4. CASE ~(CountsPreVote(m) /\ Majority(preVotes[n] \cup {m.from}))
  <2>1. Exchange({m}, {}) /\ term' = term
    BY <1>4
  <2>2. BagToSet(net') \subseteq BagToSet(net)
    BY <2>1, ExchangeSubset DEF TypeOK
  <2>3. CASE ~CountsPreVote(m)
    <3>1. UNCHANGED <<term, preVotes>>
      BY <1>4, <2>1, <2>3
    <3> QED
      BY <1>1, <2>2, <3>1, SteadyStep
  <2>4. CASE CountsPreVote(m)
    <3>1. preVotes' = [preVotes EXCEPT ![n] = @ \cup {m.from}] /\ preVotes[n] # {}
      BY <1>4, <2>4 DEF CountsPreVote
    <3>2. /\ \A p \in Node \ {n} : preVotes'[p] = preVotes[p]
          /\ preVotes'[n] = preVotes[n] \cup {m.from}
      BY <1>1, <3>1 DEF TypeOK, BallotsOK
    <3>3. TermMoves(n)
      BY <1>1, <1>2, <2>1, <3>1, <3>2 DEF TermMoves
    <3> QED
      BY <1>1, <2>1, <2>2, <3>2, <3>3 DEF TermStep
  <2> QED
    BY <2>3, <2>4
<1> QED
  BY <1>3, <1>4

LEMMA IgnoreTermStep ==
  ASSUME TypeOK, IgnoreVote \/ IgnoreReply
  PROVE  \E n \in Node : TermStep(n)
<1>1. PICK m \in BagToSet(net) :
        /\ ~Asking(m) /\ ~Stale(m)
        /\ Join(m, RoleOn(m), VoteOn(m)) /\ Exchange({m}, {})
  BY DEF IgnoreVote, IgnoreReply, Landed, Asking
<1>2. \A a \in {} : a.term = TermOn(m) /\ a.from = m.to
  OBVIOUS
<1> QED
  BY <1>1, <1>2, JoinTermStep

\* The answer to an append or a snapshot is of the term the receiver has come to.
LEMMA OnAppendTermStep ==
  ASSUME TypeOK, AcceptAppend \/ RejectAppend \/ OnInstall
  PROVE  \E n \in Node : TermStep(n)
<1> DEFINE Replies(m, a) == a.from = m.to /\ a.term = m.term
<1>1. PICK m \in BagToSet(net) :
        /\ m.kind \in {"append", "install snapshot"} /\ ~Stale(m)
        /\ \E r, v : Join(m, r, v)
        /\ \E a : Replies(m, a) /\ Exchange({m}, {a})
  <2>1. CASE AcceptAppend
    <3>1. PICK m \in Landed("append") :
            /\ ~Stale(m) /\ Join(m, FOLLOWER, VoteOn(m))
            /\ Exchange({m}, {AppendedMsg(m.to, m.from, m.term,
                                          m.prevIndex + Len(m.entries))})
      BY <2>1 DEF AcceptAppend
    <3>2. Replies(m, AppendedMsg(m.to, m.from, m.term, m.prevIndex + Len(m.entries)))
      BY DEF AppendedMsg
    <3> HIDE DEF Replies
    <3> QED
      BY <3>1, <3>2 DEF Landed
  <2>2. CASE RejectAppend
    <3>1. PICK m \in Landed("append") :
            /\ ~Stale(m) /\ Join(m, FOLLOWER, VoteOn(m))
            /\ Exchange({m}, {RefusedMsg(m.to, m.from, m.term,
                                         Conflict(log[m.to], m.prevIndex))})
      BY <2>2 DEF RejectAppend
    <3>2. Replies(m, RefusedMsg(m.to, m.from, m.term, Conflict(log[m.to], m.prevIndex)))
      BY DEF RefusedMsg
    <3> HIDE DEF Replies
    <3> QED
      BY <3>1, <3>2 DEF Landed
  <2>3. CASE OnInstall
    <3>1. PICK m \in Landed("install snapshot") :
            /\ ~Stale(m) /\ Join(m, RoleOn(m), VoteOn(m))
            /\ \E last : Exchange({m}, {InstalledMsg(m.to, m.from, m.term, last)})
      BY <2>3 DEF OnInstall
    <3>2. \A last : Replies(m, InstalledMsg(m.to, m.from, m.term, last))
      BY DEF InstalledMsg
    <3> HIDE DEF Replies
    <3> QED
      BY <3>1, <3>2 DEF Landed
  <2> QED
    BY <2>1, <2>2, <2>3
<1>2. PICK r, v : Join(m, r, v)
  BY <1>1
<1>3. PICK a : Replies(m, a) /\ Exchange({m}, {a})
  BY <1>1
<1>4. ~Asking(m)
  BY <1>1 DEF Asking
<1>5. TermOn(m) = m.term
  <2>1. m.term \in Nat /\ term[m.to] \in Nat
    BY MessageFields DEF TypeOK, NetOK, BallotsOK
  <2>2. m.term >= term[m.to]
    <3>1. ~Stale(m)
      BY <1>1
    <3> QED
      BY <2>1, <3>1 DEF Stale
  <2>3. Ahead(m) <=> m.term > term[m.to]
    BY <1>4 DEF Ahead
  <2> QED
    BY <2>1, <2>2, <2>3 DEF TermOn
<1>6. \A b \in {a} : b.term = TermOn(m) /\ b.from = m.to
  BY <1>3, <1>5
<1> QED
  BY <1>1, <1>2, <1>3, <1>4, <1>6, JoinTermStep

LEMMA AcknowledgeTermStep ==
  ASSUME TypeOK, NEW m \in Message, NEW upto, NEW anyway \in BOOLEAN,
         Acknowledge(m, upto, anyway)
  PROVE  \E n \in Node : TermStep(n)
<1> DEFINE next == Acknowledged(m, upto)[m.from] + 1
           sent == ReplicateTo(m.to, m.from, term[m.to], log[m.to], next,
                               commitIndex'[m.to], machine'[m.to])
<1>1. PICK out : /\ out = {sent} \/ out = {}
                 /\ Exchange({m}, out)
                 /\ UNCHANGED <<term, preVotes>>
  BY DEF Acknowledge, ballotVars
<1>2. m.to \in Node
  BY MessageFields
<1>3. Told(m.to, sent)
  BY <1>1, <1>2, ReplicateToIsTold
<1> HIDE DEF sent
<1>4. \A a \in out : Told(m.to, a)
  BY <1>1, <1>3
<1> QED
  BY <1>1, <1>2, <1>4, SteadyExchange

LEMMA AppendRefusedTermStep ==
  ASSUME TypeOK, AppendRefused
  PROVE  \E n \in Node : TermStep(n)
<1> DEFINE sent(m) == ReplicateTo(m.to, m.from, term[m.to], log[m.to],
                                  SkipTerm(log[m.to], m.conflictTerm, m.conflictIndex),
                                  commitIndex[m.to], machine[m.to])
<1>1. PICK m \in ForLeader("appended") :
        Exchange({m}, {sent(m)}) /\ UNCHANGED <<term, preVotes>>
  BY DEF AppendRefused, ballotVars
<1>2. m.to \in Node
  BY LandedType, MessageFields DEF TypeOK, ForLeader
<1>3. Told(m.to, sent(m))
  BY <1>1, <1>2, ReplicateToIsTold
<1> HIDE DEF sent
<1>4. \A a \in {sent(m)} : Told(m.to, a)
  BY <1>3
<1> QED
  BY <1>1, <1>2, <1>4, SteadyExchange

LEMMA RestartTermStep ==
  ASSUME TypeOK, NEW n \in Node, Restart(n)
  PROVE  TermStep(n)
<1>1. UNCHANGED <<term, net>> /\ preVotes' = [preVotes EXCEPT ![n] = {}]
  BY DEF Restart
<1>2. /\ \A p \in Node \ {n} : preVotes'[p] = preVotes[p]
      /\ preVotes'[n] = {}
  BY <1>1 DEF TypeOK, BallotsOK
<1> QED
  BY <1>1, <1>2 DEF TermStep, TermMoves

LEMMA DriveTermStep ==
  ASSUME TypeOK, NEW n \in Node, Drive(n)
  PROVE  TermStep(n)
<1>1. CASE Stand(n)
  BY <1>1, StandTermStep
<1> DEFINE sent(l, p) == ReplicateTo(n, p, term[n], l, nextIndex[n][p], commitIndex[n],
                                     machine[n])
           out(l)     == {sent(l, p) : p \in Peers(n)}
<1>2. ASSUME NEW l, Exchange({}, out(l)), UNCHANGED <<term, preVotes>>
      PROVE  TermStep(n)
  <2>1. \A p : Told(n, sent(l, p))
    BY <1>2, ReplicateToIsTold
  <2> HIDE DEF sent
  <2>2. \A a \in out(l) : Told(n, a)
    BY <2>1
  <2> HIDE DEF out
  <2> QED
    BY <1>2, <2>2, SteadyExchange
<1>3. CASE Heartbeat(n)
  BY <1>2, <1>3 DEF Heartbeat, ballotVars
<1>4. ASSUME NEW cmd \in Command, Propose(n, cmd)
      PROVE  TermStep(n)
  BY <1>2, <1>4 DEF Propose, ballotVars
<1>5. CASE CompactLog(n) \/ Crash(n)
  <2>1. UNCHANGED <<term, preVotes, net>>
    BY <1>5 DEF CompactLog, Crash, ballotVars
  <2> QED
    BY <2>1, SteadyStep
<1>6. CASE Restart(n)
  BY <1>6, RestartTermStep
<1> QED
  BY <1>1, <1>3, <1>4, <1>5, <1>6 DEF Drive

\* Every step of the cluster is one node's step, as far as terms go.
LEMMA NextTermStep ==
  ASSUME TypeOK, Next
  PROVE  \E n \in Node : TermStep(n)
<1>1. CASE RefuseStale \/ OnRequestVote \/ OnPreVoteRequest
  BY <1>1, RefuseStaleTermStep, OnRequestVoteTermStep, OnPreVoteRequestTermStep
<1>2. CASE CountVote \/ IgnoreVote \/ OnPreVote
  BY <1>2, CountVoteTermStep, IgnoreTermStep, OnPreVoteTermStep
<1>3. CASE AcceptAppend \/ RejectAppend \/ IgnoreReply \/ OnInstall
  BY <1>3, OnAppendTermStep, IgnoreTermStep
<1>4. CASE AppendRefused
  BY <1>4, AppendRefusedTermStep
<1>5. CASE AppendSucceeded
  <2>1. PICK m \in ForLeader("appended") : Acknowledge(m, m.match, FALSE)
    BY <1>5 DEF AppendSucceeded
  <2>2. m \in Message
    BY LandedType DEF TypeOK, ForLeader
  <2> QED
    BY <2>1, <2>2, AcknowledgeTermStep
<1>6. CASE OnInstalled
  <2>1. PICK m \in ForLeader("installed") : Acknowledge(m, m.lastIndex, TRUE)
    BY <1>6 DEF OnInstalled
  <2>2. m \in Message
    BY LandedType DEF TypeOK, ForLeader
  <2> QED
    BY <2>1, <2>2, AcknowledgeTermStep
<1>7. CASE DropAtDown
  <2>1. PICK m \in BagToSet(net) : Exchange({m}, {}) /\ UNCHANGED <<term, preVotes>>
    BY <1>7 DEF DropAtDown, ballotVars
  <2>2. m.to \in Node
    BY <2>1, MessageFields DEF TypeOK, NetOK
  <2> QED
    BY <2>1, <2>2, SteadyExchange
<1>8. CASE ConflictRaises \/ AcknowledgeRaises
  <2>1. PICK m \in BagToSet(net) : UNCHANGED <<term, preVotes, net>>
    BY <1>8 DEF ConflictRaises, AcknowledgeRaises, Raise, ForLeader, Landed, ballotVars
  <2>2. m.to \in Node
    BY <2>1, MessageFields DEF TypeOK, NetOK
  <2> QED
    BY <2>1, <2>2, SteadyStep
<1>9. ASSUME NEW n \in Node, Drive(n) PROVE TermStep(n)
  BY <1>9, DriveTermStep
<1> QED
  BY <1>1, <1>2, <1>3, <1>4, <1>5, <1>6, <1>7, <1>8, <1>9 DEF Next, Deliver

-----------------------------------------------------------------------------
(* Terms stay together.                                                    *)

\* A majority has come to the term before t.
Near(t) == Majority({p \in Node : term[p] + 1 >= t})

\* Every term that a node may take is near, and what a node has counted or has on its
\* way comes from nodes that are as far as it is.
TermsAreNear ==
  /\ \A n \in Node : /\ Near(term[n])
                     /\ \A p \in preVotes[n] : term[p] >= term[n]
  /\ \A m \in BagToSet(net) :
       /\ ~Asking(m) => Near(m.term)
       /\ (m.kind = "vote" /\ m.preVote) => term[m.from] >= m.term

\* Where terms only rise, what is near stays so.
LEMMA NearStays ==
  ASSUME TypeOK, TypeOK', \A p \in Node : term'[p] >= term[p], NEW t \in Nat, Near(t)
  PROVE  Near(t)'
<1> DEFINE S == {p \in Node : term[p] + 1 >= t}
           T == {p \in Node : term'[p] + 1 >= t}
<1>1. \A p \in Node : term[p] \in Nat /\ term'[p] \in Nat
  BY DEF TypeOK, BallotsOK
<1>2. S \subseteq T
  BY <1>1
<1>3. Majority(S)
  BY DEF Near
<1>4. Majority(T)
  BY <1>2, <1>3, MajorityGrows
<1> QED
  BY <1>4 DEF Near

LEMMA TermStepKeepsNear ==
  ASSUME TypeOK, TypeOK', PreVote, TermsAreNear, NEW n \in Node, TermStep(n)
  PROVE  TermsAreNear'
<1>1. /\ \A p \in Node : /\ term[p] \in Nat /\ term'[p] \in Nat
                         /\ preVotes[p] \subseteq Node
      /\ \A m \in BagToSet(net) : m \in Message
      /\ \A m \in BagToSet(net') : m \in Message
  BY DEF TypeOK, BallotsOK, NetOK
<1>2. \A p \in Node : term'[p] >= term[p]
  <2>1. term'[n] >= term[n]
    BY <1>1 DEF TermStep, TermMoves
  <2>2. \A p \in Node \ {n} : term'[p] = term[p]
    BY DEF TermStep
  <2> QED
    BY <1>1, <2>1, <2>2
<1>3. ASSUME NEW t \in Nat, Near(t)
      PROVE  Near(t)'
    BY <1>2, <1>3, NearStays
<1>4. ASSUME NEW t, t = term'[n]
      PROVE  Near(t)'
  <2>1. t \in Nat
    BY <1>1, <1>4
  <2>2. CASE t = term[n]
    BY <1>3, <2>1, <2>2 DEF TermsAreNear
  <2>3. CASE \E m \in BagToSet(net) : ~Asking(m) /\ t = m.term
    BY <1>3, <2>1, <2>3 DEF TermsAreNear
  <2>4. CASE /\ t = term[n] + 1 /\ preVotes[n] # {}
             /\ \E m \in BagToSet(net) : Backs(m, n) /\ Majority(preVotes[n] \cup {m.from})
    <3>1. PICK m \in BagToSet(net) : Backs(m, n) /\ Majority(preVotes[n] \cup {m.from})
      BY <2>4
    <3> DEFINE S == preVotes[n] \cup {m.from}
               T == {p \in Node : term[p] + 1 >= t}
    <3>2. m.from \in Node /\ m.term \in Nat /\ m.term >= term[n] /\ term[m.from] >= m.term
      BY <1>1, <3>1, MessageFields DEF Backs, TermsAreNear
    <3>3. \A p \in S : p \in Node /\ term[p] >= term[n]
      BY <1>1, <3>2 DEF TermsAreNear
    <3>4. S \subseteq T /\ S \in SUBSET Node
      BY <1>1, <2>4, <3>3
    <3>5. Majority(T)
      BY <3>1, <3>4, MajorityGrows
    <3>6. Near(t)
      BY <3>5 DEF Near
    <3> QED
      BY <1>3, <2>1, <3>6
  <2> QED
    BY <1>4, <2>2, <2>3, <2>4 DEF TermStep, TermMoves
<1>5. ASSUME NEW q \in Node
      PROVE  /\ Near(term[q])'
             /\ \A p \in preVotes'[q] : term'[p] >= term'[q]
  <2>1. CASE q # n
    <3>1. term'[q] = term[q] /\ preVotes'[q] = preVotes[q]
      BY <2>1 DEF TermStep
    <3>2. ASSUME NEW t, t = term'[q]
          PROVE  Near(t)'
      BY <1>1, <1>3, <3>1, <3>2 DEF TermsAreNear
    <3>3. \A p \in preVotes[q] : p \in Node /\ term[p] >= term[q]
      BY <1>1 DEF TermsAreNear
    <3>4. Near(term[q])'
      BY <3>2 DEF Near
    <3>5. \A p \in preVotes'[q] : term'[p] >= term'[q]
      BY <1>1, <1>2, <3>1, <3>3
    <3> QED
      BY <3>4, <3>5
  <2>2. CASE q = n
    <3>1. Near(term[n])'
      BY <1>4 DEF Near
    <3>2. \A p \in preVotes[n] : p \in Node /\ term[p] >= term[n]
      BY <1>1 DEF TermsAreNear
    <3>3. ASSUME NEW p \in preVotes'[n]
          PROVE  term'[p] >= term'[n]
      <4>1. CASE p = n
        BY <1>1, <4>1
      <4>2. CASE term'[n] = term[n] /\ p \in preVotes[n]
        BY <1>1, <1>2, <3>2, <4>2
      <4>3. CASE term'[n] = term[n] /\ \E m \in BagToSet(net) : Backs(m, n) /\ p = m.from
        <5>1. PICK m \in BagToSet(net) : Backs(m, n) /\ p = m.from
          BY <4>3
        <5>2. p \in Node /\ m.term \in Nat /\ m.term >= term[n] /\ term[p] >= m.term
          BY <1>1, <5>1, MessageFields DEF Backs, TermsAreNear
        <5> QED
          BY <1>1, <1>2, <4>3, <5>2
      <4> QED
        BY <3>3, <4>1, <4>2, <4>3 DEF TermStep, TermMoves
    <3> QED
      BY <2>2, <3>1, <3>3
  <2> QED
    BY <2>1, <2>2
<1>6. ASSUME NEW m \in BagToSet(net')
      PROVE  /\ ~Asking(m) => Near(m.term)'
             /\ (m.kind = "vote" /\ m.preVote) => term'[m.from] >= m.term
  <2>1. m.term \in Nat /\ m.from \in Node
    BY <1>1, MessageFields
  <2>2. CASE m \in BagToSet(net)
    <3>1. ~Asking(m) => Near(m.term)'
      BY <1>3, <2>1, <2>2 DEF TermsAreNear
    <3>2. (m.kind = "vote" /\ m.preVote) => term[m.from] >= m.term
      BY <2>2 DEF TermsAreNear
    <3>3. term[m.from] >= m.term => term'[m.from] >= m.term
      BY <1>1, <1>2, <2>1
    <3> QED
      BY <3>1, <3>2, <3>3
  <2>3. CASE m \notin BagToSet(net)
    <3>1. Told(n, m)
      BY <2>3 DEF TermStep
    <3>2. CASE m.kind = "request vote" /\ m.preVote
      BY <3>2 DEF Asking
    <3>3. CASE m.term = term'[n] /\ (m.kind = "vote" => m.from = n)
      <4>1. Near(m.term)'
        BY <1>4, <3>3
      <4>2. m.kind = "vote" => term'[m.from] = m.term
        BY <3>3
      <4> QED
        BY <2>1, <4>1, <4>2
    <3> QED
      BY <3>1, <3>2, <3>3 DEF Told
  <2> QED
    BY <2>2, <2>3
<1>7. (\A q \in Node : Near(term[q]) /\ \A p \in preVotes[q] : term[p] >= term[q])'
  BY <1>5
<1> QED
  BY <1>6, <1>7 DEF TermsAreNear, Asking

\* The node itself is in every majority that is near its first term.
LEMMA EveryoneIsMajority == Majority(Node)
<1>1. Cardinality(Node) \in Nat /\ Cardinality(Node) > 1
  BY FS_CardinalityType
<1> QED
  BY <1>1 DEF Majority

\* With pre votes no node runs ahead of the cluster: nobody stands without answers of
\* a majority that is as far as it is, so a node that is cut off, and times out as
\* often as it may, returns with a term at most one above a majority's.
THEOREM TermsKeepTogether ==
  ASSUME PreVote
  PROVE  Spec => []TermsStayTogether
<1>1. Init => TermsAreNear
  <2> SUFFICES ASSUME Init PROVE TermsAreNear
    OBVIOUS
  <2>1. \A n \in Node : term[n] = 1 /\ preVotes[n] = {}
    BY DEF Init
  <2>2. BagToSet(net) = {}
    BY DEF Init, EmptyBag, SetToBag, BagToSet
  <2>3. Near(1)
    <3>1. {p \in Node : term[p] + 1 >= 1} = Node
      BY <2>1
    <3> QED
      BY <3>1, EveryoneIsMajority DEF Near
  <2> QED
    BY <2>1, <2>2, <2>3 DEF TermsAreNear
<1>2. ASSUME TypeOK, TypeOK', TermsAreNear, [Next]_vars
      PROVE  TermsAreNear'
  <2>1. CASE Next
    BY <1>2, <2>1, NextTermStep, TermStepKeepsNear
  <2>2. CASE UNCHANGED vars
    BY <1>2, <2>2 DEF vars, ballotVars, TermsAreNear, Near
  <2> QED
    BY <1>2, <2>1, <2>2
<1>3. TermsAreNear => TermsStayTogether
  BY DEF TermsAreNear, Near, TermsStayTogether
<1> QED
  BY <1>1, <1>2, <1>3, TypeCorrect, PTL DEF Spec

-----------------------------------------------------------------------------
(* Terms have a bound.                                                     *)

\* Nobody comes to a term that nobody may stand for.
TermsAreBounded ==
  /\ \A n \in Node : term[n] <= MaxTerm /\ (preVotes[n] # {} => term[n] < MaxTerm)
  /\ \A m \in BagToSet(net) : ~Asking(m) => m.term <= MaxTerm

LEMMA TermStepKeepsBound ==
  ASSUME TypeOK, TypeOK', TermsAreBounded, NEW n \in Node, TermStep(n)
  PROVE  TermsAreBounded'
<1>1. /\ \A p \in Node : term[p] \in Nat /\ term'[p] \in Nat
      /\ \A m \in BagToSet(net) : m.term \in Nat
      /\ MaxTerm \in Nat
  BY MessageFields DEF TypeOK, BallotsOK, NetOK
<1>2. term'[n] <= MaxTerm /\ (preVotes'[n] # {} => term'[n] < MaxTerm)
  BY <1>1 DEF TermStep, TermMoves, TermsAreBounded
<1>3. ASSUME NEW q \in Node
      PROVE  term'[q] <= MaxTerm /\ (preVotes'[q] # {} => term'[q] < MaxTerm)
  BY <1>2, <1>3 DEF TermStep, TermsAreBounded
<1>4. ASSUME NEW m \in BagToSet(net'), ~Asking(m)
      PROVE  m.term <= MaxTerm
  BY <1>2, <1>4 DEF TermStep, TermsAreBounded, Told, Asking
<1> QED
  BY <1>3, <1>4 DEF TermsAreBounded, Asking

LEMMA TermsHaveBound ==
  ASSUME MaxTerm >= 1
  PROVE  Spec => []TermsAreBounded
<1>1. Init => TermsAreBounded
  BY DEF Init, EmptyBag, SetToBag, BagToSet, TermsAreBounded
<1>2. ASSUME TypeOK, TypeOK', TermsAreBounded, [Next]_vars
      PROVE  TermsAreBounded'
  <2>1. CASE Next
    BY <1>2, <2>1, NextTermStep, TermStepKeepsBound
  <2>2. CASE UNCHANGED vars
    BY <1>2, <2>2 DEF vars, ballotVars, TermsAreBounded, Asking
  <2> QED
    BY <1>2, <2>1, <2>2
<1> QED
  BY <1>1, <1>2, TypeCorrect, PTL DEF Spec
=============================================================================

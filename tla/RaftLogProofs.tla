---------------------------- MODULE RaftLogProofs ----------------------------
(***************************************************************************)
(* The logs of the cluster agree, for clusters of any size.                *)
(*                                                                         *)
(* Every action is first reduced to what it can do to the log of one node, *)
(* a Step: the log stays, a leader writes an entry, or a follower accepts  *)
(* an append.  The parts of LogsAgree are then shown to survive a Step,    *)
(* one lemma each, and what the runs check follows from it: log matching,  *)
(* true beliefs of leaders, complete leaders.  The second half does the    *)
(* same for what is committed and applied, up to the implementation of     *)
(* CommitLog.  The last section bounds the logs by the constants.          *)
(***************************************************************************)
EXTENDS RaftRecord, RaftElectionProofs

USE ConstantsAssumption

-----------------------------------------------------------------------------
(* What a step of one node may do, as far as the logs go.                  *)

\* Nobody else moves.
Alone(n) ==
  \A p \in Node \ {n} :
    /\ term'[p] = term[p] /\ votedFor'[p] = votedFor[p] /\ role'[p] = role[p]
    /\ log'[p] = log[p]
    /\ commitIndex'[p] = commitIndex[p] /\ lastApplied'[p] = lastApplied[p]
    /\ applied'[p] = applied[p] /\ machine'[p] = machine[p]
    /\ nextIndex'[p] = nextIndex[p] /\ matchIndex'[p] = matchIndex[p]

\* The log stays as it is, and nobody comes to lead.
Stays(n) ==
  /\ log'[n] = log[n]
  /\ term'[n] >= term[n]
  /\ role'[n] = LEADER => role[n] = LEADER /\ term'[n] = term[n]
  /\ role'[n] = CANDIDATE =>
       \/ role[n] = CANDIDATE /\ term'[n] = term[n]
       \/ term'[n] = term[n] + 1

\* A leader that may, or a candidate that becomes one, writes an entry of its term.
Writes(n) ==
  /\ term'[n] = term[n]
  /\ role[n] \in {CANDIDATE, LEADER} /\ role'[n] = LEADER
  /\ role[n] = LEADER => LastIndex(log[n]) < MaxLog
  /\ \E e \in Entry : e.term = term[n] /\ log'[n] = Extend(log[n], <<e>>)

Accepts(n, a) ==
  /\ a.kind = "append" /\ a.to = n
  /\ a.term >= term[n] /\ term'[n] = a.term /\ role'[n] = FOLLOWER
  /\ Matches(log[n], a.prevIndex, a.prevTerm)
  /\ log'[n] = Merge(log[n], a.prevIndex, a.entries)

Compacts(n) ==
  /\ Compaction
  /\ Holds(log[n], lastApplied[n])
  /\ log'[n] = Compact(log[n], lastApplied[n])
  /\ term'[n] = term[n] /\ role'[n] = role[n]

Installs(n, a) ==
  /\ a.kind = "install snapshot" /\ a.to = n
  /\ a.term >= term[n] /\ term'[n] = a.term
  /\ role'[n] # FOLLOWER => role'[n] = role[n] /\ term'[n] = term[n]

\* A vote is forgotten, or kept, or given: to the node itself, or to who asks for it
\* with a log that is up to date.
VoteMoves(n) ==
  \/ votedFor'[n] = None
  \/ votedFor'[n] = votedFor[n] /\ term'[n] = term[n]
  \/ votedFor'[n] = n /\ role'[n] = CANDIDATE /\ term'[n] > term[n] /\ log'[n] = log[n]
  \/ /\ log'[n] = log[n]
     /\ \E q \in BagToSet(net) :
          /\ q.kind = "request vote" /\ ~q.preVote
          /\ q.to = n /\ q.from = votedFor'[n] /\ q.term = term'[n]
          /\ IsUpToDate(log[n], q.lastIndex, q.lastTerm)

\* What a leader sends is what it has, and an answer tells what has just been done.
Sent(n, m) ==
  /\ m.from # m.to
  /\ m.kind \in {"append", "install snapshot"} =>
       /\ role'[n] = LEADER
       /\ \E p \in Peers(n) :
            m = ReplicateTo(n, p, term'[n], log'[n], nextIndex'[n][p],
                            commitIndex'[n], machine'[n])
  /\ (m.kind = "request vote" /\ ~m.preVote) =>
       \E p \in Peers(n) : m = RequestVoteMsg(n, p, term'[n], log'[n], FALSE)
  /\ (m.kind = "appended" /\ m.success) =>
       \E a \in BagToSet(net) :
         /\ Accepts(n, a)
         /\ m = AppendedMsg(n, a.from, a.term, a.prevIndex + Len(a.entries))
  /\ m.kind = "installed" => \E a \in BagToSet(net) : a.kind = "install snapshot"

Sends(n) == \A m \in BagToSet(net') : m \in BagToSet(net) \/ Sent(n, m)

\* A leader's next_index and match_index for p.
Counts(n, p) ==
  /\ \/ nextIndex'[n][p] >= 1
     \/ role[n] = LEADER /\ nextIndex'[n][p] = nextIndex[n][p]
  /\ \/ matchIndex'[n][p] = 0
     \/ role[n] = LEADER /\ term'[n] = term[n] /\ matchIndex'[n][p] = matchIndex[n][p]
     \/ p = n /\ matchIndex'[n][p] = LastIndex(log'[n])
     \/ \E m \in BagToSet(net) :
          /\ m.kind = "appended" /\ m.success
          /\ m.from = p /\ m.term = term'[n] /\ matchIndex'[n][p] = m.match
     \/ \E m \in BagToSet(net) : m.kind = "installed"

\* The leader commits up to c.
Commits(n, c) ==
  /\ role[n] = LEADER /\ role'[n] = LEADER /\ term'[n] = term[n] /\ log'[n] = log[n]
  /\ c \in Committable(n, matchIndex'[n])
  /\ CommitTo(n, log[n], c)
  /\ LET new == Slice(log[n], Max({Len(ledger) + 1, FirstIndex(log[n])}), c)
     IN  ledger' = ledger \o
           [i \in DOMAIN new |->
              [term |-> new[i].term, cmd |-> new[i].cmd, at |-> term[n]]]

\* What has been committed and applied stays, moves on, or is given up in a restart.
MachineMoves(n) ==
  \/ UNCHANGED <<machineVars, ledger>>
  \/ \E c \in Nat : Commits(n, c)
  \/ /\ \E a \in BagToSet(net) :
          /\ Accepts(n, a) /\ a.commit > commitIndex[n]
          /\ CommitTo(n, log'[n], Min({a.commit, LastIndex(log'[n])}))
     /\ UNCHANGED ledger
  \/ (\E a \in BagToSet(net) : a.kind = "install snapshot") /\ UNCHANGED ledger
  \/ /\ n \in down
     /\ commitIndex'[n] = 0 /\ lastApplied'[n] = 0
     /\ applied'[n] = << >> /\ machine'[n] = None
     /\ UNCHANGED ledger

LogMoves(n) ==
  \/ Stays(n) \/ Writes(n) \/ Compacts(n)
  \/ \E a \in BagToSet(net) : Accepts(n, a) \/ Installs(n, a)

LogStep(n) ==
  /\ Alone(n) /\ LogMoves(n) /\ VoteMoves(n) /\ Sends(n) /\ MachineMoves(n)
  /\ role'[n] = LEADER => \A p \in Node : Counts(n, p)

-----------------------------------------------------------------------------
(* Every action is a LogStep.                                              *)

\* A vote, a refusal and a question before the vote say nothing about a log.
Hollow(m) ==
  /\ m.from # m.to
  /\ \/ m.kind = "vote"
     \/ m.kind = "request vote" /\ m.preVote
     \/ m.kind = "appended" /\ ~m.success

LEMMA HollowIsSent ==
  ASSUME NEW n, NEW m, Hollow(m)
  PROVE  Sent(n, m)
BY DEF Hollow, Sent

LEMMA HollowSends ==
  ASSUME TypeOK, NEW n, NEW gone, NEW out, Exchange(gone, out), \A m \in out : Hollow(m)
  PROVE  Sends(n)
BY ExchangeSubset, HollowIsSent DEF Sends, TypeOK

\* A step that leaves the logs, the machines and the leaders' views alone.
LEMMA StillStep ==
  ASSUME TypeOK, NEW n \in Node, UNCHANGED <<log, machineVars, leaderVars, ledger>>,
         \A p \in Node \ {n} :
           term'[p] = term[p] /\ votedFor'[p] = votedFor[p] /\ role'[p] = role[p],
         Stays(n), VoteMoves(n), Sends(n)
  PROVE  LogStep(n)
<1>1. Alone(n)
  BY DEF Alone, machineVars, leaderVars
<1>2. MachineMoves(n)
  BY DEF MachineMoves
<1>3. role'[n] = LEADER => \A p \in Node : Counts(n, p)
  BY DEF Counts, Stays, leaderVars
<1> QED
  BY <1>1, <1>2, <1>3 DEF LogStep, LogMoves

\* ... and the ballots too.
LEMMA IdleStep ==
  ASSUME TypeOK, NEW n \in Node, UNCHANGED <<log, machineVars, leaderVars, ledger>>,
         UNCHANGED <<term, votedFor, role>>, Sends(n)
  PROVE  LogStep(n)
<1>1. Stays(n)
  BY DEF Stays, TypeOK, BallotsOK
<1>2. VoteMoves(n)
  BY DEF VoteMoves
<1> QED
  BY <1>1, <1>2, StillStep

LEMMA IdleExchange ==
  ASSUME TypeOK, NEW n \in Node, UNCHANGED <<log, machineVars, leaderVars, ledger>>,
         UNCHANGED <<term, votedFor, role>>,
         NEW gone, NEW out, Exchange(gone, out), \A m \in out : Hollow(m)
  PROVE  LogStep(n)
BY HollowSends, IdleStep

\* What the term rule does to the receiver.
LEMMA Joined ==
  ASSUME TypeOK, NEW m \in Message, ~Stale(m), NEW r \in {FOLLOWER, RoleOn(m)}, NEW v,
         Join(m, r, v)
  PROVE  /\ m.to \in Node /\ m.term \in Nat
         /\ \A p \in Node \ {m.to} :
              term'[p] = term[p] /\ votedFor'[p] = votedFor[p] /\ role'[p] = role[p]
         /\ term'[m.to] = TermOn(m) /\ term'[m.to] >= term[m.to]
         /\ ~Asking(m) => term'[m.to] = m.term
         /\ role'[m.to] = r /\ votedFor'[m.to] = v
         /\ role'[m.to] # FOLLOWER => role'[m.to] = role[m.to] /\ term'[m.to] = term[m.to]
<1>1. m.to \in Node /\ m.term \in Nat /\ term[m.to] \in Nat
  BY MessageFields DEF TypeOK, BallotsOK
<1>2. /\ term' = [term EXCEPT ![m.to] = TermOn(m)]
      /\ votedFor' = [votedFor EXCEPT ![m.to] = v]
      /\ role' = [role EXCEPT ![m.to] = r]
  BY DEF Join
<1>3. \A p \in Node \ {m.to} :
        term'[p] = term[p] /\ votedFor'[p] = votedFor[p] /\ role'[p] = role[p]
  BY <1>1, <1>2 DEF TypeOK, BallotsOK
<1>4. term'[m.to] = TermOn(m) /\ role'[m.to] = r /\ votedFor'[m.to] = v
  BY <1>1, <1>2 DEF TypeOK, BallotsOK
<1>5. term'[m.to] >= term[m.to] /\ (~Asking(m) => term'[m.to] = m.term)
  BY <1>1, <1>4 DEF TermOn, Ahead, Stale
<1>6. r # FOLLOWER => r = role[m.to] /\ TermOn(m) = term[m.to]
  BY DEF RoleOn, TermOn
<1> QED
  BY <1>1, <1>3, <1>4, <1>5, <1>6

\* A receiver that looks at the term and has nothing to say of its log.
LEMMA JoinStill ==
  ASSUME TypeOK, NEW m \in Message, ~Stale(m), NEW r \in {FOLLOWER, RoleOn(m)},
         Join(m, r, VoteOn(m)), UNCHANGED <<log, machineVars, leaderVars, ledger>>,
         Sends(m.to)
  PROVE  LogStep(m.to)
<1>1. Stays(m.to)
  BY Joined DEF Stays, FOLLOWER, LEADER, CANDIDATE
<1>2. VoteMoves(m.to)
  <2>1. votedFor'[m.to] = VoteOn(m) /\ term'[m.to] = TermOn(m)
    BY Joined
  <2> QED
    BY <2>1 DEF VoteMoves, VoteOn, TermOn
<1> QED
  BY <1>1, <1>2, Joined, StillStep

LEMMA BecomeCandidateLogStep ==
  ASSUME TypeOK, NEW n \in Node, NEW gone, BecomeCandidate(n, gone)
  PROVE  LogStep(n)
<1> DEFINE out == {RequestVoteMsg(n, p, term[n] + 1, log[n], FALSE) : p \in Peers(n)}
<1>1. /\ term' = [term EXCEPT ![n] = @ + 1]
      /\ votedFor' = [votedFor EXCEPT ![n] = n]
      /\ role' = [role EXCEPT ![n] = CANDIDATE]
      /\ Exchange(gone, out)
      /\ UNCHANGED <<log, machineVars, leaderVars, ledger>>
  BY DEF BecomeCandidate
<1>2. /\ \A p \in Node \ {n} :
           term'[p] = term[p] /\ votedFor'[p] = votedFor[p] /\ role'[p] = role[p]
      /\ term'[n] = term[n] + 1 /\ votedFor'[n] = n /\ role'[n] = CANDIDATE
      /\ term[n] \in Nat
  BY <1>1 DEF TypeOK, BallotsOK
<1>3. Stays(n) /\ VoteMoves(n)
  <2>1. log'[n] = log[n]
    BY <1>1
  <2>2. Stays(n)
    BY <1>2, <2>1 DEF Stays, CANDIDATE, LEADER
  <2>3. VoteMoves(n)
    <3>1. term'[n] > term[n]
      BY <1>2
    <3> QED
      BY <1>2, <2>1, <3>1 DEF VoteMoves
  <2> QED
    BY <2>2, <2>3
<1>4. \A m \in out : Sent(n, m)
  <2>1. ASSUME NEW p \in Peers(n)
        PROVE  Sent(n, RequestVoteMsg(n, p, term[n] + 1, log[n], FALSE))
    <3>1. /\ RequestVoteMsg(n, p, term[n] + 1, log[n], FALSE).kind = "request vote"
          /\ RequestVoteMsg(n, p, term[n] + 1, log[n], FALSE).from = n
          /\ RequestVoteMsg(n, p, term[n] + 1, log[n], FALSE).to = p
      BY DEF RequestVoteMsg
    <3> QED
      BY <1>1, <1>2, <3>1 DEF Sent, Peers
  <2> QED
    BY <2>1
<1>5. Sends(n)
  <2> HIDE DEF out
  <2> QED
    BY <1>1, <1>4, ExchangeSubset DEF Sends, TypeOK
<1> QED
  BY <1>1, <1>2, <1>3, <1>5, StillStep

LEMMA StandLogStep ==
  ASSUME TypeOK, NEW n \in Node, Stand(n)
  PROVE  LogStep(n)
<1>1. CASE BecomeCandidate(n, {})
  BY <1>1, BecomeCandidateLogStep
<1>2. CASE BecomePreCandidate(n)
  <2> DEFINE out == {RequestVoteMsg(n, p, term[n] + 1, log[n], TRUE) : p \in Peers(n)}
  <2>1. \A m \in out : Hollow(m)
    <3>1. \A p \in Peers(n) : Hollow(RequestVoteMsg(n, p, term[n] + 1, log[n], TRUE))
      BY DEF RequestVoteMsg, Hollow, Peers
    <3> QED
      BY <3>1
  <2>2. /\ Exchange({}, out) /\ UNCHANGED <<term, votedFor, role>>
        /\ UNCHANGED <<log, machineVars, leaderVars, ledger>>
    BY <1>2 DEF BecomePreCandidate
  <2> HIDE DEF out
  <2> QED
    BY <2>1, <2>2, IdleExchange
<1> QED
  BY <1>1, <1>2 DEF Stand

LEMMA RefuseStaleLogStep ==
  ASSUME TypeOK, SentToOthers, RefuseStale
  PROVE  \E n \in Node : LogStep(n)
<1> DEFINE Refuses(m, out) ==
             /\ \/ out = {VoteMsg(m.to, m.from, term[m.to], FALSE, FALSE)}
                \/ out = {RefusedMsg(m.to, m.from, term[m.to], [term |-> 0, index |-> 0])}
                \/ out = {}
             /\ Exchange({m}, out)
             /\ UNCHANGED <<term, votedFor, role>>
             /\ UNCHANGED <<log, machineVars, leaderVars, ledger>>
<1> PICK m \in BagToSet(net) : \E out : Refuses(m, out)
  BY DEF RefuseStale, ballotVars
<1> PICK out : Refuses(m, out)
  OBVIOUS
<1>1. m.to \in Node
  BY MessageFields DEF TypeOK, NetOK
<1>2. /\ Hollow(VoteMsg(m.to, m.from, term[m.to], FALSE, FALSE))
      /\ Hollow(RefusedMsg(m.to, m.from, term[m.to], [term |-> 0, index |-> 0]))
  BY DEF VoteMsg, RefusedMsg, Hollow, SentToOthers
<1>3. \A a \in out : Hollow(a)
  BY <1>2
<1> QED
  BY <1>1, <1>3, IdleExchange

LEMMA DropAtDownLogStep ==
  ASSUME TypeOK, DropAtDown
  PROVE  \E n \in Node : LogStep(n)
<1> PICK m \in BagToSet(net) :
      /\ Exchange({m}, {}) /\ UNCHANGED <<term, votedFor, role>>
      /\ UNCHANGED <<log, machineVars, leaderVars, ledger>>
  BY DEF DropAtDown, ballotVars
<1>1. m.to \in Node
  BY MessageFields DEF TypeOK, NetOK
<1> QED
  BY <1>1, IdleExchange

LEMMA OnRequestVoteLogStep ==
  ASSUME TypeOK, SentToOthers, OnRequestVote
  PROVE  \E n \in Node : LogStep(n)
<1> PICK m \in Landed("request vote") :
      /\ ~m.preVote /\ ~Stale(m)
      /\ Join(m, RoleOn(m), IF Grants(m) THEN m.from ELSE VoteOn(m))
      /\ Exchange({m}, {VoteMsg(m.to, m.from, TermOn(m), Grants(m), FALSE)})
      /\ UNCHANGED <<log, machineVars, leaderVars, ledger>>
  BY DEF OnRequestVote
<1> DEFINE n == m.to
           v == IF Grants(m) THEN m.from ELSE VoteOn(m)
<1>1. m \in Message /\ m \in BagToSet(net) /\ m.kind = "request vote"
  BY LandedType DEF TypeOK, Landed
<1>2. /\ n \in Node
      /\ \A p \in Node \ {n} :
           term'[p] = term[p] /\ votedFor'[p] = votedFor[p] /\ role'[p] = role[p]
      /\ term'[n] = TermOn(m) /\ term'[n] >= term[n] /\ votedFor'[n] = v
      /\ ~Asking(m) => term'[n] = m.term
      /\ role'[n] # FOLLOWER => role'[n] = role[n] /\ term'[n] = term[n]
  BY <1>1, Joined
<1>3. Stays(n)
  BY <1>2 DEF Stays, FOLLOWER, LEADER, CANDIDATE
<1>4. VoteMoves(n)
  <2>1. CASE Grants(m)
    <3>1. votedFor'[n] = m.from /\ term'[n] = m.term
      BY <1>2, <2>1 DEF Asking
    <3>2. IsUpToDate(log[n], m.lastIndex, m.lastTerm)
      BY <2>1 DEF Grants
    <3> QED
      BY <1>1, <3>1, <3>2 DEF VoteMoves
  <2>2. CASE ~Grants(m)
    BY <1>2, <2>2 DEF VoteMoves, VoteOn, TermOn
  <2> QED
    BY <2>1, <2>2
<1>5. Hollow(VoteMsg(n, m.from, TermOn(m), Grants(m), FALSE))
  BY <1>1 DEF VoteMsg, Hollow, SentToOthers
<1>6. Sends(n)
  BY <1>5, HollowSends
<1>7. LogStep(n)
  BY <1>2, <1>3, <1>4, <1>6, StillStep
<1> QED
  BY <1>2, <1>7

LEMMA OnPreVoteRequestLogStep ==
  ASSUME TypeOK, SentToOthers, OnPreVoteRequest
  PROVE  \E n \in Node : LogStep(n)
<1> PICK m \in Landed("request vote"), granted \in BOOLEAN :
      /\ Exchange({m}, {VoteMsg(m.to, m.from, term[m.to], granted, TRUE)})
      /\ UNCHANGED <<term, votedFor, role>>
      /\ UNCHANGED <<log, machineVars, leaderVars, ledger>>
  BY DEF OnPreVoteRequest, ballotVars
<1>1. m.to \in Node
  BY LandedType, MessageFields DEF TypeOK
<1>2. Hollow(VoteMsg(m.to, m.from, term[m.to], granted, TRUE))
  BY DEF VoteMsg, Hollow, SentToOthers, Landed
<1> QED
  BY <1>1, <1>2, IdleExchange

LEMMA IgnoreVoteLogStep ==
  ASSUME TypeOK, IgnoreVote
  PROVE  \E n \in Node : LogStep(n)
<1> PICK m \in Landed("vote") :
      /\ ~Stale(m) /\ Join(m, RoleOn(m), VoteOn(m)) /\ Exchange({m}, {})
      /\ UNCHANGED <<log, machineVars, leaderVars, ledger>>
  BY DEF IgnoreVote
<1>1. m \in Message /\ m.to \in Node
  BY LandedType, MessageFields DEF TypeOK
<1>2. Sends(m.to)
  BY HollowSends
<1>3. LogStep(m.to)
  BY <1>1, <1>2, JoinStill
<1> QED
  BY <1>1, <1>3

LEMMA IgnoreReplyLogStep ==
  ASSUME TypeOK, IgnoreReply
  PROVE  \E n \in Node : LogStep(n)
<1> PICK m \in Landed("appended") \cup Landed("installed") :
      /\ ~Stale(m) /\ Join(m, RoleOn(m), VoteOn(m)) /\ Exchange({m}, {})
      /\ UNCHANGED <<log, machineVars, leaderVars, ledger>>
  BY DEF IgnoreReply
<1>1. m \in Message /\ m.to \in Node
  BY LandedType, MessageFields DEF TypeOK
<1>2. Sends(m.to)
  BY HollowSends
<1>3. LogStep(m.to)
  BY <1>1, <1>2, JoinStill
<1> QED
  BY <1>1, <1>3

LEMMA OnPreVoteLogStep ==
  ASSUME TypeOK, OnPreVote
  PROVE  \E n \in Node : LogStep(n)
<1> PICK m \in Landed("vote") :
      \/ BecomeCandidate(m.to, {m})
      \/ /\ Exchange({m}, {}) /\ UNCHANGED <<term, votedFor, role>>
         /\ UNCHANGED <<log, machineVars, leaderVars, ledger>>
  BY DEF OnPreVote
<1>1. m.to \in Node
  BY LandedType, MessageFields DEF TypeOK
<1>2. CASE BecomeCandidate(m.to, {m})
  BY <1>1, <1>2, BecomeCandidateLogStep
<1>3. CASE /\ Exchange({m}, {}) /\ UNCHANGED <<term, votedFor, role>>
           /\ UNCHANGED <<log, machineVars, leaderVars, ledger>>
  BY <1>1, <1>3, IdleExchange
<1> QED
  BY <1>2, <1>3

LEMMA RejectAppendLogStep ==
  ASSUME TypeOK, SentToOthers, RejectAppend
  PROVE  \E n \in Node : LogStep(n)
<1> PICK m \in Landed("append") :
      /\ ~Stale(m) /\ Join(m, FOLLOWER, VoteOn(m))
      /\ Exchange({m}, {RefusedMsg(m.to, m.from, m.term, Conflict(log[m.to], m.prevIndex))})
      /\ UNCHANGED <<log, machineVars, leaderVars, ledger>>
  BY DEF RejectAppend
<1>1. m \in Message /\ m.to \in Node
  BY LandedType, MessageFields DEF TypeOK
<1>2. Hollow(RefusedMsg(m.to, m.from, m.term, Conflict(log[m.to], m.prevIndex)))
  BY DEF RefusedMsg, Hollow, SentToOthers, Landed
<1>3. Sends(m.to)
  BY <1>2, HollowSends
<1>4. LogStep(m.to)
  BY <1>1, <1>3, JoinStill
<1> QED
  BY <1>1, <1>4

\* What a leader sends to another member.
LEMMA ReplicationIsSent ==
  ASSUME NEW n, NEW p \in Peers(n), role'[n] = LEADER
  PROVE  Sent(n, ReplicateTo(n, p, term'[n], log'[n], nextIndex'[n][p],
                             commitIndex'[n], machine'[n]))
<1> DEFINE m == ReplicateTo(n, p, term'[n], log'[n], nextIndex'[n][p],
                            commitIndex'[n], machine'[n])
<1>1. m.kind \in {"append", "install snapshot"} /\ m.from # m.to
  BY DEF ReplicateTo, AppendMsg, InstallMsg, Peers
<1>2. \E q \in Peers(n) : m = ReplicateTo(n, q, term'[n], log'[n], nextIndex'[n][q],
                                          commitIndex'[n], machine'[n])
  OBVIOUS
<1> HIDE DEF m
<1>3. Sent(n, m)
  BY <1>1, <1>2 DEF Sent
<1> QED
  BY <1>3 DEF m

LEMMA ReplicationSends ==
  ASSUME TypeOK, NEW n, role'[n] = LEADER,
         NEW gone, NEW out, Exchange(gone, out),
         \A m \in out : \E p \in Peers(n) :
           m = ReplicateTo(n, p, term'[n], log'[n], nextIndex'[n][p],
                           commitIndex'[n], machine'[n])
  PROVE  Sends(n)
<1>1. \A m \in out : Sent(n, m)
  BY ReplicationIsSent
<1> QED
  BY <1>1, ExchangeSubset DEF Sends, TypeOK

\* The node writes an entry of its term and leads.
LEMMA WriteStep ==
  ASSUME TypeOK, NEW n \in Node, NEW e \in Entry, e.term = term[n],
         UNCHANGED <<term, votedFor, machineVars, ledger>>,
         log' = [log EXCEPT ![n] = Extend(log[n], <<e>>)],
         role[n] \in {CANDIDATE, LEADER}, role' = [role EXCEPT ![n] = LEADER],
         role[n] = LEADER => LastIndex(log[n]) < MaxLog,
         \A p \in Node \ {n} : nextIndex'[p] = nextIndex[p] /\ matchIndex'[p] = matchIndex[p],
         \A p \in Node : Counts(n, p),
         NEW gone,
         Exchange(gone, {ReplicateTo(n, p, term'[n], log'[n], nextIndex'[n][p],
                                     commitIndex'[n], machine'[n]) : p \in Peers(n)})
  PROVE  LogStep(n)
<1>1. /\ log'[n] = Extend(log[n], <<e>>) /\ role'[n] = LEADER
      /\ \A p \in Node \ {n} : log'[p] = log[p] /\ role'[p] = role[p]
  BY DEF TypeOK, BallotsOK, LogsOK
<1>2. Alone(n)
  BY <1>1 DEF Alone, machineVars
<1>3. Writes(n)
  BY <1>1 DEF Writes
<1>4. VoteMoves(n)
  BY DEF VoteMoves
<1>5. Sends(n)
  <2> DEFINE out == {ReplicateTo(n, p, term'[n], log'[n], nextIndex'[n][p],
                                 commitIndex'[n], machine'[n]) : p \in Peers(n)}
  <2>1. \A m \in out : \E p \in Peers(n) :
          m = ReplicateTo(n, p, term'[n], log'[n], nextIndex'[n][p],
                          commitIndex'[n], machine'[n])
    OBVIOUS
  <2>2. Exchange(gone, out)
    OBVIOUS
  <2> HIDE DEF out
  <2> QED
    BY <1>1, <2>1, <2>2, ReplicationSends
<1>6. MachineMoves(n)
  BY DEF MachineMoves
<1> QED
  BY <1>2, <1>3, <1>4, <1>5, <1>6 DEF LogStep, LogMoves

LEMMA BecomeLeaderLogStep ==
  ASSUME TypeOK, NEW n \in Node, role[n] = CANDIDATE, NEW gone, BecomeLeader(n, gone)
  PROVE  LogStep(n)
<1> DEFINE e    == [term |-> term[n], cmd |-> None]
           grown == Extend(log[n], <<e>>)
           next == LastIndex(log[n]) + 1
<1>1. /\ role' = [role EXCEPT ![n] = LEADER]
      /\ log' = [log EXCEPT ![n] = grown]
      /\ nextIndex' = [nextIndex EXCEPT ![n] = [p \in Node |-> next]]
      /\ matchIndex' = [matchIndex EXCEPT ![n] = [p \in Node |-> IF p = n THEN next ELSE 0]]
      /\ Exchange(gone, {ReplicateTo(n, p, term[n], grown, next, commitIndex[n], machine[n]) :
                           p \in Peers(n)})
      /\ UNCHANGED <<term, votedFor, machineVars, ledger>>
  BY DEF BecomeLeader
<1>2. e \in Entry /\ e.term = term[n] /\ LastIndex(log[n]) \in Nat
  BY LogTypes DEF Entry, TypeOK, BallotsOK
<1>3. LastIndex(grown) = next
  <2>1. log[n] \in LogOf(Entry)
    BY LogTypes DEF TypeOK
  <2>2. <<e>> \in Seq(Entry) /\ Len(<<e>>) = 1
    BY <1>2
  <2> HIDE DEF e
  <2> QED
    BY <2>1, <2>2, ExtendType
<1> HIDE DEF e
<1>4. /\ log'[n] = grown
      /\ \A p \in Node : nextIndex'[n][p] = next
      /\ \A p \in Node : matchIndex'[n][p] = IF p = n THEN next ELSE 0
      /\ \A p \in Node \ {n} : nextIndex'[p] = nextIndex[p] /\ matchIndex'[p] = matchIndex[p]
  BY <1>1 DEF TypeOK, LogsOK, LeadersOK
<1>5. \A p \in Node : Counts(n, p)
  BY <1>2, <1>3, <1>4 DEF Counts
<1>6. Exchange(gone, {ReplicateTo(n, p, term'[n], log'[n], nextIndex'[n][p],
                                  commitIndex'[n], machine'[n]) : p \in Peers(n)})
  <2>1. \A p \in Peers(n) :
          ReplicateTo(n, p, term'[n], log'[n], nextIndex'[n][p], commitIndex'[n], machine'[n])
            = ReplicateTo(n, p, term[n], grown, next, commitIndex[n], machine[n])
    BY <1>1, <1>4 DEF machineVars, Peers
  <2>2. {ReplicateTo(n, p, term'[n], log'[n], nextIndex'[n][p], commitIndex'[n], machine'[n]) :
           p \in Peers(n)}
          = {ReplicateTo(n, p, term[n], grown, next, commitIndex[n], machine[n]) : p \in Peers(n)}
    BY <2>1
  <2> QED
    BY <1>1, <2>2
<1>7. role[n] = LEADER => LastIndex(log[n]) < MaxLog
  BY DEF CANDIDATE, LEADER
<1> QED
  BY <1>1, <1>2, <1>4, <1>5, <1>6, <1>7, WriteStep

LEMMA CountVoteLogStep ==
  ASSUME TypeOK, CountVote
  PROVE  \E n \in Node : LogStep(n)
<1> PICK m \in Landed("vote") :
      \/ role[m.to] = CANDIDATE /\ BecomeLeader(m.to, {m})
      \/ /\ Exchange({m}, {}) /\ UNCHANGED <<term, votedFor, role>>
         /\ UNCHANGED <<log, machineVars, leaderVars, ledger>>
  BY DEF CountVote
<1>1. m.to \in Node
  BY LandedType, MessageFields DEF TypeOK
<1>2. CASE role[m.to] = CANDIDATE /\ BecomeLeader(m.to, {m})
  BY <1>1, <1>2, BecomeLeaderLogStep
<1>3. CASE /\ Exchange({m}, {}) /\ UNCHANGED <<term, votedFor, role>>
           /\ UNCHANGED <<log, machineVars, leaderVars, ledger>>
  BY <1>1, <1>3, IdleExchange
<1> QED
  BY <1>1, <1>2, <1>3

LEMMA ProposeLogStep ==
  ASSUME TypeOK, NEW n \in Node, NEW cmd \in Command, Propose(n, cmd)
  PROVE  LogStep(n)
<1> DEFINE e     == [term |-> term[n], cmd |-> cmd]
           grown == Extend(log[n], <<e>>)
<1>1. /\ role[n] = LEADER /\ LastIndex(log[n]) < MaxLog
      /\ log' = [log EXCEPT ![n] = grown]
      /\ matchIndex' = [matchIndex EXCEPT ![n][n] = LastIndex(grown)]
      /\ Exchange({}, {ReplicateTo(n, p, term[n], grown, nextIndex[n][p], commitIndex[n],
                                   machine[n]) : p \in Peers(n)})
      /\ UNCHANGED <<term, votedFor, role, machineVars, nextIndex, ledger>>
  BY DEF Propose, Leads, ballotVars
<1>2. e \in Entry /\ e.term = term[n]
  BY DEF Entry, TypeOK, BallotsOK
<1> HIDE DEF e
<1>3. /\ log'[n] = grown
      /\ matchIndex'[n][n] = LastIndex(grown)
      /\ \A p \in Node \ {n} : matchIndex'[n][p] = matchIndex[n][p]
      /\ \A p \in Node \ {n} : matchIndex'[p] = matchIndex[p]
  BY <1>1 DEF TypeOK, LogsOK, LeadersOK
<1>4. \A p \in Node : Counts(n, p)
  BY <1>1, <1>3 DEF Counts
<1>5. Exchange({}, {ReplicateTo(n, p, term'[n], log'[n], nextIndex'[n][p],
                                commitIndex'[n], machine'[n]) : p \in Peers(n)})
  BY <1>1, <1>3 DEF machineVars
<1>6. role' = [role EXCEPT ![n] = LEADER]
  BY <1>1 DEF TypeOK, BallotsOK
<1> QED
  BY <1>1, <1>2, <1>3, <1>4, <1>5, <1>6, WriteStep

LEMMA HeartbeatLogStep ==
  ASSUME TypeOK, NEW n \in Node, Heartbeat(n)
  PROVE  LogStep(n)
<1> DEFINE out == {ReplicateTo(n, p, term[n], log[n], nextIndex[n][p], commitIndex[n],
                               machine[n]) : p \in Peers(n)}
<1>1. /\ role[n] = LEADER /\ Exchange({}, out)
      /\ UNCHANGED <<term, votedFor, role>>
      /\ UNCHANGED <<log, machineVars, leaderVars, ledger>>
  BY DEF Heartbeat, ballotVars
<1>2. \A m \in out : \E p \in Peers(n) :
        m = ReplicateTo(n, p, term'[n], log'[n], nextIndex'[n][p], commitIndex'[n], machine'[n])
  BY <1>1 DEF machineVars, leaderVars
<1> HIDE DEF out
<1>3. Sends(n)
  BY <1>1, <1>2, ReplicationSends
<1> QED
  BY <1>1, <1>3, IdleStep

\* What of the machines changes in a commit is the node's own.
LEMMA CommitToAlone ==
  ASSUME TypeOK, NEW n \in Node, NEW l, NEW c, CommitTo(n, l, c)
  PROVE  \A p \in Node \ {n} :
           /\ commitIndex'[p] = commitIndex[p] /\ lastApplied'[p] = lastApplied[p]
           /\ applied'[p] = applied[p] /\ machine'[p] = machine[p]
<1> DEFINE todo == Slice(l, Max({lastApplied[n] + 1, FirstIndex(l)}), c)
<1>1. PICK a, b, d : /\ commitIndex' = [commitIndex EXCEPT ![n] = c]
                     /\ lastApplied' = [lastApplied EXCEPT ![n] = a]
                     /\ applied' = [applied EXCEPT ![n] = b]
                     /\ machine' = [machine EXCEPT ![n] = d]
  BY DEF CommitTo
<1> QED
  BY <1>1 DEF TypeOK, MachinesOK

LEMMA AcceptAppendLogStep ==
  ASSUME TypeOK, SentToOthers, AcceptAppend
  PROVE  \E n \in Node : LogStep(n)
<1> PICK m \in Landed("append") :
      /\ ~Stale(m) /\ Matches(log[m.to], m.prevIndex, m.prevTerm)
      /\ Join(m, FOLLOWER, VoteOn(m))
      /\ log' = [log EXCEPT ![m.to] = Merge(log[m.to], m.prevIndex, m.entries)]
      /\ \/ /\ m.commit > commitIndex[m.to]
            /\ CommitTo(m.to, Merge(log[m.to], m.prevIndex, m.entries),
                  Min({m.commit, LastIndex(Merge(log[m.to], m.prevIndex, m.entries))}))
         \/ UNCHANGED machineVars
      /\ Exchange({m}, {AppendedMsg(m.to, m.from, m.term, m.prevIndex + Len(m.entries))})
      /\ UNCHANGED <<leaderVars, ledger>>
  BY DEF AcceptAppend
<1> DEFINE n == m.to
           merged == Merge(log[n], m.prevIndex, m.entries)
<1>1. m \in Message /\ m \in BagToSet(net) /\ m.kind = "append"
  BY LandedType DEF TypeOK, Landed
<1>2. /\ n \in Node /\ m.term \in Nat
      /\ \A p \in Node \ {n} :
           term'[p] = term[p] /\ votedFor'[p] = votedFor[p] /\ role'[p] = role[p]
      /\ term'[n] = TermOn(m) /\ term'[n] >= term[n] /\ votedFor'[n] = VoteOn(m)
      /\ ~Asking(m) => term'[n] = m.term
      /\ role'[n] = FOLLOWER
  BY <1>1, Joined
<1>3. log'[n] = merged /\ \A p \in Node \ {n} : log'[p] = log[p]
  BY <1>2 DEF TypeOK, LogsOK
<1>4. Accepts(n, m)
  BY <1>1, <1>2, <1>3 DEF Accepts, Asking
<1>5. VoteMoves(n)
  BY <1>2 DEF VoteMoves, VoteOn, TermOn
<1>6. MachineMoves(n)
  <2>1. CASE UNCHANGED machineVars
    BY <2>1 DEF MachineMoves
  <2>2. CASE m.commit > commitIndex[n] /\ CommitTo(n, merged, Min({m.commit, LastIndex(merged)}))
    <3>1. CommitTo(n, log'[n], Min({m.commit, LastIndex(log'[n])}))
      BY <1>3, <2>2
    <3> QED
      BY <1>1, <1>4, <2>2, <3>1 DEF MachineMoves
  <2> QED
    BY <2>1, <2>2
<1>7. Alone(n)
  <2>1. \A p \in Node \ {n} :
          /\ commitIndex'[p] = commitIndex[p] /\ lastApplied'[p] = lastApplied[p]
          /\ applied'[p] = applied[p] /\ machine'[p] = machine[p]
    BY <1>2, CommitToAlone DEF machineVars
  <2> QED
    BY <1>2, <1>3, <2>1 DEF Alone, leaderVars
<1>8. Sends(n)
  <2> DEFINE answer == AppendedMsg(n, m.from, m.term, m.prevIndex + Len(m.entries))
  <2>1. answer.kind = "appended" /\ answer.from # answer.to
    BY <1>1 DEF AppendedMsg, SentToOthers
  <2>2. \E a \in BagToSet(net) :
          /\ Accepts(n, a)
          /\ answer = AppendedMsg(n, a.from, a.term, a.prevIndex + Len(a.entries))
    BY <1>1, <1>4
  <2> HIDE DEF answer
  <2>3. Sent(n, answer)
    BY <2>1, <2>2 DEF Sent
  <2>4. BagToSet(net') \subseteq BagToSet(net) \cup {answer}
    BY ExchangeSubset DEF TypeOK, answer
  <2> QED
    BY <2>3, <2>4 DEF Sends
<1>9. role'[n] # LEADER
  BY <1>2 DEF FOLLOWER, LEADER
<1>10. LogStep(n)
  BY <1>1, <1>4, <1>5, <1>6, <1>7, <1>8, <1>9 DEF LogStep, LogMoves
<1> QED
  BY <1>2, <1>10

LEMMA AcknowledgeLogStep ==
  ASSUME TypeOK, SentToOthers, NEW m \in Message, m \in BagToSet(net), NEW upto, NEW anyway \in BOOLEAN,
         role[m.to] = LEADER, m.term = term[m.to],
         \/ m.kind = "appended" /\ m.success /\ upto = m.match
         \/ m.kind = "installed" /\ upto = m.lastIndex,
         Acknowledge(m, upto, anyway)
  PROVE  \E n \in Node : LogStep(n)
<1> DEFINE n     == m.to
           match == Acknowledged(m, upto)
           next  == match[m.from] + 1
<1>1. /\ matchIndex' = [matchIndex EXCEPT ![n] = match]
      /\ nextIndex' = [nextIndex EXCEPT ![n][m.from] = next]
      /\ AdvanceCommit(n, match)
      /\ UNCHANGED <<term, votedFor, role, log>>
  BY DEF Acknowledge, ballotVars
<1>2. PICK out : /\ \/ out = {ReplicateTo(n, m.from, term[n], log[n], next, commitIndex'[n],
                                          machine'[n])}
                    \/ out = {}
                 /\ Exchange({m}, out)
  BY DEF Acknowledge
<1>3. n \in Node /\ m.from \in Node /\ upto \in Nat /\ log[n] \in LogOf(Entry)
  BY MessageFields, LogTypes DEF TypeOK
<1>4. /\ match \in [Node -> Nat]
      /\ \A p \in Node : \/ p = n /\ match[p] = LastIndex(log[n])
                         \/ match[p] = matchIndex[n][p]
                         \/ p = m.from /\ match[p] = upto
  <2>1. matchIndex[n] \in [Node -> Nat] /\ LastIndex(log[n]) \in Nat
    BY <1>3, LogTypes DEF TypeOK, LeadersOK
  <2>2. Max({matchIndex[n][m.from], upto}) \in {matchIndex[n][m.from], upto}
    BY <1>3, <2>1, MaxOfPair
  <2>3. match = [matchIndex[n] EXCEPT ![m.from] = Max({matchIndex[n][m.from], upto}),
                                      ![n] = LastIndex(log[n])]
    BY DEF Acknowledged
  <2> QED
    BY <1>3, <2>1, <2>2, <2>3
<1> HIDE DEF match
<1>5. /\ matchIndex'[n] = match
      /\ nextIndex'[n][m.from] = next
      /\ \A p \in Node \ {m.from} : nextIndex'[n][p] = nextIndex[n][p]
      /\ \A p \in Node \ {n} : nextIndex'[p] = nextIndex[p] /\ matchIndex'[p] = matchIndex[p]
  BY <1>1, <1>3 DEF TypeOK, LeadersOK
<1>6. next \in Nat /\ next >= 1
  BY <1>3, <1>4
<1>7. \A p \in Node : Counts(n, p)
  BY <1>1, <1>4, <1>5, <1>6 DEF Counts
<1>8. MachineMoves(n)
  <2>1. CASE Committable(n, match) = {}
    BY <1>1, <2>1 DEF AdvanceCommit, MachineMoves
  <2>2. CASE Committable(n, match) # {}
    <3> DEFINE able == Committable(n, match)
    <3>1. able \subseteq (commitIndex[n] + 1)..LastIndex(log[n])
      BY DEF Committable
    <3>2. commitIndex[n] + 1 \in Int /\ LastIndex(log[n]) \in Int /\ commitIndex[n] \in Nat
      BY <1>3, LogTypes DEF TypeOK, MachinesOK
    <3>3. Max(able) \in able
      BY <2>2, <3>1, <3>2, PartOfInterval, MaxOfFinite
    <3>4. Max(able) \in Nat
      BY <3>1, <3>2, <3>3
    <3>5. Commits(n, Max(able))
      BY <1>1, <1>5, <2>2, <3>3 DEF AdvanceCommit, Commits
    <3> QED
      BY <3>4, <3>5 DEF MachineMoves
  <2> QED
    BY <2>1, <2>2
<1>9. Alone(n)
  <2>1. \A p \in Node \ {n} :
          /\ commitIndex'[p] = commitIndex[p] /\ lastApplied'[p] = lastApplied[p]
          /\ applied'[p] = applied[p] /\ machine'[p] = machine[p]
    BY <1>1, <1>3, CommitToAlone DEF AdvanceCommit, machineVars
  <2> QED
    BY <1>1, <1>5, <2>1 DEF Alone
<1>10. Stays(n) /\ VoteMoves(n)
  <2>1. term'[n] = term[n] /\ term[n] \in Nat /\ votedFor'[n] = votedFor[n]
    BY <1>1, <1>3 DEF TypeOK, BallotsOK
  <2>2. log'[n] = log[n] /\ role'[n] = role[n]
    BY <1>1
  <2>3. VoteMoves(n)
    BY <2>1 DEF VoteMoves
  <2> QED
    BY <2>1, <2>2, <2>3 DEF Stays
<1>11. Sends(n)
  <2>1. m.from \in Peers(n)
    BY <1>3 DEF Peers, SentToOthers
  <2>2. \A a \in out : \E p \in Peers(n) :
          a = ReplicateTo(n, p, term'[n], log'[n], nextIndex'[n][p],
                          commitIndex'[n], machine'[n])
    BY <1>1, <1>2, <1>5, <2>1
  <2>3. role'[n] = LEADER
    BY <1>1
  <2> QED
    BY <1>2, <2>2, <2>3, ReplicationSends
<1>12. LogStep(n)
  BY <1>7, <1>8, <1>9, <1>10, <1>11 DEF LogStep, LogMoves
<1> QED
  BY <1>3, <1>12

LEMMA RetryLogStep ==
  ASSUME TypeOK, SentToOthers, AppendRefused
  PROVE  \E n \in Node : LogStep(n)
<1> PICK m \in ForLeader("appended") :
      /\ nextIndex' = [nextIndex EXCEPT ![m.to][m.from] =
                          SkipTerm(log[m.to], m.conflictTerm, m.conflictIndex)]
      /\ Exchange({m}, {ReplicateTo(m.to, m.from, term[m.to], log[m.to],
                                    SkipTerm(log[m.to], m.conflictTerm, m.conflictIndex),
                                    commitIndex[m.to], machine[m.to])})
      /\ UNCHANGED <<term, votedFor, role, log, machineVars, matchIndex, ledger>>
  BY DEF AppendRefused, ballotVars
<1> DEFINE n    == m.to
           next == SkipTerm(log[n], m.conflictTerm, m.conflictIndex)
           sent == ReplicateTo(n, m.from, term[n], log[n], next, commitIndex[n], machine[n])
<1>1. /\ m \in Message /\ m \in BagToSet(net) /\ m.kind = "appended"
      /\ role[n] = LEADER /\ m.term = term[n]
  BY DEF ForLeader, Landed, TypeOK, NetOK
<1>2. n \in Node /\ m.from \in Node /\ m.from \in Peers(n) /\ log[n] \in LogOf(Entry)
  BY <1>1, MessageFields, LogTypes DEF TypeOK, Peers, SentToOthers
<1>3. next \in Nat /\ next >= 1
  <2>1. m.conflictTerm \in Nat /\ m.conflictIndex \in Nat
    BY <1>1, MessageFields
  <2>2. next \in Nat /\ next >= FirstIndex(log[n])
    BY <1>2, <2>1, SkipTermBound
  <2> QED
    BY <1>2, <2>2, LogIndices
<1> HIDE DEF next
<1>4. /\ nextIndex'[n][m.from] = next
      /\ \A p \in Node \ {m.from} : nextIndex'[n][p] = nextIndex[n][p]
      /\ \A p \in Node \ {n} : nextIndex'[p] = nextIndex[p]
  BY <1>2 DEF TypeOK, LeadersOK, next
<1>5. \A p \in Node : Counts(n, p)
  BY <1>1, <1>3, <1>4 DEF Counts
<1>6. Alone(n)
  BY <1>4 DEF Alone, machineVars
<1>7. Stays(n) /\ VoteMoves(n)
  <2>1. term'[n] = term[n] /\ term[n] \in Nat /\ votedFor'[n] = votedFor[n]
    BY <1>2 DEF TypeOK, BallotsOK
  <2> QED
    BY <2>1 DEF Stays, VoteMoves
<1>8. MachineMoves(n)
  BY DEF MachineMoves
<1>9. Sends(n)
  <2>1. \A a \in {sent} : \E p \in Peers(n) :
          a = ReplicateTo(n, p, term'[n], log'[n], nextIndex'[n][p],
                          commitIndex'[n], machine'[n])
    BY <1>2, <1>4 DEF machineVars
  <2>2. Exchange({m}, {sent}) /\ role'[n] = LEADER
    BY <1>1 DEF next
  <2> HIDE DEF sent
  <2> QED
    BY <2>1, <2>2, ReplicationSends
<1>10. LogStep(n)
  BY <1>5, <1>6, <1>7, <1>8, <1>9 DEF LogStep, LogMoves
<1> QED
  BY <1>2, <1>10

LEMMA OnInstallLogStep ==
  ASSUME TypeOK, SentToOthers, OnInstall
  PROVE  \E n \in Node : LogStep(n)
<1> PICK m \in Landed("install snapshot") :
      /\ ~Stale(m)
      /\ Join(m, RoleOn(m), VoteOn(m))
      /\ \E kept : /\ log' = [log EXCEPT ![m.to] = kept]
                   /\ ~Takes(m) => kept = log[m.to]
                   /\ Exchange({m}, {InstalledMsg(m.to, m.from, m.term, LastIndex(kept))})
      /\ \/ UNCHANGED machineVars
         \/ \E a, b, c : /\ machine' = [machine EXCEPT ![m.to] = a]
                         /\ commitIndex' = [commitIndex EXCEPT ![m.to] = b]
                         /\ lastApplied' = [lastApplied EXCEPT ![m.to] = c]
                         /\ UNCHANGED applied
      /\ UNCHANGED <<leaderVars, ledger>>
  BY DEF OnInstall
<1> DEFINE n == m.to
<1>1. m \in Message /\ m \in BagToSet(net) /\ m.kind = "install snapshot"
  BY LandedType DEF TypeOK, Landed
<1>2. /\ n \in Node /\ m.term \in Nat
      /\ \A p \in Node \ {n} :
           term'[p] = term[p] /\ votedFor'[p] = votedFor[p] /\ role'[p] = role[p]
      /\ term'[n] = TermOn(m) /\ term'[n] >= term[n] /\ votedFor'[n] = VoteOn(m)
      /\ ~Asking(m) => term'[n] = m.term
      /\ role'[n] # FOLLOWER => role'[n] = role[n] /\ term'[n] = term[n]
  BY <1>1, Joined
<1>3. Installs(n, m)
  BY <1>1, <1>2 DEF Installs, Asking
<1>4. VoteMoves(n)
  BY <1>2 DEF VoteMoves, VoteOn, TermOn
<1>5. MachineMoves(n)
  BY <1>1 DEF MachineMoves
<1>6. Alone(n)
  <2>1. \A p \in Node \ {n} : log'[p] = log[p]
    BY DEF TypeOK, LogsOK
  <2>2. \A p \in Node \ {n} :
          /\ commitIndex'[p] = commitIndex[p] /\ lastApplied'[p] = lastApplied[p]
          /\ applied'[p] = applied[p] /\ machine'[p] = machine[p]
    BY DEF TypeOK, MachinesOK, machineVars
  <2> QED
    BY <1>2, <2>1, <2>2 DEF Alone, leaderVars
<1>7. Sends(n)
  <2> PICK last : Exchange({m}, {InstalledMsg(n, m.from, m.term, last)})
    OBVIOUS
  <2> DEFINE answer == InstalledMsg(n, m.from, m.term, last)
  <2>1. answer.kind = "installed" /\ answer.from # answer.to
    BY <1>1 DEF InstalledMsg, SentToOthers
  <2>2. BagToSet(net') \subseteq BagToSet(net) \cup {answer}
    BY ExchangeSubset DEF TypeOK
  <2> HIDE DEF answer
  <2> QED
    BY <1>1, <2>1, <2>2 DEF Sends, Sent
<1>8. role'[n] = LEADER => \A p \in Node : Counts(n, p)
  BY <1>2 DEF Counts, leaderVars, LEADER, FOLLOWER
<1>9. LogStep(n)
  BY <1>1, <1>3, <1>4, <1>5, <1>6, <1>7, <1>8 DEF LogStep, LogMoves
<1> QED
  BY <1>2, <1>9

LEMMA CompactLogStep ==
  ASSUME TypeOK, NEW n \in Node, CompactLog(n)
  PROVE  LogStep(n)
<1>1. /\ Compaction /\ Holds(log[n], lastApplied[n])
      /\ log'[n] = Compact(log[n], lastApplied[n])
      /\ \A p \in Node \ {n} : log'[p] = log[p]
      /\ UNCHANGED <<term, votedFor, role, net, machineVars, leaderVars, ledger>>
  BY DEF CompactLog, ballotVars, TypeOK, LogsOK
<1>2. Compacts(n) /\ VoteMoves(n) /\ MachineMoves(n) /\ Sends(n)
  BY <1>1 DEF Compacts, VoteMoves, MachineMoves, Sends
<1>3. Alone(n)
  BY <1>1 DEF Alone, machineVars, leaderVars
<1>4. role'[n] = LEADER => \A p \in Node : Counts(n, p)
  BY <1>1 DEF Counts, leaderVars
<1> QED
  BY <1>2, <1>3, <1>4 DEF LogStep, LogMoves

LEMMA RestartLogStep ==
  ASSUME TypeOK, NEW n \in Node, Restart(n)
  PROVE  LogStep(n)
<1>1. /\ n \in down /\ role'[n] = FOLLOWER
      /\ commitIndex'[n] = 0 /\ lastApplied'[n] = 0
      /\ applied'[n] = << >> /\ machine'[n] = None
      /\ UNCHANGED <<term, votedFor, log, net, ledger>>
  BY DEF Restart, TypeOK, BallotsOK, MachinesOK
<1>2. Alone(n)
  BY DEF Restart, Alone, TypeOK, BallotsOK, MachinesOK, LeadersOK
<1>3. Stays(n)
  BY <1>1 DEF Stays, FOLLOWER, LEADER, CANDIDATE, TypeOK, BallotsOK
<1>4. VoteMoves(n) /\ MachineMoves(n) /\ Sends(n)
  BY <1>1 DEF VoteMoves, MachineMoves, Sends
<1>5. role'[n] # LEADER
  BY <1>1 DEF FOLLOWER, LEADER
<1> QED
  BY <1>2, <1>3, <1>4, <1>5 DEF LogStep, LogMoves

LEMMA CrashLogStep ==
  ASSUME TypeOK, NEW n \in Node, Crash(n)
  PROVE  LogStep(n)
BY IdleStep DEF Crash, ballotVars, Sends

LEMMA RaiseLogStep ==
  ASSUME TypeOK, Raise, NEW n \in Node
  PROVE  LogStep(n)
BY IdleStep DEF Raise, ballotVars, Sends

\* Every step of the cluster is a step of one node.
LEMMA NextLogStep ==
  ASSUME TypeOK, SentToOthers, Next
  PROVE  \E n \in Node : LogStep(n)
<1>1. CASE Deliver
  <2>1. CASE ConflictRaises \/ AcknowledgeRaises
    <3>1. PICK n \in Node : TRUE
      BY FS_EmptySet DEF ConstantsAssumption
    <3> QED
      BY <2>1, <3>1, RaiseLogStep DEF ConflictRaises, AcknowledgeRaises
  <2>2. CASE AppendSucceeded
    <3>1. PICK m \in ForLeader("appended") : m.success /\ Acknowledge(m, m.match, FALSE)
      BY <2>2 DEF AppendSucceeded
    <3>2. /\ m \in Message /\ m \in BagToSet(net) /\ m.kind = "appended"
          /\ role[m.to] = LEADER /\ m.term = term[m.to]
      BY DEF ForLeader, Landed, TypeOK, NetOK
    <3> QED
      BY <3>1, <3>2, AcknowledgeLogStep
  <2>3. CASE OnInstalled
    <3>1. PICK m \in ForLeader("installed") : Acknowledge(m, m.lastIndex, TRUE)
      BY <2>3 DEF OnInstalled
    <3>2. /\ m \in Message /\ m \in BagToSet(net) /\ m.kind = "installed"
          /\ role[m.to] = LEADER /\ m.term = term[m.to]
      BY DEF ForLeader, Landed, TypeOK, NetOK
    <3> QED
      BY <3>1, <3>2, AcknowledgeLogStep
  <2> QED
    BY <1>1, <2>1, <2>2, <2>3, RefuseStaleLogStep, DropAtDownLogStep,
       OnRequestVoteLogStep, OnPreVoteRequestLogStep, CountVoteLogStep, IgnoreVoteLogStep,
       OnPreVoteLogStep, AcceptAppendLogStep, RejectAppendLogStep, RetryLogStep,
       IgnoreReplyLogStep, OnInstallLogStep DEF Deliver
<1>2. CASE \E n \in Node : Drive(n)
  <2>1. PICK n \in Node : Drive(n)
    BY <1>2
  <2>2. LogStep(n)
    BY <2>1, StandLogStep, HeartbeatLogStep, ProposeLogStep, CompactLogStep, CrashLogStep,
       RestartLogStep DEF Drive
  <2> QED
    BY <2>2
<1> QED
  BY <1>1, <1>2 DEF Next

-----------------------------------------------------------------------------
(* Who sends what, and what a leader keeps.                                *)

LEMMA ReplicateToAddress ==
  ASSUME NEW n, NEW p, NEW t, NEW l, NEW next, NEW commit, NEW state
  PROVE  LET m == ReplicateTo(n, p, t, l, next, commit, state)
         IN  m.from = n /\ m.to = p /\ m.term = t
BY DEF ReplicateTo, InstallMsg, AppendMsg

\* Only a node that leads sends appends and snapshots, and a node that leads is
\* remembered.
LEMMA LogStepSendsAsLeader ==
  ASSUME TypeOK', SentByLeaders, NEW n \in Node, LogStep(n),
         elected' = elected \cup Leading'
  PROVE  SentByLeaders'
<1>1. ASSUME NEW m \in BagToSet(net'), ~(m \in BagToSet(net))
      PROVE  /\ m.from # m.to
             /\ m.kind \in {"append", "install snapshot"} =>
                  Election(m.term, m.from) \in elected'
  <2>1. Sent(n, m)
    BY <1>1 DEF LogStep, Sends
  <2>2. m.from # m.to
    BY <2>1 DEF Sent
  <2>3. ASSUME m.kind \in {"append", "install snapshot"}
        PROVE  Election(m.term, m.from) \in elected'
    <3>1. role'[n] = LEADER /\ \E p \in Peers(n) :
            m = ReplicateTo(n, p, term'[n], log'[n], nextIndex'[n][p],
                            commitIndex'[n], machine'[n])
      BY <2>1, <2>3 DEF Sent
    <3>2. m.from = n /\ m.term = term'[n]
      BY <3>1, ReplicateToAddress
    <3>3. Election(term'[n], n) \in Leading'
      BY <3>1 DEF Leading
    <3> QED
      BY <3>2, <3>3
  <2> QED
    BY <2>2, <2>3
<1>2. ASSUME NEW m \in BagToSet(net)
      PROVE  /\ m.from # m.to
             /\ m.kind \in {"append", "install snapshot"} =>
                  Election(m.term, m.from) \in elected'
  BY DEF SentByLeaders, SentToOthers
<1> QED
  BY <1>1, <1>2 DEF SentByLeaders, SentToOthers

\* Appends and snapshots come from a node that was elected to lead their term.
THEOREM LeadersSend == HSpec => []SentByLeaders
<1>1. HInit => SentByLeaders
  BY DEF HInit, Init, SentByLeaders, SentToOthers, EmptyBag, SetToBag, BagToSet
<1>2. ASSUME TypeOK, TypeOK', SentByLeaders, [HNext]_allVars
      PROVE  SentByLeaders'
  <2>1. CASE HNext
    BY <1>2, <2>1, NextLogStep, LogStepSendsAsLeader DEF HNext, SentByLeaders
  <2>2. CASE UNCHANGED allVars
    BY <1>2, <2>2 DEF allVars, vars, SentByLeaders, SentToOthers
  <2> QED
    BY <1>2, <2>1, <2>2
<1> QED
  BY <1>1, <1>2, HistoryIsSpec, TypeCorrect, PTL DEF HSpec

\* Nobody but the node itself could have sent a leader what would change its log.
LEMMA LogStepAppendsOnly ==
  ASSUME TypeOK, TypeOK', SentByLeaders, OneLeaderPerTerm, Leading \subseteq elected,
         NEW q \in Node, LogStep(q), NEW n \in Node, role[n] = LEADER, term'[n] = term[n]
  PROVE  /\ LastIndex(log'[n]) >= LastIndex(log[n])
         /\ \A i \in 1..LastIndex(log[n]) :
              (Holds(log[n], i) /\ Holds(log'[n], i)) => At(log'[n], i) = At(log[n], i)
<1>1. log[n] \in LogOf(Entry) /\ LastIndex(log[n]) \in Nat /\ term[n] \in Nat
  BY LogTypes DEF TypeOK, BallotsOK
<1>2. CASE log'[n] = log[n]
  BY <1>1, <1>2
<1>3. CASE Writes(n)
  <2>1. PICK es \in Seq(Entry) : log'[n] = Extend(log[n], es)
    <3>1. PICK e \in Entry : log'[n] = Extend(log[n], <<e>>)
      BY <1>3 DEF Writes
    <3>2. <<e>> \in Seq(Entry)
      OBVIOUS
    <3> QED
      BY <3>1, <3>2
  <2>2. LastIndex(log'[n]) = LastIndex(log[n]) + Len(es) /\ Len(es) \in Nat
    BY <1>1, <2>1, ExtendType, LenProperties
  <2>3. \A i \in Int : Holds(log[n], i) => At(log'[n], i) = At(log[n], i)
    BY <1>1, <2>1, ExtendKeeps
  <2> QED
    BY <1>1, <2>2, <2>3
<1>4. CASE Compacts(n)
  <2>1. lastApplied[n] \in Int
    BY DEF TypeOK, MachinesOK
  <2> QED
    BY <1>1, <1>4, <2>1, CompactKeeps DEF Compacts
<1>5. ASSUME NEW a \in BagToSet(net), Accepts(n, a) \/ Installs(n, a)
      PROVE  FALSE
  <2>1. /\ a.kind \in {"append", "install snapshot"} /\ a.to = n
        /\ a.term = term[n]
    BY <1>5 DEF Accepts, Installs
  <2>2. Election(a.term, a.from) \in elected /\ a.from # a.to
    BY <2>1 DEF SentByLeaders, SentToOthers
  <2>3. Election(term[n], n) \in elected
    BY DEF Leading
  <2> QED
    BY <2>1, <2>2, <2>3 DEF OneLeaderPerTerm, Election
<1>6. CASE q # n
  BY <1>2, <1>6 DEF LogStep, Alone
<1>7. CASE q = n
  BY <1>2, <1>3, <1>4, <1>5, <1>7 DEF LogStep, LogMoves, Stays
<1> QED
  BY <1>6, <1>7

\* While a leader stays in its term its log only grows, whatever it receives and
\* whatever it compacts.
THEOREM LeadersAppendOnly == HSpec => LeaderAppendOnly
<1>1. ASSUME TypeOK, TypeOK', SentByLeaders, ElectedByBallot, [Next]_vars
      PROVE  [\A n \in Node : (role[n] = LEADER /\ term'[n] = term[n]) =>
                /\ LastIndex(log'[n]) >= LastIndex(log[n])
                /\ \A i \in 1..LastIndex(log[n]) :
                     (Holds(log[n], i) /\ Holds(log'[n], i))
                        => At(log'[n], i) = At(log[n], i)]_vars
  <2>1. CASE Next
    <3>1. PICK q \in Node : LogStep(q)
      BY <1>1, <2>1, NextLogStep DEF SentByLeaders
    <3>2. OneLeaderPerTerm /\ Leading \subseteq elected
      BY <1>1, OneLeader DEF ElectedByBallot, ElectedByMajority
    <3> QED
      BY <1>1, <3>1, <3>2, LogStepAppendsOnly
  <2>2. CASE UNCHANGED vars
    BY <2>2
  <2> QED
    BY <1>1, <2>1, <2>2
<1> QED
  BY <1>1, TypeCorrect, HistoryIsSpec, LeadersAreElected, LeadersSend, PTL
     DEF Spec, LeaderAppendOnly

-----------------------------------------------------------------------------
(* Pieces of log.                                                          *)

\* The record only grows: what it has of a leader's log stays.
Grown(led, more) ==
  \A t \in DOMAIN led : t \in DOMAIN more /\ Alike(led[t], more[t], Len(led[t]))

LEMMA AlikeFacts ==
  ASSUME NEW s \in Seq(Entry), NEW u \in Seq(Entry), NEW k \in Nat, Alike(s, u, k)
  PROVE  /\ Alike(u, s, k)
         /\ \A j \in Nat : j <= k => Alike(s, u, j)
         /\ \A i \in 1..k : i \in DOMAIN s /\ i \in DOMAIN u /\ s[i] = u[i]
<1>1. DOMAIN s = 1..Len(s) /\ DOMAIN u = 1..Len(u) /\ Len(s) \in Nat /\ Len(u) \in Nat
  BY LenProperties
<1> QED
  BY <1>1 DEF Alike

LEMMA AlikeTransitive ==
  ASSUME NEW s, NEW u, NEW v, NEW k, Alike(s, u, k), Alike(u, v, k)
  PROVE  Alike(s, v, k)
BY DEF Alike

LEMMA FollowsMore ==
  ASSUME NEW s \in Seq(Entry), NEW led, NEW more, Follows(s, led), Grown(led, more),
         Orderly(led)
  PROVE  Follows(s, more)
<1>1. ASSUME NEW k \in DOMAIN s
      PROVE  s[k].term \in DOMAIN more /\ Alike(s, more[s[k].term], k)
  <2> DEFINE t == s[k].term
  <2>1. t \in DOMAIN led /\ Alike(s, led[t], k)
    BY DEF Follows
  <2>2. t \in DOMAIN more /\ Alike(led[t], more[t], Len(led[t]))
    BY <2>1 DEF Grown
  <2>3. k \in Nat /\ Len(led[t]) \in Nat
    BY <2>1, LenProperties DEF Orderly
  <2> HIDE DEF t
  <2>4. k <= Len(led[t])
    BY <2>1 DEF Alike
  <2>5. Alike(led[t], more[t], k)
    BY <2>2, <2>3, <2>4 DEF Alike
  <2>6. Alike(s, more[t], k)
    BY <2>1, <2>5, AlikeTransitive
  <2> QED
    BY <2>2, <2>6 DEF t
<1> QED
  BY <1>1 DEF Follows

\* Two pieces that have an entry of the same term at the same index are copies of
\* the same log up to it.
LEMMA SameTermAlike ==
  ASSUME NEW s \in Seq(Entry), NEW u \in Seq(Entry), NEW led,
         Follows(s, led), Follows(u, led),
         NEW i, i \in DOMAIN s, i \in DOMAIN u, s[i].term = u[i].term
  PROVE  Alike(s, u, i)
<1>1. Alike(s, led[s[i].term], i) /\ Alike(u, led[s[i].term], i)
  BY DEF Follows
<1> QED
  BY <1>1 DEF Alike

LEMMA TermsNeverFall ==
  ASSUME NEW s \in Seq(Entry), NEW led, Follows(s, led), Orderly(led),
         NEW j \in DOMAIN s, NEW k \in DOMAIN s, j <= k
  PROVE  s[j].term <= s[k].term
<1> DEFINE t == s[k].term
<1>1. t \in DOMAIN led /\ Alike(s, led[t], k)
  BY DEF Follows
<1>2. led[t] \in Seq(Entry) /\ \A i \in DOMAIN led[t] : led[t][i].term <= t
  BY <1>1 DEF Orderly
<1>3. j \in 1..k /\ k \in Nat
  BY LenProperties
<1>4. j \in DOMAIN led[t]
  BY <1>1, <1>2, <1>3, LenProperties DEF Alike
<1>5. s[j] = led[t][j]
  BY <1>1, <1>3 DEF Alike
<1> QED
  BY <1>2, <1>4, <1>5

\* What a log without a beginning cut off is.
Plain(l) == l \in LogOf(Entry) /\ l.base = 0 /\ l.baseTerm = 0

LEMMA PlainLog ==
  ASSUME NEW l, Plain(l)
  PROVE  /\ l.entries \in Seq(Entry) /\ Len(l.entries) \in Nat
         /\ DOMAIN l.entries = 1..Len(l.entries)
         /\ FirstIndex(l) = 1 /\ LastIndex(l) = Len(l.entries)
         /\ \A i \in Int : At(l, i) = l.entries[i]
         /\ \A i \in Int : Holds(l, i) <=> i \in DOMAIN l.entries
         /\ \A i \in Int : i # 0 => TermAt(l, i) = l.entries[i].term
         /\ TermAt(l, 0) = 0
BY WholeLog DEF Plain, Whole

\* What an append of a piece of the log `u' does to a log that follows the same record:
\* it becomes a beginning of u, or had what was sent already; and nothing goes that u
\* has too.
LEMMA MergeOfPiece ==
  ASSUME NEW l, Plain(l), NEW u \in Seq(Entry), NEW led,
         Follows(l.entries, led), Follows(u, led),
         NEW m, m.prevIndex \in Nat, m.entries \in Seq(Entry), PieceOf(m, u),
         Matches(l, m.prevIndex, m.prevTerm),
         NEW r, r = Merge(l, m.prevIndex, m.entries)
  PROVE  /\ Plain(r)
         /\ Alike(r.entries, u, m.prevIndex + Len(m.entries))
         /\ \/ r = l
            \/ Alike(r.entries, u, Len(r.entries))
         /\ \A i \in DOMAIN l.entries :
              (i \in DOMAIN u /\ l.entries[i].term = u[i].term)
                => i \in DOMAIN r.entries /\ r.entries[i] = l.entries[i]
<1>1. Whole(l, Entry)
  BY DEF Plain, Whole
<1>2. TermsTell(l.entries, u)
  <2> SUFFICES ASSUME NEW i, i \in DOMAIN l.entries, i \in DOMAIN u, l.entries[i].term = u[i].term
               PROVE  SameUpTo(l.entries, u, i)
    BY DEF TermsTell
  <2>1. Alike(l.entries, u, i)
    <3>1. l.entries \in Seq(Entry)
      BY PlainLog
    <3> QED
      BY <3>1, SameTermAlike
  <2> QED
    BY <2>1 DEF Alike, SameUpTo
<1>3. /\ m.prevIndex + Len(m.entries) <= Len(u)
      /\ \A k \in DOMAIN m.entries : m.entries[k] = u[m.prevIndex + k]
      /\ m.prevTerm = IF m.prevIndex = 0 THEN 0 ELSE u[m.prevIndex].term
  BY DEF PieceOf
<1>4. /\ Whole(r, Entry)
      /\ SameUpTo(r.entries, u, m.prevIndex + Len(m.entries))
      /\ r = l \/ SameUpTo(r.entries, u, Len(r.entries))
      /\ \A i \in DOMAIN l.entries :
           (i \in DOMAIN u /\ l.entries[i].term = u[i].term)
             => i \in DOMAIN r.entries /\ r.entries[i] = l.entries[i]
  <2> DEFINE prev == m.prevIndex
             es   == m.entries
             t    == m.prevTerm
  <2>1. prev \in Nat /\ es \in Seq(Entry) /\ Matches(l, prev, t) /\ r = Merge(l, prev, es)
    OBVIOUS
  <2> HIDE DEF prev, es, t
  <2>2. /\ prev + Len(es) <= Len(u) /\ \A k \in DOMAIN es : es[k] = u[prev + k]
        /\ t = IF prev = 0 THEN 0 ELSE u[prev].term
    BY <1>3 DEF prev, es, t
  <2>3. /\ Whole(r, Entry) /\ SameUpTo(r.entries, u, prev + Len(es))
        /\ r = l \/ SameUpTo(r.entries, u, Len(r.entries))
        /\ \A i \in DOMAIN l.entries :
             (i \in DOMAIN u /\ l.entries[i].term = u[i].term)
               => i \in DOMAIN r.entries /\ r.entries[i] = l.entries[i]
    BY <1>1, <1>2, <2>1, <2>2, MergeOfPart, SMTT(30)
  <2> QED
    BY <2>3 DEF prev, es
<1> QED
  BY <1>4 DEF Alike, SameUpTo, Plain, Whole

\* A log with one entry more.
LEMMA WritesOne ==
  ASSUME NEW l, Plain(l), NEW e \in Entry, NEW r, r = Extend(l, <<e>>)
  PROVE  /\ Plain(r) /\ Len(r.entries) = Len(l.entries) + 1
         /\ r.entries[Len(l.entries) + 1] = e
         /\ \A i \in DOMAIN l.entries :
              i \in DOMAIN r.entries /\ r.entries[i] = l.entries[i]
<1> DEFINE s == l.entries
           es == <<e>>
<1>1. es \in Seq(Entry) /\ Len(es) = 1 /\ es[1] = e
  OBVIOUS
<1>2. s \in Seq(Entry) /\ Len(s) \in Nat /\ DOMAIN s = 1..Len(s)
  BY PlainLog
<1>3. r.entries = s \o es /\ r.base = 0 /\ r.baseTerm = 0
  BY DEF Extend, Plain, LogOf
<1>4. r \in LogOf(Entry)
  BY <1>1, ExtendType DEF Plain
<1> HIDE DEF es
<1>5. /\ s \o es \in Seq(Entry) /\ Len(s \o es) = Len(s) + Len(es)
      /\ \A i \in 1..(Len(s) + Len(es)) :
           (s \o es)[i] = IF i <= Len(s) THEN s[i] ELSE es[i - Len(s)]
  BY <1>1, <1>2, ConcatProperties, ZenonT(30)
<1>6. DOMAIN r.entries = 1..(Len(s) + 1)
  BY <1>1, <1>3, <1>5, LenProperties
<1>7. Len(s) + 1 \in 1..(Len(s) + Len(es)) /\ ~(Len(s) + 1 <= Len(s))
      /\ Len(s) + 1 - Len(s) = 1
  BY <1>1, <1>2
<1>8. r.entries[Len(s) + 1] = e
  BY <1>1, <1>3, <1>5, <1>7
<1>9. \A i \in DOMAIN s : i \in DOMAIN r.entries /\ r.entries[i] = s[i]
  BY <1>1, <1>2, <1>3, <1>5, <1>6
<1> QED
  BY <1>1, <1>3, <1>4, <1>5, <1>8, <1>9 DEF Plain

LEMMA AppendFields ==
  ASSUME NEW n, NEW p, NEW t, NEW l, NEW start, NEW commit, NEW m,
         m = AppendMsg(n, p, t, l, start, commit)
  PROVE  /\ m.kind = "append" /\ m.from = n /\ m.to = p /\ m.term = t
         /\ m.commit = commit
         /\ m.prevIndex = start - 1 /\ m.prevTerm = TermAt(l, start - 1)
         /\ m.entries = Slice(l, start, start + MaxBatch - 1)
BY DEF AppendMsg

\* What a leader sends from a log that is all there is a piece of it, and reaches the
\* end of a log that fits in one append.
LEMMA ReplicationIsPiece ==
  ASSUME NEW l, Plain(l), NEW next \in Nat, next >= 1,
         NEW n, NEW p, NEW t, NEW commit, NEW state,
         NEW m, m = ReplicateTo(n, p, t, l, next, commit, state)
  PROVE  /\ m.kind = "append" /\ m.from = n /\ m.to = p /\ m.term = t
         /\ m.commit = commit
         /\ PieceOf(m, l.entries)
         /\ Len(l.entries) <= MaxBatch => m.prevIndex + Len(m.entries) = Len(l.entries)
<1> DEFINE s     == l.entries
           start == Min({next, LastIndex(l) + 1})
           stop  == Min({start + MaxBatch - 1, LastIndex(l)})
<1>1. s \in Seq(Entry) /\ Len(s) \in Nat /\ DOMAIN s = 1..Len(s) /\ LastIndex(l) = Len(s)
  BY PlainLog
<1>2. start \in Nat /\ start >= 1 /\ start <= Len(s) + 1
  <2>1. Len(s) + 1 \in Nat /\ Len(s) + 1 >= 1 /\ LastIndex(l) + 1 = Len(s) + 1
    BY <1>1
  <2>2. start = IF next <= LastIndex(l) + 1 THEN next ELSE LastIndex(l) + 1
    BY <2>1, MinOfPair
  <2> QED
    BY <2>1, <2>2
<1>3. m = AppendMsg(n, p, t, l, start, commit)
  BY <1>2 DEF ReplicateTo, Plain
<1>4. /\ stop \in Int /\ stop <= Len(s) /\ stop >= start - 1
      /\ Len(s) <= MaxBatch => stop = Len(s)
  <2>1. start + MaxBatch - 1 \in Int /\ start + MaxBatch - 1 >= start
    BY <1>2 DEF ConstantsAssumption
  <2>2. stop = IF start + MaxBatch - 1 <= LastIndex(l) THEN start + MaxBatch - 1 ELSE LastIndex(l)
    BY <1>1, <2>1, MinOfPair, SMTT(30)
  <2> QED
    BY <1>1, <1>2, <2>1, <2>2 DEF ConstantsAssumption
<1>5. /\ m.kind = "append" /\ m.from = n /\ m.to = p /\ m.term = t /\ m.commit = commit
      /\ m.prevIndex = start - 1 /\ m.prevTerm = TermAt(l, start - 1)
      /\ m.entries = SubSeq(s, start, stop)
  <2>1. start - l.base = start /\ stop - l.base = stop
    BY <1>2, <1>4 DEF Plain
  <2>2. Slice(l, start, start + MaxBatch - 1) = SubSeq(s, start, stop)
    BY <2>1 DEF Slice
  <2> HIDE DEF start, stop
  <2> QED
    BY <1>3, <2>2, AppendFields
<1> HIDE DEF start, stop
<1>6. /\ SubSeq(s, start, stop) \in Seq(Entry)
      /\ Len(SubSeq(s, start, stop)) = stop - start + 1
      /\ \A i \in 1..(stop - start + 1) : SubSeq(s, start, stop)[i] = s[start + i - 1]
  <2>1. \A i \in start..stop : s[i] \in Entry
    BY <1>1, <1>2, <1>4, ElementOfSeq
  <2>2. (IF start <= stop THEN stop - start + 1 ELSE 0) = stop - start + 1
    BY <1>2, <1>4
  <2> QED
    BY <1>2, <1>4, <2>1, <2>2, SubSeqProperties
<1>7. m.prevIndex + Len(m.entries) <= Len(s)
  BY <1>1, <1>2, <1>4, <1>5, <1>6
<1>8. ASSUME NEW k \in DOMAIN m.entries PROVE m.entries[k] = s[m.prevIndex + k]
  <2>1. k \in 1..(stop - start + 1)
    BY <1>5, <1>6, LenProperties
  <2>2. start + k - 1 = start - 1 + k
    BY <1>2, <2>1
  <2> QED
    BY <1>5, <1>6, <2>1, <2>2
<1>9. Len(s) <= MaxBatch => m.prevIndex + Len(m.entries) = Len(s)
  <2>1. m.prevIndex + Len(m.entries) = (start - 1) + (stop - start + 1)
    BY <1>5, <1>6
  <2>2. (start - 1) + (stop - start + 1) = stop
    BY <1>2, <1>4
  <2> QED
    BY <1>4, <2>1, <2>2
<1>10. m.prevTerm = IF m.prevIndex = 0 THEN 0 ELSE s[m.prevIndex].term
  BY <1>2, <1>5, PlainLog
<1> QED
  BY <1>5, <1>7, <1>8, <1>9, <1>10 DEF PieceOf

-----------------------------------------------------------------------------
(* A step of one node, and what it does to the record.                     *)

Known == TypeOK /\ ElectedByBallot /\ SentByLeaders

Step(n) == ~Compaction /\ Known /\ Known' /\ LogsAgree /\ RNext /\ LogStep(n)

LEMMA PlainNow ==
  ASSUME TypeOK, Uncompacted, NEW p \in Node
  PROVE  /\ Plain(log[p]) /\ Entries(p) = log[p].entries
         /\ term[p] \in Nat
BY DEF TypeOK, BallotsOK, LogsOK, Uncompacted, Plain, Entries

\* Without compaction a log moves in three ways.
LEMMA StepMoves ==
  ASSUME NEW n \in Node, Step(n)
  PROVE  /\ Stays(n) \/ Writes(n) \/ \E a \in BagToSet(net) : Accepts(n, a)
         /\ \A p \in Node : /\ term[p] \in Nat /\ term'[p] \in Nat
                            /\ term'[p] >= term[p]
         /\ \A p \in Node \ {n} :
              term'[p] = term[p] /\ role'[p] = role[p] /\ log'[p] = log[p]
<1>1. \A a \in BagToSet(net) : ~Installs(n, a)
  BY DEF Step, LogsAgree, Uncompacted, Installs
<1>2. Stays(n) \/ Writes(n) \/ \E a \in BagToSet(net) : Accepts(n, a)
  BY <1>1 DEF Step, LogStep, LogMoves, Compacts
<1>3. \A p \in Node : term[p] \in Nat /\ term'[p] \in Nat
  BY DEF Step, Known, TypeOK, BallotsOK
<1>4. \A p \in Node \ {n} :
        term'[p] = term[p] /\ role'[p] = role[p] /\ log'[p] = log[p]
  BY DEF Step, LogStep, Alone
<1>5. term'[n] >= term[n]
  BY <1>2, <1>3 DEF Stays, Writes, Accepts
<1>6. \A p \in Node : term'[p] >= term[p]
  BY <1>3, <1>4, <1>5
<1> QED
  BY <1>2, <1>3, <1>4, <1>6

LEMMA StepWrites ==
  ASSUME NEW n \in Node, Step(n), Writes(n)
  PROVE  /\ Plain(log'[n]) /\ Len(Entries(n)') = Len(Entries(n)) + 1
         /\ Entries(n)'[Len(Entries(n)) + 1].term = term[n]
         /\ \A i \in DOMAIN Entries(n) :
              i \in DOMAIN Entries(n)' /\ Entries(n)'[i] = Entries(n)[i]
<1>1. PICK e \in Entry : e.term = term[n] /\ log'[n] = Extend(log[n], <<e>>)
  BY DEF Writes
<1>2. Plain(log[n])
  BY PlainNow DEF Step, Known, LogsAgree
<1> QED
  BY <1>1, <1>2, WritesOne, SMTT(30) DEF Entries

LEMMA StepAccepts ==
  ASSUME NEW n \in Node, Step(n), NEW a \in BagToSet(net), Accepts(n, a)
  PROVE  /\ term'[n] = a.term /\ a.term \in Nat /\ a.term \in DOMAIN lines
         /\ a.prevIndex + Len(a.entries) \in Nat
         /\ a.prevIndex + Len(a.entries) <= Len(lines[a.term])
         /\ Plain(log'[n])
         /\ Alike(Entries(n)', lines[a.term], a.prevIndex + Len(a.entries))
         /\ \/ Entries(n)' = Entries(n)
            \/ Alike(Entries(n)', lines[a.term], Len(Entries(n)'))
         /\ \A i \in DOMAIN Entries(n) :
              (i \in DOMAIN lines[a.term] /\ Entries(n)[i].term = lines[a.term][i].term)
                => i \in DOMAIN Entries(n)' /\ Entries(n)'[i] = Entries(n)[i]
<1>1. a \in Message /\ a.kind = "append"
  BY DEF Step, Known, TypeOK, NetOK, Accepts
<1>2. a.term \in Nat /\ a.prevIndex \in Nat /\ a.entries \in Seq(Entry)
  BY <1>1, MessageFields
<1>3. /\ a.term \in DOMAIN lines /\ PieceOf(a, lines[a.term])
      /\ lines[a.term] \in Seq(Entry) /\ Follows(lines[a.term], lines)
      /\ Follows(Entries(n), lines)
  BY <1>1 DEF Step, LogsAgree, AppendsFollow, LogsFollow, Orderly
<1>4. Plain(log[n]) /\ Entries(n) = log[n].entries
  BY PlainNow DEF Step, Known, LogsAgree
<1>5. /\ Matches(log[n], a.prevIndex, a.prevTerm)
      /\ log'[n] = Merge(log[n], a.prevIndex, a.entries)
      /\ term'[n] = a.term
  BY DEF Accepts
<1>6. /\ Plain(log'[n])
      /\ Alike(log'[n].entries, lines[a.term], a.prevIndex + Len(a.entries))
      /\ \/ log'[n] = log[n]
         \/ Alike(log'[n].entries, lines[a.term], Len(log'[n].entries))
      /\ \A i \in DOMAIN log[n].entries :
           (i \in DOMAIN lines[a.term] /\ log[n].entries[i].term = lines[a.term][i].term)
             => i \in DOMAIN log'[n].entries /\ log'[n].entries[i] = log[n].entries[i]
  BY <1>2, <1>3, <1>4, <1>5, MergeOfPiece, SMTT(30)
<1>7. a.prevIndex + Len(a.entries) \in Nat /\ a.prevIndex + Len(a.entries) <= Len(lines[a.term])
  BY <1>2, <1>3, LenProperties DEF PieceOf
<1> QED
  BY <1>2, <1>3, <1>5, <1>6, <1>7 DEF Entries

\* The record has a leader's log as it is, from the moment it leads.
LEMMA StepRecords ==
  ASSUME NEW n \in Node, Step(n)
  PROVE  /\ DOMAIN lines' = DOMAIN lines \cup {term'[q] : q \in Leaders'}
         /\ \A q \in Leaders' : lines'[term'[q]] = Entries(q)'
         /\ \A t \in DOMAIN lines :
              (\A q \in Leaders' : term'[q] # t) => lines'[t] = lines[t]
<1> DEFINE led(t)   == \E q \in Leaders' : term'[q] = t
           leader(t) == CHOOSE q \in Leaders' : term'[q] = t
           known    == DOMAIN lines \cup {term'[q] : q \in Leaders'}
<1>1. lines' = [t \in known |-> IF led(t) THEN log'[leader(t)].entries ELSE lines[t]]
  BY DEF Step, RNext
<1>2. ASSUME NEW q \in Leaders' PROVE lines'[term'[q]] = Entries(q)'
  <2>1. led(term'[q]) /\ term'[q] \in known
    OBVIOUS
  <2>2. leader(term'[q]) \in Leaders' /\ term'[leader(term'[q])] = term'[q]
    BY <2>1
  <2>3. \A p \in Leaders' : Election(term'[p], p) \in elected'
    BY DEF Step, RNext, HNext, Leaders, Leading
  <2>4. OneLeaderPerTerm'
    <3>1. ElectedByBallot'
      BY DEF Step, Known
    <3> QED
      BY <3>1, OneLeader, PTL
  <2>5. leader(term'[q]) = q
    <3> HIDE DEF leader
    <3> QED
      BY <2>2, <2>3, <2>4 DEF OneLeaderPerTerm, Election
  <2> HIDE DEF known, led, leader
  <2> QED
    BY <1>1, <2>1, <2>5 DEF Entries
<1>3. ASSUME NEW t \in DOMAIN lines, ~led(t) PROVE lines'[t] = lines[t]
  <2>1. t \in known
    OBVIOUS
  <2> HIDE DEF known, led, leader
  <2> QED
    BY <1>1, <1>3, <2>1
<1> QED
  BY <1>1, <1>2, <1>3

\* One line of the record changes, if any: that of a leader that writes an entry.
LEMMA StepLines ==
  ASSUME NEW n \in Node, Step(n)
  PROVE  /\ DOMAIN lines \subseteq DOMAIN lines'
         /\ \A t \in DOMAIN lines' :
              \/ t \in DOMAIN lines /\ lines'[t] = lines[t]
              \/ Writes(n) /\ t = term[n] /\ lines'[t] = Entries(n)'
         /\ Writes(n) =>
              \/ /\ role[n] = LEADER
                 /\ term[n] \in DOMAIN lines /\ lines[term[n]] = Entries(n)
              \/ role[n] = CANDIDATE /\ term[n] \notin DOMAIN lines
         /\ Grown(lines, lines')
<1>1. /\ DOMAIN lines' = DOMAIN lines \cup {term'[q] : q \in Leaders'}
      /\ \A q \in Leaders' : lines'[term'[q]] = Entries(q)'
      /\ \A t \in DOMAIN lines :
           (\A q \in Leaders' : term'[q] # t) => lines'[t] = lines[t]
  BY StepRecords
<1>2. /\ DOMAIN lines = {e.term : e \in elected}
      /\ \A q \in Leaders : lines[term[q]] = Entries(q) /\ term[q] \in DOMAIN lines
  <2>1. \A q \in Leaders : Election(term[q], q) \in elected
    BY DEF Step, Known, ElectedByBallot, ElectedByMajority, Leading, Leaders
  <2>2. DOMAIN lines = {e.term : e \in elected} /\ \A q \in Leaders : lines[term[q]] = Entries(q)
    BY DEF Step, LogsAgree, LinesAreLed
  <2>3. ASSUME NEW q \in Leaders PROVE term[q] \in {e.term : e \in elected}
    <3>1. Election(term[q], q).term = term[q]
      BY DEF Election
    <3> QED
      BY <2>1, <3>1
  <2> QED
    BY <2>2, <2>3
<1>3. ASSUME NEW q \in Leaders', ~(q = n /\ Writes(n))
      PROVE  q \in Leaders /\ term'[q] = term[q] /\ Entries(q)' = Entries(q)
  <2>1. q \in Node /\ role'[q] = LEADER
    BY DEF Leaders
  <2>2. CASE q # n
    BY <2>1, <2>2, StepMoves DEF Leaders, Entries
  <2>3. CASE q = n
    <3>1. Stays(n)
      BY <1>3, <2>1, <2>3, StepMoves DEF Accepts, LEADER, FOLLOWER
    <3> QED
      BY <2>1, <2>3, <3>1 DEF Stays, Leaders, Entries
  <2> QED
    BY <2>2, <2>3
<1>4. ASSUME NEW t \in DOMAIN lines'
      PROVE  \/ t \in DOMAIN lines /\ lines'[t] = lines[t]
             \/ Writes(n) /\ t = term[n] /\ lines'[t] = Entries(n)'
  <2>1. CASE \A q \in Leaders' : term'[q] # t
    BY <1>1, <2>1
  <2>2. ASSUME NEW q \in Leaders', term'[q] = t
        PROVE  \/ t \in DOMAIN lines /\ lines'[t] = lines[t]
               \/ Writes(n) /\ t = term[n] /\ lines'[t] = Entries(n)'
    <3>1. CASE q = n /\ Writes(n)
      BY <1>1, <2>2, <3>1 DEF Writes
    <3>2. CASE ~(q = n /\ Writes(n))
      BY <1>1, <1>2, <1>3, <2>2, <3>2
    <3> QED
      BY <3>1, <3>2
  <2> QED
    BY <2>1, <2>2
<1>5. ASSUME Writes(n)
      PROVE  \/ /\ role[n] = LEADER
                /\ term[n] \in DOMAIN lines /\ lines[term[n]] = Entries(n)
             \/ role[n] = CANDIDATE /\ term[n] \notin DOMAIN lines
  <2>1. CASE role[n] = LEADER
    BY <1>2, <2>1 DEF Leaders
  <2>2. CASE role[n] = CANDIDATE
    <3> SUFFICES ASSUME NEW e \in elected, e.term = term[n] PROVE FALSE
      BY <1>2, <2>2
    <3>1. e \in elected' /\ Election(term'[n], n) \in elected'
      BY <1>5 DEF Step, RNext, HNext, Leading, Writes
    <3>2. term'[n] = term[n]
      BY <1>5 DEF Writes
    <3>3. OneLeaderPerTerm'
      <4>1. ElectedByBallot'
        BY DEF Step, Known
      <4> QED
        BY <4>1, OneLeader, PTL
    <3>4. e.node = n
      BY <3>1, <3>2, <3>3 DEF OneLeaderPerTerm, Election
    <3>5. e.term < term[n]
      BY <2>2, <3>4 DEF Step, LogsAgree, LinesAreLed
    <3>6. term[n] \in Nat
      BY StepMoves
    <3> QED
      BY <3>5, <3>6
  <2> QED
    BY <1>5, <2>1, <2>2 DEF Writes
<1>6. ASSUME NEW t \in DOMAIN lines
      PROVE  t \in DOMAIN lines' /\ Alike(lines[t], lines'[t], Len(lines[t]))
  <2>1. t \in DOMAIN lines'
    BY <1>1
  <2>2. lines[t] \in Seq(Entry) /\ Len(lines[t]) \in Nat
    BY LenProperties DEF Step, LogsAgree, LogsFollow, Orderly
  <2>3. CASE lines'[t] = lines[t]
    BY <2>1, <2>2, <2>3 DEF Alike
  <2>4. CASE Writes(n) /\ t = term[n] /\ lines'[t] = Entries(n)'
    <3>1. lines[t] = Entries(n)
      BY <1>5, <2>4
    <3>2. DOMAIN Entries(n) = 1..Len(Entries(n))
      BY <2>2, <3>1, LenProperties
    <3>3. Alike(Entries(n), Entries(n)', Len(Entries(n)))
      <4>1. Len(Entries(n)') = Len(Entries(n)) + 1
        BY <2>4, StepWrites
      <4>2. \A i \in 1..Len(Entries(n)) : Entries(n)[i] = Entries(n)'[i]
        BY <2>4, <3>2, StepWrites
      <4>3. Len(Entries(n)) \in Nat
        BY <2>2, <3>1
      <4> QED
        BY <4>1, <4>2, <4>3 DEF Alike
    <3> QED
      BY <2>1, <2>4, <3>1, <3>3
  <2> QED
    BY <1>4, <2>1, <2>3, <2>4
<1> QED
  BY <1>1, <1>4, <1>5, <1>6 DEF Grown

LEMMA LeaderSendsPiece ==
  ASSUME NEW n \in Node, Step(n), role'[n] = LEADER, Plain(log'[n]), NEW p \in Peers(n),
         NEW m, m = ReplicateTo(n, p, term'[n], log'[n], nextIndex'[n][p],
                                commitIndex'[n], machine'[n])
  PROVE  /\ m.kind = "append" /\ m.term = term'[n] /\ m.from = n
         /\ m.commit = commitIndex'[n]
         /\ PieceOf(m, Entries(n)')
         /\ Len(Entries(n)') <= MaxBatch
              => m.prevIndex + Len(m.entries) = Len(Entries(n)')
<1>1. p \in Node
  BY DEF Peers
<1>2. nextIndex'[n][p] >= 1
  BY <1>1 DEF Step, LogStep, Counts, LogsAgree, Uncompacted, Leaders
<1>3. nextIndex'[n][p] \in Nat
  <2>1. nextIndex' \in [Node -> [Node -> Nat]]
    BY DEF Step, Known, TypeOK, LeadersOK
  <2>2. nextIndex'[n] \in [Node -> Nat]
    BY <2>1
  <2> QED
    BY <1>1, <2>2
<1> QED
  BY <1>2, <1>3, ReplicationIsPiece DEF Entries

\* What a node sends to a follower is an append, and a piece of its log.
LEMMA StepSendsPieces ==
  ASSUME NEW n \in Node, Step(n), Plain(log'[n]), NEW m \in BagToSet(net') \ BagToSet(net)
  PROVE  m.kind \in {"append", "install snapshot"} =>
           /\ m.kind = "append" /\ m.term = term'[n] /\ m.from = n /\ n \in Leaders'
           /\ m.commit = commitIndex'[n]
           /\ PieceOf(m, Entries(n)')
           /\ Len(Entries(n)') <= MaxBatch
                => m.prevIndex + Len(m.entries) = Len(Entries(n)')
<1>1. Sent(n, m)
  BY DEF Step, LogStep, Sends
<1>2. m.kind \in {"append", "install snapshot"} =>
        /\ role'[n] = LEADER
        /\ \E p \in Peers(n) : m = ReplicateTo(n, p, term'[n], log'[n], nextIndex'[n][p],
                                              commitIndex'[n], machine'[n])
  BY <1>1 DEF Sent
<1>3. ASSUME role'[n] = LEADER, NEW p \in Peers(n),
             m = ReplicateTo(n, p, term'[n], log'[n], nextIndex'[n][p],
                             commitIndex'[n], machine'[n])
      PROVE  /\ m.kind = "append" /\ m.term = term'[n] /\ m.from = n
             /\ m.commit = commitIndex'[n]
             /\ PieceOf(m, Entries(n)')
             /\ Len(Entries(n)') <= MaxBatch
                  => m.prevIndex + Len(m.entries) = Len(Entries(n)')
  BY <1>3, LeaderSendsPiece
<1>4. role'[n] = LEADER => n \in Leaders'
  BY DEF Leaders
<1> QED
  BY <1>2, <1>3, <1>4

LEMMA StepPlain ==
  ASSUME NEW n \in Node, Step(n), NEW p \in Node
  PROVE  Plain(log'[p])
<1>1. Plain(log[p])
  BY PlainNow DEF Step, Known, LogsAgree
<1>2. CASE p # n
  BY <1>1, <1>2, StepMoves
<1>3. CASE p = n
  BY <1>1, <1>3, StepMoves, StepWrites, StepAccepts DEF Stays
<1> QED
  BY <1>2, <1>3

LEMMA StepUncompacted ==
  ASSUME NEW n \in Node, Step(n)
  PROVE  Uncompacted'
<1>1. \A p \in Node : log'[p].base = 0 /\ log'[p].baseTerm = 0
  BY StepPlain DEF Plain
<1>2. ASSUME NEW q \in Leaders', NEW p \in Node
      PROVE  nextIndex'[q][p] >= 1
  <2>1. q \in Node /\ role'[q] = LEADER
    BY DEF Leaders
  <2>2. CASE q = n
    BY <2>1, <2>2 DEF Step, LogStep, Counts, LogsAgree, Uncompacted, Leaders
  <2>3. CASE q # n
    BY <2>1, <2>3 DEF Step, LogStep, Alone, LogsAgree, Uncompacted, Leaders
  <2> QED
    BY <2>2, <2>3
<1>3. ASSUME NEW m \in BagToSet(net')
      PROVE  m.kind \notin {"install snapshot", "installed"}
  <2>1. CASE m \in BagToSet(net)
    BY <2>1 DEF Step, LogsAgree, Uncompacted
  <2>2. CASE m \notin BagToSet(net)
    <3>1. m.kind # "install snapshot"
      BY <2>2, StepPlain, StepSendsPieces
    <3>2. m.kind # "installed"
      BY <2>2 DEF Step, LogStep, Sends, Sent, LogsAgree, Uncompacted
    <3> QED
      BY <3>1, <3>2
  <2> QED
    BY <2>1, <2>2
<1> QED
  BY <1>1, <1>2, <1>3 DEF Uncompacted

LEMMA StepLinesAreLed ==
  ASSUME NEW n \in Node, Step(n)
  PROVE  LinesAreLed'
<1>1. /\ elected' = elected \cup Leading'
      /\ \A e \in elected : e.term \in Nat /\ e.node \in Node
      /\ DOMAIN lines = {e.term : e \in elected}
  BY DEF Step, RNext, HNext, Known, ElectedByBallot, LogsAgree, LinesAreLed
<1>2. DOMAIN lines' = {e.term : e \in elected'}
  <2>1. {term'[q] : q \in Leaders'} = {e.term : e \in Leading'}
    <3>1. \A q \in Leaders' : Election(term'[q], q) \in Leading' /\ Election(term'[q], q).term = term'[q]
      BY DEF Leaders, Leading, Election
    <3>2. \A e \in Leading' : \E q \in Leaders' : e.term = term'[q]
      BY DEF Leaders, Leading, Election
    <3> QED
      BY <3>1, <3>2
  <2>2. DOMAIN lines' = DOMAIN lines \cup {term'[q] : q \in Leaders'}
    BY StepRecords
  <2> QED
    BY <1>1, <2>1, <2>2
<1>3. \A q \in Leaders' : lines'[term'[q]] = Entries(q)'
  BY StepRecords
<1>4. ASSUME NEW e \in elected'
      PROVE  /\ e.term <= term'[e.node]
             /\ role'[e.node] = CANDIDATE => e.term < term'[e.node]
  <2>1. CASE e \in Leading'
    <3>1. PICK q \in Node : role'[q] = LEADER /\ e.term = term'[q] /\ e.node = q
      BY <2>1 DEF Leading, Election
    <3> QED
      BY <3>1, StepMoves DEF LEADER, CANDIDATE
  <2>2. CASE e \in elected
    <3> DEFINE q == e.node
    <3>1. /\ q \in Node /\ e.term \in Nat /\ e.term <= term[q]
          /\ role[q] = CANDIDATE => e.term < term[q]
          /\ term[q] \in Nat /\ term'[q] \in Nat /\ term'[q] >= term[q]
      BY <1>1, <2>2, StepMoves DEF Step, LogsAgree, LinesAreLed
    <3>2. role'[q] = CANDIDATE => role[q] = CANDIDATE \/ term'[q] = term[q] + 1
      <4>1. CASE q # n
        BY <3>1, <4>1, StepMoves
      <4>2. CASE q = n
        BY <4>2, StepMoves DEF Stays, Writes, Accepts, LEADER, CANDIDATE, FOLLOWER
      <4> QED
        BY <4>1, <4>2
    <3> QED
      BY <3>1, <3>2
  <2> QED
    BY <1>1, <2>1, <2>2
<1> QED
  BY <1>2, <1>3, <1>4 DEF LinesAreLed

LEMMA StepLogsFollow ==
  ASSUME NEW n \in Node, Step(n)
  PROVE  LogsFollow'
<1>1. /\ Orderly(lines) /\ Grown(lines, lines')
      /\ \A p \in Node : /\ Follows(Entries(p), lines)
                         /\ Entries(p) \in Seq(Entry)
                         /\ \A k \in DOMAIN Entries(p) : Entries(p)[k].term <= term[p]
  <2>1. \A p \in Node : Entries(p) \in Seq(Entry)
    BY PlainNow, PlainLog DEF Step, Known, LogsAgree
  <2> QED
    BY <2>1, StepLines DEF Step, LogsAgree, LogsFollow
<1>2. \A p \in Node : /\ Entries(p)' \in Seq(Entry)
                      /\ term[p] \in Nat /\ term'[p] \in Nat /\ term'[p] >= term[p]
  <2>1. \A p \in Node : Entries(p)' \in Seq(Entry)
    BY StepPlain, PlainLog DEF Entries
  <2> QED
    BY <2>1, StepMoves
<1>3. ASSUME NEW p \in Node
      PROVE  /\ Follows(Entries(p)', lines')
             /\ \A k \in DOMAIN Entries(p)' : Entries(p)'[k].term <= term'[p]
  <2>1. Follows(Entries(p), lines')
    BY <1>1, FollowsMore
  <2>2. \A k \in DOMAIN Entries(p) :
          Entries(p)[k].term \in Nat /\ Entries(p)[k].term <= term'[p]
    <3>1. \A k \in DOMAIN Entries(p) : Entries(p)[k].term \in Nat
      BY <1>1, EntryTerm, ElementOfSeq, LenProperties
    <3> QED
      BY <1>1, <1>2, <3>1, SMTT(30)
  <2>3. CASE Entries(p)' = Entries(p)
    BY <2>1, <2>2, <2>3
  <2>4. CASE p = n /\ Writes(n)
    <3> DEFINE s == Entries(n)
               u == Entries(n)'
    <3>1. /\ DOMAIN s = 1..Len(s) /\ DOMAIN u = 1..(Len(s) + 1) /\ Len(s) \in Nat
          /\ u \in Seq(Entry) /\ Len(u) = Len(s) + 1
      BY <1>1, <1>2, <2>4, StepWrites, LenProperties
    <3>2. /\ u[Len(s) + 1].term = term'[n]
          /\ \A i \in DOMAIN s : u[i] = s[i]
      BY <2>4, StepWrites DEF Writes
    <3>3. term'[n] \in DOMAIN lines' /\ lines'[term'[n]] = u
      BY <2>4, StepRecords DEF Leaders, Writes
    <3>4. ASSUME NEW k \in DOMAIN u
          PROVE  /\ u[k].term \in DOMAIN lines' /\ Alike(u, lines'[u[k].term], k)
                 /\ u[k].term <= term'[n]
      <4>1. CASE k = Len(s) + 1
        <5>1. Alike(u, u, k)
          BY <3>1, <4>1 DEF Alike
        <5> QED
          BY <1>2, <3>2, <3>3, <4>1, <5>1
      <4>2. CASE k # Len(s) + 1
        <5>1. k \in DOMAIN s /\ u[k] = s[k] /\ k \in 1..Len(s)
          BY <3>1, <3>2, <4>2
        <5>2. u[k].term \in DOMAIN lines' /\ Alike(s, lines'[u[k].term], k)
          BY <2>1, <2>4, <5>1 DEF Follows
        <5>3. Alike(u, s, k)
          BY <3>1, <3>2, <5>1 DEF Alike
        <5>4. Alike(u, lines'[u[k].term], k)
          BY <5>2, <5>3, AlikeTransitive
        <5> QED
          BY <2>2, <2>4, <5>1, <5>2, <5>4
      <4> QED
        BY <4>1, <4>2
    <3> HIDE DEF u, s
    <3>5. Follows(u, lines') /\ \A k \in DOMAIN u : u[k].term <= term'[n]
      BY <3>4 DEF Follows
    <3> QED
      BY <2>4, <3>5 DEF u
  <2>5. ASSUME p = n, NEW a \in BagToSet(net), Accepts(n, a),
               Alike(Entries(n)', lines[a.term], Len(Entries(n)'))
        PROVE  /\ Follows(Entries(p)', lines')
               /\ \A k \in DOMAIN Entries(p)' : Entries(p)'[k].term <= term'[p]
    <3> DEFINE t == a.term
               u == Entries(n)'
    <3>1. /\ t = term'[n] /\ t \in DOMAIN lines
          /\ lines[t] \in Seq(Entry) /\ Follows(lines[t], lines)
          /\ \A k \in DOMAIN lines[t] : lines[t][k].term <= t
      BY <1>1, <2>5, StepAccepts DEF Orderly
    <3>2. Follows(lines[t], lines')
      BY <1>1, <3>1, FollowsMore
    <3> HIDE DEF t
    <3>3. /\ u \in Seq(Entry) /\ Len(u) \in Nat /\ DOMAIN u = 1..Len(u)
          /\ Alike(u, lines[t], Len(u))
      BY <1>2, <2>5, LenProperties DEF t
    <3> HIDE DEF u
    <3>4. ASSUME NEW k \in DOMAIN u
          PROVE  /\ u[k].term \in DOMAIN lines' /\ Alike(u, lines'[u[k].term], k)
                 /\ u[k].term <= term'[n]
      <4>1. k \in DOMAIN lines[t] /\ u[k] = lines[t][k] /\ Alike(u, lines[t], k)
        BY <3>1, <3>3, AlikeFacts
      <4>2. u[k].term \in DOMAIN lines' /\ Alike(lines[t], lines'[u[k].term], k)
        BY <3>2, <4>1 DEF Follows
      <4> QED
        BY <3>1, <4>1, <4>2, AlikeTransitive
    <3>5. Follows(u, lines') /\ \A k \in DOMAIN u : u[k].term <= term'[n]
      BY <3>4 DEF Follows
    <3> QED
      BY <2>5, <3>5 DEF u
  <2>6. CASE p # n
    BY <2>3, <2>6, StepMoves DEF Entries
  <2>7. CASE p = n /\ Stays(n)
    BY <2>3, <2>7 DEF Stays, Entries
  <2>8. ASSUME p = n, NEW a \in BagToSet(net), Accepts(n, a)
        PROVE  /\ Follows(Entries(p)', lines')
               /\ \A k \in DOMAIN Entries(p)' : Entries(p)'[k].term <= term'[p]
    BY <2>3, <2>5, <2>8, StepAccepts
  <2> QED
    BY <2>4, <2>6, <2>7, <2>8, StepMoves
<1>4. Orderly(lines')
  <2>1. ASSUME NEW t \in DOMAIN lines'
        PROVE  /\ lines'[t] \in Seq(Entry) /\ Follows(lines'[t], lines')
               /\ \A k \in DOMAIN lines'[t] : lines'[t][k].term <= t
    <3>1. CASE t \in DOMAIN lines /\ lines'[t] = lines[t]
      BY <1>1, <3>1, FollowsMore DEF Orderly
    <3>2. CASE Writes(n) /\ t = term[n] /\ lines'[t] = Entries(n)'
      BY <1>2, <1>3, <3>2 DEF Writes
    <3> QED
      BY <3>1, <3>2, StepLines
  <2> QED
    BY <2>1 DEF Orderly
<1> QED
  BY <1>3, <1>4 DEF LogsFollow

LEMMA StepAppendsFollow ==
  ASSUME NEW n \in Node, Step(n)
  PROVE  AppendsFollow'
<1>1. ASSUME NEW m \in BagToSet(net'), m.kind = "append"
      PROVE  m.term \in DOMAIN lines' /\ PieceOf(m, lines'[m.term])
  <2>1. CASE m \in BagToSet(net)
    <3> DEFINE s == lines[m.term]
               u == lines'[m.term]
    <3>1. /\ m.term \in DOMAIN lines' /\ PieceOf(m, s) /\ Alike(s, u, Len(s))
          /\ s \in Seq(Entry)
      BY <1>1, <2>1, StepLines DEF Step, LogsAgree, AppendsFollow, LogsFollow, Orderly, Grown
    <3>2. m.prevIndex \in Nat /\ m.entries \in Seq(Entry)
      <4>1. m \in Message
        BY <2>1 DEF Step, Known, TypeOK, NetOK
      <4> QED
        BY <1>1, <4>1, MessageFields
    <3> HIDE DEF s, u
    <3>3. /\ Len(s) <= Len(u) /\ \A i \in 1..Len(s) : s[i] = u[i]
          /\ Len(s) \in Nat /\ Len(m.entries) \in Nat
          /\ DOMAIN m.entries = 1..Len(m.entries)
      BY <3>1, <3>2, LenProperties DEF Alike
    <3>4. /\ m.prevIndex + Len(m.entries) <= Len(s)
          /\ \A k \in DOMAIN m.entries : m.entries[k] = s[m.prevIndex + k]
          /\ m.prevTerm = IF m.prevIndex = 0 THEN 0 ELSE s[m.prevIndex].term
      BY <3>1 DEF PieceOf
    <3>5. Len(u) \in Nat
      BY <3>3 DEF u
    <3>6. m.prevIndex + Len(m.entries) <= Len(u)
      BY <3>2, <3>3, <3>4, <3>5
    <3>7. ASSUME NEW k \in DOMAIN m.entries
          PROVE  m.entries[k] = u[m.prevIndex + k]
      <4>1. m.prevIndex + k \in 1..Len(s)
        BY <3>2, <3>3, <3>4
      <4> QED
        BY <3>3, <3>4, <4>1
    <3>8. m.prevIndex # 0 => s[m.prevIndex] = u[m.prevIndex]
      <4>1. m.prevIndex # 0 => m.prevIndex \in 1..Len(s)
        BY <3>2, <3>3, <3>4
      <4> QED
        BY <3>3, <4>1
    <3>9. PieceOf(m, u)
      BY <3>4, <3>6, <3>7, <3>8 DEF PieceOf
    <3> QED
      BY <3>1, <3>9 DEF u
  <2>2. CASE m \notin BagToSet(net)
    <3>1. /\ m.term = term'[n] /\ n \in Leaders'
          /\ PieceOf(m, Entries(n)')
      BY <1>1, <2>2, StepPlain, StepSendsPieces
    <3>2. lines'[m.term] = Entries(n)' /\ m.term \in DOMAIN lines'
      BY <3>1, StepRecords
    <3> QED
      BY <3>1, <3>2
  <2> QED
    BY <2>1, <2>2
<1> QED
  BY <1>1 DEF AppendsFollow

\* What stays in a node's log: what is there of a leader's log that a leader of the
\* node's new term has too.
LEMMA StepKeepsEntry ==
  ASSUME NEW n \in Node, Step(n), NEW p \in Node, NEW i \in DOMAIN Entries(p),
         \A a \in BagToSet(net) : (p = n /\ Accepts(n, a)) =>
           i \in DOMAIN lines[a.term] /\ Entries(n)[i].term = lines[a.term][i].term
  PROVE  i \in DOMAIN Entries(p)' /\ Entries(p)'[i] = Entries(p)[i]
<1>1. CASE p # n
  BY <1>1, StepMoves DEF Entries
<1>2. CASE p = n /\ Stays(n)
  BY <1>2 DEF Stays, Entries
<1>3. CASE p = n /\ Writes(n)
  BY <1>3, StepWrites
<1>4. ASSUME p = n, NEW a \in BagToSet(net), Accepts(n, a)
      PROVE  i \in DOMAIN Entries(p)' /\ Entries(p)'[i] = Entries(p)[i]
  BY <1>4, StepAccepts
<1> QED
  BY <1>1, <1>2, <1>3, <1>4, StepMoves

\* Only the node itself accepts something, and it accepts what is in its log and of its
\* term.
LEMMA StepRemembers ==
  ASSUME NEW n \in Node, Step(n)
  PROVE  /\ accepted \subseteq accepted' /\ Accepting' \subseteq accepted'
         /\ \A a \in accepted' \ accepted :
              /\ a.by = n /\ a.term = term'[n] /\ a.index \in Nat
              /\ Has(Entries(n)', a.index, a.term)
              /\ a = Acceptance(a.term, n, a.index)
         /\ \A p \in Node : \A i \in DOMAIN Entries(p)' :
              Entries(p)'[i].term = term'[p] => Acceptance(term'[p], p, i) \in accepted'
<1>1. accepted' = accepted \cup Accepting' /\ Accepting \subseteq accepted
  BY DEF Step, RNext, LogsAgree, AcceptedAreWritten
<1>2. \A p \in Node : OwnTerm(p)' = {i \in DOMAIN Entries(p)' : Entries(p)'[i].term = term'[p]}
  <2> SUFFICES ASSUME NEW p \in Node
               PROVE  OwnTerm(p)' = {i \in DOMAIN Entries(p)' : Entries(p)'[i].term = term'[p]}
    OBVIOUS
  <2> DEFINE l == log'[p]
  <2>1. Plain(l)
    BY StepPlain
  <2>2. OwnTerm(p)' = {i \in FirstIndex(l)..LastIndex(l) : At(l, i).term = term'[p]}
    BY DEF OwnTerm
  <2> HIDE DEF l
  <2>3. /\ FirstIndex(l)..LastIndex(l) = DOMAIN l.entries
        /\ \A i \in DOMAIN l.entries : At(l, i) = l.entries[i]
    BY <2>1, PlainLog
  <2> QED
    BY <2>2, <2>3 DEF Entries, l
<1>3. \A p \in Node : OwnTerm(p) = {i \in DOMAIN Entries(p) : Entries(p)[i].term = term[p]}
  <2> SUFFICES ASSUME NEW p \in Node
               PROVE  OwnTerm(p) = {i \in DOMAIN Entries(p) : Entries(p)[i].term = term[p]}
    OBVIOUS
  <2> DEFINE l == log[p]
  <2>1. Plain(l)
    BY PlainNow DEF Step, Known, LogsAgree
  <2>2. OwnTerm(p) = {i \in FirstIndex(l)..LastIndex(l) : At(l, i).term = term[p]}
    BY DEF OwnTerm
  <2> HIDE DEF l
  <2>3. /\ FirstIndex(l)..LastIndex(l) = DOMAIN l.entries
        /\ \A i \in DOMAIN l.entries : At(l, i) = l.entries[i]
    BY <2>1, PlainLog
  <2> QED
    BY <2>2, <2>3 DEF Entries, l
<1>4. \A p \in Node : \A i \in DOMAIN Entries(p)' :
        Entries(p)'[i].term = term'[p] => Acceptance(term'[p], p, i) \in Accepting'
  BY <1>2 DEF Accepting
<1>5. ASSUME NEW a \in accepted' \ accepted
      PROVE  /\ a.by = n /\ a.term = term'[n] /\ a.index \in Nat
             /\ Has(Entries(n)', a.index, a.term)
             /\ a = Acceptance(a.term, n, a.index)
  <2> DEFINE of(p) == {Acceptance(term'[p], p, i) : i \in OwnTerm(p)'}
  <2>0. PICK p \in Node : a \in of(p)
    BY <1>1 DEF Accepting
  <2>1. PICK i \in OwnTerm(p)' : a = Acceptance(term'[p], p, i)
    BY <2>0
  <2>2. i \in DOMAIN Entries(p)' /\ Entries(p)'[i].term = term'[p]
    BY <1>2
  <2>3. p = n
    <3> SUFFICES ASSUME p # n PROVE FALSE
      OBVIOUS
    <3>1. Entries(p)' = Entries(p) /\ term'[p] = term[p]
      BY StepMoves DEF Entries
    <3>2. Acceptance(term[p], p, i) \in Accepting
      BY <1>3, <2>2, <3>1 DEF Accepting
    <3> QED
      BY <1>1, <2>1, <3>1, <3>2
  <2>4. i \in Nat
    <3>1. Entries(p)' \in Seq(Entry)
      BY StepPlain, PlainLog DEF Entries
    <3> QED
      BY <2>2, <3>1, LenProperties
  <2> QED
    BY <2>1, <2>2, <2>3, <2>4 DEF Acceptance, Has
<1> QED
  BY <1>1, <1>4, <1>5

LEMMA StepAcceptedAreWritten ==
  ASSUME NEW n \in Node, Step(n)
  PROVE  AcceptedAreWritten'
<1>1. \A a \in accepted :
        /\ a.term \in Nat /\ a.by \in Node /\ a.index \in Nat
        /\ a.term <= term[a.by] /\ a.term \in DOMAIN lines
        /\ Has(lines[a.term], a.index, a.term)
        /\ a \in [term : Nat, by : Node, index : Nat]
  BY DEF Step, LogsAgree, AcceptedAreWritten
<1>2. ASSUME NEW a \in accepted'
      PROVE  /\ a \in [term : Nat, by : Node, index : Nat]
             /\ a.term <= term'[a.by] /\ a.term \in DOMAIN lines'
             /\ Has(lines'[a.term], a.index, a.term)
  <2>1. CASE a \in accepted
    <3> DEFINE s == lines[a.term]
               u == lines'[a.term]
    <3>1. a.term \in DOMAIN lines' /\ Alike(s, u, Len(s)) /\ s \in Seq(Entry)
      BY <1>1, <2>1, StepLines DEF Grown, Step, LogsAgree, LogsFollow, Orderly
    <3>2. Has(s, a.index, a.term)
      BY <1>1, <2>1
    <3>3. u \in Seq(Entry)
      BY <3>1, StepLogsFollow DEF LogsFollow, Orderly
    <3> HIDE DEF s, u
    <3>4. Has(u, a.index, a.term)
      BY <3>1, <3>2, <3>3, LenProperties DEF Alike, Has
    <3>5. a.term <= term'[a.by]
      BY <1>1, <2>1, StepMoves
    <3> QED
      BY <1>1, <2>1, <3>1, <3>4, <3>5 DEF u
  <2>2. CASE a \notin accepted
    <3>1. /\ a.by = n /\ a.term = term'[n] /\ a.index \in Nat
          /\ Has(Entries(n)', a.index, a.term)
          /\ a = Acceptance(a.term, n, a.index)
      BY <2>2, StepRemembers
    <3>2. term'[n] \in Nat
      BY StepMoves
    <3>3. a \in [term : Nat, by : Node, index : Nat]
      BY <3>1, <3>2 DEF Acceptance
    <3> DEFINE u == Entries(n)'
               s == lines'[a.term]
    <3>4. a.term \in DOMAIN lines' /\ Alike(u, s, a.index) /\ u \in Seq(Entry)
      BY <3>1, StepPlain, PlainLog, StepLogsFollow DEF LogsFollow, Follows, Has, Entries
    <3>5. s \in Seq(Entry)
      BY <3>4, StepLogsFollow DEF LogsFollow, Orderly
    <3>6. Has(u, a.index, a.term)
      BY <3>1
    <3> HIDE DEF s, u
    <3>7. Has(s, a.index, a.term)
      BY <3>1, <3>4, <3>5, <3>6, LenProperties DEF Alike, Has
    <3> QED
      BY <3>1, <3>2, <3>3, <3>4, <3>7 DEF s
  <2> QED
    BY <2>1, <2>2
<1> QED
  BY <1>2, StepRemembers DEF AcceptedAreWritten

\* Who has gone on without an entry never accepts it.
LEMMA StepLost ==
  ASSUME NEW n \in Node, Step(n), NEW t \in Nat, NEW i, Lost(t, i)
  PROVE  Lost(t, i)'
<1> DEFINE without == {p \in Node : term[p] > t /\ Acceptance(t, p, i) \notin accepted}
           after   == {p \in Node : term'[p] > t /\ Acceptance(t, p, i) \notin accepted'}
<1>1. Majority(without)
  BY DEF Lost
<1>2. ASSUME NEW p \in without PROVE p \in after
  <2>1. term'[p] > t
    BY StepMoves
  <2>2. ASSUME Acceptance(t, p, i) \in accepted' PROVE FALSE
    <3>1. Acceptance(t, p, i) \in accepted' \ accepted
      BY <2>2
    <3>2. Acceptance(t, p, i).by = n /\ Acceptance(t, p, i).term = term'[n]
      BY <3>1, StepRemembers
    <3>3. p = n /\ t = term'[n]
      BY <3>2 DEF Acceptance
    <3> QED
      BY <2>1, <3>3, StepMoves
  <2> QED
    BY <2>1, <2>2
<1>3. without \in SUBSET Node /\ after \in SUBSET Node /\ without \subseteq after
  BY <1>2
<1>4. Majority(after)
  <2> HIDE DEF without, after
  <2> QED
    BY <1>1, <1>3, MajorityGrows
<1> QED
  BY <1>4 DEF Lost

\* An entry that is not lost is in the log of every leader of a later term, and in that of
\* the leader that wrote it.
LEMMA LinesHave ==
  ASSUME LogsAgree, NEW a \in accepted, NEW u \in DOMAIN lines, a.term <= u,
         u \in Nat
  PROVE  Lost(a.term, a.index) \/ Has(lines[u], a.index, a.term)
<1>1. /\ a.term \in DOMAIN lines /\ a.term \in Nat
      /\ a.index \in DOMAIN lines[a.term] /\ lines[a.term][a.index].term = a.term
  BY DEF LogsAgree, AcceptedAreWritten, Has
<1>2. CASE a.term = u
  BY <1>1, <1>2 DEF Has
<1>3. CASE a.term < u
  BY <1>1, <1>3 DEF LogsAgree, LinesAreComplete
<1> QED
  BY <1>1, <1>2, <1>3

LEMMA StepAcceptedAreKept ==
  ASSUME NEW n \in Node, Step(n)
  PROVE  AcceptedAreKept'
<1>1. ASSUME NEW a \in accepted'
      PROVE  Lost(a.term, a.index)' \/ Has(Entries(a.by)', a.index, a.term)
  <2>1. CASE a \in accepted
    <3>1. /\ a.by \in Node /\ a.term \in Nat /\ a.term <= term[a.by]
          /\ Lost(a.term, a.index) \/ Has(Entries(a.by), a.index, a.term)
      BY <2>1 DEF Step, LogsAgree, AcceptedAreWritten, AcceptedAreKept
    <3>2. CASE Lost(a.term, a.index)
      BY <3>1, <3>2, StepLost
    <3>3. CASE ~Lost(a.term, a.index)
      <4> DEFINE p == a.by
      <4>1. a.index \in DOMAIN Entries(p) /\ Entries(p)[a.index].term = a.term
        BY <3>1, <3>3 DEF Has
      <4>2. ASSUME NEW m \in BagToSet(net), p = n, Accepts(n, m)
            PROVE  a.index \in DOMAIN lines[m.term] /\ lines[m.term][a.index].term = a.term
        <5>1. m.term \in DOMAIN lines /\ m.term \in Nat /\ m.term >= term[n]
          BY <4>2, StepAccepts DEF Accepts
        <5>2. a.term <= m.term
          BY <3>1, <4>2, <5>1, StepMoves
        <5> QED
          BY <2>1, <3>3, <5>1, <5>2, LinesHave DEF Step, Has
      <4>3. a.index \in DOMAIN Entries(p)' /\ Entries(p)'[a.index] = Entries(p)[a.index]
        BY <3>1, <4>1, <4>2, StepKeepsEntry
      <4> QED
        BY <4>1, <4>3 DEF Has
    <3> QED
      BY <3>2, <3>3
  <2>2. CASE a \notin accepted
    BY <2>2, StepRemembers
  <2> QED
    BY <2>1, <2>2
<1> QED
  BY <1>1 DEF AcceptedAreKept

-----------------------------------------------------------------------------
(* Elections: what a majority of voters knows.                             *)

LEMMA LinesInOrder ==
  ASSUME NEW n \in Node, Step(n)
  PROVE  /\ DOMAIN lines \subseteq Nat /\ DOMAIN lines' \subseteq Nat
         /\ \A t \in DOMAIN lines :
              /\ lines[t] \in Seq(Entry) /\ DOMAIN lines[t] = 1..Len(lines[t])
              /\ Len(lines[t]) \in Nat
              /\ \A i \in DOMAIN lines[t] : lines[t][i].term \in Nat
         /\ \A t \in DOMAIN lines' :
              /\ lines'[t] \in Seq(Entry) /\ DOMAIN lines'[t] = 1..Len(lines'[t])
              /\ Len(lines'[t]) \in Nat
<1>1. DOMAIN lines \subseteq Nat
  BY DEF Step, Known, ElectedByBallot, LogsAgree, LinesAreLed
<1>2. DOMAIN lines' \subseteq Nat
  <2>1. LinesAreLed'
    BY StepLinesAreLed
  <2> QED
    BY <2>1 DEF Step, Known, ElectedByBallot, LinesAreLed
<1>3. \A t \in DOMAIN lines : lines[t] \in Seq(Entry)
  BY DEF Step, LogsAgree, LogsFollow, Orderly
<1>4. \A t \in DOMAIN lines' : lines'[t] \in Seq(Entry)
  BY StepLogsFollow DEF LogsFollow, Orderly
<1>5. \A t \in DOMAIN lines : \A i \in DOMAIN lines[t] : lines[t][i].term \in Nat
  BY <1>3, EntryTerm, ElementOfSeq, LenProperties
<1> QED
  BY <1>1, <1>2, <1>3, <1>4, <1>5, LenProperties

\* What a leader had written it has still.
LEMMA StepHas ==
  ASSUME NEW n \in Node, Step(n), NEW t \in DOMAIN lines, NEW i \in DOMAIN lines[t]
  PROVE  t \in DOMAIN lines' /\ i \in DOMAIN lines'[t] /\ lines'[t][i] = lines[t][i]
<1>1. t \in DOMAIN lines' /\ Alike(lines[t], lines'[t], Len(lines[t]))
  BY StepLines DEF Grown
<1>2. i \in 1..Len(lines[t])
  BY LinesInOrder
<1>3. Len(lines[t]) <= Len(lines'[t]) /\ lines'[t][i] = lines[t][i]
  BY <1>1, <1>2 DEF Alike
<1>4. Len(lines[t]) \in Nat /\ Len(lines'[t]) \in Nat /\ DOMAIN lines'[t] = 1..Len(lines'[t])
  BY <1>1, LinesInOrder
<1> QED
  BY <1>1, <1>2, <1>3, <1>4

\* An entry that a majority has gone on without is lost.
LEMMA StepGoneOn ==
  ASSUME NEW n \in Node, Step(n), NEW t \in Nat, NEW i,
         NEW S \in SUBSET Node, Majority(S),
         \A p \in S : term'[p] > t /\ Acceptance(t, p, i) \notin accepted'
  PROVE  Lost(t, i)'
<1> DEFINE after == {p \in Node : term'[p] > t /\ Acceptance(t, p, i) \notin accepted'}
<1>1. after \in SUBSET Node /\ S \subseteq after
  OBVIOUS
<1>2. Majority(after)
  <2> HIDE DEF after
  <2> QED
    BY <1>1, MajorityGrows
<1> QED
  BY <1>2 DEF Lost

\* Who accepts an entry accepts it in the entry's own term.
LEMMA StepAcceptsNow ==
  ASSUME NEW n \in Node, Step(n), NEW t, NEW p, NEW i, Acceptance(t, p, i) \in accepted'
  PROVE  Acceptance(t, p, i) \in accepted \/ (p = n /\ t = term'[n])
<1>1. CASE Acceptance(t, p, i) \notin accepted
  <2>1. Acceptance(t, p, i).by = n /\ Acceptance(t, p, i).term = term'[n]
    BY <1>1, StepRemembers
  <2> QED
    BY <2>1 DEF Acceptance
<1> QED
  BY <1>1

\* A real request for a vote.
Asks(m) == m.kind = "request vote" /\ ~m.preVote

\* A vote that is cast is the node's own vote as it now stands; it is cast without a
\* change of the log.
LEMMA StepBallots ==
  ASSUME NEW n \in Node, Step(n), NEW b \in ballots', b \notin ballots
  PROVE  /\ b = Ballot(term'[n], n, votedFor'[n])
         /\ b.by = n /\ b.term = term'[n] /\ b.for = votedFor'[n]
         /\ log'[n] = log[n]
         /\ \/ votedFor'[n] = n
            \/ \E q \in BagToSet(net) :
                 /\ Asks(q)
                 /\ q.to = n /\ q.from = votedFor'[n] /\ q.term = term'[n]
                 /\ IsUpToDate(log[n], q.lastIndex, q.lastTerm)
<1>1. b \in Voted' /\ Voted \subseteq ballots
  BY DEF Step, RNext, HNext, Known, ElectedByBallot, BallotsOnDisk
<1>2. PICK p \in Node : votedFor'[p] # None /\ b = Ballot(term'[p], p, votedFor'[p])
  BY <1>1 DEF Voted
<1>3. ~(votedFor'[p] = votedFor[p] /\ term'[p] = term[p])
  <2> SUFFICES ASSUME votedFor'[p] = votedFor[p], term'[p] = term[p] PROVE FALSE
    OBVIOUS
  <2>1. b \in Voted
    BY <1>2 DEF Voted
  <2> QED
    BY <1>1, <2>1
<1>4. p = n
  BY <1>3 DEF Step, LogStep, Alone
<1>5. b.by = n /\ b.term = term'[n] /\ b.for = votedFor'[n]
  BY <1>2, <1>4 DEF Ballot
<1>6. VoteMoves(n)
  BY DEF Step, LogStep
<1>7. log'[n] = log[n]
  BY <1>2, <1>3, <1>4, <1>6 DEF VoteMoves
<1>8. \/ votedFor'[n] = n
      \/ \E q \in BagToSet(net) :
           /\ Asks(q)
           /\ q.to = n /\ q.from = votedFor'[n] /\ q.term = term'[n]
           /\ IsUpToDate(log[n], q.lastIndex, q.lastTerm)
  BY <1>2, <1>3, <1>4, <1>6 DEF VoteMoves, Asks
<1> QED
  BY <1>2, <1>4, <1>5, <1>7, <1>8

\* Every term with a leader has a majority of voters, who have all reached it.
LEMMA StepVoters ==
  ASSUME NEW n \in Node, Step(n), NEW u \in DOMAIN lines'
  PROVE  \E e \in elected' :
           /\ e.term = u /\ e.node \in Node
           /\ Majority({p \in Node : Ballot(u, p, e.node) \in ballots'})
           /\ \A p \in Node : Ballot(u, p, e.node) \in ballots' => term'[p] >= u
<1>1. LinesAreLed'
  BY StepLinesAreLed
<1>2. PICK e \in elected' : e.term = u
  BY <1>1 DEF LinesAreLed
<1>3. /\ ElectedByMajority' /\ BallotsOnDisk' /\ e.node \in Node
  BY DEF Step, Known, ElectedByBallot
<1>4. Majority({p \in Node : Ballot(u, p, e.node) \in ballots'})
  BY <1>2, <1>3 DEF ElectedByMajority
<1>5. ASSUME NEW p \in Node, Ballot(u, p, e.node) \in ballots'
      PROVE  term'[p] >= u
  <2>1. Ballot(u, p, e.node).term <= term'[Ballot(u, p, e.node).by]
    BY <1>3, <1>5 DEF BallotsOnDisk
  <2>2. u <= term'[p]
    BY <2>1 DEF Ballot
  <2> QED
    BY <2>2, StepMoves, LinesInOrder
<1> QED
  BY <1>2, <1>3, <1>4, <1>5

LEMMA StepLinesAreComplete ==
  ASSUME NEW n \in Node, Step(n)
  PROVE  LinesAreComplete'
<1> SUFFICES ASSUME NEW t \in DOMAIN lines', NEW u \in DOMAIN lines',
                    NEW i \in DOMAIN lines'[t], t < u, lines'[t][i].term = t
             PROVE  Lost(t, i)' \/ Has(lines'[u], i, t)
  BY DEF LinesAreComplete
<1> t \in Nat /\ u \in Nat
  BY LinesInOrder
\* The entry is being written: those who voted for the leader of u have not got it.
<1>1. CASE ~(t \in DOMAIN lines /\ i \in DOMAIN lines[t])
  <2>1. PICK e \in elected' :
          /\ Majority({p \in Node : Ballot(u, p, e.node) \in ballots'})
          /\ \A p \in Node : Ballot(u, p, e.node) \in ballots' => term'[p] >= u
    BY StepVoters
  <2> DEFINE V == {p \in Node : Ballot(u, p, e.node) \in ballots'}
  <2>2. ASSUME NEW p \in V PROVE term'[p] > t /\ Acceptance(t, p, i) \notin accepted'
    <3>1. term'[p] > t
      BY <2>1, StepMoves
    <3>2. ASSUME Acceptance(t, p, i) \in accepted PROVE FALSE
      <4>1. Acceptance(t, p, i).term = t /\ Acceptance(t, p, i).index = i
        BY DEF Acceptance
      <4>2. t \in DOMAIN lines /\ Has(lines[t], i, t)
        BY <3>2, <4>1 DEF Step, LogsAgree, AcceptedAreWritten
      <4> QED
        BY <1>1, <4>2 DEF Has
    <3> QED
      BY <3>1, <3>2, StepAcceptsNow
  <2>3. V \in SUBSET Node /\ Majority(V)
    BY <2>1
  <2> HIDE DEF V
  <2>4. Lost(t, i)'
    BY <2>2, <2>3, StepGoneOn
  <2> QED
    BY <2>4
<1>2. CASE /\ t \in DOMAIN lines /\ i \in DOMAIN lines[t] /\ u \in DOMAIN lines
  <2>1. lines[t][i].term = t
    BY <1>2, StepHas
  <2>2. Lost(t, i) \/ Has(lines[u], i, t)
    BY <1>2, <2>1 DEF Step, LogsAgree, LinesAreComplete
  <2>3. CASE Lost(t, i)
    BY <2>3, StepLost
  <2>4. CASE Has(lines[u], i, t)
    BY <1>2, <2>4, StepHas DEF Has
  <2> QED
    BY <2>2, <2>3, <2>4
\* There is a new leader: either none of its voters has accepted the entry, or it has it.
<1>3. CASE /\ t \in DOMAIN lines /\ i \in DOMAIN lines[t] /\ u \notin DOMAIN lines
  <2>1. Writes(n) /\ u = term[n] /\ lines'[u] = Entries(n)' /\ role[n] = CANDIDATE
    BY <1>3, StepLines
  <2>2. term'[n] = u /\ role'[n] = LEADER /\ log'[n] # log[n]
    <3>1. Len(Entries(n)') = Len(Entries(n)) + 1 /\ Len(Entries(n)) \in Nat
      BY <2>1, StepWrites, PlainNow, PlainLog DEF Step, Known, LogsAgree
    <3>2. log'[n] # log[n]
      BY <3>1 DEF Entries
    <3> QED
      BY <2>1, <3>2 DEF Writes
  <2>3. Election(u, n) \in elected' /\ ElectedByMajority'
    BY <2>2 DEF Leading, Step, RNext, HNext, Known, ElectedByBallot
  <2> DEFINE V == {p \in Node : Ballot(u, p, n) \in ballots'}
  <2>4. Majority(V)
    <3>1. Election(u, n).term = u /\ Election(u, n).node = n
      BY DEF Election
    <3> QED
      BY <2>3, <3>1 DEF ElectedByMajority
  <2>5. ballots' \subseteq ballots
    BY <2>2, StepBallots
  <2>6. CASE \A p \in V : Acceptance(t, p, i) \notin accepted
    <3>1. ASSUME NEW p \in V PROVE term'[p] > t /\ Acceptance(t, p, i) \notin accepted'
      <4>1. BallotsOnDisk' /\ Ballot(u, p, n) \in ballots'
        BY DEF Step, Known, ElectedByBallot
      <4>2. Ballot(u, p, n).term = u /\ Ballot(u, p, n).by = p
        BY DEF Ballot
      <4>3. u <= term'[p]
        BY <4>1, <4>2 DEF BallotsOnDisk
      <4>4. term'[p] > t
        BY <4>3, StepMoves
      <4> QED
        BY <2>2, <2>6, <4>4, StepAcceptsNow
    <3>2. V \in SUBSET Node
      OBVIOUS
    <3> HIDE DEF V
    <3>3. Lost(t, i)'
      BY <2>4, <3>1, <3>2, StepGoneOn
    <3> QED
      BY <3>3
  <2>7. ASSUME NEW p \in V, Acceptance(t, p, i) \in accepted
        PROVE  Lost(t, i)' \/ Has(lines'[u], i, t)
    <3>1. Ballot(u, p, n) \in ballots
      BY <2>5
    <3> DEFINE b == Ballot(u, p, n)
               a == Acceptance(t, p, i)
    <3>2. b.for = n /\ b.term = u /\ b.by = p /\ a.by = p /\ a.term = t /\ a.index = i
      BY DEF Ballot, Acceptance
    <3> HIDE DEF b, a
    <3>3. Lost(t, i) \/ Has(Entries(n), i, t)
      BY <2>1, <2>7, <3>1, <3>2 DEF Step, LogsAgree, CandidatesKnow, a, b
    <3>4. CASE Lost(t, i)
      BY <3>4, StepLost
    <3>5. CASE Has(Entries(n), i, t)
      BY <2>1, <3>5, StepWrites DEF Has
    <3> QED
      BY <3>3, <3>4, <3>5
  <2> QED
    BY <2>6, <2>7
<1> QED
  BY <1>1, <1>2, <1>3

\* A candidate that stands as before has the log it had.
LEMMA StepStands ==
  ASSUME NEW n \in Node, Step(n), NEW c \in Node, NEW t \in Nat, t <= term[c],
         role'[c] = CANDIDATE, term'[c] = t
  PROVE  role[c] = CANDIDATE /\ term[c] = t /\ log'[c] = log[c]
<1>1. CASE c # n
  BY <1>1, StepMoves
<1>2. CASE c = n
  <2>1. Stays(n)
    BY <1>2, StepMoves DEF Writes, Accepts, CANDIDATE, LEADER, FOLLOWER
  <2>2. term[n] = t
    BY <1>2, StepMoves
  <2>3. term'[n] # term[n] + 1
    BY <1>2, <2>2, StepMoves
  <2> QED
    BY <1>2, <2>1, <2>2, <2>3 DEF Stays
<1> QED
  BY <1>1, <1>2

LEMMA StepRequestsAreTrue ==
  ASSUME NEW n \in Node, Step(n)
  PROVE  RequestsAreTrue'
<1> SUFFICES ASSUME NEW m \in BagToSet(net'), Asks(m)
             PROVE  /\ m.term <= term'[m.from]
                    /\ (role'[m.from] = CANDIDATE /\ term'[m.from] = m.term) =>
                         /\ m.lastIndex = LastIndex(log'[m.from])
                         /\ m.lastTerm = LastTerm(log'[m.from])
  BY DEF RequestsAreTrue, Asks
<1>1. CASE m \in BagToSet(net)
  <2>1. m.from \in Node /\ m.term \in Nat
    BY <1>1, MessageFields DEF Step, Known, TypeOK, NetOK
  <2>2. /\ m.term <= term[m.from]
        /\ (role[m.from] = CANDIDATE /\ term[m.from] = m.term) =>
             m.lastIndex = LastIndex(log[m.from]) /\ m.lastTerm = LastTerm(log[m.from])
    BY <1>1 DEF Step, LogsAgree, RequestsAreTrue, Asks
  <2>3. m.term <= term'[m.from]
    BY <2>1, <2>2, StepMoves
  <2>4. ASSUME role'[m.from] = CANDIDATE, term'[m.from] = m.term
        PROVE  /\ m.lastIndex = LastIndex(log'[m.from])
               /\ m.lastTerm = LastTerm(log'[m.from])
    BY <2>1, <2>2, <2>4, StepStands
  <2> QED
    BY <2>3, <2>4
<1>2. CASE m \notin BagToSet(net)
  <2>1. Sent(n, m)
    BY <1>2 DEF Step, LogStep, Sends
  <2>2. PICK p \in Peers(n) : m = RequestVoteMsg(n, p, term'[n], log'[n], FALSE)
    BY <2>1 DEF Sent, Asks
  <2>3. /\ m.from = n /\ m.term = term'[n]
        /\ m.lastIndex = LastIndex(log'[n]) /\ m.lastTerm = LastTerm(log'[n])
    BY <2>2 DEF RequestVoteMsg
  <2>4. term'[n] \in Nat
    BY StepMoves
  <2> QED
    BY <2>3, <2>4
<1> QED
  BY <1>1, <1>2

\* A log that is up to date with another has what the other has, unless it is lost.
LEMMA UpToDateKnows ==
  ASSUME NEW n \in Node, Step(n), NEW s \in Seq(Entry), NEW v \in Seq(Entry),
         Follows(s, lines), Follows(v, lines),
         NEW a \in accepted, Has(s, a.index, a.term),
         NEW ls \in Nat, NEW lv \in Nat,
         ls = IF s = << >> THEN 0 ELSE s[Len(s)].term,
         lv = IF v = << >> THEN 0 ELSE v[Len(v)].term,
         lv > ls \/ (lv = ls /\ Len(v) >= Len(s))
  PROVE  Lost(a.term, a.index) \/ Has(v, a.index, a.term)
<1> DEFINE i == a.index
           t == a.term
<1>1. /\ i \in DOMAIN s /\ s[i].term = t /\ t \in Nat /\ i \in Nat
      /\ DOMAIN s = 1..Len(s) /\ DOMAIN v = 1..Len(v) /\ Len(s) \in Nat /\ Len(v) \in Nat
  BY LenProperties DEF Has, Step, LogsAgree, AcceptedAreWritten
<1>2. Len(s) \in DOMAIN s /\ i <= Len(s) /\ s # << >>
  BY <1>1
<1>3. t <= ls /\ ls = s[Len(s)].term
  BY <1>1, <1>2, TermsNeverFall DEF Step, LogsAgree, LogsFollow
<1>4. v # << >>
  BY <1>1, <1>2, <1>3
<1>5. Len(v) \in DOMAIN v /\ lv = v[Len(v)].term
  BY <1>1, <1>4, EmptySeq
<1>6. /\ lv \in DOMAIN lines /\ Alike(v, lines[lv], Len(v))
      /\ lines[lv] \in Seq(Entry) /\ Follows(lines[lv], lines) /\ Orderly(lines)
  BY <1>5 DEF Follows, Step, LogsAgree, LogsFollow, Orderly
<1>7. \A k \in 1..Len(v) : k \in DOMAIN lines[lv] /\ v[k] = lines[lv][k]
  BY <1>1, <1>6, LenProperties DEF Alike
<1>8. CASE lv = ls
  <2>1. Alike(s, lines[ls], Len(s))
    BY <1>2, <1>3 DEF Follows
  <2>2. i \in 1..Len(s) /\ i \in 1..Len(v)
    BY <1>1, <1>8
  <2>3. s[i] = v[i]
    BY <1>7, <1>8, <2>1, <2>2 DEF Alike
  <2> QED
    BY <1>1, <2>2, <2>3 DEF Has
<1>9. CASE lv > ls
  <2>1. t < lv
    BY <1>1, <1>3, <1>9
  <2>2. t \in DOMAIN lines /\ i \in DOMAIN lines[t] /\ lines[t][i].term = t
    BY DEF Step, LogsAgree, AcceptedAreWritten, Has
  <2>3. Lost(t, i) \/ Has(lines[lv], i, t)
    BY <1>6, <2>1, <2>2 DEF Step, LogsAgree, LinesAreComplete
  <2>4. ASSUME Has(lines[lv], i, t) PROVE Has(v, i, t)
    <3>1. i \in DOMAIN lines[lv] /\ lines[lv][i].term = t
      BY <2>4 DEF Has
    <3>2. ASSUME ~(i <= Len(v)) PROVE FALSE
      <4>1. Len(v) \in DOMAIN lines[lv] /\ lines[lv][Len(v)].term = lv
        BY <1>1, <1>5, <1>7
      <4>2. Len(v) <= i
        BY <1>1, <3>2
      <4>3. lv <= t
        BY <1>6, <3>1, <4>1, <4>2, TermsNeverFall
      <4> QED
        BY <1>1, <2>1, <4>3
    <3>3. i \in 1..Len(v)
      BY <1>1, <3>2
    <3>4. i \in DOMAIN v /\ v[i].term = t
      BY <1>1, <1>7, <3>1, <3>3
    <3> QED
      BY <3>4 DEF Has
  <2> QED
    BY <2>3, <2>4
<1> QED
  BY <1>8, <1>9

LEMMA PlainLast ==
  ASSUME NEW l, Plain(l)
  PROVE  /\ LastIndex(l) = Len(l.entries) /\ LastTerm(l) \in Nat
         /\ LastTerm(l) = IF l.entries = << >> THEN 0 ELSE l.entries[Len(l.entries)].term
<1>1. /\ l.entries \in Seq(Entry) /\ Len(l.entries) \in Nat
      /\ LastIndex(l) = Len(l.entries)
      /\ TermAt(l, 0) = 0 /\ \A i \in Int : i # 0 => TermAt(l, i) = l.entries[i].term
  BY PlainLog
<1>2. LastTerm(l) \in Nat
  BY LogLastTerm, EntryTerm DEF Plain
<1>3. CASE l.entries = << >>
  BY <1>1, <1>2, <1>3, EmptySeq DEF LastTerm
<1>4. CASE l.entries # << >>
  <2>1. Len(l.entries) # 0
    BY <1>1, <1>4, EmptySeq
  <2> QED
    BY <1>1, <1>2, <1>4, <2>1 DEF LastTerm
<1> QED
  BY <1>1, <1>2, <1>3, <1>4

\* Who grants a vote gives it to a candidate that knows what the voter has accepted.
LEMMA StepVoteKnows ==
  ASSUME NEW n \in Node, Step(n), NEW q \in BagToSet(net), Asks(q), q.to = n,
         IsUpToDate(log[n], q.lastIndex, q.lastTerm),
         role'[q.from] = CANDIDATE, term'[q.from] = q.term,
         NEW a \in accepted, a.by = n
  PROVE  Lost(a.term, a.index) \/ Has(Entries(q.from)', a.index, a.term)
<1> DEFINE c == q.from
           s == Entries(n)
           v == Entries(c)
<1>1. c \in Node /\ q.term \in Nat
  BY MessageFields DEF Step, Known, TypeOK, NetOK
<1>2. /\ q.term <= term[c]
      /\ (role[c] = CANDIDATE /\ term[c] = q.term) =>
           q.lastIndex = LastIndex(log[c]) /\ q.lastTerm = LastTerm(log[c])
  BY DEF Step, LogsAgree, RequestsAreTrue, Asks
<1>3. role[c] = CANDIDATE /\ term[c] = q.term /\ log'[c] = log[c]
  BY <1>1, <1>2, StepStands
<1>4. IsUpToDate(log[n], LastIndex(log[c]), LastTerm(log[c]))
  BY <1>2, <1>3
<1>5. /\ Plain(log[n]) /\ Plain(log[c]) /\ s = log[n].entries /\ v = log[c].entries
      /\ s \in Seq(Entry) /\ v \in Seq(Entry)
  BY <1>1, PlainNow, PlainLog DEF Step, Known, LogsAgree
<1>6. Follows(s, lines) /\ Follows(v, lines)
  BY <1>1 DEF Step, LogsAgree, LogsFollow
<1>7. Lost(a.term, a.index) \/ Has(s, a.index, a.term)
  BY DEF Step, LogsAgree, AcceptedAreKept
<1> DEFINE ls == LastTerm(log[n])
           lv == LastTerm(log[c])
<1>8. /\ ls \in Nat /\ lv \in Nat
      /\ ls = IF s = << >> THEN 0 ELSE s[Len(s)].term
      /\ lv = IF v = << >> THEN 0 ELSE v[Len(v)].term
      /\ lv > ls \/ (lv = ls /\ Len(v) >= Len(s))
  <2>1. LastIndex(log[n]) = Len(s) /\ LastIndex(log[c]) = Len(v)
    BY <1>5, PlainLast
  <2>2. lv > ls \/ (lv = ls /\ Len(v) >= Len(s))
    BY <1>4, <2>1 DEF IsUpToDate
  <2>3. ls = IF s = << >> THEN 0 ELSE s[Len(s)].term
    BY <1>5, PlainLast
  <2>4. lv = IF v = << >> THEN 0 ELSE v[Len(v)].term
    BY <1>5, PlainLast
  <2>5. ls \in Nat /\ lv \in Nat
    BY <1>5, PlainLast
  <2> QED
    BY <2>2, <2>3, <2>4, <2>5
<1>9. Entries(c)' = v
  BY <1>3 DEF Entries
<1> HIDE DEF ls, lv, s, v
<1>10. Lost(a.term, a.index) \/ Has(v, a.index, a.term)
  BY <1>5, <1>6, <1>7, <1>8, UpToDateKnows
<1> QED
  BY <1>9, <1>10

LEMMA StepCandidatesKnow ==
  ASSUME NEW n \in Node, Step(n)
  PROVE  CandidatesKnow'
<1> SUFFICES ASSUME NEW b \in ballots'
             PROVE  /\ b.term <= term'[b.for]
                    /\ (role'[b.for] = CANDIDATE /\ term'[b.for] = b.term) =>
                         \A a \in accepted' : (a.by = b.by /\ a.term < b.term) =>
                           \/ Lost(a.term, a.index)'
                           \/ Has(Entries(b.for)', a.index, a.term)
  BY DEF CandidatesKnow
<1>1. /\ b.term \in Nat /\ b.by \in Node /\ b.for \in Node
      /\ b.term <= term'[b.by]
  BY DEF Step, Known, ElectedByBallot, BallotsOnDisk
<1>2. b.term <= term'[b.for]
  <2>1. CASE b \in ballots
    <3>1. b.term <= term[b.for]
      BY <2>1 DEF Step, LogsAgree, CandidatesKnow
    <3> QED
      BY <1>1, <3>1, StepMoves
  <2>2. CASE b \notin ballots
    <3>1. CASE b.for = n
      <4>1. b.term = term'[n] /\ term'[n] \in Nat
        BY <2>2, StepBallots, StepMoves
      <4> QED
        BY <3>1, <4>1
    <3>2. CASE b.for # n
      <4>1. PICK q \in BagToSet(net) : Asks(q) /\ q.from = b.for /\ q.term = b.term
        BY <2>2, <3>2, StepBallots
      <4>2. q.term <= term[b.for]
        BY <4>1 DEF Step, LogsAgree, RequestsAreTrue, Asks
      <4> QED
        BY <1>1, <4>1, <4>2, StepMoves
    <3> QED
      BY <3>1, <3>2
  <2> QED
    BY <2>1, <2>2
<1>3. ASSUME role'[b.for] = CANDIDATE, term'[b.for] = b.term,
             NEW a \in accepted', a.by = b.by, a.term < b.term
      PROVE  Lost(a.term, a.index)' \/ Has(Entries(b.for)', a.index, a.term)
  <2>1. a \in accepted
    <3> SUFFICES ASSUME a \notin accepted PROVE FALSE
      OBVIOUS
    <3>1. a.by = n /\ a.term = term'[n]
      BY StepRemembers
    <3> QED
      BY <1>1, <1>3, <3>1, StepMoves
  <2>2. a.term \in Nat /\ a.by \in Node
    BY <2>1 DEF Step, LogsAgree, AcceptedAreWritten
  <2>3. Lost(a.term, a.index) \/ Has(Entries(b.for)', a.index, a.term)
    <3>1. CASE b \in ballots
      <4>1. b.term <= term[b.for]
        BY <3>1 DEF Step, LogsAgree, CandidatesKnow
      <4>2. role[b.for] = CANDIDATE /\ term[b.for] = b.term /\ log'[b.for] = log[b.for]
        BY <1>1, <1>3, <4>1, StepStands
      <4>3. Lost(a.term, a.index) \/ Has(Entries(b.for), a.index, a.term)
        BY <1>3, <2>1, <3>1, <4>2 DEF Step, LogsAgree, CandidatesKnow
      <4> QED
        BY <4>2, <4>3 DEF Entries
    <3>2. CASE b \notin ballots
      <4>1. b.by = n /\ b.term = term'[n] /\ log'[n] = log[n]
        BY <3>2, StepBallots
      <4>2. CASE b.for = n
        <5>1. Lost(a.term, a.index) \/ Has(Entries(n), a.index, a.term)
          BY <1>3, <2>1, <4>1 DEF Step, LogsAgree, AcceptedAreKept
        <5> QED
          BY <4>1, <4>2, <5>1 DEF Entries
      <4>3. CASE b.for # n
        <5>1. PICK q \in BagToSet(net) :
                /\ Asks(q) /\ q.to = n /\ q.from = b.for /\ q.term = b.term
                /\ IsUpToDate(log[n], q.lastIndex, q.lastTerm)
          BY <3>2, <4>3, StepBallots
        <5>2. Lost(a.term, a.index) \/ Has(Entries(q.from)', a.index, a.term)
          BY <1>3, <2>1, <4>1, <5>1, StepVoteKnows
        <5>3. Entries(q.from)' = Entries(b.for)'
          BY <5>1 DEF Entries
        <5> QED
          BY <5>2, <5>3
      <4> QED
        BY <4>2, <4>3
    <3> QED
      BY <3>1, <3>2
  <2>4. CASE Lost(a.term, a.index)
    BY <2>2, <2>4, StepLost
  <2> QED
    BY <2>3, <2>4
<1> QED
  BY <1>2, <1>3

-----------------------------------------------------------------------------
(* Commitment: what a leader counts is true, and stays so.                 *)

LEMMA StepTruthful ==
  ASSUME NEW n \in Node, Step(n), NEW p \in Node, NEW t \in Nat, NEW k \in Nat,
         Truthful(p, t, k)
  PROVE  Truthful(p, t, k)'
<1>1. /\ t <= term[p] /\ t \in DOMAIN lines /\ k <= Len(lines[t])
      /\ \A i \in 1..k : lines[t][i].term = t => Acceptance(t, p, i) \in accepted
      /\ term[p] = t => Alike(Entries(p), lines[t], k)
  BY DEF Truthful
<1>2. /\ Len(lines[t]) \in Nat /\ DOMAIN lines[t] = 1..Len(lines[t])
      /\ t \in DOMAIN lines' /\ Alike(lines[t], lines'[t], Len(lines[t]))
      /\ Len(lines'[t]) \in Nat
  BY <1>1, LinesInOrder, StepLines DEF Grown
<1>3. k <= Len(lines'[t]) /\ \A i \in 1..k : lines'[t][i] = lines[t][i]
  BY <1>1, <1>2 DEF Alike
<1>4. t <= term'[p]
  BY <1>1, StepMoves
<1>5. \A i \in 1..k : lines'[t][i].term = t => Acceptance(t, p, i) \in accepted'
  BY <1>1, <1>3, StepRemembers
<1>6. ASSUME term'[p] = t PROVE Alike(Entries(p)', lines'[t], k)
  <2>1. term[p] = t
    BY <1>1, <1>6, StepMoves
  <2>2. /\ Alike(Entries(p), lines[t], k)
        /\ Entries(p) \in Seq(Entry) /\ Entries(p)' \in Seq(Entry)
    <3>1. Entries(p) \in Seq(Entry)
      BY PlainNow, PlainLog DEF Step, Known, LogsAgree
    <3>2. Entries(p)' \in Seq(Entry)
      BY StepPlain, PlainLog DEF Entries
    <3> QED
      BY <1>1, <2>1, <3>1, <3>2
  <2>3. /\ DOMAIN Entries(p) = 1..Len(Entries(p)) /\ Len(Entries(p)) \in Nat
        /\ DOMAIN Entries(p)' = 1..Len(Entries(p)') /\ Len(Entries(p)') \in Nat
    BY <2>2, LenProperties
  <2>4. ASSUME NEW i \in 1..k
        PROVE  i \in DOMAIN Entries(p)' /\ Entries(p)'[i] = Entries(p)[i]
    <3>1. i \in DOMAIN Entries(p) /\ i \in DOMAIN lines[t] /\ Entries(p)[i] = lines[t][i]
      BY <1>1, <1>2, <2>2, <2>3 DEF Alike
    <3>2. ASSUME NEW m \in BagToSet(net), p = n, Accepts(n, m)
          PROVE  i \in DOMAIN lines[m.term] /\ Entries(n)[i].term = lines[m.term][i].term
      BY <1>6, <3>1, <3>2, StepAccepts
    <3> QED
      BY <3>1, <3>2, StepKeepsEntry
  <2>5. \A i \in 1..k : Entries(p)'[i] = lines'[t][i]
    BY <1>3, <2>2, <2>4 DEF Alike
  <2>6. k <= Len(Entries(p)')
    <3>1. CASE k = 0
      BY <2>3, <3>1
    <3>2. CASE k # 0
      <4>1. k \in 1..k
        BY <3>2
      <4>2. k \in DOMAIN Entries(p)'
        BY <2>4, <4>1
      <4> QED
        BY <2>3, <4>2
    <3> QED
      BY <3>1, <3>2
  <2> QED
    BY <1>3, <2>5, <2>6 DEF Alike
<1> QED
  BY <1>2, <1>3, <1>4, <1>5, <1>6 DEF Truthful

\* A node whose log is that of the leader of its term, as far as it goes, may say so.
LEMMA StepTellsTrue ==
  ASSUME NEW n \in Node, Step(n), NEW p \in Node, NEW t \in DOMAIN lines', t = term'[p],
         NEW k \in Nat, Alike(Entries(p)', lines'[t], k)
  PROVE  Truthful(p, t, k)'
<1>1. t \in Nat /\ k <= Len(lines'[t])
  BY StepMoves DEF Alike
<1>2. Entries(p)' \in Seq(Entry)
  BY StepPlain, PlainLog DEF Entries
<1>3. \A i \in 1..k : i \in DOMAIN Entries(p)' /\ Entries(p)'[i] = lines'[t][i]
  BY <1>2, LenProperties DEF Alike
<1>4. \A i \in 1..k : lines'[t][i].term = t => Acceptance(t, p, i) \in accepted'
  BY <1>3, StepRemembers
<1> QED
  BY <1>1, <1>4 DEF Truthful

LEMMA StepAnswersAreTrue ==
  ASSUME NEW n \in Node, Step(n)
  PROVE  AnswersAreTrue'
<1>1. ASSUME NEW m \in BagToSet(net'), m.kind = "appended" /\ m.success
      PROVE  Truthful(m.from, m.term, m.match)'
  <2>1. CASE m \in BagToSet(net)
    <3>1. m.from \in Node /\ m.term \in Nat /\ m.match \in Nat
      BY <1>1, <2>1, MessageFields DEF Step, Known, TypeOK, NetOK
    <3>2. Truthful(m.from, m.term, m.match)
      BY <1>1, <2>1 DEF Step, LogsAgree, AnswersAreTrue
    <3> QED
      BY <3>1, <3>2, StepTruthful
  <2>2. CASE m \notin BagToSet(net)
    <3>1. Sent(n, m)
      BY <2>2 DEF Step, LogStep, Sends
    <3>2. PICK a \in BagToSet(net) :
            /\ Accepts(n, a)
            /\ m = AppendedMsg(n, a.from, a.term, a.prevIndex + Len(a.entries))
      BY <1>1, <3>1 DEF Sent
    <3> DEFINE k == a.prevIndex + Len(a.entries)
    <3>3. m.from = n /\ m.term = a.term /\ m.match = k
      BY <3>2 DEF AppendedMsg
    <3>4. /\ term'[n] = a.term /\ a.term \in DOMAIN lines /\ k \in Nat
          /\ k <= Len(lines[a.term]) /\ Alike(Entries(n)', lines[a.term], k)
      BY <3>2, StepAccepts
    <3> HIDE DEF k
    <3>5. a.term \in DOMAIN lines' /\ Alike(lines[a.term], lines'[a.term], Len(lines[a.term]))
      BY <3>4, StepLines DEF Grown
    <3>6. Alike(Entries(n)', lines'[a.term], k)
      <4> DEFINE s == lines[a.term]
                 u == lines'[a.term]
      <4>1. s \in Seq(Entry) /\ Len(s) \in Nat /\ Len(u) \in Nat
        BY <3>4, <3>5, LinesInOrder
      <4>2. k <= Len(s) /\ Alike(s, u, Len(s)) /\ Alike(Entries(n)', s, k)
        BY <3>4, <3>5
      <4> HIDE DEF s, u
      <4>3. Alike(s, u, k)
        BY <3>4, <4>1, <4>2 DEF Alike
      <4>4. Alike(Entries(n)', u, k)
        BY <4>2, <4>3, AlikeTransitive
      <4> QED
        BY <4>4 DEF u
    <3>7. Truthful(n, a.term, k)'
      BY <3>4, <3>5, <3>6, StepTellsTrue
    <3> QED
      BY <3>3, <3>4, <3>7
  <2> QED
    BY <2>1, <2>2
<1>2. ASSUME NEW q \in Leaders', NEW p \in Node, matchIndex'[q][p] > 0
      PROVE  Truthful(p, term[q], matchIndex[q][p])'
  <2> PICK t, k : t = term'[q] /\ k = matchIndex'[q][p]
    OBVIOUS
  <2> SUFFICES Truthful(p, t, k)'
    BY DEF Truthful
  <2>1. q \in Node /\ role'[q] = LEADER
    BY DEF Leaders
  <2>2. t \in Nat /\ k \in Nat
    <3>1. matchIndex' \in [Node -> [Node -> Nat]]
      BY DEF Step, Known, TypeOK, LeadersOK
    <3>2. matchIndex'[q] \in [Node -> Nat]
      BY <2>1, <3>1
    <3> QED
      BY <2>1, <3>2, StepMoves
  <2>3. ASSUME role[q] = LEADER, term'[q] = term[q], matchIndex'[q][p] = matchIndex[q][p]
        PROVE  Truthful(p, t, k)'
    <3>1. q \in Leaders
      BY <2>1, <2>3 DEF Leaders
    <3>2. Truthful(p, term[q], matchIndex[q][p])
      BY <1>2, <2>3, <3>1 DEF Step, LogsAgree, AnswersAreTrue
    <3> QED
      BY <2>2, <2>3, <3>2, StepTruthful
  <2>4. CASE q # n
    <3>1. role[q] = LEADER /\ term'[q] = term[q] /\ matchIndex'[q] = matchIndex[q]
      BY <2>1, <2>4 DEF Step, LogStep, Alone
    <3> QED
      BY <2>3, <3>1
  <2>5. CASE q = n
    <3>1. Counts(n, p)
      BY <2>1, <2>5 DEF Step, LogStep
    <3>2. CASE p = n /\ matchIndex'[n][p] = LastIndex(log'[n])
      <4> DEFINE s == Entries(n)'
      <4>1. matchIndex'[q][p] = Len(s) /\ s \in Seq(Entry) /\ Len(s) \in Nat
        BY <2>5, <3>2, StepPlain, PlainLog DEF Entries
      <4>2. term'[n] \in DOMAIN lines' /\ lines'[term'[n]] = s
        BY <1>2, <2>5, StepRecords
      <4>3. Alike(s, s, Len(s))
        BY <4>1 DEF Alike
      <4> HIDE DEF s
      <4>4. Alike(s, lines'[term'[n]], Len(s))
        BY <4>2, <4>3
      <4>5. Truthful(n, t, k)'
        BY <2>5, <4>1, <4>2, <4>4, StepTellsTrue DEF s
      <4> QED
        BY <2>5, <3>2, <4>1, <4>5 DEF s
    <3>3. ASSUME NEW m \in BagToSet(net), m.kind = "appended" /\ m.success,
                 m.from = p, m.term = term'[n], matchIndex'[n][p] = m.match
          PROVE  Truthful(p, t, k)'
      <4>1. Truthful(m.from, m.term, m.match)
        BY <3>3 DEF Step, LogsAgree, AnswersAreTrue
      <4>2. Truthful(p, t, k)
        BY <2>5, <3>3, <4>1
      <4> QED
        BY <2>2, <4>2, StepTruthful
    <3>4. \A m \in BagToSet(net) : m.kind # "installed"
      BY DEF Step, LogsAgree, Uncompacted
    <3> QED
      BY <1>2, <2>3, <2>5, <3>1, <3>2, <3>3, <3>4 DEF Counts
  <2> QED
    BY <2>4, <2>5
<1> QED
  BY <1>1, <1>2 DEF AnswersAreTrue

\* What a slice of a log that is all there holds.
LEMMA SliceOfPlain ==
  ASSUME NEW l, Plain(l), NEW a \in Nat, a >= 1, NEW b \in Int
  PROVE  /\ Slice(l, a, b) \in Seq(Entry) /\ Len(Slice(l, a, b)) \in Nat
         /\ (b <= Len(l.entries) /\ a <= b) => Len(Slice(l, a, b)) = b - a + 1
         /\ a > b => Len(Slice(l, a, b)) = 0
         /\ \A j \in 1..Len(Slice(l, a, b)) :
              /\ a + j - 1 \in DOMAIN l.entries /\ a + j - 1 <= b
              /\ Slice(l, a, b)[j] = l.entries[a + j - 1]
<1>1. Whole(l, Entry)
  BY DEF Plain, Whole
<1> QED
  BY <1>1, SliceOfWhole

LEMMA StepChosen ==
  ASSUME NEW n \in Node, Step(n), NEW t, NEW i, Chosen(t, i)
  PROVE  Chosen(t, i)'
<1> DEFINE have == {p \in Node : Acceptance(t, p, i) \in accepted}
           more == {p \in Node : Acceptance(t, p, i) \in accepted'}
<1>1. t \in DOMAIN lines /\ i \in DOMAIN lines[t] /\ lines[t][i].term = t
  BY DEF Chosen, Has
<1>2. t \in DOMAIN lines' /\ i \in DOMAIN lines'[t] /\ lines'[t][i].term = t
  BY <1>1, StepHas
<1>3. have \in SUBSET Node /\ more \in SUBSET Node /\ have \subseteq more
  BY StepRemembers
<1>4. Majority(have)
  BY DEF Chosen
<1> HIDE DEF have, more
<1>5. Majority(more)
  BY <1>3, <1>4, MajorityGrows
<1> QED
  BY <1>2, <1>5 DEF Chosen, Has, more

\* What a leader counts on a majority has been chosen.
LEMMA StepCommits ==
  ASSUME NEW n \in Node, Step(n), NEW c \in Nat, Commits(n, c), NEW t, t = term[n]
  PROVE  /\ t \in DOMAIN lines' /\ lines'[t] = Entries(n)
         /\ c \in DOMAIN Entries(n) /\ Chosen(t, c)'
<1> DEFINE s == Entries(n)
           counted == {p \in Node : matchIndex'[n][p] >= c}
           have == {p \in Node : Acceptance(t, p, c) \in accepted'}
<1>1. /\ role'[n] = LEADER /\ term'[n] = t /\ log'[n] = log[n]
      /\ c \in Committable(n, matchIndex'[n])
  BY DEF Commits
<1>2. n \in Leaders' /\ t \in DOMAIN lines' /\ lines'[t] = s
  <2>1. n \in Leaders'
    BY <1>1 DEF Leaders
  <2>2. t \in DOMAIN lines' /\ lines'[t] = Entries(n)'
    BY <1>1, <2>1, StepRecords
  <2> QED
    BY <1>1, <2>1, <2>2 DEF Entries
<1>3. Plain(log[n]) /\ s = log[n].entries /\ commitIndex[n] \in Nat /\ t \in Nat
  BY PlainNow DEF Step, Known, LogsAgree, TypeOK, MachinesOK
<1>4. c \in DOMAIN s /\ c >= 1 /\ s[c].term = t
  <2>1. /\ c \in (commitIndex[n] + 1)..LastIndex(log[n])
        /\ TermAt(log[n], c) = t
    BY <1>1 DEF Committable
  <2>2. /\ LastIndex(log[n]) = Len(s) /\ DOMAIN s = 1..Len(s) /\ Len(s) \in Nat
        /\ \A i \in Int : i # 0 => TermAt(log[n], i) = s[i].term
    BY <1>3, PlainLog
  <2>3. c \in 1..Len(s) /\ c # 0
    BY <1>3, <2>1, <2>2
  <2> QED
    BY <2>1, <2>2, <2>3
<1>5. Majority(counted)
  BY <1>1 DEF Committable
<1>6. ASSUME NEW p \in counted PROVE p \in have
  <2>1. p \in Node /\ matchIndex'[n][p] >= c /\ matchIndex'[n][p] \in Nat
    <3>1. matchIndex' \in [Node -> [Node -> Nat]]
      BY DEF Step, Known, TypeOK, LeadersOK
    <3>2. matchIndex'[n] \in [Node -> Nat]
      BY <3>1
    <3> QED
      BY <3>2
  <2>2. matchIndex'[n][p] > 0
    BY <1>4, <2>1
  <2>3. Truthful(p, term[n], matchIndex[n][p])'
    BY <1>2, <2>1, <2>2, StepAnswersAreTrue DEF AnswersAreTrue
  <2>4. \A i \in 1..matchIndex'[n][p] :
          lines'[term'[n]][i].term = term'[n] => Acceptance(term'[n], p, i) \in accepted'
    BY <2>3 DEF Truthful
  <2>5. c \in 1..matchIndex'[n][p]
    BY <1>4, <2>1
  <2> QED
    BY <1>1, <1>2, <1>4, <2>1, <2>4, <2>5
<1>7. Majority(have)
  <2>1. counted \in SUBSET Node /\ have \in SUBSET Node /\ counted \subseteq have
    BY <1>6
  <2> HIDE DEF counted, have
  <2> QED
    BY <1>5, <2>1, MajorityGrows
<1>8. Chosen(t, c)'
  BY <1>2, <1>4, <1>7 DEF Chosen, Has
<1> QED
  BY <1>2, <1>4, <1>8

\* What is committed is the leader's log, from where the ledger ends.
LEMMA StepCommitted ==
  ASSUME NEW n \in Node, Step(n), NEW c \in Nat, Commits(n, c)
  PROVE  /\ ledger' \in Seq([term : Nat, cmd : Command \cup {None}, at : Nat])
         /\ Len(ledger') = IF c <= Len(ledger) THEN Len(ledger) ELSE c
         /\ \A i \in DOMAIN ledger : i \in DOMAIN ledger' /\ ledger'[i] = ledger[i]
         /\ \A i \in DOMAIN ledger' \ DOMAIN ledger :
              /\ i \in DOMAIN Entries(n) /\ i <= c
              /\ ledger'[i] = [term |-> Entries(n)[i].term, cmd |-> Entries(n)[i].cmd,
                               at |-> term[n]]
<1> DEFINE s    == Entries(n)
           a    == Len(ledger) + 1
           new  == Slice(log[n], a, c)
           Line == [term : Nat, cmd : Command \cup {None}, at : Nat]
           more == [j \in DOMAIN new |-> [term |-> new[j].term, cmd |-> new[j].cmd, at |-> term[n]]]
<1>1. Plain(log[n]) /\ s = log[n].entries /\ term[n] \in Nat
  BY PlainNow DEF Step, Known, LogsAgree
<1>2. /\ ledger \in Seq(Line) /\ Len(ledger) \in Nat /\ DOMAIN ledger = 1..Len(ledger)
      /\ a \in Nat /\ a >= 1
  BY LenProperties DEF Step, Known, TypeOK, LedgerOK
<1>3. Max({Len(ledger) + 1, FirstIndex(log[n])}) = a
  <2>1. FirstIndex(log[n]) = 1
    BY <1>1, PlainLog
  <2> QED
    BY <1>2, <2>1, MaxOfPair
<1>4. ledger' = ledger \o more
  BY <1>3 DEF Commits
<1>5. c <= Len(s) /\ Len(s) \in Nat
  <2>1. c \in DOMAIN s
    BY StepCommits
  <2> QED
    BY <1>1, <2>1, PlainLog
<1> HIDE DEF a
<1>6. /\ new \in Seq(Entry)
      /\ Len(new) = IF a <= c THEN c - a + 1 ELSE 0
      /\ \A j \in DOMAIN new : /\ a + j - 1 \in DOMAIN s /\ a + j - 1 <= c
                               /\ new[j] = s[a + j - 1]
  <2>1. /\ new \in Seq(Entry) /\ Len(new) \in Nat
        /\ (c <= Len(log[n].entries) /\ a <= c) => Len(new) = c - a + 1
        /\ a > c => Len(new) = 0
        /\ \A j \in 1..Len(new) : /\ a + j - 1 \in DOMAIN log[n].entries
                                 /\ a + j - 1 <= c
                                 /\ new[j] = log[n].entries[a + j - 1]
    BY <1>1, <1>2, SliceOfPlain
  <2> HIDE DEF new
  <2>2. DOMAIN new = 1..Len(new)
    BY <2>1, LenProperties
  <2> QED
    BY <1>1, <1>2, <1>5, <2>1, <2>2
<1> HIDE DEF new
<1>7. /\ more \in Seq(Line) /\ Len(more) = Len(new) /\ DOMAIN more = DOMAIN new
      /\ \A j \in DOMAIN new :
           more[j] = [term |-> new[j].term, cmd |-> new[j].cmd, at |-> term[n]]
  <2>1. DOMAIN new = 1..Len(new) /\ Len(new) \in Nat
    BY <1>6, LenProperties
  <2>2. \A j \in 1..Len(new) : new[j] \in Entry
    BY <1>6, <2>1, ElementOfSeq
  <2>3. \A j \in 1..Len(new) :
          [term |-> new[j].term, cmd |-> new[j].cmd, at |-> term[n]] \in Line
    BY <1>1, <2>2 DEF Entry
  <2>4. more = [j \in 1..Len(new) |->
                  [term |-> new[j].term, cmd |-> new[j].cmd, at |-> term[n]]]
    BY <2>1
  <2>5. more \in Seq(Line) /\ Len(more) = Len(new)
    BY <2>1, <2>3, <2>4, IsASeq, LenProperties
  <2> QED
    BY <2>1, <2>4, <2>5
<1> HIDE DEF more, Line
<1>8. /\ ledger \o more \in Seq(Line) /\ Len(ledger \o more) = Len(ledger) + Len(more)
      /\ \A i \in 1..(Len(ledger) + Len(more)) :
           (ledger \o more)[i] = IF i <= Len(ledger) THEN ledger[i] ELSE more[i - Len(ledger)]
  <2> QED
    BY <1>2, <1>7, ConcatProperties, ZenonT(30)
<1>9. /\ Len(more) \in Nat /\ DOMAIN ledger' = 1..(Len(ledger) + Len(more))
      /\ DOMAIN more = 1..Len(more)
  <2> QED
    BY <1>4, <1>7, <1>8, LenProperties
<1>10. Len(ledger') = IF c <= Len(ledger) THEN Len(ledger) ELSE c
  BY <1>2, <1>4, <1>6, <1>7, <1>8 DEF a
<1>11. \A i \in DOMAIN ledger : i \in DOMAIN ledger' /\ ledger'[i] = ledger[i]
  BY <1>2, <1>4, <1>8, <1>9
<1>12. ASSUME NEW i \in DOMAIN ledger' \ DOMAIN ledger
       PROVE  /\ i \in DOMAIN s /\ i <= c
              /\ ledger'[i] = [term |-> s[i].term, cmd |-> s[i].cmd, at |-> term[n]]
  <2>1. i \in 1..(Len(ledger) + Len(more)) /\ ~(i <= Len(ledger))
    BY <1>2, <1>9
  <2>2. ledger'[i] = more[i - Len(ledger)] /\ i - Len(ledger) \in DOMAIN new
    BY <1>2, <1>4, <1>7, <1>8, <1>9, <2>1
  <2>3. a + (i - Len(ledger)) - 1 = i
    BY <1>2, <1>9, <2>1 DEF a
  <2> QED
    BY <1>6, <1>7, <2>2, <2>3
<1> QED
  BY <1>4, <1>8, <1>10, <1>11, <1>12 DEF Line

LEMMA StepLedgerIsChosen ==
  ASSUME NEW n \in Node, Step(n)
  PROVE  LedgerIsChosen'
<1>1. ASSUME NEW i \in DOMAIN ledger, NEW t, t = ledger[i].at
      PROVE  \E c \in DOMAIN lines'[t] :
               /\ i <= c /\ Chosen(t, c)'
               /\ lines'[t][i] = [term |-> ledger[i].term, cmd |-> ledger[i].cmd]
  <2>1. PICK c \in DOMAIN lines[t] :
          /\ i <= c /\ Chosen(t, c)
          /\ lines[t][i] = [term |-> ledger[i].term, cmd |-> ledger[i].cmd]
    BY <1>1 DEF Step, LogsAgree, LedgerIsChosen
  <2>2. t \in DOMAIN lines
    BY <2>1 DEF Chosen
  <2>3. i \in DOMAIN lines[t]
    <3>1. i \in Nat /\ i >= 1
      BY LenProperties DEF Step, Known, TypeOK, LedgerOK
    <3>2. DOMAIN lines[t] = 1..Len(lines[t]) /\ Len(lines[t]) \in Nat
      BY <2>2, LinesInOrder
    <3> QED
      BY <2>1, <3>1, <3>2
  <2>4. c \in DOMAIN lines'[t] /\ lines'[t][i] = lines[t][i]
    BY <2>1, <2>2, <2>3, StepHas
  <2>5. Chosen(t, c)'
    BY <2>1, StepChosen
  <2> QED
    BY <2>1, <2>4, <2>5
<1>2. CASE ledger' = ledger
  <2> SUFFICES ASSUME NEW i \in DOMAIN ledger', NEW t, t = ledger'[i].at
               PROVE  \E c \in DOMAIN lines'[t] :
                        /\ i <= c /\ Chosen(t, c)'
                        /\ lines'[t][i] = [term |-> ledger'[i].term, cmd |-> ledger'[i].cmd]
    BY DEF LedgerIsChosen, Chosen
  <2> QED
    BY <1>1, <1>2
<1>3. ASSUME NEW k \in Nat, Commits(n, k)
      PROVE  LedgerIsChosen'
  <2> SUFFICES ASSUME NEW i \in DOMAIN ledger', NEW t, t = ledger'[i].at
               PROVE  \E c \in DOMAIN lines'[t] :
                        /\ i <= c /\ Chosen(t, c)'
                        /\ lines'[t][i] = [term |-> ledger'[i].term, cmd |-> ledger'[i].cmd]
    BY DEF LedgerIsChosen, Chosen
  <2>1. CASE i \in DOMAIN ledger
    <3>1. ledger'[i] = ledger[i]
      BY <1>3, <2>1, StepCommitted
    <3> QED
      BY <1>1, <2>1, <3>1
  <2>2. CASE i \notin DOMAIN ledger
    <3>1. /\ i \in DOMAIN Entries(n) /\ i <= k
          /\ ledger'[i] = [term |-> Entries(n)[i].term, cmd |-> Entries(n)[i].cmd,
                           at |-> term[n]]
      BY <1>3, <2>2, StepCommitted
    <3>2. t = term[n]
      BY <3>1
    <3>4. /\ t \in DOMAIN lines' /\ lines'[t] = Entries(n)
          /\ k \in DOMAIN Entries(n) /\ Chosen(t, k)'
      BY <1>3, <3>2, StepCommits
    <3>3. t = term[n] /\ ledger'[i].term = Entries(n)[i].term
          /\ ledger'[i].cmd = Entries(n)[i].cmd
      BY <3>1
    <3>5. Entries(n)[i] = [term |-> Entries(n)[i].term, cmd |-> Entries(n)[i].cmd]
      <4>1. Entries(n)[i] \in Entry
        BY <3>1, PlainNow, PlainLog, ElementOfSeq DEF Step, Known, LogsAgree
      <4> QED
        BY <4>1 DEF Entry
    <3> QED
      BY <3>1, <3>3, <3>4, <3>5
  <2> QED
    BY <2>1, <2>2
<1>4. MachineMoves(n)
  BY DEF Step, LogStep
<1> QED
  BY <1>2, <1>3, <1>4 DEF MachineMoves

-----------------------------------------------------------------------------
(* The invariant.                                                          *)

LEMMA StepLogsAgree ==
  ASSUME NEW n \in Node, Step(n)
  PROVE  LogsAgree'
BY StepUncompacted, StepLinesAreLed, StepLogsFollow, StepAppendsFollow,
   StepAcceptedAreWritten, StepAcceptedAreKept, StepLinesAreComplete,
   StepRequestsAreTrue, StepCandidatesKnow, StepAnswersAreTrue, StepLedgerIsChosen
   DEF LogsAgree

LEMMA InitLogsAgree ==
  ASSUME RInit
  PROVE  LogsAgree
<1>1. /\ lines = << >> /\ accepted = {} /\ ballots = {} /\ elected = {}
      /\ term = [n \in Node |-> 1] /\ log = [n \in Node |-> EmptyLog]
      /\ role = [n \in Node |-> FOLLOWER] /\ net = EmptyBag /\ ledger = << >>
  BY DEF RInit, HInit, Init
<1>2. BagToSet(net) = {} /\ Leaders = {} /\ DOMAIN lines = {}
  <2>1. Leaders = {}
    BY <1>1 DEF Leaders, FOLLOWER, LEADER
  <2> QED
    BY <1>1, <2>1 DEF EmptyBag, SetToBag, BagToSet
<1>3. /\ \A n \in Node : log[n].base = 0 /\ log[n].baseTerm = 0
      /\ \A n \in Node : Entries(n) = << >> /\ OwnTerm(n) = {}
  <2>1. \A n \in Node : log[n] = EmptyLog
    BY <1>1
  <2>2. FirstIndex(EmptyLog) = 1 /\ LastIndex(EmptyLog) = 0
    BY EmptySeq DEF FirstIndex, LastIndex, EmptyLog
  <2>3. \A n \in Node : OwnTerm(n) = {}
    BY <2>1, <2>2 DEF OwnTerm
  <2>4. \A n \in Node : /\ log[n].base = 0 /\ log[n].baseTerm = 0
                        /\ Entries(n) = << >>
    BY <2>1 DEF Entries, EmptyLog
  <2> QED
    BY <2>3, <2>4
<1>4. Uncompacted /\ LinesAreLed /\ AppendsFollow /\ RequestsAreTrue /\ CandidatesKnow
  BY <1>1, <1>2, <1>3
     DEF Uncompacted, LinesAreLed, AppendsFollow, RequestsAreTrue, CandidatesKnow
<1>5. LogsFollow
  <2>1. Orderly(lines)
    BY <1>2 DEF Orderly
  <2>2. \A n \in Node : Follows(Entries(n), lines) /\ DOMAIN Entries(n) = {}
    BY <1>3 DEF Follows
  <2> QED
    BY <2>1, <2>2 DEF LogsFollow
<1>6. AcceptedAreWritten /\ AcceptedAreKept
  <2>1. Accepting = {}
    BY <1>3 DEF Accepting
  <2> QED
    BY <1>1, <2>1 DEF AcceptedAreWritten, AcceptedAreKept
<1>7. LinesAreComplete /\ AnswersAreTrue /\ LedgerIsChosen
  BY <1>1, <1>2 DEF LinesAreComplete, AnswersAreTrue, LedgerIsChosen
<1> QED
  BY <1>4, <1>5, <1>6, <1>7 DEF LogsAgree

LEMMA StutterLogsAgree ==
  ASSUME LogsAgree, UNCHANGED recordVars
  PROVE  LogsAgree'
<1>1. UNCHANGED <<term, votedFor, role, log, net, matchIndex, nextIndex, ledger,
                  ballots, elected, lines, accepted>>
  BY DEF recordVars, allVars, vars, ballotVars, leaderVars
<1>2. Leaders' = Leaders /\ \A n : Entries(n)' = Entries(n)
  BY <1>1 DEF Leaders, Entries
<1>3. Uncompacted' /\ LinesAreLed' /\ LogsFollow' /\ AppendsFollow'
  BY <1>1, <1>2 DEF LogsAgree, Uncompacted, LinesAreLed, LogsFollow, AppendsFollow
<1>4. \A t, i : Lost(t, i)' <=> Lost(t, i)
  BY <1>1 DEF Lost
<1>5. AcceptedAreWritten' /\ AcceptedAreKept'
  <2>1. Accepting' = Accepting
    BY <1>1 DEF Accepting, OwnTerm
  <2> QED
    BY <1>1, <1>2, <1>4, <2>1 DEF LogsAgree, AcceptedAreWritten, AcceptedAreKept
<1>6. LinesAreComplete' /\ RequestsAreTrue' /\ CandidatesKnow'
  BY <1>1, <1>2, <1>4 DEF LogsAgree, LinesAreComplete, RequestsAreTrue, CandidatesKnow
<1>7. AnswersAreTrue'
  <2>1. \A p, t, k : Truthful(p, t, k)' <=> Truthful(p, t, k)
    BY <1>1, <1>2 DEF Truthful
  <2> QED
    BY <1>1, <1>2, <2>1 DEF LogsAgree, AnswersAreTrue, Truthful
<1>8. LedgerIsChosen'
  BY <1>1 DEF LogsAgree, LedgerIsChosen, Chosen
<1> QED
  BY <1>3, <1>5, <1>6, <1>7, <1>8 DEF LogsAgree

LEMMA RecordIsHistory == RSpec => HSpec
<1>1. RInit => HInit
  BY DEF RInit
<1>2. [RNext]_recordVars => [HNext]_allVars
  BY DEF RNext, recordVars
<1> QED
  BY <1>1, <1>2, PTL DEF RSpec, HSpec

LEMMA RecordKnows == RSpec => [](Known)
BY RecordIsHistory, HistoryIsSpec, TypeCorrect, LeadersAreElected, LeadersSend, PTL
   DEF Known

\* Every step of the record is the step of one node, or none.
LEMMA RecordSteps ==
  ASSUME ~Compaction, Known, Known', LogsAgree, [RNext]_recordVars
  PROVE  UNCHANGED recordVars \/ \E n \in Node : Step(n)
<1>1. CASE RNext
  <2>1. PICK n \in Node : LogStep(n)
    BY <1>1, NextLogStep DEF RNext, HNext, Known, SentByLeaders
  <2> QED
    BY <1>1, <2>1 DEF Step
<1> QED
  BY <1>1

\* In a cluster that does not compact its logs, whatever crashes, restarts, or is lost,
\* repeated or reordered on the way: the logs are made of pieces of leaders' logs, and
\* no leader is without what a majority has accepted.
THEOREM LogsStayTogether ==
  ASSUME ~Compaction
  PROVE  RSpec => []LogsAgree
<1>1. RInit => LogsAgree
  BY InitLogsAgree
<1>2. ASSUME Known, Known', LogsAgree, [RNext]_recordVars
      PROVE  LogsAgree'
  BY <1>2, RecordSteps, StepLogsAgree, StutterLogsAgree
<1> QED
  BY <1>1, <1>2, RecordKnows, PTL DEF RSpec

-----------------------------------------------------------------------------
(* What follows for the logs of the nodes.                                 *)

\* The record and the logs, with their types.
LEMMA AgreeFacts ==
  ASSUME TypeOK, ElectedByBallot, LogsAgree
  PROVE  /\ \A n \in Node : /\ Plain(log[n]) /\ Entries(n) = log[n].entries
                            /\ Entries(n) \in Seq(Entry) /\ Follows(Entries(n), lines)
                            /\ LastIndex(log[n]) = Len(Entries(n))
                            /\ DOMAIN Entries(n) = 1..Len(Entries(n))
                            /\ Len(Entries(n)) \in Nat /\ term[n] \in Nat
                            /\ \A i \in Int : At(log[n], i) = Entries(n)[i]
                            /\ \A i \in Int : Holds(log[n], i) <=> i \in DOMAIN Entries(n)
         /\ DOMAIN lines \subseteq Nat /\ Orderly(lines)
         /\ \A t \in DOMAIN lines : lines[t] \in Seq(Entry) /\ Follows(lines[t], lines)
                                    /\ DOMAIN lines[t] = 1..Len(lines[t])
                                    /\ Len(lines[t]) \in Nat
         /\ \A n \in Node : role[n] = LEADER =>
              term[n] \in DOMAIN lines /\ lines[term[n]] = Entries(n)
<1>1. \A n \in Node : /\ Plain(log[n]) /\ Entries(n) = log[n].entries /\ term[n] \in Nat
                      /\ Follows(Entries(n), lines)
  BY PlainNow DEF LogsAgree, LogsFollow
<1>2. DOMAIN lines \subseteq Nat /\ Orderly(lines)
  BY DEF ElectedByBallot, LogsAgree, LinesAreLed, LogsFollow
<1>3. \A t \in DOMAIN lines : lines[t] \in Seq(Entry) /\ Follows(lines[t], lines)
  BY <1>2 DEF Orderly
<1>4. ASSUME NEW n \in Node, role[n] = LEADER
      PROVE  term[n] \in DOMAIN lines /\ lines[term[n]] = Entries(n)
  <2>1. Election(term[n], n) \in elected
    BY <1>4 DEF ElectedByBallot, ElectedByMajority, Leading
  <2>2. Election(term[n], n).term = term[n]
    BY DEF Election
  <2> QED
    BY <1>4, <2>1, <2>2 DEF LogsAgree, LinesAreLed, Leaders
<1> QED
  BY <1>1, <1>2, <1>3, <1>4, PlainLog, LenProperties

LEMMA AgreeInOrder ==
  ASSUME TypeOK, ElectedByBallot, LogsAgree
  PROVE  TermsInOrder
<1> SUFFICES ASSUME NEW n \in Node, NEW i \in log[n].base..LastIndex(log[n])
             PROVE  /\ TermAt(log[n], i) <= term[n]
                    /\ i < LastIndex(log[n]) => TermAt(log[n], i) <= TermAt(log[n], i + 1)
  BY DEF TermsInOrder
<1> DEFINE s == Entries(n)
<1>1. /\ Plain(log[n]) /\ s = log[n].entries /\ s \in Seq(Entry) /\ Follows(s, lines)
      /\ LastIndex(log[n]) = Len(s) /\ DOMAIN s = 1..Len(s) /\ Len(s) \in Nat
      /\ term[n] \in Nat /\ Orderly(lines) /\ log[n].base = 0
  BY AgreeFacts DEF Plain
<1>2. /\ TermAt(log[n], 0) = 0
      /\ \A j \in Int : j # 0 => TermAt(log[n], j) = s[j].term
  BY <1>1, PlainLog
<1>3. \A j \in DOMAIN s : s[j].term \in Nat /\ s[j].term <= term[n]
  <2>1. \A j \in DOMAIN s : s[j].term \in Nat
    BY <1>1, EntryTerm, ElementOfSeq
  <2> QED
    BY <2>1 DEF LogsAgree, LogsFollow
<1>4. i \in Nat /\ i <= Len(s)
  BY <1>1
<1>5. CASE i = 0
  <2>1. 0 < Len(s) => TermAt(log[n], 1) \in Nat
    BY <1>1, <1>2, <1>3
  <2> QED
    BY <1>1, <1>2, <1>5, <2>1
<1>6. CASE i # 0
  <2>1. i \in DOMAIN s /\ TermAt(log[n], i) = s[i].term
    BY <1>1, <1>2, <1>4, <1>6
  <2>2. ASSUME i < Len(s) PROVE TermAt(log[n], i) <= TermAt(log[n], i + 1)
    <3>1. i + 1 \in DOMAIN s /\ i + 1 # 0 /\ i <= i + 1
      BY <1>1, <1>4, <2>2
    <3>2. s[i].term <= s[i + 1].term
      BY <1>1, <2>1, <3>1, TermsNeverFall
    <3> QED
      BY <1>2, <2>1, <3>1, <3>2
  <2> QED
    BY <1>1, <1>3, <2>1, <2>2
<1> QED
  BY <1>5, <1>6

LEMMA AgreeMatch ==
  ASSUME TypeOK, ElectedByBallot, LogsAgree
  PROVE  LogMatching
<1> SUFFICES ASSUME NEW n \in Node, NEW p \in Node, NEW i \in 1..LastIndex(log[n]),
                    Holds(log[n], i), Holds(log[p], i),
                    At(log[n], i).term = At(log[p], i).term,
                    NEW j \in 1..i
             PROVE  At(log[n], j) = At(log[p], j)
  BY DEF LogMatching
<1>1. /\ i \in DOMAIN Entries(n) /\ i \in DOMAIN Entries(p)
      /\ Entries(n)[i].term = Entries(p)[i].term
  <2>1. i \in Int
    OBVIOUS
  <2> QED
    BY <2>1, AgreeFacts
<1>2. Alike(Entries(n), Entries(p), i)
  BY <1>1, AgreeFacts, SameTermAlike
<1>3. Entries(n)[j] = Entries(p)[j]
  BY <1>2 DEF Alike
<1>4. j \in Int
  OBVIOUS
<1> QED
  BY <1>3, <1>4, AgreeFacts

LEMMA AgreeTruthful ==
  ASSUME TypeOK, ElectedByBallot, LogsAgree
  PROVE  MatchIsTruthful
<1> SUFFICES ASSUME NEW n \in Node, NEW p \in Node, role[n] = LEADER, term[p] = term[n],
                    NEW i \in 1..matchIndex[n][p]
             PROVE  /\ i <= LastIndex(log[p])
                    /\ At(log[n], i) = At(log[p], i)
  BY DEF MatchIsTruthful
<1> DEFINE k == matchIndex[n][p]
<1>1. k \in Nat /\ k > 0 /\ i \in Nat
  <2>1. matchIndex \in [Node -> [Node -> Nat]]
    BY DEF TypeOK, LeadersOK
  <2>2. matchIndex[n] \in [Node -> Nat]
    BY <2>1
  <2>3. k \in Nat
    BY <2>2
  <2> QED
    BY <2>3
<1>2. n \in Leaders
  BY DEF Leaders
<1>3. Truthful(p, term[n], k)
  BY <1>1, <1>2 DEF LogsAgree, AnswersAreTrue
<1>4. Alike(Entries(p), Entries(n), k)
  BY <1>3, AgreeFacts DEF Truthful
<1> HIDE DEF k
<1>5. i \in 1..k
  BY DEF k
<1>6. k <= Len(Entries(p)) /\ Entries(p)[i] = Entries(n)[i]
  BY <1>4, <1>5 DEF Alike
<1>7. i <= LastIndex(log[p])
  BY <1>1, <1>5, <1>6, AgreeFacts
<1>8. i \in Int
  BY <1>1
<1> QED
  BY <1>6, <1>7, <1>8, AgreeFacts

-----------------------------------------------------------------------------
(* What follows for what is committed.                                     *)

\* What a majority has, no majority has gone on without.
LEMMA ChosenNotLost ==
  ASSUME NEW t, NEW i, Chosen(t, i)
  PROVE  ~Lost(t, i)
<1> SUFFICES ASSUME Lost(t, i) PROVE FALSE
  OBVIOUS
<1> DEFINE have == {p \in Node : Acceptance(t, p, i) \in accepted}
           lack == {p \in Node : term[p] > t /\ Acceptance(t, p, i) \notin accepted}
<1>1. Majority(have) /\ Majority(lack)
  BY DEF Chosen, Lost
<1>2. have \in SUBSET Node /\ lack \in SUBSET Node /\ have \cap lack = {}
  OBVIOUS
<1> HIDE DEF have, lack
<1> QED
  BY <1>1, <1>2, MajoritiesMeet

\* A log that has a chosen entry has everything before it too.
LEMMA ChosenBelow ==
  ASSUME NEW s, Follows(s, lines), NEW t, NEW c \in Nat, Has(s, c, t)
  PROVE  Alike(s, lines[t], c)
BY DEF Follows, Has

\* A leader of a later term has the log of the earlier one up to a chosen entry.
LEMMA ChosenInLines ==
  ASSUME TypeOK, ElectedByBallot, LogsAgree,
         NEW t, NEW c, Chosen(t, c), NEW u \in DOMAIN lines, t <= u
  PROVE  Alike(lines[u], lines[t], c)
<1>1. /\ t \in DOMAIN lines /\ t \in Nat /\ u \in Nat
      /\ c \in DOMAIN lines[t] /\ lines[t][c].term = t /\ c \in Nat
      /\ Follows(lines[u], lines)
  BY AgreeFacts DEF Chosen, Has
<1>2. CASE t = u
  <2>1. Has(lines[u], c, t)
    BY <1>1, <1>2 DEF Has
  <2> QED
    BY <1>1, <2>1, ChosenBelow
<1>3. CASE t < u
  <2>1. Has(lines[u], c, t)
    BY <1>1, <1>3, ChosenNotLost DEF LogsAgree, LinesAreComplete
  <2> QED
    BY <1>1, <2>1, ChosenBelow
<1> QED
  BY <1>1, <1>2, <1>3

\* What is chosen twice is the same.
LEMMA ChosenAgree ==
  ASSUME TypeOK, ElectedByBallot, LogsAgree,
         NEW t, NEW c, Chosen(t, c), NEW u, NEW d, Chosen(u, d),
         NEW i \in Nat, i >= 1, i <= c, i <= d
  PROVE  lines[t][i] = lines[u][i]
<1>1. /\ t \in DOMAIN lines /\ u \in DOMAIN lines /\ t \in Nat /\ u \in Nat
      /\ c \in Nat /\ d \in Nat
  BY AgreeFacts DEF Chosen, Has
<1>2. i \in 1..c /\ i \in 1..d
  BY <1>1
<1>3. CASE t <= u
  BY <1>1, <1>2, <1>3, ChosenInLines DEF Alike
<1>4. CASE u <= t
  BY <1>1, <1>2, <1>4, ChosenInLines DEF Alike
<1> QED
  BY <1>1, <1>3, <1>4

\* What the committed log has at an index.
LEMMA LedgerFacts ==
  ASSUME TypeOK, ElectedByBallot, LogsAgree, NEW i \in DOMAIN ledger
  PROVE  /\ i \in Nat /\ i >= 1
         /\ \E c \in Nat :
              /\ i <= c /\ Chosen(ledger[i].at, c)
              /\ lines[ledger[i].at][i] = [term |-> ledger[i].term, cmd |-> ledger[i].cmd]
<1>1. i \in Nat /\ i >= 1
  BY LenProperties DEF TypeOK, LedgerOK
<1>2. PICK t : t = ledger[i].at
  OBVIOUS
<1>3. PICK c \in DOMAIN lines[t] :
        /\ i <= c /\ Chosen(t, c)
        /\ lines[t][i] = [term |-> ledger[i].term, cmd |-> ledger[i].cmd]
  BY <1>2 DEF LogsAgree, LedgerIsChosen
<1>4. c \in Nat
  BY <1>3, AgreeFacts DEF Chosen
<1> QED
  BY <1>1, <1>2, <1>3, <1>4

\* Who has the chosen entry above a committed one keeps the committed one.
LEMMA AlikeKeeps ==
  ASSUME TypeOK, ElectedByBallot, LogsAgree, NEW n \in Node, NEW i \in DOMAIN ledger,
         NEW c \in Nat, i <= c, NEW t, Alike(Entries(n), lines[t], c),
         lines[t][i] = [term |-> ledger[i].term, cmd |-> ledger[i].cmd]
  PROVE  Keeps(n, i)
<1>1. i \in 1..c /\ i \in Int
  BY LedgerFacts
<1>2. Entries(n)[i] = lines[t][i] /\ c <= Len(Entries(n))
  BY <1>1 DEF Alike
<1>3. i \in DOMAIN Entries(n)
  BY <1>1, <1>2, AgreeFacts
<1>4. Holds(log[n], i) /\ At(log[n], i).term = ledger[i].term
  BY <1>1, <1>2, <1>3, AgreeFacts
<1> QED
  BY <1>4 DEF Keeps

LEMMA AgreeComplete ==
  ASSUME TypeOK, ElectedByBallot, LogsAgree
  PROVE  LeaderCompleteness
<1> SUFFICES ASSUME NEW n \in Node, role[n] = LEADER, NEW i \in DOMAIN ledger,
                    ledger[i].at <= term[n]
             PROVE  Keeps(n, i)
  BY DEF LeaderCompleteness
<1> PICK t : t = ledger[i].at
  OBVIOUS
<1>1. PICK c \in Nat :
        /\ i <= c /\ Chosen(t, c)
        /\ lines[t][i] = [term |-> ledger[i].term, cmd |-> ledger[i].cmd]
  BY LedgerFacts
<1>2. term[n] \in DOMAIN lines /\ lines[term[n]] = Entries(n)
  BY AgreeFacts
<1>3. Alike(Entries(n), lines[t], c)
  BY <1>1, <1>2, ChosenInLines
<1> QED
  BY <1>1, <1>3, AlikeKeeps

LEMMA AgreeOnMajority ==
  ASSUME TypeOK, ElectedByBallot, LogsAgree
  PROVE  CommittedOnMajority
<1> SUFFICES ASSUME NEW i \in DOMAIN ledger
             PROVE  Majority({n \in Node : Keeps(n, i)})
  BY DEF CommittedOnMajority
<1> PICK t : t = ledger[i].at
  OBVIOUS
<1>1. PICK c \in Nat :
        /\ i <= c /\ Chosen(t, c)
        /\ lines[t][i] = [term |-> ledger[i].term, cmd |-> ledger[i].cmd]
  BY LedgerFacts
<1> DEFINE have == {p \in Node : Acceptance(t, p, c) \in accepted}
           keep == {n \in Node : Keeps(n, i)}
<1>2. ASSUME NEW p \in have PROVE p \in keep
  <2> DEFINE a == Acceptance(t, p, c)
  <2>1. a \in accepted /\ a.term = t /\ a.by = p /\ a.index = c
    BY DEF Acceptance
  <2> HIDE DEF a
  <2>2. Lost(t, c) \/ Has(Entries(p), c, t)
    BY <2>1 DEF LogsAgree, AcceptedAreKept
  <2>3. Has(Entries(p), c, t)
    BY <1>1, <2>2, ChosenNotLost
  <2>4. Alike(Entries(p), lines[t], c)
    BY <2>3, AgreeFacts, ChosenBelow
  <2> QED
    BY <1>1, <2>4, AlikeKeeps
<1>3. Majority(have)
  BY <1>1 DEF Chosen
<1>4. have \in SUBSET Node /\ keep \in SUBSET Node /\ have \subseteq keep
  BY <1>2
<1> HIDE DEF have, keep
<1>5. Majority(keep)
  BY <1>3, <1>4, MajorityGrows
<1> QED
  BY <1>5 DEF keep

\* A log has its terms in order, and none that its node has not reached.
THEOREM LogsInOrder ==
  ASSUME ~Compaction
  PROVE  RSpec => []TermsInOrder
BY LogsStayTogether, RecordKnows, AgreeInOrder, PTL DEF Known

\* Two logs with an entry of the same term at the same index are the same up to it.
THEOREM LogsMatch ==
  ASSUME ~Compaction
  PROVE  RSpec => []LogMatching
BY LogsStayTogether, RecordKnows, AgreeMatch, PTL DEF Known

\* What a leader believes of a follower is so, whatever answers were lost, repeated or
\* overtaken.
THEOREM LeadersBelieveTruly ==
  ASSUME ~Compaction
  PROVE  RSpec => []MatchIsTruthful
BY LogsStayTogether, RecordKnows, AgreeTruthful, PTL DEF Known

\* Whoever leads a term not before the one an entry was committed in has the entry.
THEOREM LeadersAreComplete ==
  ASSUME ~Compaction
  PROVE  RSpec => []LeaderCompleteness
BY LogsStayTogether, RecordKnows, AgreeComplete, PTL DEF Known

\* A committed entry is on the disks of a majority, for good.
THEOREM CommittedStays ==
  ASSUME ~Compaction
  PROVE  RSpec => []CommittedOnMajority
BY LogsStayTogether, RecordKnows, AgreeOnMajority, PTL DEF Known

-----------------------------------------------------------------------------
(* What is applied.                                                        *)

\* What is safe in a term, every leader from that term on has.
LEMMA SafeInLines ==
  ASSUME TypeOK, ElectedByBallot, LogsAgree, NEW s \in Seq(Entry), NEW k \in Nat,
         NEW t, Safe(s, k, t), t \in Nat, NEW w \in DOMAIN lines, t <= w
  PROVE  Alike(s, lines[w], k)
<1>1. w \in Nat /\ Len(lines[w]) \in Nat /\ Len(s) \in Nat
  BY AgreeFacts, LenProperties
<1>2. CASE k = 0
  BY <1>1, <1>2 DEF Alike
<1>3. ASSUME k # 0, NEW u \in DOMAIN lines, NEW c \in DOMAIN lines[u],
             u <= t, k <= c, Chosen(u, c), Alike(s, lines[u], k)
      PROVE  Alike(s, lines[w], k)
  <2>1. u \in Nat /\ c \in Nat
    BY <1>3, AgreeFacts
  <2>2. u <= w
    BY <1>1, <1>3, <2>1
  <2>3. Alike(lines[w], lines[u], c)
    BY <1>3, <2>2, ChosenInLines
  <2> QED
    BY <1>1, <1>3, <2>1, <2>3 DEF Alike
<1> QED
  BY <1>2, <1>3 DEF Safe

\* What is safe stays so, in every piece that has it and in every later term.
LEMMA StepSafe ==
  ASSUME NEW n \in Node, Step(n), NEW s, NEW r, NEW k \in Nat, NEW t \in Nat,
         NEW w \in Nat, t <= w, Safe(s, k, t), Alike(s, r, k)
  PROVE  Safe(r, k, w)'
<1>1. ASSUME k # 0, NEW u \in DOMAIN lines, NEW c \in DOMAIN lines[u],
             u <= t, k <= c, Chosen(u, c), Alike(s, lines[u], k)
      PROVE  /\ u \in DOMAIN lines' /\ c \in DOMAIN lines'[u] /\ u <= w
             /\ Chosen(u, c)' /\ Alike(r, lines'[u], k)
  <2>1. u \in Nat /\ c \in Nat /\ Len(lines[u]) \in Nat /\ c <= Len(lines[u])
        /\ DOMAIN lines[u] = 1..Len(lines[u])
    BY <1>1, LinesInOrder
  <2>2. u \in DOMAIN lines' /\ Alike(lines[u], lines'[u], Len(lines[u]))
        /\ Len(lines'[u]) \in Nat
    BY StepLines, LinesInOrder DEF Grown
  <2>3. Chosen(u, c)' /\ c \in DOMAIN lines'[u]
    BY <1>1, <2>1, StepChosen, StepHas
  <2>4. Alike(r, lines'[u], k)
    BY <1>1, <2>1, <2>2 DEF Alike
  <2> QED
    BY <1>1, <2>1, <2>2, <2>3, <2>4
<1>2. CASE k = 0
  BY <1>2 DEF Safe
<1>3. CASE k # 0
  <2>1. PICK u \in DOMAIN lines : \E c \in DOMAIN lines[u] :
          u <= t /\ k <= c /\ Chosen(u, c) /\ Alike(s, lines[u], k)
    BY <1>3 DEF Safe
  <2>2. PICK c \in DOMAIN lines[u] :
          u <= t /\ k <= c /\ Chosen(u, c) /\ Alike(s, lines[u], k)
    BY <2>1
  <2>3. /\ u \in DOMAIN lines' /\ c \in DOMAIN lines'[u] /\ u <= w
        /\ Chosen(u, c)' /\ Alike(r, lines'[u], k)
    BY <1>1, <1>3, <2>2
  <2> QED
    BY <2>2, <2>3 DEF Safe
<1> QED
  BY <1>2, <1>3

\* What a node has committed is in its log, and stays there.
LEMMA StepKeepsSafe ==
  ASSUME NEW n \in Node, Step(n), CommitsAreSafe, NEW p \in Node
  PROVE  Alike(Entries(p), Entries(p)', commitIndex[p])
<1> DEFINE k == commitIndex[p]
<1>1. /\ k \in Nat /\ term[p] \in Nat /\ Entries(p) \in Seq(Entry)
      /\ Len(Entries(p)) \in Nat /\ DOMAIN Entries(p) = 1..Len(Entries(p))
  BY AgreeFacts DEF Step, Known, TypeOK, MachinesOK
<1>2. Entries(p)' \in Seq(Entry) /\ Len(Entries(p)') \in Nat
      /\ DOMAIN Entries(p)' = 1..Len(Entries(p)')
  BY StepPlain, PlainLog DEF Entries
<1>3. Safe(Entries(p), k, term[p])
  BY DEF CommitsAreSafe
<1>4. k <= Len(Entries(p))
  <2>1. CASE k = 0
    BY <1>1, <2>1
  <2>2. CASE k # 0
    BY <1>3, <2>2 DEF Safe, Alike
  <2> QED
    BY <2>1, <2>2
<1>5. ASSUME NEW i \in 1..k
      PROVE  i \in DOMAIN Entries(p)' /\ Entries(p)'[i] = Entries(p)[i]
  <2>1. i \in DOMAIN Entries(p)
    BY <1>1, <1>4, <1>5
  <2>2. ASSUME NEW a \in BagToSet(net), p = n, Accepts(n, a)
        PROVE  i \in DOMAIN lines[a.term] /\ Entries(n)[i].term = lines[a.term][i].term
    <3>1. a.term \in DOMAIN lines /\ a.term \in Nat
      BY <2>2, StepAccepts
    <3>2. term[p] <= a.term
      BY <1>1, <2>2, <3>1 DEF Accepts
    <3>3. Alike(Entries(p), lines[a.term], k)
      BY <1>1, <1>3, <3>1, <3>2, SafeInLines DEF Step, Known
    <3>4. DOMAIN lines[a.term] = 1..Len(lines[a.term]) /\ Len(lines[a.term]) \in Nat
      BY <3>1, LinesInOrder
    <3> QED
      BY <1>1, <1>5, <2>2, <3>3, <3>4 DEF Alike
  <2> QED
    BY <2>1, <2>2, StepKeepsEntry
<1>6. k <= Len(Entries(p)')
  <2>1. CASE k = 0
    BY <1>2, <2>1
  <2>2. CASE k # 0
    <3>1. k \in 1..k
      BY <1>1, <2>2
    <3>2. k \in DOMAIN Entries(p)'
      BY <1>5, <3>1
    <3> QED
      BY <1>2, <3>2
  <2> QED
    BY <2>1, <2>2
<1> QED
  BY <1>4, <1>5, <1>6 DEF Alike

\* Pieces that are alike up to k have the same beginning.
LEMMA AlikeBegin ==
  ASSUME NEW s \in Seq(Entry), NEW u \in Seq(Entry), NEW k \in Nat, Alike(s, u, k)
  PROVE  /\ SubSeq(s, 1, k) = SubSeq(u, 1, k)
         /\ SubSeq(s, 1, k) \in Seq(Entry) /\ Len(SubSeq(s, 1, k)) = k
         /\ \A i \in 1..k : SubSeq(s, 1, k)[i] = s[i]
<1>1. /\ k <= Len(s) /\ k <= Len(u) /\ Len(s) \in Nat /\ Len(u) \in Nat
      /\ \A i \in 1..k : s[i] = u[i]
  BY LenProperties DEF Alike
<1>2. /\ SubSeq(s, 1, k) \in Seq(Entry) /\ Len(SubSeq(s, 1, k)) = k
      /\ \A i \in 1..k : SubSeq(s, 1, k)[i] = s[i]
  BY <1>1, SubSeqProperties
<1>3. /\ SubSeq(u, 1, k) \in Seq(Entry) /\ Len(SubSeq(u, 1, k)) = k
      /\ \A i \in 1..k : SubSeq(u, 1, k)[i] = u[i]
  BY <1>1, SubSeqProperties
<1>4. SubSeq(s, 1, k) = SubSeq(u, 1, k)
  BY <1>1, <1>2, <1>3, SeqEqual
<1> QED
  BY <1>2, <1>4

\* The beginning of one piece and what comes after it in another make a beginning of
\* the other.
LEMMA PiecesJoin ==
  ASSUME NEW l, Plain(l), NEW s \in Seq(Entry), NEW c \in Nat, NEW d \in Nat,
         c <= d, d <= Len(l.entries), Alike(s, l.entries, c)
  PROVE  SubSeq(s, 1, c) \o Slice(l, c + 1, d) = SubSeq(l.entries, 1, d)
<1> DEFINE u == l.entries
           p == SubSeq(u, 1, c)
           q == Slice(l, c + 1, d)
           r == SubSeq(u, 1, d)
<1>1. u \in Seq(Entry) /\ Len(u) \in Nat
  BY PlainLog
<1>2. Alike(u, u, c) /\ Alike(u, u, d)
  BY <1>1 DEF Alike
<1>3. /\ SubSeq(s, 1, c) = p
      /\ p \in Seq(Entry) /\ Len(p) = c
      /\ \A i \in 1..c : p[i] = u[i]
  BY <1>1, <1>2, AlikeBegin
<1>4. /\ r \in Seq(Entry) /\ Len(r) = d
      /\ \A i \in 1..d : r[i] = u[i]
  BY <1>1, <1>2, AlikeBegin
<1>5. /\ q \in Seq(Entry) /\ Len(q) = d - c
      /\ \A j \in 1..Len(q) : q[j] = u[c + 1 + j - 1]
  BY SliceOfPlain
<1> HIDE DEF p, q, r
<1>6. /\ p \o q \in Seq(Entry) /\ Len(p \o q) = c + (d - c)
      /\ \A i \in 1..(c + (d - c)) :
           (p \o q)[i] = IF i <= c THEN p[i] ELSE q[i - c]
  BY <1>3, <1>5, ConcatProperties
<1>7. ASSUME NEW i \in 1..d PROVE (p \o q)[i] = r[i]
  <2> i \in Int
    OBVIOUS
  <2>1. CASE i <= c
    <3>1. i \in 1..c /\ i \in 1..(c + (d - c))
      BY <2>1
    <3>2. (p \o q)[i] = p[i]
      BY <1>6, <2>1, <3>1
    <3>3. p[i] = u[i]
      BY <1>3, <3>1
    <3> QED
      BY <1>4, <3>2, <3>3
  <2>2. CASE i > c
    <3>1. i - c \in 1..Len(q) /\ c + 1 + (i - c) - 1 = i
      BY <1>5, <2>2
    <3>2. q[i - c] = u[i]
      BY <1>5, <3>1
    <3> QED
      BY <1>4, <1>6, <2>2, <3>2
  <2>3. i <= c \/ i > c
    OBVIOUS
  <2> QED
    BY <2>1, <2>2, <2>3, Zenon
<1>8. p \o q = r
  BY <1>4, <1>6, <1>7, SeqEqual
<1> QED
  BY <1>3, <1>8 DEF q, r

\* A node that moves its commit index applies what its log has up to there, and nothing
\* twice.
LEMMA StepApplies ==
  ASSUME NEW n \in Node, Step(n), CommitsAreSafe, NEW c \in Nat,
         commitIndex[n] <= c, c <= Len(Entries(n)'), CommitTo(n, log'[n], c)
  PROVE  /\ commitIndex'[n] = c /\ lastApplied'[n] = c
         /\ applied'[n] = SubSeq(Entries(n)', 1, c)
<1> DEFINE k == commitIndex[n]
           l == log'[n]
<1>1. /\ commitIndex \in [Node -> Nat] /\ lastApplied \in [Node -> Nat]
      /\ applied \in [Node -> Seq(Entry)] /\ k \in Nat
  BY DEF Step, Known, TypeOK, MachinesOK
<1>2. lastApplied[n] = k /\ applied[n] = SubSeq(Entries(n), 1, k)
  BY DEF CommitsAreSafe
<1>3. Plain(l) /\ l.entries = Entries(n)' /\ FirstIndex(l) = 1
  BY StepPlain, PlainLog DEF Entries
<1>4. Alike(Entries(n), l.entries, k) /\ Entries(n) \in Seq(Entry)
  BY <1>3, StepKeepsSafe, AgreeFacts DEF Step, Known
<1> HIDE DEF l
<1>5. Max({k + 1, 1}) = k + 1 /\ Max({k, c}) = c
  <2>1. k \in Nat /\ k <= c
    BY <1>1
  <2> HIDE DEF k
  <2>2. k \in Int /\ k + 1 \in Int
    BY <2>1
  <2>3. Max({k + 1, 1}) = IF k + 1 >= 1 THEN k + 1 ELSE 1
    BY <2>2, MaxOfPair
  <2>4. Max({k, c}) = IF k >= c THEN k ELSE c
    BY <2>2, MaxOfPair
  <2> QED
    BY <2>1, <2>3, <2>4
<1>6. /\ commitIndex' = [commitIndex EXCEPT ![n] = c]
      /\ lastApplied' = [lastApplied EXCEPT ![n] = c]
      /\ applied' = [applied EXCEPT ![n] = applied[n] \o Slice(l, k + 1, c)]
  BY <1>2, <1>3, <1>5 DEF CommitTo, l
<1>7. /\ commitIndex'[n] = c /\ lastApplied'[n] = c
      /\ applied'[n] = SubSeq(Entries(n), 1, k) \o Slice(l, k + 1, c)
  BY <1>1, <1>2, <1>6
<1>8. c <= Len(l.entries)
  BY <1>3
<1>9. SubSeq(Entries(n), 1, k) \o Slice(l, k + 1, c) = SubSeq(l.entries, 1, c)
  <2>1. k <= c /\ k \in Nat
    BY <1>1
  <2>2. /\ Alike(Entries(n), l.entries, k) /\ Entries(n) \in Seq(Entry)
        /\ Plain(l) /\ c <= Len(l.entries)
    BY <1>3, <1>4, <1>8
  <2> HIDE DEF k
  <2> QED
    BY <2>1, <2>2, PiecesJoin, ZenonT(30)
<1> QED
  BY <1>3, <1>7, <1>9

\* An append whose commit index it reaches brings no more than is safe.
LEMMA StepLearns ==
  ASSUME NEW n \in Node, Step(n), CommitsAreSafe, CommitIsCarried,
         NEW a \in BagToSet(net), Accepts(n, a), a.commit > commitIndex[n]
  PROVE  /\ a.commit \in Nat /\ a.commit <= Len(Entries(n)')
         /\ Min({a.commit, LastIndex(log'[n])}) = a.commit
         /\ a.commit <= Len(ledger)
         /\ Safe(Entries(n), a.commit, term[n])'
<1>1. /\ a \in Message /\ a.kind = "append"
  BY DEF Accepts, Step, Known, TypeOK, NetOK
<1>2. a.commit \in Nat
  BY <1>1 DEF Message
<1>3. /\ term'[n] = a.term /\ a.term \in Nat /\ a.term \in DOMAIN lines
      /\ a.prevIndex + Len(a.entries) \in Nat
      /\ Alike(Entries(n)', lines[a.term], a.prevIndex + Len(a.entries))
  BY StepAccepts
<1>4. a.commit <= a.prevIndex + Len(a.entries)
  BY <1>1 DEF CommitIsCarried
<1>5. Len(Entries(n)') \in Nat /\ LastIndex(log'[n]) = Len(Entries(n)')
      /\ Entries(n)' \in Seq(Entry) /\ lines[a.term] \in Seq(Entry)
  BY <1>3, StepPlain, PlainLog, LinesInOrder DEF Entries
<1>6. a.commit <= Len(Entries(n)')
  BY <1>2, <1>3, <1>4, <1>5 DEF Alike
<1>7. Min({a.commit, LastIndex(log'[n])}) = a.commit
  BY <1>2, <1>5, <1>6, MinOfPair
<1>8. a.commit <= Len(ledger) /\ Safe(lines[a.term], a.commit, a.term)
  BY <1>1 DEF CommitsAreSafe
<1>9. Alike(lines[a.term], Entries(n)', a.commit)
  BY <1>2, <1>3, <1>4, <1>5, AlikeFacts, SMTT(30) DEF Alike
<1>10. ASSUME NEW r, r = Entries(n)', NEW w, w = term'[n] PROVE Safe(r, a.commit, w)'
  BY <1>2, <1>3, <1>8, <1>9, <1>10, StepSafe
<1>11. Safe(Entries(n), a.commit, term[n])'
  BY <1>10 DEF Safe
<1> QED
  BY <1>2, <1>6, <1>7, <1>8, <1>11

\* What CommitsAreSafe says of a node and of a message.
NodeIsSafe(p) ==
  /\ lastApplied[p] = commitIndex[p]
  /\ applied[p] = SubSeq(Entries(p), 1, commitIndex[p])
  /\ commitIndex[p] <= Len(ledger)
  /\ Safe(Entries(p), commitIndex[p], term[p])

\* A node whose machine stays where it is.
LEMMA StepRests ==
  ASSUME NEW n \in Node, Step(n), CommitsAreSafe, NEW p \in Node,
         commitIndex'[p] = commitIndex[p], lastApplied'[p] = lastApplied[p],
         applied'[p] = applied[p], Len(ledger) <= Len(ledger'),
         Len(ledger) \in Nat, Len(ledger') \in Nat
  PROVE  NodeIsSafe(p)'
<1> DEFINE k == commitIndex[p]
<1>1. k \in Nat /\ term[p] \in Nat /\ Entries(p) \in Seq(Entry)
  BY AgreeFacts DEF Step, Known, TypeOK, MachinesOK
<1>2. Entries(p)' \in Seq(Entry) /\ term'[p] \in Nat /\ term[p] <= term'[p]
  BY StepPlain, PlainLog, StepMoves DEF Entries
<1>3. Alike(Entries(p), Entries(p)', k)
  BY StepKeepsSafe
<1>4. SubSeq(Entries(p), 1, k) = SubSeq(Entries(p)', 1, k)
  BY <1>1, <1>2, <1>3, AlikeBegin
<1>5. Safe(Entries(p), commitIndex[p], term[p])'
  <2>1. ASSUME NEW s, s = Entries(p), NEW r, r = Entries(p)', NEW j, j = k,
               NEW t, t = term[p], NEW w, w = term'[p]
        PROVE  Safe(r, j, w)'
    <3>1. Safe(s, j, t) /\ Alike(s, r, j) /\ j \in Nat /\ t \in Nat /\ w \in Nat /\ t <= w
      BY <1>1, <1>2, <1>3, <2>1 DEF CommitsAreSafe
    <3> QED
      BY <3>1, StepSafe
  <2> QED
    BY <2>1 DEF Safe
<1>6. k <= Len(ledger) /\ lastApplied[p] = k /\ applied[p] = SubSeq(Entries(p), 1, k)
  BY DEF CommitsAreSafe
<1>7. commitIndex'[p] <= Len(ledger')
  BY <1>1, <1>6
<1> QED
  BY <1>4, <1>5, <1>6, <1>7 DEF NodeIsSafe

LEMMA LedgerGrows ==
  ASSUME NEW n \in Node, Step(n)
  PROVE  /\ Len(ledger) \in Nat /\ Len(ledger') \in Nat /\ Len(ledger) <= Len(ledger')
         /\ \A c \in Nat : Commits(n, c) => c <= Len(ledger')
         /\ \A i \in DOMAIN ledger : i \in DOMAIN ledger' /\ ledger'[i] = ledger[i]
<1>1. Len(ledger) \in Nat /\ Len(ledger') \in Nat
  BY LenProperties DEF Step, Known, TypeOK, LedgerOK
<1>2. ASSUME NEW c \in Nat, Commits(n, c)
      PROVE  /\ Len(ledger) <= Len(ledger') /\ c <= Len(ledger')
             /\ \A i \in DOMAIN ledger : i \in DOMAIN ledger' /\ ledger'[i] = ledger[i]
  BY <1>1, <1>2, StepCommitted
<1>3. ledger' = ledger \/ \E c \in Nat : Commits(n, c)
  BY DEF Step, LogStep, MachineMoves
<1> QED
  BY <1>1, <1>2, <1>3

\* The node that moves.
LEMMA StepNodeIsSafe ==
  ASSUME NEW n \in Node, Step(n), CommitsAreSafe, CommitIsCarried
  PROVE  NodeIsSafe(n)'
<1>1. /\ Len(ledger) \in Nat /\ Len(ledger') \in Nat /\ Len(ledger) <= Len(ledger')
      /\ commitIndex[n] \in Nat
  BY LedgerGrows DEF Step, Known, TypeOK, MachinesOK
<1>2. Len(Entries(n)') \in Nat /\ Entries(n)' \in Seq(Entry)
      /\ DOMAIN Entries(n)' = 1..Len(Entries(n)')
  BY StepPlain, PlainLog DEF Entries
<1>3. CASE UNCHANGED <<machineVars, ledger>>
  BY <1>1, <1>3, StepRests DEF machineVars
<1>4. ASSUME NEW c \in Nat, Commits(n, c)
      PROVE  NodeIsSafe(n)'
  <2>1. ASSUME NEW t, t = term[n]
        PROVE  /\ t \in DOMAIN lines' /\ lines'[t] = Entries(n)'
               /\ c \in DOMAIN Entries(n)' /\ Chosen(t, c)'
    BY <1>4, <2>1, StepCommits DEF Commits, Entries
  <2>2. c <= Len(Entries(n)') /\ term'[n] \in Nat
    BY <1>2, <2>1, StepMoves
  <2>3. commitIndex[n] <= c
    <3>1. c \in (commitIndex[n] + 1)..LastIndex(log[n])
      BY <1>4 DEF Commits, Committable
    <3> QED
      BY <1>1, <3>1
  <2>4. CommitTo(n, log'[n], c) /\ term'[n] = term[n]
    BY <1>4 DEF Commits
  <2>5. /\ commitIndex'[n] = c /\ lastApplied'[n] = c
        /\ applied'[n] = SubSeq(Entries(n)', 1, c)
    BY <2>2, <2>3, <2>4, StepApplies
  <2>6. c <= Len(ledger')
    BY <1>4, LedgerGrows
  <2>7. Safe(Entries(n), commitIndex[n], term[n])'
    <3>1. Alike(Entries(n)', Entries(n)', c)
      BY <1>2, <2>2 DEF Alike
    <3>2. term'[n] <= term'[n] /\ c <= c
      BY <2>2
    <3> QED
      BY <2>1, <2>4, <2>5, <3>1, <3>2 DEF Safe
  <2> QED
    BY <2>5, <2>6, <2>7 DEF NodeIsSafe
<1>5. ASSUME NEW a \in BagToSet(net), Accepts(n, a), a.commit > commitIndex[n],
             CommitTo(n, log'[n], Min({a.commit, LastIndex(log'[n])})), ledger' = ledger
      PROVE  NodeIsSafe(n)'
  <2>1. /\ a.commit \in Nat /\ a.commit <= Len(Entries(n)')
        /\ CommitTo(n, log'[n], a.commit)
        /\ a.commit <= Len(ledger)
        /\ Safe(Entries(n), a.commit, term[n])'
    BY <1>5, StepLearns
  <2>2. commitIndex[n] <= a.commit
    BY <1>1, <1>5, <2>1
  <2>3. /\ commitIndex'[n] = a.commit /\ lastApplied'[n] = a.commit
        /\ applied'[n] = SubSeq(Entries(n)', 1, a.commit)
    BY <2>1, <2>2, StepApplies
  <2> QED
    BY <1>5, <2>1, <2>3 DEF NodeIsSafe
<1>6. CASE \E a \in BagToSet(net) : a.kind = "install snapshot"
  BY <1>6 DEF Step, LogsAgree, Uncompacted
<1>7. CASE /\ commitIndex'[n] = 0 /\ lastApplied'[n] = 0 /\ applied'[n] = << >>
  <2>1. SubSeq(Entries(n)', 1, 0) = << >>
    <3>1. Alike(Entries(n)', Entries(n)', 0)
      BY <1>2 DEF Alike
    <3>2. SubSeq(Entries(n)', 1, 0) \in Seq(Entry) /\ Len(SubSeq(Entries(n)', 1, 0)) = 0
      BY <1>2, <3>1, AlikeBegin
    <3> QED
      BY <3>2, EmptySeq
  <2> QED
    BY <1>1, <1>7, <2>1 DEF NodeIsSafe, Safe
<1>8. MachineMoves(n)
  BY DEF Step, LogStep
<1> QED
  BY <1>3, <1>4, <1>5, <1>6, <1>7, <1>8 DEF MachineMoves

LEMMA StepCommitsAreSafe ==
  ASSUME NEW n \in Node, Step(n), CommitsAreSafe, CommitIsCarried
  PROVE  CommitsAreSafe'
<1>1. ASSUME NEW p \in Node PROVE NodeIsSafe(p)'
  <2>1. CASE p = n
    BY <2>1, StepNodeIsSafe
  <2>2. CASE p # n
    <3>1. /\ commitIndex'[p] = commitIndex[p] /\ lastApplied'[p] = lastApplied[p]
          /\ applied'[p] = applied[p]
      BY <2>2 DEF Step, LogStep, Alone
    <3> QED
      BY <3>1, LedgerGrows, StepRests
  <2> QED
    BY <2>1, <2>2
<1>2. ASSUME NEW m \in BagToSet(net'), m.kind = "append"
      PROVE  m.commit <= Len(ledger') /\ Safe(lines[m.term], m.commit, m.term)'
  <2>1. m \in Message
    BY <1>2 DEF Step, Known, TypeOK, NetOK
  <2>2. m.commit \in Nat /\ m.term \in Nat
    BY <1>2, <2>1 DEF Message
  <2>3. CASE m \in BagToSet(net)
    <3>1. m.commit <= Len(ledger) /\ Safe(lines[m.term], m.commit, m.term)
          /\ m.term \in DOMAIN lines
      BY <1>2, <2>3 DEF CommitsAreSafe, Step, LogsAgree, AppendsFollow
    <3>2. m.commit <= Len(ledger')
      BY <2>2, <3>1, LedgerGrows
    <3>3. m.commit <= Len(lines[m.term]) /\ Len(lines[m.term]) \in Nat
      <4>1. Len(lines[m.term]) \in Nat
        BY <3>1, LinesInOrder
      <4>2. CASE m.commit = 0
        BY <4>1, <4>2
      <4>3. CASE m.commit # 0
        BY <3>1, <4>1, <4>3 DEF Safe, Alike
      <4> QED
        BY <4>1, <4>2, <4>3
    <3>4. Alike(lines[m.term], lines'[m.term], m.commit)
      BY <2>2, <3>1, <3>3, StepLines, LinesInOrder DEF Grown, Alike
    <3>5. ASSUME NEW s, s = lines[m.term], NEW r, r = lines'[m.term]
          PROVE  Safe(r, m.commit, m.term)'
      <4>1. m.term <= m.term
        BY <2>2
      <4> QED
        BY <2>2, <3>1, <3>4, <3>5, <4>1, StepSafe
    <3>6. Safe(lines[m.term], m.commit, m.term)'
      BY <3>5 DEF Safe
    <3> QED
      BY <3>2, <3>6
  <2>4. CASE m \notin BagToSet(net)
    <3>1. /\ m.term = term'[n] /\ n \in Leaders' /\ m.commit = commitIndex'[n]
      BY <1>2, <2>4, StepPlain, StepSendsPieces
    <3>2. lines'[term'[n]] = Entries(n)'
      BY <3>1, StepRecords
    <3> QED
      BY <1>1, <3>1, <3>2 DEF NodeIsSafe
  <2> QED
    BY <2>3, <2>4
<1> QED
  BY <1>1, <1>2 DEF CommitsAreSafe, NodeIsSafe

LEMMA InitCommitsAreSafe ==
  ASSUME RInit
  PROVE  CommitsAreSafe /\ CommitIsCarried
<1>1. /\ \A n \in Node : /\ commitIndex[n] = 0 /\ lastApplied[n] = 0
                         /\ applied[n] = << >> /\ log[n] = EmptyLog
      /\ ledger = << >> /\ BagToSet(net) = {}
  BY DEF RInit, HInit, Init, EmptyBag, SetToBag, BagToSet
<1>2. ASSUME NEW n \in Node PROVE NodeIsSafe(n)
  <2>1. Entries(n) = << >> /\ Entries(n) \in Seq(Entry)
    <3>1. log[n] = EmptyLog
      BY <1>1
    <3>2. Entries(n) = << >>
      BY <3>1 DEF Entries, EmptyLog
    <3> QED
      BY <3>2, EmptySeq
  <2>2. Alike(Entries(n), Entries(n), 0)
    BY <2>1, EmptySeq DEF Alike
  <2>3. SubSeq(Entries(n), 1, 0) \in Seq(Entry) /\ Len(SubSeq(Entries(n), 1, 0)) = 0
    BY <2>1, <2>2, AlikeBegin
  <2>4. SubSeq(Entries(n), 1, 0) = << >>
    BY <2>3, EmptySeq
  <2>5. Len(ledger) = 0
    BY <1>1, EmptySeq
  <2> QED
    <3>1. commitIndex[n] = 0 /\ lastApplied[n] = 0 /\ applied[n] = << >>
      BY <1>1
    <3> QED
      BY <2>4, <2>5, <3>1 DEF NodeIsSafe, Safe
<1> QED
  BY <1>1, <1>2 DEF CommitsAreSafe, NodeIsSafe, CommitIsCarried

LEMMA StutterCommitsAreSafe ==
  ASSUME CommitsAreSafe, UNCHANGED recordVars
  PROVE  CommitsAreSafe'
BY ZenonT(30) DEF CommitsAreSafe, Safe, Chosen, Entries, recordVars, allVars, vars, ballotVars,
       machineVars

\* While the logs fit in one append, an append carries whatever its sender has committed.
LEMMA StepCommitIsCarried ==
  ASSUME NEW n \in Node, Step(n), CommitsAreSafe, CommitIsCarried, LogsFit'
  PROVE  CommitIsCarried'
<1> SUFFICES ASSUME NEW m \in BagToSet(net'), m.kind = "append"
             PROVE  m.commit <= m.prevIndex + Len(m.entries)
  BY DEF CommitIsCarried
<1>1. CASE m \in BagToSet(net)
  BY <1>1 DEF CommitIsCarried
<1>2. CASE m \notin BagToSet(net)
  <2>1. Len(Entries(n)') <= MaxBatch
    BY DEF LogsFit
  <2>2. m.commit = commitIndex'[n] /\ m.prevIndex + Len(m.entries) = Len(Entries(n)')
    BY <1>2, <2>1, StepPlain, StepSendsPieces
  <2>3. Safe(Entries(n), commitIndex[n], term[n])'
    BY StepNodeIsSafe DEF NodeIsSafe
  <2>4. commitIndex'[n] <= Len(Entries(n)')
    <3>1. Len(Entries(n)') \in Nat
      BY StepPlain, PlainLog DEF Entries
    <3>2. CASE commitIndex'[n] = 0
      BY <3>1, <3>2
    <3>3. CASE commitIndex'[n] # 0
      BY <2>3, <3>3 DEF Safe, Alike
    <3> QED
      BY <3>2, <3>3
  <2> QED
    BY <2>2, <2>4
<1> QED
  BY <1>1, <1>2

\* As long as every append reaches as far as its sender had committed, what a node has
\* committed no later leader can lack.
THEOREM CommitsStaySafe ==
  ASSUME ~Compaction
  PROVE  RSpec /\ []CommitIsCarried => []CommitsAreSafe
<1>1. RInit => CommitsAreSafe
  BY InitCommitsAreSafe
<1>2. ASSUME Known, Known', LogsAgree, CommitsAreSafe, CommitIsCarried, [RNext]_recordVars
      PROVE  CommitsAreSafe'
  BY <1>2, RecordSteps, StepCommitsAreSafe, StutterCommitsAreSafe
<1> QED
  BY <1>1, <1>2, RecordKnows, LogsStayTogether, PTL DEF RSpec

\* For as long as no log is longer than one append may carry, every append does.
THEOREM CommitsAreCarried ==
  ASSUME ~Compaction
  PROVE  RSpec /\ []LogsFit => []CommitIsCarried
<1>1. RInit => CommitsAreSafe /\ CommitIsCarried
  BY InitCommitsAreSafe
<1>2. ASSUME Known, Known', LogsAgree, CommitsAreSafe, CommitIsCarried, LogsFit',
             [RNext]_recordVars
      PROVE  CommitsAreSafe' /\ CommitIsCarried'
  <2>1. ASSUME NEW n \in Node, Step(n) PROVE CommitsAreSafe' /\ CommitIsCarried'
    BY <1>2, <2>1, StepCommitsAreSafe, StepCommitIsCarried
  <2>2. CASE UNCHANGED recordVars
    <3>1. net' = net
      BY <2>2 DEF recordVars, allVars, vars
    <3> QED
      BY <1>2, <2>2, <3>1, StutterCommitsAreSafe DEF CommitIsCarried
  <2> QED
    BY <1>2, <2>1, <2>2, RecordSteps
<1> QED
  BY <1>1, <1>2, RecordKnows, LogsStayTogether, PTL DEF RSpec

\* The committed log, as its clients see it, at an index a node has committed.
LEMMA AppliedFacts ==
  ASSUME TypeOK, ElectedByBallot, LogsAgree, CommitsAreSafe, NEW n \in Node
  PROVE  /\ Len(applied[n]) = commitIndex[n] /\ commitIndex[n] \in Nat
         /\ DOMAIN applied[n] = 1..commitIndex[n] /\ applied[n] \in Seq(Entry)
         /\ commitIndex[n] <= Len(ledger) /\ commitIndex[n] <= Len(Entries(n))
         /\ \A i \in 1..commitIndex[n] :
              /\ i \in DOMAIN ledger
              /\ applied[n][i] = [term |-> ledger[i].term, cmd |-> ledger[i].cmd]
<1> DEFINE k == commitIndex[n]
           s == Entries(n)
<1>1. /\ k \in Nat /\ term[n] \in Nat /\ s \in Seq(Entry) /\ Len(s) \in Nat
      /\ applied[n] = SubSeq(s, 1, k) /\ k <= Len(ledger) /\ Safe(s, k, term[n])
  BY AgreeFacts DEF CommitsAreSafe, TypeOK, MachinesOK
<1>2. DOMAIN ledger = 1..Len(ledger) /\ Len(ledger) \in Nat
  BY LenProperties DEF TypeOK, LedgerOK
<1>3. k <= Len(s)
  <2>1. CASE k = 0
    BY <1>1, <2>1
  <2>2. CASE k # 0
    BY <1>1, <2>2 DEF Safe, Alike
  <2> QED
    BY <2>1, <2>2
<1>4. /\ applied[n] \in Seq(Entry) /\ Len(applied[n]) = k /\ DOMAIN applied[n] = 1..k
      /\ \A i \in 1..k : applied[n][i] = s[i]
  <2>1. Alike(s, s, k)
    BY <1>1, <1>3 DEF Alike
  <2>2. /\ SubSeq(s, 1, k) \in Seq(Entry) /\ Len(SubSeq(s, 1, k)) = k
        /\ \A i \in 1..k : SubSeq(s, 1, k)[i] = s[i]
    BY <1>1, <2>1, AlikeBegin
  <2> QED
    BY <1>1, <2>2, LenProperties
<1>5. ASSUME NEW i \in 1..k
      PROVE  i \in DOMAIN ledger /\ s[i] = [term |-> ledger[i].term, cmd |-> ledger[i].cmd]
  <2>1. i \in DOMAIN ledger /\ i \in Nat /\ i >= 1 /\ i <= k
    BY <1>1, <1>2
  <2>2. PICK u \in DOMAIN lines : \E c \in DOMAIN lines[u] :
          k <= c /\ Chosen(u, c) /\ Alike(s, lines[u], k)
    BY <1>1, <2>1 DEF Safe
  <2>3. PICK c \in DOMAIN lines[u] : k <= c /\ Chosen(u, c) /\ Alike(s, lines[u], k)
    BY <2>2
  <2>4. PICK d \in Nat :
          /\ i <= d /\ Chosen(ledger[i].at, d)
          /\ lines[ledger[i].at][i] = [term |-> ledger[i].term, cmd |-> ledger[i].cmd]
    BY <2>1, LedgerFacts
  <2>5. c \in Nat
    BY <2>2, <2>3, AgreeFacts
  <2>6. i <= c
    BY <1>1, <2>1, <2>3, <2>5
  <2>7. lines[u][i] = lines[ledger[i].at][i]
    BY <2>1, <2>3, <2>4, <2>5, <2>6, ChosenAgree
  <2>8. s[i] = lines[u][i]
    BY <2>3, <1>5 DEF Alike
  <2> QED
    BY <2>1, <2>4, <2>7, <2>8
<1> QED
  BY <1>1, <1>3, <1>4, <1>5

LEMMA AgreeApplied ==
  ASSUME TypeOK, ElectedByBallot, LogsAgree, CommitsAreSafe
  PROVE  StateMachineSafety
BY AppliedFacts DEF StateMachineSafety

\* Nodes that have applied an entry at the same place have applied the same one there,
\* and it is the committed one.
THEOREM MachinesAgree ==
  ASSUME ~Compaction
  PROVE  RSpec /\ []CommitIsCarried => []StateMachineSafety
BY CommitsStaySafe, LogsStayTogether, RecordKnows, AgreeApplied, PTL DEF Known

LEMMA StepKeepsApplied ==
  ASSUME NEW n \in Node, Step(n), CommitsAreSafe, NEW p \in Node,
         NEW i \in 1..lastApplied[p]
  PROVE  Holds(log'[p], i) /\ At(log'[p], i) = At(log[p], i)
<1>1. lastApplied[p] = commitIndex[p] /\ commitIndex[p] \in Nat
  BY DEF CommitsAreSafe, Step, Known, TypeOK, MachinesOK
<1>2. /\ commitIndex[p] <= Len(Entries(p)') /\ Entries(p)'[i] = Entries(p)[i]
  BY <1>1, StepKeepsSafe DEF Alike
<1>3. /\ Len(Entries(p)') \in Nat /\ DOMAIN Entries(p)' = 1..Len(Entries(p)')
      /\ \A j \in Int : At(log'[p], j) = Entries(p)'[j]
      /\ \A j \in Int : Holds(log'[p], j) <=> j \in DOMAIN Entries(p)'
  BY StepPlain, PlainLog DEF Entries
<1>4. \A j \in Int : At(log[p], j) = Entries(p)[j]
  BY AgreeFacts DEF Step, Known
<1>5. i \in Int /\ i \in DOMAIN Entries(p)'
  BY <1>1, <1>2, <1>3
<1> QED
  BY <1>2, <1>3, <1>4, <1>5

\* No step takes back an entry that a node has applied, whatever an append brings.
THEOREM AppliedStay ==
  ASSUME ~Compaction
  PROVE  RSpec /\ []CommitIsCarried => AppliedNeverTruncated
<1> DEFINE Kept == \A n \in Node : \A i \in 1..lastApplied[n] :
                     Holds(log[n], i) =>
                       \/ i <= log'[n].base
                       \/ Holds(log'[n], i) /\ At(log'[n], i) = At(log[n], i)
<1>1. ASSUME Known, Known', LogsAgree, CommitsAreSafe, [RNext]_recordVars
      PROVE  [Kept]_vars
  <2>1. ASSUME NEW n \in Node, Step(n) PROVE Kept
    BY <1>1, <2>1, StepKeepsApplied
  <2>2. CASE UNCHANGED recordVars
    BY <2>2 DEF recordVars, allVars
  <2> QED
    BY <1>1, <2>1, <2>2, RecordSteps
<1> QED
  BY <1>1, CommitsStaySafe, RecordKnows, LogsStayTogether, PTL DEF RSpec, AppliedNeverTruncated

\* The committed log as the abstract specification sees it.
CommittedLog == [i \in DOMAIN ledger |-> [term |-> ledger[i].term, cmd |-> ledger[i].cmd]]

LEMMA ViewFacts ==
  ASSUME NEW led \in Seq([term : Nat, cmd : Command \cup {None}, at : Nat]),
         NEW v, v = [i \in DOMAIN led |-> [term |-> led[i].term, cmd |-> led[i].cmd]]
  PROVE  /\ v \in Seq(Entry) /\ Len(v) = Len(led) /\ DOMAIN v = DOMAIN led
         /\ \A i \in DOMAIN led : v[i] = [term |-> led[i].term, cmd |-> led[i].cmd]
<1>1. Len(led) \in Nat /\ DOMAIN led = 1..Len(led)
  BY LenProperties
<1>2. ASSUME NEW i \in 1..Len(led)
      PROVE  [term |-> led[i].term, cmd |-> led[i].cmd] \in Entry
  <2>1. led[i] \in [term : Nat, cmd : Command \cup {None}, at : Nat]
    BY <1>1, <1>2, ElementOfSeq
  <2> QED
    BY <2>1 DEF Entry
<1>3. v = [i \in 1..Len(led) |-> [term |-> led[i].term, cmd |-> led[i].cmd]]
  BY <1>1
<1> QED
  BY <1>1, <1>2, <1>3, IsASeq, LenProperties

\* The beginning of the committed log is what a node has applied.
LEMMA AppliedIsBegin ==
  ASSUME TypeOK, ElectedByBallot, LogsAgree, CommitsAreSafe, NEW n \in Node
  PROVE  /\ applied[n] = SubSeq(CommittedLog, 1, commitIndex[n])
         /\ commitIndex[n] \in 0..Len(CommittedLog) /\ Len(applied[n]) = commitIndex[n]
<1> DEFINE k == commitIndex[n]
<1>1. /\ Len(applied[n]) = k /\ k \in Nat /\ applied[n] \in Seq(Entry)
      /\ k <= Len(ledger)
      /\ \A i \in 1..k :
           /\ i \in DOMAIN ledger
           /\ applied[n][i] = [term |-> ledger[i].term, cmd |-> ledger[i].cmd]
  BY AppliedFacts
<1>2. /\ CommittedLog \in Seq(Entry) /\ Len(CommittedLog) = Len(ledger) /\ Len(ledger) \in Nat
      /\ \A i \in DOMAIN ledger :
           CommittedLog[i] = [term |-> ledger[i].term, cmd |-> ledger[i].cmd]
  BY ViewFacts, LenProperties DEF TypeOK, LedgerOK, CommittedLog
<1>3. Alike(CommittedLog, CommittedLog, k)
  BY <1>1, <1>2 DEF Alike
<1>4. /\ SubSeq(CommittedLog, 1, k) \in Seq(Entry) /\ Len(SubSeq(CommittedLog, 1, k)) = k
      /\ \A i \in 1..k : SubSeq(CommittedLog, 1, k)[i] = CommittedLog[i]
  BY <1>1, <1>2, <1>3, AlikeBegin
<1>5. \A i \in 1..k : applied[n][i] = SubSeq(CommittedLog, 1, k)[i]
  BY <1>1, <1>2, <1>4
<1>6. applied[n] = SubSeq(CommittedLog, 1, k)
  BY <1>1, <1>4, <1>5, SeqEqual
<1> QED
  BY <1>1, <1>2, <1>6

AppliedBegins ==
  \A n \in Node : /\ applied[n] = SubSeq(CommittedLog, 1, commitIndex[n])
                   /\ commitIndex[n] \in 0..Len(CommittedLog)
                   /\ Len(applied[n]) = commitIndex[n]

LEMMA AllAppliedBegin ==
  (TypeOK /\ ElectedByBallot /\ LogsAgree /\ CommitsAreSafe) => AppliedBegins
BY AppliedIsBegin DEF AppliedBegins

\* What a node has committed only grows, save in a restart.
LEMMA CommitRises ==
  ASSUME NEW n \in Node, Step(n), CommitsAreSafe, CommitIsCarried
  PROVE  \/ UNCHANGED <<machineVars, ledger>>
         \/ commitIndex[n] <= commitIndex'[n]
         \/ n \in down /\ applied'[n] = << >> /\ ledger' = ledger
<1>1. commitIndex[n] \in Nat /\ commitIndex'[n] \in Nat
  BY DEF Step, Known, TypeOK, MachinesOK
<1>2. ASSUME NEW c \in Nat, Commits(n, c)
      PROVE  commitIndex[n] <= commitIndex'[n]
  <2>1. c \in (commitIndex[n] + 1)..LastIndex(log[n])
    BY <1>2 DEF Commits, Committable
  <2>2. commitIndex'[n] = c
    BY <1>2 DEF Commits, CommitTo, Step, Known, TypeOK, MachinesOK
  <2> QED
    BY <1>1, <2>1, <2>2
<1>3. ASSUME NEW a \in BagToSet(net), Accepts(n, a), a.commit > commitIndex[n],
             CommitTo(n, log'[n], Min({a.commit, LastIndex(log'[n])}))
      PROVE  commitIndex[n] <= commitIndex'[n]
  <2>1. a.commit \in Nat /\ CommitTo(n, log'[n], a.commit)
    BY <1>3, StepLearns
  <2>2. commitIndex'[n] = a.commit
    BY <2>1 DEF CommitTo, Step, Known, TypeOK, MachinesOK
  <2> QED
    BY <1>1, <1>3, <2>1, <2>2
<1>4. ~(\E a \in BagToSet(net) : a.kind = "install snapshot")
  BY DEF Step, LogsAgree, Uncompacted
<1>5. MachineMoves(n)
  BY DEF Step, LogStep
<1> QED
  BY <1>2, <1>3, <1>4, <1>5 DEF MachineMoves

\* A running node never takes back what it has committed or applied, whatever order
\* its messages come in.
THEOREM CommitsOnlyRise ==
  ASSUME ~Compaction
  PROVE  RSpec /\ []CommitIsCarried => CommitNeverFalls
<1> DEFINE Rising == \A n \in Node \ down :
                       commitIndex'[n] >= commitIndex[n] /\ lastApplied'[n] >= lastApplied[n]
<1>1. ASSUME Known, Known', LogsAgree, CommitsAreSafe, CommitsAreSafe', CommitIsCarried,
             [RNext]_recordVars
      PROVE  [Rising]_vars
  <2>1. \A q \in Node : /\ commitIndex[q] \in Nat /\ commitIndex'[q] \in Nat
                        /\ lastApplied[q] = commitIndex[q]
                        /\ lastApplied'[q] = commitIndex'[q]
    BY <1>1 DEF Known, TypeOK, MachinesOK, CommitsAreSafe
  <2>2. ASSUME NEW n \in Node, Step(n) PROVE Rising
    <3>1. \A q \in Node \ {n} : commitIndex'[q] = commitIndex[q]
      BY <2>2 DEF Step, LogStep, Alone
    <3>2. n \in down \/ commitIndex'[n] >= commitIndex[n]
      BY <1>1, <2>1, <2>2, CommitRises DEF machineVars
    <3> QED
      BY <2>1, <3>1, <3>2
  <2>3. CASE UNCHANGED recordVars
    BY <2>3 DEF recordVars, allVars
  <2> QED
    BY <1>1, <2>2, <2>3, RecordSteps
<1> QED
  BY <1>1, CommitsStaySafe, RecordKnows, LogsStayTogether, PTL DEF RSpec, CommitNeverFalls

\* A step of the cluster is a step of the log it promises, or none.
LEMMA StepImplements ==
  ASSUME NEW n \in Node, Step(n), CommitsAreSafe, CommitsAreSafe', LogsAgree',
         CommitIsCarried
  PROVE  [Promise!Next]_<<CommittedLog, applied>>
<1>1. /\ applied \in [Node -> Seq(Entry)] /\ applied' \in [Node -> Seq(Entry)]
      /\ commitIndex[n] \in Nat /\ commitIndex'[n] \in Nat
  BY DEF Step, Known, TypeOK, MachinesOK
<1>2. applied' = [applied EXCEPT ![n] = applied'[n]]
  <2>1. \A p \in Node \ {n} : applied'[p] = applied[p]
    BY DEF Step, LogStep, Alone
  <2> QED
    BY <1>1, <2>1
<1>3. /\ Len(applied[n]) = commitIndex[n]
      /\ applied'[n] = SubSeq(CommittedLog', 1, commitIndex'[n])
      /\ commitIndex'[n] \in 0..Len(CommittedLog')
  <2>1. AppliedBegins
    BY AllAppliedBegin DEF Step, Known
  <2>2. TypeOK' /\ ElectedByBallot'
    BY DEF Step, Known
  <2>3. AppliedBegins'
    BY <2>2, AllAppliedBegin, PTL
  <2> QED
    BY <2>1, <2>3 DEF AppliedBegins
<1>4. CASE UNCHANGED <<machineVars, ledger>>
  BY <1>4 DEF CommittedLog, machineVars
<1>5. CASE applied'[n] = << >> /\ ledger' = ledger
  <2>1. Promise!Forget(n)
    BY <1>2, <1>5 DEF Promise!Forget, CommittedLog
  <2> QED
    BY <2>1 DEF Promise!Next
<1>6. CASE commitIndex[n] <= commitIndex'[n]
  <2>1. Promise!IsPrefix(CommittedLog, CommittedLog')
    <3>1. /\ CommittedLog \in Seq(Entry) /\ Len(CommittedLog) \in Nat
          /\ Len(CommittedLog) = Len(ledger) /\ DOMAIN CommittedLog = DOMAIN ledger
          /\ \A i \in DOMAIN ledger :
               CommittedLog[i] = [term |-> ledger[i].term, cmd |-> ledger[i].cmd]
      BY ViewFacts, LenProperties DEF Step, Known, TypeOK, LedgerOK, CommittedLog
    <3>2. /\ CommittedLog' \in Seq(Entry) /\ Len(CommittedLog') = Len(ledger')
          /\ \A i \in DOMAIN ledger' :
               CommittedLog'[i] = [term |-> ledger'[i].term, cmd |-> ledger'[i].cmd]
      BY ViewFacts DEF Step, Known, TypeOK, LedgerOK, CommittedLog
    <3>3. /\ Len(ledger) \in Nat /\ Len(ledger') \in Nat /\ Len(ledger) <= Len(ledger')
          /\ \A i \in DOMAIN ledger : i \in DOMAIN ledger' /\ ledger'[i] = ledger[i]
      BY LedgerGrows
    <3>4. \A i \in 1..Len(CommittedLog) : CommittedLog[i] = CommittedLog'[i]
      <4>1. DOMAIN CommittedLog = 1..Len(CommittedLog)
        BY <3>1, LenProperties
      <4> QED
        BY <3>1, <3>2, <3>3, <4>1
    <3>5. Alike(CommittedLog, CommittedLog', Len(CommittedLog))
      BY <3>1, <3>2, <3>3, <3>4 DEF Alike
    <3>6. SubSeq(CommittedLog, 1, Len(CommittedLog)) = SubSeq(CommittedLog', 1, Len(CommittedLog))
      BY <3>1, <3>2, <3>5, AlikeBegin
    <3> QED
      BY <3>1, <3>2, <3>3, <3>6 DEF Promise!IsPrefix
  <2>2. Promise!Apply(n)
    <3>1. commitIndex'[n] \in Len(applied[n])..Len(CommittedLog')
      BY <1>1, <1>3, <1>6
    <3> QED
      BY <1>2, <1>3, <2>1, <3>1 DEF Promise!Apply, CommittedLog
  <2> QED
    BY <2>2 DEF Promise!Next
<1> QED
  BY <1>4, <1>5, <1>6, CommitRises

\* The cluster implements one growing log of commands that every replica applies in
\* order, whatever crashes, restarts, or is lost, repeated or reordered on the way.
THEOREM ClusterImplementsLog ==
  ASSUME ~Compaction
  PROVE  RSpec /\ []CommitIsCarried => ImplementsCommitLog
<1>1. ASSUME RInit PROVE Promise!Init
  <2>1. ledger = << >> /\ applied = [n \in Node |-> << >>]
    BY <1>1 DEF RInit, HInit, Init
  <2>2. DOMAIN ledger = {}
    BY <2>1
  <2> QED
    BY <2>1, <2>2 DEF Promise!Init
<1>2. ASSUME Known, Known', LogsAgree, LogsAgree', CommitsAreSafe, CommitsAreSafe',
             CommitIsCarried, [RNext]_recordVars
      PROVE  [Promise!Next]_<<CommittedLog, applied>>
  <2>1. ASSUME NEW n \in Node, Step(n) PROVE [Promise!Next]_<<CommittedLog, applied>>
    BY <1>2, <2>1, StepImplements
  <2>2. CASE UNCHANGED recordVars
    <3>1. UNCHANGED <<ledger, applied>>
      BY <2>2 DEF recordVars, allVars, vars, machineVars
    <3> QED
      BY <3>1 DEF CommittedLog
  <2> QED
    BY <1>2, <2>1, <2>2, RecordSteps
<1> QED
  BY <1>1, <1>2, CommitsStaySafe, RecordKnows, LogsStayTogether, PTL
     DEF RSpec, ImplementsCommitLog, Promise!Spec, CommittedLog

-----------------------------------------------------------------------------
(* What the applied entries leave.                                         *)

\* The indices of the entries that set the register.
Sets(es) == {i \in DOMAIN es : es[i].cmd # None}

LEMMA SetsMax ==
  ASSUME NEW s \in Seq(Entry), Sets(s) # {}
  PROVE  /\ Max(Sets(s)) \in Sets(s) /\ Max(Sets(s)) \in 1..Len(s)
         /\ \A i \in Sets(s) : Max(Sets(s)) >= i
<1>1. DOMAIN s = 1..Len(s) /\ Len(s) \in Nat
  BY LenProperties
<1>2. Sets(s) \subseteq 1..Len(s)
  BY <1>1 DEF Sets
<1>3. Sets(s) \subseteq Int /\ IsFiniteSet(Sets(s))
  BY <1>1, <1>2, PartOfInterval
<1>4. Max(Sets(s)) \in Sets(s) /\ \A i \in Sets(s) : Max(Sets(s)) >= i
  BY <1>3, MaxOfFinite
<1> QED
  BY <1>2, <1>4

\* The entry that decides is the last that sets the register.
LEMMA LastSets ==
  ASSUME NEW s \in Seq(Entry), NEW k \in Sets(s), \A i \in Sets(s) : i <= k, NEW v
  PROVE  Applying(v, s) = s[k].cmd
<1>1. Sets(s) # {}
  OBVIOUS
<1>2. DOMAIN s = 1..Len(s) /\ Len(s) \in Nat
  BY LenProperties
<1>3. Max(Sets(s)) \in Sets(s) /\ Max(Sets(s)) \in 1..Len(s) /\ Max(Sets(s)) >= k
      /\ k \in 1..Len(s)
  BY <1>1, <1>2, SetsMax DEF Sets
<1>4. Max(Sets(s)) <= k
  BY <1>3
<1>5. Max(Sets(s)) = k
  BY <1>2, <1>3, <1>4
<1> QED
  BY <1>1, <1>5 DEF Applying, Sets

LEMMA NothingSets ==
  ASSUME NEW s, Sets(s) = {}, NEW v
  PROVE  Applying(v, s) = v
BY DEF Applying, Sets

\* Applying one piece after another is applying the two joined.
LEMMA ApplyingJoins ==
  ASSUME NEW s \in Seq(Entry), NEW u \in Seq(Entry), NEW v
  PROVE  Applying(Applying(v, s), u) = Applying(v, s \o u)
<1> DEFINE r == s \o u
<1>1. /\ r \in Seq(Entry) /\ Len(r) = Len(s) + Len(u)
      /\ Len(s) \in Nat /\ Len(u) \in Nat
      /\ DOMAIN s = 1..Len(s) /\ DOMAIN u = 1..Len(u) /\ DOMAIN r = 1..(Len(s) + Len(u))
      /\ \A i \in 1..(Len(s) + Len(u)) :
           r[i] = IF i <= Len(s) THEN s[i] ELSE u[i - Len(s)]
  BY ConcatProperties, LenProperties
<1> HIDE DEF r
<1>2. ASSUME NEW i \in Sets(s) PROVE i \in Sets(r) /\ r[i] = s[i] /\ i <= Len(s) /\ i \in Nat
  BY <1>1 DEF Sets
<1>3. ASSUME NEW i \in Sets(u)
      PROVE  /\ Len(s) + i \in Sets(r) /\ r[Len(s) + i] = u[i]
             /\ i \in Nat /\ i >= 1 /\ i <= Len(u)
  <2>1. i \in 1..Len(u)
    BY <1>1 DEF Sets
  <2>2. Len(s) + i \in 1..(Len(s) + Len(u)) /\ ~(Len(s) + i <= Len(s))
        /\ Len(s) + i - Len(s) = i
    BY <1>1, <2>1
  <2>3. r[Len(s) + i] = u[i]
    <3>1. r[Len(s) + i] = u[(Len(s) + i) - Len(s)]
      BY <1>1, <2>2
    <3>2. (Len(s) + i) - Len(s) = i
      BY <1>1, <2>1
    <3> QED
      BY <3>1, <3>2
  <2>4. u[i].cmd # None
    BY DEF Sets
  <2> QED
    BY <1>1, <2>1, <2>2, <2>3, <2>4 DEF Sets
<1>4. ASSUME NEW i \in Sets(r)
      PROVE  \/ i \in Sets(s)
             \/ i - Len(s) \in Sets(u) /\ i \in Int
  <2>1. i \in 1..(Len(s) + Len(u)) /\ r[i].cmd # None
    BY <1>1 DEF Sets
  <2>2. CASE i <= Len(s)
    <3>1. i \in 1..Len(s) /\ r[i] = s[i]
      BY <1>1, <2>1, <2>2
    <3> QED
      BY <1>1, <2>1, <3>1 DEF Sets
  <2>3. CASE ~(i <= Len(s))
    <3>1. i - Len(s) \in 1..Len(u) /\ r[i] = u[i - Len(s)]
      BY <1>1, <2>1, <2>3
    <3> QED
      BY <1>1, <2>1, <3>1 DEF Sets
  <2> QED
    BY <2>2, <2>3
<1>5. CASE Sets(u) # {}
  <2>1. PICK k \in Sets(u) : \A i \in Sets(u) : i <= k
    <3>1. Max(Sets(u)) \in Sets(u) /\ Max(Sets(u)) \in 1..Len(u)
          /\ \A i \in Sets(u) : Max(Sets(u)) >= i
      BY <1>5, SetsMax
    <3>2. \A i \in Sets(u) : i \in Nat
      BY <1>3
    <3> QED
      BY <1>1, <3>1, <3>2
  <2>2. Len(s) + k \in Sets(r) /\ r[Len(s) + k] = u[k] /\ k \in Nat /\ k >= 1
    BY <1>3, <2>1
  <2>3. ASSUME NEW i \in Sets(r) PROVE i <= Len(s) + k
    <3>1. CASE i \in Sets(s)
      BY <1>1, <1>2, <2>2, <3>1
    <3>2. CASE i - Len(s) \in Sets(u) /\ i \in Int
      <4>1. i - Len(s) <= k
        BY <2>1, <3>2
      <4> QED
        BY <1>1, <2>2, <3>2, <4>1
    <3> QED
      BY <1>4, <2>3, <3>1, <3>2
  <2>4. Applying(v, r) = u[k].cmd
    BY <1>1, <2>2, <2>3, LastSets, SMTT(30)
  <2>5. Applying(Applying(v, s), u) = u[k].cmd
    BY <2>1, LastSets
  <2> QED
    BY <2>4, <2>5 DEF r
<1>6. CASE Sets(u) = {} /\ Sets(s) # {}
  <2>1. PICK k \in Sets(s) : \A i \in Sets(s) : i <= k
    <3>1. Max(Sets(s)) \in Sets(s) /\ Max(Sets(s)) \in 1..Len(s)
          /\ \A i \in Sets(s) : Max(Sets(s)) >= i
      BY <1>6, SetsMax
    <3>2. \A i \in Sets(s) : i \in Nat
      BY <1>2
    <3> QED
      BY <1>1, <3>1, <3>2
  <2>2. k \in Sets(r) /\ r[k] = s[k]
    BY <1>2, <2>1
  <2>3. \A i \in Sets(r) : i <= k
    BY <1>4, <1>6, <2>1
  <2>4. Applying(v, r) = s[k].cmd
    BY <1>1, <2>2, <2>3, LastSets
  <2>5. Applying(v, s) = s[k].cmd
    BY <2>1, LastSets
  <2> QED
    BY <1>6, <2>4, <2>5, NothingSets DEF r
<1>7. CASE Sets(u) = {} /\ Sets(s) = {}
  <2>1. Sets(r) = {}
    BY <1>4, <1>7
  <2> QED
    BY <1>7, <2>1, NothingSets DEF r
<1> QED
  BY <1>5, <1>6, <1>7

LEMMA CommitToFollows ==
  ASSUME TypeOK, NEW n \in Node, NEW l, Plain(l), NEW c \in Nat, CommitTo(n, l, c),
         machine[n] = Applying(None, applied[n])
  PROVE  machine'[n] = Applying(None, applied'[n])
<1> DEFINE from == Max({lastApplied[n] + 1, FirstIndex(l)})
           todo == Slice(l, from, c)
<1>1. /\ machine \in [Node -> Command \cup {None}] /\ applied \in [Node -> Seq(Entry)]
      /\ lastApplied[n] \in Nat
  BY DEF TypeOK, MachinesOK
<1>2. FirstIndex(l) = 1
  BY PlainLog
<1>3. from \in Nat /\ from >= 1
  <2>1. PICK k \in Nat : k = lastApplied[n]
    BY <1>1
  <2>2. Max({k + 1, 1}) = IF k + 1 >= 1 THEN k + 1 ELSE 1
    BY MaxOfPair
  <2> QED
    BY <1>2, <2>1, <2>2
<1>4. todo \in Seq(Entry)
  <2> HIDE DEF from
  <2> QED
    BY <1>3, SliceOfPlain
<1>5. /\ machine' = [machine EXCEPT ![n] = Applying(machine[n], todo)]
      /\ applied' = [applied EXCEPT ![n] = applied[n] \o todo]
  BY DEF CommitTo
<1>6. machine'[n] = Applying(machine[n], todo) /\ applied'[n] = applied[n] \o todo
  <2> HIDE DEF todo
  <2> QED
    BY <1>1, <1>5
<1>7. applied[n] \in Seq(Entry)
  BY <1>1
<1> HIDE DEF todo
<1>8. Applying(Applying(None, applied[n]), todo) = Applying(None, applied[n] \o todo)
  BY <1>4, <1>7, ApplyingJoins
<1> QED
  BY <1>6, <1>8

LEMMA StepMachinesFollow ==
  ASSUME NEW n \in Node, Step(n), MachinesFollow
  PROVE  MachinesFollow'
<1>1. ASSUME NEW p \in Node, p # n PROVE machine'[p] = Applying(None, applied'[p])
  BY <1>1 DEF MachinesFollow, Step, LogStep, Alone
<1>2. machine'[n] = Applying(None, applied'[n])
  <2>1. CASE UNCHANGED <<machineVars, ledger>>
    BY <2>1 DEF MachinesFollow, machineVars
  <2>2. ASSUME NEW c \in Nat, Commits(n, c)
        PROVE  machine'[n] = Applying(None, applied'[n])
    BY <2>2, PlainNow, CommitToFollows
       DEF Commits, MachinesFollow, Step, Known, LogsAgree
  <2>3. ASSUME NEW a \in BagToSet(net), a.kind = "append",
               CommitTo(n, log'[n], Min({a.commit, LastIndex(log'[n])}))
        PROVE  machine'[n] = Applying(None, applied'[n])
    <3>1. a.commit \in Nat
      <4>1. a \in Message
        BY DEF Step, Known, TypeOK, NetOK
      <4> QED
        BY <2>3, <4>1 DEF Message
    <3>2. Plain(log'[n]) /\ LastIndex(log'[n]) \in Nat
      BY StepPlain, PlainLog
    <3>3. Min({a.commit, LastIndex(log'[n])}) \in Nat
      <4>1. Min({a.commit, LastIndex(log'[n])})
              = IF a.commit <= LastIndex(log'[n]) THEN a.commit ELSE LastIndex(log'[n])
        BY <3>1, <3>2, MinOfPair
      <4> QED
        BY <3>1, <3>2, <4>1
    <3> QED
      BY <2>3, <3>2, <3>3, CommitToFollows DEF MachinesFollow, Step, Known
  <2>4. CASE \E a \in BagToSet(net) : a.kind = "install snapshot"
    BY <2>4 DEF Step, LogsAgree, Uncompacted
  <2>5. CASE machine'[n] = None /\ applied'[n] = << >>
    BY <2>5, NothingSets DEF Sets
  <2>6. MachineMoves(n)
    BY DEF Step, LogStep
  <2> QED
    BY <2>1, <2>2, <2>3, <2>4, <2>5, <2>6 DEF MachineMoves, Accepts
<1> QED
  BY <1>1, <1>2 DEF MachinesFollow

\* As long as every append reaches as far as its sender had committed: the register of a
\* node is what the committed log, up to where the node has applied it, leaves in one,
\* after any number of restarts.
THEOREM MachinesFollowLog ==
  ASSUME ~Compaction
  PROVE  RSpec /\ []CommitIsCarried => []MachineIsAppliedPrefix
<1>1. RInit => MachinesFollow
  <2> SUFFICES ASSUME RInit, NEW n \in Node PROVE machine[n] = Applying(None, applied[n])
    BY DEF MachinesFollow
  <2>1. machine[n] = None /\ applied[n] = << >>
    BY DEF RInit, HInit, Init
  <2> QED
    BY <2>1, NothingSets DEF Sets
<1>2. ASSUME Known, Known', LogsAgree, MachinesFollow, [RNext]_recordVars
      PROVE  MachinesFollow'
  <2>1. CASE UNCHANGED recordVars
    BY <1>2, <2>1 DEF MachinesFollow, recordVars, allVars, vars, machineVars
  <2> QED
    BY <1>2, <2>1, RecordSteps, StepMachinesFollow
<1>3. ASSUME Known, LogsAgree, CommitsAreSafe, MachinesFollow
      PROVE  MachineIsAppliedPrefix
  <2> SUFFICES ASSUME NEW n \in Node
               PROVE  machine[n] = Applying(None, SubSeq(ledger, 1, lastApplied[n]))
    BY DEF MachineIsAppliedPrefix
  <2> DEFINE k == commitIndex[n]
             view == SubSeq(ledger, 1, k)
  <2>1. /\ k \in Nat /\ DOMAIN applied[n] = 1..k /\ k <= Len(ledger)
        /\ \A i \in 1..k : applied[n][i] = [term |-> ledger[i].term, cmd |-> ledger[i].cmd]
    BY <1>3, AppliedFacts DEF Known
  <2>2. lastApplied[n] = k
    BY <1>3 DEF CommitsAreSafe
  <2> HIDE DEF k
  <2>3. DOMAIN view = 1..k /\ \A i \in 1..k : view[i] = ledger[i]
    <3>1. ledger \in Seq([term : Nat, cmd : Command \cup {None}, at : Nat])
          /\ Len(ledger) \in Nat
      BY <1>3, LenProperties DEF Known, TypeOK, LedgerOK
    <3> DEFINE Line == [term : Nat, cmd : Command \cup {None}, at : Nat]
    <3>3. ASSUME NEW i \in 1..k PROVE ledger[i] \in Line
      <4>1. i \in 1..Len(ledger)
        BY <2>1, <3>1
      <4> QED
        BY <3>1, <4>1, ElementOfSeq
    <3> HIDE DEF Line
    <3>2. /\ view \in Seq(Line)
          /\ Len(view) = k /\ \A i \in 1..k : view[i] = ledger[i]
      BY <2>1, <3>3, SubSeqProperties
    <3> QED
      BY <3>2, LenProperties
  <2> HIDE DEF view
  <2>4. DOMAIN view = DOMAIN applied[n]
        /\ \A i \in DOMAIN view : view[i].cmd = applied[n][i].cmd
    <3>1. ASSUME NEW i \in 1..k PROVE applied[n][i].cmd = ledger[i].cmd
      <4>1. applied[n][i] = [term |-> ledger[i].term, cmd |-> ledger[i].cmd]
        BY <2>1
      <4> QED
        BY <4>1
    <3> QED
      BY <2>1, <2>3, <3>1
  <2>5. Applying(None, view) = Applying(None, applied[n])
    <3>1. Sets(view) = Sets(applied[n])
      BY <2>4 DEF Sets
    <3>2. CASE Sets(view) = {}
      BY <3>1, <3>2, NothingSets
    <3>3. CASE Sets(view) # {}
      <4>1. applied[n] \in Seq(Entry)
        BY <1>3 DEF Known, TypeOK, MachinesOK
      <4>2. Max(Sets(applied[n])) \in DOMAIN view
        BY <2>4, <3>1, <3>3, <4>1, SetsMax DEF Sets
      <4> QED
        BY <2>4, <3>1, <3>3, <4>2 DEF Applying, Sets
    <3> QED
      BY <3>2, <3>3
  <2> QED
    BY <1>3, <2>2, <2>5 DEF MachinesFollow, view, k
<1> QED
  BY <1>1, <1>2, <1>3, CommitsStaySafe, RecordKnows, LogsStayTogether, PTL DEF RSpec

------------------------------------------------------------------------------

\* An entry lies no further up than the writes that fit and the leaders there have been.
LogsAreShort ==
  /\ \A n \in Node : term[n] >= 1 /\ (role[n] # FOLLOWER => term[n] >= 2)
  /\ \A t \in DOMAIN lines : \A k \in DOMAIN lines[t] : k + 2 <= MaxLog + lines[t][k].term

LEMMA StepLogsAreShort ==
  ASSUME MaxLog >= 1, NEW n \in Node, Step(n), LogsAreShort
  PROVE  LogsAreShort'
<1>1. /\ MaxLog \in Nat
      /\ \A p \in Node : term[p] \in Nat /\ term'[p] \in Nat /\ term'[p] >= term[p]
      /\ \A p \in Node \ {n} : term'[p] = term[p] /\ role'[p] = role[p]
  BY StepMoves DEF ConstantsAssumption
<1>2. /\ role'[n] \in {FOLLOWER, CANDIDATE, LEADER} /\ role[n] \in {FOLLOWER, CANDIDATE, LEADER}
      /\ FOLLOWER # CANDIDATE /\ FOLLOWER # LEADER
  BY DEF Step, Known, TypeOK, BallotsOK, Role, FOLLOWER, CANDIDATE, LEADER
<1>3. role'[n] # FOLLOWER => \/ role[n] # FOLLOWER /\ term'[n] = term[n]
                             \/ term'[n] = term[n] + 1
  BY <1>2, StepMoves DEF Stays, Writes, Accepts
<1>4. ASSUME NEW p \in Node
      PROVE  term'[p] >= 1 /\ (role'[p] # FOLLOWER => term'[p] >= 2)
  <2>1. term[p] >= 1 /\ (role[p] # FOLLOWER => term[p] >= 2)
    BY DEF LogsAreShort
  <2>2. CASE p # n
    BY <1>1, <2>1, <2>2
  <2>3. CASE p = n
    <3>1. term'[n] >= 1
      BY <1>1, <2>1, <2>3
    <3>2. ASSUME role'[n] # FOLLOWER PROVE term'[n] >= 2
      <4>1. CASE term'[n] = term[n] + 1
        BY <1>1, <2>1, <2>3, <4>1
      <4>2. CASE role[n] # FOLLOWER /\ term'[n] = term[n]
        BY <2>1, <2>3, <4>2
      <4> QED
        BY <1>3, <3>2, <4>1, <4>2
    <3> QED
      BY <2>3, <3>1, <3>2
  <2> QED
    BY <2>2, <2>3
<1>5. ASSUME Writes(n), NEW k \in DOMAIN Entries(n)'
      PROVE  k + 2 <= MaxLog + Entries(n)'[k].term
  <2> DEFINE s == Entries(n)
             u == Entries(n)'
  <2>1. /\ s \in Seq(Entry) /\ DOMAIN s = 1..Len(s) /\ Len(s) \in Nat
        /\ LastIndex(log[n]) = Len(s) /\ Follows(s, lines)
        /\ \A i \in DOMAIN s : s[i].term \in Nat /\ s[i].term <= term[n]
    <3>1. /\ s \in Seq(Entry) /\ DOMAIN s = 1..Len(s) /\ Len(s) \in Nat
          /\ LastIndex(log[n]) = Len(s) /\ Follows(s, lines)
      BY AgreeFacts DEF Step, Known
    <3>2. \A i \in DOMAIN s : s[i].term \in Nat
      BY <3>1, EntryTerm, ElementOfSeq
    <3>3. \A i \in DOMAIN s : s[i].term <= term[n]
      BY DEF Step, LogsAgree, LogsFollow
    <3> QED
      BY <3>1, <3>2, <3>3
  <2>2. /\ Plain(log'[n]) /\ Len(u) = Len(s) + 1 /\ u[Len(s) + 1].term = term[n]
        /\ \A i \in DOMAIN s : i \in DOMAIN u /\ u[i] = s[i]
    BY <1>5, StepWrites
  <2>3. DOMAIN u = 1..(Len(s) + 1)
    <3>1. u \in Seq(Entry)
      BY <2>2, PlainLog DEF Entries
    <3> QED
      BY <2>2, <3>1, LenProperties
  <2>4. ASSUME NEW i \in DOMAIN s
        PROVE  s[i].term \in DOMAIN lines /\ i + 2 <= MaxLog + s[i].term
    <3>1. s[i].term \in DOMAIN lines /\ Alike(s, lines[s[i].term], i)
      BY <2>1 DEF Follows
    <3> DEFINE l == lines[s[i].term]
    <3>2. i \in 1..i /\ i \in Nat /\ i >= 1
      BY <2>1
    <3>3. i <= Len(l) /\ l[i] = s[i]
      BY <3>1, <3>2 DEF Alike
    <3>4. l \in Seq(Entry) /\ DOMAIN l = 1..Len(l) /\ Len(l) \in Nat
      BY <3>1, AgreeFacts DEF Step, Known
    <3>5. i \in DOMAIN l
      BY <3>2, <3>3, <3>4
    <3>6. i + 2 <= MaxLog + l[i].term
      BY <3>1, <3>5 DEF LogsAreShort
    <3> QED
      BY <3>1, <3>3, <3>6
  <2> SUFFICES k + 2 <= MaxLog + u[k].term
    OBVIOUS
  <2>7. k \in DOMAIN u
    OBVIOUS
  <2> HIDE DEF s, u
  <2>5. CASE k \in DOMAIN s
    BY <2>2, <2>4, <2>5
  <2>6. CASE k = Len(s) + 1
    <3>1. term[n] >= 2 /\ term[n] \in Nat
      BY <1>1, <1>2, <1>5 DEF LogsAreShort, Writes
    <3>2. CASE Len(s) < MaxLog
      BY <1>1, <2>1, <2>2, <2>6, <3>1, <3>2
    <3>3. CASE Len(s) = 0
      BY <1>1, <2>2, <2>6, <3>1, <3>3
    <3>4. CASE term[n] \notin DOMAIN lines /\ Len(s) # 0
      <4> DEFINE t == s[Len(s)].term
      <4>1. Len(s) \in DOMAIN s
        BY <2>1, <3>4
      <4>2. t \in Nat /\ t <= term[n] /\ t \in DOMAIN lines /\ Len(s) + 2 <= MaxLog + t
        BY <2>1, <2>4, <4>1
      <4>3. t # term[n]
        BY <3>4, <4>2
      <4> HIDE DEF t
      <4> QED
        BY <1>1, <2>1, <2>2, <2>6, <3>1, <4>2, <4>3
    <3>5. \/ Len(s) < MaxLog
          \/ term[n] \notin DOMAIN lines
      <4>1. role[n] = LEADER => Len(s) < MaxLog
        BY <1>5, <2>1 DEF Writes
      <4>2. role[n] = LEADER \/ term[n] \notin DOMAIN lines
        BY <1>5, StepLines
      <4> QED
        BY <4>1, <4>2
    <3> QED
      BY <3>2, <3>3, <3>4, <3>5
  <2> QED
    BY <2>1, <2>3, <2>5, <2>6, <2>7
<1>6. ASSUME NEW t \in DOMAIN lines', NEW k \in DOMAIN lines'[t]
      PROVE  k + 2 <= MaxLog + lines'[t][k].term
  <2>1. CASE t \in DOMAIN lines /\ lines'[t] = lines[t]
    BY <2>1, <1>6 DEF LogsAreShort
  <2>2. CASE Writes(n) /\ lines'[t] = Entries(n)'
    BY <1>5, <1>6, <2>2
  <2> QED
    BY <2>1, <2>2, StepLines
<1> QED
  BY <1>4, <1>6 DEF LogsAreShort

LEMMA ShortFit ==
  ASSUME MaxLog + MaxTerm <= MaxBatch + 2,
         TypeOK, ElectedByBallot, LogsAgree, TermsAreBounded, LogsAreShort
  PROVE  LogsFit
<1> SUFFICES ASSUME NEW n \in Node PROVE Len(Entries(n)) <= MaxBatch
  BY DEF LogsFit
<1> DEFINE s == Entries(n)
           k == Len(s)
<1>1. /\ MaxLog \in Nat /\ MaxTerm \in Nat /\ MaxBatch \in Nat
      /\ k \in Nat /\ DOMAIN s = 1..k /\ term[n] \in Nat /\ Follows(s, lines)
  BY AgreeFacts DEF ConstantsAssumption
<1>2. CASE k = 0
  BY <1>1, <1>2
<1>3. CASE k # 0
  <2> DEFINE t == s[k].term
             l == lines[t]
  <2>1. k \in DOMAIN s /\ k \in 1..k
    BY <1>1, <1>3
  <2>2. t \in DOMAIN lines /\ Alike(s, l, k) /\ t <= term[n]
    BY <1>1, <2>1 DEF Follows, LogsAgree, LogsFollow
  <2>3. /\ t \in Nat /\ DOMAIN l = 1..Len(l) /\ Len(l) \in Nat
        /\ k <= Len(l) /\ l[k] = s[k]
    BY <2>1, <2>2, AgreeFacts DEF Alike
  <2>4. k \in DOMAIN l
    BY <2>1, <2>3
  <2>5. k + 2 <= MaxLog + t
    BY <2>2, <2>3, <2>4 DEF LogsAreShort
  <2>6. term[n] <= MaxTerm
    BY DEF TermsAreBounded
  <2> HIDE DEF t, k
  <2> QED
    BY <1>1, <2>2, <2>3, <2>5, <2>6
<1> QED
  BY <1>2, <1>3

\* A cluster whose writes and terms are few enough for one append to carry any log: it
\* implements the committed log without any further condition.  The bounds are those of
\* the run raft_core.
THEOREM ShortClusterImplementsLog ==
  ASSUME ~Compaction, MaxLog >= 1, MaxTerm >= 1, MaxLog + MaxTerm <= MaxBatch + 2
  PROVE  RSpec => []StateMachineSafety /\ AppliedNeverTruncated /\ ImplementsCommitLog
<1>1. RInit => LogsAreShort
  <2> SUFFICES ASSUME RInit PROVE LogsAreShort
    OBVIOUS
  <2>1. lines = << >> /\ \A n \in Node : term[n] = 1 /\ role[n] = FOLLOWER
    BY DEF RInit, HInit, Init
  <2>2. DOMAIN lines = {}
    BY <2>1
  <2> QED
    BY <2>1, <2>2 DEF LogsAreShort
<1>2. ASSUME Known, Known', LogsAgree, LogsAreShort, [RNext]_recordVars
      PROVE  LogsAreShort'
  <2>1. CASE UNCHANGED recordVars
    BY <1>2, <2>1 DEF LogsAreShort, recordVars, allVars, vars, ballotVars
  <2> QED
    BY <1>2, <2>1, RecordSteps, StepLogsAreShort
<1>3. RSpec => []LogsAreShort
  BY <1>1, <1>2, RecordKnows, LogsStayTogether, PTL DEF RSpec
<1>4. RSpec => []TermsAreBounded
  BY RecordIsHistory, HistoryIsSpec, TermsHaveBound, PTL
<1>5. Known /\ LogsAgree /\ TermsAreBounded /\ LogsAreShort => LogsFit
  BY ShortFit DEF Known
<1>6. RSpec => []LogsFit
  BY <1>3, <1>4, <1>5, RecordKnows, LogsStayTogether, PTL
<1>7. RSpec => []CommitIsCarried
  BY <1>6, CommitsAreCarried, PTL
<1> QED
  BY <1>7, MachinesAgree, AppliedStay, ClusterImplementsLog, PTL
=============================================================================

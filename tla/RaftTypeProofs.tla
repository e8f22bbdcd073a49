--------------------------- MODULE RaftTypeProofs ---------------------------
(***************************************************************************)
(* Type correctness of the consensus core, for clusters of any size, logs  *)
(* of any length and batches of any size.                                  *)
(***************************************************************************)
EXTENDS RaftProperties, LogProofs

USE ConstantsAssumption

LEMMA EntryTerm == \A e \in Entry : e.term \in Nat
BY DEF Entry

-----------------------------------------------------------------------------
(* Messages.                                                               *)

LEMMA MessageFields ==
  ASSUME NEW m \in Message
  PROVE  /\ m.from \in Node /\ m.to \in Node /\ m.term \in Nat
         /\ m.kind = "request vote" =>
              m.lastIndex \in Nat /\ m.lastTerm \in Nat /\ m.preVote \in BOOLEAN
         /\ m.kind = "vote" => m.granted \in BOOLEAN /\ m.preVote \in BOOLEAN
         /\ m.kind = "append" =>
              /\ m.prevIndex \in Nat /\ m.prevTerm \in Nat
              /\ m.entries \in Seq(Entry) /\ m.commit \in Nat
         /\ m.kind = "appended" =>
              /\ m.success \in BOOLEAN /\ m.match \in Nat
              /\ m.conflictTerm \in Nat /\ m.conflictIndex \in Nat
         /\ m.kind = "install snapshot" =>
              /\ m.lastIndex \in Nat /\ m.lastTerm \in Nat
              /\ m.state \in Command \cup {None}
         /\ m.kind = "installed" => m.lastIndex \in Nat
BY DEF Message

LEMMA RequestVoteType ==
  ASSUME NEW n \in Node, NEW p \in Node, NEW t \in Nat,
         NEW l \in LogOf(Entry), NEW pre \in BOOLEAN
  PROVE  RequestVoteMsg(n, p, t, l, pre) \in Message
BY LogIndices, LogLastTerm, EntryTerm DEF RequestVoteMsg, Message

LEMMA VoteType ==
  ASSUME NEW n \in Node, NEW p \in Node, NEW t \in Nat,
         NEW granted \in BOOLEAN, NEW pre \in BOOLEAN
  PROVE  VoteMsg(n, p, t, granted, pre) \in Message
BY DEF VoteMsg, Message

LEMMA ReplyTypes ==
  ASSUME NEW n \in Node, NEW p \in Node, NEW t \in Nat, NEW i \in Nat
  PROVE  /\ AppendedMsg(n, p, t, i) \in Message
         /\ InstalledMsg(n, p, t, i) \in Message
         /\ \A c : (c.term \in Nat /\ c.index \in Nat) => RefusedMsg(n, p, t, c) \in Message
BY DEF AppendedMsg, InstalledMsg, RefusedMsg, Message

\* Whatever next index a leader works with, what it sends is well formed: inside
\* its log an append, below it a snapshot.
LEMMA ReplicateToType ==
  ASSUME NEW n \in Node, NEW p \in Node, NEW t \in Nat, NEW l \in LogOf(Entry),
         NEW next \in Nat, NEW commit \in Nat, NEW state \in Command \cup {None}
  PROVE  ReplicateTo(n, p, t, l, next, commit, state) \in Message
<1> DEFINE start == Min({next, LastIndex(l) + 1})
<1>1. start \in Nat /\ start <= LastIndex(l) + 1
  BY LogIndices, MinOfPair
<1> HIDE DEF start
<1>2. CASE start <= l.base
  <2>1. InstallMsg(n, p, t, l, state) \in Message
    BY LogIndices DEF InstallMsg, Message
  <2> QED
    BY <1>2, <2>1 DEF ReplicateTo, start
<1>3. CASE ~(start <= l.base)
  <2>1. start - 1 \in Nat /\ Answers(l, start - 1)
    BY <1>1, <1>3, LogIndices DEF Answers, Holds
  <2>2. TermAt(l, start - 1) \in Nat
    BY <2>1, LogTerm, EntryTerm
  <2>3. Slice(l, start, start + MaxBatch - 1) \in Seq(Entry)
    BY <1>1, <1>3, LogIndices, SliceType
  <2>4. AppendMsg(n, p, t, l, start, commit) \in Message
    BY <2>1, <2>2, <2>3 DEF AppendMsg, Message
  <2> QED
    BY <1>3, <2>4 DEF ReplicateTo, start
<1> QED
  BY <1>2, <1>3

\* Taking messages off the wire and putting well-formed ones on it leaves only
\* well-formed ones there.
LEMMA ExchangeType ==
  ASSUME NetOK, NEW gone, NEW out, out \subseteq Message, Exchange(gone, out)
  PROVE  NetOK'
<1>1. PICK kept \in SUBSET out : net' = (net (-) SetToBag(gone)) (+) SetToBag(kept)
  BY DEF Exchange
<1> DEFINE left == net (-) SetToBag(gone)
<1>2. DOMAIN left \subseteq DOMAIN net /\ \A m \in DOMAIN left : left[m] \in Nat /\ left[m] > 0
  BY DEF NetOK, IsABag, SetToBag, (-)
<1>3. DOMAIN SetToBag(kept) = kept /\ \A m \in kept : SetToBag(kept)[m] = 1
  BY DEF SetToBag
<1> HIDE DEF left
<1>4. /\ DOMAIN net' = DOMAIN left \cup kept
      /\ net' \in [DOMAIN left \cup kept -> {k \in Nat : k > 0}]
  BY <1>1, <1>2, <1>3 DEF (+), left
<1>5. DOMAIN net' \subseteq Message
  BY <1>2, <1>4 DEF NetOK, BagToSet
<1> QED
  BY <1>4, <1>5 DEF NetOK, IsABag, BagToSet

\* One message out, nothing in.
LEMMA TakeType ==
  ASSUME NetOK, NEW gone, Exchange(gone, {})
  PROVE  NetOK'
BY ExchangeType

LEMMA LandedType ==
  ASSUME NetOK, NEW kind, NEW m \in Landed(kind)
  PROVE  m \in Message /\ m.kind = kind
BY DEF NetOK, Landed

-----------------------------------------------------------------------------
(* The parts of a node.                                                    *)

LEMMA LogTypes ==
  ASSUME LogsOK, NEW n \in Node
  PROVE  /\ log[n] \in LogOf(Entry)
         /\ LastIndex(log[n]) \in Nat /\ FirstIndex(log[n]) \in Nat
         /\ LastTerm(log[n]) \in Nat
BY LogIndices, LogLastTerm, EntryTerm DEF LogsOK

\* What the receiver's term, vote and role become is a term, a vote and a role.
LEMMA ReceiverTypes ==
  ASSUME BallotsOK, NEW m \in Message
  PROVE  /\ TermOn(m) \in Nat
         /\ VoteOn(m) \in Node \cup {None}
         /\ RoleOn(m) \in Role
BY MessageFields DEF BallotsOK, TermOn, VoteOn, RoleOn, Role

LEMMA JoinType ==
  ASSUME BallotsOK, NEW m \in Message, NEW r \in Role, NEW v \in Node \cup {None},
         Join(m, r, v)
  PROVE  BallotsOK'
<1>1. m.to \in Node /\ TermOn(m) \in Nat
  BY MessageFields, ReceiverTypes
<1>2. /\ term' \in [Node -> Nat]
      /\ votedFor' \in [Node -> Node \cup {None}]
      /\ role' \in [Node -> Role]
  BY <1>1 DEF BallotsOK, Join
<1>3. votes' \in [Node -> SUBSET Node] /\ preVotes' \in [Node -> SUBSET Node]
  BY <1>1 DEF BallotsOK, Join
<1> QED
  BY <1>2, <1>3 DEF BallotsOK

\* A state is None or something a client wrote, whatever is applied to it.
LEMMA ApplyingType ==
  ASSUME NEW value \in Command \cup {None}, NEW es \in Seq(Entry)
  PROVE  Applying(value, es) \in Command \cup {None}
<1> DEFINE sets == {i \in DOMAIN es : es[i].cmd # None}
<1>1. CASE sets = {}
  BY <1>1 DEF Applying
<1>2. CASE sets # {}
  <2>1. sets \subseteq 1..Len(es) /\ Len(es) \in Int
    BY LenProperties
  <2>2. sets \subseteq Int /\ IsFiniteSet(sets)
    BY <2>1, PartOfInterval
  <2>3. Max(sets) \in 1..Len(es)
    BY <1>2, <2>1, <2>2, MaxOfFinite
  <2>4. es[Max(sets)] \in Entry
    BY <2>3, ElementOfSeq
  <2> QED
    BY <1>2, <2>4 DEF Applying, Entry
<1> QED
  BY <1>1, <1>2

LEMMA CommitToType ==
  ASSUME MachinesOK, NEW n \in Node, NEW l \in LogOf(Entry), NEW c \in Nat,
         CommitTo(n, l, c)
  PROVE  MachinesOK'
<1> DEFINE from == Max({lastApplied[n] + 1, FirstIndex(l)})
           todo == Slice(l, from, c)
<1>1. lastApplied[n] \in Nat /\ machine[n] \in Command \cup {None} /\ applied[n] \in Seq(Entry)
  BY DEF MachinesOK
<1>2. from \in Int /\ from >= FirstIndex(l)
  <2>1. lastApplied[n] + 1 \in Int /\ FirstIndex(l) \in Int
    BY <1>1, LogIndices
  <2>2. \A x, y \in Int : Max({x, y}) \in Int /\ Max({x, y}) >= y
    BY MaxOfPair
  <2> HIDE DEF from
  <2>3. from = Max({lastApplied[n] + 1, FirstIndex(l)})
    BY DEF from
  <2> QED
    BY <2>1, <2>2, <2>3
<1> HIDE DEF from
<1>3. todo \in Seq(Entry)
  BY <1>2, SliceType
<1> HIDE DEF todo
<1>4. applied[n] \o todo \in Seq(Entry)
  BY <1>1, <1>3, ConcatProperties
<1>5. Applying(machine[n], todo) \in Command \cup {None}
  BY <1>1, <1>3, ApplyingType
<1>6. Max({lastApplied[n], c}) \in Nat
  BY <1>1, MaxOfPair
<1>7. /\ commitIndex' = [commitIndex EXCEPT ![n] = c]
      /\ lastApplied' = [lastApplied EXCEPT ![n] = Max({lastApplied[n], c})]
      /\ applied' = [applied EXCEPT ![n] = applied[n] \o todo]
      /\ machine' = [machine EXCEPT ![n] = Applying(machine[n], todo)]
  BY DEF CommitTo, todo, from
<1> QED
  BY <1>4, <1>5, <1>6, <1>7 DEF MachinesOK

-----------------------------------------------------------------------------
(* Elections.                                                              *)

LEMMA BecomeCandidateType ==
  ASSUME TypeOK, NEW n \in Node, NEW gone, BecomeCandidate(n, gone)
  PROVE  TypeOK'
<1>1. BallotsOK'
  BY DEF TypeOK, BallotsOK, BecomeCandidate, CANDIDATE, Role
<1>2. NetOK'
  <2>1. term[n] + 1 \in Nat /\ log[n] \in LogOf(Entry)
    BY LogTypes DEF TypeOK, BallotsOK
  <2>2. \A p \in Peers(n) : RequestVoteMsg(n, p, term[n] + 1, log[n], FALSE) \in Message
    BY <2>1, RequestVoteType DEF Peers
  <2> QED
    BY <2>2, ExchangeType DEF TypeOK, BecomeCandidate
<1> QED
  BY <1>1, <1>2 DEF TypeOK, BecomeCandidate, machineVars, leaderVars, worldVars,
                    LogsOK, MachinesOK, LeadersOK, WorldOK, LedgerOK

LEMMA BecomePreCandidateType ==
  ASSUME TypeOK, NEW n \in Node, BecomePreCandidate(n)
  PROVE  TypeOK'
<1>1. BallotsOK'
  BY DEF TypeOK, BallotsOK, BecomePreCandidate
<1>2. NetOK'
  <2>1. term[n] + 1 \in Nat /\ log[n] \in LogOf(Entry)
    BY LogTypes DEF TypeOK, BallotsOK
  <2>2. \A p \in Peers(n) : RequestVoteMsg(n, p, term[n] + 1, log[n], TRUE) \in Message
    BY <2>1, RequestVoteType DEF Peers
  <2> QED
    BY <2>2, ExchangeType DEF TypeOK, BecomePreCandidate
<1> QED
  BY <1>1, <1>2 DEF TypeOK, BecomePreCandidate, machineVars, leaderVars, worldVars,
                    LogsOK, MachinesOK, LeadersOK, WorldOK, LedgerOK

LEMMA StandType ==
  ASSUME TypeOK, NEW n \in Node, Stand(n)
  PROVE  TypeOK'
BY BecomeCandidateType, BecomePreCandidateType DEF Stand

LEMMA RefuseStaleType ==
  ASSUME TypeOK, RefuseStale
  PROVE  TypeOK'
<1> PICK m \in BagToSet(net) :
      /\ Exchange({m},
           CASE m.kind = "request vote" ->
                  {VoteMsg(m.to, m.from, term[m.to], FALSE, FALSE)}
             [] m.kind = "append" ->
                  {RefusedMsg(m.to, m.from, term[m.to], [term |-> 0, index |-> 0])}
             [] OTHER -> {})
      /\ UNCHANGED <<ballotVars, log, machineVars, leaderVars, worldVars, ledger>>
  BY DEF RefuseStale
<1>1. m \in Message
  BY DEF TypeOK, NetOK
<1>2. m.from \in Node /\ m.to \in Node /\ term[m.to] \in Nat
  BY <1>1, MessageFields DEF TypeOK, BallotsOK
<1>3. /\ VoteMsg(m.to, m.from, term[m.to], FALSE, FALSE) \in Message
      /\ RefusedMsg(m.to, m.from, term[m.to], [term |-> 0, index |-> 0]) \in Message
  BY <1>2, VoteType, ReplyTypes
<1>4. NetOK'
  <2>1. CASE m.kind = "request vote"
    BY <1>3, <2>1, ExchangeType DEF TypeOK
  <2>2. CASE m.kind = "append"
    BY <1>3, <2>2, ExchangeType DEF TypeOK
  <2>3. CASE m.kind # "request vote" /\ m.kind # "append"
    BY <2>3, TakeType DEF TypeOK
  <2> QED
    BY <2>1, <2>2, <2>3
<1> QED
  BY <1>4 DEF TypeOK, ballotVars, machineVars, leaderVars, worldVars,
              BallotsOK, LogsOK, MachinesOK, LeadersOK, WorldOK, LedgerOK

LEMMA DropAtDownType ==
  ASSUME TypeOK, DropAtDown
  PROVE  TypeOK'
<1>1. NetOK'
  BY TakeType DEF TypeOK, DropAtDown
<1> QED
  BY <1>1 DEF TypeOK, DropAtDown, ballotVars, machineVars, leaderVars, worldVars,
              BallotsOK, LogsOK, MachinesOK, LeadersOK, WorldOK, LedgerOK

LEMMA OnRequestVoteType ==
  ASSUME TypeOK, OnRequestVote
  PROVE  TypeOK'
<1> PICK m \in Landed("request vote") :
      /\ Join(m, RoleOn(m), IF Grants(m) THEN m.from ELSE VoteOn(m))
      /\ Exchange({m}, {VoteMsg(m.to, m.from, TermOn(m), Grants(m), FALSE)})
      /\ UNCHANGED <<log, machineVars, leaderVars, worldVars, ledger>>
  BY DEF OnRequestVote
<1>1. m \in Message /\ m.from \in Node /\ m.to \in Node
  BY LandedType, MessageFields DEF TypeOK
<1>2. /\ TermOn(m) \in Nat /\ VoteOn(m) \in Node \cup {None} /\ RoleOn(m) \in Role
      /\ Grants(m) \in BOOLEAN
  BY <1>1, ReceiverTypes DEF TypeOK, Grants
<1>3. BallotsOK'
  BY <1>1, <1>2, JoinType DEF TypeOK
<1>4. VoteMsg(m.to, m.from, TermOn(m), Grants(m), FALSE) \in Message
  BY <1>1, <1>2, VoteType
<1>5. NetOK'
  BY <1>4, ExchangeType DEF TypeOK
<1> QED
  BY <1>3, <1>5 DEF TypeOK, machineVars, leaderVars, worldVars,
                    LogsOK, MachinesOK, LeadersOK, WorldOK, LedgerOK

LEMMA OnPreVoteRequestType ==
  ASSUME TypeOK, OnPreVoteRequest
  PROVE  TypeOK'
<1> PICK m \in Landed("request vote"), granted \in BOOLEAN :
      /\ Exchange({m}, {VoteMsg(m.to, m.from, term[m.to], granted, TRUE)})
      /\ UNCHANGED <<ballotVars, log, machineVars, leaderVars, worldVars, ledger>>
  BY DEF OnPreVoteRequest
<1>1. m.from \in Node /\ m.to \in Node /\ term[m.to] \in Nat
  BY LandedType, MessageFields DEF TypeOK, BallotsOK
<1>2. VoteMsg(m.to, m.from, term[m.to], granted, TRUE) \in Message
  BY <1>1, VoteType
<1>3. NetOK'
  BY <1>2, ExchangeType DEF TypeOK
<1> QED
  BY <1>3 DEF TypeOK, ballotVars, machineVars, leaderVars, worldVars,
              BallotsOK, LogsOK, MachinesOK, LeadersOK, WorldOK, LedgerOK

LEMMA BecomeLeaderType ==
  ASSUME TypeOK, NEW n \in Node, NEW gone, BecomeLeader(n, gone)
  PROVE  TypeOK'
<1> DEFINE noop  == <<[term |-> term[n], cmd |-> None]>>
           grown == Extend(log[n], noop)
           next  == LastIndex(log[n]) + 1
<1>1. /\ log[n] \in LogOf(Entry) /\ next \in Nat /\ term[n] \in Nat
      /\ commitIndex[n] \in Nat /\ machine[n] \in Command \cup {None}
  BY LogTypes DEF TypeOK, BallotsOK, MachinesOK
<1>2. noop \in Seq(Entry)
  BY <1>1 DEF Entry
<1>3. grown \in LogOf(Entry)
  BY <1>1, <1>2, ExtendType
<1> HIDE DEF noop, grown, next
<1>4. /\ role' = [role EXCEPT ![n] = LEADER]
      /\ votes' = [votes EXCEPT ![n] = {}]
      /\ log' = [log EXCEPT ![n] = grown]
      /\ nextIndex' = [nextIndex EXCEPT ![n] = [p \in Node |-> next]]
      /\ matchIndex' = [matchIndex EXCEPT ![n] = [p \in Node |-> IF p = n THEN next ELSE 0]]
      /\ Exchange(gone,
           {ReplicateTo(n, p, term[n], grown, next, commitIndex[n], machine[n]) :
              p \in Peers(n)})
      /\ UNCHANGED <<term, votedFor, preVotes, machineVars, worldVars, ledger>>
  BY DEF BecomeLeader, noop, grown, next
<1>5. BallotsOK' /\ LogsOK'
  BY <1>3, <1>4 DEF TypeOK, BallotsOK, LogsOK, LEADER, Role
<1>6. LeadersOK'
  BY <1>1, <1>4 DEF TypeOK, LeadersOK
<1>7. NetOK'
  <2>1. \A p \in Peers(n) :
          ReplicateTo(n, p, term[n], grown, next, commitIndex[n], machine[n]) \in Message
    BY <1>1, <1>3, ReplicateToType DEF Peers
  <2> QED
    BY <1>4, <2>1, ExchangeType DEF TypeOK
<1> QED
  BY <1>4, <1>5, <1>6, <1>7 DEF TypeOK, machineVars, worldVars,
                                MachinesOK, WorldOK, LedgerOK

LEMMA CountVoteType ==
  ASSUME TypeOK, CountVote
  PROVE  TypeOK'
<1> PICK m \in Landed("vote") :
      \/ BecomeLeader(m.to, {m})
      \/ /\ votes' = [votes EXCEPT ![m.to] = @ \cup {m.from}]
         /\ Exchange({m}, {})
         /\ UNCHANGED <<term, votedFor, role, preVotes,
                        log, machineVars, leaderVars, worldVars, ledger>>
  BY DEF CountVote
<1>1. m.from \in Node /\ m.to \in Node
  BY LandedType, MessageFields DEF TypeOK
<1>2. CASE BecomeLeader(m.to, {m})
  BY <1>1, <1>2, BecomeLeaderType
<1>3. CASE /\ votes' = [votes EXCEPT ![m.to] = @ \cup {m.from}]
           /\ Exchange({m}, {})
           /\ UNCHANGED <<term, votedFor, role, preVotes,
                          log, machineVars, leaderVars, worldVars, ledger>>
  <2>1. NetOK'
    BY <1>3, TakeType DEF TypeOK
  <2>2. BallotsOK'
    BY <1>1, <1>3 DEF TypeOK, BallotsOK
  <2> QED
    BY <1>3, <2>1, <2>2 DEF TypeOK, machineVars, leaderVars, worldVars,
                            LogsOK, MachinesOK, LeadersOK, WorldOK, LedgerOK
<1> QED
  BY <1>2, <1>3

LEMMA IgnoreVoteType ==
  ASSUME TypeOK, IgnoreVote
  PROVE  TypeOK'
<1> PICK m \in Landed("vote") :
      /\ Join(m, RoleOn(m), VoteOn(m))
      /\ Exchange({m}, {})
      /\ UNCHANGED <<log, machineVars, leaderVars, worldVars, ledger>>
  BY DEF IgnoreVote
<1>1. m \in Message
  BY LandedType DEF TypeOK
<1>2. BallotsOK' /\ NetOK'
  BY <1>1, ReceiverTypes, JoinType, TakeType DEF TypeOK
<1> QED
  BY <1>2 DEF TypeOK, machineVars, leaderVars, worldVars,
              LogsOK, MachinesOK, LeadersOK, WorldOK, LedgerOK

LEMMA OnPreVoteType ==
  ASSUME TypeOK, OnPreVote
  PROVE  TypeOK'
<1> PICK m \in Landed("vote") :
      \/ BecomeCandidate(m.to, {m})
      \/ /\ \/ preVotes' = [preVotes EXCEPT ![m.to] = @ \cup {m.from}]
            \/ preVotes' = preVotes
         /\ Exchange({m}, {})
         /\ UNCHANGED <<term, votedFor, role, votes,
                        log, machineVars, leaderVars, worldVars, ledger>>
  BY DEF OnPreVote
<1>1. m.from \in Node /\ m.to \in Node
  BY LandedType, MessageFields DEF TypeOK
<1>2. CASE BecomeCandidate(m.to, {m})
  BY <1>1, <1>2, BecomeCandidateType
<1>3. CASE /\ \/ preVotes' = [preVotes EXCEPT ![m.to] = @ \cup {m.from}]
              \/ preVotes' = preVotes
           /\ Exchange({m}, {})
           /\ UNCHANGED <<term, votedFor, role, votes,
                          log, machineVars, leaderVars, worldVars, ledger>>
  <2>1. NetOK'
    BY <1>3, TakeType DEF TypeOK
  <2>2. BallotsOK'
    BY <1>1, <1>3 DEF TypeOK, BallotsOK
  <2> QED
    BY <1>3, <2>1, <2>2 DEF TypeOK, machineVars, leaderVars, worldVars,
                            LogsOK, MachinesOK, LeadersOK, WorldOK, LedgerOK
<1> QED
  BY <1>2, <1>3

-----------------------------------------------------------------------------
(* Replication.                                                            *)

\* What a leader sends to its followers from what it now holds.
LEMMA ReplicateAllType ==
  ASSUME TypeOK, NEW n \in Node, NEW l \in LogOf(Entry)
  PROVE  {ReplicateTo(n, p, term[n], l, nextIndex[n][p], commitIndex[n], machine[n]) :
            p \in Peers(n)} \subseteq Message
<1>1. /\ term[n] \in Nat /\ commitIndex[n] \in Nat
      /\ machine[n] \in Command \cup {None}
      /\ \A p \in Node : nextIndex[n][p] \in Nat
  BY DEF TypeOK, BallotsOK, MachinesOK, LeadersOK
<1>2. \A p \in Peers(n) :
        ReplicateTo(n, p, term[n], l, nextIndex[n][p], commitIndex[n], machine[n]) \in Message
  BY <1>1, ReplicateToType DEF Peers
<1> QED
  BY <1>2

LEMMA ProposeType ==
  ASSUME TypeOK, NEW n \in Node, NEW cmd \in Command, Propose(n, cmd)
  PROVE  TypeOK'
<1> DEFINE write == <<[term |-> term[n], cmd |-> cmd]>>
           grown == Extend(log[n], write)
<1>1. log[n] \in LogOf(Entry) /\ term[n] \in Nat
  BY LogTypes DEF TypeOK, BallotsOK
<1>2. write \in Seq(Entry)
  BY <1>1 DEF Entry
<1>3. grown \in LogOf(Entry) /\ LastIndex(grown) \in Nat
  BY <1>1, <1>2, ExtendType, LogIndices
<1> HIDE DEF write, grown
<1>4. /\ log' = [log EXCEPT ![n] = grown]
      /\ matchIndex' = [matchIndex EXCEPT ![n][n] = LastIndex(grown)]
      /\ Exchange({},
           {ReplicateTo(n, p, term[n], grown, nextIndex[n][p], commitIndex[n], machine[n]) :
              p \in Peers(n)})
      /\ UNCHANGED <<ballotVars, machineVars, nextIndex, worldVars, ledger>>
  BY DEF Propose, write, grown
<1>5. LogsOK' /\ LeadersOK'
  BY <1>3, <1>4 DEF TypeOK, LogsOK, LeadersOK
<1>6. NetOK'
  BY <1>3, <1>4, ReplicateAllType, ExchangeType DEF TypeOK
<1> QED
  BY <1>4, <1>5, <1>6 DEF TypeOK, ballotVars, machineVars, worldVars,
                          BallotsOK, MachinesOK, WorldOK, LedgerOK

LEMMA HeartbeatType ==
  ASSUME TypeOK, NEW n \in Node, Heartbeat(n)
  PROVE  TypeOK'
<1>1. NetOK'
  BY LogTypes, ReplicateAllType, ExchangeType DEF TypeOK, Heartbeat
<1> QED
  BY <1>1 DEF TypeOK, Heartbeat, ballotVars, machineVars, leaderVars, worldVars,
              BallotsOK, LogsOK, MachinesOK, LeadersOK, WorldOK, LedgerOK

LEMMA AcceptAppendType ==
  ASSUME TypeOK, AcceptAppend
  PROVE  TypeOK'
<1> PICK m \in Landed("append") :
      /\ Matches(log[m.to], m.prevIndex, m.prevTerm)
      /\ Join(m, FOLLOWER, VoteOn(m))
      /\ log' = [log EXCEPT ![m.to] = Merge(log[m.to], m.prevIndex, m.entries)]
      /\ IF m.commit > commitIndex[m.to]
         THEN CommitTo(m.to, Merge(log[m.to], m.prevIndex, m.entries),
                Min({m.commit, LastIndex(Merge(log[m.to], m.prevIndex, m.entries))}))
         ELSE UNCHANGED machineVars
      /\ Exchange({m}, {AppendedMsg(m.to, m.from, m.term, m.prevIndex + Len(m.entries))})
      /\ UNCHANGED <<leaderVars, worldVars, ledger>>
  BY DEF AcceptAppend
<1> DEFINE n      == m.to
           merged == Merge(log[n], m.prevIndex, m.entries)
           upto   == Min({m.commit, LastIndex(merged)})
<1>1. m \in Message /\ m.kind = "append"
  BY LandedType DEF TypeOK
<1>2. /\ n \in Node /\ m.from \in Node /\ m.term \in Nat
      /\ m.prevIndex \in Nat /\ m.entries \in Seq(Entry) /\ m.commit \in Nat
  BY <1>1, MessageFields
<1>3. BallotsOK'
  BY <1>1, ReceiverTypes, JoinType DEF TypeOK, FOLLOWER, Role
<1>4. merged \in LogOf(Entry)
  BY <1>2, LogTypes, MergeType DEF TypeOK
<1>5. upto \in Nat
  BY <1>2, <1>4, LogIndices, MinOfPair
<1>6. LogsOK'
  BY <1>2, <1>4 DEF TypeOK, LogsOK
<1>7. MachinesOK'
  <2>1. CASE CommitTo(n, merged, upto)
    BY <1>2, <1>4, <1>5, <2>1, CommitToType DEF TypeOK
  <2>2. CASE UNCHANGED machineVars
    BY <2>2 DEF TypeOK, MachinesOK, machineVars
  <2> QED
    BY <2>1, <2>2
<1>8. NetOK'
  <2>1. m.prevIndex + Len(m.entries) \in Nat
    BY <1>2, LenProperties
  <2>2. AppendedMsg(n, m.from, m.term, m.prevIndex + Len(m.entries)) \in Message
    BY <1>2, <2>1, ReplyTypes
  <2> QED
    BY <2>2, ExchangeType DEF TypeOK
<1> QED
  BY <1>3, <1>6, <1>7, <1>8 DEF TypeOK, leaderVars, worldVars, LeadersOK, WorldOK, LedgerOK

LEMMA RejectAppendType ==
  ASSUME TypeOK, RejectAppend
  PROVE  TypeOK'
<1> PICK m \in Landed("append") :
      /\ m.prevIndex >= log[m.to].base
      /\ Join(m, FOLLOWER, VoteOn(m))
      /\ Exchange({m},
           {RefusedMsg(m.to, m.from, m.term, Conflict(log[m.to], m.prevIndex))})
      /\ UNCHANGED <<log, machineVars, leaderVars, worldVars, ledger>>
  BY DEF RejectAppend
<1>1. m \in Message /\ m.kind = "append"
  BY LandedType DEF TypeOK
<1>2. m.to \in Node /\ m.from \in Node /\ m.term \in Nat /\ m.prevIndex \in Nat
  BY <1>1, MessageFields
<1>3. BallotsOK'
  BY <1>1, ReceiverTypes, JoinType DEF TypeOK, FOLLOWER, Role
<1>4. /\ Conflict(log[m.to], m.prevIndex).term \in Nat
      /\ Conflict(log[m.to], m.prevIndex).index \in Nat
  BY <1>2, LogTypes, EntryTerm, ConflictType DEF TypeOK
<1>5. RefusedMsg(m.to, m.from, m.term, Conflict(log[m.to], m.prevIndex)) \in Message
  BY <1>2, <1>4, ReplyTypes
<1>6. NetOK'
  BY <1>5, ExchangeType DEF TypeOK
<1> QED
  BY <1>3, <1>6 DEF TypeOK, machineVars, leaderVars, worldVars,
                    LogsOK, MachinesOK, LeadersOK, WorldOK, LedgerOK

\* The ledger takes over entries of the leader's log, whatever the ledger held.
LEMMA AdvanceCommitType ==
  ASSUME TypeOK, NEW n \in Node, NEW match, AdvanceCommit(n, match)
  PROVE  MachinesOK' /\ LedgerOK'
<1> DEFINE able == Committable(n, match)
           from == Max({Len(ledger) + 1, FirstIndex(log[n])})
           new  == Slice(log[n], from, Max(able))
           fresh == [i \in DOMAIN new |->
                       [term |-> new[i].term, cmd |-> new[i].cmd, at |-> term[n]]]
<1>1. /\ log[n] \in LogOf(Entry) /\ FirstIndex(log[n]) \in Int /\ LastIndex(log[n]) \in Int
      /\ commitIndex[n] \in Nat /\ term[n] \in Nat
  BY LogTypes DEF TypeOK, MachinesOK, BallotsOK
<1>2. CASE able = {}
  BY <1>2 DEF AdvanceCommit, TypeOK, machineVars, MachinesOK, LedgerOK
<1>3. CASE able # {}
  <2>1. able \subseteq (commitIndex[n] + 1)..LastIndex(log[n])
    BY DEF Committable
  <2>2. able \subseteq Int /\ IsFiniteSet(able)
    BY <1>1, <2>1, PartOfInterval
  <2>3. Max(able) \in able
    BY <1>3, <2>2, MaxOfFinite
  <2>4. Max(able) \in Nat
    BY <1>1, <2>1, <2>3
  <2> HIDE DEF able
  <2>5. MachinesOK'
    BY <1>1, <1>3, <2>4, CommitToType DEF AdvanceCommit, TypeOK, able
  <2>6. from \in Int /\ from >= FirstIndex(log[n])
    <3>1. Len(ledger) + 1 \in Int
      BY LenProperties DEF TypeOK, LedgerOK
    <3>2. from = IF Len(ledger) + 1 >= FirstIndex(log[n])
                 THEN Len(ledger) + 1 ELSE FirstIndex(log[n])
      BY <1>1, <3>1, MaxOfPair
    <3> HIDE DEF from
    <3> QED
      BY <1>1, <3>1, <3>2
  <2> HIDE DEF from
  <2>7. new \in Seq(Entry)
    BY <1>1, <2>4, <2>6, SliceType
  <2>8. ledger' = ledger \o fresh
    BY <1>3 DEF AdvanceCommit, able, from
  <2> HIDE DEF new
  <2>9. fresh \in Seq([term : Nat, cmd : Command \cup {None}, at : Nat])
    <3>1. Len(new) \in Nat /\ DOMAIN new = 1..Len(new)
      BY <2>7, LenProperties
    <3>2. \A i \in 1..Len(new) : new[i] \in Entry
      BY <2>7, ElementOfSeq
    <3>3. \A i \in 1..Len(new) :
            [term |-> new[i].term, cmd |-> new[i].cmd, at |-> term[n]]
              \in [term : Nat, cmd : Command \cup {None}, at : Nat]
      BY <1>1, <3>2 DEF Entry
    <3> QED
      BY <3>1, <3>3, IsASeq
  <2>10. LedgerOK'
    BY <2>8, <2>9, ConcatProperties DEF TypeOK, LedgerOK
  <2> QED
    BY <2>5, <2>10
<1> QED
  BY <1>2, <1>3

\* The step of a leader on a reply that it acts upon.
LEMMA AcknowledgeType ==
  ASSUME TypeOK, NEW m \in Message, NEW upto \in Nat, NEW anyway \in BOOLEAN,
         Acknowledge(m, upto, anyway)
  PROVE  TypeOK'
<1> DEFINE n     == m.to
           match == Acknowledged(m, upto)
           next  == match[m.from] + 1
<1>1. n \in Node /\ m.from \in Node
  BY MessageFields
<1>2. log[n] \in LogOf(Entry) /\ LastIndex(log[n]) \in Nat /\ term[n] \in Nat
  BY <1>1, LogTypes DEF TypeOK, BallotsOK
<1>3. match \in [Node -> Nat]
  <2>1. matchIndex[n] \in [Node -> Nat]
    BY <1>1 DEF TypeOK, LeadersOK
  <2>2. Max({matchIndex[n][m.from], upto}) \in Nat
    BY <1>1, <2>1, MaxOfPair
  <2>3. /\ [matchIndex[n] EXCEPT ![m.from] = Max({matchIndex[n][m.from], upto})]
             \in [Node -> Nat]
        /\ match = [[matchIndex[n] EXCEPT ![m.from] = Max({matchIndex[n][m.from], upto})]
                      EXCEPT ![n] = LastIndex(log[n])]
    BY <2>1, <2>2 DEF Acknowledged
  <2> QED
    BY <1>2, <2>3
<1>4. next \in Nat
  BY <1>1, <1>3
<1>5. /\ matchIndex' = [matchIndex EXCEPT ![n] = match]
      /\ nextIndex' = [nextIndex EXCEPT ![n][m.from] = next]
      /\ AdvanceCommit(n, match)
      /\ \/ Exchange({m}, {ReplicateTo(n, m.from, term[n], log[n], next, commitIndex'[n],
                                       machine'[n])})
         \/ Exchange({m}, {})
      /\ UNCHANGED <<ballotVars, log, worldVars>>
  BY DEF Acknowledge
<1> HIDE DEF match, next
<1>6. LeadersOK'
  BY <1>1, <1>3, <1>4, <1>5 DEF TypeOK, LeadersOK
<1>7. MachinesOK' /\ LedgerOK'
  BY <1>1, <1>5, AdvanceCommitType
<1>8. commitIndex'[n] \in Nat /\ machine'[n] \in Command \cup {None}
  BY <1>1, <1>7 DEF MachinesOK
<1>9. ReplicateTo(n, m.from, term[n], log[n], next, commitIndex'[n], machine'[n]) \in Message
  BY <1>1, <1>2, <1>4, <1>8, ReplicateToType
<1>10. NetOK'
  BY <1>5, <1>9, ExchangeType, TakeType DEF TypeOK
<1> QED
  BY <1>5, <1>6, <1>7, <1>10 DEF TypeOK, ballotVars, worldVars,
                                 BallotsOK, LogsOK, WorldOK

LEMMA AppendSucceededType ==
  ASSUME TypeOK, AppendSucceeded
  PROVE  TypeOK'
<1> PICK m \in ForLeader("appended") : Acknowledge(m, m.match, FALSE)
  BY DEF AppendSucceeded
<1>1. m \in Message /\ m.kind = "appended"
  BY LandedType DEF TypeOK, ForLeader
<1>2. m.match \in Nat
  BY <1>1, MessageFields
<1> QED
  BY <1>1, <1>2, AcknowledgeType

LEMMA OnInstalledType ==
  ASSUME TypeOK, OnInstalled
  PROVE  TypeOK'
<1> PICK m \in ForLeader("installed") : Acknowledge(m, m.lastIndex, TRUE)
  BY DEF OnInstalled
<1>1. m \in Message /\ m.kind = "installed"
  BY LandedType DEF TypeOK, ForLeader
<1>2. m.lastIndex \in Nat
  BY <1>1, MessageFields
<1> QED
  BY <1>1, <1>2, AcknowledgeType

LEMMA AppendRefusedType ==
  ASSUME TypeOK, AppendRefused
  PROVE  TypeOK'
<1> PICK m \in ForLeader("appended") :
      LET n    == m.to
          next == SkipTerm(log[n], m.conflictTerm, m.conflictIndex)
      IN  /\ nextIndex' = [nextIndex EXCEPT ![n][m.from] = next]
          /\ Exchange({m}, {ReplicateTo(n, m.from, term[n], log[n], next,
                                        commitIndex[n], machine[n])})
          /\ UNCHANGED <<ballotVars, log, machineVars, matchIndex, worldVars, ledger>>
  BY DEF AppendRefused
<1> DEFINE n    == m.to
           next == SkipTerm(log[n], m.conflictTerm, m.conflictIndex)
<1>1. m \in Message /\ m.kind = "appended"
  BY LandedType DEF TypeOK, ForLeader
<1>2. n \in Node /\ m.from \in Node /\ m.conflictTerm \in Nat /\ m.conflictIndex \in Nat
  BY <1>1, MessageFields
<1>3. /\ log[n] \in LogOf(Entry) /\ term[n] \in Nat
      /\ commitIndex[n] \in Nat /\ machine[n] \in Command \cup {None}
  BY <1>2, LogTypes DEF TypeOK, BallotsOK, MachinesOK
<1>4. next \in Nat
  BY <1>2, <1>3, SkipTermBound
<1>5. ReplicateTo(n, m.from, term[n], log[n], next, commitIndex[n], machine[n]) \in Message
  BY <1>2, <1>3, <1>4, ReplicateToType
<1>6. NetOK'
  BY <1>5, ExchangeType DEF TypeOK
<1>7. LeadersOK'
  BY <1>2, <1>4 DEF TypeOK, LeadersOK
<1> QED
  BY <1>6, <1>7 DEF TypeOK, ballotVars, machineVars, worldVars,
                    BallotsOK, LogsOK, MachinesOK, WorldOK, LedgerOK

LEMMA IgnoreReplyType ==
  ASSUME TypeOK, IgnoreReply
  PROVE  TypeOK'
<1> PICK m \in Landed("appended") \cup Landed("installed") :
      /\ Join(m, RoleOn(m), VoteOn(m))
      /\ Exchange({m}, {})
      /\ UNCHANGED <<log, machineVars, leaderVars, worldVars, ledger>>
  BY DEF IgnoreReply
<1>1. m \in Message
  BY LandedType DEF TypeOK
<1>2. BallotsOK'
  BY <1>1, ReceiverTypes, JoinType DEF TypeOK
<1>3. NetOK'
  BY TakeType DEF TypeOK
<1> QED
  BY <1>2, <1>3 DEF TypeOK, machineVars, leaderVars, worldVars,
                    LogsOK, MachinesOK, LeadersOK, WorldOK, LedgerOK

-----------------------------------------------------------------------------
(* Snapshots, crashes and restarts.                                        *)

LEMMA CompactLogType ==
  ASSUME TypeOK, NEW n \in Node, CompactLog(n)
  PROVE  TypeOK'
<1>1. log[n] \in LogOf(Entry) /\ lastApplied[n] \in Nat
  BY LogTypes DEF TypeOK, MachinesOK
<1>2. Compact(log[n], lastApplied[n]) \in LogOf(Entry)
  BY <1>1, EntryTerm, CompactType DEF CompactLog
<1>3. LogsOK'
  BY <1>2 DEF TypeOK, LogsOK, CompactLog
<1> QED
  BY <1>3 DEF TypeOK, CompactLog, ballotVars, machineVars, leaderVars, worldVars,
              BallotsOK, MachinesOK, LeadersOK, NetOK, WorldOK, LedgerOK

LEMMA OnInstallType ==
  ASSUME TypeOK, OnInstall
  PROVE  TypeOK'
<1> PICK m \in Landed("install snapshot") :
      LET n    == m.to
          kept == IF Takes(m) THEN FromSnapshot(m.lastIndex, m.lastTerm) ELSE log[n]
      IN  /\ Join(m, RoleOn(m), VoteOn(m))
          /\ log' = [log EXCEPT ![n] = kept]
          /\ \/ /\ machine' = [machine EXCEPT ![n] = m.state]
                /\ commitIndex' = [commitIndex EXCEPT ![n] = m.lastIndex]
                /\ lastApplied' = [lastApplied EXCEPT ![n] = m.lastIndex]
                /\ UNCHANGED applied
             \/ UNCHANGED machineVars
          /\ Exchange({m}, {InstalledMsg(n, m.from, m.term, LastIndex(kept))})
          /\ UNCHANGED <<leaderVars, worldVars, ledger>>
  BY DEF OnInstall
<1> DEFINE n    == m.to
           kept == IF Takes(m) THEN FromSnapshot(m.lastIndex, m.lastTerm) ELSE log[n]
<1>1. m \in Message /\ m.kind = "install snapshot"
  BY LandedType DEF TypeOK
<1>2. /\ n \in Node /\ m.from \in Node /\ m.term \in Nat
      /\ m.lastIndex \in Nat /\ m.lastTerm \in Nat /\ m.state \in Command \cup {None}
  BY <1>1, MessageFields
<1>3. BallotsOK'
  BY <1>1, ReceiverTypes, JoinType DEF TypeOK
<1>4. kept \in LogOf(Entry)
  <2>1. << >> \in Seq(Entry)
    BY EmptySeq
  <2>2. FromSnapshot(m.lastIndex, m.lastTerm) \in LogOf(Entry)
    BY <1>2, <2>1 DEF FromSnapshot, LogOf
  <2> QED
    BY <1>2, <2>2, LogTypes DEF TypeOK
<1>5. LogsOK'
  BY <1>2, <1>4 DEF TypeOK, LogsOK
<1>6. MachinesOK'
  BY <1>2 DEF TypeOK, MachinesOK, machineVars
<1>7. NetOK'
  <2>1. LastIndex(kept) \in Nat
    BY <1>4, LogIndices
  <2>2. InstalledMsg(n, m.from, m.term, LastIndex(kept)) \in Message
    BY <1>2, <2>1, ReplyTypes
  <2> QED
    BY <2>2, ExchangeType DEF TypeOK
<1> QED
  BY <1>3, <1>5, <1>6, <1>7 DEF TypeOK, leaderVars, worldVars, LeadersOK, WorldOK, LedgerOK

\* An exception, whichever handler it leaves, changes nothing but that the run is over.
LEMMA RaiseType ==
  ASSUME TypeOK, Raise
  PROVE  TypeOK'
BY DEF Raise, TypeOK, ballotVars, machineVars, leaderVars,
       BallotsOK, LogsOK, MachinesOK, LeadersOK, NetOK, WorldOK, LedgerOK

LEMMA CrashType ==
  ASSUME TypeOK, NEW n \in Node, Crash(n)
  PROVE  TypeOK'
BY DEF Crash, TypeOK, ballotVars, machineVars, leaderVars,
       BallotsOK, LogsOK, MachinesOK, LeadersOK, NetOK, WorldOK, LedgerOK

LEMMA RestartType ==
  ASSUME TypeOK, NEW n \in Node, Restart(n)
  PROVE  TypeOK'
<1>1. BallotsOK'
  BY DEF TypeOK, BallotsOK, Restart, FOLLOWER, Role
<1>2. MachinesOK'
  <2>1. << >> \in Seq(Entry)
    OBVIOUS
  <2> QED
    BY <2>1 DEF TypeOK, MachinesOK, Restart
<1>3. LeadersOK'
  BY DEF TypeOK, LeadersOK, Restart
<1> QED
  BY <1>1, <1>2, <1>3 DEF TypeOK, Restart, LogsOK, NetOK, WorldOK, LedgerOK

-----------------------------------------------------------------------------

LEMMA InitType == Init => TypeOK
<1> SUFFICES ASSUME Init PROVE TypeOK
  OBVIOUS
<1>1. EmptyLog \in LogOf(Entry)
  BY DEF EmptyLog, LogOf
<1>2. IsABag(EmptyBag) /\ BagToSet(EmptyBag) = {}
  BY DEF EmptyBag, SetToBag, IsABag, BagToSet
<1>3. BallotsOK /\ LogsOK
  BY <1>1 DEF Init, BallotsOK, LogsOK, FOLLOWER, Role
<1>4. MachinesOK
  <2>1. << >> \in Seq(Entry)
    BY EmptySeq
  <2> QED
    BY <2>1 DEF Init, MachinesOK
<1>5. LeadersOK
  BY DEF Init, LeadersOK
<1>6. NetOK /\ WorldOK
  BY <1>2 DEF Init, NetOK, WorldOK
<1>7. LedgerOK
  BY EmptySeq DEF Init, LedgerOK
<1> QED
  BY <1>3, <1>4, <1>5, <1>6, <1>7 DEF TypeOK

LEMMA StutterType ==
  ASSUME TypeOK, UNCHANGED vars
  PROVE  TypeOK'
BY DEF vars, TypeOK, ballotVars, machineVars, leaderVars, worldVars,
       BallotsOK, LogsOK, MachinesOK, LeadersOK, NetOK, WorldOK, LedgerOK

\* No step of the cluster breaks the types, one case per action.
LEMMA NextType ==
  ASSUME TypeOK, Next
  PROVE  TypeOK'
<1>1. CASE RefuseStale \/ DropAtDown \/ OnRequestVote \/ OnPreVoteRequest
  BY <1>1, RefuseStaleType, DropAtDownType, OnRequestVoteType, OnPreVoteRequestType
<1>2. CASE CountVote \/ IgnoreVote \/ OnPreVote
  BY <1>2, CountVoteType, IgnoreVoteType, OnPreVoteType
<1>3. CASE AcceptAppend \/ RejectAppend
  BY <1>3, AcceptAppendType, RejectAppendType
<1>4. CASE AppendSucceeded \/ AppendRefused \/ IgnoreReply
  BY <1>4, AppendSucceededType, AppendRefusedType, IgnoreReplyType
<1>5. CASE OnInstall \/ OnInstalled
  BY <1>5, OnInstallType, OnInstalledType
<1>6. CASE ConflictRaises \/ AcknowledgeRaises
  BY <1>6, RaiseType DEF ConflictRaises, AcknowledgeRaises
<1>7. ASSUME NEW n \in Node, Drive(n) PROVE TypeOK'
  BY <1>7, StandType, HeartbeatType, ProposeType, CompactLogType, CrashType, RestartType
     DEF Drive
<1> QED
  BY <1>1, <1>2, <1>3, <1>4, <1>5, <1>6, <1>7 DEF Next, Deliver

\* The type invariant of every cluster: no handler ever produces an index below
\* zero, a term of nothing or a message that rpc.py would not build.
THEOREM TypeCorrect == Spec => []TypeOK
<1>1. TypeOK /\ [Next]_vars => TypeOK'
  BY NextType, StutterType
<1> QED
  BY <1>1, InitType, PTL DEF Spec
=============================================================================

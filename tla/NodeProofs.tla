----------------------------- MODULE NodeProofs -----------------------------
(***************************************************************************)
(* Proofs about one member of a cluster, about the membership, and about   *)
(* the network between the members.                                        *)
(*                                                                         *)
(* A disk that keeps the term, the vote and the log, written before the    *)
(* answer, is enough for one vote in a term and for keeping whatever was   *)
(* acknowledged.  The invariants say of every promise where it can be      *)
(* read: in memory always, and on the disk as soon as it has left the      *)
(* node.  Votes first, then the log.                                       *)
(*                                                                         *)
(* Configurations in use at one moment decide together or not at all.  As  *)
(* long as no change is begun inside another, all that are in use need a   *)
(* majority of the same members, or of members of whom one set has one     *)
(* node more; and two such majorities meet.  The arithmetic by which       *)
(* quorum.py decides that is exact.                                        *)
(*                                                                         *)
(* A network with a clock, delays and cuts is a channel.  Its steps are    *)
(* mapped one by one, and what its clock says of deliveries comes from     *)
(* when each message was sent and due.                                     *)
(***************************************************************************)
EXTENDS Services, LogProofs

\* A behaviour of the services is one of the node and its disk.
LEMMA PersistMoves == Spec => Per!Spec
<1>1. Init => Per!Init
  BY DEF Init
<1>2. [Next]_vars => [Per!Next]_Per!vars
  BY DEF Next, vars, node, Per!vars, Per!memory
<1> QED BY <1>1, <1>2, PTL DEF Spec, Per!Spec

-----------------------------------------------------------------------------
(* Votes.                                                                  *)

Votes == [kind : {"vote"}, term : Nat, for : Candidate]
Acks  == [kind : {"appended"}, term : Nat, match : Int]

TypeInv ==
  /\ term \in Nat /\ votedFor \in Candidate \cup {None}
  /\ disk.term \in Nat /\ disk.votedFor \in Candidate \cup {None}
  /\ written \in BOOLEAN
  /\ reply \in Votes \cup Acks \cup {Per!Nothing}
  /\ said \subseteq Votes \cup Acks
  /\ crashes \in Nat

\* A vote that a node in this term, with this vote, will not contradict.
KeptBy(m, t, v) == m.kind = "vote" => /\ m.term <= t
                                      /\ m.term = t => v = m.for

MemoryKeeps == \A m \in said : KeptBy(m, term, votedFor)
DiskKeeps   == order = Per!WRITE_FIRST => \A m \in said : KeptBy(m, disk.term, disk.votedFor)
DiskIsFresh == written => disk.term = term /\ disk.votedFor = votedFor
ReplyIsFresh == reply.kind = "vote" => reply.term = term /\ reply.for = votedFor
OneVote ==
  \A a, b \in said :
    (a.kind = "vote" /\ b.kind = "vote" /\ a.term = b.term) => a.for = b.for

VoteInv == MemoryKeeps /\ DiskKeeps /\ DiskIsFresh /\ ReplyIsFresh /\ OneVote

KeepsVotes == Per!Keeps({Per!TERM, Per!VOTE})

PersistInv == TypeInv /\ (KeepsVotes => VoteInv)

-----------------------------------------------------------------------------

LEMMA PersistInit ==
  ASSUME Per!PersistConstants, Per!Init
  PROVE  PersistInv
BY DEF Per!PersistConstants, Per!Init, PersistInv, TypeInv, VoteInv, MemoryKeeps, DiskKeeps,
       DiskIsFresh, ReplyIsFresh, OneVote, Per!Nothing

\* A vote that is granted is for whom every earlier one of its term was for.
LEMMA RequestVoteKeeps ==
  ASSUME Per!PersistConstants, PersistInv,
         NEW t \in Term, NEW c \in Candidate, NEW i, NEW u, Per!OnRequestVote(t, c, i, u)
  PROVE  PersistInv'
<1> DEFINE given == Per!Grants(t, c, i, u)
<1>1. /\ term' = t /\ t >= term /\ t \in Nat
      /\ votedFor' = IF given THEN c ELSE Per!VoteIn(t)
      /\ reply' = IF given THEN Per!Vote(t, c) ELSE Per!Nothing
      /\ written' = FALSE
      /\ UNCHANGED <<durable, order, log, disk, crashes, said>>
  BY DEF Per!OnRequestVote, Per!PersistConstants
<1>2. given => Per!VoteIn(t) \in {None, c}
  BY DEF Per!Grants
<1> HIDE DEF given
<1>3. Per!VoteIn(t) \in Candidate \cup {None}
  BY DEF PersistInv, TypeInv, Per!VoteIn
<1>4. TypeInv'
  BY <1>1, <1>3 DEF PersistInv, TypeInv, Votes, Acks, Per!Vote, Per!Nothing
<1>5. KeepsVotes' => KeepsVotes
  BY <1>1 DEF KeepsVotes, Per!Keeps
<1>6. ASSUME KeepsVotes PROVE VoteInv'
  <2>1. VoteInv /\ TypeInv
    BY <1>6 DEF PersistInv
  <2>2. ASSUME NEW m \in said, m.kind = "vote"
        PROVE  KeptBy(m, t, votedFor')
    <3>1. m \in Votes
      BY <2>1, <2>2 DEF TypeInv, Acks
    <3>2. m.term \in Nat /\ m.for \in Candidate /\ KeptBy(m, term, votedFor)
      BY <2>1, <3>1 DEF VoteInv, MemoryKeeps, Votes
    <3>3. m.for # None
      BY <3>2 DEF Per!PersistConstants
    <3>4. m.term <= t
      BY <1>1, <2>1, <2>2, <3>2 DEF KeptBy, TypeInv
    <3>5. m.term = t => term = t /\ votedFor = m.for
      BY <1>1, <2>1, <2>2, <3>2 DEF KeptBy, TypeInv
    <3>6. m.term = t => votedFor' = m.for
      BY <1>1, <1>2, <2>1, <3>3, <3>5 DEF Per!VoteIn, TypeInv
    <3> QED BY <3>4, <3>6 DEF KeptBy
  <2>3. MemoryKeeps'
    BY <1>1, <2>2 DEF MemoryKeeps, KeptBy
  <2>4. DiskKeeps' /\ DiskIsFresh' /\ OneVote'
    BY <1>1, <2>1 DEF VoteInv, DiskKeeps, DiskIsFresh, OneVote, KeptBy
  <2>5. ReplyIsFresh'
    BY <1>1 DEF ReplyIsFresh, Per!Vote, Per!Nothing
  <2> QED BY <2>3, <2>4, <2>5 DEF VoteInv
<1> QED BY <1>4, <1>5, <1>6 DEF PersistInv

\* An append casts no vote; it may end the term of one.
LEMMA AppendKeeps ==
  ASSUME Per!PersistConstants, PersistInv,
         NEW t \in Term, NEW p \in Int, NEW q \in Int, Per!OnAppend(t, p, q)
  PROVE  PersistInv'
<1>1. /\ term' = t /\ t >= term /\ t \in Nat
      /\ votedFor' = Per!VoteIn(t)
      /\ reply = Per!Nothing /\ (reply' = Per!Ack(t, q) \/ reply' = reply)
      /\ written' = FALSE
      /\ UNCHANGED <<durable, order, disk, crashes, said>>
  BY DEF Per!OnAppend, Per!PersistConstants
<1>2. Per!VoteIn(t) \in Candidate \cup {None}
  BY DEF PersistInv, TypeInv, Per!VoteIn
<1>3. TypeInv'
  <2>1. Per!Ack(t, q) \in Acks
    BY <1>1 DEF Acks, Per!Ack
  <2>2. reply' \in Votes \cup Acks \cup {Per!Nothing}
    BY <1>1, <2>1
  <2> QED BY <1>1, <1>2, <2>2 DEF PersistInv, TypeInv
<1>4. KeepsVotes' => KeepsVotes
  BY <1>1 DEF KeepsVotes, Per!Keeps
<1>5. ASSUME KeepsVotes PROVE VoteInv'
  <2>1. VoteInv /\ TypeInv
    BY <1>5 DEF PersistInv
  <2>2. ASSUME NEW m \in said, m.kind = "vote"
        PROVE  KeptBy(m, t, votedFor')
    <3>1. m \in Votes
      BY <2>1, <2>2 DEF TypeInv, Acks
    <3>2. m.term \in Nat /\ KeptBy(m, term, votedFor)
      BY <2>1, <3>1 DEF VoteInv, MemoryKeeps, Votes
    <3> QED BY <1>1, <2>1, <2>2, <3>2 DEF KeptBy, TypeInv, Per!VoteIn
  <2>3. MemoryKeeps'
    BY <1>1, <2>2 DEF MemoryKeeps, KeptBy
  <2>4. DiskKeeps' /\ DiskIsFresh' /\ OneVote'
    BY <1>1, <2>1 DEF VoteInv, DiskKeeps, DiskIsFresh, OneVote, KeptBy
  <2>5. ReplyIsFresh'
    BY <1>1 DEF ReplyIsFresh, Per!Ack, Per!Nothing
  <2> QED BY <2>3, <2>4, <2>5 DEF VoteInv
<1> QED BY <1>3, <1>4, <1>5 DEF PersistInv

\* What memory keeps, the disk keeps from here on.
LEMMA WriteKeeps ==
  ASSUME Per!PersistConstants, PersistInv, Per!Write
  PROVE  PersistInv'
<1>1. /\ written' = TRUE
      /\ disk'.term = (IF Per!TERM \in durable THEN term ELSE disk.term)
      /\ disk'.votedFor = (IF Per!VOTE \in durable THEN votedFor ELSE disk.votedFor)
      /\ UNCHANGED <<durable, order, term, votedFor, reply, crashes, said>>
  BY DEF Per!Write, Per!memory
<1>2. TypeInv'
  BY <1>1 DEF PersistInv, TypeInv
<1>3. KeepsVotes' => KeepsVotes /\ Per!TERM \in durable /\ Per!VOTE \in durable
  BY <1>1 DEF KeepsVotes, Per!Keeps
<1>4. ASSUME KeepsVotes, Per!TERM \in durable, Per!VOTE \in durable PROVE VoteInv'
  <2>1. VoteInv
    BY <1>4 DEF PersistInv
  <2>2. disk'.term = term /\ disk'.votedFor = votedFor
    BY <1>1, <1>4
  <2> QED BY <1>1, <2>1, <2>2 DEF VoteInv, MemoryKeeps, DiskKeeps, DiskIsFresh, ReplyIsFresh,
                                  OneVote, KeptBy
<1> QED BY <1>2, <1>3, <1>4 DEF PersistInv

\* An answer leaves: memory keeps it, and the disk too if it was written first.
LEMMA AnswerKeeps ==
  ASSUME Per!PersistConstants, PersistInv, Per!Answer
  PROVE  PersistInv'
<1>1. /\ reply # Per!Nothing /\ reply' = Per!Nothing
      /\ said' = said \cup {reply}
      /\ order = Per!WRITE_FIRST => written
      /\ UNCHANGED <<durable, order, term, votedFor, disk, written, crashes>>
  BY DEF Per!Answer, Per!memory
<1>2. TypeInv'
  BY <1>1 DEF PersistInv, TypeInv
<1>3. KeepsVotes' => KeepsVotes
  BY <1>1 DEF KeepsVotes, Per!Keeps
<1>4. ASSUME KeepsVotes PROVE VoteInv'
  <2>1. VoteInv /\ TypeInv
    BY <1>4 DEF PersistInv
  <2>2. KeptBy(reply, term, votedFor)
    BY <2>1 DEF VoteInv, ReplyIsFresh, KeptBy, TypeInv
  <2>3. MemoryKeeps'
    BY <1>1, <2>1, <2>2 DEF VoteInv, MemoryKeeps, KeptBy
  <2>4. DiskKeeps'
    BY <1>1, <2>1, <2>2 DEF VoteInv, DiskKeeps, DiskIsFresh, KeptBy
  <2>5. DiskIsFresh' /\ ReplyIsFresh'
    BY <1>1, <2>1 DEF VoteInv, DiskIsFresh, ReplyIsFresh, Per!Nothing
  <2>6. ASSUME NEW m \in said, m.kind = "vote", reply.kind = "vote", m.term = reply.term
        PROVE  m.for = reply.for
    BY <2>1, <2>6 DEF VoteInv, MemoryKeeps, ReplyIsFresh, KeptBy
  <2>7. OneVote'
    BY <1>1, <2>1, <2>6 DEF VoteInv, OneVote
  <2> QED BY <2>3, <2>4, <2>5, <2>7 DEF VoteInv
<1> QED BY <1>2, <1>3, <1>4 DEF PersistInv

\* A crash leaves what the disk holds.
LEMMA CrashKeeps ==
  ASSUME Per!PersistConstants, PersistInv, Per!Crash
  PROVE  PersistInv'
<1>1. /\ crashes' = crashes + 1
      /\ term' = (IF Per!TERM \in durable THEN disk.term ELSE 1)
      /\ votedFor' = (IF Per!VOTE \in durable THEN disk.votedFor ELSE None)
      /\ reply' = Per!Nothing /\ written' = TRUE
      /\ UNCHANGED <<durable, order, disk, said>>
  BY DEF Per!Crash, Per!Restored
<1>2. TypeInv'
  BY <1>1 DEF PersistInv, TypeInv
<1>3. KeepsVotes' => KeepsVotes /\ order = Per!WRITE_FIRST /\ {Per!TERM, Per!VOTE} \subseteq durable
  BY <1>1 DEF KeepsVotes, Per!Keeps, PersistInv, TypeInv
<1>4. ASSUME KeepsVotes, order = Per!WRITE_FIRST, {Per!TERM, Per!VOTE} \subseteq durable PROVE VoteInv'
  <2>1. VoteInv
    BY <1>4 DEF PersistInv
  <2>2. term' = disk.term /\ votedFor' = disk.votedFor
    BY <1>1, <1>4
  <2> QED BY <1>1, <1>4, <2>1, <2>2 DEF VoteInv, MemoryKeeps, DiskKeeps, DiskIsFresh,
                                        ReplyIsFresh, OneVote, KeptBy, Per!Nothing
<1> QED BY <1>2, <1>3, <1>4 DEF PersistInv

\* A step of the node is one of its actions.
LEMMA NodeSteps ==
  ASSUME [Per!Next]_Per!vars
  PROVE  \/ \E t \in Term :
              \/ \E c \in Candidate, e \in Per!Ends : Per!OnRequestVote(t, c, e.index, e.term)
              \/ \E p, q \in Int :
                   /\ 0 <= p /\ p <= q /\ q <= Per!LastIndex(LeaderLog[t])
                   /\ Per!OnAppend(t, p, q)
         \/ Per!Write \/ Per!Answer \/ Per!Crash
         \/ UNCHANGED Per!vars
<1>1. ASSUME NEW t \in Term, NEW p \in 0..Per!LastIndex(LeaderLog[t]),
             NEW q \in 0..Per!LastIndex(LeaderLog[t]), p <= q, Per!OnAppend(t, p, q)
      PROVE  \E x, y \in Int :
               /\ 0 <= x /\ x <= y /\ y <= Per!LastIndex(LeaderLog[t])
               /\ Per!OnAppend(t, x, y)
  BY <1>1
<1> QED BY <1>1 DEF Per!Next

\* One vote in a term: whatever is asked of the node in whatever order, and wherever
\* the crashes fall, a disk that keeps the term and the vote and is written before the
\* answer is enough, with any other fields or none.
THEOREM VoteSurvivesCrashes == Spec => []OneVoteInATerm
<1>1. Per!PersistConstants
  BY ServicesAssumption
<1>2. Per!Init => PersistInv
  BY <1>1, PersistInit
<1>3. PersistInv /\ [Per!Next]_Per!vars => PersistInv'
  <2> SUFFICES ASSUME PersistInv, [Per!Next]_Per!vars
               PROVE  PersistInv'
    OBVIOUS
  <2>1. ASSUME NEW t \in Term, NEW c \in Candidate, NEW e \in Per!Ends,
               Per!OnRequestVote(t, c, e.index, e.term)
        PROVE  PersistInv'
    BY <1>1, <2>1, RequestVoteKeeps
  <2>2. ASSUME NEW t \in Term, NEW p \in Int, NEW q \in Int, Per!OnAppend(t, p, q)
        PROVE  PersistInv'
    BY <1>1, <2>2, AppendKeeps
  <2>3. CASE Per!Write \/ Per!Answer \/ Per!Crash
    BY <1>1, <2>3, WriteKeeps, AnswerKeeps, CrashKeeps
  <2>4. CASE UNCHANGED Per!vars
    BY <2>4 DEF Per!vars, Per!memory, PersistInv, TypeInv, VoteInv, KeepsVotes, Per!Keeps,
                MemoryKeeps, DiskKeeps, DiskIsFresh, ReplyIsFresh, OneVote, KeptBy
  <2> QED BY <2>1, <2>2, <2>3, <2>4, NodeSteps
<1>4. PersistInv => OneVoteInATerm
  BY DEF PersistInv, KeepsVotes, VoteInv, OneVote, Per!OneVoteInATerm, OneVoteInATerm
<1> QED BY <1>2, <1>3, <1>4, PersistMoves, PTL DEF Per!Spec

-----------------------------------------------------------------------------
(* The log.                                                                *)

Entries == [term : Nat]
Led(t)  == LeaderLog[t].entries

\* The operations on logs that the instance brings are those of Log.
LEMMA SameMerge ==
  ASSUME NEW l, NEW p, NEW es
  PROVE  Per!Merge(l, p, es) = Merge(l, p, es)
BY DEF Per!Merge, Merge, Per!LastIndex, LastIndex, Per!Holds, Holds, Per!FirstIndex, FirstIndex,
       Per!At, At, Per!Extend, Extend, Per!Truncate, Truncate, Per!Min, Min

LEMMA SameSlice ==
  ASSUME NEW l, NEW a, NEW b
  PROVE  Per!Slice(l, a, b) = Slice(l, a, b)
BY DEF Per!Slice, Slice, Per!LastIndex, LastIndex, Per!Min, Min

LEMMA SameRest ==
  ASSUME NEW l, NEW i, NEW t
  PROVE  /\ Per!LastIndex(l) = LastIndex(l)
         /\ Per!At(l, i) = At(l, i)
         /\ Per!TermAt(l, i) = TermAt(l, i)
         /\ Per!Matches(l, i, t) <=> Matches(l, i, t)
BY DEF Per!LastIndex, LastIndex, Per!At, At, Per!TermAt, TermAt, Per!Matches, Matches

\* What the leaders' logs are.
LEMMA LeadersLogs ==
  ASSUME Per!PersistConstants, NEW t \in Term
  PROVE  /\ Whole(LeaderLog[t], Entries)
         /\ Led(t) \in Seq(Entries) /\ Len(Led(t)) \in Nat /\ DOMAIN Led(t) = 1..Len(Led(t))
         /\ LastIndex(LeaderLog[t]) = Len(Led(t))
         /\ \A u \in Term : TermsTell(Led(t), Led(u))
<1>1. Whole(LeaderLog[t], Entries)
  BY DEF Per!PersistConstants, Per!LogOf, LogOf, Whole, Entries
<1>2. /\ Led(t) \in Seq(Entries) /\ Len(Led(t)) \in Nat /\ DOMAIN Led(t) = 1..Len(Led(t))
      /\ LastIndex(LeaderLog[t]) = Len(Led(t))
  BY <1>1, WholeLog DEF Led
<1>3. ASSUME NEW u \in Term PROVE TermsTell(Led(t), Led(u))
  <2>1. Whole(LeaderLog[u], Entries)
    BY DEF Per!PersistConstants, Per!LogOf, LogOf, Whole, Entries
  <2>2. Led(u) \in Seq(Entries) /\ Len(Led(u)) \in Nat /\ DOMAIN Led(u) = 1..Len(Led(u))
    BY <2>1, WholeLog DEF Led
  <2>3. ASSUME NEW i, i \in DOMAIN Led(t), i \in DOMAIN Led(u), Led(t)[i].term = Led(u)[i].term
        PROVE  SameUpTo(Led(t), Led(u), i)
    <3>1. \A j \in 1..i : Led(t)[j] = Led(u)[j]
      BY <2>3 DEF Per!PersistConstants, Led
    <3> QED BY <1>2, <2>2, <2>3, <3>1 DEF SameUpTo
  <2> QED BY <2>3 DEF TermsTell
<1> QED BY <1>1, <1>2, <1>3

\* What it is to contain the leader's log up to an index.
LEMMA ContainsMeans ==
  ASSUME Per!PersistConstants, NEW l, Whole(l, Entries), NEW t \in Term,
         NEW upto \in Nat, upto <= Len(Led(t))
  PROVE  Per!Contains(l, t, upto) <=> SameUpTo(l.entries, Led(t), upto)
<1>1. /\ Per!LastIndex(l) = Len(l.entries)
      /\ \A i \in 1..upto : /\ Per!At(l, i) = l.entries[i]
                            /\ Per!At(LeaderLog[t], i) = Led(t)[i]
  <2>1. Whole(LeaderLog[t], Entries)
    BY LeadersLogs
  <2>2. /\ LastIndex(l) = Len(l.entries)
        /\ \A i \in Int : At(l, i) = l.entries[i] /\ At(LeaderLog[t], i) = Led(t)[i]
    BY <2>1, WholeLog DEF Led
  <2>3. \A i \in 1..upto : i \in Int
    OBVIOUS
  <2>4. Per!LastIndex(l) = LastIndex(l)
    BY DEF Per!LastIndex, LastIndex
  <2> QED BY <2>2, <2>3, <2>4, SameRest
<1> QED BY <1>1 DEF Per!Contains, SameUpTo

\* The later leaders have what was acknowledged.
Survives(m) == \A t \in Term : t > m.term => SameUpTo(Led(t), Led(m.term), m.match)

\* A node in this term, with this log, has it too.
HasAck(m, t, l) ==
  (m.kind = "appended" /\ Survives(m)) =>
    m.term <= t /\ SameUpTo(l.entries, Led(m.term), m.match)

LogsAreWhole ==
  /\ term \in Nat /\ disk.term \in Nat
  /\ Whole(log, Entries) /\ Whole(disk.log, Entries)
  /\ \A t \in Term : TermsTell(log.entries, Led(t)) /\ TermsTell(disk.log.entries, Led(t))
AcksAreShort ==
  \A m \in said \cup {reply} :
    m.kind = "appended" => m.term \in Term /\ m.match \in Nat /\ m.match <= Len(Led(m.term))
MemoryHasAcks == \A m \in said : HasAck(m, term, log)
DiskHasAcks   == order = Per!WRITE_FIRST => \A m \in said : HasAck(m, disk.term, disk.log)
DiskIsNew     == written => disk.term = term /\ disk.log = log
ReplyIsTrue   ==
  reply.kind = "appended" => reply.term = term /\ SameUpTo(log.entries, Led(term), reply.match)

KeepsLog == Per!Keeps({Per!TERM, Per!LOG})

AckInv ==
  /\ LogsAreWhole /\ AcksAreShort /\ crashes \in Nat
  /\ KeepsLog => MemoryHasAcks /\ DiskHasAcks /\ DiskIsNew /\ ReplyIsTrue

LEMMA EmptyIsWhole ==
  /\ Whole(Per!EmptyLog, Entries)
  /\ \A u : TermsTell(Per!EmptyLog.entries, u)
<1>1. << >> \in Seq(Entries) /\ DOMAIN << >> = {}
  OBVIOUS
<1> QED BY <1>1 DEF Per!EmptyLog, Whole, LogOf, TermsTell

LEMMA AckInit ==
  ASSUME Per!PersistConstants, Per!Init
  PROVE  AckInv
BY EmptyIsWhole
   DEF Per!Init, AckInv, LogsAreWhole, AcksAreShort, MemoryHasAcks, DiskHasAcks, DiskIsNew,
       ReplyIsTrue, Per!Nothing

\* An append that is accepted keeps what a later leader has, and gives what it says.
LEMMA AcceptedKeeps ==
  ASSUME Per!PersistConstants, NEW l, Whole(l, Entries),
         \A u \in Term : TermsTell(l.entries, Led(u)),
         NEW t \in Term, NEW p \in Int, NEW q \in Int,
         0 <= p, p <= q, q <= Per!LastIndex(LeaderLog[t]),
         Per!Matches(l, p, Per!TermAt(LeaderLog[t], p)),
         NEW r, r = Per!Merge(l, p, Per!Slice(LeaderLog[t], p + 1, q))
  PROVE  /\ Whole(r, Entries)
         /\ \A u \in Term : TermsTell(r.entries, Led(u))
         /\ SameUpTo(r.entries, Led(t), q)
         /\ \A u, k : (k \in Nat /\ SameUpTo(l.entries, u, k) /\ SameUpTo(Led(t), u, k))
                        => SameUpTo(r.entries, u, k)
<1> DEFINE u  == Led(t)
           es == Slice(LeaderLog[t], p + 1, q)
           pt == TermAt(LeaderLog[t], p)
<1>1. /\ Whole(LeaderLog[t], Entries) /\ u \in Seq(Entries) /\ Len(u) \in Nat
      /\ DOMAIN u = 1..Len(u) /\ q <= Len(u) /\ q \in Nat /\ p \in Nat
  BY LeadersLogs, SameRest
<1>2. /\ es \in Seq(Entries) /\ Len(es) = q - p
      /\ \A k \in 1..Len(es) : es[k] = u[p + 1 + k - 1]
  <2>1. p + 1 \in Nat /\ p + 1 >= 1 /\ (p + 1 <= q \/ (p + 1 > q /\ q - p = 0))
    BY <1>1
  <2>2. /\ es \in Seq(Entries)
        /\ (q <= Len(u) /\ p + 1 <= q) => Len(es) = q - (p + 1) + 1
        /\ p + 1 > q => Len(es) = 0
        /\ \A k \in 1..Len(es) : es[k] = u[p + 1 + k - 1]
    <3> DEFINE L == LeaderLog[t]
               b == p + 1
    <3>1. Whole(L, Entries) /\ q \in Int /\ b \in Nat /\ b >= 1 /\ es = Slice(L, b, q)
      BY <1>1, <2>1
    <3>2. L.entries = u
      BY DEF Led
    <3> HIDE DEF L, b, u, es
    <3>3. /\ Slice(L, b, q) \in Seq(Entries)
          /\ Len(Slice(L, b, q)) \in Nat
          /\ (q <= Len(L.entries) /\ b <= q) => Len(Slice(L, b, q)) = q - b + 1
          /\ b > q => Len(Slice(L, b, q)) = 0
          /\ \A k \in 1..Len(Slice(L, b, q)) :
               /\ b + k - 1 \in DOMAIN L.entries /\ b + k - 1 <= q
               /\ Slice(L, b, q)[k] = L.entries[b + k - 1]
      <4>1. Whole(L, Entries) /\ b \in Nat /\ b >= 1 /\ q \in Int
        BY <3>1
      <4> QED BY <4>1, SliceOfWhole, SMTT(30)
    <3> QED BY <3>1, <3>2, <3>3 DEF b
  <2> QED BY <1>1, <2>1, <2>2
<1>3. pt = IF p = 0 THEN 0 ELSE u[p].term
  BY <1>1, WholeLog DEF Led
<1>4. r = Merge(l, p, es) /\ Matches(l, p, pt)
  BY SameMerge, SameSlice, SameRest
<1> HIDE DEF es, pt
<1>5. p + Len(es) = q /\ DOMAIN es = 1..Len(es) /\ \A k \in DOMAIN es : es[k] = u[p + k]
  <2>1. DOMAIN es = 1..Len(es)
    BY <1>2, LenProperties
  <2>2. ASSUME NEW k \in 1..Len(es) PROVE es[k] = u[p + k]
    <3>1. p + 1 + k - 1 = p + k
      BY <1>1, <1>2
    <3>2. es[k] = u[p + 1 + k - 1]
      BY <1>2
    <3> QED BY <3>1, <3>2, Zenon
  <2>3. p + Len(es) = q
    BY <1>1, <1>2
  <2> HIDE DEF u
  <2> QED BY <2>1, <2>2, <2>3
<1>6. TermsTell(l.entries, u)
  OBVIOUS
<1> HIDE DEF u
<1>7. /\ Whole(r, Entries)
      /\ SameUpTo(r.entries, u, p + Len(es))
      /\ r = l \/ SameUpTo(r.entries, u, Len(r.entries))
      /\ \A i \in DOMAIN l.entries :
           (i \in DOMAIN u /\ l.entries[i].term = u[i].term)
             => i \in DOMAIN r.entries /\ r.entries[i] = l.entries[i]
  <2>1. p \in Nat /\ u \in Seq(Entries) /\ es \in Seq(Entries)
    BY <1>1, <1>2
  <2>2. p + Len(es) <= Len(u) /\ \A k \in DOMAIN es : es[k] = u[p + k]
    BY <1>1, <1>5
  <2> QED BY <1>3, <1>4, <1>6, <2>1, <2>2, MergeOfPart, SMTT(60)
<1>8. /\ DOMAIN l.entries = 1..Len(l.entries) /\ Len(l.entries) \in Nat
      /\ DOMAIN r.entries = 1..Len(r.entries) /\ Len(r.entries) \in Nat
  BY <1>7, WholeLog
<1>9. ASSUME NEW v \in Term, NEW i, i \in DOMAIN r.entries, i \in DOMAIN Led(v),
             r.entries[i].term = Led(v)[i].term, SameUpTo(r.entries, u, Len(r.entries))
      PROVE  SameUpTo(r.entries, Led(v), i)
  <2>1. i \in 1..Len(r.entries) /\ r.entries[i] = u[i] /\ i \in DOMAIN u
    BY <1>1, <1>8, <1>9 DEF SameUpTo
  <2>2. SameUpTo(u, Led(v), i)
    BY <1>9, <2>1, LeadersLogs DEF TermsTell, u
  <2> QED BY <1>8, <1>9, <2>1, <2>2 DEF SameUpTo
<1>10. \A v \in Term : TermsTell(r.entries, Led(v))
  BY <1>7, <1>9 DEF TermsTell
<1>11. ASSUME NEW v, NEW k \in Nat, SameUpTo(l.entries, v, k), SameUpTo(u, v, k)
       PROVE  SameUpTo(r.entries, v, k)
  <2>1. \A i \in 1..k : i \in DOMAIN l.entries /\ i \in DOMAIN u /\ l.entries[i] = u[i]
    BY <1>1, <1>8, <1>11 DEF SameUpTo
  <2>2. \A i \in 1..k : i \in DOMAIN r.entries /\ r.entries[i] = l.entries[i]
    BY <1>7, <2>1
  <2>3. k <= Len(r.entries)
    <3>1. CASE k = 0
      BY <1>8, <3>1
    <3>2. CASE k # 0
      BY <1>8, <2>2, <3>2
    <3> QED BY <3>1, <3>2
  <2> QED BY <1>11, <2>2, <2>3 DEF SameUpTo
<1> QED BY <1>5, <1>7, <1>10, <1>11 DEF u

\* The votes say nothing of the log; the term can only rise.
LEMMA RequestVoteKeepsAcks ==
  ASSUME Per!PersistConstants, AckInv,
         NEW t \in Term, NEW c \in Candidate, NEW e \in Per!Ends,
         Per!OnRequestVote(t, c, e.index, e.term)
  PROVE  AckInv'
<1>1. /\ term' = t /\ t >= term /\ t \in Nat
      /\ reply' = Per!Vote(t, c) \/ reply' = Per!Nothing
      /\ written' = FALSE
      /\ UNCHANGED <<durable, order, log, disk, crashes, said>>
  BY DEF Per!OnRequestVote, Per!PersistConstants
<1>2. reply'.kind # "appended"
  BY <1>1 DEF Per!Vote, Per!Nothing
<1>3. LogsAreWhole' /\ AcksAreShort' /\ crashes' \in Nat /\ ReplyIsTrue' /\ DiskIsNew'
  BY <1>1, <1>2 DEF AckInv, LogsAreWhole, AcksAreShort, ReplyIsTrue, DiskIsNew
<1>4. KeepsLog' => KeepsLog
  BY <1>1 DEF KeepsLog, Per!Keeps
<1>5. ASSUME KeepsLog PROVE MemoryHasAcks' /\ DiskHasAcks'
  <2>1. ASSUME NEW m \in said PROVE HasAck(m, t, log)
    <3>1. HasAck(m, term, log) /\ (m.kind = "appended" => m.term \in Nat) /\ term \in Nat
      BY <1>5, <2>1 DEF AckInv, LogsAreWhole, AcksAreShort, MemoryHasAcks, Per!PersistConstants
    <3> QED BY <1>1, <3>1 DEF HasAck
  <2>2. DiskHasAcks
    BY <1>5 DEF AckInv
  <2> QED BY <1>1, <2>1, <2>2 DEF MemoryHasAcks, DiskHasAcks, HasAck
<1> QED BY <1>3, <1>4, <1>5 DEF AckInv

\* An append is of a leader no older than any the node has answered, whose log has what
\* survives; the merge leaves that where it is.
LEMMA AppendKeepsAcks ==
  ASSUME Per!PersistConstants, AckInv, NEW t \in Term, NEW p \in Int, NEW q \in Int,
         0 <= p, p <= q, q <= Per!LastIndex(LeaderLog[t]), Per!OnAppend(t, p, q)
  PROVE  AckInv'
<1>1. /\ term' = t /\ t >= term /\ t \in Nat
      /\ reply = Per!Nothing
      /\ written' = FALSE
      /\ UNCHANGED <<durable, order, disk, crashes, said>>
      /\ \/ /\ Per!Matches(log, p, Per!TermAt(LeaderLog[t], p))
            /\ log' = Per!Merge(log, p, Per!Slice(LeaderLog[t], p + 1, q))
            /\ reply' = Per!Ack(t, q)
         \/ UNCHANGED <<log, reply>>
  BY DEF Per!OnAppend, Per!PersistConstants
<1>2. /\ Whole(log, Entries) /\ \A u \in Term : TermsTell(log.entries, Led(u))
      /\ term \in Nat
  BY DEF AckInv, LogsAreWhole
<1>3. /\ q \in Nat /\ q <= Len(Led(t)) /\ Len(Led(t)) \in Nat
  BY LeadersLogs, SameRest
<1>4. /\ Whole(log', Entries) /\ \A u \in Term : TermsTell(log'.entries, Led(u))
      /\ reply' = Per!Ack(t, q) => SameUpTo(log'.entries, Led(t), q)
      /\ \A u, k : (k \in Nat /\ SameUpTo(log.entries, u, k) /\ SameUpTo(Led(t), u, k))
                     => SameUpTo(log'.entries, u, k)
  <2>1. CASE UNCHANGED <<log, reply>>
    BY <1>1, <1>2, <2>1 DEF Per!Ack, Per!Nothing
  <2>2. CASE /\ Per!Matches(log, p, Per!TermAt(LeaderLog[t], p))
             /\ log' = Per!Merge(log, p, Per!Slice(LeaderLog[t], p + 1, q))
    BY <1>2, <2>2, AcceptedKeeps
  <2> QED BY <1>1, <2>1, <2>2
<1>5. LogsAreWhole'
  BY <1>1, <1>4 DEF AckInv, LogsAreWhole, Led
<1>6. AcksAreShort'
  <2>1. reply'.kind = "appended" => reply'.term = t /\ reply'.match = q
    BY <1>1 DEF Per!Ack, Per!Nothing
  <2> QED BY <1>1, <1>3, <2>1 DEF AckInv, AcksAreShort, Led
<1>7. KeepsLog' => KeepsLog
  BY <1>1 DEF KeepsLog, Per!Keeps
<1>8. ASSUME KeepsLog PROVE MemoryHasAcks' /\ DiskHasAcks' /\ DiskIsNew' /\ ReplyIsTrue'
  <2>1. ASSUME NEW m \in said PROVE HasAck(m, t, log')
    <3> SUFFICES ASSUME m.kind = "appended", Survives(m)
                 PROVE  m.term <= t /\ SameUpTo(log'.entries, Led(m.term), m.match)
      BY DEF HasAck
    <3>1. m.term <= term /\ SameUpTo(log.entries, Led(m.term), m.match)
      BY <1>8, <2>1 DEF AckInv, MemoryHasAcks, HasAck
    <3>2. m.term \in Term /\ m.term \in Nat /\ m.match \in Nat /\ m.match <= Len(Led(m.term))
      BY <2>1 DEF AckInv, AcksAreShort, Per!PersistConstants
    <3>3. SameUpTo(Led(t), Led(m.term), m.match)
      <4>1. CASE t > m.term
        BY <4>1 DEF Survives
      <4>2. CASE t = m.term
        BY <3>2, <4>2 DEF SameUpTo
      <4> QED BY <1>1, <1>2, <3>1, <3>2, <4>1, <4>2
    <3> QED BY <1>1, <1>2, <1>4, <3>1, <3>2, <3>3
  <2>2. DiskHasAcks
    BY <1>8 DEF AckInv
  <2>3. ReplyIsTrue'
    <3>1. CASE reply' = Per!Ack(t, q)
      BY <1>1, <1>4, <3>1 DEF ReplyIsTrue, Per!Ack, Led
    <3>2. CASE reply' = Per!Nothing
      BY <3>2 DEF ReplyIsTrue, Per!Nothing
    <3> QED BY <1>1, <3>1, <3>2
  <2> QED BY <1>1, <2>1, <2>2, <2>3 DEF MemoryHasAcks, DiskHasAcks, DiskIsNew, HasAck, Survives, Led
<1> QED BY <1>1, <1>5, <1>6, <1>7, <1>8 DEF AckInv

\* What memory has, the disk has from here on.
LEMMA WriteKeepsAcks ==
  ASSUME Per!PersistConstants, AckInv, Per!Write
  PROVE  AckInv'
<1>1. /\ written' = TRUE
      /\ disk'.term = (IF Per!TERM \in durable THEN term ELSE disk.term)
      /\ disk'.log = (IF Per!LOG \in durable THEN log ELSE disk.log)
      /\ UNCHANGED <<durable, order, term, log, reply, crashes, said>>
  BY DEF Per!Write, Per!memory
<1>2. LogsAreWhole' /\ AcksAreShort' /\ crashes' \in Nat
  BY <1>1 DEF AckInv, LogsAreWhole, AcksAreShort
<1>3. KeepsLog' => KeepsLog /\ Per!TERM \in durable /\ Per!LOG \in durable
  BY <1>1 DEF KeepsLog, Per!Keeps
<1>4. ASSUME KeepsLog, Per!TERM \in durable, Per!LOG \in durable
      PROVE  MemoryHasAcks' /\ DiskHasAcks' /\ DiskIsNew' /\ ReplyIsTrue'
  <2>1. disk'.term = term /\ disk'.log = log
    BY <1>1, <1>4
  <2>2. MemoryHasAcks /\ ReplyIsTrue
    BY <1>4 DEF AckInv
  <2> QED BY <1>1, <2>1, <2>2 DEF MemoryHasAcks, DiskHasAcks, DiskIsNew, ReplyIsTrue, HasAck, Survives
<1> QED BY <1>2, <1>3, <1>4 DEF AckInv

\* An answer leaves: memory has it, and the disk too if it was written first.
LEMMA AnswerKeepsAcks ==
  ASSUME Per!PersistConstants, AckInv, Per!Answer
  PROVE  AckInv'
<1>1. /\ reply' = Per!Nothing
      /\ said' = said \cup {reply}
      /\ order = Per!WRITE_FIRST => written
      /\ UNCHANGED <<durable, order, term, log, disk, written, crashes>>
  BY DEF Per!Answer, Per!memory
<1>2. LogsAreWhole' /\ AcksAreShort' /\ crashes' \in Nat
  BY <1>1 DEF AckInv, LogsAreWhole, AcksAreShort, Per!Nothing
<1>3. KeepsLog' => KeepsLog
  BY <1>1 DEF KeepsLog, Per!Keeps
<1>4. ASSUME KeepsLog
      PROVE  MemoryHasAcks' /\ DiskHasAcks' /\ DiskIsNew' /\ ReplyIsTrue'
  <2>1. MemoryHasAcks /\ DiskHasAcks /\ DiskIsNew /\ ReplyIsTrue
    BY <1>4 DEF AckInv
  <2>2. HasAck(reply, term, log)
    <3>1. ASSUME reply.kind = "appended"
          PROVE  reply.term <= term /\ SameUpTo(log.entries, Led(reply.term), reply.match)
      BY <2>1, <3>1 DEF ReplyIsTrue, AckInv, LogsAreWhole
    <3> QED BY <3>1 DEF HasAck
  <2>3. MemoryHasAcks'
    BY <1>1, <2>1, <2>2 DEF MemoryHasAcks, HasAck, Survives
  <2>4. DiskHasAcks'
    <3>1. ASSUME order = Per!WRITE_FIRST, NEW m \in said \cup {reply}
          PROVE  HasAck(m, disk.term, disk.log)
      BY <1>1, <2>1, <2>2, <3>1 DEF DiskHasAcks, DiskIsNew
    <3> QED BY <1>1, <3>1 DEF DiskHasAcks, HasAck, Survives
  <2>5. DiskIsNew' /\ ReplyIsTrue'
    BY <1>1, <2>1 DEF DiskIsNew, ReplyIsTrue, Per!Nothing
  <2> QED BY <2>3, <2>4, <2>5
<1> QED BY <1>2, <1>3, <1>4 DEF AckInv

\* A crash leaves what the disk holds.
LEMMA CrashKeepsAcks ==
  ASSUME Per!PersistConstants, AckInv, Per!Crash
  PROVE  AckInv'
<1>1. /\ crashes' = crashes + 1
      /\ term' = (IF Per!TERM \in durable THEN disk.term ELSE 1)
      /\ log' = (IF Per!LOG \in durable THEN disk.log ELSE Per!EmptyLog)
      /\ reply' = Per!Nothing /\ written' = TRUE
      /\ UNCHANGED <<durable, order, disk, said>>
  BY DEF Per!Crash, Per!Restored
<1>2. LogsAreWhole' /\ AcksAreShort' /\ crashes' \in Nat
  BY <1>1, EmptyIsWhole DEF AckInv, LogsAreWhole, AcksAreShort, Per!Nothing
<1>3. KeepsLog' => KeepsLog /\ order = Per!WRITE_FIRST /\ {Per!TERM, Per!LOG} \subseteq durable
  BY <1>1 DEF KeepsLog, Per!Keeps, AckInv
<1>4. ASSUME KeepsLog, order = Per!WRITE_FIRST, {Per!TERM, Per!LOG} \subseteq durable
      PROVE  MemoryHasAcks' /\ DiskHasAcks' /\ DiskIsNew' /\ ReplyIsTrue'
  <2>1. DiskHasAcks
    BY <1>4 DEF AckInv
  <2>2. term' = disk.term /\ log' = disk.log
    BY <1>1, <1>4
  <2> QED BY <1>1, <1>4, <2>1, <2>2
          DEF MemoryHasAcks, DiskHasAcks, DiskIsNew, ReplyIsTrue, HasAck, Survives, Per!Nothing
<1> QED BY <1>2, <1>3, <1>4 DEF AckInv

\* What the invariant is for.
LEMMA AckInvIsEnough ==
  ASSUME Per!PersistConstants, AckInv
  PROVE  Per!AcknowledgedIsKept
<1> SUFFICES ASSUME KeepsLog, NEW a \in said, a.kind = "appended",
                    \A t \in Term : t > a.term => Per!Contains(LeaderLog[t], a.term, a.match)
             PROVE  /\ Per!Contains(log, a.term, a.match)
                    /\ (order = Per!WRITE_FIRST \/ written) =>
                         Per!Contains(Per!Restored.log, a.term, a.match)
  BY DEF Per!AcknowledgedIsKept, KeepsLog
<1>1. a.term \in Term /\ a.match \in Nat /\ a.match <= Len(Led(a.term))
  BY DEF AckInv, AcksAreShort
<1>2. Survives(a)
  <2>1. \A t \in Term : Whole(LeaderLog[t], Entries)
    BY LeadersLogs
  <2>2. \A t \in Term : Per!Contains(LeaderLog[t], a.term, a.match)
                          <=> SameUpTo(Led(t), Led(a.term), a.match)
    BY <1>1, <2>1, ContainsMeans DEF Led
  <2> QED BY <2>2 DEF Survives
<1>3. SameUpTo(log.entries, Led(a.term), a.match)
  BY <1>2 DEF AckInv, MemoryHasAcks, HasAck
<1>4. Per!Restored.log = disk.log
  BY DEF KeepsLog, Per!Keeps, Per!Restored
<1>5. (order = Per!WRITE_FIRST \/ written) => SameUpTo(disk.log.entries, Led(a.term), a.match)
  BY <1>2, <1>3 DEF AckInv, DiskHasAcks, DiskIsNew, HasAck
<1>6. Whole(log, Entries) /\ Whole(disk.log, Entries)
  BY DEF AckInv, LogsAreWhole
<1> QED BY <1>1, <1>3, <1>4, <1>5, <1>6, ContainsMeans

\* What a node has acknowledged stays: whatever it is sent and wherever the crashes
\* fall, a disk that keeps the term and the log and is written before the answer is
\* enough, with any other fields or none, for an entry that no later leader is without.
THEOREM AcknowledgedSurvivesCrashes == Spec => []AcknowledgedIsKept
<1>1. Per!PersistConstants
  BY ServicesAssumption
<1>2. Per!Init => AckInv
  BY <1>1, AckInit
<1>3. AckInv /\ [Per!Next]_Per!vars => AckInv'
  <2> SUFFICES ASSUME AckInv, [Per!Next]_Per!vars
               PROVE  AckInv'
    OBVIOUS
  <2>1. ASSUME NEW t \in Term, NEW c \in Candidate, NEW e \in Per!Ends,
               Per!OnRequestVote(t, c, e.index, e.term)
        PROVE  AckInv'
    BY <1>1, <2>1, RequestVoteKeepsAcks
  <2>2. ASSUME NEW t \in Term, NEW p \in Int, NEW q \in Int,
               0 <= p, p <= q, q <= Per!LastIndex(LeaderLog[t]), Per!OnAppend(t, p, q)
        PROVE  AckInv'
    BY <1>1, <2>2, AppendKeepsAcks
  <2>3. CASE Per!Write \/ Per!Answer \/ Per!Crash
    BY <1>1, <2>3, WriteKeepsAcks, AnswerKeepsAcks, CrashKeepsAcks
  <2>4. CASE UNCHANGED Per!vars
    BY <2>4 DEF Per!vars, Per!memory, AckInv, LogsAreWhole, AcksAreShort, KeepsLog, Per!Keeps,
                MemoryHasAcks, DiskHasAcks, DiskIsNew, ReplyIsTrue, HasAck, Survives, Led
  <2> QED BY <2>1, <2>2, <2>3, <2>4, NodeSteps
<1>4. AckInv => AcknowledgedIsKept
  BY <1>1, AckInvIsEnough DEF AcknowledgedIsKept
<1> QED BY <1>2, <1>3, <1>4, PersistMoves, PTL DEF Per!Spec

-----------------------------------------------------------------------------
(* The membership.                                                         *)


\* A behaviour of the services is one of each of them.
LEMMA MembershipMoves == Spec => Mem!Spec
<1>1. Init => Mem!Init
  BY DEF Init
<1>2. [Next]_vars => [Mem!Next]_Mem!vars
  BY DEF Next, vars, configurations, Mem!vars
<1> QED BY <1>1, <1>2, PTL DEF Spec, Mem!Spec

LEMMA SameFinite ==
  ASSUME NEW X
  PROVE  Mem!IsFiniteSet(X) <=> IsFiniteSet(X)
BY DEF Mem!IsFiniteSet, IsFiniteSet

LEMMA SameSize ==
  ASSUME NEW X
  PROVE  Mem!Cardinality(X) = Cardinality(X)
BY DEF Mem!Cardinality, Cardinality

LEMMA MajorityOf ==
  ASSUME NEW votes, NEW members
  PROVE  Mem!HasMajority(votes, members) <=>
           Cardinality(votes \cap members) >= Cardinality(members) \div 2 + 1
BY SameSize DEF Mem!HasMajority, Mem!Majority

Members == (SUBSET Node) \ {{}}
Config == [members : Members, old : SUBSET Node, learners : SUBSET Node]

ConfigTypeOK ==
  /\ kind \in {"configuration", "roster"}
  /\ use \subseteq [config : Config, from : Config]
  /\ overlapped \in BOOLEAN
  /\ kind = "roster" => \A u \in use : u.config.old = {}

\* Every configuration meets the one it was made from.
StepsMeet == \A u \in use : Mem!Meet(u.from, u.config)

\* Whoever decides by this configuration has a majority of B.
Counts(c, B) == c.members = B \/ c.old = B

AllCount(B) == \A u \in use : Counts(u.config, B)
AllNear(B, n) == \A u \in use : u.config.members \in {B, B \cup {n}}

Anchored ==
  ~overlapped =>
    /\ kind = "configuration" => \E B \in Members : AllCount(B)
    /\ kind = "roster" => \E B \in Members, n \in Node : AllNear(B, n)

MembershipInv == ConfigTypeOK /\ StepsMeet /\ Anchored

-----------------------------------------------------------------------------
(* Majorities.                                                             *)

\* Of these members and of these with one more.
LEMMA NearMajoritiesMeet ==
  ASSUME Mem!MembershipConstants, NEW B \in SUBSET Node, NEW n \in Node,
         NEW p \in SUBSET Node, NEW q \in SUBSET Node,
         Mem!HasMajority(p, B), Mem!HasMajority(q, B) \/ Mem!HasMajority(q, B \cup {n})
  PROVE  p \cap q # {}
<1> SUFFICES ASSUME p \cap q = {} PROVE FALSE
  OBVIOUS
<1> DEFINE P == p \cap B
           Q == q \cap B
<1>1. IsFiniteSet(B) /\ IsFiniteSet(P) /\ IsFiniteSet(Q) /\ IsFiniteSet(Node)
  BY SameFinite, FS_Subset DEF Mem!MembershipConstants
<1>2. Cardinality(B) \in Nat /\ Cardinality(P) \in Nat /\ Cardinality(Q) \in Nat
  BY <1>1, FS_CardinalityType
<1>3. Cardinality(P) + Cardinality(Q) <= Cardinality(B)
  <2>1. P \cap Q = {} /\ P \cup Q \in SUBSET B
    OBVIOUS
  <2>2. Cardinality(P \cap Q) = 0
    BY <2>1, FS_EmptySet
  <2>3. Cardinality(P \cup Q) <= Cardinality(B)
    BY <1>1, <2>1, FS_Subset
  <2>4. Cardinality(P \cup Q) = Cardinality(P) + Cardinality(Q) - Cardinality(P \cap Q)
    BY <1>1, FS_Union
  <2> QED BY <1>2, <2>2, <2>3, <2>4
<1>4. Cardinality(P) >= Cardinality(B) \div 2 + 1
  BY MajorityOf
<1>5. CASE Mem!HasMajority(q, B)
  <2>1. Cardinality(Q) >= Cardinality(B) \div 2 + 1
    BY <1>5, MajorityOf
  <2> HIDE DEF P, Q
  <2> QED BY <1>2, <1>3, <1>4, <2>1
<1>6. CASE Mem!HasMajority(q, B \cup {n}) /\ n \notin B
  <2>1. Cardinality(B \cup {n}) = Cardinality(B) + 1
    BY <1>1, <1>6, FS_AddElement
  <2>2. Cardinality(q \cap (B \cup {n})) <= Cardinality(Q) + 1
    <3>1. q \cap (B \cup {n}) = Q \/ q \cap (B \cup {n}) = Q \cup {n}
      OBVIOUS
    <3>2. Cardinality(Q \cup {n}) = Cardinality(Q) + 1 \/ Cardinality(Q \cup {n}) = Cardinality(Q)
      BY <1>1, FS_AddElement
    <3>3. Cardinality(Q) \in Nat
      BY <1>2
    <3>4. CASE q \cap (B \cup {n}) = Q
      <4>1. Cardinality(q \cap (B \cup {n})) = Cardinality(Q)
        BY <3>4
      <4> HIDE DEF Q
      <4> QED BY <3>3, <4>1
    <3>5. CASE q \cap (B \cup {n}) = Q \cup {n}
      <4>1. Cardinality(q \cap (B \cup {n})) = Cardinality(Q \cup {n})
        BY <3>5
      <4> HIDE DEF Q
      <4> QED BY <3>2, <3>3, <4>1
    <3> QED BY <3>1, <3>4, <3>5
  <2>3. Cardinality(q \cap (B \cup {n})) >= (Cardinality(B) + 1) \div 2 + 1
    BY <1>6, <2>1, MajorityOf
  <2>4. Cardinality(q \cap (B \cup {n})) \in Nat
    <3>1. IsFiniteSet(q \cap (B \cup {n}))
      BY <1>1, FS_AddElement, FS_Intersection
    <3> QED BY <3>1, FS_CardinalityType
  <2> HIDE DEF P, Q
  <2> QED BY <1>2, <1>3, <1>4, <2>2, <2>3, <2>4
<1>7. CASE n \in B
  <2>1. B \cup {n} = B
    BY <1>7
  <2> QED BY <1>5, <2>1
<1> QED BY <1>5, <1>6, <1>7

LEMMA MeetIsSymmetric ==
  ASSUME NEW c, NEW d, Mem!Meet(c, d)
  PROVE  Mem!Meet(d, c)
BY DEF Mem!Meet

\* Two configurations that need a majority of the same members meet, and two of which
\* one needs it of one node more.
LEMMA CountingMeet ==
  ASSUME Mem!MembershipConstants, NEW c \in Config, NEW d \in Config,
         NEW B \in Members, Counts(c, B), Counts(d, B)
  PROVE  Mem!Meet(c, d)
<1> SUFFICES ASSUME NEW p \in SUBSET Node, NEW q \in SUBSET Node, Mem!Decides(c, p), Mem!Decides(d, q)
             PROVE  p \cap q # {}
  BY DEF Mem!Meet
<1>1. Mem!HasMajority(p, B) /\ Mem!HasMajority(q, B)
  BY DEF Counts, Mem!Decides, Mem!Joint, Members
<1>2. PICK n \in B : n \in Node
  BY DEF Members
<1>3. B \in SUBSET Node
  BY DEF Members
<1> QED BY <1>1, <1>2, <1>3, NearMajoritiesMeet

LEMMA NearMeet ==
  ASSUME Mem!MembershipConstants, NEW c \in Config, NEW d \in Config, NEW B \in Members,
         NEW n \in Node, c.members \in {B, B \cup {n}}, d.members \in {B, B \cup {n}}
  PROVE  Mem!Meet(c, d)
<1>1. CASE c.members = d.members
  <2>1. c.members \in Members /\ Counts(c, c.members) /\ Counts(d, c.members)
    BY <1>1 DEF Config, Counts
  <2> QED BY <2>1, CountingMeet
<1>2. CASE c.members # d.members
  <2> SUFFICES ASSUME NEW p \in SUBSET Node, NEW q \in SUBSET Node,
                      Mem!Decides(c, p), Mem!Decides(d, q)
               PROVE  p \cap q # {}
    BY DEF Mem!Meet
  <2>1. Mem!HasMajority(p, c.members) /\ Mem!HasMajority(q, d.members) /\ B \in SUBSET Node
    BY DEF Mem!Decides, Members
  <2>2. CASE c.members = B /\ d.members = B \cup {n}
    BY <2>1, <2>2, NearMajoritiesMeet
  <2>3. CASE d.members = B /\ c.members = B \cup {n}
    <3>1. q \cap p # {}
      BY <2>1, <2>3, NearMajoritiesMeet
    <3> QED BY <3>1
  <2> QED BY <1>2, <2>2, <2>3
<1> QED BY <1>1, <1>2

-----------------------------------------------------------------------------
(* Changes.                                                                *)

\* A change of a configuration goes through one that counts the members it had.
LEMMA ChangeCounts ==
  ASSUME NEW c \in Config, NEW d \in Mem!Changes(c)
  PROVE  d \in Config /\ d.old = c.members
<1>1. CASE \E n \in Node \ c.members : d = Mem!WithMember(c, n)
  <2>1. PICK n \in Node : d = Mem!WithMember(c, n)
    BY <1>1
  <2>2. c.members \cup {n} \in Members /\ c.members \in SUBSET Node
    BY DEF Config, Members
  <2>3. d = [c EXCEPT !.members = c.members \cup {n}, !.old = c.members]
    BY <2>1 DEF Mem!WithMember
  <2> QED BY <2>2, <2>3 DEF Config
<1>2. CASE \E n \in {m \in c.members : c.members # {m}} : d = Mem!WithoutMember(c, n)
  <2>1. PICK n \in c.members : c.members # {n} /\ d = Mem!WithoutMember(c, n)
    BY <1>2
  <2>2. c.members \ {n} # {} /\ c.members \ {n} \in Members /\ c.members \in SUBSET Node
    BY <2>1 DEF Config, Members
  <2>3. d = [c EXCEPT !.members = c.members \ {n}, !.old = c.members]
    BY <2>1 DEF Mem!WithoutMember
  <2> QED BY <2>2, <2>3 DEF Config
<1> QED BY <1>1, <1>2 DEF Mem!Changes

LEMMA RosterChangeIsNear ==
  ASSUME NEW c \in Config, NEW d \in Mem!RosterChanges(c)
  PROVE  d \in Config /\ d.old = c.old /\ \E n \in Node : d.members \in {c.members, c.members \cup {n}}
<1>1. CASE \E n \in Node \ (c.members \cup c.learners) : d = Mem!WithLearner(c, n)
  BY <1>1 DEF Mem!WithLearner, Config, Members
<1>2. CASE \E n \in c.learners : d = Mem!Promote(c, n)
  BY <1>2 DEF Mem!Promote, Config, Members
<1> QED BY <1>1, <1>2 DEF Mem!RosterChanges

\* One more configuration, which meets the one it was made from.
LEMMA StepMeets ==
  ASSUME NEW c, NEW d, StepsMeet, use' = use \cup {Mem!Step(c, d)}, Mem!Meet(c, d)
  PROVE  StepsMeet'
<1>1. Mem!Step(c, d).config = d /\ Mem!Step(c, d).from = c
  BY DEF Mem!Step
<1>2. \A v \in use \cup {Mem!Step(c, d)} : Mem!Meet(v.from, v.config)
  BY <1>1 DEF StepsMeet
<1> QED BY <1>2 DEF StepsMeet, Mem!Meet, Mem!Decides, Mem!Joint

LEMMA BeginKeeps ==
  ASSUME Mem!MembershipConstants, MembershipInv, NEW u \in use, Mem!Begin(u)
  PROVE  MembershipInv'
<1>1. PICK d \in Mem!Changes(u.config) :
        /\ use' = use \cup {Mem!Step(u.config, d)}
        /\ overlapped' = (overlapped \/ Mem!Joint(u.config))
  BY DEF Mem!Begin
<1>2. kind = "configuration" /\ kind' = kind
  BY DEF Mem!Begin
<1>3. u.config \in Config /\ d \in Config /\ d.old = u.config.members
  BY ChangeCounts DEF MembershipInv, ConfigTypeOK
<1>4. Mem!Step(u.config, d) \in [config : Config, from : Config]
  BY <1>3 DEF Mem!Step
<1>5. ConfigTypeOK'
  BY <1>1, <1>2, <1>4 DEF MembershipInv, ConfigTypeOK
<1>6. Mem!Meet(u.config, d)
  <2>1. Counts(u.config, u.config.members) /\ Counts(d, u.config.members)
        /\ u.config.members \in Members
    BY <1>3 DEF Counts, Config
  <2> QED BY <1>3, <2>1, CountingMeet
<1>7. StepsMeet'
  BY <1>1, <1>6, StepMeets DEF MembershipInv
<1>8. Anchored'
  <2> SUFFICES ASSUME ~overlapped'
               PROVE  \E B \in Members : AllCount(B)'
    BY <1>2 DEF Anchored
  <2>1. ~overlapped /\ u.config.old = {}
    BY <1>1 DEF Mem!Joint, MembershipInv, ConfigTypeOK
  <2>2. PICK B \in Members : AllCount(B)
    BY <1>2, <2>1 DEF MembershipInv, Anchored
  <2>3. u.config.members = B
    BY <2>1, <2>2 DEF AllCount, Counts, Members
  <2>4. Counts(Mem!Step(u.config, d).config, B)
    BY <1>3, <2>3 DEF Counts, Mem!Step
  <2>5. AllCount(B)'
    BY <1>1, <2>2, <2>4 DEF AllCount, Counts
  <2> QED BY <2>5
<1> QED BY <1>5, <1>7, <1>8 DEF MembershipInv

LEMMA SettleKeeps ==
  ASSUME Mem!MembershipConstants, MembershipInv, NEW u \in use, Mem!Settle(u)
  PROVE  MembershipInv'
<1> DEFINE s == Mem!Settled(u.config)
<1>1. use' = {u, Mem!Step(u.config, s)} /\ UNCHANGED <<kind, overlapped>> /\ Mem!Joint(u.config)
  BY DEF Mem!Settle
<1>2. u.config \in Config /\ u.from \in Config /\ u \in [config : Config, from : Config]
  BY DEF MembershipInv, ConfigTypeOK
<1>3. s \in Config /\ s.members = u.config.members /\ s.old = {}
  BY <1>2 DEF Mem!Settled, Config
<1> HIDE DEF s
<1>4. Mem!Step(u.config, s) \in [config : Config, from : Config]
  BY <1>2, <1>3 DEF Mem!Step
<1>5. kind = "configuration"
  BY <1>1 DEF Mem!Joint, MembershipInv, ConfigTypeOK
<1>6. ConfigTypeOK'
  BY <1>1, <1>2, <1>4, <1>5 DEF MembershipInv, ConfigTypeOK
<1>7. /\ u.config.members \in Members
      /\ Counts(u.config, u.config.members) /\ Counts(s, u.config.members)
  BY <1>2, <1>3 DEF Counts, Config
<1>8. Mem!Meet(u.config, s) /\ Mem!Meet(u.from, u.config)
  BY <1>2, <1>3, <1>7, CountingMeet DEF MembershipInv, StepsMeet
<1>9. StepsMeet'
  BY <1>1, <1>8 DEF StepsMeet, Mem!Step, Mem!Meet, Mem!Decides, Mem!Joint
<1>10. AllCount(u.config.members)'
  BY <1>1, <1>7 DEF AllCount, Counts, Mem!Step
<1>11. Anchored'
  BY <1>1, <1>5, <1>7, <1>10 DEF Anchored
<1> QED BY <1>6, <1>9, <1>11 DEF MembershipInv

LEMMA EnrollKeeps ==
  ASSUME Mem!MembershipConstants, MembershipInv, NEW u \in use, Mem!Enroll(u)
  PROVE  MembershipInv'
<1>1. PICK d \in Mem!RosterChanges(u.config) :
        /\ use' = use \cup {Mem!Step(u.config, d)}
        /\ overlapped' = (overlapped \/ \E v \in use : v.config.members # u.config.members)
  BY DEF Mem!Enroll
<1>2. kind = "roster" /\ kind' = kind
  BY DEF Mem!Enroll
<1>3. u.config \in Config /\ u.config.old = {}
  BY <1>2 DEF MembershipInv, ConfigTypeOK
<1>4. PICK n \in Node : d.members \in {u.config.members, u.config.members \cup {n}}
  BY <1>3, RosterChangeIsNear
<1>5. d \in Config /\ d.old = {}
  BY <1>3, RosterChangeIsNear
<1>6. Mem!Step(u.config, d) \in [config : Config, from : Config]
  BY <1>3, <1>5 DEF Mem!Step
<1>7. ConfigTypeOK'
  BY <1>1, <1>2, <1>5, <1>6 DEF MembershipInv, ConfigTypeOK, Mem!Step
<1>8. u.config.members \in Members
  BY <1>3 DEF Config
<1>9. Mem!Meet(u.config, d)
  BY <1>3, <1>4, <1>5, <1>8, NearMeet
<1>10. StepsMeet'
  BY <1>1, <1>9, StepMeets DEF MembershipInv
<1>11. ASSUME ~overlapped' PROVE AllNear(u.config.members, n)'
  <2>1. \A v \in use : v.config.members = u.config.members
    BY <1>1, <1>11
  <2>2. Mem!Step(u.config, d).config.members \in {u.config.members, u.config.members \cup {n}}
    BY <1>4 DEF Mem!Step
  <2>3. \A v \in use \cup {Mem!Step(u.config, d)} :
          v.config.members \in {u.config.members, u.config.members \cup {n}}
    BY <2>1, <2>2
  <2> QED BY <1>1, <2>3 DEF AllNear
<1>12. Anchored'
  BY <1>2, <1>8, <1>11 DEF Anchored
<1> QED BY <1>7, <1>10, <1>12 DEF MembershipInv

LEMMA AdoptKeeps ==
  ASSUME MembershipInv, NEW u \in use, Mem!Adopt(u)
  PROVE  MembershipInv'
<1>1. use' = {u} /\ UNCHANGED <<kind, overlapped>>
  BY DEF Mem!Adopt
<1>2. ConfigTypeOK'
  BY <1>1 DEF MembershipInv, ConfigTypeOK
<1>3. StepsMeet'
  BY <1>1 DEF MembershipInv, StepsMeet, Mem!Meet, Mem!Decides, Mem!Joint
<1>4. \A B : AllCount(B) => AllCount(B)'
  BY <1>1 DEF AllCount, Counts
<1>5. \A B, n : AllNear(B, n) => AllNear(B, n)'
  BY <1>1 DEF AllNear
<1>6. Anchored'
  BY <1>1, <1>4, <1>5 DEF MembershipInv, Anchored
<1> QED BY <1>2, <1>3, <1>6 DEF MembershipInv

LEMMA MembershipInit ==
  ASSUME Mem!MembershipConstants, Mem!Init
  PROVE  MembershipInv
<1>1. PICK members \in Members :
        use = {Mem!Step([members |-> members, old |-> {}, learners |-> {}],
                    [members |-> members, old |-> {}, learners |-> {}])}
  BY DEF Mem!Init, Members
<1> DEFINE c == [members |-> members, old |-> {}, learners |-> {}]
<1>2. c \in Config /\ c.members = members /\ c.old = {}
  BY DEF Config
<1> HIDE DEF c
<1>3. use = {Mem!Step(c, c)}
  BY <1>1 DEF c
<1>4. Mem!Step(c, c) \in [config : Config, from : Config] /\ Mem!Step(c, c).config = c
      /\ Mem!Step(c, c).from = c
  BY <1>2 DEF Mem!Step
<1>5. ConfigTypeOK
  BY <1>2, <1>3, <1>4 DEF Mem!Init, ConfigTypeOK
<1>6. Counts(c, members) /\ AllCount(members)
  BY <1>2, <1>3, <1>4 DEF AllCount, Counts
<1>7. StepsMeet
  BY <1>2, <1>3, <1>4, <1>6, CountingMeet DEF StepsMeet
<1>8. PICK n \in members : n \in Node
  BY DEF Members
<1>9. AllNear(members, n)
  BY <1>2, <1>3, <1>4 DEF AllNear
<1>10. Anchored
  BY <1>6, <1>8, <1>9 DEF Anchored
<1> QED BY <1>5, <1>7, <1>10 DEF MembershipInv

\* What the invariant is for.
LEMMA InvMeets ==
  ASSUME Mem!MembershipConstants, MembershipInv
  PROVE  Mem!NobodyDecidesApart
<1> SUFFICES ASSUME NEW u \in use, NEW v \in use, ~overlapped \/ v.config = u.from
             PROVE  Mem!Meet(u.config, v.config)
  BY DEF Mem!NobodyDecidesApart
<1>1. u.config \in Config /\ v.config \in Config
  BY DEF MembershipInv, ConfigTypeOK
<1>2. CASE v.config = u.from
  BY <1>2, MeetIsSymmetric DEF MembershipInv, StepsMeet
<1>3. CASE ~overlapped /\ kind = "configuration"
  <2>1. PICK B \in Members : AllCount(B)
    BY <1>3 DEF MembershipInv, Anchored
  <2> QED BY <1>1, <2>1, CountingMeet DEF AllCount
<1>4. CASE ~overlapped /\ kind = "roster"
  <2>1. PICK B \in Members, n \in Node : AllNear(B, n)
    BY <1>4 DEF MembershipInv, Anchored
  <2> QED BY <1>1, <2>1, NearMeet DEF AllNear
<1> QED BY <1>2, <1>3, <1>4 DEF MembershipInv, ConfigTypeOK

\* What the arithmetic rests on: in any set there is room for two disjoint ones whose
\* sizes add up to no more than its own.
Part(f, a, b) == {f[i] : i \in a..b}

LEMMA PartSize ==
  ASSUME NEW X, NEW n \in Nat, NEW f \in Bijection(1..n, X),
         NEW a \in 1..(n + 1), NEW b \in 0..n
  PROVE  Part(f, a, b) \subseteq X /\ Cardinality(Part(f, a, b)) = IF a > b THEN 0 ELSE b - a + 1
<1> DEFINE Y == Part(f, a, b)
           g == [i \in a..b |-> f[i]]
<1>1. a..b \subseteq 1..n
  OBVIOUS
<1>2. f \in [1..n -> X] /\ \A i, j \in 1..n : f[i] = f[j] => i = j
  BY DEF Bijection, Injection, IsInjective
<1>3. g \in Bijection(a..b, Y)
  BY <1>1, <1>2 DEF Bijection, Injection, Surjection, IsInjective, Part
<1>4. ExistsBijection(a..b, Y)
  BY <1>3 DEF ExistsBijection
<1>5. Cardinality(Y) = Cardinality(a..b)
  BY <1>4, FS_Bijection, FS_Interval
<1>6. Y \subseteq X
  BY <1>1, <1>2 DEF Part
<1> HIDE DEF Y
<1>7. Cardinality(Y) = IF a > b THEN 0 ELSE b - a + 1
  BY <1>5, FS_Interval
<1> QED BY <1>6, <1>7 DEF Y

LEMMA RoomForTwo ==
  ASSUME NEW X, IsFiniteSet(X), NEW e \in Nat, NEW k \in Nat, e + k <= Cardinality(X)
  PROVE  Mem!Disjoint(X, e, k) # {}
<1> DEFINE n == Cardinality(X)
<1>1. n \in Nat /\ ExistsBijection(1..n, X)
  BY FS_CardinalityType
<1>2. PICK f \in Bijection(1..n, X) : TRUE
  BY <1>1 DEF ExistsBijection
<1> DEFINE A == Part(f, 1, e)
           B == Part(f, e + 1, e + k)
<1>8. A = {f[i] : i \in 1..e} /\ B = {f[i] : i \in (e + 1)..(e + k)}
  BY DEF Part
<1> HIDE DEF n, A, B
<1>3. 1 \in 1..(n + 1) /\ e \in 0..n /\ e + 1 \in 1..(n + 1) /\ e + k \in 0..n
  BY <1>1 DEF n
<1>4. A \subseteq X /\ Cardinality(A) = e
  <2>1. Cardinality(A) = (IF 1 > e THEN 0 ELSE e - 1 + 1) /\ A \subseteq X
    BY <1>1, <1>2, <1>3, PartSize DEF A
  <2> QED BY <2>1
<1>5. B \subseteq X /\ Cardinality(B) = k
  <2>1. (e + k) - (e + 1) + 1 = k /\ (e + 1 > e + k => k = 0)
    OBVIOUS
  <2>2. /\ Cardinality(B) = IF e + 1 > e + k THEN 0 ELSE (e + k) - (e + 1) + 1
        /\ B \subseteq X
    BY <1>1, <1>2, <1>3, PartSize DEF B
  <2> QED BY <2>1, <2>2
<1>6. A \cap B = {}
  <2> SUFFICES ASSUME NEW i \in 1..e, NEW j \in (e + 1)..(e + k), f[i] = f[j]
               PROVE  FALSE
    BY <1>8
  <2>1. i \in 1..n /\ j \in 1..n /\ i # j
    BY <1>1, <1>3
  <2> QED BY <2>1 DEF Bijection, Injection, IsInjective
<1>7. <<A, B>> \in Mem!Disjoint(X, e, k)
  BY <1>4, <1>5, <1>6, SameSize DEF Mem!Disjoint
<1> QED BY <1>7

\* And no room if the sizes add up to more.
LEMMA NoRoomForTwo ==
  ASSUME NEW X, IsFiniteSet(X), NEW e \in Nat, NEW k \in Nat, e + k > Cardinality(X)
  PROVE  Mem!Disjoint(X, e, k) = {}
<1> SUFFICES ASSUME NEW pair \in Mem!Disjoint(X, e, k) PROVE FALSE
  OBVIOUS
<1>1. /\ pair[1] \subseteq X /\ pair[2] \subseteq X
      /\ Cardinality(pair[1]) = e /\ Cardinality(pair[2]) = k
      /\ pair[1] \cap pair[2] = {}
  BY SameSize DEF Mem!Disjoint
<1> QED BY <1>1, FS_MajoritiesIntersect

\* The rule of quorum.py is exact, for members of any number: it asks that the two sizes
\* add up to more than the cluster, which is so if and only if no election quorum and
\* no commit quorum are disjoint; the majority is the smallest size that meets itself,
\* and fewer than a majority may be lost.
LEMMA RuleHolds ==
  ASSUME Mem!MembershipConstants, MembershipInv
  PROVE  Mem!RuleIsExact
<1> SUFFICES ASSUME NEW u \in use
             PROVE  LET n == Mem!Cardinality(u.config.members) IN
                      /\ \A e, k \in 1..n :
                           Mem!Intersects(n, e, k) <=>
                             Mem!Disjoint(u.config.members, e, k) = {}
                      /\ \A e \in 1..n : Mem!Intersects(n, e, e) => Mem!Majority(n) <= e
                      /\ Mem!Tolerates(n) < Mem!Majority(n)
  BY DEF Mem!RuleIsExact
<1> DEFINE X == u.config.members
           n == Mem!Cardinality(X)
<1>1. IsFiniteSet(X)
  <2>1. X \subseteq Node
    BY DEF MembershipInv, ConfigTypeOK, Config, Members
  <2> QED BY <2>1, SameFinite, FS_Subset DEF Mem!MembershipConstants
<1>2. n = Cardinality(X) /\ n \in Nat
  BY <1>1, SameSize, FS_CardinalityType
<1> HIDE DEF X, n
<1>3. ASSUME NEW e \in 1..n, NEW k \in 1..n
      PROVE  e + k > n <=> Mem!Disjoint(X, e, k) = {}
  <2>1. e \in Nat /\ k \in Nat
    BY <1>2
  <2>2. CASE e + k > n
    BY <1>1, <1>2, <2>1, <2>2, NoRoomForTwo
  <2>3. CASE ~(e + k > n)
    <3>1. e + k <= Cardinality(X)
      BY <1>2, <2>1, <2>3
    <3> QED BY <1>1, <2>1, <2>3, <3>1, RoomForTwo
  <2> QED BY <2>2, <2>3
<1>4. \A e \in 1..n : e + e > n => n \div 2 + 1 <= e
  BY <1>2
<1>5. n - (n \div 2 + 1) < n \div 2 + 1
  BY <1>2
<1>6. /\ \A e, k \in 1..n : Mem!Intersects(n, e, k) <=> Mem!Disjoint(X, e, k) = {}
      /\ \A e \in 1..n : Mem!Intersects(n, e, e) => Mem!Majority(n) <= e
      /\ Mem!Tolerates(n) < Mem!Majority(n)
  BY <1>3, <1>4, <1>5 DEF Mem!Intersects, Mem!Majority, Mem!Tolerates
<1> QED BY <1>6 DEF X, n

LEMMA MembershipKeeps == Spec => []MembershipInv
<1>1. Mem!MembershipConstants
  BY ServicesAssumption
<1>2. Mem!Init => MembershipInv
  BY <1>1, MembershipInit
<1>3. MembershipInv /\ [Mem!Next]_Mem!vars => MembershipInv'
  <2> SUFFICES ASSUME MembershipInv, [Mem!Next]_Mem!vars
               PROVE  MembershipInv'
    OBVIOUS
  <2>1. ASSUME NEW u \in use,
               Mem!Begin(u) \/ Mem!Settle(u) \/ Mem!Enroll(u) \/ Mem!Adopt(u)
        PROVE  MembershipInv'
    BY <1>1, <2>1, BeginKeeps, SettleKeeps, EnrollKeeps, AdoptKeeps
  <2>2. CASE UNCHANGED Mem!vars
    BY <2>2 DEF Mem!vars, MembershipInv, ConfigTypeOK, StepsMeet, Anchored, AllCount, AllNear,
                Counts, Mem!Meet, Mem!Decides, Mem!Joint
  <2> QED BY <2>1, <2>2 DEF Mem!Next
<1> QED BY <1>2, <1>3, MembershipMoves, PTL DEF Mem!Spec

\* Configurations decide together: of any nodes and any number of configurations in
\* use, rival changes included, two never decide apart unless one change was begun
\* inside another, and not even then if one of the two was made from the other.
THEOREM DecisionsMeet == Spec => []NobodyDecidesApart
<1>1. MembershipInv => NobodyDecidesApart
  BY ServicesAssumption, InvMeets DEF NobodyDecidesApart
<1> QED BY <1>1, MembershipKeeps, PTL

\* At every size that a cluster passes through, of any number of nodes, the rule of
\* quorum.py holds exactly when no two quorums are disjoint.
THEOREM QuorumRuleIsExact == Spec => []RuleIsExact
<1>1. MembershipInv => RuleIsExact
  BY ServicesAssumption, RuleHolds DEF RuleIsExact
<1> QED BY <1>1, MembershipKeeps, PTL

-----------------------------------------------------------------------------
(* The network.                                                            *)

\* A behaviour of the services is one of the network.
LEMMA NetworkMoves == Spec => Net!Spec
<1>1. Init => Net!Init
  BY DEF Init
<1>2. [Next]_vars => [Net!Next]_Net!vars
  BY DEF Next, vars, links, Net!vars
<1> QED BY <1>1, <1>2, PTL DEF Spec, Net!Spec

InFlight == [message : Net!Message, sentAt : Nat, dueAt : Nat, sequence : Nat]

\* A message has the number and the delay that it was given when it was sent.
IsSent(f) ==
  /\ 1 <= f.sequence /\ f.sequence <= sequence
  /\ f.sentAt + conditions[1] <= f.dueAt /\ f.dueAt <= f.sentAt + conditions[2]

\* What was handed over before another was due before it, or sent before it.
InOrder ==
  \A i, j \in 1..Len(delivered) : i < j =>
    \/ delivered[i].sequence < delivered[j].sequence
    \/ delivered[i].dueAt < delivered[j].dueAt

NetInv ==
  /\ conditions \in Delays
  /\ hour \in Nat /\ sequence \in Nat /\ dropped \in Nat
  /\ IsFiniteSet(flight) /\ flight \subseteq InFlight
  /\ delivered \in Seq(InFlight)
  /\ \A f \in flight : IsSent(f) /\ hour < f.dueAt
  /\ \A i \in 1..Len(delivered) : IsSent(delivered[i]) /\ delivered[i].dueAt <= hour
  /\ InOrder
  /\ sequence = dropped + Len(delivered) + Cardinality(flight)

LEMMA TheSameCount ==
  ASSUME NEW S
  PROVE  Net!Cardinality(S) = Cardinality(S) /\ Net!C!Cardinality(S) = Cardinality(S)
BY DEF Net!Cardinality, Net!C!Cardinality, Cardinality

LEMMA DelaysAre ==
  ASSUME conditions \in Delays
  PROVE  /\ conditions[1] \in Nat /\ conditions[2] \in Nat
         /\ 1 <= conditions[1] /\ conditions[1] <= conditions[2]
BY ServicesAssumption DEF Net!NetworkConstants

LEMMA NetInit == Net!Init => NetInv
<1> SUFFICES ASSUME Net!Init PROVE NetInv
  OBVIOUS
<1>1. flight = {} /\ delivered = << >> /\ Len(delivered) = 0
  BY EmptySeq DEF Net!Init
<1>2. IsFiniteSet(flight) /\ Cardinality(flight) = 0
  BY <1>1, FS_EmptySet
<1>3. delivered \in Seq(InFlight)
  BY <1>1, EmptySeq
<1> QED BY <1>1, <1>2, <1>3 DEF Net!Init, NetInv, InOrder

\* How far apart two messages were sent of which the first is due before the second.
LEMMA Spread ==
  ASSUME NEW s \in Nat, NEW d \in Nat, NEW t \in Nat, NEW e \in Nat,
         NEW short \in Nat, NEW long \in Nat,
         s + short <= d, d < e, e <= t + long
  PROVE  s - t < long - short
OBVIOUS

\* What the invariant says of the clock and the deliveries is what InTime says.
LEMMA InvInTime == NetInv => Net!InTime
<1> SUFFICES ASSUME NetInv PROVE Net!InTime
  OBVIOUS
<1>1. sequence = dropped + Len(delivered) + Net!Cardinality(flight)
  BY TheSameCount DEF NetInv
<1>2. \A f \in flight : hour < f.dueAt
  BY DEF NetInv
<1>3. ASSUME NEW i \in 1..Len(delivered), NEW j \in 1..Len(delivered),
             i < j, delivered[j].sequence < delivered[i].sequence
      PROVE  delivered[i].sentAt - delivered[j].sentAt < conditions[2] - conditions[1]
  <2> DEFINE a == delivered[i]
             b == delivered[j]
  <2>1. a \in InFlight /\ b \in InFlight
    BY ElementOfSeq DEF NetInv
  <2>2. /\ a.sentAt \in Nat /\ a.dueAt \in Nat /\ a.sequence \in Nat
        /\ b.sentAt \in Nat /\ b.dueAt \in Nat /\ b.sequence \in Nat
    BY <2>1 DEF InFlight
  <2>3. a.dueAt < b.dueAt
    BY <1>3, <2>2 DEF NetInv, InOrder
  <2>4. a.sentAt + conditions[1] <= a.dueAt /\ b.dueAt <= b.sentAt + conditions[2]
    BY DEF NetInv, IsSent
  <2>5. conditions[1] \in Nat /\ conditions[2] \in Nat
    BY DelaysAre DEF NetInv
  <2> HIDE DEF a, b
  <2>6. a.sentAt - b.sentAt < conditions[2] - conditions[1]
    BY <2>2, <2>3, <2>4, <2>5, Spread
  <2> QED BY <2>6 DEF a, b
<1>4. DOMAIN delivered = 1..Len(delivered)
  BY LenProperties DEF NetInv
<1> QED BY <1>1, <1>2, <1>3, <1>4 DEF Net!InTime

-----------------------------------------------------------------------------

\* A set in a sequence without repetition: each part of it as often as it has elements.
LEMMA EachIsOnce ==
  ASSUME NEW S, IsFiniteSet(S), NEW b \in Net!SetToSeqs(S), NEW T \in SUBSET S
  PROVE  /\ b \in Seq(S) /\ Len(b) = Cardinality(S)
         /\ Cardinality({i \in 1..Len(b) : b[i] \in T}) = Cardinality(T)
<1> DEFINE n == Cardinality(S)
<1>1. n \in Nat
  BY FS_CardinalityType
<1>2. b \in [1..n -> S] /\ \A i, j \in 1..n : i # j => b[i] # b[j]
  BY TheSameCount DEF Net!SetToSeqs
<1>3. b \in Seq(S) /\ Len(b) = n
  BY <1>1, <1>2, SeqDef, LenProperties
<1>4. b \in Injection(1..n, S)
  BY <1>2 DEF Injection, IsInjective
<1>5. Cardinality(1..n) = n /\ IsFiniteSet(1..n)
  BY <1>1, FS_Interval
<1>6. b \in Surjection(1..n, S)
  BY <1>4, <1>5, FS_Injection
<1> DEFINE J == {i \in 1..n : b[i] \in T}
           g == [i \in J |-> b[i]]
<1>7. IsFiniteSet(J)
  BY <1>5, FS_Subset
<1>8. g \in Bijection(J, T)
  <2>1. g \in [J -> T] /\ \A i, j \in J : g[i] = g[j] => i = j
    BY <1>2
  <2>2. \A t \in T : \E i \in J : g[i] = t
    BY <1>6 DEF Surjection
  <2> QED BY <2>1, <2>2 DEF Bijection, Injection, Surjection, IsInjective
<1>9. Cardinality(T) = Cardinality(J)
  BY <1>7, <1>8, FS_Bijection DEF ExistsBijection
<1> QED BY <1>3, <1>9

Messages(s) == [i \in DOMAIN s |-> s[i].message]

LEMMA MessagesAre ==
  ASSUME NEW s \in Seq(InFlight)
  PROVE  /\ Messages(s) \in Seq(Net!Message) /\ Len(Messages(s)) = Len(s)
         /\ \A i \in 1..Len(s) : Messages(s)[i] = s[i].message
<1>1. Len(s) \in Nat /\ DOMAIN s = 1..Len(s) /\ \A i \in 1..Len(s) : s[i] \in InFlight
  BY LenProperties, ElementOfSeq
<1>2. Messages(s) \in [1..Len(s) -> Net!Message]
  BY <1>1 DEF Messages, InFlight
<1>3. Messages(s) \in Seq(Net!Message)
  BY <1>1, <1>2, SeqDef
<1>4. Len(Messages(s)) = Len(s)
  BY <1>1, <1>2, <1>3, LenProperties
<1> QED BY <1>1, <1>3, <1>4 DEF Messages

\* What a tick adds to the messages handed over.
LEMMA MessagesAdded ==
  ASSUME NEW s \in Seq(InFlight), NEW b \in Seq(InFlight)
  PROVE  /\ Net!C!IsPrefix(Messages(s), Messages(s \o b))
         /\ SubSeq(Messages(s \o b), Len(Messages(s)) + 1, Len(Messages(s \o b))) = Messages(b)
<1> DEFINE c == s \o b
           k == Len(s)
           n == Len(b)
<1>1. k \in Nat /\ n \in Nat
  BY LenProperties
<1>2. /\ c \in Seq(InFlight) /\ Len(c) = k + n
      /\ \A i \in 1..(k + n) : c[i] = IF i <= k THEN s[i] ELSE b[i - k]
  BY ConcatProperties
<1> HIDE DEF c
<1> DEFINE t == Messages(c)
           r == Messages(s)
           q == Messages(b)
<1>3. /\ t \in Seq(Net!Message) /\ Len(t) = k + n
      /\ \A i \in 1..(k + n) : t[i] = c[i].message
  BY <1>2, MessagesAre
<1>4. /\ r \in Seq(Net!Message) /\ Len(r) = k
      /\ \A i \in 1..k : r[i] = s[i].message
  BY MessagesAre
<1>5. /\ q \in Seq(Net!Message) /\ Len(q) = n
      /\ \A i \in 1..n : q[i] = b[i].message
  BY MessagesAre
<1> HIDE DEF t, r, q, k, n
<1>6. \A i \in 1..k : t[i] = r[i]
  BY <1>1, <1>2, <1>3, <1>4
<1>7. ASSUME NEW i \in 1..n
      PROVE  t[k + i] = q[i]
  <2>1. k + i \in 1..(k + n) /\ ~(k + i <= k) /\ (k + i) - k = i
    BY <1>1
  <2>2. c[k + i] = b[i]
    BY <1>2, <2>1
  <2> QED BY <1>3, <1>5, <2>1, <2>2
<1>8. SubSeq(r, 1, k) = SubSeq(t, 1, k)
  <2>1. SubSeq(r, 1, k) = [i \in 1..k |-> r[i]]
    BY <1>1, <1>4, SubSeqProperties
  <2>2. SubSeq(t, 1, k) = [i \in 1..k |-> t[i]]
    BY <1>1, <1>3, SubSeqProperties
  <2> QED BY <1>6, <2>1, <2>2
<1>9. SubSeq(t, k + 1, k + n) = q
  <2> DEFINE u == SubSeq(t, k + 1, k + n)
  <2>1. u \in Seq(Net!Message) /\ Len(u) = n /\ \A i \in 1..n : u[i] = t[k + i]
    BY <1>1, <1>3, SubSeqProperties
  <2> HIDE DEF u
  <2>2. u = q
    BY <1>5, <1>7, <2>1, SeqEqual
  <2> QED BY <2>2 DEF u
<1> QED BY <1>1, <1>3, <1>4, <1>8, <1>9 DEF Net!C!IsPrefix, c, t, r, q

-----------------------------------------------------------------------------

\* What is under way, message by message.
Wire(m) == {f \in flight : f.message = m}

LEMMA WiresAre ==
  ASSUME NetInv
  PROVE  \A m \in Net!Message : IsFiniteSet(Wire(m)) /\ Cardinality(Wire(m)) \in Nat
BY FS_Subset, FS_CardinalityType DEF Wire, NetInv

\* A message that is reachable enters the channel.
LEMMA SendKeeps ==
  ASSUME NetInv, NEW m \in Net!Message, Net!Send(m)
  PROVE  NetInv' /\ [Net!C!Next]_<<[x \in Net!Message |-> Net!Cardinality(Wire(x))], Messages(delivered)>>
<1>1. /\ sequence' = sequence + 1 /\ sequence \in Nat /\ hour \in Nat /\ dropped \in Nat
      /\ UNCHANGED <<conditions, hour, delivered>>
      /\ conditions \in Delays
      /\ delivered \in Seq(InFlight) /\ Len(delivered) \in Nat
      /\ IsFiniteSet(flight) /\ flight \subseteq InFlight
      /\ Cardinality(flight) \in Nat
      /\ sequence = dropped + Len(delivered) + Cardinality(flight)
  BY FS_CardinalityType, LenProperties DEF NetInv, Net!Send
<1>2. conditions[1] \in Nat /\ conditions[2] \in Nat /\ 1 <= conditions[1] /\ conditions[1] <= conditions[2]
  BY <1>1, DelaysAre
<1>3. InOrder'
  BY <1>1 DEF NetInv, InOrder
<1>4. ASSUME NEW f \in InFlight, IsSent(f)
      PROVE  IsSent(f)'
  BY <1>1, <1>4 DEF IsSent, InFlight
<1>5. \A i \in 1..Len(delivered) : delivered[i] \in InFlight
  BY <1>1, ElementOfSeq
<1>6. \A i \in 1..Len(delivered') : IsSent(delivered[i])' /\ delivered'[i].dueAt <= hour'
  BY <1>1, <1>4, <1>5 DEF NetInv
<1>7. CASE dropped' = dropped + 1 /\ flight' = flight
  <2>1. \A f \in flight' : IsSent(f)' /\ hour' < f.dueAt
    BY <1>1, <1>4, <1>7 DEF NetInv
  <2>2. NetInv'
    BY <1>1, <1>3, <1>6, <1>7, <2>1 DEF NetInv
  <2> QED BY <1>1, <1>7, <2>2 DEF Wire, Messages
<1>8. ASSUME NEW delay \in conditions[1]..conditions[2],
             dropped' = dropped,
             flight' = flight \cup {[message |-> m, sentAt |-> hour, dueAt |-> hour + delay,
                                     sequence |-> sequence + 1]}
      PROVE  NetInv' /\ Net!C!Send(m)
  <2> PICK new : new = [message |-> m, sentAt |-> hour, dueAt |-> hour + delay, sequence |-> sequence + 1]
    OBVIOUS
  <2>0. delay \in Nat /\ 1 <= delay /\ conditions[1] <= delay /\ delay <= conditions[2]
    BY <1>2
  <2>1. new \in InFlight /\ IsSent(new)' /\ hour < new.dueAt
    <3>1. new \in InFlight
      BY <1>1, <2>0 DEF InFlight
    <3>2. IsSent(new)'
      BY <1>1, <1>2, <2>0 DEF IsSent
    <3> QED BY <1>1, <2>0, <3>1, <3>2
  <2>2. new \notin flight
    BY <1>1 DEF NetInv, IsSent
  <2>3. IsFiniteSet(flight') /\ Cardinality(flight') = Cardinality(flight) + 1
    BY <1>1, <1>8, <2>2, FS_AddElement
  <2>4. \A f \in flight' : IsSent(f)' /\ hour' < f.dueAt
    <3> TAKE f \in flight'
    <3>1. CASE f = new
      BY <1>1, <2>1, <3>1
    <3>2. CASE f \in flight
      BY <1>1, <1>4, <3>2 DEF NetInv
    <3> QED BY <1>8, <3>1, <3>2
  <2>5. flight' \subseteq InFlight
    BY <1>1, <1>8, <2>1
  <2>6. NetInv'
    BY <1>1, <1>3, <1>6, <1>8, <2>3, <2>4, <2>5 DEF NetInv
  <2>7. ASSUME NEW x \in Net!Message
        PROVE  Cardinality(Wire(x))' = IF x = m THEN Cardinality(Wire(x)) + 1 ELSE Cardinality(Wire(x))
    <3>1. CASE x = m
      <4>1. Wire(x)' = Wire(x) \cup {new} /\ new \notin Wire(x)
        BY <1>8, <2>2, <3>1 DEF Wire
      <4> QED BY <3>1, <4>1, WiresAre, FS_AddElement
    <3>2. CASE x # m
      <4>1. Wire(x)' = Wire(x)
        BY <1>8, <3>2 DEF Wire
      <4> QED BY <3>2, <4>1
    <3> QED BY <3>1, <3>2
  <2>8. Net!C!Send(m)
    BY <1>1, <2>7, TheSameCount DEF Net!C!Send, Wire
  <2> QED BY <2>6, <2>8
<1> QED BY <1>7, <1>8 DEF Net!Send, Net!C!Next

LEMMA AddedPlace ==
  ASSUME NEW k \in Nat, NEW n \in Nat, NEW x \in 1..(k + n), ~(x <= k)
  PROVE  x - k \in 1..n
OBVIOUS

\* What is due is what the tick takes from the channel.
LEMMA TickKeeps ==
  ASSUME NetInv, Net!Tick
  PROVE  NetInv' /\ Net!C!Land
<1>1. PICK b \in Net!SetToSeqs(Net!Due) :
        /\ \A i, j \in DOMAIN b : i < j => b[i].sequence < b[j].sequence
        /\ delivered' = delivered \o b
  BY DEF Net!Tick
<1>2. /\ hour' = hour + 1 /\ flight' = flight \ Net!Due
      /\ UNCHANGED <<conditions, sequence, dropped>>
  BY DEF Net!Tick
<1>3. /\ sequence \in Nat /\ hour \in Nat /\ dropped \in Nat /\ conditions \in Delays
      /\ delivered \in Seq(InFlight) /\ Len(delivered) \in Nat
      /\ IsFiniteSet(flight) /\ flight \subseteq InFlight /\ Cardinality(flight) \in Nat
      /\ sequence = dropped + Len(delivered) + Cardinality(flight)
  BY FS_CardinalityType, LenProperties DEF NetInv
<1>4. /\ Net!Due \subseteq flight /\ Net!Due \subseteq InFlight
      /\ IsFiniteSet(Net!Due) /\ Cardinality(Net!Due) \in Nat
  BY <1>3, FS_Subset, FS_CardinalityType DEF Net!Due
<1>5. /\ b \in Seq(Net!Due) /\ Len(b) = Cardinality(Net!Due)
      /\ \A T \in SUBSET Net!Due : Cardinality({i \in 1..Len(b) : b[i] \in T}) = Cardinality(T)
  <2>1. ASSUME NEW T \in SUBSET Net!Due
        PROVE  /\ b \in Seq(Net!Due) /\ Len(b) = Cardinality(Net!Due)
               /\ Cardinality({i \in 1..Len(b) : b[i] \in T}) = Cardinality(T)
    BY <1>4, EachIsOnce
  <2> QED BY <2>1
<1>6. /\ DOMAIN b = 1..Len(b) /\ \A i \in 1..Len(b) : b[i] \in Net!Due
      /\ b \in Seq(InFlight)
  <2>1. DOMAIN b = 1..Len(b) /\ \A i \in 1..Len(b) : b[i] \in Net!Due
    BY <1>5, LenProperties, ElementOfSeq
  <2>2. b \in [1..Len(b) -> InFlight]
    BY <1>4, <1>5, <2>1, LenProperties
  <2>3. b \in Seq(InFlight)
    BY <1>4, <1>5, <2>2, SeqDef
  <2> QED BY <2>1, <2>3
<1>7. /\ delivered' \in Seq(InFlight) /\ Len(delivered') = Len(delivered) + Len(b)
      /\ \A i \in 1..(Len(delivered) + Len(b)) :
           delivered'[i] = IF i <= Len(delivered) THEN delivered[i] ELSE b[i - Len(delivered)]
  BY <1>1, <1>3, <1>6, ConcatProperties
<1> QED
  <2>1. NetInv'
    <3>1. IsFiniteSet(flight') /\ Cardinality(flight') = Cardinality(flight) - Cardinality(Net!Due)
      <4>1. flight \cap Net!Due = Net!Due
        BY <1>4
      <4>2. /\ IsFiniteSet(flight \ Net!Due)
            /\ Cardinality(flight \ Net!Due) = Cardinality(flight) - Cardinality(flight \cap Net!Due)
        BY <1>3, FS_Difference
      <4> QED BY <1>2, <4>1, <4>2
    <3>2. \A f \in flight' : IsSent(f)' /\ hour' < f.dueAt
      <4> TAKE f \in flight'
      <4>1. f \in flight /\ f \notin Net!Due /\ f \in InFlight
        BY <1>2, <1>3
      <4>2. ~(f.dueAt <= hour + 1) /\ f.dueAt \in Nat
        BY <4>1 DEF Net!Due, InFlight
      <4> QED BY <1>2, <1>3, <4>1, <4>2 DEF NetInv, IsSent
    <3>3. \A i \in 1..Len(b) : IsSent(b[i]) /\ hour < b[i].dueAt /\ b[i].dueAt <= hour + 1
      BY <1>4, <1>6 DEF Net!Due, NetInv
    <3>4. ASSUME NEW i \in 1..Len(delivered')
          PROVE  IsSent(delivered[i])' /\ delivered'[i].dueAt <= hour'
      <4>0. Len(b) \in Nat
        BY <1>4, <1>5
      <4>1. CASE i <= Len(delivered)
        <5>1. i \in 1..Len(delivered) /\ delivered'[i] = delivered[i] /\ delivered[i] \in InFlight
          BY <1>3, <1>7, <4>0, <4>1, ElementOfSeq
        <5>2. IsSent(delivered[i]) /\ delivered[i].dueAt <= hour /\ delivered[i].dueAt \in Nat
          BY <5>1 DEF NetInv, InFlight
        <5> QED BY <1>2, <1>3, <5>1, <5>2 DEF IsSent
      <4>2. CASE ~(i <= Len(delivered))
        <5>1. i - Len(delivered) \in 1..Len(b) /\ delivered'[i] = b[i - Len(delivered)]
          <6>1. i - Len(delivered) \in 1..Len(b)
            BY <1>3, <1>7, <4>0, <4>2, AddedPlace
          <6> QED BY <1>7, <4>2, <6>1
        <5> QED BY <1>2, <3>3, <5>1 DEF IsSent
      <4> QED BY <4>1, <4>2
    <3>5. InOrder'
      <4> SUFFICES ASSUME NEW i \in 1..Len(delivered'), NEW j \in 1..Len(delivered'), i < j
                   PROVE  \/ delivered'[i].sequence < delivered'[j].sequence
                          \/ delivered'[i].dueAt < delivered'[j].dueAt
        BY DEF InOrder
      <4>0. Len(b) \in Nat
        BY <1>4, <1>5
      <4>4. ASSUME NEW x \in {i, j}
            PROVE  /\ x <= Len(delivered) =>
                        x \in 1..Len(delivered) /\ delivered'[x] = delivered[x]
                   /\ ~(x <= Len(delivered)) =>
                        /\ x - Len(delivered) \in 1..Len(b)
                        /\ delivered'[x] = b[x - Len(delivered)]
        <5>1. x \in 1..(Len(delivered) + Len(b))
          BY <1>7
        <5>2. x <= Len(delivered) => x \in 1..Len(delivered)
          BY <1>3, <5>1
        <5>3. ~(x <= Len(delivered)) => x - Len(delivered) \in 1..Len(b)
          BY <1>3, <4>0, <5>1, AddedPlace
        <5> QED BY <1>7, <5>1, <5>2, <5>3
      <4>1. CASE j <= Len(delivered)
        <5>0. i <= Len(delivered)
          BY <1>3, <1>7, <4>0, <4>1
        <5>1. i \in 1..Len(delivered) /\ j \in 1..Len(delivered)
          BY <4>1, <4>4, <5>0
        <5>2. delivered'[i] = delivered[i] /\ delivered'[j] = delivered[j]
          BY <4>1, <4>4, <5>0
        <5> QED BY <5>1, <5>2 DEF NetInv, InOrder
      <4>2. CASE i <= Len(delivered) /\ ~(j <= Len(delivered))
        <5>1. /\ i \in 1..Len(delivered) /\ delivered'[i] = delivered[i]
              /\ j - Len(delivered) \in 1..Len(b) /\ delivered'[j] = b[j - Len(delivered)]
          BY <4>4, <4>2
        <5>2. delivered[i].dueAt <= hour /\ hour < b[j - Len(delivered)].dueAt
          BY <3>3, <5>1 DEF NetInv
        <5>3. delivered[i].dueAt \in Nat /\ b[j - Len(delivered)].dueAt \in Nat
          <6>1. delivered[i] \in InFlight /\ b[j - Len(delivered)] \in InFlight
            BY <1>3, <1>4, <1>6, <5>1, ElementOfSeq
          <6> QED BY <6>1 DEF InFlight
        <5>4. delivered[i].dueAt < b[j - Len(delivered)].dueAt
          <6> DEFINE early == delivered[i].dueAt
                     late == b[j - Len(delivered)].dueAt
          <6>1. early \in Nat /\ late \in Nat /\ early <= hour /\ hour < late /\ hour \in Nat
            BY <1>3, <5>2, <5>3
          <6> HIDE DEF early, late
          <6>2. early < late
            BY <6>1
          <6> QED BY <6>2 DEF early, late
        <5> QED BY <5>1, <5>4
      <4>3. CASE ~(i <= Len(delivered))
        <5>1. /\ i - Len(delivered) \in 1..Len(b) /\ delivered'[i] = b[i - Len(delivered)]
              /\ j - Len(delivered) \in 1..Len(b) /\ delivered'[j] = b[j - Len(delivered)]
              /\ i - Len(delivered) < j - Len(delivered)
          <6>1. ~(j <= Len(delivered)) /\ i - Len(delivered) < j - Len(delivered)
            BY <1>3, <1>7, <4>0, <4>3
          <6> QED BY <4>3, <4>4, <6>1
        <5> QED BY <1>1, <1>6, <5>1
      <4> QED BY <1>3, <4>1, <4>2, <4>3
    <3>6. sequence' = dropped' + Len(delivered') + Cardinality(flight')
      BY <1>2, <1>3, <1>4, <1>5, <1>7, <3>1
    <3>7. flight' \subseteq InFlight
      BY <1>2, <1>3
    <3> QED BY <1>2, <1>3, <1>7, <3>1, <3>2, <3>4, <3>5, <3>6, <3>7 DEF NetInv
  <2>2. Net!C!Land
    <3>1. /\ Net!C!IsPrefix(Messages(delivered), Messages(delivered'))
          /\ SubSeq(Messages(delivered'), Len(Messages(delivered)) + 1, Len(Messages(delivered'))) = Messages(b)
      BY <1>1, <1>3, <1>6, MessagesAdded
    <3>2. /\ Messages(b) \in Seq(Net!Message) /\ Len(Messages(b)) = Len(b)
          /\ \A i \in 1..Len(b) : Messages(b)[i] = b[i].message
      BY <1>6, MessagesAre
    <3>3. DOMAIN Messages(b) = 1..Len(b)
      BY <1>6 DEF Messages
    <3>4. Net!C!ToSet(Messages(b)) \subseteq Net!Message
      BY <3>2, <3>3, ElementOfSeq DEF Net!C!ToSet
    <3>5. ASSUME NEW m \in Net!Message
          PROVE  /\ Net!C!Copies(m, Messages(b)) \in Nat
                 /\ Net!C!Copies(m, Messages(b)) <= Cardinality(Wire(m))
                 /\ Cardinality(Wire(m)') = Cardinality(Wire(m)) - Net!C!Copies(m, Messages(b))
      <4> DEFINE T == {f \in Net!Due : f.message = m}
      <4>1. {i \in DOMAIN Messages(b) : Messages(b)[i] = m} = {i \in 1..Len(b) : b[i] \in T}
        BY <1>6, <3>2, <3>3
      <4>2. Net!C!Copies(m, Messages(b)) = Cardinality(T)
        BY <1>5, <4>1, TheSameCount DEF Net!C!Copies
      <4>3. /\ T = Wire(m) \cap T /\ Wire(m)' = Wire(m) \ T /\ T \in SUBSET Wire(m)
        BY <1>2, <1>4 DEF Wire
      <4> HIDE DEF T
      <4>4. IsFiniteSet(Wire(m)) /\ Cardinality(Wire(m)) \in Nat
        BY WiresAre
      <4>5. Cardinality(T) \in Nat /\ Cardinality(T) <= Cardinality(Wire(m))
        BY <4>3, <4>4, FS_Subset, FS_CardinalityType
      <4>6. Cardinality(Wire(m)') = Cardinality(Wire(m)) - Cardinality(T)
        BY <4>3, <4>4, FS_Difference
      <4> QED BY <4>2, <4>5, <4>6
    <3> QED BY <3>1, <3>4, <3>5, TheSameCount DEF Net!C!Land, Messages, Wire
  <2> QED BY <2>1, <2>2

NetStands == <<conditions, hour, flight, sequence, delivered, dropped>>

LEMMA StandsKeeps == NetInv /\ UNCHANGED NetStands => NetInv'
BY DEF NetStands, NetInv, InOrder, IsSent

\* A step of the network is one of the channel or leaves it alone.
LEMMA NetKeeps ==
  ASSUME NetInv, [Net!Next]_Net!vars
  PROVE  NetInv' /\ [Net!C!Next]_<<[m \in Net!Message |-> Net!Cardinality(Wire(m))], Messages(delivered)>>
<1>1. CASE flight # {} /\ Net!Tick
  BY <1>1, TickKeeps DEF Net!C!Next
<1>2. ASSUME NEW m \in Net!Message, Net!Send(m)
      PROVE  NetInv' /\ [Net!C!Next]_<<[x \in Net!Message |-> Net!Cardinality(Wire(x))], Messages(delivered)>>
  BY <1>2, SendKeeps
<1>3. CASE UNCHANGED NetStands
  BY <1>3, StandsKeeps DEF NetStands, Wire, Messages
<1>4. ASSUME NEW side \in SUBSET Member, Net!Partition({side, Member \ side})
      PROVE  UNCHANGED NetStands
  BY <1>4 DEF Net!Partition, NetStands
<1>5. ASSUME NEW cut \in Cut, Net!AddCut(cut)
      PROVE  UNCHANGED NetStands
  BY <1>5 DEF Net!AddCut, NetStands
<1>6. Net!Heal \/ Net!HealCuts => UNCHANGED NetStands
  BY DEF Net!Heal, Net!HealCuts, NetStands
<1>7. UNCHANGED Net!vars => UNCHANGED NetStands
  BY DEF Net!vars, NetStands
<1> QED BY <1>1, <1>2, <1>3, <1>4, <1>5, <1>6, <1>7 DEF Net!Next

\* The network is a channel: what is handed over was sent, once, and nothing else moves it.
THEOREM NetworkIsAChannel == Spec => NetworkKeepsItsWord
<1>1. Net!Init => Net!C!Init
  <2> SUFFICES ASSUME Net!Init PROVE Net!C!Init
    OBVIOUS
  <2>1. flight = {} /\ delivered = << >>
    BY DEF Net!Init
  <2>2. \A m \in Net!Message : Net!C!Cardinality({f \in flight : f.message = m}) = 0
    <3> TAKE m \in Net!Message
    <3>1. {f \in flight : f.message = m} = {}
      BY <2>1
    <3> QED BY <3>1, FS_EmptySet, TheSameCount
  <2>3. [i \in DOMAIN delivered |-> delivered[i].message] = << >>
    BY <2>1
  <2> QED BY <2>2, <2>3, TheSameCount DEF Net!C!Init
<1>2. NetInv /\ [Net!Next]_Net!vars => NetInv'
  BY NetKeeps
<1>3. NetInv /\ [Net!Next]_Net!vars =>
        [Net!C!Next]_<<[m \in Net!Message |-> Net!Cardinality({f \in flight : f.message = m})],
                       [i \in DOMAIN delivered |-> delivered[i].message]>>
  BY NetKeeps DEF Wire, Messages
<1>4. NetInv' => [Net!InTime']_Net!vars
  <2>1. NetInv' => Net!InTime'
    BY InvInTime, PTL
  <2> QED BY <2>1
<1> QED BY <1>1, <1>2, <1>3, <1>4, NetInit, NetworkMoves, PTL
      DEF Net!Spec, NetworkKeepsItsWord, Net!NetworkKeepsItsWord, Net!C!Spec
=============================================================================

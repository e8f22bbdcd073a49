--------------------------- MODULE RaftProperties ---------------------------
(***************************************************************************)
(* What the consensus core must keep, over the modules Raft and Log.       *)
(***************************************************************************)
EXTENDS Raft

Entry == [term : Nat, cmd : Command \cup {None}]

Message ==
       [kind : {"request vote"}, from : Node, to : Node, term : Nat,
        lastIndex : Nat, lastTerm : Nat, preVote : BOOLEAN]
  \cup [kind : {"vote"}, from : Node, to : Node, term : Nat,
        granted : BOOLEAN, preVote : BOOLEAN]
  \cup [kind : {"append"}, from : Node, to : Node, term : Nat,
        prevIndex : Nat, prevTerm : Nat, entries : Seq(Entry), commit : Nat]
  \cup [kind : {"appended"}, from : Node, to : Node, term : Nat,
        success : BOOLEAN, match : Nat, conflictTerm : Nat, conflictIndex : Nat]
  \cup [kind : {"install snapshot"}, from : Node, to : Node, term : Nat,
        lastIndex : Nat, lastTerm : Nat, state : Command \cup {None}]
  \cup [kind : {"installed"}, from : Node, to : Node, term : Nat, lastIndex : Nat]

BallotsOK ==
  /\ term \in [Node -> Nat]
  /\ votedFor \in [Node -> Node \cup {None}]
  /\ role \in [Node -> Role]
  /\ votes \in [Node -> SUBSET Node]
  /\ preVotes \in [Node -> SUBSET Node]

LogsOK == log \in [Node -> LogOf(Entry)]

MachinesOK ==
  /\ commitIndex \in [Node -> Nat]
  /\ lastApplied \in [Node -> Nat]
  /\ applied \in [Node -> Seq(Entry)]
  /\ machine \in [Node -> Command \cup {None}]

LeadersOK ==
  /\ nextIndex \in [Node -> [Node -> Nat]]
  /\ matchIndex \in [Node -> [Node -> Nat]]

NetOK == IsABag(net) /\ BagToSet(net) \subseteq Message

WorldOK == down \subseteq Node /\ crashes \in Nat /\ raised \in BOOLEAN

LedgerOK == ledger \in Seq([term : Nat, cmd : Command \cup {None}, at : Nat])

\* Every field of every node, and every message on the wire, has the shape that
\* node.py and rpc.py declare: no index, in particular, is ever negative.
TypeOK ==
  /\ BallotsOK /\ LogsOK /\ MachinesOK /\ LeadersOK
  /\ NetOK /\ WorldOK /\ LedgerOK

-----------------------------------------------------------------------------

\* A vote once cast stands for the rest of its term, and terms only rise, though
\* the node crash and restart in between.
VoteStands ==
  [][\A n \in Node :
       /\ term'[n] >= term[n]
       /\ (term'[n] = term[n] /\ votedFor[n] # None) => votedFor'[n] = votedFor[n]]_vars

\* With pre votes no node runs ahead: its term is at most one more than the term
\* of a majority.  A node that is cut off cannot raise the term the cluster will
\* meet when it returns, which is what become_pre_candidate is for.
TermsStayTogether ==
  \A n \in Node : Majority({p \in Node : term[p] + 1 >= term[n]})

\* No log has an entry of an earlier term after one of a later term, or one from a
\* term its node has not reached: Log.append would refuse the next write.
TermsInOrder ==
  \A n \in Node : \A i \in log[n].base..LastIndex(log[n]) :
    /\ TermAt(log[n], i) <= term[n]
    /\ i < LastIndex(log[n]) => TermAt(log[n], i) <= TermAt(log[n], i + 1)

\* Two logs that have an entry of the same term at the same index agree on
\* everything up to it, as far as both still hold it.
LogMatching ==
  \A n, p \in Node : \A i \in 1..LastIndex(log[n]) :
    (Holds(log[n], i) /\ Holds(log[p], i) /\ At(log[n], i).term = At(log[p], i).term)
      => \A j \in 1..i : (Holds(log[n], j) /\ Holds(log[p], j))
                            => At(log[n], j) = At(log[p], j)

\* The node's disk has entry i of the committed log.
Keeps(n, i) ==
  \/ i <= log[n].base
  \/ Holds(log[n], i) /\ At(log[n], i).term = ledger[i].term

\* Whoever leads a term not before the one an entry was committed in holds the
\* entry: the election restriction of Node._on_request_vote is enough.
LeaderCompleteness ==
  \A n \in Node : role[n] = LEADER =>
    \A i \in DOMAIN ledger : ledger[i].at <= term[n] => Keeps(n, i)

\* A committed entry is on the disks of a majority, from the moment a leader
\* commits it and for good.
CommittedOnMajority ==
  \A i \in DOMAIN ledger : Majority({n \in Node : Keeps(n, i)})

\* Nodes that have applied an entry at the same place have applied the same
\* entry there, and it is the committed one.
StateMachineSafety ==
  \A n \in Node : \A i \in DOMAIN applied[n] :
    /\ i <= Len(ledger)
    /\ applied[n][i] = [term |-> ledger[i].term, cmd |-> ledger[i].cmd]

\* The register holds what the entries applied so far leave in it: a node that
\* has applied up to an index stands where the committed log stands there, after
\* a restart and after a snapshot too.
MachineIsAppliedPrefix ==
  \A n \in Node : lastApplied[n] <= Len(ledger)
                    => machine[n] = Applying(None, SubSeq(ledger, 1, lastApplied[n]))

\* What a leader believes a follower of its own term holds, it holds: a delayed,
\* repeated or outdated answer never moves match_index too far.
MatchIsTruthful ==
  \A n, p \in Node : (role[n] = LEADER /\ term[p] = term[n]) =>
    \A i \in 1..matchIndex[n][p] :
      /\ i <= LastIndex(log[p])
      /\ (Holds(log[n], i) /\ Holds(log[p], i)) => At(log[n], i) = At(log[p], i)

\* While a leader stays in its term its log only grows, whatever it receives.
LeaderAppendOnly ==
  [][\A n \in Node : (role[n] = LEADER /\ term'[n] = term[n]) =>
       /\ LastIndex(log'[n]) >= LastIndex(log[n])
       /\ \A i \in 1..LastIndex(log[n]) :
            (Holds(log[n], i) /\ Holds(log'[n], i)) => At(log'[n], i) = At(log[n], i)]_vars

\* No step takes back an entry the node has applied: what truncate_from says of
\* its callers.
AppliedNeverTruncated ==
  [][\A n \in Node : \A i \in 1..lastApplied[n] :
       Holds(log[n], i) =>
         \/ i <= log'[n].base
         \/ Holds(log'[n], i) /\ At(log'[n], i) = At(log[n], i)]_vars

\* A running node never takes back what it has committed or applied, whatever
\* order its messages come in: an old snapshot in particular.
CommitNeverFalls ==
  [][\A n \in Node \ down :
       commitIndex'[n] >= commitIndex[n] /\ lastApplied'[n] >= lastApplied[n]]_vars

\* What a node has compacted away, or replaced by a snapshot, is committed, and the
\* term it remembers for the last of it is the right one.
SnapshotIsCommitted ==
  \A n \in Node : log[n].base > 0 =>
    /\ log[n].base <= Len(ledger)
    /\ log[n].baseTerm = ledger[log[n].base].term

\* The cluster implements one growing log that every replica applies in order.
Promise == INSTANCE CommitLog WITH
  chosen <- [i \in DOMAIN ledger |-> [term |-> ledger[i].term, cmd |-> ledger[i].cmd]],
  done   <- applied
ImplementsCommitLog == Promise!Spec
=============================================================================

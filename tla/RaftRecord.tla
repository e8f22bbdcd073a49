----------------------------- MODULE RaftRecord -----------------------------
(***************************************************************************)
(* The consensus core with a record of what every leader has written and   *)
(* of who has taken it, on top of the record of elections.  No action of   *)
(* the core reads either; the invariant below is about what the core does, *)
(* as far as its log goes, and is inductive.                               *)
(*                                                                         *)
(* It is for clusters that do not compact their logs.  With compaction a   *)
(* leader may count what a follower does not hold, as the run snapshot_ack *)
(* shows, and nothing below holds any more.                                *)
(***************************************************************************)
EXTENDS RaftHistory

VARIABLES
  lines,      \* for every term that has had a leader, the log of that leader
  accepted    \* who has ever held an entry of a term while in that term

recordVars == <<allVars, lines, accepted>>

Leaders == {n \in Node : role[n] = LEADER}
Entries(n) == log[n].entries

Acceptance(t, p, i) == [term |-> t, by |-> p, index |-> i]

\* The entries of its own term that a node holds now.
OwnTerm(p) == {i \in FirstIndex(log[p])..LastIndex(log[p]) : At(log[p], i).term = term[p]}
Accepting == UNION {{Acceptance(term[p], p, i) : i \in OwnTerm(p)} : p \in Node}

RInit == HInit /\ lines = << >> /\ accepted = {}

RNext ==
  /\ HNext
  /\ lines' = [t \in DOMAIN lines \cup {term'[n] : n \in Leaders'} |->
                 IF \E n \in Leaders' : term'[n] = t
                 THEN log'[CHOOSE n \in Leaders' : term'[n] = t].entries
                 ELSE lines[t]]
  /\ accepted' = accepted \cup Accepting'

RSpec == RInit /\ [][RNext]_recordVars

-----------------------------------------------------------------------------
(* Relations between pieces of log.                                        *)

\* Two pieces of log are the same up to index k.
Alike(s, u, k) == k <= Len(s) /\ k <= Len(u) /\ \A i \in 1..k : s[i] = u[i]

\* The piece has an entry of term t at index i.
Has(s, i, t) == i \in DOMAIN s /\ s[i].term = t

\* Whichever leader wrote an entry of it, the piece is a copy of that leader's log, as
\* recorded in `led', up to that entry.
Follows(s, led) ==
  \A k \in DOMAIN s : s[k].term \in DOMAIN led /\ Alike(s, led[s[k].term], k)

\* The logs of the leaders are made of pieces of one another, and no leader had an entry
\* of a term after its own.
Orderly(led) ==
  \A t \in DOMAIN led :
    /\ led[t] \in Seq(Entry)
    /\ Follows(led[t], led)
    /\ \A k \in DOMAIN led[t] : led[t][k].term <= t

\* What an append carries comes from the log `s': the entries, and the term of the one
\* before them.
PieceOf(m, s) ==
  /\ m.prevIndex + Len(m.entries) <= Len(s)
  /\ \A k \in DOMAIN m.entries : m.entries[k] = s[m.prevIndex + k]
  /\ m.prevTerm = IF m.prevIndex = 0 THEN 0 ELSE s[m.prevIndex].term

\* No majority can ever have accepted the entry: one has gone on without it.
Lost(t, i) ==
  Majority({p \in Node : term[p] > t /\ Acceptance(t, p, i) \notin accepted})

\* A majority has accepted the entry that the leader of term t wrote at index i.
Chosen(t, i) ==
  /\ t \in DOMAIN lines /\ Has(lines[t], i, t)
  /\ Majority({p \in Node : Acceptance(t, p, i) \in accepted})

-----------------------------------------------------------------------------
(* The parts of the invariant.                                             *)

\* No log has been compacted, and nobody sends a snapshot or an answer to one: a
\* leader's next_index never comes down to the beginning of its log.
Uncompacted ==
  /\ \A n \in Node : log[n].base = 0 /\ log[n].baseTerm = 0
  /\ \A n \in Leaders : \A p \in Node : nextIndex[n][p] >= 1
  /\ \A m \in BagToSet(net) : m.kind \notin {"install snapshot", "installed"}

\* The record has the log of exactly those who were elected, a leader's as it is now.
LinesAreLed ==
  /\ DOMAIN lines = {e.term : e \in elected}
  /\ \A n \in Leaders : lines[term[n]] = Entries(n)
  /\ \A e \in elected :
       /\ e.term <= term[e.node]
       /\ role[e.node] = CANDIDATE => e.term < term[e.node]

\* Every log is made of pieces of leaders' logs.
LogsFollow ==
  /\ Orderly(lines)
  /\ \A n \in Node :
       /\ Follows(Entries(n), lines)
       /\ \A k \in DOMAIN Entries(n) : Entries(n)[k].term <= term[n]

\* What an append carries is a piece of the log of the leader of its term.
AppendsFollow ==
  \A m \in BagToSet(net) : m.kind = "append" =>
    m.term \in DOMAIN lines /\ PieceOf(m, lines[m.term])

\* What has been accepted was written by the leader of that term, and nobody accepts
\* in a term it has not reached.
AcceptedAreWritten ==
  /\ accepted \subseteq [term : Nat, by : Node, index : Nat]
  /\ Accepting \subseteq accepted
  /\ \A a \in accepted :
       /\ a.term <= term[a.by] /\ a.term \in DOMAIN lines
       /\ Has(lines[a.term], a.index, a.term)

\* Who has accepted an entry keeps it, unless it is lost anyway.
AcceptedAreKept ==
  \A a \in accepted : Lost(a.term, a.index) \/ Has(Entries(a.by), a.index, a.term)

\* A leader's log has every entry that a leader of an earlier term wrote, unless the
\* entry is lost.
LinesAreComplete ==
  \A t, u \in DOMAIN lines : \A i \in DOMAIN lines[t] :
    (t < u /\ lines[t][i].term = t) => Lost(t, i) \/ Has(lines[u], i, t)

\* A request for a vote describes the log of the candidate that sent it, for as long as
\* that candidate stands.
RequestsAreTrue ==
  \A m \in BagToSet(net) : (m.kind = "request vote" /\ ~m.preVote) =>
    /\ m.term <= term[m.from]
    /\ (role[m.from] = CANDIDATE /\ term[m.from] = m.term) =>
         m.lastIndex = LastIndex(log[m.from]) /\ m.lastTerm = LastTerm(log[m.from])

\* A candidate has what its voters had accepted when they voted.
CandidatesKnow ==
  \A b \in ballots :
    /\ b.term <= term[b.for]
    /\ (role[b.for] = CANDIDATE /\ term[b.for] = b.term) =>
         \A a \in accepted : (a.by = b.by /\ a.term < b.term) =>
           Lost(a.term, a.index) \/ Has(Entries(b.for), a.index, a.term)

\* The node has the log of the leader of term t up to k, as long as it stays in that
\* term, and has accepted what of it is of that term.
Truthful(p, t, k) ==
  /\ t <= term[p] /\ t \in DOMAIN lines /\ k <= Len(lines[t])
  /\ \A i \in 1..k : lines[t][i].term = t => Acceptance(t, p, i) \in accepted
  /\ term[p] = t => Alike(Entries(p), lines[t], k)

\* What a leader is told of a follower, and what it remembers of it, is true.
AnswersAreTrue ==
  /\ \A m \in BagToSet(net) :
       (m.kind = "appended" /\ m.success) => Truthful(m.from, m.term, m.match)
  /\ \A n \in Leaders : \A p \in Node :
       matchIndex[n][p] > 0 => Truthful(p, term[n], matchIndex[n][p])

\* Every entry of the committed log comes before an entry that was chosen in the term
\* of the leader that committed it.
LedgerIsChosen ==
  \A i \in DOMAIN ledger :
    LET t == ledger[i].at IN
    \E c \in DOMAIN lines[t] :
      /\ i <= c /\ Chosen(t, c)
      /\ lines[t][i] = [term |-> ledger[i].term, cmd |-> ledger[i].cmd]

\* Everything that keeps the logs of the cluster together, crashes and restarts
\* included: what a leader has counted on a majority no later leader can lack.
LogsAgree ==
  /\ Uncompacted /\ LinesAreLed /\ LogsFollow /\ AppendsFollow
  /\ AcceptedAreWritten /\ AcceptedAreKept /\ LinesAreComplete
  /\ RequestsAreTrue /\ CandidatesKnow
  /\ AnswersAreTrue /\ LedgerIsChosen
-----------------------------------------------------------------------------
(* What is applied.                                                        *)

\* The first k entries of the piece come before one that was chosen in term t or
\* earlier.
Safe(s, k, t) ==
  \/ k = 0
  \/ \E u \in DOMAIN lines : \E c \in DOMAIN lines[u] :
       u <= t /\ k <= c /\ Chosen(u, c) /\ Alike(s, lines[u], k)

\* An append reaches as far as its sender had committed.  Nothing in the code makes it
\* so: a batch may stop short, and the follower then commits what it happens to have
\* from there on, as the run stale_refusal shows.
CommitIsCarried ==
  \A m \in BagToSet(net) : m.kind = "append" => m.commit <= m.prevIndex + Len(m.entries)

\* No log is longer than what one append may carry: every append then reaches the end
\* of its sender's log.
LogsFit == \A n \in Node : Len(Entries(n)) <= MaxBatch

\* A node has applied what it has committed, and it has committed, and announces, no
\* more than what no later leader can lack.
CommitsAreSafe ==
  /\ \A n \in Node :
       /\ lastApplied[n] = commitIndex[n]
       /\ applied[n] = SubSeq(Entries(n), 1, commitIndex[n])
       /\ commitIndex[n] <= Len(ledger)
       /\ Safe(Entries(n), commitIndex[n], term[n])
  /\ \A m \in BagToSet(net) : m.kind = "append" =>
       m.commit <= Len(ledger) /\ Safe(lines[m.term], m.commit, m.term)

\* The register is what the entries the node has applied leave in it.
MachinesFollow == \A n \in Node : machine[n] = Applying(None, applied[n])
=============================================================================

-------------------------------- MODULE Raft --------------------------------
(***************************************************************************)
(* The consensus core: the nodes of rsm/node.py, the driver of             *)
(* rsm/cluster.py that ticks, crashes and restarts them, the network of    *)
(* rsm/net.py between them and the compaction of rsm/snapshot.py.          *)
(*                                                                         *)
(* A cluster tick delivers what has landed and then gives every running    *)
(* node its tick.  Timeouts and delays are drawn at random, so a tick is   *)
(* here any sequence of steps, each of which is one call that the driver   *)
(* makes: Node.step on one message, Node.tick of one node, or an operation *)
(* of the cluster.  A message carries its whole content; its fate is       *)
(* settled when it is sent, as Network.send does it.                       *)
(*                                                                         *)
(* Left out, because no guard of the code reads them: the leader hint, the *)
(* read id, the counters and the sides of InstallSnapshot.members.  The    *)
(* commit_any_term flag is FALSE, as in every cluster.  The key-value      *)
(* state is one register.                                                  *)
(*                                                                         *)
(* As in Log, a definition whose name starts with `Wrong' is the one after  *)
(* it with a plausible mistake.                                             *)
(***************************************************************************)
EXTENDS Integers, Sequences, FiniteSets, Bags, Log

CONSTANTS
  Node,            \* the members of the cluster
  Command,         \* what clients write
  None,            \* Python's None: no vote, the command of a no-op, no value
  PreVote,         \* the pre_vote option of the cluster
  Compaction,      \* whether nodes are ever asked to compact their logs
  Lossless,        \* whether the network delivers everything it is given
  MaxBatch,        \* MAX_BATCH, the entries one append may carry
  MaxTerm,         \* bound: nobody stands for election from this term on
  MaxLog,          \* bound: no client write beyond this index
  MaxFlight,       \* bound: messages on the wire
  MaxCopies,       \* bound: equal messages on the wire
  MaxCrashes,      \* bound: crashes in a run
  Contender        \* bound: the nodes whose election timeout ever runs out

ASSUME ConstantsAssumption ==
  /\ IsFiniteSet(Node) /\ Cardinality(Node) > 1
  /\ None \notin Node /\ None \notin Command
  /\ Contender \subseteq Node
  /\ PreVote \in BOOLEAN /\ Compaction \in BOOLEAN /\ Lossless \in BOOLEAN
  /\ MaxBatch \in Nat \ {0}
  /\ MaxTerm \in Nat /\ MaxLog \in Nat /\ MaxFlight \in Nat
  /\ MaxCopies \in Nat /\ MaxCrashes \in Nat

VARIABLES
  term, votedFor, log,             \* what survives a crash
  role, votes, preVotes,           \* the node's part in elections
  commitIndex, lastApplied,        \* how far it has committed and applied
  applied, machine,                \* the entries it applied, the value they left
  nextIndex, matchIndex,           \* a leader's view of every member
  net,                             \* the messages on the wire, a bag
  down, crashes,                   \* the stopped nodes; crashes so far
  raised                           \* an exception has left a handler

\* History, which no action reads: the committed log, each entry with the term
\* of the leader that first committed it.
VARIABLE ledger

ballotVars  == <<term, votedFor, role, votes, preVotes>>
machineVars == <<commitIndex, lastApplied, applied, machine>>
leaderVars  == <<nextIndex, matchIndex>>
worldVars   == <<down, crashes, raised>>
vars == <<ballotVars, log, machineVars, leaderVars, net, worldVars, ledger>>

FOLLOWER  == "follower"
CANDIDATE == "candidate"
LEADER    == "leader"
Role      == {FOLLOWER, CANDIDATE, LEADER}

Majority(S) == Cardinality(S) >= Cardinality(Node) \div 2 + 1
Peers(n) == Node \ {n}

-----------------------------------------------------------------------------
(* The messages of rsm/rpc.py.                                             *)

RequestVoteMsg(n, p, t, l, pre) ==
  [kind |-> "request vote", from |-> n, to |-> p, term |-> t,
   lastIndex |-> LastIndex(l), lastTerm |-> LastTerm(l), preVote |-> pre]

VoteMsg(n, p, t, granted, pre) ==
  [kind |-> "vote", from |-> n, to |-> p, term |-> t,
   granted |-> granted, preVote |-> pre]

AppendMsg(n, p, t, l, start, commit) ==
  [kind |-> "append", from |-> n, to |-> p, term |-> t,
   prevIndex |-> start - 1, prevTerm |-> TermAt(l, start - 1),
   entries |-> Slice(l, start, start + MaxBatch - 1), commit |-> commit]

WrongAppendedMsg(n, p, t, match) ==
  [kind |-> "appended", from |-> n, to |-> p, term |-> t,
   success |-> TRUE, match |-> match + 1, conflictTerm |-> 0, conflictIndex |-> 0]

AppendedMsg(n, p, t, match) ==
  [kind |-> "appended", from |-> n, to |-> p, term |-> t,
   success |-> TRUE, match |-> match, conflictTerm |-> 0, conflictIndex |-> 0]

RefusedMsg(n, p, t, conflict) ==
  [kind |-> "appended", from |-> n, to |-> p, term |-> t,
   success |-> FALSE, match |-> 0,
   conflictTerm |-> conflict.term, conflictIndex |-> conflict.index]

\* The snapshot is labelled with the end of the log.
WrongInstallMsg(n, p, t, l, state) ==
  [kind |-> "install snapshot", from |-> n, to |-> p, term |-> t,
   lastIndex |-> LastIndex(l), lastTerm |-> LastTerm(l), state |-> state]

InstallMsg(n, p, t, l, state) ==
  [kind |-> "install snapshot", from |-> n, to |-> p, term |-> t,
   lastIndex |-> l.base, lastTerm |-> l.baseTerm, state |-> state]

WrongInstalledMsg(n, p, t, last) ==
  [kind |-> "installed", from |-> n, to |-> p, term |-> t, lastIndex |-> last + 1]

InstalledMsg(n, p, t, last) ==
  [kind |-> "installed", from |-> n, to |-> p, term |-> t, lastIndex |-> last]

\* Node.replicate for one follower: the entries after `next', which is clamped
\* to the end of the log, or the snapshot if they are no longer all there.
ReplicateTo(n, p, t, l, next, commit, state) ==
  LET start == Min({next, LastIndex(l) + 1})
  IN  IF start <= l.base
      THEN InstallMsg(n, p, t, l, state)
      ELSE AppendMsg(n, p, t, l, start, commit)

-----------------------------------------------------------------------------
(* The network.  A message in `net' will be delivered once, in any order    *)
(* with the others; one that is lost, or sent across a partition, never     *)
(* enters it.                                                               *)

Exchange(gone, out) ==
  \E kept \in SUBSET out :
    /\ Lossless => kept = out
    /\ net' = (net (-) SetToBag(gone)) (+) SetToBag(kept)
    /\ BagCardinality(net') <= MaxFlight
    /\ \A m \in kept : net'[m] <= MaxCopies

\* The nodes that can take a step: the running ones, while the driver's loop has
\* not been left by an exception.
Up == IF raised THEN {} ELSE Node \ down

Landed(kind) == {m \in BagToSet(net) : m.kind = kind /\ m.to \in Up}

-----------------------------------------------------------------------------
(* The term rule at the head of Node.step.  A message that asks or answers  *)
(* a pre vote never moves the receiver's term.                              *)

Asking(m) == m.kind \in {"request vote", "vote"} /\ m.preVote
WrongStale(m) == FALSE

Stale(m) == m.term < term[m.to]
Ahead(m) == m.term > term[m.to] /\ ~Asking(m)

\* Only a request for a vote brings a new term.
WrongTermOn(m) == IF m.kind = "request vote" THEN m.term ELSE term[m.to]

\* The receiver's term, vote and role once it has looked at the term.
TermOn(m) == IF Ahead(m) THEN m.term ELSE term[m.to]
\* The vote is forgotten on a message of the same term too, or kept on one of a
\* later term.
WrongVoteOn(m) == IF m.term >= term[m.to] THEN None ELSE votedFor[m.to]
WrongVoteKept(m) == votedFor[m.to]
VoteOn(m) == IF Ahead(m) THEN None ELSE votedFor[m.to]
RoleOn(m) == IF Ahead(m) THEN FOLLOWER ELSE role[m.to]

\* The receiver takes the message's term if it is ahead, and goes on in role r
\* having voted for v.  Becoming a follower forgets the votes counted so far.
Join(m, r, v) ==
  /\ term' = [term EXCEPT ![m.to] = TermOn(m)]
  /\ votedFor' = [votedFor EXCEPT ![m.to] = v]
  /\ role' = [role EXCEPT ![m.to] = r]
  /\ LET counted(f) == IF Ahead(m) \/ r # role[m.to] THEN {} ELSE f[m.to]
     IN  /\ votes' = [votes EXCEPT ![m.to] = counted(votes)]
         /\ preVotes' = [preVotes EXCEPT ![m.to] = counted(preVotes)]

\* Node._refuse: a message from an older term is answered with the receiver's
\* own term, and a reply or a snapshot from an older term is dropped.  The
\* answer to an older pre-vote question is an ordinary refused vote.
RefuseStale ==
  \E m \in BagToSet(net) :
    /\ m.to \in Up
    /\ Stale(m)
    /\ Exchange({m},
         CASE m.kind = "request vote" ->
                {VoteMsg(m.to, m.from, term[m.to], FALSE, FALSE)}
           [] m.kind = "append" ->
                {RefusedMsg(m.to, m.from, term[m.to], [term |-> 0, index |-> 0])}
           [] OTHER -> {})
    /\ UNCHANGED <<ballotVars, log, machineVars, leaderVars, worldVars, ledger>>

\* Cluster.tick passes over a message to a stopped node.
DropAtDown ==
  \E m \in BagToSet(net) :
    /\ m.to \in down /\ ~raised
    /\ Exchange({m}, {})
    /\ UNCHANGED <<ballotVars, log, machineVars, leaderVars, worldVars, ledger>>

-----------------------------------------------------------------------------
(* Elections.                                                              *)

\* become_candidate, for a node that is not alone: the next term, a vote for
\* itself, and a request to every other member.  `gone' is the message, if
\* any, that brought it about.
BecomeCandidate(n, gone) ==
  /\ term' = [term EXCEPT ![n] = @ + 1]
  /\ votedFor' = [votedFor EXCEPT ![n] = n]
  /\ role' = [role EXCEPT ![n] = CANDIDATE]
  /\ votes' = [votes EXCEPT ![n] = {n}]
  /\ preVotes' = [preVotes EXCEPT ![n] = {}]
  /\ Exchange(gone,
       {RequestVoteMsg(n, p, term[n] + 1, log[n], FALSE) : p \in Peers(n)})
  /\ UNCHANGED <<log, machineVars, leaderVars, worldVars, ledger>>

\* become_pre_candidate: ask about the next term and change nothing else.
BecomePreCandidate(n) ==
  /\ preVotes' = [preVotes EXCEPT ![n] = {n}]
  /\ Exchange({},
       {RequestVoteMsg(n, p, term[n] + 1, log[n], TRUE) : p \in Peers(n)})
  /\ UNCHANGED <<term, votedFor, role, votes,
                 log, machineVars, leaderVars, worldVars, ledger>>

\* A node that was refused a pre vote may stand all the same.
WrongStand(n) ==
  /\ n \in Contender \cap Up
  /\ role[n] # LEADER
  /\ term[n] < MaxTerm
  /\ BecomePreCandidate(n) \/ BecomeCandidate(n, {})

\* Node.tick past the election deadline, of a node that does not lead.
Stand(n) ==
  /\ n \in Contender \cap Up
  /\ role[n] # LEADER
  /\ term[n] < MaxTerm
  /\ IF PreVote THEN BecomePreCandidate(n) ELSE BecomeCandidate(n, {})

\* The vote goes to whoever asks.
WrongGrants(m) == IsUpToDate(log[m.to], m.lastIndex, m.lastTerm)

\* _on_request_vote: the vote is granted if it is not spent on another in this
\* term and the candidate's log is up to date with this one's.
Grants(m) ==
  /\ VoteOn(m) \in {None, m.from}
  /\ IsUpToDate(log[m.to], m.lastIndex, m.lastTerm)

OnRequestVote ==
  \E m \in Landed("request vote") :
    /\ ~m.preVote
    /\ ~Stale(m)
    /\ Join(m, RoleOn(m), IF Grants(m) THEN m.from ELSE VoteOn(m))
    /\ Exchange({m}, {VoteMsg(m.to, m.from, TermOn(m), Grants(m), FALSE)})
    /\ UNCHANGED <<log, machineVars, leaderVars, worldVars, ledger>>

\* A pre vote is answered on the logs and the terms alone; nothing is recorded.
OnPreVoteRequest ==
  \E m \in Landed("request vote") :
    /\ m.preVote
    /\ ~Stale(m)
    /\ Exchange({m},
         {VoteMsg(m.to, m.from, term[m.to],
                  /\ IsUpToDate(log[m.to], m.lastIndex, m.lastTerm)
                  /\ m.term > term[m.to],
                  TRUE)})
    /\ UNCHANGED <<ballotVars, log, machineVars, leaderVars, worldVars, ledger>>

\* become_leader, on the vote that makes a majority: every other member is
\* assumed to be level with the log as it was, one empty entry of the new term
\* is written, and everybody is sent it.
BecomeLeader(n, gone) ==
  LET grown == Extend(log[n], <<[term |-> term[n], cmd |-> None]>>)
      next  == LastIndex(log[n]) + 1
  IN  /\ role' = [role EXCEPT ![n] = LEADER]
      /\ votes' = [votes EXCEPT ![n] = {}]
      /\ log' = [log EXCEPT ![n] = grown]
      /\ nextIndex' = [nextIndex EXCEPT ![n] = [p \in Node |-> next]]
      /\ matchIndex' = [matchIndex EXCEPT ![n] =
                          [p \in Node |-> IF p = n THEN next ELSE 0]]
      /\ Exchange(gone,
           {ReplicateTo(n, p, term[n], grown, next, commitIndex[n], machine[n]) :
              p \in Peers(n)})
      /\ UNCHANGED <<term, votedFor, preVotes, machineVars, worldVars, ledger>>

\* _on_vote, for a vote this node can use: it still stands and it is granted.
CountVote ==
  \E m \in Landed("vote") :
    LET n == m.to IN
    /\ ~m.preVote /\ m.granted
    /\ m.term = term[n]
    /\ role[n] = CANDIDATE
    /\ IF Majority(votes[n] \cup {m.from})
       THEN BecomeLeader(n, {m})
       ELSE /\ votes' = [votes EXCEPT ![n] = @ \cup {m.from}]
            /\ Exchange({m}, {})
            /\ UNCHANGED <<term, votedFor, role, preVotes,
                           log, machineVars, leaderVars, worldVars, ledger>>

\* _on_vote, for any other vote that is not stale.  Only its term matters.
IgnoreVote ==
  \E m \in Landed("vote") :
    /\ ~m.preVote
    /\ ~Stale(m)
    /\ ~m.granted \/ RoleOn(m) # CANDIDATE
    /\ Join(m, RoleOn(m), VoteOn(m))
    /\ Exchange({m}, {})
    /\ UNCHANGED <<log, machineVars, leaderVars, worldVars, ledger>>

\* _on_pre_vote: a granted pre vote counts while this node is a follower that
\* has asked; the one that makes a majority starts the election.
CountsPreVote(m) ==
  m.granted /\ role[m.to] = FOLLOWER /\ preVotes[m.to] # {}

OnPreVote ==
  \E m \in Landed("vote") :
    LET n == m.to IN
    /\ m.preVote
    /\ ~Stale(m)
    /\ IF CountsPreVote(m) /\ Majority(preVotes[n] \cup {m.from})
       THEN BecomeCandidate(n, {m})
       ELSE /\ preVotes' = IF CountsPreVote(m)
                           THEN [preVotes EXCEPT ![n] = @ \cup {m.from}]
                           ELSE preVotes
            /\ Exchange({m}, {})
            /\ UNCHANGED <<term, votedFor, role, votes,
                           log, machineVars, leaderVars, worldVars, ledger>>

-----------------------------------------------------------------------------
(* Replication.                                                            *)

\* The entry that sets the register is the last one applied with a command.
Applying(value, es) ==
  LET sets == {i \in DOMAIN es : es[i].cmd # None}
  IN  IF sets = {} THEN value ELSE es[Max(sets)].cmd

\* The last applied entry is applied once more.
WrongCommitTo(n, l, c) ==
  LET todo == Slice(l, Max({lastApplied[n], FirstIndex(l)}), c)
  IN  /\ commitIndex' = [commitIndex EXCEPT ![n] = c]
      /\ lastApplied' = [lastApplied EXCEPT ![n] = Max({@, c})]
      /\ applied' = [applied EXCEPT ![n] = @ \o todo]
      /\ machine' = [machine EXCEPT ![n] = Applying(@, todo)]

\* The commit index moves to c and apply_committed runs: the entries up to c
\* not applied before go to the machine, save those the log no longer holds.
CommitTo(n, l, c) ==
  LET todo == Slice(l, Max({lastApplied[n] + 1, FirstIndex(l)}), c)
  IN  /\ commitIndex' = [commitIndex EXCEPT ![n] = c]
      /\ lastApplied' = [lastApplied EXCEPT ![n] = Max({@, c})]
      /\ applied' = [applied EXCEPT ![n] = @ \o todo]
      /\ machine' = [machine EXCEPT ![n] = Applying(@, todo)]

\* Only what a majority has got beyond.
WrongCommittable(n, match) ==
  {i \in (commitIndex[n] + 1)..LastIndex(log[n]) :
     /\ Answers(log[n], i)
     /\ TermAt(log[n], i) = term[n]
     /\ Majority({p \in Node : match[p] > i})}

\* The indices that advance_commit could stop at: not committed yet, of the
\* leader's own term, and held by a majority as far as it has heard.
Committable(n, match) ==
  {i \in (commitIndex[n] + 1)..LastIndex(log[n]) :
     /\ Answers(log[n], i)
     /\ TermAt(log[n], i) = term[n]
     /\ Majority({p \in Node : match[p] >= i})}

\* advance_commit: down from the end of the log to the first such index.
AdvanceCommit(n, match) ==
  LET able == Committable(n, match) IN
  IF able = {} THEN UNCHANGED <<machineVars, ledger>>
  ELSE LET new == Slice(log[n], Max({Len(ledger) + 1, FirstIndex(log[n])}), Max(able))
       IN  /\ CommitTo(n, log[n], Max(able))
           /\ ledger' = ledger \o
                [i \in DOMAIN new |->
                   [term |-> new[i].term, cmd |-> new[i].cmd, at |-> term[n]]]

\* That walk asks for the term of every index on its way, and one below the
\* snapshot has none to give.
AdvanceRaises(n, match) ==
  Committable(n, match) = {} /\ commitIndex[n] + 1 < log[n].base

\* Cluster.propose, through the running leader of the highest term.
Leads(n) ==
  /\ n \in Up
  /\ role[n] = LEADER
  /\ \A p \in Up \ {n} : role[p] = LEADER => term[p] < term[n]

Propose(n, cmd) ==
  LET grown == Extend(log[n], <<[term |-> term[n], cmd |-> cmd]>>)
  IN  /\ Leads(n)
      /\ LastIndex(log[n]) < MaxLog
      /\ log' = [log EXCEPT ![n] = grown]
      /\ matchIndex' = [matchIndex EXCEPT ![n][n] = LastIndex(grown)]
      /\ Exchange({},
           {ReplicateTo(n, p, term[n], grown, nextIndex[n][p], commitIndex[n],
                        machine[n]) : p \in Peers(n)})
      /\ UNCHANGED <<ballotVars, machineVars, nextIndex, worldVars, ledger>>

\* Node.tick of a leader whose heartbeat is due.
Heartbeat(n) ==
  /\ n \in Up
  /\ role[n] = LEADER
  /\ Exchange({},
       {ReplicateTo(n, p, term[n], log[n], nextIndex[n][p], commitIndex[n],
                    machine[n]) : p \in Peers(n)})
  /\ UNCHANGED <<ballotVars, log, machineVars, leaderVars, worldVars, ledger>>

\* _on_append, when the entries continue this log.
AcceptAppend ==
  \E m \in Landed("append") :
    LET n      == m.to
        merged == Merge(log[n], m.prevIndex, m.entries)
    IN  /\ ~Stale(m)
        /\ Matches(log[n], m.prevIndex, m.prevTerm)
        /\ Join(m, FOLLOWER, VoteOn(m))
        /\ log' = [log EXCEPT ![n] = merged]
        /\ IF m.commit > commitIndex[n]
           THEN CommitTo(n, merged, Min({m.commit, LastIndex(merged)}))
           ELSE UNCHANGED machineVars
        /\ Exchange({m},
             {AppendedMsg(n, m.from, m.term, m.prevIndex + Len(m.entries))})
        /\ UNCHANGED <<leaderVars, worldVars, ledger>>

\* _on_append, when they do not.
RejectAppend ==
  \E m \in Landed("append") :
    LET n == m.to IN
    /\ ~Stale(m)
    /\ ~Matches(log[n], m.prevIndex, m.prevTerm)
    /\ m.prevIndex >= log[n].base
    /\ Join(m, FOLLOWER, VoteOn(m))
    /\ Exchange({m},
         {RefusedMsg(n, m.from, m.term, Conflict(log[n], m.prevIndex))})
    /\ UNCHANGED <<log, machineVars, leaderVars, worldVars, ledger>>

\* A reply to a leader that is level with it, which is then not ahead.
ForLeader(kind) ==
  {m \in Landed(kind) : m.term = term[m.to] /\ role[m.to] = LEADER}

\* Any answer counts for the whole log of the leader.
WrongAcknowledged(m, upto) ==
  [matchIndex[m.to] EXCEPT ![m.from] = LastIndex(log[m.to]),
                           ![m.to] = LastIndex(log[m.to])]

\* The leader's match_index once m.from is known to hold the log up to `upto'.
Acknowledged(m, upto) ==
  [matchIndex[m.to] EXCEPT ![m.from] = Max({@, upto}),
                           ![m.to] = LastIndex(log[m.to])]

\* The two indices of that follower move on, the commit index may, and it is sent
\* what it still misses, or in any case if `anyway'.
Acknowledge(m, upto, anyway) ==
  LET n     == m.to
      match == Acknowledged(m, upto)
      next  == match[m.from] + 1
  IN  /\ ~AdvanceRaises(n, match)
      /\ matchIndex' = [matchIndex EXCEPT ![n] = match]
      /\ nextIndex' = [nextIndex EXCEPT ![n][m.from] = next]
      /\ AdvanceCommit(n, match)
      /\ Exchange({m},
           IF anyway \/ next <= LastIndex(log[n])
           THEN {ReplicateTo(n, m.from, term[n], log[n], next, commitIndex'[n],
                             machine'[n])}
           ELSE {})
      /\ UNCHANGED <<ballotVars, log, worldVars>>

\* _on_appended.
AppendSucceeded ==
  \E m \in ForLeader("appended") : m.success /\ Acknowledge(m, m.match, FALSE)

AppendRefused ==
  \E m \in ForLeader("appended") :
    LET n    == m.to
        next == SkipTerm(log[n], m.conflictTerm, m.conflictIndex)
    IN  /\ ~m.success
        /\ nextIndex' = [nextIndex EXCEPT ![n][m.from] = next]
        /\ Exchange({m}, {ReplicateTo(n, m.from, term[n], log[n], next,
                                      commitIndex[n], machine[n])})
        /\ UNCHANGED <<ballotVars, log, machineVars, matchIndex, worldVars, ledger>>

\* _on_appended and _on_installed of a node that does not lead, or no longer.
IgnoreReply ==
  \E m \in Landed("appended") \cup Landed("installed") :
    /\ ~Stale(m)
    /\ RoleOn(m) # LEADER
    /\ Join(m, RoleOn(m), VoteOn(m))
    /\ Exchange({m}, {})
    /\ UNCHANGED <<log, machineVars, leaderVars, worldVars, ledger>>

-----------------------------------------------------------------------------
(* Snapshots.                                                              *)

\* snapshot.compact at the applied index, as take and the callers of compact
\* choose it.  They refuse an index past the end of the log.
CompactLog(n) ==
  /\ Compaction
  /\ n \in Up
  /\ lastApplied[n] > log[n].base
  /\ Holds(log[n], lastApplied[n])
  /\ log' = [log EXCEPT ![n] = Compact(@, lastApplied[n])]
  /\ UNCHANGED <<ballotVars, machineVars, leaderVars, net, worldVars, ledger>>

\* A snapshot reaches further than this node's log does.  The other test is for
\* one that is newer than this node's own snapshot.
WrongTakes(m) == m.lastIndex > log[m.to].base
Takes(m) == m.lastIndex > LastIndex(log[m.to])

\* _on_install: a snapshot that reaches past the end of the log replaces the
\* log and the state; any other is ignored.  The answer names the end of the
\* log either way.  A candidate that gets one of its own term stays one.
OnInstall ==
  \E m \in Landed("install snapshot") :
    LET n    == m.to
        kept == IF Takes(m) THEN FromSnapshot(m.lastIndex, m.lastTerm) ELSE log[n]
    IN  /\ ~Stale(m)
        /\ Join(m, RoleOn(m), VoteOn(m))
        /\ log' = [log EXCEPT ![n] = kept]
        /\ IF Takes(m)
           THEN /\ machine' = [machine EXCEPT ![n] = m.state]
                /\ commitIndex' = [commitIndex EXCEPT ![n] = m.lastIndex]
                /\ lastApplied' = [lastApplied EXCEPT ![n] = m.lastIndex]
                /\ UNCHANGED applied
           ELSE UNCHANGED machineVars
        /\ Exchange({m}, {InstalledMsg(n, m.from, m.term, LastIndex(kept))})
        /\ UNCHANGED <<leaderVars, worldVars, ledger>>

\* _on_installed.
OnInstalled ==
  \E m \in ForLeader("installed") : Acknowledge(m, m.lastIndex, TRUE)

\* An exception leaves the handler, Node.step and the loop of the driver, and
\* the run of the cluster ends there.
Raise ==
  /\ raised' = TRUE
  /\ UNCHANGED <<ballotVars, log, machineVars, leaderVars, net, down, crashes, ledger>>

\* _conflict asks for the term of an index below the snapshot: Compacted.
ConflictRaises ==
  \E m \in Landed("append") :
    /\ ~Stale(m)
    /\ 0 < m.prevIndex /\ m.prevIndex < log[m.to].base
    /\ Raise

\* advance_commit does, on the way down from the end of the log.  Only for an
\* append: a leader that has sent a snapshot has committed beyond it.
AcknowledgeRaises ==
  \E m \in ForLeader("appended") :
    /\ m.success
    /\ AdvanceRaises(m.to, Acknowledged(m, m.match))
    /\ Raise

-----------------------------------------------------------------------------
(* Cluster.crash and Cluster.restart.  A stopped node keeps its fields until *)
(* a fresh one takes its place with the term, the vote and the log.         *)

Crash(n) ==
  /\ n \in Up
  /\ crashes < MaxCrashes
  /\ down' = down \cup {n}
  /\ crashes' = crashes + 1
  /\ UNCHANGED <<ballotVars, log, machineVars, leaderVars, net, raised, ledger>>

Restart(n) ==
  /\ n \in down /\ ~raised
  /\ down' = down \ {n}
  /\ role' = [role EXCEPT ![n] = FOLLOWER]
  /\ votes' = [votes EXCEPT ![n] = {}]
  /\ preVotes' = [preVotes EXCEPT ![n] = {}]
  /\ commitIndex' = [commitIndex EXCEPT ![n] = 0]
  /\ lastApplied' = [lastApplied EXCEPT ![n] = 0]
  /\ applied' = [applied EXCEPT ![n] = << >>]
  /\ machine' = [machine EXCEPT ![n] = None]
  /\ nextIndex' = [nextIndex EXCEPT ![n] = [p \in Node |-> 0]]
  /\ matchIndex' = [matchIndex EXCEPT ![n] = [p \in Node |-> 0]]
  /\ UNCHANGED <<term, votedFor, log, net, crashes, raised, ledger>>

-----------------------------------------------------------------------------
\* A cluster as Cluster.__init__ makes it.  An empty next_index or match_index
\* is all zeros; nothing reads one before becoming the leader fills it.
Init ==
  /\ term = [n \in Node |-> 1]
  /\ votedFor = [n \in Node |-> None]
  /\ log = [n \in Node |-> EmptyLog]
  /\ role = [n \in Node |-> FOLLOWER]
  /\ votes = [n \in Node |-> {}]
  /\ preVotes = [n \in Node |-> {}]
  /\ commitIndex = [n \in Node |-> 0]
  /\ lastApplied = [n \in Node |-> 0]
  /\ applied = [n \in Node |-> << >>]
  /\ machine = [n \in Node |-> None]
  /\ nextIndex = [n \in Node |-> [p \in Node |-> 0]]
  /\ matchIndex = [n \in Node |-> [p \in Node |-> 0]]
  /\ net = EmptyBag
  /\ down = {} /\ crashes = 0 /\ raised = FALSE
  /\ ledger = << >>

\* Node.step on one message.
Deliver ==
  \/ RefuseStale \/ DropAtDown
  \/ OnRequestVote \/ OnPreVoteRequest
  \/ CountVote \/ IgnoreVote \/ OnPreVote
  \/ AcceptAppend \/ RejectAppend \/ ConflictRaises
  \/ AppendSucceeded \/ AppendRefused \/ IgnoreReply
  \/ OnInstall \/ OnInstalled \/ AcknowledgeRaises

\* What the driver, a client or the operator does to one node.
Drive(n) ==
  \/ Stand(n) \/ Heartbeat(n)
  \/ \E cmd \in Command : Propose(n, cmd)
  \/ CompactLog(n)
  \/ Crash(n) \/ Restart(n)

Next ==
  \/ Deliver
  \/ \E n \in Node : Drive(n)

Spec == Init /\ [][Next]_vars
=============================================================================

# A verification of the replicated state machine

This directory holds TLA+ models of `rsm/`, the TLC configurations that check
them on small instances, and proofs, checked by TLAPS, of what matters most for
every instance.  Source references are `file:line` under `src/rsm/`.

The program is a Raft implementation in one process: no threads and no clock,
only integer ticks and a seeded random network.  A run is decided by when timers
run out, which messages are lost and how long the others take, which nodes are
crashed and restarted, and when logs are compacted.  The models leave exactly
those choices open, so their behaviours include every seed.

## 1. Inventory

### The core

| Part | State | Operations | What makes it correct |
|---|---|---|---|
| `log.py` | entries, `snapshot_index`, `snapshot_term` | `append`, `truncate_from`, `slice`, `matches`, `is_up_to_date` | no holes, terms never go down, two logs that agree at an index agree before it |
| `rpc.py` | none: six message kinds | `term_check` | an older term is refused, a later one makes a follower |
| `net.py` | messages in flight, partitions | `send` draws loss and delay, `tick` delivers | any message may be lost, late or overtaken, none is invented |
| `node.py` | term, vote, log; role, votes, pre votes; commit and applied index, state; `next_index`, `match_index` | `tick`, `step` and its six handlers, `propose`, `replicate`, `advance_commit` | one leader per term, no committed entry lost, replicas apply the same entries |
| `cluster.py` | nodes, stopped nodes, network | `tick`, `propose`, `crash`, `restart`, `partition`, `verify` | term, vote and log survive, nothing else does |
| `repair.py`, and the two walks in `log.py` | two logs, the indices still in question | `walk`, `skip`, `bisect`, `hybrid`, `reconcile_...` | the right index, never an index past it, within the promised number of probes |
| `snapshot.py` | a state with its index and term | `take`, `compact` | only applied entries go; the boundary term stays |

They interact by calls that return messages: `Cluster.tick` takes what the
network delivers, gives each message to `Node.step`, puts the replies back on the
wire, and then calls `Node.tick` of every running node.  `propose`, `crash`,
`restart` and `compact` are called between ticks.  There is no shared state other
than the network.

What is hard in it: the order of messages of different terms; an answer that is
about an older question; elections that split or overlap; a crash between an
answer and its use; compaction while old messages are on their way; appends that
carry only part of what is missing (`MAX_BATCH`); a candidate whose timer runs
out.  `PROJECT.json` lists each hazard with its line and the properties that
would notice it going wrong.

### Around the core

| Part | State and operations | What makes it correct | Here |
|---|---|---|---|
| `transfer.py`, `priority.py` | the leader found at the start, driven over many ticks; `hand_over`, preferred timeouts | only a leader sends appends | `Transfer`; a preference is a transfer or a shorter timer |
| `client.py`, `machine.py` | a session table beside each machine; `send`, `retry`, `run` | a request takes effect once, and has one answer | `Sessions`, `Machine` |
| `lease.py` | a lease with drift; a loop that reads while the majority goes on | no read after another leader may have committed | `Lease` |
| `membership.py`, `learner.py`, `quorum.py` | the members, the older side of a joint configuration, listeners | any two deciding sets meet, across changes | `Membership`, `Quorums` |
| `persist.py` | a disk behind the memory; `write`, `restore` | nothing is answered that a crash can take | `Persist` |
| `keyspace.py`, `rebalance.py` | groups that tick side by side; the phases of a move | one group's writes before the other's | `Rebalance` |
| `expire.py` | leases on keys, one store for each replica | the replicas agree, and no key outlives its lease for long | `Expiry` |
| `watch.py` | watchers that go and come back | no event missed or seen twice | `Watch` |
| `net.py`, `partition.py` | messages with a due time, groups, one-way cuts | what the core takes for granted of a network | `Network`, `Channel` |
| `verify/linearize.py`, `history.py` | a history; a search with a budget and a cache | the verdict the definition has | `Linearize` |
| `verify/invariants.py` | a finished run | an alarm is a breach, and it is clear what is not seen | `Checkers` |
| `verify/faults.py` | an account of who is down; a schedule, injected tick by tick | every fault does something | `Faults` |
| `verify/explore.py` | queue and seen set over worlds | what it claims about worlds it has not tried | `Explore` |
| `verify/fuzz.py` | the smallest failing schedule so far | it still fails, and cannot be cut | `Shrink` |
| everything else | measurements and harnesses | they count ticks, messages and bytes | section 6 |

## 2. Modules

| Module | Content |
|---|---|
| `Log` | the log as a value `[base, baseTerm, entries]` and every operation on it as an operator |
| `Raft` | nodes, network, driver and compaction: one action per handler outcome |
| `CommitLog` | the abstract specification: one committed log that grows at its end, replicas apply prefixes of it |
| `RaftProperties` | the type invariant, the properties, and the refinement mapping to `CommitLog` |
| `RaftHistory` | `Raft` with a record of all votes cast and elections won, and the election invariant |
| `RaftRecord` | the same with a record of what every leader wrote and of who accepted it, and the invariant of the logs |
| `MCRaft`, `MCRaftHistory` | symmetry for TLC |
| `MCRaftServed` | an initial state in which the cluster has served and its leader has compacted and stopped |
| `MCElection` | the fair specification for the progress of an election and of a leader's first entry |
| `Transfer`, `MCTransfer` | `hand_over` driving the nodes of `Raft` from outside |
| `Channel`, `Network` | what a network promises; `net.py` with its clock and its cuts, which implements it |
| `Machine`, `Sessions` | the key-value machine; clients that retry, and the table that tells repeats from requests |
| `Lease` | a leader that reads under a lease, cut off from the majority |
| `Quorums`, `Membership` | majorities; the configurations in use while the membership changes |
| `Persist` | a node, its memory and its disk |
| `Rebalance`, `Expiry`, `Watch` | services over one or two groups |
| `Services`, `MCServices` | the components from `Network` to `Watch`, each on its own, for any constants; their small instances |
| `Repair` | the searches for the point where two logs part: four of `repair.py`, two of `log.py`, and the retries of `Node._on_appended` |
| `Linearize`, `Checkers` | the two judges of a finished run, and the definitions they are judged by |
| `Explore`, `Shrink`, `Faults` | the bounded search, the shrinking of a schedule, the drawing and injection of one |
| `Searches` | the five of the last two rows, each on its own, for any constants |
| `MCSearches` | `Repair` and `Searches` side by side, and their small instances |
| `LogProofs`, `RaftTypeProofs`, `RaftElectionProofs`, `RaftLogProofs`, `RepairProofs`, `NodeProofs`, `ServiceProofs`, `SearchProofs` | section 5 |

`Services`, `Searches` and `MCSearches` hold components that do not interact.  Their variable
`part` names the one whose behaviour this is, and never changes.  For TLC the others keep one fixed initial
state (`MCInit`, `MCBegin`), so the states of such a run are the sum of those of its components; the theorems are about
`Services!Spec` and `Searches!Searching`, where they start anywhere.

What does interact is composed by EXTENDS: `Transfer` over `Raft`, `Membership` over
`Quorums`, `Sessions` and `Linearize` over `Machine`, `Persist`, `Repair` and `Checkers` over
`Log`.  Two seams are stated as specifications of their own.  `CommitLog` is what the
services take from the core: `ImplementsCommitLog` shows that `Raft` keeps it, and
`Sessions` starts from it.  `Channel` is what the core takes from the network, a
bag of messages: `NetworkKeepsItsWord` shows that `net.py` keeps it.

Definitions named `Wrong...` are not the code.  Each is the definition after it
with a plausible mistake, and `PROJECT.json` says which property notices it.

### How `Raft` corresponds to the code

* Variables are the fields of `Node`, one function over the nodes each.  `term`,
  `votedFor` and `log` survive `Restart`; every other field of the node starts
  afresh, as in `Cluster.restart`.
* `net` is a bag.  `Network.send` settles a message's fate when it is sent:
  `Exchange` keeps any subset of what a step sends and drops the rest, which
  stands for losses and partitions.  What it keeps is delivered once, in any order.
  The network never repeats a message, but equal messages may be sent twice, so a
  bag and not a set; `MaxCopies` bounds how many equal ones there are.
* A tick of the cluster is taken apart into its calls.  `Deliver` is `Node.step` on one
  message and `Drive` is everything else.  Timers are left open: `Stand` may
  happen whenever the node does not lead, `Heartbeat` whenever it does.
* The term rule at the head of `step` is in `Stale`, `Ahead` and `Join`; every
  action of a handler includes it.  `AcceptAppend` includes the commit and the
  application that the handler makes, `Acknowledge` the whole of
  `_on_appended`'s success branch with `advance_commit` and the next append.
* The state of the key-value machine is one register, the only thing `_apply`
  does being to assign.
* An exception that leaves a handler leaves `Cluster.tick` too: `raised` ends the run.
* `ledger` is history: the committed log with the term of the leader that committed each entry.

Left out because no guard of the code reads it: the leader hint, the read id, the
counters, `InstallSnapshot.members`.  A cluster of one is excluded by
`ConstantsAssumption`, and `commit_any_term` is FALSE, which it is in every `Cluster`.

### How `Repair` corresponds to the code

The strategies share one state: `high` is the index to ask about next, or the end
of the range that a bisection has left, and `probes` counts round trips.
`GoBack` is one turn of the loops that go back, with `Retreat` the index each goes
to; `Halve` is one turn of the loop of `bisect`, which the hybrid enters through
`GiveUp`.  A probe is an append without entries, so neither log changes.
The precondition, `Match`, is log matching together with the fact that the entries of a
term begin at one index in every log; both hold of logs that the core writes, and of
the pairs that `_tail` makes for the measurements.

One strategy is different: the walk of `reconcile_by_conflict_term` jumps over the follower's
whole run of the term it disagrees on, even if the leader has the beginning of that
run, so it may land before the agreement point.  That is safe (a few entries are sent again), and
`InReach` and `FindsThePlace` say so.  `_next_index` and `_skip_term` look
for the leader's last entry of the term instead, and land on the point.

### How the other modules correspond to the code

* **`Transfer`.**  `hand_over` reads the leader once (`HandOver`) and then, tick by tick, sends the
  target what it lacks (`CatchUp`), tells it to stand (`Tell`) and waits (`Conclude`, `Abandon`).
  Any step of `Raft` may come in between, the one that deposes the boss included.
* **`Network`.**  `flight` is the list of the same name; `Send` settles loss and delay at once, `Tick`
  hands over what is due in the order of sending.  `Reachable` is the network's own rule and, over it,
  that of the cuts of `partition.py`.  The refinement maps `flight` to the
  number of copies of each message and `delivered` to the messages alone.
* **`Sessions`.**  Each replica runs the committed requests through its own table and its own machine, as
  `Sessions.run` does, and a restart runs them again from nothing.  That a copy
  is committed at any time, in any order or never is the core's promise, not an assumption of its own.
* **`Machine`.**  `Apply` gives all pairs of a state and an answer.  It keeps the difference between a
  missing key and one that holds `None`, the amount 0 that counts as 1, and the refusal of an increment.
* **`Lease`.**  The holder reads once a tick.  The other side is the core reduced to what the lease can
  be hurt by: the four things it has to do before a write is committed, each no earlier than
  the timers and delays of `node.py` and `net.py` allow.
* **`Membership`.**  A change is an entry that nodes learn at different times.  `use` is the set of
  configurations somebody may go by; `Settle` and `Adopt` drop those that a commit has made powerless.
  Configurations and rosters are two kinds of the same state, since their quorum rule is one.
* **`Persist`.**  The handlers of a vote and of an append, `Disk.write` and the answer as four steps that a crash
  may separate, for the two orders of write and answer and for each list of fields kept.
* **`Rebalance`.**  A step is a round of `run_move`: the phase, a write if it is time for one, and whatever the two groups commit.
  A group is its list of writes and how many are committed.
* **`Expiry`, `Watch`.**  A step of `Expiry` is a round of the loop of `run`; `Watch` has an action for
  each method of `Feed` and lets watchers come back from an index or from now.
* **`Linearize`.**  First a history is recorded (`Call`, `Return`, with right and wrong answers), then the recursive `walk`
  runs with its stack made explicit, a step for each call and for each operation tried.
* **`Checkers`.**  A run is given as data; `Inspect` makes the five checks as the code makes them, with the loops
  that stop early.  The definitions at the end of the module say what each is named for, over the whole run, which the checks do not see.
* **`Faults`.**  `Draw` is one round of `random_schedule` with its own account of the cluster; `Tick` is a
  tick of `run`, where `_apply` looks at the real one.
* **`Explore`, `Shrink`.**  The world graph and the set of failing schedules are given and arbitrary;
  the loops over them are those of the code.  The queue holds worlds, the seen set holds keys, and a key (`shape`) is any function
  of a world: that of `World._shape` leaves out `next_index`, `match_index`, the votes and what has been applied, so
  worlds that go on differently may be merged.

## 3. Runs

| Run | Asks | Bounds | States, about |
|---|---|---|---|
| `raft_core` | logs agree; committed entries stay with later leaders and a majority; the cluster implements `CommitLog` | 3 nodes, 2 may stand, terms 1..3, 2 writable indices, 2 messages in flight | 530 000 |
| `raft_elections` | one leader per term over the whole run; every leader's votes were cast; logs, appends and answers agree with the record of what leaders wrote and followers accepted | as above with one crash and restart, nothing lost, 3 messages in flight | 380 000 |
| `raft_prevote` | with pre votes terms stay together, through a crash and a restart | 3 nodes, terms 1..3, 2 messages, one crash | 1 460 000 |
| `raft_served` | compaction, snapshots and restarts keep what was committed and applied | start after a served term, one entry per append, terms 2..3 | 500 000 |
| `raft_calm` | a leader is elected, and one that stays commits its first entry | 3 nodes, no loss, fair | 16 000 |
| `services` | the eight components of `Services` keep what they promise | below | 820 000 |
| `searches` | the six searches of `MCSearches` find what there is, and end | below | 690 000 |
| `stale_refusal` | *violated*: replicas apply the same entries | one entry per append, terms 1..4 | |
| `snapshot_ack` | *violated*: what is committed is on a majority | compaction, one message in flight | |
| `restart_state` | *violated*: a replica's state is what the log gives | start as `raft_served` | |
| `prevote_stall` | *violated*: a leader is elected, with pre votes | 2 nodes, no loss, fair | |
| `transfer_deposed` | *violated*: what is applied is never cut from a log | a transfer from a leader that is deposed meanwhile | |

**Why the bounds of the core are enough for the cases that matter.**  Three nodes are the
smallest cluster in which a majority can leave somebody out, and two contenders give
overlapping candidacies; the third node is the voter both want.  Three terms make
a leader, its successor and the return of the first; an empty entry per leader
plus two writable indices give conflicting tails of length up to two.  Two
messages at a time are enough for one to overtake another, and with losses every
longer schedule is cut down to such pairs.  `raft_elections`, which carries the two records, loses
nothing and has three instead: a message that is never handed over stands for a lost one.  `raft_served` starts deeper because a
compacted log needs a commit first: the state it starts in is one that the core
reaches (an election of n1, two entries committed and applied everywhere,
`compact` at 2, one more write, and a crash).

**`services`.**

| Part | Instance | What that is enough for |
|---|---|---|
| sessions | 2 replicas, 3 requests of 2 clients sent up to twice, a log of 3, one restart or forgotten client | a copy before and after another client's request, two requests of one client, a replica that runs the log again |
| lease | the timers of the code (10, 3, 1), lengths 5, 10, 15, drifts 0 to 12, 30 reads | leases that end before, at and after the boundary |
| membership | 4 nodes, 3 configurations in use, all initial memberships | two rival changes, of odd and even sizes, inside each other too |
| persist | 2 candidates, 2 terms, logs that part at their second entry, a disk that lacks the log or the vote, one crash | a vote or an acknowledgement of the first term after a crash in it |
| rebalance | 6 writes, one or two ticks apart, copies of 0 to 8 ticks | a move that ends in the run, and one that does not |
| expiry | 3 replicas, 40 ticks, 4 leases of 9, three values of each interval | leases that overlap and that do not, sweeps that miss the end by all but one tick |
| watch | 2 watchers, 2 keys, indices up to 4 with gaps | several absences, either way of coming back after either |
| network | 3 members, delays of 1 or of 1 to 3, 2 messages, one partition or cut each way | an overtaking, a message under way when the link goes |

**`searches`.**

| Part | Instance | What that is enough for |
|---|---|---|
| logs | all pairs of logs of up to 5 entries, terms 1..4; limit 5, patience 2 | every shape of a divergence, walks that run into the limit, a hybrid that ends early and one that goes on |
| history | up to 3 operations of four kinds, right and wrong answers, budgets of 4 and 50 | concurrent and sequential calls, calls without an answer, a budget that runs out inside nested walks |
| worlds | 6 worlds, all 512 subsets of nine moves, one of two worlds bad, depths 2 and 3, budgets 5 and 7; a key that tells all apart and two that merge a pair | a world with two paths of different lengths, cycles, a cut by either bound, a world dropped for another that goes on differently |
| schedule | 3 faults, runs of 5 or 3 ticks, every set of failing schedules | a cut that makes another one possible |
| faults | clusters of 1 to 3, 4 faults in 8 ticks | every order of the four kinds |
| runs | two logs of up to 3 entries or three of up to 2, compacted or not; three replicas with up to 2 commands; two moments of two nodes; two that know a commit, at one moment or at two, and a leader | the third log that a loop misses, the short list, the late leader, the leader that has compacted, an entry of an older term known in a later one |

**Where the passing runs stop short on purpose.**  With four terms and an append
that cannot carry the whole log, `stale_refusal` shows applied entries that
differ.  `raft_core` therefore has `MaxBatch` at least as large as the log, and
`raft_served`, with one entry per append, stops at term 3.  The real batch is 64
entries, so the refusal must meet a longer log there.  `raft_core` has no compaction, because
of `snapshot_ack`; in `raft_served` one leader at most follows the first, and the one entry
the first left behind does not reach past any snapshot it could conflict with.  Likewise
`NobodyDecidesApart`, `LeaseReadsAreCurrent`, `TakesEffectOnce`, `AnswerStands`, `VerdictIsRight`, `SearchIsSound`,
`AlarmsAreReal`, `ViolationsAreFound` and `CommitsAreTruthful` each say in their text what they leave out.  All these limits are
the findings seen from the other side.  The exception of `CommitsAreTruthful`, a follower that ignored a snapshot and is counted
for what it has not got, does occur in `raft_served`: it commits nothing false there, since the one
entry that conflicts is not past the snapshot, and in `snapshot_ack` it does.

**Deadlock.**  All configurations say `CHECK_DEADLOCK FALSE`.  The bounds on terms,
log, messages and crashes stop a model that the program would let run on, loops and searches end,
and after `raised` the program itself has ended.

**Symmetry** permutes the nodes that may stand among themselves, and those that may not; in `MCRaftServed`
the node that led is kept apart; in `MCServices` it permutes replicas, candidates, watchers and random values.  The
runs that check progress use none.

**Fairness.**  Three modules state any.  `Repair` has `WF(Next)`: a search is a loop in
one function, or the exchange of a leader whose appends arrive.  `Linearize` has `WF(Search)`: the
check of a complete history is one function too, while recording it may stop anywhere.  The rest is in `MCElection`.
`WF(Deliver)` and `WF(Asked(n))`:
`Network.tick` hands over a message when its delay, at most a few ticks, is over,
so none waits for ever while others pass.  `WF(TimesOut(Steady))`: `Cluster.tick`
calls `tick` of every running node and its deadline comes.  Two restrictions make it
the luckiest case: from term 2 on only one node's timer runs out first
(the timers are redrawn at random, so a run of equal draws has probability zero in the limit), and
a node that has asked hears the answers before it asks again (10 to 20 ticks against two delays of at
most 4).  `raft_calm` shows that this is enough without pre votes, though everybody may
stand in term 1 and split the vote; `prevote_stall` shows that with pre votes it is not.

## 4. Findings

`PROJECT.json` quotes the lines that each of these disagrees with.  With a run that shows them:

1. `stale_refusal`: the refusal of an older term's append carries the current
   term (`node.py:318`) and can be taken for a refusal of the new term's append;
   with a capped batch the follower then commits up to the end of its own
   log (`node.py:401`).  Two replicas apply different entries at one index.
2. `snapshot_ack`: a follower that ignores a snapshot acknowledges its
   own end (`node.py:542`), conflicting or not, and the leader counts it.
3. `restart_state`: `restart` keeps a compacted log and drops the state below it (`cluster.py:204`).
4. `prevote_stall`: under `pre_vote` a candidate that lost keeps its role and never
   counts a pre vote again (`node.py:375`).
5. `transfer_deposed`: `hand_over` goes on sending the appends of a node that leads no more
   (`transfer.py:91`); they cut applied entries from their receiver's log.

Without a run of their own, each seen at a guard or an assumption that a model needed:

* *Core*: two exceptions that leave the handlers (`node.py:430` and `495`, actions `ConflictRaises` and
  `AcknowledgeRaises`); a refused follower that is never sent the snapshot it needs (`node.py:474`); the label
  of the snapshot message (`node.py:248`).
* *Around it*: a refused request is not remembered (`client.py:83`); the boundary of a lease lies elsewhere (`lease.py:318`); a
  change inside an open one drops the older side (`membership.py:92`); a disk without the index of the
  snapshot (`persist.py:70`); a move that waits for no commit (`rebalance.py:179`); an index taken
  for a commit (`watch.py:153`); a stream cut inside a frame (`wire.py:288`).
* *Checkers*: leaders of a term compared by moment (`verify/invariants.py:116`), each log with itself (`:140`), with the
  first log that holds the index (`:167`), by the term of the entry and with compacted entries taken for lost ones (`:235`), up
  to the shortest list (`:262`);
  an unanswered operation that cannot be placed (`verify/linearize.py:160`); worlds met first at the end of a long path, and worlds taken
  for equal (`verify/explore.py:437` and `147`); a schedule for a cluster of one (`verify/faults.py:249`).

## 5. Proofs

The proofs about types and elections hold under `ConstantsAssumption` alone: a finite set of at least two nodes, any
commands, any bounds, with or without pre votes, compaction and losses.  Those about logs add what the code needs
for them to be true, said below.  Each of the others has one assumption, named where it is described.

* `LogProofs`: the operators of `Log` return logs, sequences of entries and natural numbers on
  the domains they are applied to (`MergeType`, `CompactType`, `ConflictType`, ...), and
  `SkipTermBound`: after a refusal the leader retries at its first index or later.
* `TypeCorrect == Spec => []TypeOK` (`RaftTypeProofs`).  `TypeOK` is inductive.  One
  lemma per action; the work is in the log arithmetic (no index of a
  refusal or of a retry goes below its range) and in the bag.
* `VotesStand == Spec => VoteStands`.
* `LeadersAreElected == HSpec => []ElectedByBallot` and
  `ElectionSafety == HSpec => []OneLeaderPerTerm` (`RaftElectionProofs`).

**Why the election invariant is what it is.**  `OneLeaderPerTerm` speaks of leaders only, and
nothing in one state says why a leader leads: it clears its `votes` when it wins, its
voters move on to later terms and forget, and its messages are gone.  So the invariant
is about a record that no step reads: the ballots ever cast.  `ElectedByBallot` says that
each node's latest ballot is on its disk (`BallotsOnDisk`), that nobody has two ballots
in a term (`OneBallotEach`), that every vote on the wire or counted by a
candidate was cast (`BallotsCounted`), and that everybody who ever led had
a majority of ballots in that term (`ElectedByMajority`).  Two majorities share a
node (`MajoritiesMeet`), which has one ballot, so two leaders of a term are one.

The proof does not go through the invariant action by action.  `NextStep` shows that every
action is, for elections, one of few things that one node can do (a `BallotStep`: take
a later term and forget the vote, cast a vote when there is none, count a vote that came,
take office with a majority), and `BallotStepKeepsElections` that those keep the invariant.

**Terms under pre votes.**  `TermsKeepTogether` (`PreVote`): `TermsStayTogether`.  No term in the system, on
a node or in a message, is further from a majority's than one, and the pre votes a node has counted are those of nodes that
are in its term or later (`TermsAreNear`).  So whoever stands has a majority with it that is one term behind at most.  Terms only
rise, so what was said in an old message still holds.  `NextTermStep` reduces the actions to a `TermStep` first.

**The logs** (`RaftLogProofs`).  The argument is the one of elections again, one level up.  Nothing in one state says
which entries an old leader wrote, or that a follower had an entry before it moved to a later term, and
both decide what may be elected and counted.  `RaftRecord` therefore adds two records that no action reads: `lines`, the
log of each term's leader, and `accepted`, who has ever held an entry of a term while in that term.  Over them
`LogsAgree` is inductive:

* every log and every append is made of pieces of `lines` (`LogsFollow`, `AppendsFollow`, `LinesAreLed`), which gives
  `LogsMatch` and `LogsInOrder`;
* what was accepted was written, and is kept unless a majority has moved on without it, so that it can never be
  counted (`AcceptedAreWritten`, `AcceptedAreKept`, with `Lost`);
* a candidate has what each of its voters had accepted (`CandidatesKnow`; the requests under way describe the
  candidate that sent them, `RequestsAreTrue`), so a leader has everything that earlier leaders
  wrote and that is not lost (`LinesAreComplete`).  This is where the comparison of last terms before lengths is used;
* what an answer says, and a leader remembers, is true (`AnswersAreTrue`), which gives `LeadersBelieveTruly`, so what a leader commits was accepted
  by a majority (`LedgerIsChosen`).  A majority that accepted and one that lost share a node, which gives
  `LeadersAreComplete` and `CommittedStays`.

As before, the actions are first reduced to what they can do to one node's log (`Step`: it stays, the leader
writes, an append is accepted), and `LogsAgree` is shown part by part for a `Step`.  `LeadersSend` (an append or a request
was sent by a node that led or stood) and `LeadersAppendOnly` need no record of logs and hold with compaction too.

From `LogsAgree` to what is applied there is one more invariant, `CommitsAreSafe`: what a node has committed, and what an
append announces, comes before an entry that a majority accepted.  It gives `MachinesAgree` (`StateMachineSafety`),
`AppliedStay`, `CommitsOnlyRise`, `MachinesFollowLog` and `ClusterImplementsLog`: every step of the cluster is a step of `CommitLog`
or a stutter.

Two conditions are in these theorems because the code needs them.  *No compaction*: with it a leader may count
what a follower does not hold, which `snapshot_ack` shows.  *`CommitIsCarried`*, only for what is applied: no append announces a commit past
its own last entry.  The code does not see to it; a batch cut short breaks it, and `stale_refusal` shows what
follows.  `CommitsAreCarried` proves it as long as no log is longer than a batch (`LogsFit`), and `ShortClusterImplementsLog` proves that
from the constants: an entry of term t lies at `MaxLog + t - 2` at the most (`LogsAreShort`: each leader begins with
one entry of its own, and the others are writes), so `MaxLog + MaxTerm <= MaxBatch + 2` is enough.  The
constants of `raft_core` satisfy it; its theorem has no other hypothesis than such bounds.

`CommitsOnlyRise` speaks of clusters without compaction, while `raft_served` checks the same property with it, in a
small instance.

**The searches for where logs part.**  `NeverPastThePlace == Spec => []InReach` and
`EverySearchFindsThePlace == Spec => []FindsThePlace`, under `RepairAssumption`: any set of logs whose terms
never go down and any limits.  `AcceptedIfAgreed` shows that a follower accepts a
probe exactly up to the agreement point, which makes the question monotone and a bisection
sound.  `RefusalIsPast` shows that what a refusal names lies past the point: the index does, or,
if the leader has the term, everything after its last entry of it does, because terms
never go down in either log.  From these, `RetreatStops`: no step goes past.  `IInv` adds to the two properties the range of
`high` and which strategy is in which phase, without which a search that gives up could not be known to be a
limited one.

`SearchesCostAsSaid == Spec => []Cost` adds what each search has paid so far (`PriceInv`).  Going back one at a time, probes
and indices given back keep one sum.  With skipping a refusal costs a term: the follower's run of the term it
named lies behind the next question (`BeforeTheRun`, `WhereSkippingGoes`), and a term is not paid for twice because it begins at
one index in both logs (`LastOfTermIsAgreed`).  While a bisection runs, what is left times two to the number
of probes is at most the length.  The provers know no powers, so `2 ^ n` is taken as the number of subsets of
`1..n` (`PowerOfTwo`, `PowerDoubles`).  The attempt corrected the property in two places: a hybrid whose patience alone uses up the
limit gives up without a bisection and has not paid for one, and a search that nothing limits goes on
after the count has stopped at `MaxProbes`, so nothing is said of its price then.

**The services.**  The theorems of `NodeProofs` and `ServiceProofs` are about `Services!Spec`, and
their properties are the ones that the run `services` checks.  The one assumption is `ServicesAssumption`, which
names what each component asks of its constants.  Each group of proofs begins with the fact that a behaviour of
`Services` is one of its component (`LeaseMoves`, `SessionsMove`, ...), and goes on in the component alone.

*Leases.*  `CurrentReads` (`LeaseConstants`: timers and lengths are natural numbers, the shortest delay is not 0):
a lease that has ended by `EarliestWrite` never serves a stale read.  The invariant `LeaseInv` says
for each stage of the other side how early it can have come there; the last of these is the boundary.
The bound is not sharpened by the choice of numbers: it is a sum of the timers for any of them.

*Sessions.*  `SessionsConstants`: `Absent` is no value and no answer, and a client asks for what the machine knows.
`EffectsAreOnce` needs that the table is right about its own replica (`TableIsTrue`): what it remembers has taken effect there,
and what has taken effect is remembered.  `AnswersStand` relates replicas with each other and with answers long given, and
no replica's state says what another will do.  Its invariant, `OneRun`, says that there is one run of the committed log, a
function f with f[i] what the first i requests make of machine and table, and that every replica is at a point of
it and every answer in the table at its end.  A commit prolongs f, a run of one request moves a replica along it, and a
restart puts it back at f[0].  This is where a command must be a function of the state: with `NOW` there is no such f.

*A node and its disk.*  `PersistConstants`: terms are positive, `None` is no candidate, and the leaders' logs
match, which is what `LogsMatch` proves of the core.  `VoteSurvivesCrashes`: a vote once cast can be read off the node's
memory, and, when the write comes first, off its disk; between the two it is in the reply that has not
left.  `PersistInv` is these facts, and that a fresh disk equals the memory.  `AcknowledgedSurvivesCrashes` is the same with logs
(`AckInv`): for every acknowledgement whose entries no later leader is without, the memory has them, the disk has
them, and an append from any later leader leaves them alone (`MergeOfPart`, which the core's proofs use too).

*Configurations.*  `MembershipConstants`: finitely many nodes.  `DecisionsMeet`: as long as no change was
begun inside another, all configurations in use need a majority of the same members (`AllCount`), or, for
rosters, of members of whom one set has one node more (`AllNear`); and such majorities share a node
(`NearMajoritiesMeet`).  The part that survives overlapping changes is that each configuration meets the one it was made from
(`StepsMeet`).  `QuorumRuleIsExact`: a set of the first size and its complement are the pair that is disjoint when the sizes
do not add up to more than all.

*Keys that expire.*  `ExpiryConstants`: intervals are positive.  `StoresExpireTogether`: what has been granted is counted, and none of it
goes before its lease has ended (`GrantsStand`).  By the clock, what a replica holds
is what its own skewed clock leaves of the pending leases (`ClocksLeave`), so two replicas differ by what lies between two clocks.
Through the log, all hold the same, and nothing that was over at the last sweep is left (`SweepsTake`): the last
sweep is the tick without its remainder, and the remainder goes up by one or back to zero.

*Moves.*  `RebalanceConstants`: the same of its intervals.  `MovesAreOrdered`: the phase is a function of the tick (`OnSchedule`), so the source
takes nothing after the freeze has begun and the destination nothing before the hand over (`TakenInTurn`), and the attempts
are the multiples of the interval (`Attempts`), which gives how many are refused.

*The network.*  `NetworkConstants`: a delay is at least one tick, and the longest not below the shortest, as `Conditions` checks.
`NetworkIsAChannel` (`NetworkKeepsItsWord`): every step is a step of `Channel` or a stutter, for any
members, cuts and delays.  A tick takes from the wire as many copies of each message as it hands over, because what
is due is handed over each once (`EachIsOnce`).  `NetInv` knows of every message, under way or delivered, when it was
sent and due: one that was handed over before another was due earlier, or was due in the same tick and sent earlier (`InOrder`), from
which it follows how far apart two messages can be of which one overtakes the other.

*Watchers.*  `WatchConstants`: the bounds on indices are natural numbers.  `WatchersMissNothing` (`SeenIsWanted`) for any number of watchers that come and go as
often as they like.  `FeedInv` says of each watcher, connected or not, that what it has been handed rises in index and is, as a
set, what is due up to where it stands (`StandsAt`); the index it left with is where it stands, which is why
`since` of that index is neither one too early nor one too late.  The order follows from the set: two
rising lists of the same events are one (`OneOrder`).

**The searches of `verify/`** (`SearchProofs`).  The theorems are about `Searches!Searching`, under
`SearchesAssumption`, which names what each part asks of its constants.

*The check of a history.*  `VerdictsAreRight` and `WhatIsLeftCannotFinish`, for histories of any length and any
answers (`LinearizeConstants`: commands of the four deterministic kinds, and a `Refused` that is no value).  A set of operations is
`Explained` when some order of it respects real time and a run of the machine gives the recorded answers; the
empty set is, and placing one more operation as the search does keeps it so (`OneMoreExplained`), so every position
reached is explained, and the success is one.  For the failure, `HistoryInv` says what the depth first search has done: a position that has been left leads only
to positions that have been left, and one still on the stack leads through operations already tried only to
positions that have been seen (`LeftIsClosed`).  The stack holds one position of each size, so what a walk leaves
cannot be waiting below it.  When the outermost walk fails everything seen has been left, so nothing leads
out of it, and any order that explained more would (`OrderStays`).  The same fact gives the cache, and the longest prefix.  Two things
come from the recording: each stamp of the clock is used once (`Stamped`), without which the search and the
definition would differ on ties, and what is never refused and has no answer can be placed last (`RestIsExplained`), which
is why an unanswered increment is excepted.

*Worlds.*  `WhatIsSearchedIsSeen` (`ExploreConstants`: each world has finitely many successors and a key).  What is said of all worlds is that a
reported one is bad and as far away as said.  What an exhausted search has seen, and what is nearest, is said of the
worlds that can be reached through worlds told apart by their keys (`ToldApart`): such a
world may be dropped for another of its key, which leads to the same keys and finds the same of them bad.  For each key that has been seen, some world of it is done with, in
the queue, or at the frontier (`NoneIsLost`); breadth first, the queue holds at most two depths, in order (`NearestFirst`), so
the key of whatever is nearer than its head has been seen (`NearAreMet`).  The key of the code does not tell every world apart, so
an exhausted search of the code shows less than its text says; that is the finding at `verify/explore.py:147`.

*Schedules.*  `ShrinkingEndsAtALeast` (`ShrinkConstants`): no cut tried since the last that was kept fails (`CutsTried`), and a kept cut takes a fault or
moves to a shorter length, which bounds the runs (`RunsPaid`).  `NoFaultIsDrawnInVain` (`FaultsConstants`): each fault of a schedule finds something to
do after those before it (`EveryFaultFinds`), and the cluster is where those that have come left it
(`InjectedSoFar`), so what the generator took for true while it drew is true when the fault comes.

*Finished runs.*  `WhatIsReportedIsSo` and `WhatCannotBeMissedIsFound` (`CheckersConstants`: what a view of a node consists of, and that
no node is in an earlier term than its entries; nothing else is assumed of how the run came about).  What is reported of elections, logs and
applied entries is a breach.  What is reported of leader completeness need not be, after ordinary changes of leader too, and `MayBeFalse`
names the leaders of whom it may be wrong: one that has compacted the entry; one in a term no later than that in which the entry,
written in an older term, was first known to be committed; and one that lacks what the knower's log got later in place of the entry.
Of what cannot be missed, the last part is about such leaders from the other side: `leader_completeness` keeps for each index
the entry of whoever is looked at first, as it is at the end (`verify/invariants.py:229`), so a leader without the command
is found only if what was known to be committed is what the check holds it to be.  Its term is then past the entry's, since it is past that of
the node that knew.

**What stays with TLC**:

* everything about compacted logs and snapshots: `SnapshotIsCommitted`, `CommitsAreTruthful`, and the theorems about logs where
  `Compaction` is TRUE, which hold only within the bounds of `raft_served`;
* that the searches end, which is liveness even where their cost is proved;
* progress under fairness, which is out of the prover's reach, as is what the recursive functions compute.

## 6. Not modelled

`PROJECT.json` gives the reason for each component.  By kind:

* **Measurements.**  Most lines of the package are functions that set up a cluster, run it and return a dictionary of
  numbers; every module ends with them.  They have no state of their own, and what they compute is a count of
  ticks, messages or bytes of single runs.  All runs they make are behaviours of the modules above.  This is
  all there is in `recovery.py`, `rejoin.py`, `election.py`, `timing.py`, `batch.py`, `replicate.py`, `observe.py`, `idle.py` and `eval/`.
  The decision of `backpressure.py` is one comparison, and its queue is the uncommitted tail of the core's log.
* **Harnesses.**  `verify/differential.py`, `refine.py`, `soak.py`, `trace.py`, `coverage.py`, `reference.py` and the
  random half of `fuzz.py` drive the core with schedules and compare what they saw.  What they compare with is
  in `Machine`, `Checkers` and `Linearize`; the schedules are in `Faults`.
* **Text and bytes.**  `wire.py` (no cluster sends through it), `report.py`, `chart.py`, `cli/`.
* **Durations.**  The models of the core have no clock, so nothing is said of how long an election, a transfer or
  a recovery takes.  `Lease` and `Network`, which are about time, have one.
* **Reads.**  The three strategies of `client.py` are counted in messages there and have no code; a read from a node's own
  state is what `Lease` is about, a read through the log is a request of `Sessions`.
* **The worlds of `verify/explore.py`**, which are the core with every message in any order, that is `Raft`.
* **Pieces left out of modelled parts**: a crash of the boss in the middle of a transfer; `Snapshot.restore`, which the cluster does
  not call; a disk under a compacted log, which `restore` cannot load; the hash that places a key.

## 7. Plan

Done: the core with its elections (1), transfers, sessions and leases (2), membership (3), the disk (4), the services (5), the
network (6), the searches and judges (7), and the proofs of section 5: the core's logs and their refinement of `CommitLog`, the services with the network
they run on, the cost of the searches of `Repair`, and everything the searches and judges of `verify/` say.  Left, in the order of what a mistake would cost:

1. `SnapshotIsCommitted` for clusters that compact, under a condition that excludes what `snapshot_ack` shows.
2. Progress of a stable leader beyond its first entry, with a follower behind a snapshot, where `node.py:474` will show.

Reproduce a run with `tlc -workers 2 -config raft_core.cfg MCRaft`, a proof
with `tlapm RaftElectionProofs.tla`; `PROJECT.json` names the module of each run.

------------------------------ MODULE Checkers ------------------------------
(***************************************************************************)
(* The five checks that rsm/verify/invariants.py makes of a finished run,  *)
(* against the properties they are meant to check.                         *)
(*                                                                         *)
(* A run is what the cluster recorded of it: one moment for each tick,     *)
(* with a view [role, term, commit, log] of every node that was running,   *)
(* and what each node has applied.  The log in a view is more than the     *)
(* code's Snapshot holds: a check sees only the logs the run ended with,   *)
(* the definitions at the end see them all.  An entry is [term, command].  *)
(***************************************************************************)
EXTENDS Log, FiniteSets, Functions

CONSTANTS
  Runs,    \* bound: the runs that are inspected
  Cmd      \* the commands in them

Viewed == [role : STRING, term : Nat, commit : Nat, log : LogOf([term : Nat, command : Cmd])]

\* Every node ran at some moment; an index is committed only if it is in the log, or
\* compacted; what has been compacted does not come back; and a node is in no earlier term
\* than its entries.
IsRun(r) ==
  /\ IsFiniteSet(DOMAIN r.applied) /\ DOMAIN r.applied \subseteq Nat
  /\ \A n \in DOMAIN r.applied :
       /\ r.applied[n] \in Seq(Cmd)
       /\ \E k \in DOMAIN r.history : n \in DOMAIN r.history[k]
  /\ Len(r.history) \in Nat \ {0} /\ DOMAIN r.history = 1..Len(r.history)
  /\ \A k \in DOMAIN r.history : \A n \in DOMAIN r.history[k] :
       LET v == r.history[k][n] IN
       /\ n \in DOMAIN r.applied
       /\ v \in Viewed /\ v.commit <= LastIndex(v.log)
       /\ \A i \in 1..Len(v.log.entries) : v.log.entries[i].term <= v.term
       /\ \A j \in 1..k : n \in DOMAIN r.history[j] => r.history[j][n].log.base <= v.log.base

CheckersConstants == \A r \in Runs : IsRun(r)

VARIABLES
  run,        \* [history, applied]; a node is a number, its place in the membership
  inspected,
  broken      \* Report.broken

vars == <<run, inspected, broken>>

LEADER == "leader"

ELECTION_SAFETY      == "election_safety"
LEADER_APPEND_ONLY   == "leader_append_only"
LOG_MATCHING         == "log_matching"
LEADER_COMPLETENESS  == "leader_completeness"
STATE_MACHINE_SAFETY == "state_machine_safety"

Moments == DOMAIN run.history
Nodes == DOMAIN run.applied
View(k, n) == run.history[k][n]
Running(k) == DOMAIN run.history[k]
Leads(k, n) == n \in Running(k) /\ View(k, n).role = LEADER

\* The nodes that the run left running, and the nodes as it left them.
Up == Running(Len(run.history))
Left(n) == View(Max({k \in Moments : n \in Running(k)}), n)

\* The indices that two logs both hold.
Shared(l, m) ==
  Max({FirstIndex(l), FirstIndex(m)})..Min({LastIndex(l), LastIndex(m)})

-----------------------------------------------------------------------------
(* The checks.                                                             *)

\* election_safety: one moment at a time.
ElectionBreached ==
  \E k \in Moments : \E m, n \in Running(k) :
    m # n /\ Leads(k, m) /\ Leads(k, n) /\ View(k, m).term = View(k, n).term

\* The moment that `seen' is about: the last in which n led, or its first.
SeenAt(k, n) ==
  LET led == {j \in Moments : j < k /\ Leads(j, n)}
  IN  IF led # {} THEN Max(led) ELSE Min({j \in Moments : n \in Running(j)})

\* The index and term of every entry, at moment k: those of the log at the end.
Shape(k, n) ==
  LET l == Left(n).log IN [i \in 1..Len(l.entries) |-> <<l.base + i, l.entries[i].term>>]

\* leader_append_only.
AppendOnlyBreached ==
  \E k \in Moments : \E n \in Running(k) :
    LET before == Shape(SeenAt(k, n), n)
        now    == Shape(k, n)
    IN  /\ Leads(k, n) /\ SeenAt(k, n) < k
        /\ Len(now) < Len(before) \/ SubSeq(now, 1, Len(before)) # before

\* The first half of log_matching.  An index is compared with the first log that holds
\* it, in the order of the membership.
OneTermTwoCommands ==
  \E n \in Up : \E i \in FirstIndex(Left(n).log)..LastIndex(Left(n).log) :
    LET seen == Left(Min({m \in Up : Holds(Left(m).log, i)})).log
    IN  /\ At(seen, i).term = At(Left(n).log, i).term
        /\ At(seen, i).command # At(Left(n).log, i).command

\* The last index but one.
WrongPrefixesDiffer(l, m) ==
  LET agreed == {i \in Shared(l, m) : At(l, i).term = At(m, i).term}
  IN  /\ agreed # {}
      /\ \E i \in Shared(l, m) : i < Max(agreed) - 1 /\ At(l, i) # At(m, i)

\* The second half, _prefixes_agree: below the last index at which the terms agree.
PrefixesDiffer(l, m) ==
  LET agreed == {i \in Shared(l, m) : At(l, i).term = At(m, i).term}
  IN  /\ agreed # {}
      /\ \E i \in Shared(l, m) : i < Max(agreed) /\ At(l, i) # At(m, i)

MatchingBreached ==
  OneTermTwoCommands \/ \E m, n \in Up : PrefixesDiffer(Left(m).log, Left(n).log)

\* The moments and nodes that knew index i to be committed, if the log holds it at the end.
Knew(i) ==
  {w \in Moments \X Nodes :
     w[2] \in Running(w[1]) /\ View(w[1], w[2]).commit >= i /\ Holds(Left(w[2]).log, i)}

\* The earliest of them.
FirstToKnow(i) ==
  CHOOSE w \in Knew(i) : \A v \in Knew(i) : w[1] < v[1] \/ (w[1] = v[1] /\ w[2] <= v[2])

\* What leader_completeness takes to be committed at i: what that node's log has at the end.
Committed(i) == At(Left(FirstToKnow(i)[2]).log, i)

Without(n, i) ==
  \/ ~Holds(Left(n).log, i)
  \/ At(Left(n).log, i).command # Committed(i).command

Indices == 1..Max({LastIndex(Left(n).log) : n \in Nodes})

\* Every leader must have everything, one of an older term too.
WrongLacks(n, i) == Knew(i) # {} /\ Without(n, i)

\* A leader of a later term than the entry does not have it.
Lacks(n, i) == Knew(i) # {} /\ Left(n).term > Committed(i).term /\ Without(n, i)

CompletenessBreached ==
  \E n \in Up, i \in Indices : Left(n).role = LEADER /\ Lacks(n, i)

\* state_machine_safety: as far as every running node has come.
AppliedBreached ==
  Up # {} /\ \E p \in 1..Min({Len(run.applied[n]) : n \in Up}) :
    \E m, n \in Up : run.applied[m][p] # run.applied[n][p]

\* inspect.
Inspect ==
  /\ ~inspected
  /\ inspected' = TRUE
  /\ broken' =
       {p \in {ELECTION_SAFETY} : ElectionBreached}
         \cup {p \in {LEADER_APPEND_ONLY} : AppendOnlyBreached}
         \cup {p \in {LOG_MATCHING} : MatchingBreached}
         \cup {p \in {LEADER_COMPLETENESS} : CompletenessBreached}
         \cup {p \in {STATE_MACHINE_SAFETY} : AppliedBreached}
  /\ UNCHANGED run

Init ==
  /\ run \in Runs
  /\ inspected = FALSE
  /\ broken = {}

Next == Inspect

Spec == Init /\ [][Next]_vars

-----------------------------------------------------------------------------
(* The properties themselves, of the whole run.                            *)

OneLeaderPerTerm ==
  \A j, k \in Moments : \A m \in Running(j), n \in Running(k) :
    Leads(j, m) /\ Leads(k, n) /\ View(j, m).term = View(k, n).term => m = n

LogsMatch ==
  \A m, n \in Up :
    LET l == Left(m).log
        r == Left(n).log
    IN  \A i \in Shared(l, r) :
          At(l, i).term = At(r, i).term => \A j \in Shared(l, r) : j <= i => At(l, j) = At(r, j)

\* Every leader of a later term than that in which an entry was known to be committed
\* has it, or has compacted it.
LeadersAreComplete ==
  \A k \in Moments : \A n \in Running(k) : \A i \in 1..View(k, n).commit :
    Holds(View(k, n).log, i) =>
      \A j \in Moments : \A m \in Running(j) :
        Leads(j, m) /\ View(j, m).term > View(k, n).term =>
          \/ i <= View(j, m).log.base
          \/ Holds(View(j, m).log, i) /\ At(View(j, m).log, i) = At(View(k, n).log, i)

ReplicasAgree ==
  \A m, n \in Up : \A p \in DOMAIN run.applied[m] \cap DOMAIN run.applied[n] :
    run.applied[m][p] = run.applied[n][p]

\* A leader of a later term than the entry is without it and need not have it, or the
\* check has the entry wrong: the leader has compacted it; or leads in no later term than
\* that in which it was known to be committed, an older entry of a node that has gone on;
\* or the log of that node has another entry there by the end.
MayBeFalse(n, i) ==
  /\ Left(n).role = LEADER
  /\ Knew(i) # {} /\ Left(n).term > Committed(i).term /\ Without(n, i)
  /\ LET w == FirstToKnow(i)
         v == View(w[1], w[2])
     IN  \/ i <= Left(n).log.base
         \/ Left(n).term <= v.term
         \/ At(v.log, i) # Committed(i)

\* What inspect reports as breached really is, with one exception: an alarm of leader
\* completeness may be false if some leader at the end is without an entry that it has
\* compacted, or that was only known to be committed in the leader's term or later, or
\* that is not what the log which knew it had there then.  So no run is called broken
\* for a leader of an older term than the entry, for logs that are short, or for a
\* replica that is behind; a run in which a leader is a term behind those who know may be.
\* Of leader_append_only, which is never reported, this says nothing.
AlarmsAreReal ==
  /\ ELECTION_SAFETY \in broken => ~OneLeaderPerTerm
  /\ LOG_MATCHING \in broken => ~LogsMatch
  /\ STATE_MACHINE_SAFETY \in broken => ~ReplicasAgree
  /\ LEADER_COMPLETENESS \in broken =>
       ~LeadersAreComplete \/ \E n \in Up, i \in Indices : MayBeFalse(n, i)

\* What inspect cannot miss: logs that meet again after a difference; any difference of
\* logs when only two nodes run; replicas that differ, if all that run have applied
\* equally many; and a node that leads at the end, in a later term than some node had
\* when it knew an entry to be committed, and has neither compacted the index nor the
\* entry's command there.  This last it may miss if no log that knew as much still holds
\* the index, or if the first of those to know has another entry there by the end; and a
\* leader that no longer leads, or has the command in another term, it does not look for.
ViolationsAreFound ==
  inspected =>
    /\ (\E m, n \in Up :
          LET l == Left(m).log
              r == Left(n).log
          IN  \E i, j \in Shared(l, r) :
                i < j /\ At(l, i) # At(r, i) /\ At(l, j).term = At(r, j).term)
         => LOG_MATCHING \in broken
    /\ Cardinality(Up) = 2 /\ ~LogsMatch => LOG_MATCHING \in broken
    /\ ~ReplicasAgree /\ (\A m, n \in Up : DOMAIN run.applied[m] = DOMAIN run.applied[n])
         => STATE_MACHINE_SAFETY \in broken
    /\ (\E n \in Up, k \in Moments : \E m \in Running(k) : \E i \in 1..View(k, m).commit :
          LET knows == View(k, m)
              leads == Left(n)
          IN  /\ Holds(knows.log, i) /\ Knew(i) # {} /\ Committed(i) = At(knows.log, i)
              /\ leads.role = LEADER /\ leads.term > knows.term
              /\ i > leads.log.base
              /\ Holds(leads.log, i) => At(leads.log, i).command # At(knows.log, i).command)
         => LEADER_COMPLETENESS \in broken
=============================================================================

----------------------------- MODULE MCSearches -----------------------------
(***************************************************************************)
(* Small instances of the searches of rsm/verify, and of the one for the   *)
(* place where two logs part, of the module Repair.                        *)
(***************************************************************************)
EXTENDS Repair, Searches, TLC

CONSTANTS MaxLength, MaxTerm   \* bounds: the logs enumerated

SmallLogs ==
  LET logs == {[base |-> 0, baseTerm |-> 0, entries |-> es] :
                 es \in UNION {[1..n -> [term : 1..MaxTerm]] : n \in 0..MaxLength}}
  IN  {l \in logs : Ordered(l)}

-----------------------------------------------------------------------------
(* The commands of a history, and what a client may be told of each.       *)

CONSTANT text

Command(name, value, expected) == [name |-> name, value |-> value, expected |-> expected]

Replied == Command("set", text, None)             :> {text}
        @@ Command("delete", None, None)          :> {None, text}
        @@ Command("increment", 1, None)          :> {1, 2}
        @@ Command("compare_and_set", 1, None)    :> {Yes, No}

Commands == DOMAIN Replied

-----------------------------------------------------------------------------
(* The worlds of a bounded search: two ways of two lengths to each of 4    *)
(* and 5, and from there on to 6.  The key tells all of them apart, or     *)
(* does not tell 2 from 3, or 4 from 5, which may go on differently.       *)

Ways == {<<1, 2>>, <<1, 3>>, <<2, 4>>, <<2, 5>>, <<3, 4>>, <<4, 5>>, <<5, 4>>,
         <<4, 6>>, <<5, 6>>}

Graph(ways) == [w \in 1..6 |-> {x \in 1..6 : <<w, x>> \in ways}]
AllGraphs == {Graph(ways) : ways \in SUBSET Ways}
SomeShapes == {<<1, 2, 3, 4, 5, 6>>, <<1, 2, 2, 4, 5, 6>>, <<1, 2, 3, 4, 4, 6>>}

-----------------------------------------------------------------------------
(* A schedule of three faults, one of them in the half that is cut off.    *)

FiringThree == <<2, 3, 4>>

CutSchedules == {s \in [faults : SUBSET (1..3), ticks : {5, 3}] :
                   \A f \in s.faults : FiringThree[f] <= s.ticks}

-----------------------------------------------------------------------------
(* Finished runs.                                                          *)

FOLLOWER == "follower"
LEADER == "leader"

\* Their terms do not go down.
LogsWith(base, lengths, written) ==
  {l \in {[base |-> base, baseTerm |-> base, entries |-> es] :
            es \in UNION {[1..n -> written] : n \in lengths}} :
     \A i \in 2..Len(l.entries) : l.entries[i - 1].term <= l.entries[i].term}

Written == [term : {1, 2}, command : {1, 2}]

Seen(role, t, commit, l) == [role |-> role, term |-> t, commit |-> commit, log |-> l]

\* A run in which nothing is applied, and a moment of nodes with these logs.
Idle(history) == [history |-> history, applied |-> [n \in DOMAIN history[1] |-> << >>]]

Quiet(logs) == <<[n \in DOMAIN logs |-> Seen(FOLLOWER, 2, logs[n].base, logs[n])]>>

\* Two logs of up to three entries, or three of up to two, one of them compacted or not.
UnequalLogs ==
  {Quiet(logs) : logs \in [1..2 -> LogsWith(0, 0..3, Written)]
                   \cup [1..3 -> LogsWith(0, 0..2, Written) \cup LogsWith(1, 0..1, Written)]}

\* Three replicas that have applied up to two commands each.
UnequalReplicas ==
  {[Idle(Quiet([n \in 1..3 |-> EmptyLog])) EXCEPT !.applied = done] :
     done \in [1..3 -> UNION {[1..n -> {1, 2}] : n \in 0..2}]}

Views ==
  {v \in [role : {FOLLOWER, LEADER}, term : 1..3, commit : 0..1,
           log : LogsWith(0, 0..1, Written) \cup LogsWith(1, {0}, {})] :
     /\ v.log.base <= v.commit /\ v.commit <= LastIndex(v.log)
     /\ LastTerm(v.log) <= v.term}

\* Two moments of a node: terms rise, a log is compacted or extended.
Lives ==
  {l \in Views \X Views :
     /\ l[1].term <= l[2].term /\ l[1].log.base <= l[2].log.base
     /\ LastIndex(l[1].log) <= LastIndex(l[2].log)}

\* One node knows an entry to be committed and may stop; another may lead without it.
LateLeaders ==
  LET knows == {l \in Lives : /\ l[1].role = LEADER /\ l[1].commit = 1 /\ l[1].log.base = 0
                               /\ l[2].role = FOLLOWER /\ l[2].commit = 1}
      later == {l \in Lives : /\ l[1].role = FOLLOWER /\ l[1].commit = 0
                               /\ l[2].commit = l[2].log.base}
  IN  {<<[n \in 1..2 |-> lives[n][1]], [n \in up |-> lives[n][2]]>> :
         lives \in knows \X later, up \in {{2}, {1, 2}}}

\* Two nodes come to know an entry to be committed, at one moment or at another, and not
\* the same; a third leads at the end.
TwoKnow ==
  LET held    == LogsWith(0, {1}, Written) \cup LogsWith(1, {0}, {})
      knowers == {[at |-> k, log |-> l] : k \in 1..2, l \in held}
      moment(k, who) == [n \in 1..2 |-> Seen(FOLLOWER, 2, IF who[n].at <= k THEN 1
                                                           ELSE who[n].log.base, who[n].log)]
      leaders == {Seen(LEADER, t, l.base, l) : t \in 2..3, l \in held \cup {EmptyLog}}
  IN  {<<moment(1, who), moment(2, who) @@ 3 :> boss>> : who \in [1..2 -> knowers], boss \in leaders}

SmallRuns ==
  UnequalReplicas \cup {Idle(history) : history \in UnequalLogs \cup LateLeaders}
    \cup {[history |-> h, applied |-> [n \in 1..3 |-> << >>]] : h \in TwoKnow}

-----------------------------------------------------------------------------

\* Nothing to find: two empty logs.
Found ==
  /\ strategy = "walk_back"
  /\ mine = EmptyLog /\ theirs = EmptyLog
  /\ phase = "done"
  /\ low = 0 /\ high = 0 /\ found = 0 /\ probes = 1

\* An initial state, and one in particular for a search that stays there.
MCBegin ==
  /\ part \in Looks
  /\ (part # "history" => budget = 50) /\ L!Init
  /\ (part # "worlds" => /\ moves = Graph({}) /\ bad = {6} /\ shape = <<1, 2, 3, 4, 5, 6>>
                         /\ depth = 2 /\ limit = 7 /\ order = X!BREADTH) /\ X!Init
  /\ (part # "schedule" => failing = {F!First}) /\ F!Init
  /\ (part # "faults" => size = 1 /\ whens = 2..5) /\ D!Init
  /\ IF part = "runs" THEN K!Init
     ELSE run = Idle(Quiet([n \in 1..3 |-> EmptyLog])) /\ inspected = FALSE /\ broken = {}
  /\ IF part = "logs" THEN Init ELSE Found

MCStep ==
  \/ part = "logs" /\ Next /\ UNCHANGED searched
  \/ Step /\ UNCHANGED vars

SearchSpec ==
  /\ MCBegin /\ [][MCStep]_<<vars, searched>>
  /\ WF_vars(Next)
  /\ WF_search(L!Search)

\* Every search for the place where logs part ends, and every check of a history decides.
SearchesEnd == Ends /\ L!Decides
=============================================================================

------------------------------ MODULE Persist ------------------------------
(***************************************************************************)
(* One node and its disk: Disk of rsm/persist.py, over the vote and append *)
(* handlers of rsm/node.py.  A crash may come between handling a message,  *)
(* writing and answering, in either order of the last two.  The core takes *)
(* the three for one step; here is what that rests on.                     *)
(*                                                                         *)
(* The rest of the cluster are candidates, and one leader in each term     *)
(* whose log is given.  The log is never compacted: a disk keeps entries   *)
(* alone, and Log would refuse to load any that do not begin at index 1.   *)
(***************************************************************************)
EXTENDS Log

CONSTANTS
  Candidate,   \* who may ask for a vote
  None,
  Term,        \* the terms there are
  LeaderLog,   \* the log of the leader of each term
  Lists,       \* bound: the sets of fields that a disk keeps
  MaxCrashes   \* bound: crashes in a run

TERM == "term"
VOTE == "vote"
LOG  == "log"
DURABLE == {TERM, VOTE, LOG}

\* The leaders' logs are what the core makes of them: two that have an entry of the same
\* term at the same index are the same up to it (RaftProperties!LogMatching).
PersistConstants ==
  /\ None \notin Candidate
  /\ Term \subseteq Nat \ {0}
  /\ LeaderLog \in [Term -> LogOf([term : Nat])]
  /\ \A t \in Term : LeaderLog[t].base = 0 /\ LeaderLog[t].baseTerm = 0
  /\ \A t, u \in Term :
       \A i \in DOMAIN LeaderLog[t].entries \cap DOMAIN LeaderLog[u].entries :
         LeaderLog[t].entries[i].term = LeaderLog[u].entries[i].term =>
           \A j \in 1..i : LeaderLog[t].entries[j] = LeaderLog[u].entries[j]
  /\ Lists \subseteq SUBSET DURABLE
  /\ MaxCrashes \in Nat

WRITE_FIRST  == "write_then_answer"
ANSWER_FIRST == "answer_then_write"

VARIABLES
  durable, order,        \* what this disk keeps, and when it is written
  term, votedFor, log,   \* the node, in memory
  disk,                  \* the three on the disk
  reply, written,        \* an answer not sent yet; written since the last message
  crashes

\* History: the votes it has granted and the appends it has acknowledged.
VARIABLE said

memory == <<term, votedFor, log>>
vars == <<durable, order, memory, disk, reply, written, crashes, said>>

Vote(t, c)    == [kind |-> "vote", term |-> t, for |-> c]
Ack(t, match) == [kind |-> "appended", term |-> t, match |-> match]
Nothing       == [kind |-> "nothing"]   \* a refusal, which promises nothing

VoteIn(t) == IF t > term THEN None ELSE votedFor

Grants(t, c, lastIndex, lastTerm) ==
  /\ VoteIn(t) \in {None, c}
  /\ IsUpToDate(log, lastIndex, lastTerm)

\* Node.step on a request for a vote.
OnRequestVote(t, c, lastIndex, lastTerm) ==
  /\ reply = Nothing
  /\ t >= term
  /\ term' = t
  /\ LET granted == Grants(t, c, lastIndex, lastTerm)
     IN  /\ votedFor' = IF granted THEN c ELSE VoteIn(t)
         /\ reply' = IF granted THEN Vote(t, c) ELSE Nothing
  /\ written' = FALSE
  /\ UNCHANGED <<durable, order, log, disk, crashes, said>>

\* Node.step on an append of the entries after prev, up to `last'.
OnAppend(t, prev, last) ==
  /\ reply = Nothing
  /\ t >= term
  /\ term' = t
  /\ votedFor' = VoteIn(t)
  /\ IF Matches(log, prev, TermAt(LeaderLog[t], prev))
     THEN /\ log' = Merge(log, prev, Slice(LeaderLog[t], prev + 1, last))
          /\ reply' = Ack(t, last)
     ELSE UNCHANGED <<log, reply>>
  /\ written' = FALSE
  /\ UNCHANGED <<durable, order, disk, crashes, said>>

\* The vote stays in memory, whatever the list says.
WrongWrite ==
  /\ ~written
  /\ written' = TRUE
  /\ disk' = [term |-> IF TERM \in durable THEN term ELSE disk.term,
              votedFor |-> disk.votedFor,
              log |-> IF LOG \in durable THEN log ELSE disk.log]
  /\ UNCHANGED <<durable, order, memory, reply, crashes, said>>

\* Disk.write: whichever fields this disk keeps.
Write ==
  /\ ~written
  /\ written' = TRUE
  /\ disk' = [term |-> IF TERM \in durable THEN term ELSE disk.term,
              votedFor |-> IF VOTE \in durable THEN votedFor ELSE disk.votedFor,
              log |-> IF LOG \in durable THEN log ELSE disk.log]
  /\ UNCHANGED <<durable, order, memory, reply, crashes, said>>

\* The answer leaves without waiting.
WrongAnswer ==
  /\ reply # Nothing
  /\ said' = said \cup {reply}
  /\ reply' = Nothing
  /\ UNCHANGED <<durable, order, memory, disk, written, crashes>>

\* The answer leaves, before or after the write.
Answer ==
  /\ reply # Nothing
  /\ written <=> order = WRITE_FIRST
  /\ said' = said \cup {reply}
  /\ reply' = Nothing
  /\ UNCHANGED <<durable, order, memory, disk, written, crashes>>

\* What Disk.restore makes of the disk.
Restored ==
  [term     |-> IF TERM \in durable THEN disk.term ELSE 1,
   votedFor |-> IF VOTE \in durable THEN disk.votedFor ELSE None,
   log      |-> IF LOG \in durable THEN disk.log ELSE EmptyLog]

\* A crash at any point, and Disk.restore.
Crash ==
  /\ crashes < MaxCrashes
  /\ crashes' = crashes + 1
  /\ term' = Restored.term
  /\ votedFor' = Restored.votedFor
  /\ log' = Restored.log
  /\ reply' = Nothing
  /\ written' = TRUE
  /\ UNCHANGED <<durable, order, disk, said>>

Init ==
  /\ durable \in Lists
  /\ order \in {WRITE_FIRST, ANSWER_FIRST}
  /\ term = 1 /\ votedFor = None /\ log = EmptyLog
  /\ disk = [term |-> 1, votedFor |-> None, log |-> EmptyLog]
  /\ reply = Nothing /\ written = TRUE
  /\ crashes = 0
  /\ said = {}

Ends == {[index |-> LastIndex(l), term |-> LastTerm(l)] :
           l \in {EmptyLog} \cup {LeaderLog[t] : t \in Term}}

Next ==
  \/ \E t \in Term :
       \/ \E c \in Candidate, e \in Ends : OnRequestVote(t, c, e.index, e.term)
       \/ \E prev, last \in 0..LastIndex(LeaderLog[t]) :
            prev <= last /\ OnAppend(t, prev, last)
  \/ Write \/ Answer \/ Crash

Spec == Init /\ [][Next]_vars

-----------------------------------------------------------------------------

\* The order matters to a crash alone.
Keeps(fields) == fields \subseteq durable /\ (order = WRITE_FIRST \/ crashes = 0)

\* A disk that keeps the term and the vote, written before the answer, is enough for
\* one vote in a term, wherever the crashes fall; the log is not needed for it.  One
\* of the two alone is not, which is what the sweep of persist.py finds.
OneVoteInATerm ==
  Keeps({TERM, VOTE}) =>
    \A a, b \in said :
      (a.kind = "vote" /\ b.kind = "vote" /\ a.term = b.term) => a.for = b.for

\* The leader's log up to the index, in this log.
Contains(l, t, upto) ==
  /\ upto <= LastIndex(l)
  /\ \A i \in 1..upto : At(l, i) = At(LeaderLog[t], i)

\* What the node has acknowledged it has, and would have after a crash, as long as no
\* later leader is without it: an entry that a leader counted this node for, and so
\* may have committed, is not lost.  For that the term must be kept with the log, or
\* a deposed leader could cut the log back.
AcknowledgedIsKept ==
  Keeps({TERM, LOG}) =>
    \A a \in said :
      (/\ a.kind = "appended"
       /\ \A t \in Term : t > a.term => Contains(LeaderLog[t], a.term, a.match))
      => /\ Contains(log, a.term, a.match)
         /\ (order = WRITE_FIRST \/ written) => Contains(Restored.log, a.term, a.match)
=============================================================================

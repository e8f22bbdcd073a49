------------------------------- MODULE Watch -------------------------------
(***************************************************************************)
(* Clients that follow the committed changes, go away and come back:       *)
(* Watcher and Feed of rsm/watch.py.                                       *)
(*                                                                         *)
(* An event is an index of the log with the key that was written there.    *)
(* The indices go up, and not by one: the entry a leader begins its term   *)
(* with changes no key.  A watcher that comes back does so with the index  *)
(* it had got to, or with the next event, and nothing before it.           *)
(***************************************************************************)
EXTENDS Integers, Sequences, SequencesExt, FiniteSets

CONSTANTS
  Watcher,
  Key,
  All,        \* the key of a watcher that follows every one
  MaxIndex,   \* bound: the log
  MaxGap      \* bound: the indices from one event to the next

VARIABLES
  wanted,     \* the key each watcher follows
  events,     \* what the feed has been given
  seen, at,   \* what each watcher was handed, and the last index of that
  connected,
  mark        \* the index a watcher had got to when it went

\* History: the events that passed while a watcher was away and then came back with
\* the next one.
VARIABLE skipped

vars == <<wanted, events, seen, at, connected, mark, skipped>>

WatchConstants == MaxIndex \in Nat /\ MaxGap \in Nat

LastOf(s) == IF s = << >> THEN 0 ELSE s[Len(s)].index

\* Watcher.wants.
Wants(w, event) == wanted[w] \in {All, event.key}

\* The elements of a list that belong to a set, in the order of the list.
Among(s, set) ==
  LET up[i \in 0..Len(s)] ==
        IF i = 0 THEN << >>
        ELSE IF s[i] \in set THEN Append(up[i - 1], s[i]) ELSE up[i - 1]
  IN  up[Len(s)]

\* Watcher.deliver of some events, one after the other: those it follows, after
\* the index it has got to.  The offered events are in order.
Taken(w, offered, from) ==
  Among(offered, {e \in ToSet(offered) : Wants(w, e) /\ e.index > from})

\* One event too late.
WrongSince(index) == Among(events, {e \in ToSet(events) : e.index > index + 1})

\* Feed.since.
Since(index) == Among(events, {e \in ToSet(events) : e.index > index})

\* What a watcher has got to after being handed some.
Reached(from, more) == IF more = << >> THEN from ELSE LastOf(more)

\* Feed.publish of the next event.  The watchers in `back' come back from now: with
\* this event, as if they had got to the index before it.
Publish(event, back) ==
  LET from(w) == IF w \in back THEN event.index - 1 ELSE at[w]
      more(w) == IF connected[w] \/ w \in back THEN Taken(w, <<event>>, from(w)) ELSE << >>
      passed(w) == {e \in ToSet(Since(mark[w])) : Wants(w, e)}
  IN  /\ events' = Append(events, event)
      /\ seen' = [w \in Watcher |-> seen[w] \o more(w)]
      /\ at' = [w \in Watcher |-> Reached(from(w), more(w))]
      /\ connected' = [w \in Watcher |-> connected[w] \/ w \in back]
      /\ skipped' = [w \in Watcher |->
                       IF w \in back THEN skipped[w] \cup passed(w) ELSE skipped[w]]
      /\ UNCHANGED <<wanted, mark>>

\* A watcher goes, and remembers how far it had got.
Disconnect(w) ==
  /\ connected[w]
  /\ connected' = [connected EXCEPT ![w] = FALSE]
  /\ mark' = [mark EXCEPT ![w] = at[w]]
  /\ UNCHANGED <<wanted, events, seen, at, skipped>>

\* It comes back from its index, and is handed everything since.
ResumeFromIndex(w) ==
  LET more == Taken(w, Since(mark[w]), at[w]) IN
  /\ ~connected[w]
  /\ connected' = [connected EXCEPT ![w] = TRUE]
  /\ seen' = [seen EXCEPT ![w] = @ \o more]
  /\ at' = [at EXCEPT ![w] = Reached(at[w], more)]
  /\ UNCHANGED <<wanted, events, mark, skipped>>

\* The indices at which the next event may be.
Upcoming == {i \in (LastOf(events) + 1)..(LastOf(events) + MaxGap) : i <= MaxIndex}

Init ==
  /\ wanted \in [Watcher -> Key \cup {All}]
  /\ events = << >>
  /\ seen = [w \in Watcher |-> << >>]
  /\ at = [w \in Watcher |-> 0]
  /\ connected = [w \in Watcher |-> TRUE]
  /\ mark = [w \in Watcher |-> 0]
  /\ skipped = [w \in Watcher |-> {}]

Next ==
  \/ \E i \in Upcoming, k \in Key, back \in SUBSET {w \in Watcher : ~connected[w]} :
       Publish([index |-> i, key |-> k], back)
  \/ \E w \in Watcher : Disconnect(w) \/ ResumeFromIndex(w)

Spec == Init /\ [][Next]_vars

-----------------------------------------------------------------------------

\* A watcher that is connected has been handed exactly the events it follows, each
\* once and in order, but for those that passed while it was away before it came back
\* from now.  So one that always comes back from its index misses nothing, however
\* often it goes, and one that ever comes back from now has lost what passed, for
\* good: a later return from an index does not bring it back.
SeenIsWanted ==
  \A w \in Watcher :
    connected[w] =>
      seen[w] = Among(events, {e \in ToSet(events) : Wants(w, e) /\ e \notin skipped[w]})
=============================================================================

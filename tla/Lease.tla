------------------------------- MODULE Lease -------------------------------
(***************************************************************************)
(* A leader that serves reads from its own state while a lease lasts, cut  *)
(* off from a majority that goes on without it: Lease and _write_then_read *)
(* of rsm/lease.py.  The partition and the grant are at tick 0.            *)
(*                                                                         *)
(* The other side is the cluster of the module Raft with its clocks.  Only *)
(* how early it can move matters to the lease, so each of its steps has a  *)
(* lower bound, in ticks, from the timers of rsm/node.py and the delays of *)
(* rsm/net.py; any of them may come later, or never.                       *)
(***************************************************************************)
EXTENDS Integers, FiniteSetsExt

CONSTANTS
  MinTimeout,   \* MIN_ELECTION_TIMEOUT
  Heartbeat,    \* HEARTBEAT_INTERVAL
  MinDelay,     \* the shortest delay of a message
  Lengths,      \* the lease lengths tried
  Drifts,       \* what the holder's clock may be wrong by
  Reads         \* how many reads, one a tick

LeaseConstants ==
  /\ MinTimeout \in Nat /\ Heartbeat \in Nat /\ MinDelay \in Nat \ {0} /\ Reads \in Nat
  /\ Lengths \subseteq Nat \ {0} /\ Drifts \subseteq Nat

VARIABLES
  length, drift,   \* the lease
  now,             \* real ticks since the grant
  stage, since     \* how far the other side is, and since when

\* History: the ticks at which a read was served that was already out of date.
VARIABLE stale

vars == <<length, drift, now, stage, since, stale>>

QUIET   == "quiet"      \* waiting for the leader it has lost
ASKING  == "asking"     \* somebody stands
LED     == "led"        \* somebody leads, with nothing but its empty entry
WRITING == "writing"    \* it has sent a client's write
WRITTEN == "written"    \* the write is committed
Stage   == {QUIET, ASKING, LED, WRITING, WRITTEN}

RoundTrip == 2 * MinDelay

\* The last heartbeat left at most Heartbeat - 1 ticks before the partition.  Whoever
\* it reached waits for at least the shortest timeout, counted from the tick before:
\* Cluster.tick delivers messages before it gives the nodes the new time.
EarliestStand == MinTimeout + MinDelay - Heartbeat

\* A write waits for the leader's next append: its next heartbeat, for which the same
\* holds, or the answer to the empty entry it began its term with.
NextAppend == Min({Heartbeat - 1, RoundTrip})

\* The earliest tick at which the other side can have committed a write.
EarliestWrite == EarliestStand + RoundTrip + NextAppend + RoundTrip

\* The next stage, and when it can come.
After(s) ==
  CASE s = QUIET   -> ASKING
    [] s = ASKING  -> LED
    [] s = LED     -> WRITING
    [] s = WRITING -> WRITTEN

DueAt ==
  CASE stage = QUIET   -> EarliestStand
    [] stage = ASKING  -> since + RoundTrip
    [] stage = LED     -> since + NextAppend
    [] stage = WRITING -> since + RoundTrip

\* Lease.expires_at.
ExpiresAt == length + drift

\* Lease.held_at, one tick too long.
WrongHeldAt(t) == t <= ExpiresAt
HeldAt(t) == t < ExpiresAt

\* One round of the loop: the tick, in which the other side may get one step
\* further, and then the read.
Serve(t, s) ==
  /\ now' = t
  /\ stale' = IF HeldAt(t) /\ s = WRITTEN THEN stale \cup {t} ELSE stale
  /\ UNCHANGED <<length, drift>>

Wait ==
  /\ now < Reads
  /\ Serve(now + 1, stage)
  /\ UNCHANGED <<stage, since>>

Move ==
  /\ now < Reads
  /\ stage # WRITTEN
  /\ now + 1 >= DueAt
  /\ stage' = After(stage)
  /\ since' = now + 1
  /\ Serve(now + 1, After(stage))

Init ==
  /\ length \in Lengths /\ drift \in Drifts
  /\ now = 0
  /\ stage = QUIET /\ since = 0
  /\ stale = {}

Next == Wait \/ Move

Spec == Init /\ [][Next]_vars

-----------------------------------------------------------------------------

\* A lease that ends, drift included, before the majority can have elected somebody
\* else and committed a write through it never gives a stale answer.  lease.py finds
\* the boundary at the longest election timeout; it is at the shortest one, less a
\* heartbeat, plus the round trips an election and a write take.
LeaseReadsAreCurrent ==
  ExpiresAt <= EarliestWrite => stale = {}
=============================================================================

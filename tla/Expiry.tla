------------------------------- MODULE Expiry -------------------------------
(***************************************************************************)
(* Keys with a lifetime, dropped by each replica's own clock or by a       *)
(* delete that goes through the log: Lease, Store and run of rsm/expire.py.*)
(*                                                                         *)
(* One step is one round of the loop.  A lease is known by the tick it was *)
(* granted at, since no two are granted at one tick; all are of one length.*)
(* A replica is its index, the number of skews that its clock is ahead.    *)
(***************************************************************************)
EXTENDS Integers, FiniteSets, FiniteSetsExt

CONSTANTS
  Replicas,    \* how many
  Window,      \* how many ticks are run
  Leases,      \* how many leases are granted
  Length,      \* LEASE
  Everies, Skews, Sweeps   \* the intervals tried: of grants, of clocks, of sweeps

ExpiryConstants ==
  /\ Replicas \in Nat \ {0} /\ Length \in Nat /\ Leases \in Nat
  /\ Everies \subseteq Nat \ {0} /\ Skews \subseteq Nat /\ Sweeps \subseteq Nat \ {0}

VARIABLES
  byClock, every, skew, sweep,   \* the arguments of run
  tick,
  pending,       \* the leases not yet seen to be gone
  leases,        \* what each store holds
  granted, revoked, entries,
  divergences, worstDifference, worstDelay   \* the Sweep

sweepVars == <<granted, revoked, entries, divergences, worstDifference, worstDelay>>
vars == <<byClock, every, skew, sweep, tick, pending, leases, sweepVars>>

Replica == 0..(Replicas - 1)

ExpiresAt(lease) == lease + Length

\* One tick early.
WrongExpired(lease, now) == now + 1 >= ExpiresAt(lease)

\* Lease.expired.
Expired(lease, now) == now >= ExpiresAt(lease)

\* The clock that a replica's store is given.
Clock(i, now) == IF byClock THEN now + i * skew ELSE now

Granting(t) == t % every = 0 /\ granted < Leases
Sweeping(t) == ~byClock /\ t % sweep = 0

\* The leases a sweep takes out of every store, through the log.
Swept(open, t) == IF Sweeping(t) THEN {l \in open : Expired(l, t)} ELSE {}

\* Store.tick.
Ticked(i, held, t) ==
  IF byClock THEN {l \in held : ~Expired(l, Clock(i, t))} ELSE held

\* One round of the loop: a grant, the sweep, every store's tick and the comparison.
Round ==
  LET t    == tick + 1
      new  == IF Granting(t) THEN {t} ELSE {}
      open == pending \cup new
      gone == Swept(open, t)
      held == [i \in Replica |-> Ticked(i, (leases[i] \cup new) \ gone, t)]
      over == {l \in open : byClock /\ \A i \in Replica : l \notin held[i]}
      sizes == {Cardinality(held[i]) : i \in Replica}
      apart == Cardinality({held[i] : i \in Replica}) > 1
  IN  /\ tick < Window
      /\ tick' = t
      /\ leases' = held
      /\ pending' = open \ (gone \cup over)
      /\ granted' = granted + Cardinality(new)
      /\ revoked' = revoked + Cardinality(gone \cup over)
      /\ entries' = entries + Cardinality(new) + Cardinality(gone)
      /\ worstDelay' = Max({worstDelay} \cup {t - ExpiresAt(l) : l \in gone})
      /\ divergences' = divergences + (IF apart THEN 1 ELSE 0)
      /\ worstDifference' =
           IF apart THEN Max({worstDifference, Max(sizes) - Min(sizes)}) ELSE worstDifference
      /\ UNCHANGED <<byClock, every, skew, sweep>>

Init ==
  /\ byClock \in BOOLEAN
  /\ every \in Everies /\ skew \in Skews /\ sweep \in Sweeps
  /\ tick = 0
  /\ pending = {} /\ leases = [i \in Replica |-> {}]
  /\ granted = 0 /\ revoked = 0 /\ entries = 0
  /\ divergences = 0 /\ worstDifference = 0 /\ worstDelay = 0

Spec == Init /\ [][Round]_vars

-----------------------------------------------------------------------------

\* The leases that have been granted, whether or not they are over.
Grants == {l \in 1..tick : l % every = 0 /\ l <= Leases * every}

\* Through the log the replicas hold the same keys at every tick, no key goes before
\* its lease has ended, and none outlives it by as much as the interval between two
\* sweeps.  By the clock no key goes before its lease has ended by that replica's clock,
\* a replica is never behind one whose clock is further on, and two differ about a lease
\* for no longer than their clocks differ.  Either way the loop's own list is what the
\* stores hold between them.
ExpiryIsAgreed ==
  /\ pending = UNION {leases[i] : i \in Replica} /\ pending \subseteq Grants
  /\ IF byClock
     THEN /\ \A i \in Replica : \A l \in Grants : tick + i * skew < ExpiresAt(l) => l \in leases[i]
          /\ \A i, j \in Replica : i <= j =>
               /\ leases[j] \subseteq leases[i]
               /\ \A l \in leases[i] \ leases[j] :
                    ExpiresAt(l) - tick \in (i * skew + 1)..(j * skew)
     ELSE /\ divergences = 0
          /\ \A i \in Replica : leases[i] = pending
          /\ \A l \in Grants : tick < ExpiresAt(l) => l \in pending
          /\ \A l \in pending : tick - ExpiresAt(l) < sweep
          /\ worstDelay < sweep
=============================================================================

----------------------------- MODULE Rebalance -----------------------------
(***************************************************************************)
(* A range of keys moves from one group to another while clients write to  *)
(* it: Move and run_move of rsm/rebalance.py, over the groups of           *)
(* rsm/keyspace.py, which tick side by side and share nothing.             *)
(*                                                                         *)
(* One step is one round of the loop of run_move.  A group takes a write,  *)
(* or has no leader and refuses it; it commits what it took in order, some *)
(* ticks later or never.                                                   *)
(***************************************************************************)
EXTENDS Integers, Sequences, FiniteSets, FiniteSetsExt

CONSTANTS
  Writes,      \* how many writes are attempted
  Everies,     \* the ticks from one to the next that are tried
  CopyTicks    \* the lengths of the copy that are tried

VARIABLES
  every, copyTicks, unsafe,   \* the arguments of run_move
  tick,
  phase, frozenAt, handedAt,  \* the Move
  attempted, served, refused, \* the Attempt
  taken,                      \* the ticks of the writes each group took, in order
  committed                   \* how many of them each has committed

\* History: the source's writes that were committed after one of the destination's,
\* with the tick each was taken at and the tick it was committed at.
VARIABLE inverted

groupVars == <<taken, committed, inverted>>
vars == <<every, copyTicks, unsafe, tick, phase, frozenAt, handedAt,
          attempted, served, refused, groupVars>>

RebalanceConstants ==
  Writes \in Nat /\ Everies \subseteq Nat \ {0} /\ CopyTicks \subseteq Nat

STEADY  == "steady"
FROZEN  == "frozen"
COPYING == "copying"
HANDED  == "handed"
PHASES  == <<STEADY, FROZEN, COPYING, HANDED>>

SOURCE      == "source"
DESTINATION == "destination"
Group       == {SOURCE, DESTINATION}

\* Move.owner and Move.serving.
Owner(p) == IF p = HANDED THEN DESTINATION ELSE SOURCE
Serving(p) == p \in {STEADY, HANDED}

\* The source goes on during the copy in the safe version too.
WrongOwners(p) == IF Serving(p) \/ p = COPYING THEN {Owner(p)} ELSE {}

\* _owners.
Owners(p) ==
  CASE unsafe /\ p = FROZEN  -> {SOURCE}
    [] unsafe /\ p = COPYING -> Group
    [] OTHER -> IF Serving(p) THEN {Owner(p)} ELSE {}

\* owners[0]: the write goes to one of the owners alone, the source if there are two.
Asked(owners) == IF SOURCE \in owners THEN SOURCE ELSE DESTINATION

\* The hand over does not wait for the copy.
WrongTurns(t) ==
  Cardinality({x \in {"freeze", "copy", "hand"} :
     \/ x = "freeze" /\ t = every * 2
     \/ x = "copy"   /\ t = every * 3
     \/ x = "hand"   /\ t = every * 3})

\* How often Move.advance is called at tick t.
Turns(t) ==
  Cardinality({x \in {"freeze", "copy", "hand"} :
     \/ x = "freeze" /\ t = every * 2
     \/ x = "copy"   /\ t = every * 3
     \/ x = "hand"   /\ t = every * 3 + copyTicks})

At(p) == CHOOSE i \in DOMAIN PHASES : PHASES[i] = p

\* Move.advance, as often as it is called at this tick.
Advanced(t) == PHASES[At(phase) + Turns(t)]

\* A write is taken by the group it is sent to, unless that has no leader.
Attempt(t, p) ==
  /\ attempted' = attempted + 1
  /\ IF Owners(p) = {}
     THEN refused' = refused + 1 /\ UNCHANGED <<served, taken>>
     ELSE LET g == Asked(Owners(p)) IN
          /\ UNCHANGED refused
          /\ \/ taken' = [taken EXCEPT ![g] = Append(@, t)] /\ served' = served + 1
             \/ UNCHANGED <<served, taken>>

\* The groups' ticks: each commits some more of what it has taken.
Commit ==
  \E upto \in [Group -> 0..Writes] :
    /\ \A g \in Group : committed[g] <= upto[g] /\ upto[g] <= Len(taken'[g])
    /\ committed' = upto
    /\ inverted' = inverted \cup
         {[taken |-> taken'[SOURCE][i], late |-> tick'] :
            i \in {j \in (committed[SOURCE] + 1)..upto[SOURCE] : committed[DESTINATION] > 0}}

\* One round of the loop.
Round ==
  /\ tick < Writes * every
  /\ tick' = tick + 1
  /\ phase' = Advanced(tick')
  /\ frozenAt' = IF phase = STEADY /\ phase' # STEADY THEN tick' ELSE frozenAt
  /\ handedAt' = IF phase # HANDED /\ phase' = HANDED THEN tick' ELSE handedAt
  /\ IF tick' % every = 0 THEN Attempt(tick', phase')
     ELSE UNCHANGED <<attempted, served, refused, taken>>
  /\ Commit
  /\ UNCHANGED <<every, copyTicks, unsafe>>

Init ==
  /\ every \in Everies /\ copyTicks \in CopyTicks /\ unsafe \in BOOLEAN
  /\ tick = 0
  /\ phase = STEADY /\ frozenAt = 0 /\ handedAt = 0
  /\ attempted = 0 /\ served = 0 /\ refused = 0
  /\ taken = [g \in Group |-> << >>]
  /\ committed = [g \in Group |-> 0]
  /\ inverted = {}

Spec == Init /\ [][Round]_vars

-----------------------------------------------------------------------------

\* "The sequence supplies the ordering the groups do not have between them": only as
\* far as the freeze is longer than a commit takes.  No entry of the source waits for
\* the hand over, so a write that it took before the freeze is committed after one of
\* the destination's if it takes longer than the freeze and the interval before it,
\* and never otherwise.  Serving from both sides has no such bound.
OrderedByTheFreeze ==
  ~unsafe => \A pair \in inverted : pair.late - pair.taken > 2 * every + copyTicks

\* What clients see of the move at the end of the run: every write of the freeze is
\* refused and no other, so that availability is what the freeze costs; and the freeze
\* lasts as long as the schedule says or, if the run is over first, for good.
FreezeIsTheCost ==
  LET frozen == {n \in 1..attempted : frozenAt > 0 /\ frozenAt <= n * every
                                      /\ (handedAt = 0 \/ n * every < handedAt)}
  IN  ~unsafe =>
        /\ refused = Cardinality(frozen)
        /\ handedAt > 0 => handedAt - frozenAt = every + copyTicks
        /\ tick = Writes * every =>
             (phase = HANDED <=> every * 3 + copyTicks <= Writes * every)
=============================================================================

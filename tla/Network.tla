------------------------------ MODULE Network ------------------------------
(***************************************************************************)
(* The network of rsm/net.py, with the one-way cuts that rsm/partition.py  *)
(* puts over its reachable method.  What a message says is of no account   *)
(* here, so it is [from, to]; two that are equal may be under way at once. *)
(***************************************************************************)
EXTENDS Integers, FiniteSets, SequencesExt

CONSTANTS
  Member,
  Cut,          \* the cuts made: [node, direction, peer]
  Anyone,       \* the peer of a cut that names none
  Delays,       \* the conditions tried: pairs of a shortest and a longest delay
  MaxSent, MaxUpsets   \* bounds: messages sent, partitions and cuts made

\* Conditions.__post_init__.
NetworkConstants ==
  \A d \in Delays : d \in Nat \X Nat /\ 1 <= d[1] /\ d[1] <= d[2]

VARIABLES
  conditions,
  sides,        \* the groups of a partition; empty when there is none
  cuts,
  now,
  flight,       \* the messages under way, as [message, sentAt, dueAt, sequence]
  sequence,
  delivered,    \* all that has been handed over, with its times
  dropped,      \* Counts.dropped
  upsets        \* partitions and cuts so far

vars == <<conditions, sides, cuts, now, flight, sequence, delivered, dropped, upsets>>

Message == [from : Member, to : Member]

INBOUND  == "inbound"
OUTBOUND == "outbound"
BOTH     == "both"

\* Cut.blocks.
Blocks(cut, m) ==
  /\ cut.peer \in {Anyone, m.from, m.to}
  /\ \/ cut.direction \in {BOTH, OUTBOUND} /\ m.from = cut.node
     \/ cut.direction \in {BOTH, INBOUND} /\ m.to = cut.node

\* reachable, of the cuts and of the network.
Reachable(m) ==
  /\ ~\E cut \in cuts : Blocks(cut, m)
  /\ sides = {} \/ \E side \in sides : {m.from, m.to} \subseteq side

Partition(groups) ==
  /\ upsets < MaxUpsets
  /\ sides' = groups
  /\ upsets' = upsets + 1
  /\ UNCHANGED <<conditions, cuts, now, flight, sequence, delivered, dropped>>

AddCut(cut) ==
  /\ upsets < MaxUpsets
  /\ cuts' = cuts \cup {cut}
  /\ upsets' = upsets + 1
  /\ UNCHANGED <<conditions, sides, now, flight, sequence, delivered, dropped>>

\* Network.heal.
Heal ==
  /\ sides' = {}
  /\ UNCHANGED <<conditions, cuts, now, flight, sequence, delivered, dropped, upsets>>

\* Cuts.heal.
HealCuts ==
  /\ cuts' = {}
  /\ UNCHANGED <<conditions, sides, now, flight, sequence, delivered, dropped, upsets>>

\* The fate of a message is settled when it is sent.
Send(m) ==
  /\ sequence < MaxSent
  /\ sequence' = sequence + 1
  /\ \/ /\ Reachable(m)
        /\ \E delay \in conditions[1]..conditions[2] :
             flight' = flight \cup {[message |-> m, sentAt |-> now, dueAt |-> now + delay,
                                     sequence |-> sequence + 1]}
        /\ UNCHANGED dropped
     \/ /\ dropped' = dropped + 1
        /\ UNCHANGED flight
  /\ UNCHANGED <<conditions, sides, cuts, now, delivered, upsets>>

\* A message lands in the tick after.
WrongDue == {f \in flight : f.dueAt < now + 1}

Due == {f \in flight : f.dueAt <= now + 1}

\* Network.tick: what is due is handed over in the order in which it was sent.
Tick ==
  /\ now' = now + 1
  /\ flight' = flight \ Due
  /\ \E landed \in SetToSeqs(Due) :
       /\ \A i, j \in DOMAIN landed : i < j => landed[i].sequence < landed[j].sequence
       /\ delivered' = delivered \o landed
  /\ UNCHANGED <<conditions, sides, cuts, sequence, dropped, upsets>>

Init ==
  /\ conditions \in Delays
  /\ sides = {} /\ cuts = {}
  /\ now = 0
  /\ flight = {} /\ sequence = 0 /\ delivered = << >> /\ dropped = 0
  /\ upsets = 0

\* A tick of a quiet network changes the time alone.
Next ==
  \/ flight # {} /\ Tick
  \/ \E m \in Message : m.from # m.to /\ Send(m)
  \/ \E side \in SUBSET Member \ {{}, Member} : Partition({side, Member \ side})
  \/ \E cut \in Cut : AddCut(cut)
  \/ Heal \/ HealCuts

Spec == Init /\ [][Next]_vars

-----------------------------------------------------------------------------

C == INSTANCE Channel WITH
  wire <- [m \in Message |-> Cardinality({f \in flight : f.message = m})],
  landed <- [i \in DOMAIN delivered |-> delivered[i].message]

\* Every message is accounted for, none is under way past its time, and one overtakes
\* another only if the two were sent within the spread of the delays.
InTime ==
  /\ sequence = dropped + Len(delivered) + Cardinality(flight)
  /\ \A f \in flight : now < f.dueAt
  /\ \A i, j \in DOMAIN delivered :
       i < j /\ delivered[j].sequence < delivered[i].sequence =>
         delivered[i].sentAt - delivered[j].sentAt < conditions[2] - conditions[1]

\* The network is what the models of the nodes take it for, and keeps time besides in
\* every step: whatever is partitioned, cut and healed while messages are under way.
NetworkKeepsItsWord == C!Spec /\ [][InTime']_vars
=============================================================================

------------------------------ MODULE Channel ------------------------------
(***************************************************************************)
(* What a network promises the nodes, and all that Raft takes from it: a   *)
(* message that was sent is handed over once or never, in any order with   *)
(* the others, and nothing else is.                                        *)
(***************************************************************************)
EXTENDS Integers, FiniteSets, SequencesExt

CONSTANT Message

VARIABLES
  wire,    \* how many copies of each message are under way
  landed   \* what has been handed over, in that order

Init == wire = [m \in Message |-> 0] /\ landed = << >>

\* A message that is lost never enters.
Send(m) ==
  /\ wire' = [wire EXCEPT ![m] = @ + 1]
  /\ UNCHANGED landed

Copies(m, s) == Cardinality({i \in DOMAIN s : s[i] = m})

\* Some messages are handed over, one after the other.
Land ==
  LET batch == SubSeq(landed', Len(landed) + 1, Len(landed')) IN
  /\ IsPrefix(landed, landed') /\ ToSet(batch) \subseteq Message
  /\ \A m \in Message : Copies(m, batch) <= wire[m]
  /\ wire' = [m \in Message |-> wire[m] - Copies(m, batch)]

Next == Land \/ \E m \in Message : Send(m)

Spec == Init /\ [][Next]_<<wire, landed>>
=============================================================================

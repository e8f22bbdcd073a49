------------------------------ MODULE Machine ------------------------------
(***************************************************************************)
(* The key-value machine of rsm/machine.py: Machine.apply as an operator   *)
(* on what one key holds.  The keys do not touch each other.  Absent is a  *)
(* key that is not there, which is not the same as one that holds None.    *)
(***************************************************************************)
EXTENDS Integers

CONSTANTS
  None,      \* Python's None
  Absent,    \* the key is missing
  Refused,   \* the exception that an increment of anything but a number raises
  Yes, No,   \* Python's True and False, what compare and set answers
  Random     \* what random.random may return

SET             == "set"
DELETE          == "delete"
INCREMENT       == "increment"
COMPARE_AND_SET == "compare_and_set"
NOW             == "now"

\* state.get: a missing key reads as None.
Get(held) == IF held = Absent THEN None ELSE held

IsNumber(v) == v \notin {None, Absent, Refused} \cup Random /\ v \in Int

\* A missing key counts from 0; an amount of None or 0 is 1.
Incremented(held, amount) ==
  (IF held = Absent THEN 0 ELSE held) + (IF amount \in {None, 0} THEN 1 ELSE amount)

Result(held, out) == [held |-> held, out |-> out]

\* Every pair of what the key holds afterwards and what the client would be told.
\* Only NOW has more than one.
Apply(held, cmd) ==
  CASE cmd.name = SET       -> {Result(cmd.value, cmd.value)}
    [] cmd.name = DELETE    -> {Result(Absent, Get(held))}
    [] cmd.name = INCREMENT ->
         IF held = Absent \/ IsNumber(held)
         THEN LET sum == Incremented(held, cmd.value) IN {Result(sum, sum)}
         ELSE {Result(held, Refused)}
    [] cmd.name = COMPARE_AND_SET ->
         IF Get(held) = cmd.expected THEN {Result(cmd.value, Yes)}
                                     ELSE {Result(held, No)}
    [] cmd.name = NOW       -> {Result(x, x) : x \in Random}
=============================================================================

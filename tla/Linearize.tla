----------------------------- MODULE Linearize -----------------------------
(***************************************************************************)
(* Deciding whether a recorded history is linearizable: History of         *)
(* rsm/verify/history.py, and the search of rsm/verify/linearize.py over   *)
(* the machine of rsm/machine.py.                                          *)
(*                                                                         *)
(* First clients call and are answered, rightly or wrongly.  Then the      *)
(* search runs, one step for each call of `walk' and one for each operation*)
(* that a walk tries; the stack holds the walks under way.  All commands   *)
(* are about one key.                                                      *)
(***************************************************************************)
EXTENDS Machine, Sequences, FiniteSets, FiniteSetsExt

CONSTANTS
  Wish,       \* the commands of a history
  Replies,    \* bound: what a client may be told, for each command
  Budgets,    \* the budgets tried, in states
  MaxCalls    \* bound: operations in a history

LINEARIZABLE     == "linearizable"
NOT_LINEARIZABLE == "not_linearizable"
UNKNOWN          == "unknown"

\* What a key may hold.
Value == {Absent} \cup Int \cup {cmd.value : cmd \in Wish}

LinearizeConstants ==
  /\ Refused \notin Value \cup {None, Yes, No}
  /\ \A cmd \in Wish :
       /\ cmd.name \in {SET, DELETE, INCREMENT, COMPARE_AND_SET}
       /\ cmd.name = INCREMENT => cmd.value \in Int \cup {None}
  /\ None \notin Nat /\ None \notin [done : SUBSET Nat, held : Value]
  /\ None \notin {LINEARIZABLE, NOT_LINEARIZABLE, UNKNOWN}
  /\ Budgets \subseteq Nat /\ MaxCalls \in Nat

VARIABLES
  operations,   \* the history, in the order of the calls
  clock,        \* History.clock
  budget,
  searching,    \* the history is complete and being checked
  states, longest, seen,   \* of Search
  stack,        \* the walks under way, outermost first
  entering,     \* the position of the next walk; None between two
  answer        \* the verdict; None until there is one

historyVars == <<operations, clock>>
vars == <<historyVars, budget, searching, states, longest, seen, stack, entering, answer>>

Operation(cmd, called) ==
  [command |-> cmd, calledAt |-> called, returnedAt |-> None, result |-> None]

Complete(op) == op.returnedAt # None

\* The operations of the history that are not in `done'.
Remaining(done) == DOMAIN operations \ done

-----------------------------------------------------------------------------
(* Recording.                                                              *)

\* History.call.
Call(cmd) ==
  /\ ~searching /\ Len(operations) < MaxCalls
  /\ clock' = clock + 1
  /\ operations' = Append(operations, Operation(cmd, clock + 1))
  /\ UNCHANGED <<budget, searching, states, longest, seen, stack, entering, answer>>

\* History.complete: the client hears something.
Return(i) ==
  /\ ~searching /\ ~Complete(operations[i])
  /\ clock' = clock + 1
  /\ \E told \in Replies[operations[i].command] :
       operations' = [operations EXCEPT ![i].returnedAt = clock + 1, ![i].result = told]
  /\ UNCHANGED <<budget, searching, states, longest, seen, stack, entering, answer>>

-----------------------------------------------------------------------------
(* Searching.  A position is what has been placed and what the key holds.  *)

Position(done, held) == [done |-> done, held |-> held]

\* check.
Check ==
  /\ ~searching
  /\ searching' = TRUE
  /\ entering' = Position({}, Absent)
  /\ UNCHANGED <<historyVars, budget, states, longest, seen, stack, answer>>

\* Overlapping operations count as ordered too.
WrongAllowed(i, rest) ==
  \A j \in rest \ {i} :
    Complete(operations[j]) => operations[j].calledAt > operations[i].calledAt

\* _allowed: nothing that is left returned before i was called.
Allowed(i, rest) ==
  \A j \in rest \ {i} :
    Complete(operations[j]) => operations[j].returnedAt > operations[i].calledAt

Exhausted == states' >= budget

\* A position is known by what has been placed, whatever the key holds.
WrongKnown(position) == \E known \in seen : known.done = position.done

\* The cache of positions, _key.
Known(position) == position \in seen

\* The head of walk: it succeeds, gives up, or goes into its loop.
Enter ==
  /\ entering # None
  /\ states' = states + 1
  /\ longest' = Max({longest, Cardinality(entering.done)})
  /\ IF Remaining(entering.done) = {}
     THEN answer' = LINEARIZABLE /\ UNCHANGED <<seen, stack>>
     ELSE IF Exhausted \/ Known(entering)
     THEN UNCHANGED <<seen, stack, answer>>
     ELSE /\ seen' = seen \cup {entering}
          /\ stack' = Append(stack, [at |-> entering, untried |-> Remaining(entering.done)])
          /\ UNCHANGED answer
  /\ entering' = None
  /\ UNCHANGED <<historyVars, budget, searching>>

Top == stack[Len(stack)]

\* A walk that has run out is not left.
WrongBelow == stack

\* The walks outside the innermost.
Below == SubSeq(stack, 1, Len(stack) - 1)

\* One round of the loop of the innermost walk, over what is left in the order of the
\* calls.  An operation that the machine refuses is passed over.
Try ==
  LET i == Min(Top.untried) IN
  /\ searching /\ answer = None /\ entering = None
  /\ stack # << >> /\ Top.untried # {}
  /\ stack' = [stack EXCEPT ![Len(stack)].untried = @ \ {i}]
  /\ \E made \in Apply(Top.at.held, operations[i].command) :
       entering' =
         IF /\ Allowed(i, Remaining(Top.at.done))
            /\ made.out # Refused
            /\ Complete(operations[i]) => made.out = operations[i].result
         THEN Position(Top.at.done \cup {i}, made.held)
         ELSE None
  /\ UNCHANGED <<historyVars, budget, searching, states, longest, seen, answer>>

\* The loop has run out: back to the walk outside it.
Back ==
  /\ searching /\ answer = None /\ entering = None
  /\ stack # << >> /\ Top.untried = {}
  /\ stack' = Below
  /\ UNCHANGED <<historyVars, budget, searching, states, longest, seen, entering, answer>>

\* A search that ran out of budget says that it has found nothing.
WrongConclude ==
  /\ searching /\ answer = None /\ entering = None
  /\ stack = << >>
  /\ answer' = NOT_LINEARIZABLE
  /\ UNCHANGED <<historyVars, budget, searching, states, longest, seen, stack, entering>>

\* The outermost walk has failed.
Conclude ==
  /\ searching /\ answer = None /\ entering = None
  /\ stack = << >>
  /\ answer' = IF states >= budget THEN UNKNOWN ELSE NOT_LINEARIZABLE
  /\ UNCHANGED <<historyVars, budget, searching, states, longest, seen, stack, entering>>

Init ==
  /\ operations = << >> /\ clock = 0
  /\ budget \in Budgets
  /\ searching = FALSE
  /\ states = 0 /\ longest = 0 /\ seen = {}
  /\ stack = << >> /\ entering = None
  /\ answer = None

Search == Enter \/ Try \/ Back \/ Conclude

Next ==
  \/ \E cmd \in Wish : Call(cmd)
  \/ \E i \in DOMAIN operations : Return(i)
  \/ Check
  \/ Search

Spec == Init /\ [][Next]_vars

\* The search is a loop that runs to its end; a history may stop anywhere.
FairSpec == Spec /\ WF_vars(Search)

-----------------------------------------------------------------------------

\* The definition.  An order of some of the operations explains the history up to
\* there: what it leaves out did not return before anything it places was called,
\* and a machine that runs it gives the answers that were given.
Orders(chosen) ==
  {o \in [1..Cardinality(chosen) -> chosen] : \A i, j \in DOMAIN o : o[i] = o[j] => i = j}

InRealTime(o) ==
  \A j \in DOMAIN o, i \in DOMAIN operations :
    (Complete(operations[i]) /\ operations[i].returnedAt < operations[o[j]].calledAt) =>
      \E k \in 1..(j - 1) : o[k] = i

Before(o, from) ==
  LET held[n \in 0..Len(o)] ==
        IF n = 0 THEN from
        ELSE (CHOOSE r \in Apply(held[n - 1], operations[o[n]].command) : TRUE).held
  IN  held

Legal(o) ==
  \A n \in DOMAIN o :
    \E r \in Apply(Before(o, Absent)[n - 1], operations[o[n]].command) :
      /\ r.out # Refused
      /\ Complete(operations[o[n]]) => r.out = operations[o[n]].result

Explains(o) == InRealTime(o) /\ Legal(o)

Answered == {i \in DOMAIN operations : Complete(operations[i])}

\* An operation without an answer may have happened or not.
Linearizable ==
  \E chosen \in SUBSET DOMAIN operations :
    Answered \subseteq chosen /\ \E o \in Orders(chosen) : Explains(o)

\* The search places every operation, the unanswered ones last if they must not have
\* happened.  That is not always possible: an increment is refused by a key that
\* holds no number, wherever it is placed.
MayBeRefused ==
  \E i \in DOMAIN operations \ Answered : operations[i].command.name = INCREMENT

\* The verdict is right: linearizable and not linearizable are what the definition
\* says, of every history that has no increment left unanswered, and unknown means
\* that the budget was spent and nothing else.
VerdictIsRight ==
  /\ answer = LINEARIZABLE => Linearizable
  /\ answer = NOT_LINEARIZABLE => ~Linearizable \/ MayBeRefused
  /\ answer = UNKNOWN <=> answer # None /\ answer # LINEARIZABLE /\ states >= budget

\* What the cache rests on: whatever order led to it, a position that has been left
\* without success cannot be finished, as long as there was budget.  The key holds the
\* placed operations and the state, not their order.
Finishes(position) ==
  \E o \in Orders(Remaining(position.done)) :
    /\ \A j \in DOMAIN o : Allowed(o[j], {o[k] : k \in j..Len(o)})
    /\ LET held == Before(o, position.held)
       IN  \A n \in DOMAIN o :
             \E r \in Apply(held[n - 1], operations[o[n]].command) :
               /\ r.out # Refused
               /\ Complete(operations[o[n]]) => r.out = operations[o[n]].result

CacheIsSound ==
  (answer = None /\ states < budget) =>
    \A position \in seen :
      (\A n \in DOMAIN stack : stack[n].at # position) => ~Finishes(position)

\* What a rejection reports is the longest prefix that can be explained at all, not
\* only the longest that the search tried before the cache cut it short.
LongestIsLongest ==
  answer = NOT_LINEARIZABLE =>
    longest = Max({Cardinality(c) : c \in {d \in SUBSET DOMAIN operations :
                                             \E o \in Orders(d) : Explains(o)}})

\* Every check gives a verdict.
Decides == searching ~> answer # None
=============================================================================

-------------------------------- MODULE Log --------------------------------
(***************************************************************************)
(* The replicated log of rsm/log.py as a value, and the operations that    *)
(* log.py, node.py and snapshot.py make on it, as operators.               *)
(*                                                                         *)
(* A log is [base, baseTerm, entries]: `base' is snapshot_index, the last  *)
(* index compacted away, `baseTerm' the term of that index, and `entries'  *)
(* the entries base + 1, base + 2, ...  An entry is [term, cmd]; its index *)
(* is its place, which is what Log.__post_init__ checks.  Index 0 is the   *)
(* position before the first entry and term 0 is no term (NO_INDEX and     *)
(* NO_TERM).                                                               *)
(*                                                                         *)
(* Where the code raises, the operator is only meant to be applied inside  *)
(* its domain; Answers says where term_at has an answer.                   *)
(*                                                                         *)
(* A definition whose name starts with `Wrong' is not the code: it is the   *)
(* definition after it with a plausible mistake, which some property must   *)
(* notice.                                                                  *)
(***************************************************************************)
EXTENDS Integers, Sequences, FiniteSetsExt

\* The logs with entries in E.
LogOf(E) == [base : Nat, baseTerm : Nat, entries : Seq(E)]

EmptyLog == [base |-> 0, baseTerm |-> 0, entries |-> << >>]

FirstIndex(l) == l.base + 1
LastIndex(l) == l.base + Len(l.entries)

\* The index is present: neither compacted away nor still unwritten.
Holds(l, i) == FirstIndex(l) <= i /\ i <= LastIndex(l)

At(l, i) == l.entries[i - l.base]

\* term_at answers for the position before the log and for the snapshot's own
\* index, and raises Compacted or NotFound for any other index not held.
Answers(l, i) == i = 0 \/ i = l.base \/ Holds(l, i)

TermAt(l, i) ==
  IF i = 0 THEN 0
  ELSE IF i = l.base THEN l.baseTerm
  ELSE At(l, i).term

LastTerm(l) == TermAt(l, LastIndex(l))

\* Any entry at the index will do.
WrongMatches(l, i, t) == i = 0 \/ (l.base <= i /\ i <= LastIndex(l))

\* The consistency check of an append.
Matches(l, i, t) ==
  \/ i = 0
  \/ l.base <= i /\ i <= LastIndex(l) /\ TermAt(l, i) = t

\* The last terms alone, with no tie-break on the length.
WrongIsUpToDate(l, i, t) == t >= LastTerm(l)

\* The election restriction: is a log that ends at (i, t) at least as up to
\* date as l?  The last terms decide, and the lengths only break a tie.
IsUpToDate(l, i, t) ==
  \/ t > LastTerm(l)
  \/ t = LastTerm(l) /\ i >= LastIndex(l)

\* The entries from a to b, stopping at the end of the log (log.slice).
Slice(l, a, b) == SubSeq(l.entries, a - l.base, Min({b, LastIndex(l)}) - l.base)

Extend(l, es) == [l EXCEPT !.entries = @ \o es]

\* The log after everything from index i on is discarded (truncate_from).
Truncate(l, i) == [l EXCEPT !.entries = SubSeq(@, 1, i - 1 - l.base)]

\* What the log holds stays, whatever its term.
WrongMergeKeeps(l, prev, es) ==
  Extend(l, SubSeq(es, Max({LastIndex(l) - prev + 1, 1}), Len(es)))

\* Everything after prev goes, though it may be what the append repeats.
WrongMergeCuts(l, prev, es) == Extend(Truncate(l, prev + 1), es)

\* The loop of Node._on_append.  `es' are the entries prev + 1, prev + 2, ...
\* An entry the log holds with the same term is skipped; the first that is
\* missing or has another term truncates the log there and is appended with
\* all that follow it.  An entry inside the snapshot is neither held nor next,
\* so the loop passes over it.
Merge(l, prev, es) ==
  LET differs == {i \in (prev + 1)..(prev + Len(es)) :
                    \/ i > LastIndex(l)
                    \/ Holds(l, i) /\ At(l, i).term # es[i - prev].term}
  IN  IF differs = {} THEN l
      ELSE LET first == Min(differs)
           IN  Extend(Truncate(l, first), SubSeq(es, first - prev, Len(es)))

\* Where the run of equal terms that ends at index i begins, going no further
\* back than the first index held.
RunStart(l, i) ==
  LET run == {j \in FirstIndex(l)..i :
                \A k \in j..i : TermAt(l, k) = TermAt(l, i)}
  IN  IF run = {} THEN i ELSE Min(run)

\* The follower names the index before its end, not the one after.
WrongConflict(l, prev) ==
  [term |-> 0, index |-> IF prev > LastIndex(l) THEN LastIndex(l) - 1 ELSE RunStart(l, prev)]

\* What a follower names when it refuses an append at prev: the index after
\* its end if it is too short, else the term it disagrees on and where its run
\* of that term begins.  Needs Answers(l, prev) when prev is not past the end.
Conflict(l, prev) ==
  IF prev > LastIndex(l)
  THEN [term |-> 0, index |-> LastIndex(l) + 1]
  ELSE [term |-> TermAt(l, prev), index |-> RunStart(l, prev)]

\* Where the leader retries after a refusal that named `term' and `index':
\* after its own last entry of that term if it has one, else at the index.
SkipTerm(l, term, index) ==
  LET own == {i \in FirstIndex(l)..LastIndex(l) : At(l, i).term = term}
  IN  IF term # 0 /\ own # {} THEN Max(own) + 1
      ELSE Max({index, FirstIndex(l)})

\* snapshot.compact at an index the log holds: the entries up to it go, its
\* term stays.
Compact(l, upto) ==
  [base     |-> upto,
   baseTerm |-> TermAt(l, upto),
   entries  |-> SubSeq(l.entries, upto - l.base + 1, Len(l.entries))]

\* The log a snapshot leaves behind when it replaces everything.
FromSnapshot(index, term) == [base |-> index, baseTerm |-> term, entries |-> << >>]
=============================================================================

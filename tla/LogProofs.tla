----------------------------- MODULE LogProofs -----------------------------
(***************************************************************************)
(* What the operations on a log return, for logs of any length over any    *)
(* set of entries.                                                         *)
(***************************************************************************)
EXTENDS Log, SequenceTheorems, FiniteSetTheorems, WellFoundedInduction, TLAPS

-----------------------------------------------------------------------------
(* Least and greatest elements.                                            *)

\* A finite set of integers that has an element has a least one, and Min finds
\* it: the elements below each one are a subset, and subsets of a finite set
\* cannot shrink for ever.
LEMMA MinOfFinite ==
  ASSUME NEW S, S \subseteq Int, IsFiniteSet(S), S # {}
  PROVE  /\ Min(S) \in S
         /\ \A x \in S : Min(S) <= x
<1> DEFINE below(x) == {y \in S : y < x}
           T == {below(x) : x \in S}
<1>1. IsWellFoundedOn(StrictSubsetOrdering(S), FiniteSubsetsOf(S))
  BY FS_StrictSubsetOrderingWellFounded
<1>2. T \subseteq FiniteSubsetsOf(S) /\ T # {}
  <2>1. \A x \in S : below(x) \in SUBSET S /\ IsFiniteSet(below(x))
    BY FS_Subset
  <2> QED
    BY <2>1 DEF FiniteSubsetsOf
<1>3. PICK B \in T : \A C \in T : ~ (<<C, B>> \in StrictSubsetOrdering(S))
  BY <1>1, <1>2, WFMin
<1>4. PICK x \in S : B = below(x)
  OBVIOUS
<1>5. \A y \in S : x <= y
  <2> SUFFICES ASSUME NEW y \in S, y < x
               PROVE  FALSE
    OBVIOUS
  <2>1. below(y) \in T
    OBVIOUS
  <2>2. below(y) \in SUBSET S /\ below(x) \in SUBSET S
    OBVIOUS
  <2>3. \A z \in S : z < y => z < x
    BY SMT
  <2>4. below(y) \subseteq below(x)
    BY <2>3
  <2>5. y \in below(x) /\ y \notin below(y)
    BY SMT
  <2> QED
    BY <1>3, <1>4, <2>1, <2>2, <2>4, <2>5 DEF StrictSubsetOrdering
<1> QED
  BY <1>5 DEF Min

\* A finite set of integers that has an element has a greatest one, and Max finds
\* it: the elements above each one are a subset, and subsets of a finite set
\* cannot shrink for ever.
LEMMA MaxOfFinite ==
  ASSUME NEW S, S \subseteq Int, IsFiniteSet(S), S # {}
  PROVE  /\ Max(S) \in S
         /\ \A x \in S : Max(S) >= x
<1> DEFINE above(x) == {y \in S : y > x}
           T == {above(x) : x \in S}
<1>1. IsWellFoundedOn(StrictSubsetOrdering(S), FiniteSubsetsOf(S))
  BY FS_StrictSubsetOrderingWellFounded
<1>2. T \subseteq FiniteSubsetsOf(S) /\ T # {}
  <2>1. \A x \in S : above(x) \in SUBSET S /\ IsFiniteSet(above(x))
    BY FS_Subset
  <2> QED
    BY <2>1 DEF FiniteSubsetsOf
<1>3. PICK B \in T : \A C \in T : ~ (<<C, B>> \in StrictSubsetOrdering(S))
  BY <1>1, <1>2, WFMin
<1>4. PICK x \in S : B = above(x)
  OBVIOUS
<1>5. \A y \in S : x >= y
  <2> SUFFICES ASSUME NEW y \in S, y > x
               PROVE  FALSE
    OBVIOUS
  <2>1. above(y) \in T
    OBVIOUS
  <2>2. above(y) \in SUBSET S /\ above(x) \in SUBSET S
    OBVIOUS
  <2>3. \A z \in S : z > y => z > x
    BY SMT
  <2>4. above(y) \subseteq above(x)
    BY <2>3
  <2>5. y \in above(x) /\ y \notin above(y)
    BY SMT
  <2> QED
    BY <1>3, <1>4, <2>1, <2>2, <2>4, <2>5 DEF StrictSubsetOrdering
<1> QED
  BY <1>5 DEF Max

LEMMA MinOfPair ==
  ASSUME NEW x \in Int, NEW y \in Int
  PROVE  Min({x, y}) = IF x <= y THEN x ELSE y
BY SMT DEF Min

LEMMA MaxOfPair ==
  ASSUME NEW x \in Int, NEW y \in Int
  PROVE  Max({x, y}) = IF x >= y THEN x ELSE y
BY SMT DEF Max

\* A part of an interval is finite.
LEMMA PartOfInterval ==
  ASSUME NEW a \in Int, NEW b \in Int, NEW S, S \subseteq a..b
  PROVE  S \subseteq Int /\ IsFiniteSet(S)
<1>1. IsFiniteSet(a..b)
  BY FS_Interval
<1>2. IsFiniteSet(S)
  BY <1>1, FS_Subset
<1> QED
  BY <1>2, a..b \subseteq Int

-----------------------------------------------------------------------------
(* The indices and the terms of a log.                                     *)

LEMMA LogIndices ==
  ASSUME NEW E, NEW l \in LogOf(E)
  PROVE  /\ l.base \in Nat /\ l.baseTerm \in Nat
         /\ l.entries \in Seq(E) /\ Len(l.entries) \in Nat
         /\ FirstIndex(l) \in Nat /\ FirstIndex(l) = l.base + 1
         /\ LastIndex(l) \in Nat /\ LastIndex(l) = l.base + Len(l.entries)
BY LenProperties DEF LogOf, FirstIndex, LastIndex

LEMMA LogElement ==
  ASSUME NEW E, NEW l \in LogOf(E), NEW i \in Int, Holds(l, i)
  PROVE  At(l, i) \in E
<1>1. i - l.base \in 1..Len(l.entries)
  BY LogIndices DEF Holds
<1> QED
  BY <1>1, LogIndices, ElementOfSeq DEF At

\* Wherever term_at answers, it answers with a term.
LEMMA LogTerm ==
  ASSUME NEW E, \A e \in E : e.term \in Nat,
         NEW l \in LogOf(E), NEW i \in Int, Answers(l, i)
  PROVE  TermAt(l, i) \in Nat
BY LogElement, LogIndices DEF Answers, TermAt

LEMMA LogLastTerm ==
  ASSUME NEW E, \A e \in E : e.term \in Nat, NEW l \in LogOf(E)
  PROVE  LastTerm(l) \in Nat
<1>1. Answers(l, LastIndex(l))
  BY LogIndices DEF Answers, Holds
<1> QED
  BY <1>1, LogIndices, LogTerm DEF LastTerm

-----------------------------------------------------------------------------
(* Slices, and what the operations on a log leave behind.                  *)

LEMMA SliceType ==
  ASSUME NEW E, NEW l \in LogOf(E), NEW a \in Int, NEW b \in Int,
         a >= FirstIndex(l)
  PROVE  Slice(l, a, b) \in Seq(E)
<1> DEFINE end == Min({b, LastIndex(l)})
<1>1. end \in Int /\ end <= LastIndex(l)
  BY MinOfPair, LogIndices
<1>2. \A i \in (a - l.base)..(end - l.base) : i \in 1..Len(l.entries)
  BY <1>1, LogIndices
<1>3. \A i \in (a - l.base)..(end - l.base) : l.entries[i] \in E
  BY <1>2, LogIndices, ElementOfSeq
<1> HIDE DEF end
<1>4. SubSeq(l.entries, a - l.base, end - l.base) \in Seq(E)
  BY <1>1, <1>3, LogIndices, SubSeqProperties
<1> QED
  BY <1>4 DEF Slice, end

LEMMA ExtendType ==
  ASSUME NEW E, NEW l \in LogOf(E), NEW es \in Seq(E)
  PROVE  /\ Extend(l, es) \in LogOf(E)
         /\ LastIndex(Extend(l, es)) = LastIndex(l) + Len(es)
<1>1. /\ l.entries \o es \in Seq(E)
      /\ Len(l.entries \o es) = Len(l.entries) + Len(es)
  BY LogIndices, ConcatProperties
<1>2. /\ Extend(l, es) \in LogOf(E)
      /\ Extend(l, es).base = l.base /\ Extend(l, es).entries = l.entries \o es
  BY <1>1 DEF Extend, LogOf
<1> QED
  BY <1>1, <1>2, LogIndices, LenProperties DEF LastIndex

LEMMA TruncateType ==
  ASSUME NEW E, NEW l \in LogOf(E), NEW i \in Int,
         FirstIndex(l) <= i, i <= LastIndex(l) + 1
  PROVE  /\ Truncate(l, i) \in LogOf(E)
         /\ LastIndex(Truncate(l, i)) = i - 1
<1> DEFINE kept == SubSeq(l.entries, 1, i - 1 - l.base)
<1>1. \A j \in 1..(i - 1 - l.base) : l.entries[j] \in E
  BY LogIndices, ElementOfSeq
<1>2. kept \in Seq(E) /\ Len(kept) = i - 1 - l.base
  <2>1. 1 \in Int /\ i - 1 - l.base \in Int /\ i - 1 - l.base >= 0
    BY LogIndices
  <2> QED
    BY <1>1, <2>1, SubSeqProperties
<1> HIDE DEF kept
<1>3. /\ Truncate(l, i) \in LogOf(E)
      /\ Truncate(l, i).base = l.base /\ Truncate(l, i).entries = kept
  <2>1. Truncate(l, i) = [l EXCEPT !.entries = kept]
    BY DEF Truncate, kept
  <2> QED
    BY <1>2, <2>1 DEF LogOf
<1> QED
  BY <1>2, <1>3, LogIndices DEF LastIndex

\* An accepted append leaves a log behind.
LEMMA MergeType ==
  ASSUME NEW E, NEW l \in LogOf(E), NEW prev \in Nat, NEW t, NEW es \in Seq(E),
         Matches(l, prev, t)
  PROVE  Merge(l, prev, es) \in LogOf(E)
<1> DEFINE differs == {i \in (prev + 1)..(prev + Len(es)) :
                         \/ i > LastIndex(l)
                         \/ Holds(l, i) /\ At(l, i).term # es[i - prev].term}
           first == Min(differs)
           rest  == SubSeq(es, first - prev, Len(es))
<1>1. CASE differs = {}
  BY <1>1 DEF Merge
<1>2. CASE differs # {}
  <2>1. Len(es) \in Nat /\ prev + 1 \in Int /\ prev + Len(es) \in Int
    BY LenProperties
  <2>2. differs \subseteq Int /\ IsFiniteSet(differs)
    BY <2>1, PartOfInterval
  <2>3. first \in differs /\ \A i \in differs : first <= i
    BY <1>2, <2>2, MinOfFinite
  <2> HIDE DEF first
  <2>4. first \in Int /\ prev + 1 <= first /\ first <= prev + Len(es)
    BY <2>1, <2>3
  <2>5. FirstIndex(l) <= first
    BY <2>3, <2>4, LogIndices DEF Holds
  <2>6. first <= LastIndex(l) + 1
    <3> SUFFICES ASSUME first > LastIndex(l) + 1 PROVE FALSE
      BY <2>4, LogIndices
    <3>1. prev <= LastIndex(l)
      BY LogIndices DEF Matches
    <3>2. LastIndex(l) + 1 \in differs
      BY <2>1, <2>4, <3>1, LogIndices
    <3> QED
      BY <2>3, <2>4, <3>2, LogIndices
  <2>7. rest \in Seq(E)
    <3>1. first - prev \in Int /\ first - prev >= 1
      BY <2>4
    <3>2. \A i \in (first - prev)..Len(es) : es[i] \in E
      BY <2>1, <3>1, ElementOfSeq
    <3> QED
      BY <2>1, <3>1, <3>2, SubSeqProperties
  <2>8. Truncate(l, first) \in LogOf(E)
    BY <2>4, <2>5, <2>6, TruncateType
  <2>9. Extend(Truncate(l, first), rest) \in LogOf(E)
    BY <2>7, <2>8, ExtendType
  <2> QED
    BY <1>2, <2>9 DEF Merge, first
<1> QED
  BY <1>1, <1>2

LEMMA CompactType ==
  ASSUME NEW E, \A e \in E : e.term \in Nat,
         NEW l \in LogOf(E), NEW upto \in Int, Holds(l, upto)
  PROVE  Compact(l, upto) \in LogOf(E)
<1>1. upto \in Nat
  BY LogIndices DEF Holds
<1>2. TermAt(l, upto) \in Nat
  BY LogTerm DEF Answers
<1>3. SubSeq(l.entries, upto - l.base + 1, Len(l.entries)) \in Seq(E)
  <2>1. \A i \in (upto - l.base + 1)..Len(l.entries) : l.entries[i] \in E
    BY LogIndices, ElementOfSeq DEF Holds
  <2>2. upto - l.base + 1 \in Int /\ Len(l.entries) \in Int
    BY LogIndices
  <2> QED
    BY <2>1, <2>2, SubSeqProperties
<1> QED
  BY <1>1, <1>2, <1>3 DEF Compact, LogOf

\* What is written after a log leaves it as it was.
LEMMA ExtendKeeps ==
  ASSUME NEW E, NEW l \in LogOf(E), NEW es \in Seq(E), NEW i \in Int, Holds(l, i)
  PROVE  Holds(Extend(l, es), i) /\ At(Extend(l, es), i) = At(l, i)
<1>1. /\ Extend(l, es).base = l.base /\ Extend(l, es).entries = l.entries \o es
      /\ Len(es) \in Nat
  BY LenProperties DEF Extend, LogOf
<1>2. i - l.base \in 1..Len(l.entries)
  BY LogIndices DEF Holds
<1>3. (l.entries \o es)[i - l.base] = l.entries[i - l.base]
  BY <1>2, LogIndices, ConcatProperties
<1>4. LastIndex(Extend(l, es)) = LastIndex(l) + Len(es)
  BY ExtendType
<1> QED
  BY <1>1, <1>3, <1>4, LogIndices DEF Holds, At, FirstIndex

\* Compaction forgets the beginning of a log and moves nothing.
LEMMA CompactKeeps ==
  ASSUME NEW E, NEW l \in LogOf(E), NEW upto \in Int, Holds(l, upto)
  PROVE  /\ LastIndex(Compact(l, upto)) = LastIndex(l)
         /\ \A i \in Int : Holds(Compact(l, upto), i) =>
              Holds(l, i) /\ At(Compact(l, upto), i) = At(l, i)
<1> DEFINE a == upto - l.base + 1
           kept == SubSeq(l.entries, a, Len(l.entries))
<1>1. a \in Int /\ a >= 2 /\ a <= Len(l.entries) + 1 /\ Len(l.entries) \in Nat
  BY LogIndices DEF Holds
<1>2. \A i \in a..Len(l.entries) : l.entries[i] \in E
  BY <1>1, LogIndices, ElementOfSeq
<1>3. /\ Len(kept) = Len(l.entries) - a + 1
      /\ \A i \in 1..(Len(l.entries) - a + 1) : kept[i] = l.entries[a + i - 1]
  BY <1>1, <1>2, SubSeqProperties
<1>4. Compact(l, upto).base = upto /\ Compact(l, upto).entries = kept
  BY DEF Compact
<1> HIDE DEF kept
<1>5. LastIndex(Compact(l, upto)) = LastIndex(l)
  <2>1. upto + (Len(l.entries) - a + 1) = l.base + Len(l.entries)
    <3>1. l.base \in Int /\ Len(l.entries) \in Int
      BY LogIndices
    <3>2. \A b, n \in Int : upto + (n - (upto - b + 1) + 1) = b + n
      OBVIOUS
    <3> QED
      BY <3>1, <3>2
  <2> QED
    BY <1>3, <1>4, <2>1 DEF LastIndex
<1>6. ASSUME NEW i \in Int, Holds(Compact(l, upto), i)
      PROVE  Holds(l, i) /\ At(Compact(l, upto), i) = At(l, i)
  <2>1. upto + 1 <= i /\ i <= LastIndex(l)
    BY <1>4, <1>5, <1>6 DEF Holds, FirstIndex
  <2>2. i - upto \in 1..(Len(l.entries) - a + 1)
    BY <2>1, LogIndices
  <2>3. kept[i - upto] = l.entries[a + (i - upto) - 1]
    BY <1>3, <2>2
  <2>4. a + (i - upto) - 1 = i - l.base
    BY <1>1, LogIndices
  <2>5. Holds(l, i)
    BY <1>1, <2>1, LogIndices DEF Holds
  <2> QED
    BY <1>4, <2>3, <2>4, <2>5 DEF At
<1> QED
  BY <1>5, <1>6

-----------------------------------------------------------------------------
(* Logs of which nothing has been compacted.                               *)

Whole(l, E) == l \in LogOf(E) /\ l.base = 0 /\ l.baseTerm = 0

\* Two pieces of log are the same up to index k.
SameUpTo(s, u, k) == k <= Len(s) /\ k <= Len(u) /\ \A i \in 1..k : s[i] = u[i]

\* An entry of the same term at the same index tells that all before it is the same.
TermsTell(s, u) ==
  \A i : (i \in DOMAIN s /\ i \in DOMAIN u /\ s[i].term = u[i].term) => SameUpTo(s, u, i)

LEMMA WholeLog ==
  ASSUME NEW E, NEW l, Whole(l, E)
  PROVE  /\ l.entries \in Seq(E) /\ Len(l.entries) \in Nat
         /\ DOMAIN l.entries = 1..Len(l.entries)
         /\ FirstIndex(l) = 1 /\ LastIndex(l) = Len(l.entries)
         /\ \A i \in Int : At(l, i) = l.entries[i]
         /\ \A i \in Int : Holds(l, i) <=> i \in DOMAIN l.entries
         /\ \A i \in Int : i # 0 => TermAt(l, i) = l.entries[i].term
         /\ TermAt(l, 0) = 0
<1>1. /\ l.entries \in Seq(E) /\ Len(l.entries) \in Nat
      /\ DOMAIN l.entries = 1..Len(l.entries) /\ l.base = 0
  BY LenProperties DEF Whole, LogOf
<1>2. FirstIndex(l) = 1 /\ LastIndex(l) = Len(l.entries)
  BY <1>1 DEF FirstIndex, LastIndex
<1>3. \A i \in Int : At(l, i) = l.entries[i]
  BY <1>1 DEF At
<1>4. \A i \in Int : Holds(l, i) <=> i \in DOMAIN l.entries
  BY <1>1, <1>2 DEF Holds
<1>5. \A i \in Int : i # 0 => TermAt(l, i) = l.entries[i].term
  BY <1>1, <1>3 DEF TermAt
<1>6. TermAt(l, 0) = 0
  BY DEF TermAt
<1> QED
  BY <1>1, <1>2, <1>3, <1>4, <1>5, <1>6

\* What a slice holds.
LEMMA SliceOfWhole ==
  ASSUME NEW E, NEW l, Whole(l, E), NEW a \in Nat, a >= 1, NEW b \in Int
  PROVE  /\ Slice(l, a, b) \in Seq(E) /\ Len(Slice(l, a, b)) \in Nat
         /\ (b <= Len(l.entries) /\ a <= b) => Len(Slice(l, a, b)) = b - a + 1
         /\ a > b => Len(Slice(l, a, b)) = 0
         /\ \A j \in 1..Len(Slice(l, a, b)) :
              /\ a + j - 1 \in DOMAIN l.entries /\ a + j - 1 <= b
              /\ Slice(l, a, b)[j] = l.entries[a + j - 1]
<1> DEFINE r   == Slice(l, a, b)
           s   == l.entries
           end == IF b <= Len(s) THEN b ELSE Len(s)
<1>1. s \in Seq(E) /\ Len(s) \in Nat /\ DOMAIN s = 1..Len(s) /\ LastIndex(l) = Len(s)
  BY WholeLog
<1>2. Min({b, LastIndex(l)}) = end /\ end \in Int /\ end <= Len(s) /\ end <= b
  BY <1>1, MinOfPair
<1>3. r = SubSeq(s, a, end)
  <2>1. a - l.base = a /\ Min({b, LastIndex(l)}) - l.base = end
    BY <1>2 DEF Whole
  <2> QED
    BY <2>1 DEF Slice
<1> HIDE DEF end, r
<1>4. \A i \in a..end : s[i] \in E
  BY <1>1, <1>2, ElementOfSeq
<1>5. /\ SubSeq(s, a, end) \in Seq(E)
      /\ Len(SubSeq(s, a, end)) = IF a <= end THEN end - a + 1 ELSE 0
      /\ \A i \in 1..(end - a + 1) : SubSeq(s, a, end)[i] = s[a + i - 1]
  BY <1>2, <1>4, SubSeqProperties
<1>6. ASSUME NEW j \in 1..Len(r)
      PROVE  a + j - 1 \in DOMAIN s /\ a + j - 1 <= b /\ r[j] = s[a + j - 1]
  <2>1. Len(r) = IF a <= end THEN end - a + 1 ELSE 0
    BY <1>3, <1>5
  <2>2. j \in 1..(end - a + 1)
    BY <1>2, <2>1
  <2> QED
    BY <1>1, <1>2, <1>3, <1>5, <2>2
<1>7. b <= Len(s) => b = end
  BY DEF end
<1>8. r \in Seq(E) /\ Len(r) \in Nat
  BY <1>3, <1>5, LenProperties
<1>9. (b <= Len(s) /\ a <= b) => Len(r) = b - a + 1
  BY <1>3, <1>5, <1>7
<1>10. a > b => Len(r) = 0
  BY <1>2, <1>3, <1>5
<1> QED
  BY <1>6, <1>8, <1>9, <1>10 DEF r

\* What an append of a part of the log `u' does to a log that terms tell about: it
\* becomes a beginning of u, or had what was sent already; and nothing goes that u has
\* too.
LEMMA MergeOfPart ==
  ASSUME NEW E, NEW l, Whole(l, E), NEW u \in Seq(E), TermsTell(l.entries, u),
         NEW prev \in Nat, NEW es \in Seq(E), prev + Len(es) <= Len(u),
         \A k \in DOMAIN es : es[k] = u[prev + k],
         NEW t, t = (IF prev = 0 THEN 0 ELSE u[prev].term), Matches(l, prev, t),
         NEW r, r = Merge(l, prev, es)
  PROVE  /\ Whole(r, E)
         /\ SameUpTo(r.entries, u, prev + Len(es))
         /\ \/ r = l
            \/ SameUpTo(r.entries, u, Len(r.entries))
         /\ \A i \in DOMAIN l.entries :
              (i \in DOMAIN u /\ l.entries[i].term = u[i].term)
                => i \in DOMAIN r.entries /\ r.entries[i] = l.entries[i]
<1> DEFINE s    == l.entries
           end  == prev + Len(es)
           differs == {i \in (prev + 1)..end :
                         \/ i > LastIndex(l)
                         \/ Holds(l, i) /\ At(l, i).term # es[i - prev].term}
<1>1. /\ s \in Seq(E) /\ Len(s) \in Nat /\ DOMAIN s = 1..Len(s)
      /\ Len(u) \in Nat /\ DOMAIN u = 1..Len(u)
      /\ Len(es) \in Nat /\ DOMAIN es = 1..Len(es)
      /\ prev \in Nat /\ end \in Nat /\ end <= Len(u)
  BY WholeLog, LenProperties
<1>2. \A i \in (prev + 1)..end : es[i - prev] = u[i]
  <2> SUFFICES ASSUME NEW i \in (prev + 1)..end PROVE es[i - prev] = u[i]
    OBVIOUS
  <2>1. i - prev \in DOMAIN es /\ prev + (i - prev) = i
    BY <1>1
  <2> QED
    BY <2>1
<1>3. differs = {i \in (prev + 1)..end : i > Len(s) \/ s[i].term # u[i].term}
  <2>1. ASSUME NEW i \in (prev + 1)..end
        PROVE  (i > LastIndex(l) \/ (Holds(l, i) /\ At(l, i).term # es[i - prev].term))
                 <=> (i > Len(s) \/ s[i].term # u[i].term)
    <3>1. i \in Int /\ i >= 1 /\ es[i - prev] = u[i]
      BY <1>1, <1>2
    <3>2. LastIndex(l) = Len(s) /\ At(l, i) = s[i] /\ (Holds(l, i) <=> i \in 1..Len(s))
      BY <1>1, <3>1, WholeLog
    <3> QED
      BY <1>1, <3>1, <3>2
  <2> QED
    BY <2>1
<1>4. Merge(l, prev, es) = IF differs = {} THEN l
                           ELSE Extend(Truncate(l, Min(differs)),
                                       SubSeq(es, Min(differs) - prev, Len(es)))
  BY DEF Merge
<1> HIDE DEF differs
\* The logs are the same as far as they had to match.
<1>5. SameUpTo(s, u, prev)
  <2>1. CASE prev = 0
    BY <1>1, <2>1 DEF SameUpTo
  <2>2. CASE prev # 0
    <3>1. prev <= LastIndex(l) /\ TermAt(l, prev) = t
      BY <2>2 DEF Matches
    <3>2. prev \in DOMAIN s /\ prev \in DOMAIN u /\ s[prev].term = u[prev].term
      BY <1>1, <2>2, <3>1, WholeLog
    <3> QED
      BY <1>1, <3>2 DEF TermsTell
  <2> QED
    BY <2>1, <2>2
\* ... and further, up to an index at which they do not differ.
<1>6. ASSUME NEW i \in prev..end, i \notin differs
      PROVE  SameUpTo(s, u, i)
  <2>1. CASE i = prev
    BY <1>5, <2>1
  <2>2. CASE i # prev
    <3>1. i \in (prev + 1)..end
      BY <1>1, <2>2
    <3>2. i \in DOMAIN s /\ i \in DOMAIN u /\ s[i].term = u[i].term
      BY <1>1, <1>3, <1>6, <3>1
    <3> QED
      BY <1>1, <3>2 DEF TermsTell
  <2> QED
    BY <2>1, <2>2
<1>7. CASE differs = {}
  <2>1. r = l
    BY <1>4, <1>7
  <2>2. end \in prev..end
    BY <1>1
  <2> QED
    BY <1>6, <1>7, <2>1, <2>2
<1>8. CASE differs # {}
  <2> DEFINE first == Min(differs)
             head  == SubSeq(s, 1, first - 1)
             tail  == SubSeq(es, first - prev, Len(es))
  <2>1. first \in differs /\ \A i \in differs : first <= i
    <3>1. differs \subseteq (prev + 1)..end /\ prev + 1 \in Int /\ end \in Int
      BY <1>1, <1>3
    <3> QED
      BY <1>8, <3>1, PartOfInterval, MinOfFinite
  <2>2. r = Extend(Truncate(l, first), tail)
    BY <1>4, <1>8
  <2> HIDE DEF first
  <2>3. /\ first \in Nat /\ prev + 1 <= first /\ first <= end
        /\ first > Len(s) \/ s[first].term # u[first].term
    BY <1>1, <1>3, <2>1
  <2>4. SameUpTo(s, u, first - 1)
    <3>1. first - 1 \in prev..end /\ first - 1 \notin differs
      BY <1>1, <2>1, <2>3
    <3> QED
      BY <1>6, <3>1
  <2>5. first - 1 <= Len(s) /\ first - 1 \in Nat
    BY <1>1, <2>3, <2>4 DEF SameUpTo
  <2>6. /\ head \in Seq(E) /\ Len(head) = first - 1
        /\ \A i \in 1..(first - 1) : head[i] = s[i]
    <3>1. \A i \in 1..(first - 1) : s[i] \in E
      BY <1>1, <2>5, ElementOfSeq
    <3> QED
      BY <2>5, <3>1, SubSeqProperties
  <2>7. /\ tail \in Seq(E) /\ Len(tail) = end - first + 1
        /\ \A i \in 1..(end - first + 1) : tail[i] = es[first - prev + i - 1]
    <3>1. first - prev \in Int /\ first - prev >= 1 /\ first - prev <= Len(es) + 1
      BY <1>1, <2>3
    <3>2. \A i \in (first - prev)..Len(es) : es[i] \in E
      BY <1>1, <3>1, ElementOfSeq
    <3>3. Len(es) - (first - prev) + 1 = end - first + 1
      BY <1>1, <2>3
    <3> DEFINE d == first - prev
    <3> HIDE DEF d
    <3>4. d \in Int /\ d >= 1 /\ d <= Len(es) + 1 /\ \A i \in d..Len(es) : es[i] \in E
      BY <3>1, <3>2 DEF d
    <3>5. /\ SubSeq(es, d, Len(es)) \in Seq(E)
          /\ Len(SubSeq(es, d, Len(es))) = Len(es) - d + 1
          /\ \A i \in 1..(Len(es) - d + 1) : SubSeq(es, d, Len(es))[i] = es[d + i - 1]
      BY <1>1, <3>4, SubSeqProperties
    <3> QED
      BY <3>3, <3>5 DEF d
  <2>8. r.entries = head \o tail /\ r.base = 0 /\ r.baseTerm = 0
    <3>1. Truncate(l, first) = [l EXCEPT !.entries = head]
      BY <2>5 DEF Truncate, Whole
    <3> HIDE DEF head, tail
    <3> QED
      BY <2>2, <3>1 DEF Extend, Whole, LogOf
  <2> HIDE DEF head, tail
  <2>9. /\ r.entries \in Seq(E) /\ Len(r.entries) = end
        /\ DOMAIN r.entries = 1..end
    <3>1. head \o tail \in Seq(E) /\ Len(head \o tail) = Len(head) + Len(tail)
      <4>1. head \in Seq(E) /\ tail \in Seq(E)
        BY <2>6, <2>7
      <4> QED
        BY <4>1, ConcatProperties
    <3>2. Len(head) + Len(tail) = end
      <4>1. Len(head) = first - 1 /\ Len(tail) = end - first + 1
        BY <2>6, <2>7
      <4>2. first \in Int /\ end \in Int
        BY <1>1, <2>3
      <4> HIDE DEF end
      <4> QED
        BY <4>1, <4>2
    <3> QED
      BY <2>8, <3>1, <3>2, LenProperties
  <2>10. ASSUME NEW i \in 1..end
         PROVE  r.entries[i] = u[i]
    <3>1. CASE i <= first - 1
      <4>1. i \in 1..(first - 1)
        BY <2>5, <3>1
      <4>2. r.entries[i] = s[i]
        BY <2>6, <2>7, <2>8, <4>1, ConcatProperties
      <4> QED
        BY <2>4, <4>1, <4>2 DEF SameUpTo
    <3>2. CASE i >= first
      <4>1. /\ i \in (Len(head) + 1)..(Len(head) + Len(tail))
            /\ i - Len(head) \in 1..(end - first + 1)
        BY <1>1, <2>3, <2>6, <2>7, <3>2, SMTT(30)
      <4>2. r.entries[i] = tail[i - Len(head)]
        BY <2>6, <2>7, <2>8, <4>1, ConcatProperties
      <4>3. tail[i - Len(head)] = es[first - prev + (i - Len(head)) - 1]
        BY <2>7, <4>1
      <4>4. first - prev + (i - Len(head)) - 1 = i - prev /\ i \in (prev + 1)..end
        BY <1>1, <2>3, <2>6, <3>2
      <4> QED
        BY <1>2, <4>2, <4>3, <4>4
    <3> QED
      BY <2>3, <3>1, <3>2
  <2>11. SameUpTo(r.entries, u, end)
    BY <1>1, <2>9, <2>10 DEF SameUpTo
  <2>12. Whole(r, E)
    <3>1. r \in LogOf(E)
      BY <1>1, MergeType DEF Whole
    <3> QED
      BY <2>8, <3>1 DEF Whole
  <2>13. ASSUME NEW i \in DOMAIN s, i \in DOMAIN u, s[i].term = u[i].term
         PROVE  i \in DOMAIN r.entries /\ r.entries[i] = s[i]
    <3>1. SameUpTo(s, u, i) /\ i \in Nat
      BY <1>1, <2>13 DEF TermsTell
    <3>2. i < first
      BY <1>1, <2>3, <3>1 DEF SameUpTo
    <3>3. i \in 1..end /\ i \in 1..i
      BY <1>1, <2>3, <3>2
    <3> QED
      BY <2>9, <2>10, <3>1, <3>3 DEF SameUpTo
  <2> QED
    BY <2>9, <2>11, <2>12, <2>13
<1> QED
  BY <1>7, <1>8

-----------------------------------------------------------------------------
(* The indices that a refusal names and a leader retries at.               *)

LEMMA RunStartType ==
  ASSUME NEW E, NEW l \in LogOf(E), NEW i \in Nat
  PROVE  RunStart(l, i) \in Nat
<1> DEFINE run == {j \in FirstIndex(l)..i : \A k \in j..i : TermAt(l, k) = TermAt(l, i)}
<1>1. CASE run = {}
  BY <1>1 DEF RunStart
<1>2. CASE run # {}
  <2>1. run \subseteq Int /\ IsFiniteSet(run)
    BY LogIndices, PartOfInterval
  <2>2. Min(run) \in run
    BY <1>2, <2>1, MinOfFinite
  <2>3. Min(run) \in Nat
    BY <2>2, LogIndices
  <2> QED
    BY <1>2, <2>3 DEF RunStart
<1> QED
  BY <1>1, <1>2

LEMMA ConflictType ==
  ASSUME NEW E, \A e \in E : e.term \in Nat, NEW l \in LogOf(E),
         NEW prev \in Nat, prev >= l.base
  PROVE  Conflict(l, prev).term \in Nat /\ Conflict(l, prev).index \in Nat
<1>1. CASE prev > LastIndex(l)
  BY <1>1, LogIndices DEF Conflict
<1>2. CASE ~(prev > LastIndex(l))
  <2>1. Answers(l, prev)
    BY <1>2, LogIndices DEF Answers, Holds
  <2>2. TermAt(l, prev) \in Nat /\ RunStart(l, prev) \in Nat
    BY <2>1, LogTerm, RunStartType
  <2> QED
    BY <1>2, <2>2 DEF Conflict
<1> QED
  BY <1>1, <1>2

\* A leader never retries inside its own snapshot, which is also why it never
\* comes to send that snapshot after a refusal.
LEMMA SkipTermBound ==
  ASSUME NEW E, NEW l \in LogOf(E), NEW term \in Nat, NEW index \in Nat
  PROVE  /\ SkipTerm(l, term, index) \in Nat
         /\ SkipTerm(l, term, index) >= FirstIndex(l)
<1> DEFINE own == {i \in FirstIndex(l)..LastIndex(l) : At(l, i).term = term}
<1>1. CASE term # 0 /\ own # {}
  <2>1. own \subseteq Int /\ IsFiniteSet(own)
    BY LogIndices, PartOfInterval
  <2>2. Max(own) \in own
    BY <1>1, <2>1, MaxOfFinite
  <2>3. Max(own) \in Nat /\ Max(own) >= FirstIndex(l)
    BY <2>2, LogIndices
  <2> QED
    BY <1>1, <2>3, LogIndices DEF SkipTerm
<1>2. CASE ~(term # 0 /\ own # {})
  <2>1. SkipTerm(l, term, index) = Max({index, FirstIndex(l)})
    BY <1>2 DEF SkipTerm
  <2> QED
    BY <2>1, LogIndices, MaxOfPair
<1> QED
  BY <1>1, <1>2
=============================================================================

---------------------------- MODULE RepairProofs ----------------------------
(***************************************************************************)
(* Every search of the module Repair that comes to its end has found the   *)
(* agreement point, for logs of any length and any terms, and at what      *)
(* price.                                                                  *)
(***************************************************************************)
EXTENDS Repair, LogProofs

Phase == {"back", "halve", "done"}

TypeOK ==
  /\ strategy \in Strategy
  /\ mine \in Candidate /\ theirs \in Candidate
  /\ Match(mine, theirs)
  /\ phase \in Phase
  /\ low \in Nat /\ high \in Int /\ found \in Int /\ probes \in Nat

\* InReach alone is not inductive: that a refused index may be asked again needs
\* that it is an index of the leader's log, and the conflict term walk, which may
\* pass the place, needs it too; that only a limited search gives up needs which
\* search is in which phase.
Bounded ==
  /\ high <= LastIndex(mine)
  /\ phase = "back" => 0 <= high /\ low = 0 /\ found = 0 /\ strategy # "bisect"
  /\ phase = "halve" => 0 <= found /\ strategy \in {"bisect", "hybrid"}

IInv == TypeOK /\ Bounded /\ InReach /\ FindsThePlace

-----------------------------------------------------------------------------
(* Two logs.                                                               *)

LEMMA CandidateLog ==
  ASSUME NEW l \in Candidate
  PROVE  /\ l \in LogOf(Termed) /\ l.base = 0 /\ Ordered(l)
         /\ LastIndex(l) \in Nat /\ FirstIndex(l) = 1
         /\ \A i \in 1..LastIndex(l) : Holds(l, i) /\ At(l, i).term \in Nat \ {0}
         /\ \A i \in 1..LastIndex(l) : TermAt(l, i) = At(l, i).term
<1>1. l \in LogOf(Termed) /\ l.base = 0 /\ Ordered(l)
  BY RepairAssumption
<1>2. LastIndex(l) \in Nat /\ FirstIndex(l) = 1
  BY <1>1, LogIndices
<1>3. ASSUME NEW i \in 1..LastIndex(l)
      PROVE  Holds(l, i) /\ At(l, i).term \in Nat \ {0} /\ TermAt(l, i) = At(l, i).term
  <2>1. Holds(l, i)
    BY <1>2 DEF Holds
  <2>2. At(l, i) \in Termed
    BY <1>1, <1>2, <2>1, LogElement
  <2>3. i # 0 /\ i # l.base
    BY <1>1, <1>2
  <2> QED
    BY <2>1, <2>2, <2>3 DEF Termed, TermAt
<1> QED
  BY <1>1, <1>2, <1>3

\* The agreement point is an index, the logs are the same up to it and nowhere
\* beyond it.
LEMMA Agreement ==
  ASSUME NEW l \in Candidate, NEW r \in Candidate, Match(l, r)
  PROVE  /\ AgreeUpTo(l, r) \in Nat
         /\ AgreeUpTo(l, r) <= LastIndex(l) /\ AgreeUpTo(l, r) <= LastIndex(r)
         /\ \A i \in 1..LastIndex(l) : Same(l, r, i) <=> i <= AgreeUpTo(l, r)
<1> DEFINE same == {i \in 1..LastIndex(l) : Same(l, r, i)}
           A == AgreeUpTo(l, r)
<1>1. LastIndex(l) \in Nat /\ LastIndex(r) \in Nat
  BY CandidateLog
<1>2. {0} \cup same \subseteq 0..LastIndex(l) /\ {0} \cup same # {}
  BY <1>1
<1>3. {0} \cup same \subseteq Int /\ IsFiniteSet({0} \cup same)
  BY <1>1, <1>2, PartOfInterval
<1>4. A \in {0} \cup same /\ \A x \in {0} \cup same : A >= x
  BY <1>2, <1>3, MaxOfFinite DEF AgreeUpTo
<1>5. A \in Nat /\ A <= LastIndex(l)
  BY <1>1, <1>2, <1>4
<1>6. A = 0 \/ Same(l, r, A)
  BY <1>4
<1>7. A <= LastIndex(r)
  BY <1>1, <1>5, <1>6 DEF Same, Holds
<1>8. ASSUME NEW i \in 1..LastIndex(l), i <= A
      PROVE  Same(l, r, i)
  <2>1. A \in 1..LastIndex(l) /\ i \in 1..A
    BY <1>1, <1>5, <1>8
  <2>2. Same(l, r, A)
    BY <1>6, <2>1
  <2> QED
    BY <2>1, <2>2 DEF Match
<1>9. ASSUME NEW i \in 1..LastIndex(l), Same(l, r, i)
      PROVE  i <= A
  BY <1>1, <1>4, <1>5, <1>9
<1> QED
  BY <1>5, <1>7, <1>8, <1>9

\* The follower accepts a probe exactly as far as the logs agree, which is what
\* makes a bisection sound.
LEMMA AcceptedIfAgreed ==
  ASSUME NEW l \in Candidate, NEW r \in Candidate, Match(l, r),
         NEW i \in 0..LastIndex(l)
  PROVE  Matches(r, i, TermAt(l, i)) <=> i <= AgreeUpTo(l, r)
<1>1. CASE i = 0
  BY <1>1, Agreement DEF Matches
<1>2. CASE i # 0
  <2>1. i \in 1..LastIndex(l) /\ LastIndex(l) \in Nat /\ LastIndex(r) \in Nat
    BY <1>2, CandidateLog
  <2>2. Same(l, r, i) <=> i <= AgreeUpTo(l, r)
    BY <2>1, Agreement
  <2>3. TermAt(l, i) = At(l, i).term /\ Holds(l, i)
    BY <2>1, CandidateLog
  <2>4. r.base = 0 /\ FirstIndex(r) = 1
    BY CandidateLog
  <2>5. i <= LastIndex(r) => TermAt(r, i) = At(r, i).term
    BY <2>1, CandidateLog
  <2>6. Matches(r, i, TermAt(l, i)) <=> (i <= LastIndex(r) /\ TermAt(r, i) = TermAt(l, i))
    BY <1>2, <2>1, <2>4 DEF Matches
  <2>7. Holds(r, i) <=> i <= LastIndex(r)
    BY <2>1, <2>4 DEF Holds
  <2> QED
    BY <2>2, <2>3, <2>5, <2>6, <2>7 DEF Same
<1> QED
  BY <1>1, <1>2

-----------------------------------------------------------------------------
(* A refusal.                                                              *)

LEMMA RunOfTerm ==
  ASSUME NEW r \in Candidate, NEW i \in 1..LastIndex(r)
  PROVE  /\ RunStart(r, i) \in 1..i
         /\ \A k \in RunStart(r, i)..i : At(r, k).term = At(r, i).term
<1> DEFINE run == {j \in FirstIndex(r)..i : \A k \in j..i : TermAt(r, k) = TermAt(r, i)}
<1>1. FirstIndex(r) = 1 /\ LastIndex(r) \in Nat
  BY CandidateLog
<1>2. i \in run
  BY <1>1
<1>3. run \subseteq Int /\ IsFiniteSet(run)
  BY <1>1, PartOfInterval
<1>4. Min(run) \in run
  BY <1>2, <1>3, MinOfFinite
<1>5. RunStart(r, i) = Min(run)
  BY <1>2 DEF RunStart
<1>6. RunStart(r, i) \in 1..i /\ \A k \in RunStart(r, i)..i : TermAt(r, k) = TermAt(r, i)
  BY <1>1, <1>4, <1>5
<1>7. \A k \in RunStart(r, i)..i : k \in 1..LastIndex(r)
  BY <1>1, <1>6
<1> QED
  BY <1>6, <1>7, CandidateLog

\* What the follower names is past the place: the index is, and if it names a term,
\* so is every entry of the leader's that comes after the leader's last of that term.
LEMMA RefusalIsPast ==
  ASSUME NEW l \in Candidate, NEW r \in Candidate, Match(l, r),
         NEW i \in 1..LastIndex(l), AgreeUpTo(l, r) < i,
         NEW c, c = Conflict(r, i)
  PROVE  LET own == {j \in 1..LastIndex(l) : At(l, j).term = c.term}
         IN  /\ c.term \in Nat /\ c.index \in 1..i
             /\ c.term # 0 /\ own # {} => AgreeUpTo(l, r) <= Max(own) /\ Max(own) \in own
             /\ c.term = 0 \/ own = {} => AgreeUpTo(l, r) < c.index
             /\ c.term = 0 => own = {}
<1> DEFINE own == {j \in 1..LastIndex(l) : At(l, j).term = c.term}
           A == AgreeUpTo(l, r)
<1>1. /\ LastIndex(l) \in Nat /\ LastIndex(r) \in Nat
      /\ A \in Nat /\ A <= LastIndex(l) /\ A <= LastIndex(r)
  BY CandidateLog, Agreement
<1>2. A # 0 => At(l, A).term = At(r, A).term
  <2>1. A # 0 => A \in 1..LastIndex(l)
    BY <1>1
  <2> QED
    BY <1>1, <2>1, Agreement DEF Same
<1>3. CASE i > LastIndex(r)
  <2>1. c.term = 0 /\ c.index = LastIndex(r) + 1
    BY <1>3 DEF Conflict
  <2>2. own = {}
    BY <2>1, CandidateLog
  <2> QED
    BY <1>1, <1>3, <2>1, <2>2
<1>4. CASE ~(i > LastIndex(r))
  <2>1. i \in 1..LastIndex(r)
    BY <1>1, <1>4
  <2>2. c.term = At(r, i).term /\ c.index = RunStart(r, i) /\ c.term \in Nat \ {0}
    BY <1>4, <2>1, CandidateLog DEF Conflict
  <2>3. c.index \in 1..i /\ \A k \in c.index..i : At(r, k).term = c.term
    BY <2>1, <2>2, RunOfTerm
  <2>4. ASSUME own # {}
        PROVE  A <= Max(own) /\ Max(own) \in own
    <3>1. own \subseteq Int /\ IsFiniteSet(own)
      BY <1>1, PartOfInterval
    <3>2. Max(own) \in own /\ \A x \in own : Max(own) >= x
      BY <2>4, <3>1, MaxOfFinite
    <3>3. SUFFICES ASSUME Max(own) < A
                   PROVE  FALSE
      BY <1>1, <3>2
    <3>4. A \in 1..LastIndex(l) /\ A \in 1..LastIndex(r) /\ Max(own) \in 1..LastIndex(l)
      BY <1>1, <3>2, <3>3
    <3>5. At(l, A).term >= c.term
      <4>1. At(l, Max(own)).term = c.term
        BY <3>2
      <4>2. Ordered(l)
        BY CandidateLog
      <4> QED
        BY <3>3, <3>4, <4>1, <4>2, CandidateLog DEF Ordered
    <3>6. At(r, A).term <= c.term
      <4>1. Ordered(r)
        BY CandidateLog
      <4> QED
        BY <2>1, <2>2, <3>4, <4>1 DEF Ordered
    <3>7. At(l, A).term = c.term
      BY <1>1, <1>2, <2>2, <3>4, <3>5, <3>6, CandidateLog
    <3>8. A \in own
      BY <3>4, <3>7
    <3> QED
      BY <1>1, <3>2, <3>3, <3>8
  <2>5. ASSUME own = {}
        PROVE  A < c.index
    <3>1. SUFFICES ASSUME c.index <= A
                   PROVE  FALSE
      BY <1>1, <2>3
    <3>2. A \in c.index..i /\ A \in 1..LastIndex(l) /\ A # 0
      BY <1>1, <2>3, <3>1
    <3>3. At(l, A).term = c.term
      BY <1>2, <2>3, <3>2
    <3> QED
      BY <2>5, <3>2, <3>3
  <2> QED
    BY <2>2, <2>3, <2>4, <2>5
<1> QED
  BY <1>3, <1>4

\* A refused search goes back, and not past the place; the conflict term walk may
\* pass it, but stays on the leader's log.
LEMMA RetreatStops ==
  ASSUME TypeOK, high \in 1..LastIndex(mine), Agreed < high
  PROVE  /\ Retreat(high) \in 0..LastIndex(mine)
         /\ strategy # "conflict_term" => Agreed <= Retreat(high)
<1> DEFINE c == Conflict(theirs, high)
           own == {j \in 1..LastIndex(mine) : At(mine, j).term = c.term}
<1> HIDE DEF c
<1>1. /\ mine \in Candidate /\ theirs \in Candidate /\ Match(mine, theirs)
      /\ strategy \in Strategy
  BY DEF TypeOK
<1>2. /\ LastIndex(mine) \in Nat /\ LastIndex(theirs) \in Nat
      /\ Agreed \in Nat /\ Agreed <= LastIndex(mine) /\ Agreed <= LastIndex(theirs)
  BY <1>1, CandidateLog, Agreement DEF Agreed
<1>3. /\ c.term \in Nat /\ c.index \in 1..high
      /\ c.term # 0 /\ own # {} => Agreed <= Max(own) /\ Max(own) \in own
      /\ c.term = 0 \/ own = {} => Agreed < c.index
      /\ c.term = 0 => own = {}
  BY <1>1, RefusalIsPast DEF c, Agreed
<1>4. c.term # 0 /\ own # {} => Max(own) \in 1..LastIndex(mine)
  BY <1>3
<1> HIDE DEF own
<1>5. CASE strategy = "skip_term"
  <2>1. Retreat(high) = NextIndex(c, high)
    BY <1>5 DEF Retreat, c
  <2>2. CASE c.term > 0 /\ own # {}
    <3>1. NextIndex(c, high) = Min({Max(own), high - 1})
      BY <2>2 DEF NextIndex, own
    <3> QED
      BY <1>2, <1>3, <1>4, <2>1, <2>2, <3>1, MinOfPair
  <2>3. CASE ~(c.term > 0 /\ own # {})
    <3>1. NextIndex(c, high) = Min({Max({c.index - 1, 0}), high - 1})
      BY <2>3 DEF NextIndex, own
    <3>2. Max({c.index - 1, 0}) = c.index - 1
      BY <1>3, MaxOfPair
    <3>3. Agreed < c.index
      BY <1>3, <2>3
    <3>4. c.index - 1 \in Int /\ high - 1 \in Int /\ c.index - 1 <= high - 1
      BY <1>2, <1>3
    <3>5. Min({c.index - 1, high - 1}) = c.index - 1
      BY <3>4, MinOfPair
    <3> QED
      BY <1>2, <1>3, <2>1, <3>1, <3>2, <3>3, <3>5
  <2> QED
    BY <2>2, <2>3
<1>6. CASE strategy = "node"
  <2>1. Retreat(high) = SkipTerm(mine, c.term, c.index) - 1
    BY <1>6 DEF Retreat, Retried, c
  <2>2. FirstIndex(mine) = 1
    BY <1>1, CandidateLog
  <2>3. CASE c.term # 0 /\ own # {}
    <3>1. SkipTerm(mine, c.term, c.index) = Max(own) + 1
      BY <2>2, <2>3 DEF SkipTerm, own
    <3> QED
      BY <1>2, <1>3, <1>4, <2>1, <2>3, <3>1
  <2>4. CASE ~(c.term # 0 /\ own # {})
    <3>1. SkipTerm(mine, c.term, c.index) = Max({c.index, 1})
      BY <2>2, <2>4 DEF SkipTerm, own
    <3>2. Max({c.index, 1}) = c.index
      BY <1>3, MaxOfPair
    <3> QED
      BY <1>2, <1>3, <2>1, <2>4, <3>1, <3>2
  <2> QED
    BY <2>3, <2>4
<1>7. CASE strategy = "conflict_term"
  <2>1. Retreat(high) = Reconciled(high)
    BY <1>7 DEF Retreat
  <2>2. high \in 1..LastIndex(theirs) => RunStart(theirs, high) \in 1..high
    BY <1>1, RunOfTerm
  <2> QED
    BY <1>2, <1>7, <2>1, <2>2 DEF Reconciled
<1>8. CASE strategy \notin {"skip_term", "node", "conflict_term"}
  <2>1. Retreat(high) = high - 1
    BY <1>8 DEF Retreat
  <2> QED
    BY <1>2, <2>1
<1> QED
  BY <1>5, <1>6, <1>7, <1>8

-----------------------------------------------------------------------------
(* The invariant.                                                          *)

LEMMA CountedProbe ==
  ASSUME TypeOK
  PROVE  Min({probes + 1, MaxProbes}) \in Nat
BY RepairAssumption, MinOfPair DEF TypeOK

LEMMA GoBackStep ==
  ASSUME IInv, GoBack
  PROVE  IInv'
<1>1. TypeOK /\ Bounded /\ InReach /\ phase = "back"
  BY DEF IInv, GoBack
<1>2. /\ mine \in Candidate /\ theirs \in Candidate /\ Match(mine, theirs)
      /\ LastIndex(mine) \in Nat /\ Agreed \in Nat /\ high \in 0..LastIndex(mine)
  BY <1>1, CandidateLog, Agreement DEF TypeOK, Bounded, Agreed
<1>3. Agreed' = Agreed /\ UNCHANGED <<strategy, mine, theirs, low>>
  BY DEF GoBack, Agreed
<1>4. Accepts(high) <=> high <= Agreed
  BY <1>2, AcceptedIfAgreed DEF Accepts, Agreed
<1>5. probes' \in Nat
  BY <1>1, CountedProbe DEF GoBack
<1>6. CASE Accepts(high)
  <2>1. phase' = "done" /\ found' = high /\ high' = high
    BY <1>6 DEF GoBack
  <2>2. strategy # "conflict_term" => found' = Agreed'
    BY <1>1, <1>2, <1>3, <1>4, <1>6, <2>1 DEF InReach
  <2>3. TypeOK'
    BY <1>1, <1>2, <1>3, <1>5, <2>1 DEF TypeOK, Phase
  <2>4. Bounded' /\ InReach'
    BY <1>1, <1>3, <2>1 DEF Bounded, InReach
  <2>5. FindsThePlace'
    BY <1>2, <1>3, <1>4, <1>6, <2>1, <2>2 DEF FindsThePlace
  <2> QED
    BY <2>3, <2>4, <2>5 DEF IInv
<1>7. CASE ~Accepts(high)
  <2>1. phase' = phase /\ found' = found /\ high' = Retreat(high)
    BY <1>7 DEF GoBack
  <2>2. high \in 1..LastIndex(mine) /\ Agreed < high
    BY <1>2, <1>4, <1>7
  <2>3. high' \in 0..LastIndex(mine) /\ (strategy # "conflict_term" => Agreed <= high')
    BY <1>1, <2>1, <2>2, RetreatStops
  <2>4. TypeOK'
    BY <1>1, <1>2, <1>3, <1>5, <2>1, <2>3 DEF TypeOK, Phase
  <2>5. Bounded' /\ InReach' /\ FindsThePlace'
    BY <1>1, <1>2, <1>3, <2>1, <2>3 DEF Bounded, InReach, FindsThePlace
  <2> QED
    BY <2>4, <2>5 DEF IInv
<1> QED
  BY <1>6, <1>7

LEMMA GiveUpStep ==
  ASSUME IInv, GiveUp
  PROVE  IInv'
<1>1. TypeOK /\ Bounded /\ InReach /\ phase = "back" /\ ~MayGoOn
  BY DEF IInv, GiveUp
<1>2. Agreed' = Agreed /\ UNCHANGED <<strategy, mine, theirs, low, high, probes>>
  BY DEF GiveUp, Agreed
<1>3. LastIndex(mine) \in Nat /\ Agreed \in Nat
  BY <1>1, CandidateLog, Agreement DEF TypeOK, Agreed
<1>4. CASE strategy = "hybrid"
  <2>1. phase' = "halve" /\ found' = found
    BY <1>4 DEF GiveUp
  <2>2. TypeOK'
    BY <1>1, <1>2, <2>1 DEF TypeOK, Phase
  <2>3. Bounded' /\ InReach' /\ FindsThePlace'
    BY <1>1, <1>2, <1>3, <1>4, <2>1 DEF TypeOK, Bounded, InReach, FindsThePlace
  <2> QED
    BY <2>2, <2>3 DEF IInv
<1>5. CASE strategy # "hybrid"
  <2>1. phase' = "done" /\ found' = -1
    BY <1>5 DEF GiveUp
  <2>2. strategy \in Limited /\ probes >= Limit
    BY <1>1, <1>5, RepairAssumption DEF MayGoOn, TypeOK, Strategy, Limited, Unlimited, Bounded
  <2>3. TypeOK'
    BY <1>1, <1>2, <2>1 DEF TypeOK, Phase
  <2>4. Bounded' /\ InReach' /\ FindsThePlace'
    BY <1>1, <1>2, <2>1, <2>2 DEF Bounded, InReach, FindsThePlace
  <2> QED
    BY <2>3, <2>4 DEF IInv
<1> QED
  BY <1>4, <1>5

LEMMA HalveStep ==
  ASSUME IInv, Halve
  PROVE  IInv'
<1> DEFINE middle == (low + high) \div 2
<1>1. TypeOK /\ Bounded /\ InReach /\ phase = "halve" /\ low <= high
  BY DEF IInv, Halve
<1>2. /\ mine \in Candidate /\ theirs \in Candidate /\ Match(mine, theirs)
      /\ LastIndex(mine) \in Nat /\ Agreed \in Nat
      /\ low \in Nat /\ high \in Nat /\ high <= LastIndex(mine)
  BY <1>1, CandidateLog, Agreement DEF TypeOK, Bounded, Agreed
<1>3. middle \in Nat /\ low <= middle /\ middle <= high
  BY <1>1, <1>2, SMT
<1>4. Agreed' = Agreed /\ UNCHANGED <<strategy, mine, theirs, phase>>
  BY DEF Halve, Agreed
<1>5. Accepts(middle) <=> middle <= Agreed
  <2>1. middle \in 0..LastIndex(mine)
    BY <1>2, <1>3
  <2> HIDE DEF middle
  <2> QED
    BY <1>2, <2>1, AcceptedIfAgreed DEF Accepts, Agreed
<1>6. probes' \in Nat
  BY <1>1, CountedProbe DEF Halve
<1>7. /\ Accepts(middle) => found' = middle /\ low' = middle + 1 /\ high' = high
      /\ ~Accepts(middle) => high' = middle - 1 /\ found' = found /\ low' = low
  BY DEF Halve
<1> HIDE DEF middle
<1>8. TypeOK'
  BY <1>1, <1>2, <1>3, <1>4, <1>6, <1>7 DEF TypeOK, Phase
<1>9. Bounded' /\ InReach' /\ FindsThePlace'
  BY <1>1, <1>2, <1>3, <1>4, <1>5, <1>7 DEF TypeOK, Bounded, InReach, FindsThePlace
<1> QED
  BY <1>8, <1>9 DEF IInv

LEMMA SettleStep ==
  ASSUME IInv, Settle
  PROVE  IInv'
<1>1. TypeOK /\ Bounded /\ InReach /\ phase = "halve" /\ ~(low <= high /\ probes < Limit)
  BY DEF IInv, Settle
<1>2. /\ Agreed' = Agreed /\ phase' = "done"
      /\ UNCHANGED <<strategy, mine, theirs, low, high, found, probes>>
  BY DEF Settle, Agreed
<1>3. Agreed \in Nat
  BY <1>1, Agreement DEF TypeOK, Agreed
<1>4. TypeOK' /\ Bounded' /\ InReach'
  BY <1>1, <1>2 DEF TypeOK, Phase, Bounded, InReach
<1>5. FindsThePlace'
  <2>1. CASE low > high
    BY <1>1, <1>2, <1>3, <2>1 DEF TypeOK, InReach, FindsThePlace
  <2>2. CASE ~(low > high)
    <3>1. probes >= Limit
      BY <1>1, <2>2, RepairAssumption DEF TypeOK
    <3> QED
      BY <1>1, <1>2, <3>1 DEF Bounded, Limited, FindsThePlace
  <2> QED
    BY <2>1, <2>2
<1> QED
  BY <1>4, <1>5 DEF IInv

LEMMA InitHolds == Init => IInv
<1> SUFFICES ASSUME Init
             PROVE  IInv
  OBVIOUS
<1>1. LastIndex(mine) \in Nat /\ Agreed \in Nat /\ Agreed <= LastIndex(mine)
  BY CandidateLog, Agreement DEF Init, Agreed
<1>2. TypeOK
  BY <1>1 DEF Init, TypeOK, Phase
<1>3. Bounded /\ InReach /\ FindsThePlace
  BY <1>1 DEF Init, Bounded, InReach, FindsThePlace
<1> QED
  BY <1>2, <1>3 DEF IInv

LEMMA StepHolds == IInv /\ [Next]_vars => IInv'
<1> SUFFICES ASSUME IInv, [Next]_vars
             PROVE  IInv'
  OBVIOUS
<1>1. CASE GoBack
  BY <1>1, GoBackStep
<1>2. CASE GiveUp
  BY <1>2, GiveUpStep
<1>3. CASE Halve
  BY <1>3, HalveStep
<1>4. CASE Settle
  BY <1>4, SettleStep
<1>5. CASE UNCHANGED vars
  BY <1>5 DEF vars, IInv, TypeOK, Bounded, InReach, FindsThePlace, Agreed
<1> QED
  BY <1>1, <1>2, <1>3, <1>4, <1>5 DEF Next

\* No search jumps past the agreement point: repair.py's walk, skip, bisect and
\* hybrid, the walk of log.py, and the retries of Node._on_appended.
THEOREM NeverPastThePlace == Spec => []InReach
<1>1. IInv => InReach
  BY DEF IInv
<1> QED
  BY InitHolds, StepHolds, <1>1, PTL DEF Spec

\* A search that ends has found the agreement point, unless it ran into its limit:
\* every_strategy_finds_the_same_place of repair.py, for all logs.
THEOREM EverySearchFindsThePlace == Spec => []FindsThePlace
<1>1. IInv => FindsThePlace
  BY DEF IInv
<1> QED
  BY InitHolds, StepHolds, <1>1, PTL DEF Spec

-----------------------------------------------------------------------------
(* Powers of two, as the sizes of sets of subsets.                         *)

\* The subsets of the first n numbers are two to the n.
LEMMA PowerOfTwo ==
  ASSUME NEW n \in Nat
  PROVE  IsFiniteSet(SUBSET (1..n)) /\ Cardinality(SUBSET (1..n)) = 2 ^ n /\ 2 ^ n \in Nat
<1>1. IsFiniteSet(1..n) /\ Cardinality(1..n) = n
  BY FS_Interval
<1> QED
  BY <1>1, FS_SUBSET, FS_CardinalityType

LEMMA NoPower == 2 ^ 0 = 1
<1>1. SUBSET (1..0) = {{}}
  OBVIOUS
<1> QED
  BY <1>1, PowerOfTwo, FS_Singleton

\* The subsets with the last element are as many as those without it.
LEMMA PowerDoubles ==
  ASSUME NEW n \in Nat
  PROVE  2 ^ (n + 1) = 2 * (2 ^ n)
<1> DEFINE without == SUBSET (1..n)
           with == {s \in SUBSET (1..(n + 1)) : n + 1 \in s}
           f == [s \in without |-> s \cup {n + 1}]
<1>1. /\ IsFiniteSet(without) /\ Cardinality(without) = 2 ^ n /\ 2 ^ n \in Nat
      /\ Cardinality(SUBSET (1..(n + 1))) = 2 ^ (n + 1)
  BY PowerOfTwo
<1>2. ~(n + 1 \in 1..n) /\ 1..(n + 1) = (1..n) \cup {n + 1}
  OBVIOUS
<1> DEFINE m == n + 1  I == 1..n  J == 1..(n + 1)
<1>3. m \notin I /\ J = I \cup {m}
  BY <1>2
<1>4. /\ without = SUBSET I /\ with = {s \in SUBSET J : m \in s}
      /\ f = [s \in SUBSET I |-> s \cup {m}]
  OBVIOUS
<1> HIDE DEF m, I, J, with, f, without
<1>5. f \in Bijection(without, with)
  <2>1. \A s \in SUBSET I : s \cup {m} \in with
    BY <1>3, <1>4
  <2>2. \A s, t \in SUBSET I : s \cup {m} = t \cup {m} => s = t
    BY <1>3
  <2>3. ASSUME NEW u \in with PROVE \E s \in SUBSET I : s \cup {m} = u
    <3>1. u \ {m} \in SUBSET I /\ (u \ {m}) \cup {m} = u
      BY <1>3, <1>4
    <3> QED BY <3>1
  <2>4. f \in [without -> with] /\ \A s \in without : f[s] = s \cup {m}
    BY <1>4, <2>1
  <2>5. f \in Injection(without, with)
    BY <1>4, <2>2, <2>4 DEF Injection, IsInjective
  <2>6. f \in Surjection(without, with)
    BY <1>4, <2>3, <2>4 DEF Surjection
  <2> QED BY <2>5, <2>6 DEF Bijection
<1>6. IsFiniteSet(with) /\ Cardinality(with) = Cardinality(without)
  BY <1>1, <1>5, FS_Bijection DEF ExistsBijection
<1>7. without \cup with = SUBSET J /\ without \cap with = {}
  BY <1>3, <1>4
<1>8. Cardinality(without \cap with) = 0
  BY <1>7, FS_EmptySet
<1>9. Cardinality(SUBSET J) = 2 ^ n + 2 ^ n
  <2>1. Cardinality(without \cup with)
          = Cardinality(without) + Cardinality(with) - Cardinality(without \cap with)
    BY <1>1, <1>6, FS_Union
  <2>2. Cardinality(SUBSET J) = 2 ^ n + 2 ^ n - 0
    BY <1>1, <1>6, <1>7, <1>8, <2>1, Zenon
  <2>3. 2 ^ n + 2 ^ n - 0 = 2 ^ n + 2 ^ n
    BY <1>1
  <2> QED BY <2>2, <2>3, Zenon
<1> QED
  BY <1>1, <1>9 DEF J

-----------------------------------------------------------------------------
(* What skipping costs.                                                    *)

Skipping == {"skip_term", "conflict_term", "node"}

\* The leader's last entry of a term that the follower has past the agreement point is
\* the agreement point: the entries of a term begin at one index in both logs.
LEMMA LastOfTermIsAgreed ==
  ASSUME NEW l \in Candidate, NEW r \in Candidate, Match(l, r),
         NEW i \in 1..LastIndex(l), AgreeUpTo(l, r) < i, i <= LastIndex(r),
         {j \in 1..LastIndex(l) : At(l, j).term = At(r, i).term} # {}
  PROVE  Max({j \in 1..LastIndex(l) : At(l, j).term = At(r, i).term}) = AgreeUpTo(l, r)
<1> DEFINE own == {j \in 1..LastIndex(l) : At(l, j).term = At(r, i).term}
           A == AgreeUpTo(l, r)  m == Max(own)
<1>1. LastIndex(l) \in Nat /\ LastIndex(r) \in Nat /\ A \in Nat /\ A <= LastIndex(l)
  BY CandidateLog, Agreement
<1>2. i \in 1..LastIndex(r) /\ i \in 1..LastIndex(l)
  BY <1>1
<1>3. m \in own
  <2>1. own \subseteq Int /\ IsFiniteSet(own)
    BY <1>1, PartOfInterval
  <2> QED BY <2>1, MaxOfFinite
<1>4. A <= m
  <2>1. Conflict(r, i).term = At(r, i).term /\ At(r, i).term # 0
    BY <1>1, <1>2, CandidateLog DEF Conflict
  <2> QED BY <2>1, RefusalIsPast
<1>5. m \in 1..LastIndex(l) /\ At(l, m).term = At(r, i).term
  BY <1>3
<1> HIDE DEF m, own
<1> DEFINE s == RunStart(l, m)
<1>6. s = RunStart(r, i)
  BY <1>2, <1>5 DEF Match
<1>7. s \in 1..m /\ \A k \in s..m : At(l, k).term = At(r, i).term
  BY <1>5, RunOfTerm
<1>8. s \in 1..i /\ \A k \in s..i : At(r, k).term = At(r, i).term
  BY <1>2, <1>6, RunOfTerm
<1> HIDE DEF s
<1>9. ASSUME NEW k \in 1..LastIndex(l), k <= m, k <= i, s <= k
      PROVE  k <= A
  <2>1. k \in s..m /\ k \in s..i /\ k \in 1..LastIndex(r)
    BY <1>1, <1>2, <1>5, <1>7, <1>8, <1>9
  <2>2. At(l, k).term = At(r, k).term
    BY <1>7, <1>8, <2>1
  <2>3. Same(l, r, k)
    BY <1>9, <2>1, <2>2, CandidateLog DEF Same
  <2> QED BY <1>9, <2>3, Agreement
<1>10. m < i
  <2>1. SUFFICES ASSUME i <= m PROVE FALSE
    BY <1>1, <1>2, <1>5
  <2>2. s <= i
    BY <1>8
  <2>3. i <= A
    BY <1>2, <1>9, <2>1, <2>2
  <2> QED BY <1>1, <1>2, <2>3
<1>11. m <= A
  BY <1>1, <1>2, <1>5, <1>7, <1>9, <1>10
<1>12. m = A
  BY <1>1, <1>4, <1>5, <1>11
<1> QED BY <1>12 DEF m, own

\* A run of a term begins after everything of earlier terms and ends it.
LEMMA BeforeTheRun ==
  ASSUME NEW r \in Candidate, NEW i \in 1..LastIndex(r),
         NEW k \in 1..LastIndex(r), k < RunStart(r, i)
  PROVE  At(r, k).term < At(r, i).term
<1> DEFINE run == {j \in FirstIndex(r)..i : \A h \in j..i : TermAt(r, h) = TermAt(r, i)}
<1>1. FirstIndex(r) = 1 /\ LastIndex(r) \in Nat /\ Ordered(r)
  BY CandidateLog
<1>2. RunStart(r, i) \in 1..i
  BY RunOfTerm
<1>3. k \in 1..i /\ k <= i
  BY <1>1, <1>2
<1>4. \A j \in 1..LastIndex(r) : At(r, j).term \in Nat /\ TermAt(r, j) = At(r, j).term
  BY CandidateLog
<1>5. At(r, k).term <= At(r, i).term
  BY <1>1, <1>3 DEF Ordered
<1>6. ASSUME At(r, k).term = At(r, i).term PROVE FALSE
  <2>1. ASSUME NEW h \in k..i PROVE TermAt(r, h) = TermAt(r, i)
    <3>1. h \in 1..LastIndex(r) /\ k <= h /\ h <= i
      BY <1>1, <1>3
    <3>2. At(r, k).term <= At(r, h).term /\ At(r, h).term <= At(r, i).term
      BY <1>1, <3>1 DEF Ordered
    <3> QED BY <1>4, <1>6, <3>1, <3>2
  <2>2. k \in run
    BY <1>1, <1>3, <2>1
  <2>3. run \subseteq Int /\ IsFiniteSet(run)
    BY <1>1, PartOfInterval
  <2>4. Min(run) <= k
    BY <2>2, <2>3, MinOfFinite
  <2>5. RunStart(r, i) = Min(run)
    BY <2>2 DEF RunStart
  <2> QED BY <1>1, <1>2, <2>4, <2>5
<1> QED BY <1>4, <1>5, <1>6

\* A search that skips, refused past the follower's end, goes to that end; refused
\* before it, it goes to the agreement point or to before the follower's run.
LEMMA WhereSkippingGoes ==
  ASSUME TypeOK, strategy \in Skipping, high \in 1..LastIndex(mine), Agreed < high
  PROVE  /\ high > LastIndex(theirs) => Retreat(high) = LastIndex(theirs)
         /\ high <= LastIndex(theirs) =>
              \/ Retreat(high) = Agreed
              \/ Retreat(high) = RunStart(theirs, high) - 1
<1> DEFINE c == Conflict(theirs, high)
           own == {j \in 1..LastIndex(mine) : At(mine, j).term = c.term}
<1>1. /\ mine \in Candidate /\ theirs \in Candidate /\ Match(mine, theirs)
      /\ LastIndex(mine) \in Nat /\ LastIndex(theirs) \in Nat
      /\ Agreed \in Nat /\ Agreed <= LastIndex(mine) /\ Agreed <= LastIndex(theirs)
  BY CandidateLog, Agreement DEF TypeOK, Agreed
<1>2. /\ Retreat(high) = NextIndex(c, high) \/ strategy # "skip_term"
      /\ Retreat(high) = Reconciled(high) \/ strategy # "conflict_term"
      /\ Retreat(high) = SkipTerm(mine, c.term, c.index) - 1 \/ strategy # "node"
  BY DEF Retreat, Retried
<1>3. FirstIndex(mine) = 1
  BY <1>1, CandidateLog
<1>4. own \subseteq Int /\ IsFiniteSet(own)
  BY <1>1, PartOfInterval
<1>5. CASE high > LastIndex(theirs)
  <2>1. c.term = 0 /\ c.index = LastIndex(theirs) + 1
    BY <1>5 DEF Conflict
  <2> DEFINE e == LastIndex(theirs)
  <2> HIDE DEF c, own, e
  <2>2. Max({e, 0}) = e /\ Min({e, high - 1}) = e /\ Max({e + 1, 1}) = e + 1
    <3>1. e \in Nat /\ high - 1 \in Int /\ e <= high - 1
      BY <1>1, <1>5 DEF e
    <3> QED BY <3>1, MaxOfPair, MinOfPair
  <2>3. NextIndex(c, high) = Min({Max({c.index - 1, 0}), high - 1})
    BY <2>1 DEF NextIndex
  <2>4. SkipTerm(mine, c.term, c.index) = Max({c.index, 1})
    BY <1>3, <2>1 DEF SkipTerm
  <2>5. Reconciled(high) = e
    BY <1>5 DEF Reconciled, e
  <2>6. NextIndex(c, high) = e /\ SkipTerm(mine, c.term, c.index) - 1 = e
    <3>1. c.index = e + 1 /\ c.index - 1 = e
      BY <1>1, <2>1 DEF e
    <3>2. NextIndex(c, high) = Min({Max({e, 0}), high - 1})
      BY <2>3, <3>1, Zenon
    <3>3. SkipTerm(mine, c.term, c.index) = e + 1
      BY <2>2, <2>4, <3>1, Zenon
    <3>4. NextIndex(c, high) = e
      BY <2>2, <3>2, Zenon
    <3> QED BY <1>1, <3>3, <3>4 DEF e
  <2>7. Retreat(high) = e
    BY <1>2, <2>5, <2>6 DEF Skipping
  <2> QED BY <1>1, <1>5, <2>7 DEF e
<1>6. CASE ~(high > LastIndex(theirs))
  <2>1. high \in 1..LastIndex(theirs) /\ high <= LastIndex(theirs)
    BY <1>1, <1>6
  <2>2. /\ c.term = At(theirs, high).term /\ c.index = RunStart(theirs, high)
        /\ c.term \in Nat \ {0}
    BY <1>1, <1>6, <2>1, CandidateLog DEF Conflict
  <2>3. c.index \in 1..high
    BY <1>1, <2>1, <2>2, RunOfTerm
  <2>4. own # {} => Max(own) = Agreed
    BY <1>1, <2>1, <2>2, LastOfTermIsAgreed DEF Agreed
  <2>5. Reconciled(high) = c.index - 1
    BY <1>6, <2>2 DEF Reconciled
  <2> DEFINE i == c.index  t == c.term
  <2>6. i \in 1..high /\ t \in Nat \ {0} /\ i = c.index /\ t = c.term
    BY <2>2, <2>3
  <2>7. NextIndex(c, high) = IF t > 0 /\ own # {} THEN Min({Max(own), high - 1})
                             ELSE Min({Max({i - 1, 0}), high - 1})
    BY DEF NextIndex
  <2>8. SkipTerm(mine, t, i) = IF t # 0 /\ own # {} THEN Max(own) + 1 ELSE Max({i, 1})
    BY <1>3 DEF SkipTerm
  <2> HIDE DEF c, own, i, t
  <2>9. CASE own # {}
    <3>1. Min({Agreed, high - 1}) = Agreed
      BY <1>1, MinOfPair
    <3>2. NextIndex(c, high) = Agreed
      <4>1. t > 0
        BY <2>6
      <4>2. NextIndex(c, high) = Min({Max(own), high - 1})
        BY <2>7, <2>9, <4>1, Zenon
      <4> QED BY <2>4, <2>9, <3>1, <4>2, Zenon
    <3>3. SkipTerm(mine, t, i) - 1 = Agreed
      BY <1>1, <2>4, <2>6, <2>8, <2>9
    <3>4. Retreat(high) = Agreed \/ Retreat(high) = i - 1
      BY <1>2, <2>5, <2>6, <3>2, <3>3 DEF Skipping
    <3>5. ~(high > LastIndex(theirs))
      BY <1>6
    <3>6. RunStart(theirs, high) = i
      BY <2>2, <2>6, Zenon
    <3> QED BY <3>4, <3>5, <3>6, Zenon
  <2>10. CASE own = {}
    <3>1. Max({i - 1, 0}) = i - 1 /\ Max({i, 1}) = i
      BY <1>1, <2>6, MaxOfPair
    <3>2. Min({i - 1, high - 1}) = i - 1
      BY <1>1, <2>6, MinOfPair
    <3>3. NextIndex(c, high) = i - 1 /\ SkipTerm(mine, t, i) - 1 = i - 1
      BY <2>6, <2>7, <2>8, <2>10, <3>1, <3>2
    <3>4. Retreat(high) = i - 1
      BY <1>2, <2>5, <2>6, <3>3 DEF Skipping
    <3>5. ~(high > LastIndex(theirs))
      BY <1>6
    <3>6. RunStart(theirs, high) = i
      BY <2>2, <2>6, Zenon
    <3> QED BY <3>4, <3>5, <3>6, Zenon
  <2> QED BY <2>9, <2>10
<1> QED BY <1>5, <1>6

-----------------------------------------------------------------------------
(* The price, while a search goes on.                                      *)

Length == LastIndex(mine) + 1

\* The terms that a search which has gone back to h will not ask the follower about again.
Behind(h) ==
  {t \in ForeignTerms : \A i \in 1..LastIndex(theirs) : i <= h => At(theirs, i).term < t}

\* Going back by one, the price is what has been given back; skipping, it is a term of the
\* follower's for each refusal but one, and but one more once the place is reached.
PaidForBack ==
  phase = "back" =>
    /\ strategy = "hybrid" => probes <= Patience
    /\ probes < MaxProbes =>
         /\ strategy \notin Skipping => probes + high = LastIndex(mine)
         /\ strategy \in Skipping =>
              /\ probes + high <= LastIndex(mine)
              /\ probes <= Cardinality(ForeignTerms) + 1
              /\ Agreed < high =>
                   probes <= Cardinality(Behind(high)) + (IF high <= LastIndex(theirs) THEN 1 ELSE 0)

Stepped == IF strategy = "hybrid" THEN Patience ELSE 0

\* Halving, each probe leaves no more than half of the indices.
PaidForHalves ==
  phase = "halve" =>
    /\ Stepped <= probes /\ probes < MaxProbes
    /\ probes = Stepped => low <= high
    /\ 2 ^ (probes - Stepped) <= 2 * Length
    /\ low <= high => (2 ^ (probes - Stepped)) * (high - low + 1) <= Length

PriceInv == PaidForBack /\ PaidForHalves /\ Cost

-----------------------------------------------------------------------------

\* The terms that the search can meet are finitely many, and so are those behind it.
LEMMA TermsOfTheFollower ==
  ASSUME TypeOK
  PROVE  /\ IsFiniteSet(ForeignTerms) /\ Cardinality(ForeignTerms) \in Nat
         /\ \A h : IsFiniteSet(Behind(h)) /\ Cardinality(Behind(h)) \in Nat
                   /\ Cardinality(Behind(h)) <= Cardinality(ForeignTerms)
<1>1. LastIndex(theirs) \in Nat /\ Agreed \in Nat
  BY CandidateLog, Agreement DEF TypeOK, Agreed
<1> DEFINE I == (Agreed + 1)..LastIndex(theirs)
           f == [i \in I |-> At(theirs, i).term]
<1>2. IsFiniteSet(I)
  BY <1>1, FS_Interval
<1>3. f \in Surjection(I, ForeignTerms)
  BY DEF Surjection, ForeignTerms
<1>4. IsFiniteSet(ForeignTerms)
  BY <1>2, <1>3, FS_Surjection
<1>5. \A h : Behind(h) \subseteq ForeignTerms
  BY DEF Behind
<1> QED BY <1>4, <1>5, FS_Subset, FS_CardinalityType

\* A refusal by the follower's entry leaves its term behind, unless the search is at the
\* agreement point next.
LEMMA OneTermBehind ==
  ASSUME TypeOK, NEW h \in 1..LastIndex(theirs), Agreed < h
  PROVE  /\ Cardinality(Behind(h)) + 1 <= Cardinality(ForeignTerms)
         /\ Cardinality(Behind(h)) + 1 <= Cardinality(Behind(RunStart(theirs, h) - 1))
<1> DEFINE s == RunStart(theirs, h) - 1
           t == At(theirs, h).term
<1>1. /\ theirs \in Candidate /\ LastIndex(theirs) \in Nat /\ Agreed \in Nat
      /\ \A i \in 1..LastIndex(theirs) : At(theirs, i).term \in Nat
  BY CandidateLog, Agreement DEF TypeOK, Agreed
<1>2. s \in Int /\ s < h
  BY <1>1, RunOfTerm
<1>3. t \in ForeignTerms
  <2>1. h \in (Agreed + 1)..LastIndex(theirs)
    BY <1>1
  <2> QED BY <2>1 DEF ForeignTerms
<1>4. t \notin Behind(h)
  BY <1>1 DEF Behind
<1>5. t \in Behind(s)
  <2>1. \A i \in 1..LastIndex(theirs) : i <= s => i < RunStart(theirs, h)
    BY <1>1, RunOfTerm
  <2>2. \A i \in 1..LastIndex(theirs) : i <= s => At(theirs, i).term < t
    BY <1>1, <2>1, BeforeTheRun
  <2> QED BY <1>3, <2>2 DEF Behind
<1>6. Behind(h) \subseteq Behind(s) \ {t}
  <2>1. \A i \in 1..LastIndex(theirs) : i <= s => i <= h
    BY <1>1, <1>2
  <2>2. Behind(h) \subseteq Behind(s)
    BY <2>1 DEF Behind
  <2> QED BY <1>4, <2>2
<1>7. Behind(h) \subseteq ForeignTerms \ {t}
  BY <1>4 DEF Behind
<1>8. /\ IsFiniteSet(ForeignTerms) /\ IsFiniteSet(Behind(s))
      /\ Cardinality(ForeignTerms) \in Nat /\ Cardinality(Behind(s)) \in Nat
      /\ Cardinality(Behind(h)) \in Nat
  BY TermsOfTheFollower
<1> HIDE DEF s, t
<1>9. /\ IsFiniteSet(ForeignTerms \ {t}) /\ IsFiniteSet(Behind(s) \ {t})
      /\ Cardinality(ForeignTerms \ {t}) = Cardinality(ForeignTerms) - 1
      /\ Cardinality(Behind(s) \ {t}) = Cardinality(Behind(s)) - 1
  BY <1>3, <1>5, <1>8, FS_RemoveElement
<1>10. /\ Cardinality(Behind(h)) <= Cardinality(ForeignTerms \ {t})
       /\ Cardinality(Behind(h)) <= Cardinality(Behind(s) \ {t})
  BY <1>6, <1>7, <1>9, FS_Subset
<1>11. /\ Cardinality(Behind(h)) + 1 <= Cardinality(ForeignTerms)
       /\ Cardinality(Behind(h)) + 1 <= Cardinality(Behind(s))
  BY <1>8, <1>9, <1>10
<1> QED BY <1>11 DEF s

LEMMA InitPaid == Init => PriceInv
<1> SUFFICES ASSUME Init PROVE PriceInv
  OBVIOUS
<1>1. TypeOK /\ Bounded
  BY InitHolds DEF IInv
<1>2. LastIndex(mine) \in Nat /\ LastIndex(theirs) \in Nat /\ Agreed \in Nat
  BY <1>1, CandidateLog, Agreement DEF TypeOK, Agreed
<1>3. /\ probes = 0 /\ high = LastIndex(mine) /\ low = 0 /\ phase # "done"
      /\ phase = "halve" <=> strategy = "bisect"
  BY DEF Init
<1>4. Cardinality(ForeignTerms) \in Nat /\ Cardinality(Behind(high)) \in Nat
  BY <1>1, TermsOfTheFollower
<1>5. PaidForBack
  BY <1>2, <1>3, <1>4, RepairAssumption DEF PaidForBack
<1>6. PaidForHalves
  <2>1. strategy = "bisect" => Stepped = 0
    BY DEF Stepped
  <2>2. 1 * (high - low + 1) = Length /\ 1 <= 2 * Length /\ 0 - 0 = 0 /\ low <= high
    BY <1>2, <1>3 DEF Length
  <2>3. 0 < MaxProbes
    BY RepairAssumption
  <2>4. ASSUME phase = "halve"
        PROVE  /\ Stepped <= probes /\ 2 ^ (probes - Stepped) <= 2 * Length
               /\ (2 ^ (probes - Stepped)) * (high - low + 1) <= Length
    <3>1. Stepped = 0 /\ probes - Stepped = 0
      BY <1>3, <2>1, <2>4
    <3>2. 2 ^ (probes - Stepped) = 1
      BY <3>1, NoPower
    <3> QED BY <1>2, <1>3, <3>1, <3>2 DEF Length
  <2> QED BY <1>3, <2>2, <2>3, <2>4 DEF PaidForHalves
<1>7. Cost
  BY <1>3 DEF Cost
<1> QED BY <1>5, <1>6, <1>7 DEF PriceInv

LEMMA GoBackPaid ==
  ASSUME IInv, PriceInv, GoBack
  PROVE  PriceInv'
<1>1. /\ TypeOK /\ Bounded /\ phase = "back" /\ PaidForBack /\ MayGoOn
      /\ probes' = Min({probes + 1, MaxProbes})
  BY DEF IInv, PriceInv, GoBack
<1>2. /\ mine \in Candidate /\ theirs \in Candidate /\ Match(mine, theirs) /\ strategy \in Strategy
      /\ LastIndex(mine) \in Nat /\ LastIndex(theirs) \in Nat /\ probes \in Nat
      /\ Agreed \in Nat /\ Agreed <= LastIndex(mine) /\ Agreed <= LastIndex(theirs)
      /\ high \in 0..LastIndex(mine) /\ strategy # "bisect"
  BY <1>1, CandidateLog, Agreement DEF TypeOK, Bounded, Agreed
<1>3. /\ UNCHANGED <<strategy, mine, theirs, low>> /\ Agreed' = Agreed /\ ForeignTerms' = ForeignTerms
      /\ \A h : Behind(h)' = Behind(h)
  BY DEF GoBack, Agreed, ForeignTerms, Behind
<1>4. Accepts(high) <=> high <= Agreed
  BY <1>2, AcceptedIfAgreed DEF Accepts, Agreed
<1>5. MaxProbes \in Nat /\ Patience \in Nat /\ Patience < MaxProbes /\ Limit < MaxProbes /\ Limit \in Nat
  BY RepairAssumption
<1>6. /\ probes' < MaxProbes => probes' = probes + 1 /\ probes < MaxProbes
      /\ strategy = "hybrid" => probes' = probes + 1 /\ probes' <= Patience
  <2>1. probes + 1 \in Int /\ MaxProbes \in Int
    BY <1>2, <1>5
  <2>2. probes' = IF probes + 1 <= MaxProbes THEN probes + 1 ELSE MaxProbes
    BY <1>1, <2>1, MinOfPair
  <2>3. strategy = "hybrid" => probes < Patience
    BY <1>1 DEF MayGoOn, Unlimited
  <2> QED BY <1>2, <1>5, <2>2, <2>3
<1>7. CASE Accepts(high)
  <2>1. phase' = "done" /\ found' = high /\ high' = high
    BY <1>7 DEF GoBack
  <2>2. PaidForBack' /\ PaidForHalves'
    BY <2>1 DEF PaidForBack, PaidForHalves
  <2>3. ASSUME found' = Agreed, probes' < MaxProbes
        PROVE  /\ strategy \notin Skipping => probes' = LastIndex(mine) - Agreed + 1
               /\ strategy \in Skipping =>
                    /\ probes' <= LastIndex(mine) - Agreed + 1
                    /\ probes' <= Cardinality(ForeignTerms) + 2
    <3>1. probes' = probes + 1 /\ probes < MaxProbes /\ high = Agreed
      BY <1>6, <2>1, <2>3
    <3>2. Cardinality(ForeignTerms) \in Nat
      BY <1>1, TermsOfTheFollower
    <3> QED BY <1>1, <1>2, <3>1, <3>2 DEF PaidForBack
  <2>4. Cost'
    <3>1. SUFFICES ASSUME found' = Agreed, probes' < MaxProbes
                   PROVE  /\ strategy \in {"walk_back", "one_at_a_time"}
                                => probes' = LastIndex(mine) - Agreed + 1
                          /\ strategy \in Skipping =>
                                /\ probes' <= LastIndex(mine) - Agreed + 1
                                /\ probes' <= Cardinality(ForeignTerms) + 2
                          /\ strategy # "bisect"
                          /\ strategy = "hybrid" =>
                                probes' <= Patience /\ probes' = LastIndex(mine) - Agreed + 1
      BY <1>3, <2>1 DEF Cost, Skipping
    <3>2. strategy \in {"walk_back", "one_at_a_time", "hybrid"} => strategy \notin Skipping
      BY DEF Skipping
    <3> QED BY <1>2, <1>6, <2>3, <3>1, <3>2
  <2> QED BY <2>2, <2>4 DEF PriceInv
<1>8. CASE ~Accepts(high)
  <2>1. phase' = "back" /\ high' = Retreat(high)
    BY <1>1, <1>8 DEF GoBack
  <2>2. high \in 1..LastIndex(mine) /\ Agreed < high
    BY <1>2, <1>4, <1>8
  <2>3. PaidForHalves' /\ Cost'
    BY <2>1 DEF PaidForHalves, Cost
  <2>4. ASSUME strategy \notin Skipping PROVE high' = high - 1
    BY <2>1, <2>4 DEF Retreat, Skipping
  <2>5. ASSUME strategy \in Skipping, probes' < MaxProbes
        PROVE  /\ probes' + high' <= LastIndex(mine)
               /\ probes' <= Cardinality(ForeignTerms) + 1
               /\ Agreed < high' =>
                    probes' <= Cardinality(Behind(high')) + (IF high' <= LastIndex(theirs) THEN 1 ELSE 0)
    <3> DEFINE b == Cardinality(Behind(high))
    <3>1. /\ b \in Nat /\ b <= Cardinality(ForeignTerms) /\ Cardinality(ForeignTerms) \in Nat
          /\ Cardinality(Behind(high')) \in Nat
      BY <1>1, TermsOfTheFollower
    <3>2. /\ probes' = probes + 1 /\ probes + high <= LastIndex(mine)
          /\ probes <= b + (IF high <= LastIndex(theirs) THEN 1 ELSE 0)
      BY <1>1, <1>6, <2>2, <2>5 DEF PaidForBack
    <3>3. CASE high > LastIndex(theirs)
      <4>1. high' = LastIndex(theirs)
        BY <1>1, <2>1, <2>2, <2>5, <3>3, WhereSkippingGoes
      <4>2. Behind(high) \subseteq Behind(high')
        <5>1. \A i \in 1..LastIndex(theirs) : i <= LastIndex(theirs) => i <= high
          BY <1>2, <3>3
        <5> QED BY <4>1, <5>1 DEF Behind
      <4>3. b <= Cardinality(Behind(high'))
        BY <1>1, <4>2, TermsOfTheFollower, FS_Subset
      <4> QED BY <1>2, <3>1, <3>2, <3>3, <4>1, <4>3
    <3>4. CASE high <= LastIndex(theirs)
      <4>1. high \in 1..LastIndex(theirs)
        BY <1>2, <2>2, <3>4
      <4>2. /\ b + 1 <= Cardinality(ForeignTerms)
            /\ b + 1 <= Cardinality(Behind(RunStart(theirs, high) - 1))
        BY <1>1, <2>2, <4>1, OneTermBehind
      <4>3. RunStart(theirs, high) \in 1..high
        BY <1>2, <4>1, RunOfTerm
      <4>4. high' = Agreed \/ high' = RunStart(theirs, high) - 1
        BY <1>1, <2>1, <2>2, <2>5, <3>4, WhereSkippingGoes
      <4>5. high' \in Int /\ high' < high /\ high' <= LastIndex(theirs)
        BY <1>2, <2>2, <3>4, <4>3, <4>4
      <4>6. Agreed < high' => b + 1 <= Cardinality(Behind(high'))
        BY <1>2, <4>2, <4>4
      <4> HIDE DEF b
      <4> QED BY <1>2, <3>1, <3>2, <3>4, <4>2, <4>5, <4>6
    <3> QED BY <1>2, <3>3, <3>4
  <2>6. PaidForBack'
    <3>1. /\ strategy = "hybrid" => probes' <= Patience
          /\ probes' < MaxProbes /\ strategy \notin Skipping => probes' + high' = LastIndex(mine)
      BY <1>1, <1>2, <1>6, <2>4 DEF PaidForBack
    <3> QED BY <1>3, <2>5, <3>1 DEF PaidForBack
  <2> QED BY <2>3, <2>6 DEF PriceInv
<1> QED BY <1>7, <1>8

LEMMA GiveUpPaid ==
  ASSUME IInv, PriceInv, GiveUp
  PROVE  PriceInv'
<1>1. /\ TypeOK /\ Bounded /\ phase = "back" /\ PaidForBack /\ ~MayGoOn
      /\ UNCHANGED <<strategy, mine, theirs, low, high, probes>>
  BY DEF IInv, PriceInv, GiveUp
<1>2. /\ LastIndex(mine) \in Nat /\ Agreed \in Nat /\ Agreed' = Agreed
      /\ probes \in Nat /\ low = 0 /\ high \in 0..LastIndex(mine)
  BY <1>1, CandidateLog, Agreement DEF TypeOK, Bounded, Agreed
<1>3. CASE strategy = "hybrid"
  <2>1. phase' = "halve"
    BY <1>3 DEF GiveUp
  <2>2. probes = Patience /\ Patience \in Nat /\ Patience < MaxProbes
    BY <1>1, <1>2, <1>3, RepairAssumption DEF PaidForBack, MayGoOn
  <2>3. probes + high = LastIndex(mine)
    BY <1>1, <1>3, <2>2 DEF PaidForBack, Skipping
  <2>4. 2 ^ (probes - Patience) = 1
    <3>1. probes - Patience = 0
      BY <2>2
    <3> QED BY <3>1, NoPower
  <2>5. /\ low <= high /\ 1 <= 2 * (LastIndex(mine) + 1)
        /\ 1 * (high - low + 1) <= LastIndex(mine) + 1
    BY <1>2, <2>3
  <2>6. PaidForHalves'
    BY <1>1, <1>3, <2>1, <2>2, <2>4, <2>5 DEF PaidForHalves, Stepped, Length
  <2>7. PaidForBack' /\ Cost'
    BY <2>1 DEF PaidForBack, Cost
  <2> QED BY <2>6, <2>7 DEF PriceInv
<1>4. CASE strategy # "hybrid"
  <2>1. phase' = "done" /\ found' = -1
    BY <1>4 DEF GiveUp
  <2>2. found' # Agreed'
    BY <1>2, <2>1
  <2> QED BY <2>1, <2>2 DEF PriceInv, PaidForBack, PaidForHalves, Cost
<1> QED BY <1>3, <1>4

\* A number that is halved as often as another is doubled.
LEMMA HalvedAndDoubled ==
  ASSUME NEW p \in Nat, NEW w \in Nat, NEW v \in Nat, NEW k \in Nat,
         1 <= w, 2 * v <= w, p * w <= k
  PROVE  2 * p <= 2 * k /\ (2 * p) * v <= k
<1>1. p * 1 <= p * w
  BY SMT
<1>2. p * (2 * v) <= p * w
  BY SMT
<1>3. (2 * p) * v = p * (2 * v)
  BY SMT
<1>4. p * w \in Int /\ p * (2 * v) \in Int
  OBVIOUS
<1> DEFINE a == p * w  c == p * (2 * v)
<1>5. a \in Int /\ c \in Int /\ p <= a /\ c <= a /\ a <= k
  BY <1>1, <1>2, <1>4
<1> HIDE DEF a, c
<1>6. 2 * p <= 2 * k /\ c <= k
  BY <1>5
<1> QED BY <1>3, <1>6 DEF c

LEMMA HalvePaid ==
  ASSUME IInv, PriceInv, Halve
  PROVE  PriceInv'
<1> DEFINE middle == (low + high) \div 2
           p == 2 ^ (probes - Stepped)
<1>1. /\ TypeOK /\ Bounded /\ phase = "halve" /\ low <= high /\ probes < Limit /\ PaidForHalves
      /\ UNCHANGED <<strategy, mine, theirs, phase>>
      /\ probes' = Min({probes + 1, MaxProbes})
      /\ \/ low' = middle + 1 /\ high' = high
         \/ high' = middle - 1 /\ low' = low
  BY DEF IInv, PriceInv, Halve
<1>2. /\ low \in Nat /\ high \in Nat /\ probes \in Nat /\ LastIndex(mine) \in Nat
      /\ Limit \in Nat /\ Limit < MaxProbes /\ MaxProbes \in Nat /\ Patience \in Nat
  BY <1>1, CandidateLog, RepairAssumption DEF TypeOK
<1>3. probes' = probes + 1 /\ probes' < MaxProbes
  <2>1. Min({probes + 1, MaxProbes}) = probes + 1
    BY <1>1, <1>2, MinOfPair
  <2> QED BY <1>1, <1>2, <2>1
<1>4. /\ Stepped \in Nat /\ Stepped <= probes /\ Stepped' = Stepped /\ Length' = Length /\ Length \in Nat
      /\ probes - Stepped \in Nat /\ probes' - Stepped = (probes - Stepped) + 1
  BY <1>1, <1>2, <1>3 DEF Stepped, Length, PaidForHalves
<1>5. p \in Nat /\ 2 ^ (probes' - Stepped) = 2 * p
  BY <1>4, PowerOfTwo, PowerDoubles
<1>6. p * (high - low + 1) <= Length
  BY <1>1 DEF PaidForHalves
<1> DEFINE w == high - low + 1
           v == IF low' <= high' THEN high' - low' + 1 ELSE 0
<1>7. w \in Nat /\ v \in Nat /\ 1 <= w /\ 2 * v <= w
  <2>1. middle \in Int /\ low <= middle /\ middle <= high
        /\ 2 * middle <= low + high /\ low + high <= 2 * middle + 1
    BY <1>1, <1>2, SMT
  <2> HIDE DEF middle
  <2> QED BY <1>1, <1>2, <2>1
<1>8. low' <= high' => v = high' - low' + 1
  OBVIOUS
<1> HIDE DEF v
<1>9. p * w <= Length
  BY <1>6
<1> HIDE DEF p, w
<1>10. 2 * p <= 2 * Length /\ (2 * p) * v <= Length
  BY <1>4, <1>5, <1>7, <1>9, HalvedAndDoubled
<1>11. PaidForHalves'
  <2>1. Stepped <= probes' /\ probes' # Stepped
    BY <1>2, <1>3, <1>4
  <2>2. 2 ^ (probes' - Stepped) <= 2 * Length
    BY <1>5, <1>10
  <2>3. low' <= high' => (2 ^ (probes' - Stepped)) * (high' - low' + 1) <= Length
    BY <1>5, <1>8, <1>10
  <2> QED BY <1>3, <1>4, <2>1, <2>2, <2>3 DEF PaidForHalves
<1>12. PaidForBack' /\ Cost'
  BY <1>1 DEF PaidForBack, Cost
<1> QED BY <1>11, <1>12 DEF PriceInv

LEMMA SettlePaid ==
  ASSUME IInv, PriceInv, Settle
  PROVE  PriceInv'
<1>1. /\ TypeOK /\ Bounded /\ phase = "halve" /\ PaidForHalves
      /\ ~(low <= high /\ probes < Limit)
      /\ phase' = "done" /\ UNCHANGED <<strategy, mine, theirs, low, high, found, probes>>
  BY DEF IInv, PriceInv, Settle
<1>2. /\ strategy \in {"bisect", "hybrid"} /\ probes \in Nat /\ Patience \in Nat /\ Limit \in Nat
      /\ Stepped <= probes /\ (probes = Stepped => low <= high)
      /\ 2 ^ (probes - Stepped) <= 2 * (LastIndex(mine) + 1)
  BY <1>1, RepairAssumption DEF TypeOK, Bounded, PaidForHalves, Length
<1>3. strategy = "bisect" => 2 ^ probes <= 2 * (LastIndex(mine) + 1)
  <2>1. strategy = "bisect" => probes - Stepped = probes
    BY <1>2 DEF Stepped
  <2> QED BY <1>2, <2>1
<1>4. strategy = "hybrid" =>
        \/ probes <= Patience /\ probes >= Limit
        \/ probes > Patience /\ 2 ^ (probes - Patience) <= 2 * (LastIndex(mine) + 1)
  <2>1. strategy = "hybrid" => Stepped = Patience
    BY DEF Stepped
  <2>2. probes = Stepped => probes >= Limit
    BY <1>1, <1>2
  <2> QED BY <1>2, <2>1, <2>2
<1>5. Cost'
  BY <1>1, <1>2, <1>3, <1>4 DEF Cost
<1>6. PaidForBack' /\ PaidForHalves'
  BY <1>1 DEF PaidForBack, PaidForHalves
<1> QED BY <1>5, <1>6 DEF PriceInv

LEMMA StepPaid == IInv /\ PriceInv /\ [Next]_vars => PriceInv'
<1> SUFFICES ASSUME IInv, PriceInv, [Next]_vars
             PROVE  PriceInv'
  OBVIOUS
<1>1. CASE GoBack
  BY <1>1, GoBackPaid
<1>2. CASE GiveUp
  BY <1>2, GiveUpPaid
<1>3. CASE Halve
  BY <1>3, HalvePaid
<1>4. CASE Settle
  BY <1>4, SettlePaid
<1>5. CASE UNCHANGED vars
  BY <1>5 DEF vars, PriceInv, PaidForBack, PaidForHalves, Stepped, Length, Behind, Cost, Agreed,
              ForeignTerms
<1> QED
  BY <1>1, <1>2, <1>3, <1>4, <1>5 DEF Next

\* What every search costs, for logs of any length: one probe for each index, or for each
\* foreign term, or the logarithm of the length.
THEOREM SearchesCostAsSaid == Spec => []Cost
<1>1. PriceInv => Cost
  BY DEF PriceInv
<1> QED
  BY InitHolds, StepHolds, InitPaid, StepPaid, <1>1, PTL DEF Spec
=============================================================================

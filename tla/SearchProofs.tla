---------------------------- MODULE SearchProofs ----------------------------
(***************************************************************************)
(* Proofs about the searches of rsm/verify: the check of a history, the    *)
(* bounded search of worlds, the shrinking of schedules, their drawing and *)
(* injection, and the checks of a finished run.  Each part begins with the *)
(* fact that a behaviour of Searches is one of the component it is about.  *)
(***************************************************************************)
EXTENDS Searches, LogProofs

\* A set of naturals that has an element has a least one.
LEMMA LeastOfNaturals ==
  ASSUME NEW S, S \subseteq Nat, S # {}
  PROVE  \E m \in S : \A x \in S : m <= x
<1>1. PICK b \in S : TRUE
  OBVIOUS
<1> DEFINE T == {x \in S : x <= b}
<1>2. T \subseteq 0..b /\ T # {} /\ b \in Nat
  <2>1. b \in Nat /\ b \in T
    BY <1>1
  <2>2. ASSUME NEW x \in T PROVE x \in 0..b
    <3>1. x \in Nat /\ b \in Nat /\ x <= b
      BY <2>1
    <3> HIDE DEF T
    <3> QED BY <3>1
  <2> QED BY <2>1, <2>2
<1>3. T \subseteq Int /\ IsFiniteSet(T)
  BY <1>2, PartOfInterval
<1>4. Min(T) \in T /\ \A x \in T : Min(T) <= x
  BY <1>2, <1>3, MinOfFinite
<1>5. \A x \in S : Min(T) <= x
  <2> SUFFICES ASSUME NEW x \in S PROVE Min(T) <= x
    OBVIOUS
  <2>1. CASE x <= b
    BY <2>1, <1>4
  <2>2. CASE ~(x <= b)
    <3>1. Min(T) \in Nat /\ Min(T) <= b /\ x \in Nat
      BY <1>4
    <3> HIDE DEF T
    <3> QED BY <2>2, <3>1, <1>2
  <2> QED BY <2>1, <2>2
<1> QED BY <1>4, <1>5

-----------------------------------------------------------------------------
(* The check of a history.                                                 *)

\* A behaviour of the searches is one of recording and checking.
LEMMA HistoryMoves == Searching => L!Spec
<1>1. Begin => L!Init
  BY DEF Begin
<1>2. [Step]_searched => [L!Next]_L!vars
  BY DEF Step, searched, search, L!vars, L!historyVars
<1> QED BY <1>1, <1>2, PTL DEF Searching, L!Spec

\* What is recorded of an operation.
Results == {None} \cup UNION {Told[cmd] : cmd \in Wish}
Recorded == [command : Wish, calledAt : Nat, returnedAt : Nat \cup {None}, result : Results]

\* The clock gives every call and every return a stamp of its own.
Stamped(h) ==
  \A i, j \in DOMAIN h :
    L!Complete(h[i]) => /\ h[i].returnedAt # h[j].calledAt
                        /\ h[i].calledAt < h[i].returnedAt

HistoryType ==
  /\ operations \in Seq(Recorded) /\ clock \in Nat
  /\ \A i \in DOMAIN operations :
       /\ operations[i].calledAt <= clock
       /\ L!Complete(operations[i]) => operations[i].returnedAt <= clock
  /\ Stamped(operations)

-----------------------------------------------------------------------------
(* The machine.  Of the commands of a history each has one outcome.        *)

LEMMA OutcomeIs ==
  ASSUME NEW cmd, NEW held
  PROVE  /\ cmd.name = L!SET => L!Apply(held, cmd) = {L!Result(cmd.value, cmd.value)}
         /\ cmd.name = L!DELETE => L!Apply(held, cmd) = {L!Result(Absent, L!Get(held))}
         /\ cmd.name = L!INCREMENT =>
              L!Apply(held, cmd) = IF held = Absent \/ L!IsNumber(held)
                                   THEN {L!Result(L!Incremented(held, cmd.value),
                                                  L!Incremented(held, cmd.value))}
                                   ELSE {L!Result(held, Refused)}
         /\ cmd.name = L!COMPARE_AND_SET =>
              L!Apply(held, cmd) = IF L!Get(held) = cmd.expected
                                   THEN {L!Result(cmd.value, Yes)}
                                   ELSE {L!Result(held, No)}
<1>1. ASSUME cmd.name = L!SET
      PROVE  L!Apply(held, cmd) = {L!Result(cmd.value, cmd.value)}
  BY <1>1 DEF L!Apply, L!SET, L!DELETE, L!INCREMENT, L!COMPARE_AND_SET, L!NOW
<1>2. ASSUME cmd.name = L!DELETE
      PROVE  L!Apply(held, cmd) = {L!Result(Absent, L!Get(held))}
  BY <1>2 DEF L!Apply, L!SET, L!DELETE, L!INCREMENT, L!COMPARE_AND_SET, L!NOW
<1>3. ASSUME cmd.name = L!INCREMENT
      PROVE  L!Apply(held, cmd) = IF held = Absent \/ L!IsNumber(held)
                                  THEN {L!Result(L!Incremented(held, cmd.value),
                                                 L!Incremented(held, cmd.value))}
                                  ELSE {L!Result(held, Refused)}
  BY <1>3 DEF L!Apply, L!SET, L!DELETE, L!INCREMENT, L!COMPARE_AND_SET, L!NOW
<1>4. ASSUME cmd.name = L!COMPARE_AND_SET
      PROVE  L!Apply(held, cmd) = IF L!Get(held) = cmd.expected
                                  THEN {L!Result(cmd.value, Yes)}
                                  ELSE {L!Result(held, No)}
  BY <1>4 DEF L!Apply, L!SET, L!DELETE, L!INCREMENT, L!COMPARE_AND_SET, L!NOW
<1> QED BY <1>1, <1>2, <1>3, <1>4

LEMMA OneOutcome ==
  ASSUME L!LinearizeConstants, NEW cmd \in Wish, NEW held
  PROVE  \E r : L!Apply(held, cmd) = {r}
<1>1. cmd.name \in {L!SET, L!DELETE, L!INCREMENT, L!COMPARE_AND_SET}
  BY DEF L!LinearizeConstants
<1> QED BY <1>1, OutcomeIs

\* It keeps the key within the values, and refuses nothing but an increment.
LEMMA OutcomeType ==
  ASSUME L!LinearizeConstants, NEW cmd \in Wish, NEW held \in L!Value,
         NEW r \in L!Apply(held, cmd)
  PROVE  r.held \in L!Value /\ (cmd.name # L!INCREMENT => r.out # Refused)
<1>0. /\ cmd.value \in L!Value /\ Absent \in L!Value /\ Int \subseteq L!Value
      /\ Refused \notin L!Value /\ Refused \notin {None, Yes, No}
      /\ cmd.name \in {L!SET, L!DELETE, L!INCREMENT, L!COMPARE_AND_SET}
  BY DEF L!Value, L!LinearizeConstants
<1>1. CASE cmd.name = L!SET
  <2>1. r = L!Result(cmd.value, cmd.value)
    BY <1>1, OutcomeIs
  <2> QED BY <2>1, <1>0 DEF L!Result
<1>2. CASE cmd.name = L!DELETE
  <2>1. r = L!Result(Absent, L!Get(held))
    BY <1>2, OutcomeIs
  <2>2. L!Get(held) # Refused
    BY <1>0 DEF L!Get
  <2> QED BY <2>1, <2>2, <1>0 DEF L!Result
<1>3. CASE cmd.name = L!INCREMENT
  <2> DEFINE sum == L!Incremented(held, cmd.value)
  <2>1. L!Apply(held, cmd) = IF held = Absent \/ L!IsNumber(held)
                             THEN {L!Result(sum, sum)} ELSE {L!Result(held, Refused)}
    BY <1>3, OutcomeIs
  <2>2. ASSUME held = Absent \/ L!IsNumber(held) PROVE sum \in Int
    <3>1. (IF held = Absent THEN 0 ELSE held) \in Int
      BY <2>2 DEF L!IsNumber
    <3>2. (IF cmd.value \in {None, 0} THEN 1 ELSE cmd.value) \in Int
      BY <1>3 DEF L!LinearizeConstants
    <3> QED BY <3>1, <3>2 DEF L!Incremented
  <2> HIDE DEF sum
  <2>3. r.held \in L!Value
    BY <2>1, <2>2, <1>0 DEF L!Result
  <2> QED BY <2>3, <1>3
<1>4. CASE cmd.name = L!COMPARE_AND_SET
  <2>1. r = L!Result(cmd.value, Yes) \/ r = L!Result(held, No)
    BY <1>4, OutcomeIs
  <2> QED BY <2>1, <1>0 DEF L!Result
<1> QED BY <1>0, <1>1, <1>2, <1>3, <1>4

-----------------------------------------------------------------------------
(* Orders.                                                                 *)

\* The orders of a set: each of its members has one place.
LEMMA OrderType ==
  ASSUME NEW d, IsFiniteSet(d), NEW o \in L!Orders(d)
  PROVE  /\ o \in [1..Cardinality(d) -> d] /\ o \in Seq(d)
         /\ Len(o) = Cardinality(d) /\ Cardinality(d) \in Nat
         /\ DOMAIN o = 1..Len(o)
         /\ \A i, j \in DOMAIN o : o[i] = o[j] => i = j
         /\ \A x \in d : \E k \in DOMAIN o : o[k] = x
<1>1. Cardinality(d) \in Nat
  BY FS_CardinalityType
<1>2. /\ o \in [1..Cardinality(d) -> d]
      /\ \A i, j \in DOMAIN o : o[i] = o[j] => i = j
  BY DEF L!Orders, L!Cardinality, Cardinality
<1>3. o \in Seq(d) /\ Len(o) = Cardinality(d) /\ DOMAIN o = 1..Len(o)
  BY <1>1, <1>2
<1>4. o \in Surjection(1..Cardinality(d), d)
  <2>1. o \in Injection(1..Cardinality(d), d)
    BY <1>2 DEF Injection, IsInjective
  <2>2. IsFiniteSet(1..Cardinality(d)) /\ Cardinality(1..Cardinality(d)) = Cardinality(d)
    <3> DEFINE n == Cardinality(d)
    <3>1. n \in Nat /\ 1 \in Int
      BY <1>1
    <3> HIDE DEF n
    <3>2. IsFiniteSet(1..n) /\ Cardinality(1..n) = n
      BY <3>1, FS_Interval
    <3> QED BY <3>2 DEF n
  <2> QED BY <2>1, <2>2, FS_Injection
<1> QED BY <1>1, <1>2, <1>3, <1>4 DEF Surjection

LEMMA IsOrder ==
  ASSUME NEW d, NEW o \in [1..Cardinality(d) -> d],
         \A i, j \in 1..Cardinality(d) : o[i] = o[j] => i = j
  PROVE  o \in L!Orders(d)
<1>1. L!Cardinality(d) = Cardinality(d)
  BY DEF L!Cardinality, Cardinality
<1> QED BY <1>1 DEF L!Orders

\* L!InRealTime of a history.
InTime(h, o) ==
  \A j \in DOMAIN o, i \in DOMAIN h :
    (L!Complete(h[i]) /\ h[i].returnedAt < h[o[j]].calledAt) => \E k \in 1..(j - 1) : o[k] = i

\* The machine may answer what the client was told.
Fits(op, r) == r.out # Refused /\ (L!Complete(op) => r.out = op.result)

\* What the key holds after each operation of an order, if all answers are right.
Trace(h, o, from, f) ==
  /\ f[0] = from
  /\ \A n \in 1..Len(o) :
       \E r \in L!Apply(f[n - 1], h[o[n]].command) : Fits(h[o[n]], r) /\ f[n] = r.held

\* An order of the set explains the history up to there, and leaves that in the key.
Explained(h, d, held) ==
  \E o \in L!Orders(d) :
    /\ InTime(h, o)
    /\ \E f : Trace(h, o, Absent, f) /\ f[Cardinality(d)] = held

\* Placing i leads from position p to position q.
Viable(h, p, i, q) ==
  /\ i \in DOMAIN h \ p.done
  /\ \A j \in (DOMAIN h \ p.done) \ {i} :
       L!Complete(h[j]) => h[j].returnedAt > h[i].calledAt
  /\ \E r \in L!Apply(p.held, h[i].command) :
       Fits(h[i], r) /\ q = L!Position(p.done \cup {i}, r.held)

\* Nothing has been placed.
LEMMA NothingIsExplained ==
  ASSUME NEW h
  PROVE  Explained(h, {}, Absent)
<1> DEFINE f == [n \in 0..0 |-> Absent]
<1>1. Cardinality({}) = 0
  BY FS_EmptySet
<1>2. 1..0 = {} /\ 0..0 = {0}
  OBVIOUS
<1>3. << >> \in [1..Cardinality({}) -> {}] /\ Len(<< >>) = 0 /\ DOMAIN << >> = 1..0
  BY <1>1, <1>2
<1>4. << >> \in L!Orders({})
  BY <1>1, <1>2, <1>3, IsOrder
<1>5. InTime(h, << >>)
  BY <1>2, <1>3 DEF InTime
<1>6. Trace(h, << >>, Absent, f) /\ f[0] = Absent
  BY <1>2, <1>3 DEF Trace
<1> QED BY <1>1, <1>4, <1>5, <1>6 DEF Explained

\* One operation more.
LEMMA OneMoreExplained ==
  ASSUME L!LinearizeConstants, NEW h \in Seq(Recorded), Stamped(h),
         NEW p, p.done \subseteq DOMAIN h, Explained(h, p.done, p.held),
         NEW i, NEW q, Viable(h, p, i, q)
  PROVE  /\ q.done = p.done \cup {i} /\ q.done \subseteq DOMAIN h /\ i \in DOMAIN h \ p.done
         /\ Cardinality(q.done) = Cardinality(p.done) + 1
         /\ Explained(h, q.done, q.held)
<1> DEFINE d == p.done  n == Cardinality(d)
<1>0. DOMAIN h = 1..Len(h) /\ Len(h) \in Nat /\ IsFiniteSet(d)
  <2>1. DOMAIN h = 1..Len(h) /\ Len(h) \in Nat
    BY LenProperties
  <2>2. IsFiniteSet(1..Len(h))
    BY <2>1, FS_Interval
  <2> QED BY <2>1, <2>2, FS_Subset
<1>1. i \in DOMAIN h /\ i \notin d
  BY DEF Viable
<1>2. PICK r \in L!Apply(p.held, h[i].command) :
        Fits(h[i], r) /\ q = L!Position(d \cup {i}, r.held)
  BY DEF Viable
<1>3. q.done = d \cup {i} /\ q.held = r.held
  BY <1>2 DEF L!Position
<1>4. PICK o \in L!Orders(d) : InTime(h, o) /\ \E f : Trace(h, o, Absent, f) /\ f[n] = p.held
  BY DEF Explained
<1>5. PICK f : Trace(h, o, Absent, f) /\ f[n] = p.held
  BY <1>4
<1>6. /\ o \in [1..n -> d] /\ Len(o) = n /\ n \in Nat /\ DOMAIN o = 1..n
      /\ \A x, y \in DOMAIN o : o[x] = o[y] => x = y
      /\ \A x \in d : \E k \in DOMAIN o : o[k] = x
  BY <1>0, OrderType
<1>7. Cardinality(d \cup {i}) = n + 1
  BY <1>0, <1>1, FS_AddElement
<1> HIDE DEF n
<1> DEFINE u == [k \in 1..(n + 1) |-> IF k = n + 1 THEN i ELSE o[k]]
           g == [k \in 0..(n + 1) |-> IF k = n + 1 THEN r.held ELSE f[k]]
<1>8. /\ u \in [1..(n + 1) -> d \cup {i}] /\ u[n + 1] = i
      /\ \A k \in 1..n : u[k] = o[k] /\ u[k] \in d
      /\ Len(u) = n + 1 /\ DOMAIN u = 1..(n + 1)
  <2>1. \A k \in 1..(n + 1) : k = n + 1 \/ k \in 1..n
    BY <1>6
  <2>2. \A k \in 1..n : k # n + 1 /\ k \in 1..(n + 1)
    BY <1>6
  <2>3. n + 1 \in 1..(n + 1) /\ n + 1 \in Nat
    BY <1>6
  <2>4. \A k \in 1..n : u[k] = o[k] /\ u[k] \in d
    BY <2>2, <1>6
  <2>5. u \in [1..(n + 1) -> d \cup {i}]
    BY <2>1, <2>2, <1>6
  <2>6. u[n + 1] = i
    BY <2>3
  <2> HIDE DEF u
  <2>7. u \in Seq(d \cup {i}) /\ DOMAIN u = 1..(n + 1)
    BY <2>3, <2>5
  <2>8. Len(u) = n + 1
    BY <2>3, <2>7, LenProperties
  <2> QED BY <2>4, <2>5, <2>6, <2>7, <2>8
<1>9. g[n + 1] = r.held /\ \A k \in 0..n : g[k] = f[k]
  <2>1. n + 1 \in 0..(n + 1) /\ \A k \in 0..n : k # n + 1 /\ k \in 0..(n + 1)
    BY <1>6
  <2> QED BY <2>1
<1> HIDE DEF u, g
<1>10. u \in L!Orders(d \cup {i})
  <2>1. ASSUME NEW x \in 1..(n + 1), NEW y \in 1..(n + 1), u[x] = u[y]
        PROVE  x = y
    <3>1. CASE x \in 1..n /\ y \in 1..n
      BY <3>1, <2>1, <1>6, <1>8
    <3>2. CASE x \in 1..n /\ y = n + 1
      BY <3>2, <2>1, <1>1, <1>8
    <3>3. CASE x = n + 1 /\ y \in 1..n
      BY <3>3, <2>1, <1>1, <1>8
    <3>4. CASE x = n + 1 /\ y = n + 1
      BY <3>4
    <3> QED BY <3>1, <3>2, <3>3, <3>4, <1>6
  <2> QED BY <2>1, <1>7, <1>8, IsOrder
<1>11. InTime(h, u)
  <2> SUFFICES ASSUME NEW j \in 1..(n + 1), NEW x \in DOMAIN h,
                      L!Complete(h[x]), h[x].returnedAt < h[u[j]].calledAt
               PROVE  \E k \in 1..(j - 1) : u[k] = x
    BY <1>8 DEF InTime
  <2>1. CASE j \in 1..n
    <3>1. h[x].returnedAt < h[o[j]].calledAt /\ j \in DOMAIN o
      BY <2>1, <1>6, <1>8
    <3>2. PICK k \in 1..(j - 1) : o[k] = x
      BY <3>1, <1>4 DEF InTime
    <3>3. k \in 1..n
      BY <2>1, <1>6
    <3> QED BY <3>2, <3>3, <1>8
  <2>2. CASE j = n + 1
    <3>1. h[x].returnedAt < h[i].calledAt
      BY <2>2, <1>8
    <3>2. h[x] \in Recorded /\ h[i] \in Recorded
      BY <1>0, <1>1, ElementOfSeq
    <3>3. h[x].returnedAt \in Nat /\ h[i].calledAt \in Nat
      BY <3>2 DEF Recorded, L!Complete
    <3>4. x # i
      <4>1. x = i => h[i].calledAt < h[x].returnedAt
        BY <1>1 DEF Stamped
      <4> QED BY <4>1, <3>1, <3>3
    <3>5. x \in d
      <4>1. x \notin d => h[x].returnedAt > h[i].calledAt
        BY <3>4 DEF Viable
      <4> QED BY <4>1, <3>1, <3>3
    <3>6. PICK k \in 1..n : o[k] = x
      BY <3>5, <1>6
    <3>7. k \in 1..(j - 1)
      BY <2>2, <1>6
    <3> QED BY <3>6, <3>7, <1>8
  <2>3. j \in 1..n \/ j = n + 1
    BY <1>6
  <2> QED BY <2>1, <2>2, <2>3
<1>12. Trace(h, u, Absent, g)
  <2>1. g[0] = Absent
    BY <1>5, <1>6, <1>9 DEF Trace
  <2>2. ASSUME NEW k \in 1..(n + 1)
        PROVE  \E s \in L!Apply(g[k - 1], h[u[k]].command) : Fits(h[u[k]], s) /\ g[k] = s.held
    <3>1. CASE k \in 1..n
      <4>1. g[k - 1] = f[k - 1] /\ g[k] = f[k] /\ u[k] = o[k]
        BY <3>1, <1>6, <1>8, <1>9
      <4>2. \E s \in L!Apply(f[k - 1], h[o[k]].command) : Fits(h[o[k]], s) /\ f[k] = s.held
        BY <3>1, <1>5, <1>6 DEF Trace
      <4> QED BY <4>1, <4>2
    <3>2. CASE k = n + 1
      <4>1. g[k - 1] = p.held /\ g[k] = r.held /\ u[k] = i
        BY <3>2, <1>5, <1>6, <1>8, <1>9
      <4> QED BY <4>1, <1>2
    <3> QED BY <3>1, <3>2, <1>6
  <2> QED BY <2>1, <2>2, <1>8 DEF Trace
<1>13. Explained(h, d \cup {i}, r.held)
  BY <1>7, <1>9, <1>10, <1>11, <1>12 DEF Explained
<1> QED BY <1>1, <1>3, <1>7, <1>13 DEF n

\* A set of positions that no operation leads out of is not left by an order.
LEMMA ChainStays ==
  ASSUME NEW h, NEW S, \A p \in S : \A i, q : Viable(h, p, i, q) => q \in S,
         NEW n \in Nat, NEW P, P[0] \in S,
         \A m \in 0..(n - 1) : \E i : Viable(h, P[m], i, P[m + 1])
  PROVE  P[n] \in S
<1> DEFINE T == {m \in 0..n : P[m] \notin S}
<1> SUFFICES ASSUME T # {} PROVE FALSE
  <2>1. n \in 0..n
    OBVIOUS
  <2> QED BY <2>1
<1>1. T \subseteq Nat
  OBVIOUS
<1>2. PICK m \in T : \A x \in T : m <= x
  BY <1>1, LeastOfNaturals
<1>3. m \in 0..n /\ P[m] \notin S /\ m # 0
  BY <1>2
<1>4. m - 1 \in 0..n /\ m - 1 \in 0..(n - 1) /\ ~(m <= m - 1) /\ (m - 1) + 1 = m
  BY <1>3
<1>5. P[m - 1] \in S
  BY <1>2, <1>4
<1> QED BY <1>3, <1>4, <1>5

LEMMA OrderStays ==
  ASSUME NEW h, NEW S, \A p \in S : \A i, q : Viable(h, p, i, q) => q \in S,
         NEW p \in S, p = L!Position(p.done, p.held),
         NEW o, Len(o) \in Nat, \A k \in 1..Len(o) : o[k] \in DOMAIN h \ p.done,
         \A j, k \in 1..Len(o) : o[j] = o[k] => j = k,
         \A k \in 1..Len(o) : \A j \in DOMAIN h \ p.done :
           \/ \E x \in 1..k : j = o[x]
           \/ L!Complete(h[j]) => h[j].returnedAt > h[o[k]].calledAt,
         NEW f, Trace(h, o, p.held, f)
  PROVE  L!Position(p.done \cup {o[k] : k \in 1..Len(o)}, f[Len(o)]) \in S
<1> DEFINE n == Len(o)
           placed(m) == p.done \cup {o[k] : k \in 1..m}
           P == [m \in 0..n |-> L!Position(placed(m), f[m])]
<1>1. \A m \in 0..n : P[m] = L!Position(placed(m), f[m])
  OBVIOUS
<1>2. P[0] \in S
  <2>1. 1..0 = {} /\ 0 \in 0..n
    OBVIOUS
  <2>2. placed(0) = p.done /\ f[0] = p.held
    BY <2>1 DEF Trace
  <2> QED BY <1>1, <2>1, <2>2
<1>3. ASSUME NEW m \in 0..(n - 1)
      PROVE  \E i : Viable(h, P[m], i, P[m + 1])
  <2> DEFINE k == m + 1
  <2>1. k \in 1..n /\ m \in 0..n /\ k \in 0..n /\ k - 1 = m
    OBVIOUS
  <2>2. placed(k) = placed(m) \cup {o[k]}
    <3>1. \A x : x \in 1..k <=> x \in 1..m \/ x = k
      BY <2>1
    <3> QED BY <3>1
  <2>3. o[k] \in DOMAIN h \ placed(m)
    <3>1. \A x \in 1..m : x \in 1..n /\ x # k
      BY <2>1
    <3> QED BY <2>1, <3>1
  <2>4. ASSUME NEW j \in (DOMAIN h \ placed(m)) \ {o[k]}, L!Complete(h[j])
        PROVE  h[j].returnedAt > h[o[k]].calledAt
    <3>1. ~ \E x \in 1..k : j = o[x]
      BY <2>2, <2>4
    <3>2. j \in DOMAIN h \ p.done
      BY <2>4
    <3> QED BY <2>1, <2>4, <3>1, <3>2
  <2>5. \E r \in L!Apply(f[m], h[o[k]].command) : Fits(h[o[k]], r) /\ f[k] = r.held
    BY <2>1 DEF Trace
  <2> HIDE DEF placed
  <2>6. P[m].done = placed(m) /\ P[m].held = f[m] /\ P[k] = L!Position(placed(k), f[k])
    BY <1>1, <2>1 DEF L!Position
  <2> HIDE DEF P
  <2>7. Viable(h, P[m], o[k], P[k])
    BY <2>2, <2>3, <2>4, <2>5, <2>6 DEF Viable
  <2> QED BY <2>7
<1>4. P[n] \in S
  <2> HIDE DEF P
  <2> QED BY <1>2, <1>3, ChainStays
<1>5. n \in 0..n
  OBVIOUS
<1> QED BY <1>1, <1>4, <1>5

\* Before is what it says: one command after the other.
LEMMA BeforeIs ==
  ASSUME NEW o, Len(o) \in Nat, NEW from, NEW b, b = L!Before(o, from)
  PROVE  /\ b[0] = from
         /\ \A n \in 1..Len(o) :
              b[n] = (CHOOSE r \in L!Apply(b[n - 1], operations[o[n]].command) : TRUE).held
<1> DEFINE after(x, n) == (CHOOSE r \in L!Apply(x, operations[o[n]].command) : TRUE).held
           Is(f, k) == f = [n \in 0..k |-> IF n = 0 THEN from ELSE after(f[n - 1], n)]
           T == {k \in Nat : ~ \E f : Is(f, k)}
<1>1. b = CHOOSE f : Is(f, Len(o))
  BY DEF L!Before
<1> HIDE DEF after
<1>2. \A k \in Nat : \E f : Is(f, k)
  <2> SUFFICES ASSUME T # {} PROVE FALSE
    OBVIOUS
  <2>1. PICK k \in T : \A x \in T : k <= x
    BY LeastOfNaturals
  <2>2. k \in Nat /\ ~ \E f : Is(f, k)
    BY <2>1
  <2>3. k # 0
    <3> DEFINE f == [i \in 0..0 |-> from]
    <3>1. 0..0 = {0}
      OBVIOUS
    <3>2. Is(f, 0)
      BY <3>1
    <3> QED BY <2>2, <3>2
  <2>4. k - 1 \in Nat /\ ~(k <= k - 1)
    BY <2>2, <2>3
  <2>5. PICK f : Is(f, k - 1)
    BY <2>1, <2>4
  <2> DEFINE g == [i \in 0..k |-> IF i = k THEN after(f[k - 1], k) ELSE f[i]]
             e == [i \in 0..k |-> IF i = 0 THEN from ELSE after(g[i - 1], i)]
  <2>6. ASSUME NEW i \in 0..k PROVE g[i] = IF i = 0 THEN from ELSE after(g[i - 1], i)
    <3>1. CASE i = k
      <4>1. g[i - 1] = f[k - 1] /\ i # 0
        BY <3>1, <2>2, <2>3
      <4> QED BY <4>1, <3>1
    <3>2. CASE i # k
      <4>1. i \in 0..(k - 1) /\ g[i] = f[i]
        BY <3>2, <2>2
      <4>2. f[i] = IF i = 0 THEN from ELSE after(f[i - 1], i)
        BY <4>1, <2>5
      <4>3. i # 0 => g[i - 1] = f[i - 1]
        BY <4>1, <2>2
      <4> QED BY <4>1, <4>2, <4>3
    <3> QED BY <3>1, <3>2
  <2>7. g = e
    <3>1. \A i \in 0..k : g[i] = e[i]
      BY <2>6
    <3> QED BY <3>1
  <2>8. Is(g, k)
    BY <2>7
  <2> QED BY <2>2, <2>8
<1>3. Is(b, Len(o))
  <2> HIDE DEF Is
  <2> QED BY <1>1, <1>2
<1>4. b[0] = from /\ \A n \in 1..Len(o) : b[n] = after(b[n - 1], n)
  <2>1. \A n \in 0..Len(o) : b[n] = IF n = 0 THEN from ELSE after(b[n - 1], n)
    BY <1>3
  <2>2. 0 \in 0..Len(o) /\ \A n \in 1..Len(o) : n \in 0..Len(o) /\ n # 0
    OBVIOUS
  <2> QED BY <2>1, <2>2
<1> QED BY <1>4 DEF after

\* Legal is that there is a trace, and then it is the one that Before makes.
LEMMA LegalIsTrace ==
  ASSUME L!LinearizeConstants, operations \in Seq(Recorded),
         NEW o, Len(o) \in Nat, \A n \in 1..Len(o) : o[n] \in DOMAIN operations, NEW from
  PROVE  /\ (\A n \in 1..Len(o) :
               \E r \in L!Apply(L!Before(o, from)[n - 1], operations[o[n]].command) :
                 Fits(operations[o[n]], r))
            <=> Trace(operations, o, from, L!Before(o, from))
         /\ \A f : Trace(operations, o, from, f) =>
              /\ Trace(operations, o, from, L!Before(o, from))
              /\ f[Len(o)] = L!Before(o, from)[Len(o)]
<1> DEFINE b == L!Before(o, from)
<1>1. /\ b[0] = from
      /\ \A n \in 1..Len(o) :
           b[n] = (CHOOSE r \in L!Apply(b[n - 1], operations[o[n]].command) : TRUE).held
  BY BeforeIs
<1> HIDE DEF b
<1>2. ASSUME NEW n \in 1..Len(o), NEW held
      PROVE  \E s : L!Apply(held, operations[o[n]].command) = {s}
  <2>1. operations[o[n]] \in Recorded
    BY ElementOfSeq, LenProperties
  <2>2. operations[o[n]].command \in Wish
    BY <2>1 DEF Recorded
  <2> QED BY <2>2, OneOutcome
<1>3. ASSUME NEW n \in 1..Len(o), NEW r \in L!Apply(b[n - 1], operations[o[n]].command)
      PROVE  b[n] = r.held
  <2>1. PICK s : L!Apply(b[n - 1], operations[o[n]].command) = {s}
    BY <1>2
  <2>2. (CHOOSE x \in L!Apply(b[n - 1], operations[o[n]].command) : TRUE) = r
    BY <2>1
  <2> QED BY <1>1, <2>2
<1>4. (\A n \in 1..Len(o) : \E r \in L!Apply(b[n - 1], operations[o[n]].command) :
                              Fits(operations[o[n]], r))
        <=> Trace(operations, o, from, b)
  BY <1>1, <1>3 DEF Trace
<1>5. ASSUME NEW f, Trace(operations, o, from, f)
      PROVE  \A n \in 0..Len(o) : f[n] = b[n]
  <2> DEFINE T == {n \in 0..Len(o) : f[n] # b[n]}
  <2> SUFFICES ASSUME T # {} PROVE FALSE
    OBVIOUS
  <2>1. T \subseteq Nat
    OBVIOUS
  <2>2. PICK n \in T : \A x \in T : n <= x
    BY <2>1, LeastOfNaturals
  <2>3. n \in 0..Len(o) /\ f[n] # b[n] /\ n # 0
    <3>1. f[0] = b[0]
      BY <1>1, <1>5 DEF Trace
    <3> QED BY <2>2, <3>1
  <2>4. n \in 1..Len(o) /\ n - 1 \in 0..Len(o) /\ ~(n <= n - 1)
    BY <2>3
  <2>5. f[n - 1] = b[n - 1]
    BY <2>2, <2>4
  <2>6. PICK r \in L!Apply(f[n - 1], operations[o[n]].command) : f[n] = r.held
    BY <1>5, <2>4 DEF Trace
  <2>7. b[n] = r.held
    BY <1>3, <2>4, <2>5, <2>6
  <2> QED BY <2>3, <2>6, <2>7
<1>6. ASSUME NEW f, Trace(operations, o, from, f)
      PROVE  Trace(operations, o, from, b) /\ f[Len(o)] = b[Len(o)]
  <2>1. \A n \in 0..Len(o) : f[n] = b[n]
    BY <1>5, <1>6
  <2>2. 0 \in 0..Len(o) /\ Len(o) \in 0..Len(o)
        /\ \A n \in 1..Len(o) : n \in 0..Len(o) /\ n - 1 \in 0..Len(o)
    OBVIOUS
  <2>3. Trace(operations, o, from, b)
    BY <1>6, <2>1, <2>2 DEF Trace
  <2> QED BY <2>1, <2>2, <2>3
<1> QED BY <1>4, <1>6 DEF b

\* To explain a set of operations is what the definition says it is.
LEMMA ExplainsIs ==
  ASSUME L!LinearizeConstants, operations \in Seq(Recorded),
         NEW d \in SUBSET DOMAIN operations
  PROVE  /\ IsFiniteSet(d) /\ Cardinality(d) \in Nat
         /\ (\E o \in L!Orders(d) : L!Explains(o)) <=> \E held : Explained(operations, d, held)
<1>0. /\ DOMAIN operations = 1..Len(operations) /\ Len(operations) \in Nat
      /\ IsFiniteSet(d) /\ Cardinality(d) \in Nat
  <2>1. DOMAIN operations = 1..Len(operations) /\ Len(operations) \in Nat
    BY LenProperties
  <2>2. IsFiniteSet(1..Len(operations))
    BY <2>1, FS_Interval
  <2>3. IsFiniteSet(d)
    BY <2>1, <2>2, FS_Subset
  <2> QED BY <2>1, <2>3, FS_CardinalityType
<1>1. ASSUME NEW o \in L!Orders(d)
      PROVE  /\ Len(o) = Cardinality(d) /\ Len(o) \in Nat /\ DOMAIN o = 1..Len(o)
             /\ \A n \in 1..Len(o) : o[n] \in DOMAIN operations
             /\ L!InRealTime(o) <=> InTime(operations, o)
             /\ L!Legal(o) <=> \A n \in 1..Len(o) :
                  \E r \in L!Apply(L!Before(o, Absent)[n - 1], operations[o[n]].command) :
                    Fits(operations[o[n]], r)
  <2>1. /\ Len(o) = Cardinality(d) /\ Len(o) \in Nat /\ DOMAIN o = 1..Len(o)
        /\ \A n \in 1..Len(o) : o[n] \in d
    BY <1>0, OrderType
  <2>2. L!InRealTime(o) <=> InTime(operations, o)
    BY DEF L!InRealTime, InTime
  <2>3. L!Legal(o) <=> \A n \in 1..Len(o) :
          \E r \in L!Apply(L!Before(o, Absent)[n - 1], operations[o[n]].command) :
            Fits(operations[o[n]], r)
    BY <2>1 DEF L!Legal, Fits
  <2> QED BY <2>1, <2>2, <2>3
<1>2. ASSUME NEW o \in L!Orders(d), L!Explains(o)
      PROVE  \E held : Explained(operations, d, held)
  <2>1. InTime(operations, o) /\ Trace(operations, o, Absent, L!Before(o, Absent))
    BY <1>1, <1>2, LegalIsTrace DEF L!Explains
  <2> QED BY <2>1 DEF Explained
<1>3. ASSUME NEW held, Explained(operations, d, held)
      PROVE  \E o \in L!Orders(d) : L!Explains(o)
  <2>1. PICK o \in L!Orders(d) : InTime(operations, o) /\ \E f : Trace(operations, o, Absent, f)
    BY <1>3 DEF Explained
  <2>2. Trace(operations, o, Absent, L!Before(o, Absent))
    BY <1>1, <2>1, LegalIsTrace
  <2>3. L!Legal(o) /\ L!InRealTime(o)
    BY <1>1, <2>1, <2>2, LegalIsTrace
  <2> QED BY <2>3 DEF L!Explains
<1> QED BY <1>0, <1>2, <1>3

-----------------------------------------------------------------------------
(* The invariant: what has been placed can be explained, and a position    *)
(* that has been left leads only to positions that have been left.         *)

Positions == [done : SUBSET Nat, held : L!Value]
Frames == [at : Positions, untried : SUBSET Nat]

Reached(h, p) == p \in Positions /\ p.done \subseteq DOMAIN h /\ Explained(h, p.done, p.held)

Start == L!Position({}, Absent)

OnStack(s, p) == \E n \in 1..Len(s) : s[n].at = p

\* The walks under way, each one operation further than the one outside it.
WalksUnderWay ==
  /\ stack \in Seq(Frames)
  /\ \A n \in 1..Len(stack) :
       /\ Reached(operations, stack[n].at) /\ stack[n].at \in seen
       /\ Cardinality(stack[n].at.done) = n - 1
       /\ stack[n].untried \subseteq DOMAIN operations \ stack[n].at.done
  /\ entering # None => /\ searching /\ answer = None
                        /\ Reached(operations, entering)
                        /\ Cardinality(entering.done) = Len(stack)

SearchCounts ==
  /\ budget \in Nat /\ states \in Nat /\ longest \in Nat /\ searching \in BOOLEAN
  /\ ~searching => /\ entering = None /\ answer = None /\ stack = << >> /\ seen = {}
                   /\ longest = 0
  /\ \E d \in SUBSET DOMAIN operations :
       (\E held : Explained(operations, d, held)) /\ Cardinality(d) = longest

SeenIsUnfinished ==
  \A p \in seen : /\ p \in Positions /\ p.done \subseteq DOMAIN operations
                  /\ DOMAIN operations \ p.done # {} /\ Cardinality(p.done) <= longest

LeftIsClosed ==
  /\ entering = Start \/ Start \in seen
  /\ \A p \in seen : ~OnStack(stack, p) =>
       \A i, q : Viable(operations, p, i, q) => q \in seen /\ ~OnStack(stack, q)
  /\ \A n \in 1..Len(stack) :
       \A i, q : Viable(operations, stack[n].at, i, q) /\ i \notin stack[n].untried =>
         q \in seen \/ (n = Len(stack) /\ q = entering)

Verdict ==
  /\ answer \in {None, L!LINEARIZABLE, L!NOT_LINEARIZABLE, L!UNKNOWN}
  /\ answer = L!LINEARIZABLE => \E held : Explained(operations, DOMAIN operations, held)
  /\ answer = L!NOT_LINEARIZABLE =>
       \A d \in SUBSET DOMAIN operations :
         (\E held : Explained(operations, d, held)) =>
           d # DOMAIN operations /\ Cardinality(d) <= longest
  /\ answer \in {L!NOT_LINEARIZABLE, L!UNKNOWN} => (answer = L!UNKNOWN <=> states >= budget)

InBudget == searching /\ answer = None /\ states < budget

HistoryInv ==
  /\ HistoryType /\ WalksUnderWay /\ SearchCounts /\ SeenIsUnfinished
  /\ InBudget => LeftIsClosed
  /\ Verdict

\* A part of the history is finite.
LEMMA PartOfHistory ==
  ASSUME NEW h \in Seq(Recorded), NEW d, d \subseteq DOMAIN h
  PROVE  /\ IsFiniteSet(d) /\ Cardinality(d) \in Nat /\ d \subseteq Nat
         /\ DOMAIN h = 1..Len(h) /\ Len(h) \in Nat
<1>1. DOMAIN h = 1..Len(h) /\ Len(h) \in Nat
  BY LenProperties
<1>2. IsFiniteSet(1..Len(h)) /\ 1..Len(h) \subseteq Nat
  BY <1>1, FS_Interval
<1>3. IsFiniteSet(d)
  BY <1>1, <1>2, FS_Subset
<1> QED BY <1>1, <1>2, <1>3, FS_CardinalityType

\* Where an operation leads is reached.
LEMMA ViableIsReached ==
  ASSUME L!LinearizeConstants, NEW h \in Seq(Recorded), Stamped(h),
         NEW p, Reached(h, p), NEW i, NEW q, Viable(h, p, i, q)
  PROVE  /\ Reached(h, q) /\ q \in Positions /\ i \in DOMAIN h \ p.done
         /\ Cardinality(q.done) = Cardinality(p.done) + 1 /\ Cardinality(p.done) \in Nat
<1>1. p \in Positions /\ p.done \subseteq DOMAIN h /\ p.held \in L!Value
  BY DEF Reached, Positions
<1>2. /\ q.done = p.done \cup {i} /\ q.done \subseteq DOMAIN h /\ i \in DOMAIN h \ p.done
      /\ Cardinality(q.done) = Cardinality(p.done) + 1
      /\ Explained(h, q.done, q.held)
  BY <1>1, OneMoreExplained DEF Reached
<1>3. q \in Positions
  <2>1. PICK r \in L!Apply(p.held, h[i].command) : q = L!Position(p.done \cup {i}, r.held)
    BY DEF Viable
  <2>2. h[i].command \in Wish
    <3>1. h[i] \in Recorded
      BY <1>2, ElementOfSeq, LenProperties
    <3> QED BY <3>1 DEF Recorded
  <2>3. r.held \in L!Value
    BY <1>1, <2>1, <2>2, OutcomeType
  <2>4. q.done \subseteq Nat
    BY <1>2, PartOfHistory
  <2> QED BY <1>2, <2>1, <2>3, <2>4 DEF L!Position, Positions
<1>4. Cardinality(p.done) \in Nat
  BY <1>1, PartOfHistory
<1> QED BY <1>2, <1>3, <1>4 DEF Reached

LEMMA StartIsReached ==
  ASSUME L!LinearizeConstants, NEW h
  PROVE  /\ Start \in Positions /\ Start.done = {} /\ Start.held = Absent
         /\ Reached(h, Start) /\ Start # None
<1>1. Start.done = {} /\ Start.held = Absent
  BY DEF Start, L!Position
<1>2. Start \in Positions
  BY DEF Start, L!Position, Positions, L!Value
<1>3. Start # None
  BY <1>2 DEF L!LinearizeConstants, Positions
<1> QED BY <1>1, <1>2, <1>3, NothingIsExplained DEF Reached

LEMMA HistoryInit ==
  ASSUME L!LinearizeConstants, L!Init
  PROVE  HistoryInv
<1>0. /\ operations = << >> /\ clock = 0 /\ budget \in Nat /\ searching = FALSE
      /\ states = 0 /\ longest = 0 /\ seen = {} /\ stack = << >> /\ entering = None
      /\ answer = None
  BY DEF L!Init, L!LinearizeConstants
<1>1. DOMAIN << >> = {} /\ << >> \in Seq(Recorded) /\ << >> \in Seq(Frames) /\ Len(<< >>) = 0
      /\ 1..0 = {}
  OBVIOUS
<1>2. HistoryType
  BY <1>0, <1>1 DEF HistoryType, Stamped
<1>3. WalksUnderWay
  BY <1>0, <1>1 DEF WalksUnderWay
<1>4. SearchCounts
  <2>1. Explained(operations, {}, Absent) /\ Cardinality({}) = 0
    BY NothingIsExplained, FS_EmptySet
  <2> QED BY <1>0, <2>1 DEF SearchCounts
<1>5. SeenIsUnfinished /\ ~InBudget
  BY <1>0 DEF SeenIsUnfinished, InBudget
<1>6. Verdict
  <2>1. /\ answer # L!LINEARIZABLE /\ answer # L!NOT_LINEARIZABLE
        /\ answer \notin {L!NOT_LINEARIZABLE, L!UNKNOWN}
    BY <1>0 DEF L!LinearizeConstants
  <2> QED BY <1>0, <2>1 DEF Verdict
<1> QED BY <1>2, <1>3, <1>4, <1>5, <1>6 DEF HistoryInv

-----------------------------------------------------------------------------
(* Recording.                                                              *)

\* While the history is recorded nothing has been searched.
LEMMA RecordingKeeps ==
  ASSUME L!LinearizeConstants, HistoryInv, ~searching, HistoryType',
         UNCHANGED <<budget, searching, states, longest, seen, stack, entering, answer>>
  PROVE  HistoryInv'
<1>0. /\ entering' = None /\ answer' = None /\ stack' = << >> /\ seen' = {} /\ longest' = 0
      /\ searching' = FALSE /\ budget' \in Nat /\ states' \in Nat
  BY DEF HistoryInv, SearchCounts
<1>1. << >> \in Seq(Frames) /\ Len(<< >>) = 0 /\ 1..0 = {}
  OBVIOUS
<1>2. WalksUnderWay'
  BY <1>0, <1>1 DEF WalksUnderWay
<1>3. SearchCounts'
  <2>1. Explained(operations', {}, Absent) /\ Cardinality({}) = 0
    BY NothingIsExplained, FS_EmptySet
  <2>2. \E d \in SUBSET DOMAIN operations' :
          (\E held : Explained(operations', d, held)) /\ Cardinality(d) = longest'
    BY <1>0, <2>1
  <2>3. budget' \in Nat /\ states' \in Nat
    BY <1>0
  <2>4. longest' \in Nat
    <3>1. longest' = 0
      BY <1>0
    <3> QED BY <3>1, SMT
  <2>5. searching' \in BOOLEAN
    <3>1. searching' = FALSE
      BY <1>0
    <3> QED BY <3>1, Zenon
  <2> QED BY <1>0, <2>2, <2>3, <2>4, <2>5 DEF SearchCounts
<1>4. SeenIsUnfinished' /\ ~InBudget'
  BY <1>0 DEF SeenIsUnfinished, InBudget
<1>5. Verdict'
  <2>1. /\ answer' # L!LINEARIZABLE /\ answer' # L!NOT_LINEARIZABLE
        /\ answer' \notin {L!NOT_LINEARIZABLE, L!UNKNOWN}
    BY <1>0 DEF L!LinearizeConstants
  <2> QED BY <1>0, <2>1 DEF Verdict
<1> QED BY <1>2, <1>3, <1>4, <1>5 DEF HistoryInv

LEMMA CallKeeps ==
  ASSUME L!LinearizeConstants, HistoryInv, NEW cmd \in Wish, L!Call(cmd)
  PROVE  HistoryInv'
<1> DEFINE op == L!Operation(cmd, clock + 1)  n == Len(operations)
<1>0. /\ ~searching /\ clock' = clock + 1 /\ operations' = Append(operations, op)
      /\ UNCHANGED <<budget, searching, states, longest, seen, stack, entering, answer>>
  BY DEF L!Call
<1>1. operations \in Seq(Recorded) /\ clock \in Nat /\ None \notin Nat
  BY DEF HistoryInv, HistoryType, L!LinearizeConstants
<1>2. op \in Recorded /\ op.calledAt = clock + 1 /\ op.returnedAt = None
  BY <1>1 DEF L!Operation, Recorded, Results
<1> HIDE DEF op
<1>3. /\ n \in Nat /\ DOMAIN operations = 1..n
      /\ operations' \in Seq(Recorded) /\ DOMAIN operations' = 1..(n + 1)
      /\ \A i \in 1..n : operations'[i] = operations[i]
      /\ operations'[n + 1] = op
  BY <1>0, <1>1, <1>2, LenProperties, AppendProperties
<1> HIDE DEF n
<1>4. ~L!Complete(op)
  BY <1>2 DEF L!Complete
<1>5. ASSUME NEW i \in 1..n
      PROVE  /\ operations[i].calledAt \in Nat /\ operations[i].calledAt <= clock
             /\ L!Complete(operations[i]) => /\ operations[i].returnedAt \in Nat
                                             /\ operations[i].returnedAt <= clock
  <2>1. operations[i] \in Recorded
    BY <1>1, <1>3, ElementOfSeq
  <2> QED BY <2>1, <1>3 DEF HistoryInv, HistoryType, Recorded, L!Complete
<1>6. HistoryType'
  <2>1. \A i \in 1..(n + 1) : i \in 1..n \/ i = n + 1
    BY <1>3
  <2>2. ASSUME NEW i \in 1..(n + 1)
        PROVE  /\ operations'[i].calledAt <= clock'
               /\ L!Complete(operations'[i]) => operations'[i].returnedAt <= clock'
    <3>1. CASE i \in 1..n
      BY <3>1, <1>0, <1>1, <1>3, <1>5
    <3>2. CASE i = n + 1
      <4>1. clock + 1 <= clock + 1
        BY <1>1
      <4> QED BY <3>2, <4>1, <1>0, <1>2, <1>3, <1>4
    <3> QED BY <2>1, <3>1, <3>2
  <2>3. ASSUME NEW i \in 1..(n + 1), NEW j \in 1..(n + 1), L!Complete(operations'[i])
        PROVE  /\ operations'[i].returnedAt # operations'[j].calledAt
               /\ operations'[i].calledAt < operations'[i].returnedAt
    <3>1. i \in 1..n
      BY <2>1, <2>3, <1>3, <1>4
    <3>2. operations'[i] = operations[i] /\ L!Complete(operations[i])
      BY <2>3, <3>1, <1>3
    <3>3. operations[i].calledAt < operations[i].returnedAt
      BY <3>1, <3>2, <1>3 DEF HistoryInv, HistoryType, Stamped
    <3>4. CASE j \in 1..n
      BY <3>1, <3>2, <3>3, <3>4, <1>3 DEF HistoryInv, HistoryType, Stamped
    <3>5. CASE j = n + 1
      <4>1. operations[i].returnedAt \in Nat /\ operations[i].returnedAt <= clock
        BY <3>1, <3>2, <1>5
      <4>2. operations'[j].calledAt = clock + 1
        BY <3>5, <1>2, <1>3
      <4> QED BY <4>1, <4>2, <3>2, <3>3, <1>1
    <3> QED BY <2>1, <3>4, <3>5
  <2>4. clock' \in Nat
    BY <1>0, <1>1
  <2> QED BY <2>2, <2>3, <2>4, <1>3 DEF HistoryType, Stamped
<1> QED BY <1>0, <1>6, RecordingKeeps

LEMMA ReturnKeeps ==
  ASSUME L!LinearizeConstants, HistoryInv, NEW i \in DOMAIN operations, L!Return(i)
  PROVE  HistoryInv'
<1>0. /\ ~searching /\ ~L!Complete(operations[i]) /\ clock' = clock + 1
      /\ UNCHANGED <<budget, searching, states, longest, seen, stack, entering, answer>>
  BY DEF L!Return
<1>1. PICK told \in Told[operations[i].command] :
        operations' = [operations EXCEPT ![i].returnedAt = clock + 1, ![i].result = told]
  BY DEF L!Return
<1>2. operations \in Seq(Recorded) /\ clock \in Nat /\ None \notin Nat
  BY DEF HistoryInv, HistoryType, L!LinearizeConstants
<1> DEFINE n == Len(operations)
<1>3. n \in Nat /\ DOMAIN operations = 1..n /\ operations \in [1..n -> Recorded]
  BY <1>2, LenProperties
<1>4. \A j \in 1..n : operations[j] \in Recorded
  BY <1>3
<1>5. told \in Results
  BY <1>1, <1>3, <1>4 DEF Results, Recorded
<1> HIDE DEF n
<1>6. /\ \A j \in 1..n : j # i => operations'[j] = operations[j]
      /\ operations'[i].calledAt = operations[i].calledAt
      /\ operations'[i].returnedAt = clock + 1
      /\ operations'[i] \in Recorded
      /\ DOMAIN operations' = 1..n
  <2> DEFINE op == [operations[i] EXCEPT !.returnedAt = clock + 1, !.result = told]
  <2>1. operations' = [operations EXCEPT ![i] = op]
    BY <1>1
  <2>2. op \in Recorded /\ op.calledAt = operations[i].calledAt /\ op.returnedAt = clock + 1
    <3>1. operations[i] \in Recorded /\ clock + 1 \in Nat
      BY <1>2, <1>3, <1>4
    <3> QED BY <3>1, <1>5 DEF Recorded
  <2> HIDE DEF op
  <2> QED BY <2>1, <2>2, <1>3
<1>7. operations' \in Seq(Recorded)
  <2>1. operations' \in [1..n -> Recorded]
    <3>1. \A j \in 1..n : operations'[j] \in Recorded
      BY <1>4, <1>6
    <3>2. operations' = [j \in 1..n |-> operations'[j]]
      BY <1>1, <1>3
    <3> QED BY <3>1, <3>2
  <2> QED BY <2>1, <1>3
<1>8. ASSUME NEW j \in 1..n
      PROVE  /\ operations[j].calledAt \in Nat /\ operations[j].calledAt <= clock
             /\ operations'[j].calledAt = operations[j].calledAt
             /\ L!Complete(operations'[j]) =>
                  /\ operations'[j].returnedAt \in Nat /\ operations'[j].returnedAt <= clock + 1
                  /\ j # i => /\ operations'[j].returnedAt <= clock
                              /\ L!Complete(operations[j])
  <2>1. operations[j].calledAt \in Nat /\ operations[j].calledAt <= clock
    BY <1>3, <1>4 DEF HistoryInv, HistoryType, Recorded
  <2>2. CASE j = i
    BY <2>1, <2>2, <1>2, <1>6
  <2>3. CASE j # i
    <3>1. operations'[j] = operations[j]
      BY <2>3, <1>6
    <3>2. L!Complete(operations[j]) =>
            operations[j].returnedAt \in Nat /\ operations[j].returnedAt <= clock
      BY <1>3, <1>4 DEF HistoryInv, HistoryType, Recorded, L!Complete
    <3> QED BY <2>1, <2>3, <3>1, <3>2, <1>2
  <2> QED BY <2>2, <2>3
<1>9. HistoryType'
  <2>1. ASSUME NEW j \in 1..n
        PROVE  /\ operations'[j].calledAt <= clock'
               /\ L!Complete(operations'[j]) => operations'[j].returnedAt <= clock'
    BY <1>0, <1>2, <1>8
  <2>2. ASSUME NEW j \in 1..n, NEW k \in 1..n, L!Complete(operations'[j])
        PROVE  /\ operations'[j].returnedAt # operations'[k].calledAt
               /\ operations'[j].calledAt < operations'[j].returnedAt
    <3>1. CASE j = i
      <4>1. operations'[j].returnedAt = clock + 1
        BY <3>1, <1>6
      <4>2. /\ operations'[k].calledAt \in Nat /\ operations'[k].calledAt <= clock
            /\ operations'[j].calledAt \in Nat /\ operations'[j].calledAt <= clock
        BY <1>8
      <4> QED BY <4>1, <4>2, <1>2
    <3>2. CASE j # i
      <4>1. operations'[j] = operations[j] /\ L!Complete(operations[j])
        BY <2>2, <3>2, <1>6
      <4>2. /\ operations[j].returnedAt # operations[k].calledAt
            /\ operations[j].calledAt < operations[j].returnedAt
        BY <4>1, <1>3 DEF HistoryInv, HistoryType, Stamped
      <4> QED BY <4>1, <4>2, <1>8
    <3> QED BY <3>1, <3>2
  <2>3. clock' \in Nat
    BY <1>0, <1>2
  <2> QED BY <2>1, <2>2, <2>3, <1>6, <1>7 DEF HistoryType, Stamped
<1> QED BY <1>0, <1>9, RecordingKeeps

-----------------------------------------------------------------------------
(* Searching.                                                              *)

\* While the search runs the history stays.
LEMMA HistoryStays ==
  ASSUME HistoryType, UNCHANGED <<operations, clock>>
  PROVE  HistoryType'
BY DEF HistoryType, Stamped

LEMMA CheckKeeps ==
  ASSUME L!LinearizeConstants, HistoryInv, L!Check
  PROVE  HistoryInv'
<1>0. /\ ~searching /\ searching' = TRUE /\ entering' = Start
      /\ UNCHANGED <<operations, clock, budget, states, longest, seen, stack, answer>>
  BY DEF L!Check, L!historyVars, Start
<1>1. answer = None /\ stack = << >> /\ seen = {}
  BY <1>0 DEF HistoryInv, SearchCounts
<1>2. << >> \in Seq(Frames) /\ Len(<< >>) = 0 /\ 1..0 = {}
  OBVIOUS
<1>3. Start.done = {} /\ Reached(operations', Start) /\ Cardinality({}) = 0
  BY StartIsReached, FS_EmptySet
<1>4. HistoryType'
  BY <1>0, HistoryStays DEF HistoryInv
<1>5. WalksUnderWay'
  <2>1. /\ stack' = << >> /\ searching' /\ answer' = None
    BY <1>0, <1>1
  <2> QED BY <2>1, <1>0, <1>2, <1>3 DEF WalksUnderWay
<1>6. SearchCounts'
  <2>1. searching' /\ searching' \in BOOLEAN
    BY <1>0
  <2>2. /\ budget' \in Nat /\ states' \in Nat /\ longest' \in Nat
        /\ \E d \in SUBSET DOMAIN operations' :
             (\E held : Explained(operations', d, held)) /\ Cardinality(d) = longest'
    BY <1>0 DEF HistoryInv, SearchCounts
  <2> QED BY <2>1, <2>2 DEF SearchCounts
<1>7. SeenIsUnfinished'
  BY <1>0, <1>1 DEF SeenIsUnfinished
<1>8. LeftIsClosed'
  BY <1>0, <1>1, <1>2 DEF LeftIsClosed
<1>9. Verdict'
  <2>1. /\ answer' = None /\ answer' # L!LINEARIZABLE /\ answer' # L!NOT_LINEARIZABLE
        /\ answer' \notin {L!NOT_LINEARIZABLE, L!UNKNOWN}
    BY <1>0, <1>1 DEF L!LinearizeConstants
  <2> QED BY <2>1 DEF Verdict
<1> QED BY <1>4, <1>5, <1>6, <1>7, <1>8, <1>9 DEF HistoryInv

\* As long as there is no verdict there is nothing to say about it.
LEMMA NoVerdict ==
  ASSUME L!LinearizeConstants, answer' = None
  PROVE  Verdict'
<1>1. /\ answer' # L!LINEARIZABLE /\ answer' # L!NOT_LINEARIZABLE
      /\ answer' \notin {L!NOT_LINEARIZABLE, L!UNKNOWN}
  BY DEF L!LinearizeConstants
<1> QED BY <1>1 DEF Verdict

LEMMA EnterKeeps ==
  ASSUME L!LinearizeConstants, HistoryInv, L!Enter
  PROVE  HistoryInv'
<1> DEFINE e == entering  c == Cardinality(entering.done)
           frame == [at |-> e, untried |-> DOMAIN operations \ e.done]
<1>0. /\ entering # None /\ states' = states + 1 /\ entering' = None
      /\ longest' = L!Max({longest, L!Cardinality(entering.done)})
      /\ UNCHANGED <<operations, clock, budget, searching>>
      /\ \/ /\ DOMAIN operations \ e.done = {} /\ answer' = L!LINEARIZABLE
            /\ UNCHANGED <<seen, stack>>
         \/ /\ states' >= budget \/ e \in seen
            /\ UNCHANGED <<seen, stack, answer>>
         \/ /\ DOMAIN operations \ e.done # {} /\ e \notin seen
            /\ seen' = seen \cup {e} /\ stack' = Append(stack, frame) /\ answer' = answer
  BY DEF L!Enter, L!Remaining, L!Exhausted, L!Known, L!historyVars
<1>1. /\ searching /\ answer = None /\ Reached(operations, e) /\ c = Len(stack)
      /\ operations \in Seq(Recorded)
  BY <1>0 DEF HistoryInv, WalksUnderWay, HistoryType
<1>2. /\ e \in Positions /\ e.done \subseteq DOMAIN operations
      /\ Explained(operations, e.done, e.held)
  BY <1>1 DEF Reached
<1>3. c \in Nat /\ IsFiniteSet(e.done) /\ DOMAIN operations \subseteq Nat
  BY <1>1, <1>2, PartOfHistory
<1>4. longest \in Nat /\ states \in Nat /\ budget \in Nat
  BY DEF HistoryInv, SearchCounts
<1>5. longest' = Max({longest, c})
  <2>1. L!Cardinality(entering.done) = c
    BY DEF L!Cardinality, Cardinality
  <2>2. \A S : L!Max(S) = Max(S)
    BY DEF L!Max, Max
  <2> QED BY <1>0, <2>1, <2>2
<1> HIDE DEF c
<1>6. /\ longest' \in Nat /\ longest <= longest' /\ c <= longest'
      /\ longest' = longest \/ longest' = c
  BY <1>3, <1>4, <1>5, MaxOfPair
<1>7. HistoryType'
  BY <1>0, HistoryStays DEF HistoryInv
<1>8. SearchCounts'
  <2>1. searching' /\ searching' \in BOOLEAN
    BY <1>0, <1>1 DEF HistoryInv, SearchCounts
  <2>2. budget' \in Nat /\ states' \in Nat
    BY <1>0, <1>4
  <2>3. \E d \in SUBSET DOMAIN operations :
          (\E held : Explained(operations, d, held)) /\ Cardinality(d) = longest'
    <3>1. CASE longest' = longest
      BY <3>1 DEF HistoryInv, SearchCounts
    <3>2. CASE longest' = c
      BY <3>2, <1>2 DEF c
    <3> QED BY <3>1, <3>2, <1>6
  <2>4. operations' = operations
    BY <1>0
  <2>5. longest' \in Nat
    BY <1>6
  <2> QED BY <2>1, <2>2, <2>3, <2>4, <2>5 DEF SearchCounts
<1>9. SeenIsUnfinished /\ WalksUnderWay
  BY DEF HistoryInv
<1>10. \A p \in seen : /\ p \in Positions /\ p.done \subseteq DOMAIN operations
                       /\ DOMAIN operations \ p.done # {} /\ Cardinality(p.done) <= longest'
  <2> SUFFICES ASSUME NEW p \in seen
               PROVE  /\ p \in Positions /\ p.done \subseteq DOMAIN operations
                      /\ DOMAIN operations \ p.done # {} /\ Cardinality(p.done) <= longest'
    OBVIOUS
  <2>1. /\ p \in Positions /\ p.done \subseteq DOMAIN operations
        /\ DOMAIN operations \ p.done # {} /\ Cardinality(p.done) <= longest
    BY <1>9 DEF SeenIsUnfinished
  <2>2. Cardinality(p.done) \in Nat
    BY <1>1, <2>1, PartOfHistory
  <2>3. Cardinality(p.done) <= longest'
    BY <2>1, <2>2, <1>4, <1>6
  <2> QED BY <2>1, <2>3
<1>11. ASSUME InBudget' PROVE LeftIsClosed
  <2>1. states' < budget /\ answer' = None
    BY <1>0, <1>11 DEF InBudget
  <2>2. InBudget
    BY <1>0, <1>1, <1>4, <2>1 DEF InBudget
  <2> QED BY <2>2 DEF HistoryInv
<1>12. CASE /\ DOMAIN operations \ e.done = {} /\ answer' = L!LINEARIZABLE
            /\ UNCHANGED <<seen, stack>>
  <2>1. e.done = DOMAIN operations
    BY <1>12, <1>2
  <2>2. Verdict'
    <3>1. Explained(operations', DOMAIN operations', e.held)
      BY <1>0, <1>2, <2>1
    <3>2. /\ answer' # L!NOT_LINEARIZABLE /\ answer' \notin {L!NOT_LINEARIZABLE, L!UNKNOWN}
      BY <1>12 DEF L!LINEARIZABLE, L!NOT_LINEARIZABLE, L!UNKNOWN
    <3> QED BY <1>12, <3>1, <3>2 DEF Verdict
  <2>3. ~InBudget'
    BY <1>12 DEF InBudget, L!LinearizeConstants
  <2>4. WalksUnderWay'
    BY <1>0, <1>9, <1>12 DEF WalksUnderWay
  <2>5. SeenIsUnfinished'
    BY <1>0, <1>10, <1>12 DEF SeenIsUnfinished
  <2> QED BY <1>7, <1>8, <2>2, <2>3, <2>4, <2>5 DEF HistoryInv
<1>13. CASE /\ states' >= budget \/ e \in seen
            /\ UNCHANGED <<seen, stack, answer>>
  <2>1. Verdict'
    BY <1>1, <1>13, NoVerdict
  <2>2. WalksUnderWay'
    BY <1>0, <1>9, <1>13 DEF WalksUnderWay
  <2>3. SeenIsUnfinished'
    BY <1>0, <1>10, <1>13 DEF SeenIsUnfinished
  <2>4. ASSUME InBudget' PROVE LeftIsClosed'
    <3>1. e \in seen
      <4>1. states' < budget
        BY <1>0, <2>4 DEF InBudget
      <4> QED BY <4>1, <1>0, <1>4, <1>13
    <3>2. LeftIsClosed
      BY <1>11, <2>4
    <3> QED BY <3>1, <3>2, <1>0, <1>13 DEF LeftIsClosed
  <2> QED BY <1>7, <1>8, <2>1, <2>2, <2>3, <2>4 DEF HistoryInv
<1>14. CASE /\ DOMAIN operations \ e.done # {} /\ e \notin seen
            /\ seen' = seen \cup {e} /\ stack' = Append(stack, frame) /\ answer' = answer
  <2> DEFINE n == Len(stack)
  <2>0. operations' = operations /\ searching' /\ entering' = None
    BY <1>0, <1>1
  <2>1. stack \in Seq(Frames) /\ frame \in Frames
    <3>1. DOMAIN operations \ e.done \in SUBSET Nat
      BY <1>3
    <3> QED BY <3>1, <1>2, <1>9 DEF WalksUnderWay, Frames
  <2>2. frame.at = e /\ frame.untried = DOMAIN operations \ e.done
    OBVIOUS
  <2> HIDE DEF frame
  <2>3. /\ n \in Nat /\ stack' \in Seq(Frames) /\ Len(stack') = n + 1
        /\ \A m \in 1..n : stack'[m] = stack[m]
        /\ stack'[n + 1] = frame
    BY <1>14, <2>1, LenProperties, AppendProperties
  <2>4. c = n
    BY <1>1 DEF c
  <2> HIDE DEF n
  <2>5. \A m \in 1..(n + 1) : m \in 1..n \/ m = n + 1
    BY <2>3
  <2>6. WalksUnderWay'
    <3>1. ASSUME NEW m \in 1..(n + 1)
          PROVE  /\ Reached(operations, stack'[m].at) /\ stack'[m].at \in seen'
                 /\ Cardinality(stack'[m].at.done) = m - 1
                 /\ stack'[m].untried \subseteq DOMAIN operations \ stack'[m].at.done
      <4>1. CASE m \in 1..n
        BY <4>1, <1>9, <1>14, <2>3 DEF WalksUnderWay, n
      <4>2. CASE m = n + 1
        <5>1. stack'[m] = frame /\ m - 1 = c
          BY <4>2, <2>3, <2>4
        <5> QED BY <5>1, <1>1, <1>14, <2>2 DEF c
      <4> QED BY <2>5, <4>1, <4>2
    <3> QED BY <2>0, <2>3, <3>1 DEF WalksUnderWay
  <2>7. SeenIsUnfinished'
    <3>1. Cardinality(e.done) <= longest'
      BY <1>6 DEF c
    <3> QED BY <3>1, <2>0, <1>2, <1>10, <1>14 DEF SeenIsUnfinished
  <2>8. ASSUME InBudget' PROVE LeftIsClosed'
    <3>0. LeftIsClosed
      BY <1>11, <2>8
    <3>1. entering' = Start \/ Start \in seen'
      BY <3>0, <1>14 DEF LeftIsClosed
    <3>2. ASSUME NEW p \in seen', ~OnStack(stack', p), NEW i, NEW q, Viable(operations, p, i, q)
          PROVE  q \in seen' /\ ~OnStack(stack', q)
      <4>1. p # e
        <5>1. n + 1 \in 1..(n + 1) /\ stack'[n + 1].at = e
          BY <2>2, <2>3
        <5> QED BY <3>2, <5>1, <2>3 DEF OnStack
      <4>2. ~OnStack(stack, p)
        <5>1. \A m \in 1..n : m \in 1..(n + 1) /\ stack'[m] = stack[m]
          BY <2>3
        <5> QED BY <3>2, <5>1, <2>3 DEF OnStack, n
      <4>3. q \in seen /\ ~OnStack(stack, q)
        BY <3>0, <3>2, <4>1, <4>2, <1>14 DEF LeftIsClosed
      <4>4. q # e
        BY <4>3, <1>14
      <4>5. ASSUME NEW m \in 1..(n + 1) PROVE stack'[m].at # q
        <5>1. CASE m \in 1..n
          BY <5>1, <4>3, <2>3 DEF OnStack, n
        <5>2. CASE m = n + 1
          BY <5>2, <4>4, <2>2, <2>3
        <5> QED BY <2>5, <5>1, <5>2
      <4> QED BY <4>3, <4>5, <2>3, <1>14 DEF OnStack
    <3>3. ASSUME NEW m \in 1..(n + 1), NEW i, NEW q,
                 Viable(operations, stack'[m].at, i, q), i \notin stack'[m].untried
          PROVE  q \in seen'
      <4>1. CASE m \in 1..n
        <5>1. stack'[m] = stack[m]
          BY <4>1, <2>3
        <5>2. q \in seen \/ q = e
          BY <3>0, <3>3, <4>1, <5>1 DEF LeftIsClosed, n
        <5> QED BY <5>2, <1>14
      <4>2. CASE m = n + 1
        BY <3>3, <4>2, <2>2, <2>3 DEF Viable
      <4> QED BY <2>5, <4>1, <4>2
    <3> QED BY <3>1, <3>2, <3>3, <2>0, <2>3 DEF LeftIsClosed
  <2>9. Verdict'
    BY <1>1, <1>14, NoVerdict
  <2> QED BY <1>7, <1>8, <2>6, <2>7, <2>8, <2>9 DEF HistoryInv
<1> QED BY <1>0, <1>12, <1>13, <1>14

LEMMA TryKeeps ==
  ASSUME L!LinearizeConstants, HistoryInv, L!Try
  PROVE  HistoryInv'
<1> DEFINE n == Len(stack)  top == stack[n]  i == L!Min(stack[n].untried)
           rest == DOMAIN operations \ top.at.done
           fits(r) == Fits(operations[i], r)
           child(r) == L!Position(top.at.done \cup {i}, r.held)
<1>0. /\ searching /\ answer = None /\ entering = None /\ stack # << >> /\ top.untried # {}
      /\ stack' = [stack EXCEPT ![n].untried = @ \ {i}]
      /\ UNCHANGED <<operations, clock, budget, searching, states, longest, seen, answer>>
  BY DEF L!Try, L!Top, L!historyVars
<1>1. PICK r \in L!Apply(top.at.held, operations[i].command) :
        entering' = IF L!Allowed(i, rest) /\ fits(r) THEN child(r) ELSE None
  BY DEF L!Try, L!Top, L!Remaining, Fits
<1>2. WalksUnderWay /\ SeenIsUnfinished /\ SearchCounts /\ HistoryType
      /\ operations \in Seq(Recorded) /\ Stamped(operations)
  BY DEF HistoryInv, HistoryType
<1>3. stack \in Seq(Frames) /\ n \in Nat /\ n >= 1 /\ n \in 1..n /\ stack \in [1..n -> Frames]
  <2>1. stack \in Seq(Frames)
    BY <1>2 DEF WalksUnderWay
  <2>2. n # 0
    BY <2>1, <1>0, EmptySeq, LenProperties
  <2> QED BY <2>1, <2>2, LenProperties
<1>4. /\ Reached(operations, top.at) /\ top.at \in Positions /\ top.at \in seen
      /\ top.untried \subseteq rest /\ Cardinality(top.at.done) = n - 1
      /\ DOMAIN operations \subseteq Nat
  BY <1>2, <1>3, PartOfHistory DEF WalksUnderWay, Reached
<1>5. i \in top.untried /\ i \in rest
  <2>1. L!Min(top.untried) = Min(top.untried)
    BY DEF L!Min, Min
  <2>2. IsFiniteSet(top.untried) /\ top.untried \subseteq Int
    BY <1>2, <1>4, PartOfHistory
  <2>3. Min(top.untried) \in top.untried
    BY <2>2, <1>0, MinOfFinite
  <2> QED BY <2>1, <2>3, <1>4
<1>6. L!Apply(top.at.held, operations[i].command) = {r}
  <2>1. operations[i] \in Recorded
    BY <1>2, <1>5, ElementOfSeq, LenProperties
  <2>2. operations[i].command \in Wish
    BY <2>1 DEF Recorded
  <2> QED BY <2>2, <1>1, OneOutcome
<1>7. \A q : Viable(operations, top.at, i, q) <=>
               L!Allowed(i, rest) /\ fits(r) /\ q = child(r)
  BY <1>5, <1>6 DEF Viable, L!Allowed
<1>8. /\ Len(stack') = n /\ stack' \in Seq(Frames)
      /\ \A m \in 1..n : stack'[m].at = stack[m].at /\ (m # n => stack'[m] = stack[m])
      /\ stack'[n].untried = top.untried \ {i}
  <2> DEFINE frame == [stack[n] EXCEPT !.untried = @ \ {i}]
  <2>1. stack' = [stack EXCEPT ![n] = frame]
    BY <1>0
  <2>2. top \in Frames
    BY <1>3
  <2>3. frame \in Frames /\ frame.at = top.at /\ frame.untried = top.untried \ {i}
    BY <2>2 DEF Frames
  <2> HIDE DEF frame
  <2>4. stack' \in [1..n -> Frames]
    BY <2>1, <2>3, <1>3
  <2>5. \A m \in 1..n : stack'[m] = IF m = n THEN frame ELSE stack[m]
    BY <2>1, <1>3
  <2> HIDE DEF n
  <2>6. stack' \in Seq(Frames) /\ DOMAIN stack' = 1..n
    BY <2>4, <1>3
  <2>7. Len(stack') = n
    BY <2>6, <1>3, LenProperties
  <2> QED BY <2>3, <2>5, <2>6, <2>7, <1>3 DEF n
<1> HIDE DEF i, fits, child, n
<1>9. entering' # None => Viable(operations, top.at, i, entering')
  BY <1>1, <1>7
<1>10. HistoryType'
  BY <1>0, <1>2, HistoryStays
<1>11. WalksUnderWay'
  <2>1. ASSUME NEW m \in 1..n
        PROVE  /\ Reached(operations, stack'[m].at) /\ stack'[m].at \in seen
               /\ Cardinality(stack'[m].at.done) = m - 1
               /\ stack'[m].untried \subseteq DOMAIN operations \ stack'[m].at.done
    <3>1. /\ Reached(operations, stack[m].at) /\ stack[m].at \in seen
          /\ Cardinality(stack[m].at.done) = m - 1
          /\ stack[m].untried \subseteq DOMAIN operations \ stack[m].at.done
      BY <1>2 DEF WalksUnderWay, n
    <3>2. stack'[m].at = stack[m].at /\ stack'[m].untried \subseteq stack[m].untried
      BY <1>8
    <3> QED BY <3>1, <3>2
  <2>2. entering' # None => Reached(operations, entering') /\ Cardinality(entering'.done) = n
    <3> SUFFICES ASSUME entering' # None
                 PROVE  Reached(operations, entering') /\ Cardinality(entering'.done) = n
      OBVIOUS
    <3>1. /\ Reached(operations, entering')
          /\ Cardinality(entering'.done) = Cardinality(top.at.done) + 1
      BY <1>2, <1>4, <1>9, ViableIsReached
    <3> QED BY <3>1, <1>3, <1>4
  <2>3. operations' = operations /\ seen' = seen /\ searching' /\ answer' = None
    BY <1>0
  <2> QED BY <2>1, <2>2, <2>3, <1>8 DEF WalksUnderWay
<1>12. SearchCounts'
  <2>1. searching' /\ searching' \in BOOLEAN
    BY <1>0, <1>2 DEF SearchCounts
  <2>2. /\ budget' \in Nat /\ states' \in Nat /\ longest' \in Nat
        /\ \E d \in SUBSET DOMAIN operations' :
             (\E held : Explained(operations', d, held)) /\ Cardinality(d) = longest'
    BY <1>0, <1>2 DEF SearchCounts
  <2> QED BY <2>1, <2>2 DEF SearchCounts
<1>13. SeenIsUnfinished'
  BY <1>0, <1>2 DEF SeenIsUnfinished
<1>14. ASSUME InBudget' PROVE LeftIsClosed'
  <2>1. LeftIsClosed
    BY <1>0, <1>14 DEF InBudget, HistoryInv
  <2>2. \A p : OnStack(stack', p) <=> OnStack(stack, p)
    BY <1>8 DEF OnStack, n
  <2>3. Start \in seen
    BY <2>1, <1>0, StartIsReached DEF LeftIsClosed
  <2>4. ASSUME NEW m \in 1..n, NEW j, NEW q,
               Viable(operations, stack'[m].at, j, q), j \notin stack'[m].untried
        PROVE  q \in seen \/ (m = n /\ q = entering')
    <3>0. Viable(operations, stack[m].at, j, q)
      BY <2>4, <1>8
    <3>1. CASE j \in stack[m].untried
      <4>1. m = n /\ j = i
        BY <2>4, <3>1, <1>8
      <4>2. Viable(operations, top.at, i, q)
        BY <3>0, <4>1
      <4>3. q = entering'
        BY <4>2, <1>1, <1>7
      <4> QED BY <4>1, <4>3
    <3>2. CASE j \notin stack[m].untried
      <4>1. q \in seen \/ q = None
        BY <2>1, <3>0, <3>2, <1>0 DEF LeftIsClosed, n
      <4>2. q \in Positions
        <5>1. Reached(operations, stack[m].at)
          BY <1>2 DEF WalksUnderWay, n
        <5> QED BY <5>1, <3>0, <1>2, ViableIsReached
      <4>3. q # None
        BY <4>2 DEF L!LinearizeConstants, Positions
      <4> QED BY <4>1, <4>3
    <3> QED BY <3>1, <3>2
  <2>5. operations' = operations /\ seen' = seen
    BY <1>0
  <2>6. \A p \in seen : ~OnStack(stack', p) =>
          \A j, q : Viable(operations, p, j, q) => q \in seen /\ ~OnStack(stack', q)
    BY <2>1, <2>2 DEF LeftIsClosed
  <2> QED BY <2>3, <2>4, <2>5, <2>6, <1>8 DEF LeftIsClosed
<1>15. Verdict'
  BY <1>0, NoVerdict
<1> QED BY <1>10, <1>11, <1>12, <1>13, <1>14, <1>15 DEF HistoryInv

LEMMA BackKeeps ==
  ASSUME L!LinearizeConstants, HistoryInv, L!Back
  PROVE  HistoryInv'
<1> DEFINE n == Len(stack)  top == stack[n]
<1>0. /\ searching /\ answer = None /\ entering = None /\ stack # << >> /\ top.untried = {}
      /\ stack' = SubSeq(stack, 1, n - 1)
      /\ UNCHANGED <<operations, clock, budget, searching, states, longest, seen, entering,
                     answer>>
  BY DEF L!Back, L!Top, L!Below, L!historyVars
<1>1. WalksUnderWay /\ SeenIsUnfinished /\ SearchCounts /\ HistoryType
      /\ operations \in Seq(Recorded) /\ Stamped(operations)
  BY DEF HistoryInv, HistoryType
<1>2. stack \in Seq(Frames) /\ n \in Nat /\ n >= 1 /\ n \in 1..n
  <2>1. stack \in Seq(Frames)
    BY <1>1 DEF WalksUnderWay
  <2>2. n # 0
    BY <2>1, <1>0, EmptySeq, LenProperties
  <2> QED BY <2>1, <2>2, LenProperties
<1> HIDE DEF n
<1>3. /\ stack' \in Seq(Frames) /\ Len(stack') = n - 1
      /\ \A m \in 1..(n - 1) : m \in 1..n /\ m # n /\ stack'[m] = stack[m]
  <2> DEFINE k == n - 1  s == SubSeq(stack, 1, k)
  <2>1. k \in Nat /\ k <= Len(stack) /\ 1 + k - 1 = k
    BY <1>2 DEF n
  <2>2. stack' = s
    BY <1>0
  <2>3. \A m \in 1..k : m \in 1..n /\ m # n
    BY <1>2
  <2> HIDE DEF k
  <2>4. s \in Seq(Frames) /\ Len(s) = k /\ \A m \in 1..k : s[m] = stack[m]
    BY <2>1, <1>2
  <2> QED BY <2>2, <2>3, <2>4 DEF k
<1>4. HistoryType'
  BY <1>0, <1>1, HistoryStays
<1>5. WalksUnderWay'
  <2>1. operations' = operations /\ seen' = seen /\ entering' = None
    BY <1>0
  <2>2. \A m \in 1..(n - 1) :
          /\ Reached(operations, stack[m].at) /\ stack[m].at \in seen
          /\ Cardinality(stack[m].at.done) = m - 1
          /\ stack[m].untried \subseteq DOMAIN operations \ stack[m].at.done
    BY <1>1, <1>3 DEF WalksUnderWay, n
  <2> QED BY <2>1, <2>2, <1>3 DEF WalksUnderWay
<1>6. SearchCounts'
  <2>1. searching' /\ searching' \in BOOLEAN
    BY <1>0, <1>1 DEF SearchCounts
  <2>2. /\ budget' \in Nat /\ states' \in Nat /\ longest' \in Nat
        /\ \E d \in SUBSET DOMAIN operations' :
             (\E held : Explained(operations', d, held)) /\ Cardinality(d) = longest'
    BY <1>0, <1>1 DEF SearchCounts
  <2> QED BY <2>1, <2>2 DEF SearchCounts
<1>7. SeenIsUnfinished'
  BY <1>0, <1>1 DEF SeenIsUnfinished
<1>8. ASSUME InBudget' PROVE LeftIsClosed'
  <2>1. LeftIsClosed
    BY <1>0, <1>8 DEF InBudget, HistoryInv
  <2>2. \A p : OnStack(stack', p) => OnStack(stack, p)
    BY <1>3 DEF OnStack, n
  <2>3. ASSUME NEW m \in 1..n, NEW i, NEW q,
               Viable(operations, stack[m].at, i, q), i \notin stack[m].untried
        PROVE  q \in seen
    <3>1. q \in seen \/ q = entering
      BY <2>1, <2>3 DEF LeftIsClosed, n
    <3>2. q \in Positions
      <4>1. Reached(operations, stack[m].at)
        BY <1>1 DEF WalksUnderWay, n
      <4> QED BY <4>1, <2>3, <1>1, ViableIsReached
    <3>3. q # None
      BY <3>2 DEF L!LinearizeConstants, Positions
    <3> QED BY <3>1, <3>3, <1>0
  <2>4. ASSUME NEW p \in seen, ~OnStack(stack', p), NEW i, NEW q, Viable(operations, p, i, q)
        PROVE  q \in seen /\ ~OnStack(stack', q)
    <3>1. CASE ~OnStack(stack, p)
      BY <2>1, <2>2, <2>4, <3>1 DEF LeftIsClosed
    <3>2. CASE OnStack(stack, p)
      <4>1. PICK m \in 1..n : stack[m].at = p
        BY <3>2 DEF OnStack, n
      <4>2. m = n
        <5>1. m # n => m \in 1..(n - 1)
          BY <1>2
        <5> QED BY <5>1, <4>1, <2>4, <1>3 DEF OnStack
      <4>3. p = top.at
        BY <4>1, <4>2
      <4>4. q \in seen
        BY <2>3, <2>4, <4>1, <4>2, <1>0
      <4>5. Cardinality(q.done) = n
        <5>1. Reached(operations, p) /\ Cardinality(p.done) = n - 1
          BY <1>1, <1>2, <4>3 DEF WalksUnderWay, n
        <5>2. Cardinality(q.done) = Cardinality(p.done) + 1
          BY <5>1, <2>4, <1>1, ViableIsReached
        <5> QED BY <5>1, <5>2, <1>2
      <4>6. ASSUME NEW k \in 1..(n - 1) PROVE stack'[k].at # q
        <5>1. Cardinality(stack'[k].at.done) = k - 1
          BY <1>1, <1>3 DEF WalksUnderWay, n
        <5>2. k - 1 # n
          BY <1>2
        <5> QED BY <5>1, <5>2, <4>5
      <4> QED BY <4>4, <4>6, <1>3 DEF OnStack
    <3> QED BY <3>1, <3>2
  <2>5. operations' = operations /\ seen' = seen
    BY <1>0
  <2>6. Start \in seen
    BY <2>1, <1>0, StartIsReached DEF LeftIsClosed
  <2>7. \A m \in 1..(n - 1) : \A i, q :
          Viable(operations, stack'[m].at, i, q) /\ i \notin stack'[m].untried => q \in seen
    BY <2>3, <1>3
  <2> QED BY <2>4, <2>5, <2>6, <2>7, <1>3 DEF LeftIsClosed
<1>9. Verdict'
  BY <1>0, NoVerdict
<1> QED BY <1>4, <1>5, <1>6, <1>7, <1>8, <1>9 DEF HistoryInv

\* When all has been left, whatever can be explained has been seen.
LEMMA AllWasSeen ==
  ASSUME L!LinearizeConstants, HistoryType, SeenIsUnfinished, Start \in seen,
         \A p \in seen : \A i, q : Viable(operations, p, i, q) => q \in seen,
         NEW d \in SUBSET DOMAIN operations, NEW held, Explained(operations, d, held)
  PROVE  d # DOMAIN operations /\ Cardinality(d) <= longest
<1>0. operations \in Seq(Recorded) /\ Stamped(operations) /\ None \notin Nat
  BY DEF HistoryType, L!LinearizeConstants
<1>1. PICK o \in L!Orders(d) : InTime(operations, o) /\ \E f : Trace(operations, o, Absent, f)
  BY DEF Explained
<1>2. PICK f : Trace(operations, o, Absent, f)
  BY <1>1
<1> DEFINE n == Len(o)
<1>3. /\ n \in Nat /\ DOMAIN o = 1..n /\ \A k \in 1..n : o[k] \in d
      /\ \A j, k \in 1..n : o[j] = o[k] => j = k
      /\ \A x \in d : \E k \in 1..n : o[k] = x
  <2>1. IsFiniteSet(d)
    BY <1>0, PartOfHistory
  <2> QED BY <2>1, OrderType
<1>4. Start.done = {} /\ Start.held = Absent /\ Start = L!Position(Start.done, Start.held)
  BY DEF Start, L!Position
<1>5. ASSUME NEW k \in 1..n, NEW j \in DOMAIN operations, ~ \E x \in 1..k : j = o[x],
             L!Complete(operations[j])
      PROVE  operations[j].returnedAt > operations[o[k]].calledAt
  <2>1. o[k] \in DOMAIN operations
    BY <1>3
  <2>2. operations[j] \in Recorded /\ operations[o[k]] \in Recorded
    BY <1>0, <2>1, ElementOfSeq, LenProperties
  <2>3. operations[j].returnedAt \in Nat /\ operations[o[k]].calledAt \in Nat
    BY <1>5, <2>2 DEF Recorded, L!Complete
  <2>4. ~(operations[j].returnedAt < operations[o[k]].calledAt)
    <3>1. \A x \in 1..(k - 1) : x \in 1..k
      BY <1>3
    <3> QED BY <3>1, <1>1, <1>3, <1>5 DEF InTime
  <2>5. operations[j].returnedAt # operations[o[k]].calledAt
    BY <1>0, <1>5, <2>1 DEF Stamped
  <2> QED BY <2>3, <2>4, <2>5
<1> DEFINE q == L!Position(Start.done \cup {o[k] : k \in 1..n}, f[n])
<1>6. q \in seen
  <2>1. \A k \in 1..n : o[k] \in DOMAIN operations \ Start.done
    BY <1>3, <1>4
  <2>2. Trace(operations, o, Start.held, f)
    BY <1>2, <1>4
  <2>3. \A k \in 1..n : \A j \in DOMAIN operations \ Start.done :
          \/ \E x \in 1..k : j = o[x]
          \/ L!Complete(operations[j]) => operations[j].returnedAt > operations[o[k]].calledAt
    BY <1>5
  <2> QED BY <1>3, <1>4, <2>1, <2>2, <2>3, OrderStays
<1>7. q.done = d
  <2>1. q.done = {o[k] : k \in 1..n}
    BY <1>4 DEF L!Position
  <2>2. {o[k] : k \in 1..n} = d
    BY <1>3
  <2> HIDE DEF q
  <2> QED BY <2>1, <2>2
<1> QED BY <1>6, <1>7 DEF SeenIsUnfinished

LEMMA ConcludeKeeps ==
  ASSUME L!LinearizeConstants, HistoryInv, L!Conclude
  PROVE  HistoryInv'
<1>0. /\ searching /\ answer = None /\ entering = None /\ stack = << >>
      /\ answer' = IF states >= budget THEN L!UNKNOWN ELSE L!NOT_LINEARIZABLE
      /\ UNCHANGED <<operations, clock, budget, searching, states, longest, seen, stack,
                     entering>>
  BY DEF L!Conclude, L!historyVars
<1>1. WalksUnderWay /\ SeenIsUnfinished /\ SearchCounts /\ HistoryType
  BY DEF HistoryInv
<1>2. HistoryType'
  BY <1>0, <1>1, HistoryStays
<1>3. WalksUnderWay'
  BY <1>0, <1>1 DEF WalksUnderWay
<1>4. SearchCounts'
  <2>1. searching' /\ searching' \in BOOLEAN
    BY <1>0, <1>1 DEF SearchCounts
  <2>2. /\ budget' \in Nat /\ states' \in Nat /\ longest' \in Nat
        /\ \E d \in SUBSET DOMAIN operations' :
             (\E held : Explained(operations', d, held)) /\ Cardinality(d) = longest'
    BY <1>0, <1>1 DEF SearchCounts
  <2> QED BY <2>1, <2>2 DEF SearchCounts
<1>5. SeenIsUnfinished'
  BY <1>0, <1>1 DEF SeenIsUnfinished
<1>6. ~InBudget'
  <2>1. answer' # None
    BY <1>0 DEF L!LinearizeConstants
  <2> QED BY <2>1 DEF InBudget
<1>7. budget \in Nat /\ states \in Nat
  BY <1>1 DEF SearchCounts
<1>8. CASE states >= budget
  <2>1. /\ answer' = L!UNKNOWN /\ states' >= budget'
        /\ answer' # L!LINEARIZABLE /\ answer' # L!NOT_LINEARIZABLE
    BY <1>0, <1>8 DEF L!LINEARIZABLE, L!NOT_LINEARIZABLE, L!UNKNOWN
  <2>2. Verdict'
    BY <2>1 DEF Verdict
  <2> QED BY <1>2, <1>3, <1>4, <1>5, <1>6, <2>2 DEF HistoryInv
<1>9. CASE ~(states >= budget)
  <2>1. /\ answer' = L!NOT_LINEARIZABLE /\ ~(states' >= budget')
        /\ answer' # L!LINEARIZABLE /\ answer' # L!UNKNOWN
    BY <1>0, <1>9 DEF L!LINEARIZABLE, L!NOT_LINEARIZABLE, L!UNKNOWN
  <2>2. LeftIsClosed
    BY <1>0, <1>7, <1>9 DEF InBudget, HistoryInv
  <2>3. \A p : ~OnStack(stack, p)
    <3>1. Len(<< >>) = 0 /\ 1..0 = {}
      OBVIOUS
    <3> QED BY <3>1, <1>0 DEF OnStack
  <2>4. Start \in seen
    BY <2>2, <1>0, StartIsReached DEF LeftIsClosed
  <2>5. \A p \in seen : \A i, q : Viable(operations, p, i, q) => q \in seen
    BY <2>2, <2>3 DEF LeftIsClosed
  <2>6. ASSUME NEW d \in SUBSET DOMAIN operations, NEW held, Explained(operations, d, held)
        PROVE  d # DOMAIN operations /\ Cardinality(d) <= longest
    BY <1>1, <2>4, <2>5, <2>6, AllWasSeen
  <2>7. operations' = operations /\ longest' = longest
    BY <1>0
  <2>8. Verdict'
    BY <2>1, <2>6, <2>7 DEF Verdict
  <2> QED BY <1>2, <1>3, <1>4, <1>5, <1>6, <2>8 DEF HistoryInv
<1> QED BY <1>8, <1>9

LEMMA HistoryNext ==
  ASSUME L!LinearizeConstants, HistoryInv, [L!Next]_L!vars
  PROVE  HistoryInv'
<1>1. ASSUME NEW cmd \in Wish, L!Call(cmd) PROVE HistoryInv'
  BY <1>1, CallKeeps
<1>2. ASSUME NEW i \in DOMAIN operations, L!Return(i) PROVE HistoryInv'
  BY <1>2, ReturnKeeps
<1>3. ASSUME L!Check PROVE HistoryInv'
  BY <1>3, CheckKeeps
<1>4. ASSUME L!Enter PROVE HistoryInv'
  BY <1>4, EnterKeeps
<1>5. ASSUME L!Try PROVE HistoryInv'
  BY <1>5, TryKeeps
<1>6. ASSUME L!Back PROVE HistoryInv'
  BY <1>6, BackKeeps
<1>7. ASSUME L!Conclude PROVE HistoryInv'
  BY <1>7, ConcludeKeeps
<1>8. ASSUME UNCHANGED L!vars PROVE HistoryInv'
  <2>1. UNCHANGED <<operations, clock, budget, searching, states, longest, seen, stack,
                    entering, answer>>
    BY <1>8 DEF L!vars, L!historyVars
  <2>2. HistoryType' /\ WalksUnderWay' /\ SeenIsUnfinished'
    BY <2>1, HistoryStays DEF HistoryInv, WalksUnderWay, SeenIsUnfinished
  <2>3. SearchCounts' /\ Verdict'
    BY <2>1 DEF HistoryInv, SearchCounts, Verdict
  <2>4. InBudget' => LeftIsClosed'
    BY <2>1 DEF HistoryInv, InBudget, LeftIsClosed
  <2> QED BY <2>2, <2>3, <2>4 DEF HistoryInv
<1> QED BY <1>1, <1>2, <1>3, <1>4, <1>5, <1>6, <1>7, <1>8 DEF L!Next, L!Search

-----------------------------------------------------------------------------
(* What it is good for.                                                    *)

\* An operation that leads out of a left position leads to one.
LEMMA CacheIsEnough ==
  ASSUME L!LinearizeConstants, HistoryInv
  PROVE  L!CacheIsSound
<1> SUFFICES ASSUME answer = None, states < budget, NEW p \in seen,
                    \A n \in DOMAIN stack : stack[n].at # p, L!Finishes(p)
             PROVE  FALSE
  BY DEF L!CacheIsSound
<1>1. WalksUnderWay /\ SeenIsUnfinished /\ SearchCounts /\ HistoryType
      /\ operations \in Seq(Recorded)
  BY DEF HistoryInv, HistoryType
<1>2. searching
  BY <1>1 DEF SearchCounts
<1>3. LeftIsClosed
  BY <1>2 DEF InBudget, HistoryInv
<1> DEFINE S == {q \in seen : ~OnStack(stack, q)}  rest == DOMAIN operations \ p.done
<1>4. p \in S
  <2>1. DOMAIN stack = 1..Len(stack)
    BY <1>1, LenProperties DEF WalksUnderWay
  <2> QED BY <2>1 DEF OnStack
<1>5. \A q \in S : \A i, r : Viable(operations, q, i, r) => r \in S
  BY <1>3 DEF LeftIsClosed
<1>6. /\ p \in Positions /\ p.done \subseteq DOMAIN operations
      /\ p = L!Position(p.done, p.held)
  BY <1>1 DEF SeenIsUnfinished, Positions, L!Position
<1>7. PICK o \in L!Orders(rest) :
        /\ \A j \in DOMAIN o : L!Allowed(o[j], {o[k] : k \in j..Len(o)})
        /\ \A n \in DOMAIN o :
             \E r \in L!Apply(L!Before(o, p.held)[n - 1], operations[o[n]].command) :
               Fits(operations[o[n]], r)
  BY DEF L!Finishes, L!Remaining, Fits
<1> DEFINE n == Len(o)
<1>8. /\ n \in Nat /\ DOMAIN o = 1..n /\ \A k \in 1..n : o[k] \in rest
      /\ \A j, k \in 1..n : o[j] = o[k] => j = k
      /\ \A x \in rest : \E k \in 1..n : o[k] = x
  <2>1. IsFiniteSet(rest)
    BY <1>1, PartOfHistory
  <2> HIDE DEF rest
  <2> QED BY <2>1, OrderType
<1>9. Trace(operations, o, p.held, L!Before(o, p.held))
  <2>1. \A k \in 1..n : o[k] \in DOMAIN operations
    BY <1>8
  <2> QED BY <2>1, <1>1, <1>7, <1>8, LegalIsTrace
<1>10. ASSUME NEW k \in 1..n, NEW j \in rest, ~ \E x \in 1..k : j = o[x],
              L!Complete(operations[j])
       PROVE  operations[j].returnedAt > operations[o[k]].calledAt
  <2>1. PICK x \in 1..n : o[x] = j
    BY <1>8
  <2>2. x \notin 1..k /\ x \in k..n /\ k \in 1..k
    BY <1>8, <1>10, <2>1
  <2>3. j # o[k]
    BY <1>10, <2>2
  <2>4. j \in {o[y] : y \in k..n} \ {o[k]}
    BY <2>1, <2>2, <2>3
  <2> QED BY <1>7, <1>8, <1>10, <2>4 DEF L!Allowed
<1> DEFINE q == L!Position(p.done \cup {o[k] : k \in 1..n}, L!Before(o, p.held)[n])
<1>11. q \in S
  <2>1. \A k \in 1..n : \A j \in rest :
          \/ \E x \in 1..k : j = o[x]
          \/ L!Complete(operations[j]) => operations[j].returnedAt > operations[o[k]].calledAt
    BY <1>10
  <2> HIDE DEF S
  <2> QED BY <1>4, <1>5, <1>6, <1>8, <1>9, <2>1, OrderStays
<1>12. q.done = DOMAIN operations
  <2>1. q.done = p.done \cup {o[k] : k \in 1..n}
    BY DEF L!Position
  <2>2. {o[k] : k \in 1..n} = rest
    BY <1>8
  <2> QED BY <2>1, <2>2, <1>6
<1> QED BY <1>1, <1>11, <1>12 DEF SeenIsUnfinished

\* The key holds a value.
LEMMA ExplainedHolds ==
  ASSUME L!LinearizeConstants, NEW h \in Seq(Recorded), NEW d \in SUBSET DOMAIN h,
         NEW held, Explained(h, d, held)
  PROVE  held \in L!Value
<1>1. PICK o \in L!Orders(d) : \E f : Trace(h, o, Absent, f) /\ f[Cardinality(d)] = held
  BY DEF Explained
<1>2. PICK f : Trace(h, o, Absent, f) /\ f[Cardinality(d)] = held
  BY <1>1
<1> DEFINE n == Len(o)  T == {m \in 0..n : f[m] \notin L!Value}
<1>3. n = Cardinality(d) /\ n \in Nat /\ \A k \in 1..n : o[k] \in d
  <2>1. IsFiniteSet(d)
    BY PartOfHistory
  <2> QED BY <2>1, OrderType
<1>4. ASSUME T # {} PROVE FALSE
  <2>1. T \subseteq Nat
    BY <1>3
  <2>2. PICK m \in T : \A x \in T : m <= x
    BY <2>1, <1>4, LeastOfNaturals
  <2>3. m \in 0..n /\ f[m] \notin L!Value
    BY <2>2
  <2>4. m # 0
    <3>1. f[0] = Absent /\ Absent \in L!Value
      BY <1>2 DEF Trace, L!Value
    <3> QED BY <3>1, <2>3
  <2>5. m \in 1..n /\ m - 1 \in 0..n /\ ~(m <= m - 1)
    BY <1>3, <2>3, <2>4
  <2>6. f[m - 1] \in L!Value
    BY <2>2, <2>5
  <2>7. PICK r \in L!Apply(f[m - 1], h[o[m]].command) : f[m] = r.held
    BY <1>2, <2>5 DEF Trace
  <2>8. h[o[m]].command \in Wish
    <3>1. h[o[m]] \in Recorded
      BY <1>3, <2>5, ElementOfSeq, LenProperties
    <3> QED BY <3>1 DEF Recorded
  <2>9. r.held \in L!Value
    BY <2>6, <2>7, <2>8, OutcomeType
  <2> QED BY <2>3, <2>7, <2>9
<1>5. n \in 0..n
  BY <1>3
<1> QED BY <1>2, <1>3, <1>4, <1>5

\* What has no answer and is never refused can always be placed last.
LEMMA RestIsExplained ==
  ASSUME L!LinearizeConstants, HistoryType, ~L!MayBeRefused,
         NEW d \in SUBSET DOMAIN operations, L!Answered \subseteq d, NEW held,
         Explained(operations, d, held)
  PROVE  \E last : Explained(operations, DOMAIN operations, last)
<1>0. operations \in Seq(Recorded) /\ Stamped(operations)
  BY DEF HistoryType
<1> DEFINE all == DOMAIN operations
           good(c) == /\ c \in SUBSET all /\ L!Answered \subseteq c
                      /\ \E x : Explained(operations, c, x)
           T == {m \in Nat : \E c \in SUBSET all : good(c) /\ m = Cardinality(all \ c)}
<1>1. T \subseteq Nat /\ T # {}
  <2>1. Cardinality(all \ d) \in Nat
    BY <1>0, PartOfHistory
  <2>2. good(d)
    OBVIOUS
  <2> HIDE DEF all, good
  <2>3. Cardinality(all \ d) \in T
    BY <2>1, <2>2 DEF all
  <2> QED BY <2>3
<1>2. PICK m \in T : \A x \in T : m <= x
  BY <1>1, LeastOfNaturals
<1>3. PICK c \in SUBSET all : good(c) /\ m = Cardinality(all \ c)
  BY <1>2
<1>4. PICK x : Explained(operations, c, x)
  BY <1>3
<1>5. ASSUME c # all PROVE FALSE
  <2> DEFINE p == L!Position(c, x)
  <2>1. PICK i \in all : i \notin c
    BY <1>5
  <2>2. ~L!Complete(operations[i]) /\ operations[i].command.name # L!INCREMENT
    BY <1>3, <2>1 DEF L!Answered, L!MayBeRefused
  <2>3. operations[i].command \in Wish
    <3>1. operations[i] \in Recorded
      BY <1>0, <2>1, ElementOfSeq, LenProperties
    <3> QED BY <3>1 DEF Recorded
  <2>4. PICK r : L!Apply(x, operations[i].command) = {r}
    BY <2>3, OneOutcome
  <2>5. r.out # Refused
    <3>1. x \in L!Value
      BY <1>0, <1>4, ExplainedHolds
    <3> QED BY <3>1, <2>2, <2>3, <2>4, OutcomeType
  <2> DEFINE q == L!Position(c \cup {i}, r.held)
  <2>6. p.done = c /\ p.held = x /\ q.done = c \cup {i}
    BY DEF L!Position
  <2>7. \A j \in all \ c : ~L!Complete(operations[j])
    BY <1>3 DEF L!Answered
  <2> HIDE DEF p
  <2>8. Viable(operations, p, i, q)
    BY <2>1, <2>2, <2>4, <2>5, <2>6, <2>7 DEF Viable, Fits
  <2> HIDE DEF q
  <2>9. q.done \subseteq all /\ Explained(operations, q.done, q.held)
    BY <1>0, <1>4, <2>6, <2>8, OneMoreExplained
  <2>10. good(q.done)
    BY <1>3, <2>6, <2>9
  <2>11. Cardinality(all \ q.done) = m - 1 /\ m - 1 \in Nat
    <3>1. all \ q.done = (all \ c) \ {i} /\ i \in all \ c
      BY <2>1, <2>6
    <3>2. IsFiniteSet(all \ c) /\ Cardinality(all \ q.done) \in Nat
      BY <1>0, PartOfHistory
    <3> HIDE DEF all, good
    <3>3. Cardinality(all \ q.done) = Cardinality(all \ c) - 1
      BY <3>1, <3>2, FS_RemoveElement
    <3> QED BY <3>2, <3>3, <1>3
  <2>12. m - 1 \in T
    <3> HIDE DEF good
    <3> QED BY <2>9, <2>10, <2>11
  <2> HIDE DEF T
  <2>13. m \in Nat /\ ~(m <= m - 1)
    BY <1>1
  <2> QED BY <1>2, <2>12, <2>13
<1> QED BY <1>4, <1>5

LEMMA VerdictIsEnough ==
  ASSUME L!LinearizeConstants, HistoryInv
  PROVE  VerdictIsRight
<1>1. Verdict /\ SearchCounts /\ HistoryType /\ operations \in Seq(Recorded)
  BY DEF HistoryInv, HistoryType
<1>2. ASSUME answer = L!LINEARIZABLE PROVE L!Linearizable
  <2>1. \E held : Explained(operations, DOMAIN operations, held)
    BY <1>1, <1>2 DEF Verdict
  <2>2. \E o \in L!Orders(DOMAIN operations) : L!Explains(o)
    BY <2>1, <1>1, ExplainsIs
  <2> QED BY <2>2 DEF L!Linearizable, L!Answered
<1>3. ASSUME answer = L!NOT_LINEARIZABLE, L!Linearizable, ~L!MayBeRefused PROVE FALSE
  <2>1. PICK d \in SUBSET DOMAIN operations :
          L!Answered \subseteq d /\ \E o \in L!Orders(d) : L!Explains(o)
    BY <1>3 DEF L!Linearizable
  <2>2. PICK held : Explained(operations, d, held)
    BY <2>1, <1>1, ExplainsIs
  <2>3. \E last : Explained(operations, DOMAIN operations, last)
    BY <1>1, <1>3, <2>1, <2>2, RestIsExplained
  <2> QED BY <2>3, <1>1, <1>3 DEF Verdict
<1>4. answer = L!UNKNOWN <=> answer # None /\ answer # L!LINEARIZABLE /\ states >= budget
  <2>1. answer = L!UNKNOWN => answer # None /\ answer # L!LINEARIZABLE
    BY DEF L!LinearizeConstants, L!UNKNOWN, L!LINEARIZABLE
  <2> QED BY <2>1, <1>1 DEF Verdict
<1>5. ASSUME answer = L!NOT_LINEARIZABLE PROVE L!LongestIsLongest
  <2> DEFINE C == {Cardinality(c) : c \in {d \in SUBSET DOMAIN operations :
                                             \E o \in L!Orders(d) : L!Explains(o)}}
  <2>1. \A d \in SUBSET DOMAIN operations :
          (\E o \in L!Orders(d) : L!Explains(o)) <=> \E held : Explained(operations, d, held)
    BY <1>1, ExplainsIs
  <2>2. longest \in C
    BY <2>1, <1>1 DEF SearchCounts
  <2>3. \A x \in C : x \in Nat /\ longest >= x
    <3>1. \A d \in SUBSET DOMAIN operations :
            (\E held : Explained(operations, d, held)) =>
              Cardinality(d) \in Nat /\ Cardinality(d) <= longest
      BY <1>1, <1>5, ExplainsIs DEF Verdict
    <3> QED BY <3>1, <2>1, <1>1 DEF SearchCounts
  <2>4. L!LongestIsLongest <=> longest = Max(C)
    <3>1. \A S : L!Cardinality(S) = Cardinality(S) /\ L!Max(S) = Max(S)
      BY DEF L!Cardinality, Cardinality, L!Max, Max
    <3> QED BY <1>5, <3>1 DEF L!LongestIsLongest
  <2> HIDE DEF C
  <2>5. longest = Max(C)
    <3>1. longest \in Nat
      BY <1>1 DEF SearchCounts
    <3>2. \A x \in C : (\A y \in C : x >= y) => x = longest
      BY <2>2, <2>3, <3>1
    <3> QED BY <2>2, <2>3, <3>2 DEF Max
  <2> QED BY <2>4, <2>5
<1>6. L!LongestIsLongest
  BY <1>5 DEF L!LongestIsLongest
<1> QED BY <1>2, <1>3, <1>4, <1>6 DEF VerdictIsRight, L!VerdictIsRight

LEMMA HistoryHolds == Searching => []HistoryInv
<1>1. L!LinearizeConstants
  BY SearchesAssumption
<1>2. L!Init => HistoryInv
  BY <1>1, HistoryInit
<1>3. HistoryInv /\ [L!Next]_L!vars => HistoryInv'
  BY <1>1, HistoryNext
<1> QED BY <1>2, <1>3, HistoryMoves, PTL DEF L!Spec

\* The cache of linearize.py may be keyed by the placed operations and the state alone:
\* a position that a search within its budget has left without success cannot be
\* finished by any order of what remains, whatever order led to it.
THEOREM WhatIsLeftCannotFinish == Searching => []CacheIsSound
<1>1. HistoryInv => CacheIsSound
  BY SearchesAssumption, CacheIsEnough DEF CacheIsSound
<1> QED BY <1>1, HistoryHolds, PTL

\* A history that is called linearizable is; one that is not called so, and has no
\* increment without an answer, is not; the verdict is open only when the budget ran
\* out; and what a rejection reports as the longest prefix is the longest that any
\* order explains.
THEOREM VerdictsAreRight == Searching => []VerdictIsRight
<1>1. HistoryInv => VerdictIsRight
  BY SearchesAssumption, VerdictIsEnough
<1> QED BY <1>1, HistoryHolds, PTL

-----------------------------------------------------------------------------
(* The search of the worlds.                                               *)

\* A behaviour of the searches is one of explore.
LEMMA WorldsMove == Searching => X!Spec
<1>1. Begin => X!Init
  BY DEF Begin
<1>2. [Step]_searched => [X!Next]_X!vars
  BY DEF Step, searched, worlds, X!vars, X!arguments
<1> QED BY <1>1, <1>2, PTL DEF Searching, X!Spec

\* The function that X!Reach is taken from.
IsReach(g, n, f) ==
  f = [k \in 0..n |-> IF k = 0 THEN {Root} ELSE f[k - 1] \cup UNION {g[w] : w \in f[k - 1]}]

LEMMA ReachIsOne ==
  ASSUME NEW g, NEW m \in Nat, NEW n \in Nat, m <= n, NEW f, IsReach(g, m, f),
         NEW h, IsReach(g, n, h)
  PROVE  \A k \in 0..m : f[k] = h[k]
<1> DEFINE T == {k \in 0..m : f[k] # h[k]}
<1> SUFFICES ASSUME T # {} PROVE FALSE
  OBVIOUS
<1>1. T \subseteq Nat
  OBVIOUS
<1>2. PICK k \in T : \A x \in T : k <= x
  BY <1>1, LeastOfNaturals
<1>3. k \in 0..m /\ k \in 0..n /\ f[k] # h[k]
  BY <1>2
<1>4. /\ f[k] = IF k = 0 THEN {Root} ELSE f[k - 1] \cup UNION {g[w] : w \in f[k - 1]}
      /\ h[k] = IF k = 0 THEN {Root} ELSE h[k - 1] \cup UNION {g[w] : w \in h[k - 1]}
  BY <1>3 DEF IsReach
<1>5. k # 0
  BY <1>3, <1>4
<1>6. k - 1 \in 0..m /\ ~(k <= k - 1)
  BY <1>3, <1>5
<1>7. f[k - 1] = h[k - 1]
  BY <1>2, <1>6
<1> QED BY <1>3, <1>4, <1>5, <1>7

LEMMA ReachExists ==
  ASSUME NEW g, NEW n \in Nat
  PROVE  \E f : IsReach(g, n, f)
<1> DEFINE T == {k \in Nat : ~ \E f : IsReach(g, k, f)}
<1> SUFFICES ASSUME T # {} PROVE FALSE
  OBVIOUS
<1>1. PICK k \in T : \A x \in T : k <= x
  BY LeastOfNaturals
<1>2. k \in Nat /\ ~ \E f : IsReach(g, k, f)
  BY <1>1
<1>3. k # 0
  <2> DEFINE f == [i \in 0..0 |-> {Root}]
  <2>1. 0..0 = {0}
    OBVIOUS
  <2>2. IsReach(g, 0, f)
    BY <2>1 DEF IsReach
  <2> QED BY <2>2, <1>2
<1>4. k - 1 \in Nat /\ ~(k <= k - 1)
  BY <1>2, <1>3
<1>5. PICK f : IsReach(g, k - 1, f)
  BY <1>1, <1>4
<1> DEFINE h == [i \in 0..k |-> IF i = k THEN f[k - 1] \cup UNION {g[w] : w \in f[k - 1]} ELSE f[i]]
<1>6. \A i \in 0..k : h[i] = IF i = 0 THEN {Root} ELSE h[i - 1] \cup UNION {g[w] : w \in h[i - 1]}
  <2> SUFFICES ASSUME NEW i \in 0..k
               PROVE  h[i] = IF i = 0 THEN {Root} ELSE h[i - 1] \cup UNION {g[w] : w \in h[i - 1]}
    OBVIOUS
  <2>1. CASE i = k
    <3>1. h[i - 1] = f[k - 1] /\ i # 0
      BY <2>1, <1>2, <1>3
    <3> QED BY <3>1, <2>1
  <2>2. CASE i # k
    <3>1. i \in 0..(k - 1) /\ h[i] = f[i]
      BY <2>2, <1>2
    <3>2. f[i] = IF i = 0 THEN {Root} ELSE f[i - 1] \cup UNION {g[w] : w \in f[i - 1]}
      BY <3>1, <1>5 DEF IsReach
    <3>3. i # 0 => h[i - 1] = f[i - 1]
      BY <3>1, <1>2
    <3> QED BY <3>1, <3>2, <3>3
  <2> QED BY <2>1, <2>2
<1>7. IsReach(g, k, h)
  <2> DEFINE e == [i \in 0..k |-> IF i = 0 THEN {Root}
                                  ELSE h[i - 1] \cup UNION {g[w] : w \in h[i - 1]}]
  <2>1. h = e
    <3>1. \A i \in 0..k : h[i] = e[i]
      BY <1>6
    <3> QED BY <3>1
  <2> QED BY <2>1 DEF IsReach
<1> QED BY <1>2, <1>7

\* One move further.
LEMMA WithinUnfolds ==
  ASSUME NEW g
  PROVE  /\ X!Reach(g, 0) = {Root}
         /\ \A n \in Nat : X!Reach(g, n + 1)
                             = X!Reach(g, n) \cup UNION {g[w] : w \in X!Reach(g, n)}
<1> DEFINE R(n) == CHOOSE f : IsReach(g, n, f)
<1>1. \A n : X!Reach(g, n) = R(n)[n]
  BY DEF X!Reach, IsReach
<1>2. \A n \in Nat : IsReach(g, n, R(n))
  BY ReachExists
<1> HIDE DEF R
<1>3. X!Reach(g, 0) = {Root}
  <2>1. IsReach(g, 0, R(0)) /\ 0 \in 0..0
    BY <1>2
  <2> QED BY <2>1, <1>1 DEF IsReach
<1>4. ASSUME NEW n \in Nat
      PROVE  X!Reach(g, n + 1) = X!Reach(g, n) \cup UNION {g[w] : w \in X!Reach(g, n)}
  <2>1. IsReach(g, n, R(n)) /\ IsReach(g, n + 1, R(n + 1))
    BY <1>2
  <2>2. R(n)[n] = R(n + 1)[n]
    <3>1. n + 1 \in Nat /\ n <= n + 1 /\ n \in 0..n
      OBVIOUS
    <3> QED BY <3>1, <2>1, ReachIsOne
  <2>3. n + 1 \in 0..(n + 1) /\ n + 1 # 0 /\ (n + 1) - 1 = n
    OBVIOUS
  <2>4. R(n + 1)[n + 1] = R(n + 1)[n] \cup UNION {g[w] : w \in R(n + 1)[n]}
    BY <2>1, <2>3 DEF IsReach
  <2> QED BY <1>1, <2>2, <2>4
<1> QED BY <1>3, <1>4

\* What is reached stays reached, and is within any set that no move leads out of.
LEMMA WithinGrows ==
  ASSUME NEW g, NEW m \in Nat, NEW n \in Nat, m <= n
  PROVE  X!Reach(g, m) \subseteq X!Reach(g, n)
<1> DEFINE T == {k \in Nat : m <= k /\ ~(X!Reach(g, m) \subseteq X!Reach(g, k))}
<1> SUFFICES ASSUME T # {} PROVE FALSE
  OBVIOUS
<1>1. PICK k \in T : \A x \in T : k <= x
  BY LeastOfNaturals
<1>2. k \in Nat /\ m <= k /\ ~(X!Reach(g, m) \subseteq X!Reach(g, k))
  BY <1>1
<1>3. k # m
  BY <1>2
<1>4. k - 1 \in Nat /\ m <= k - 1 /\ ~(k <= k - 1) /\ (k - 1) + 1 = k
  BY <1>2, <1>3
<1>5. X!Reach(g, m) \subseteq X!Reach(g, k - 1)
  BY <1>1, <1>4
<1>6. X!Reach(g, k - 1) \subseteq X!Reach(g, k)
  BY <1>4, WithinUnfolds
<1> QED BY <1>2, <1>5, <1>6

LEMMA WithinClosed ==
  ASSUME NEW g, NEW S, Root \in S, \A w \in S : g[w] \subseteq S, NEW n \in Nat
  PROVE  X!Reach(g, n) \subseteq S
<1> DEFINE T == {k \in Nat : ~(X!Reach(g, k) \subseteq S)}
<1> SUFFICES ASSUME T # {} PROVE FALSE
  OBVIOUS
<1>1. PICK k \in T : \A x \in T : k <= x
  BY LeastOfNaturals
<1>2. k \in Nat /\ ~(X!Reach(g, k) \subseteq S)
  BY <1>1
<1>3. k # 0
  BY <1>2, WithinUnfolds
<1>4. k - 1 \in Nat /\ ~(k <= k - 1) /\ (k - 1) + 1 = k
  BY <1>2, <1>3
<1>5. X!Reach(g, k - 1) \subseteq S
  BY <1>1, <1>4
<1>6. X!Reach(g, k) = X!Reach(g, k - 1) \cup UNION {g[w] : w \in X!Reach(g, k - 1)}
  BY <1>4, WithinUnfolds
<1> QED BY <1>2, <1>5, <1>6

\* A move from a world that is reached.
LEMMA WithinMoves ==
  ASSUME NEW g, NEW n \in Nat, NEW w \in X!Reach(g, n)
  PROVE  g[w] \subseteq X!Reach(g, n + 1)
<1>1. X!Reach(g, n + 1) = X!Reach(g, n) \cup UNION {g[x] : x \in X!Reach(g, n)}
  BY WithinUnfolds
<1> QED BY <1>1

-----------------------------------------------------------------------------
(* The invariant: of every key that has been seen there is a world that    *)
(* has been searched, is still to be, or lies at the frontier; breadth     *)
(* first, the nearest come first, and none waits whose key could have been *)
(* met, from worlds told apart, by a shorter path.                         *)

Items == [world : World, path : Nat, untried : SUBSET World]

\* The moves of the worlds that are told apart: X!Surely is what they reach.
Sure == [w \in World |-> IF X!ToldApart(w) THEN moves[w] ELSE {}]

\* The worlds that have yet to be searched, with the paths to them.
Ahead(q, a) ==
  {<<q[i].world, q[i].path>> : i \in 1..Len(q)}
    \cup (IF a = None THEN {} ELSE {<<a.world, a.path>>})

WorldsType ==
  /\ moves \in Graphs /\ depth \in Nat /\ order \in {X!BREADTH, X!DEPTH}
  /\ queue \in Seq(Items) /\ at \in Items \cup {None}
  /\ shape[Root] \in met
  /\ frontier \in Nat

\* A key is of a world within the depth.
MetIsNear == \A key \in met : \E w \in X!Reach(moves, depth) : shape[w] = key

AheadIsNear ==
  \A p \in Ahead(queue, at) :
    /\ shape[p[1]] \in met /\ p[1] \in X!Reach(moves, p[2])
    /\ p[2] \in 0..depth

\* A move has been made and checked.
Fine(w) == shape[w] \in met /\ w \notin bad

MovesAreTried ==
  /\ \A i \in 1..Len(queue) : queue[i].untried = moves[queue[i].world]
  /\ at # None => /\ at.path < depth
                  /\ at.untried \subseteq moves[at.world]
                  /\ \A x \in moves[at.world] \ at.untried : Fine(x)

\* Nothing surely reached in fewer than n moves has the key.
NotBefore(key, n) == n >= 1 => \A w \in X!Reach(Sure, n - 1) : shape[w] # key

AtTheFrontier(key) ==
  /\ frontier > 0
  /\ order = X!BREADTH => NotBefore(key, depth)

\* The world has been searched, is to be, or was too far away.
IsDealtWith(w) ==
  \/ \E p \in Ahead(queue, at) : p[1] = w
  \/ \A x \in moves[w] : Fine(x)
  \/ AtTheFrontier(shape[w])

NoneIsLost == \A key \in met : \E w \in World : shape[w] = key /\ IsDealtWith(w)

NearestFirst ==
  /\ \A p \in Ahead(queue, at) : NotBefore(shape[p[1]], p[2])
  /\ \A i, j \in 1..Len(queue) :
       i <= j => queue[i].path <= queue[j].path /\ queue[j].path <= queue[i].path + 1
  /\ at # None => \A i \in 1..Len(queue) :
                    at.path <= queue[i].path /\ queue[i].path <= at.path + 1

StillSearching ==
  /\ WorldsType /\ MetIsNear /\ AheadIsNear /\ MovesAreTried /\ NoneIsLost
  /\ order = X!BREADTH => NearestFirst

ExploreInv ==
  /\ X!SearchIsSound
  /\ outcome = X!RUNNING => StillSearching

\* The constants, as the proofs need them.
LEMMA GraphType ==
  ASSUME X!ExploreConstants, moves \in Graphs
  PROVE  /\ \A w \in World : moves[w] \subseteq World /\ IsFiniteSet(moves[w])
         /\ World \subseteq Nat /\ Root \in World
         /\ None \notin Items
<1>1. moves \in [World -> SUBSET World] /\ \A w \in World : IsFiniteSet(moves[w])
  BY DEF X!ExploreConstants, X!IsFiniteSet, IsFiniteSet
<1> QED BY <1>1 DEF X!ExploreConstants, Items

\* What the moves of a world that is told apart lead to is fine, if that is so of another
\* of its key.
LEMMA TwinsAreFine ==
  ASSUME NEW w \in World, NEW v \in World, shape[v] = shape[w],
         \A y \in moves[v] : Fine(y)
  PROVE  \A x \in Sure[w] : Fine(x)
<1> SUFFICES ASSUME NEW x \in Sure[w] PROVE Fine(x)
  OBVIOUS
<1>1. X!ToldApart(w) /\ x \in moves[w]
  BY DEF Sure
<1>2. PICK y \in moves[v] : shape[y] = shape[x] /\ (y \in bad <=> x \in bad)
  BY <1>1 DEF X!ToldApart, X!Key
<1> QED BY <1>2 DEF Fine

\* What is surely reached is a world.
LEMMA SureIsWorld ==
  ASSUME X!ExploreConstants, moves \in Graphs, NEW n \in Nat
  PROVE  X!Reach(Sure, n) \subseteq World
<1>1. \A w \in World : Sure[w] \subseteq World
  BY GraphType DEF Sure
<1>2. Root \in World
  BY GraphType
<1> QED BY <1>1, <1>2, WithinClosed

\* What has been searched in full, breadth first.
LEMMA NearAreMet ==
  ASSUME X!ExploreConstants, StillSearching, order = X!BREADTH, NEW n \in 0..depth,
         \A p \in Ahead(queue, at) : p[2] >= n
  PROVE  \A w \in X!Reach(Sure, n) : shape[w] \in met /\ (w = Root \/ w \notin bad)
<1> DEFINE Good(w) == shape[w] \in met /\ (w = Root \/ w \notin bad)
           T == {k \in 0..n : ~ \A w \in X!Reach(Sure, k) : Good(w)}
<1>0. depth \in Nat /\ n \in Nat /\ n <= depth /\ shape[Root] \in met /\ moves \in Graphs
  BY DEF StillSearching, WorldsType
<1> SUFFICES ASSUME T # {} PROVE FALSE
  BY <1>0
<1>1. T \subseteq Nat
  OBVIOUS
<1>2. PICK k \in T : \A x \in T : k <= x
  BY <1>1, LeastOfNaturals
<1>3. k \in 0..n /\ ~ \A w \in X!Reach(Sure, k) : Good(w)
  BY <1>2
<1>4. k # 0
  <2>1. X!Reach(Sure, 0) = {Root}
    BY WithinUnfolds
  <2> QED BY <2>1, <1>3, <1>0
<1> DEFINE j == k - 1
<1>5. j \in 0..n /\ j \in Nat /\ ~(k <= j) /\ j + 1 = k /\ j < n
  BY <1>3, <1>4, <1>0
<1>6. \A w \in X!Reach(Sure, j) : Good(w)
  BY <1>2, <1>5
<1>7. X!Reach(Sure, k) = X!Reach(Sure, j) \cup UNION {Sure[w] : w \in X!Reach(Sure, j)}
  BY <1>5, WithinUnfolds
<1> HIDE DEF j
<1>8. PICK w \in X!Reach(Sure, j) : \E x \in Sure[w] : ~Fine(x)
  BY <1>3, <1>6, <1>7 DEF Fine
<1>9. shape[w] \in met /\ w \in World
  <2>1. shape[w] \in met
    BY <1>6, <1>8
  <2> QED BY <2>1, <1>0, <1>5, <1>8, SureIsWorld
<1>10. PICK r \in World : shape[r] = shape[w] /\ IsDealtWith(r)
  BY <1>9 DEF StillSearching, NoneIsLost
<1>11. ASSUME NEW i \in 0..depth, i > j, NotBefore(shape[r], i) PROVE FALSE
  <2>1. i >= 1 /\ i - 1 \in Nat /\ j <= i - 1
    BY <1>5, <1>0, <1>11
  <2>2. X!Reach(Sure, j) \subseteq X!Reach(Sure, i - 1)
    BY <2>1, <1>5, WithinGrows
  <2> QED BY <2>1, <2>2, <1>8, <1>10, <1>11 DEF NotBefore
<1>12. ASSUME NEW p \in Ahead(queue, at), p[1] = r PROVE FALSE
  <2>1. p[2] >= n /\ p[2] \in 0..depth
    BY DEF StillSearching, AheadIsNear
  <2>2. p[2] > j
    BY <2>1, <1>5, <1>0
  <2>3. NotBefore(shape[r], p[2])
    BY <1>12 DEF StillSearching, NearestFirst
  <2> QED BY <2>1, <2>2, <2>3, <1>11
<1>13. ASSUME AtTheFrontier(shape[r]) PROVE FALSE
  <2>1. depth \in 0..depth /\ depth > j
    BY <1>0, <1>5
  <2> QED BY <2>1, <1>11, <1>13 DEF AtTheFrontier
<1>14. \A x \in moves[r] : Fine(x)
  BY <1>10, <1>12, <1>13 DEF IsDealtWith
<1> QED BY <1>8, <1>9, <1>10, <1>14, TwinsAreFine

\* A queue without one of its items.
LEMMA WithoutOne ==
  ASSUME NEW S, NEW q \in Seq(S), NEW k \in 1..Len(q),
         NEW r, r = SubSeq(q, 1, k - 1) \o SubSeq(q, k + 1, Len(q))
  PROVE  /\ r \in Seq(S) /\ Len(r) = Len(q) - 1
         /\ \A i \in 1..Len(r) : r[i] = IF i < k THEN q[i] ELSE q[i + 1]
<1> DEFINE n == Len(q)  a == SubSeq(q, 1, k - 1)  b == SubSeq(q, k + 1, n)
<1>0. n \in Nat /\ k \in 1..n
  BY LenProperties
<1>1. /\ a \in Seq(S) /\ Len(a) = k - 1
      /\ \A i \in 1..(k - 1) : a[i] = q[i]
  <2>1. \A i \in 1..(k - 1) : q[i] \in S
    <3>1. \A i \in 1..(k - 1) : i \in 1..n
      BY <1>0
    <3> QED BY <3>1, ElementOfSeq
  <2>2. k - 1 \in Int /\ 1 <= k /\ k - 1 = (k - 1) - 1 + 1
    BY <1>0
  <2>3. a = [i \in 1..(k - 1) |-> q[i]]
    <3>1. a = [i \in 1..((k - 1) - 1 + 1) |-> q[i + 1 - 1]]
      OBVIOUS
    <3>2. \A i \in 1..(k - 1) : i + 1 - 1 = i
      OBVIOUS
    <3> QED BY <3>1, <3>2, <2>2
  <2>4. k - 1 \in Nat
    BY <1>0
  <2> HIDE DEF a
  <2> QED BY <2>1, <2>3, <2>4
<1>2. /\ b \in Seq(S) /\ Len(b) = n - k
      /\ \A i \in 1..(n - k) : b[i] = q[i + k]
  <2>1. \A i \in 1..(n - k) : q[i + k] \in S
    <3>1. \A i \in 1..(n - k) : i + k \in 1..n
      BY <1>0
    <3> QED BY <3>1, ElementOfSeq
  <2>2. n - (k + 1) + 1 = n - k /\ n - k \in Nat
    BY <1>0
  <2>3. b = [i \in 1..(n - k) |-> q[i + k]]
    <3>1. b = [i \in 1..(n - (k + 1) + 1) |-> q[i + (k + 1) - 1]]
      OBVIOUS
    <3>2. \A i \in 1..(n - k) : i + (k + 1) - 1 = i + k
      BY <1>0
    <3> QED BY <3>1, <3>2, <2>2
  <2> HIDE DEF b
  <2> QED BY <2>1, <2>2, <2>3
<1> HIDE DEF a, b
<1>3. r = a \o b
  BY DEF a, b
<1>4. /\ r \in Seq(S) /\ Len(r) = n - 1
      /\ \A i \in 1..(n - 1) : r[i] = IF i <= k - 1 THEN a[i] ELSE b[i - (k - 1)]
  <2>1. /\ r \in Seq(S) /\ Len(r) = Len(a) + Len(b)
        /\ \A i \in 1..(Len(a) + Len(b)) : r[i] = IF i <= Len(a) THEN a[i] ELSE b[i - Len(a)]
    <3>1. a \in Seq(S) /\ b \in Seq(S)
      BY <1>1, <1>2
    <3> QED BY <3>1, <1>3, ConcatProperties
  <2>2. Len(a) + Len(b) = n - 1 /\ Len(a) = k - 1
    BY <1>0, <1>1, <1>2
  <2> QED BY <2>1, <2>2
<1>5. ASSUME NEW i \in 1..(n - 1)
      PROVE  r[i] = IF i < k THEN q[i] ELSE q[i + 1]
  <2>1. CASE i < k
    <3>1. i \in 1..(k - 1) /\ i <= k - 1
      BY <2>1, <1>0
    <3> QED BY <3>1, <2>1, <1>1, <1>4
  <2>2. CASE ~(i < k)
    <3>1. ~(i <= k - 1) /\ i - (k - 1) \in 1..(n - k) /\ i - (k - 1) + k = i + 1
      BY <2>2, <1>0
    <3> QED BY <3>1, <2>2, <1>2, <1>4
  <2> QED BY <2>1, <2>2
<1> QED BY <1>4, <1>5

\* The worlds ahead, in terms of the queue and the world that is searched.
LEMMA AheadIs ==
  ASSUME NEW q, NEW a, NEW p
  PROVE  p \in Ahead(q, a) <=> \/ \E i \in 1..Len(q) : p = <<q[i].world, q[i].path>>
                               \/ a # None /\ p = <<a.world, a.path>>
BY DEF Ahead

\* The root is all there is to begin with.
LEMMA ExploreInit ==
  ASSUME X!ExploreConstants, X!Init
  PROVE  ExploreInv
<1>0. /\ moves \in Graphs /\ depth \in Depths /\ order \in {X!BREADTH, X!DEPTH}
      /\ queue = <<X!Item(Root, 0)>> /\ met = {shape[Root]} /\ frontier = 0 /\ at = None
      /\ outcome = X!RUNNING
  BY DEF X!Init, X!Key
<1>1. depth \in Nat /\ Root \in World /\ moves[Root] \in SUBSET World
  BY <1>0, GraphType DEF X!ExploreConstants
<1> DEFINE item == X!Item(Root, 0)
<1>2. item.world = Root /\ item.path = 0 /\ item.untried = moves[Root] /\ item \in Items
  BY <1>1 DEF X!Item, Items
<1> HIDE DEF item
<1>3. queue \in Seq(Items) /\ Len(queue) = 1 /\ queue[1] = item /\ 1..Len(queue) = {1}
  <2>1. queue = <<item>>
    BY <1>0 DEF item
  <2> QED BY <2>1, <1>2
<1>4. Ahead(queue, at) = {<<Root, 0>>}
  BY <1>0, <1>2, <1>3 DEF Ahead
<1>5. X!Reach(moves, 0) = {Root} /\ {Root} \subseteq X!Reach(moves, depth)
  <2>1. X!Reach(moves, 0) = {Root} /\ 0 <= depth
    BY <1>1, WithinUnfolds
  <2> QED BY <2>1, <1>1, WithinGrows
<1>6. WorldsType /\ MetIsNear
  BY <1>0, <1>1, <1>3, <1>5 DEF WorldsType, MetIsNear
<1>11. \A key : NotBefore(key, 0)
  BY DEF NotBefore
<1>7. AheadIsNear
  <2>1. 0 \in 0..depth
    BY <1>1
  <2> QED BY <2>1, <1>0, <1>4, <1>5 DEF AheadIsNear
<1>8. MovesAreTried /\ NoneIsLost
  <2>1. \A i \in 1..Len(queue) : queue[i] = item
    BY <1>3
  <2>2. MovesAreTried
    BY <1>0, <1>2, <2>1 DEF MovesAreTried
  <2>3. <<Root, 0>> \in Ahead(queue, at) /\ <<Root, 0>>[1] = Root
    BY <1>4
  <2> QED BY <1>0, <1>1, <2>2, <2>3 DEF NoneIsLost, IsDealtWith
<1>9. NearestFirst
  <2>1. \A i, j \in 1..Len(queue) : queue[i] = item /\ queue[j] = item /\ item.path = 0
    BY <1>2, <1>3
  <2>2. \A p \in Ahead(queue, at) : NotBefore(shape[p[1]], p[2])
    BY <1>4, <1>11
  <2>3. \A i, j \in 1..Len(queue) :
          queue[i].path <= queue[j].path /\ queue[j].path <= queue[i].path + 1
    BY <2>1
  <2> QED BY <2>2, <2>3, <1>0 DEF NearestFirst
<1>10. X!SearchIsSound
  <2>1. X!ReportIsReal
    <3>1. \A key \in met : \E w \in X!Within(depth) : X!Key(w) = key
      BY <1>6 DEF MetIsNear, X!Within, X!Key
    <3>2. met \subseteq X!Keys(X!Within(depth))
      BY <3>1 DEF X!Keys
    <3> QED BY <3>2, <1>0 DEF X!ReportIsReal, X!RUNNING, X!VIOLATION
  <2> QED BY <2>1, <1>0 DEF X!SearchIsSound, X!ExhaustedIsComplete, X!ShallowestFirst, X!RUNNING,
              X!EXHAUSTED, X!VIOLATION, X!CUT
<1> QED BY <1>6, <1>7, <1>8, <1>9, <1>10 DEF ExploreInv, StillSearching

\* A search that goes on has little to be right about yet.
LEMMA RunningSaysNothing ==
  ASSUME outcome' = X!RUNNING, MetIsNear'
  PROVE  X!SearchIsSound'
<1>1. X!ReportIsReal'
  <2>1. (X!Within(depth))' = X!Reach(moves', depth')
    BY DEF X!Within, X!Reach
  <2> DEFINE near == X!Reach(moves', depth')
  <2>2. \A key \in met' : \E w \in near : shape'[w] = key
    <3>1. (X!Reach(moves, depth))' = near
      BY DEF X!Reach
    <3> QED BY <3>1 DEF MetIsNear
  <2>3. X!Keys(X!Within(depth))' = {shape'[w] : w \in near}
    BY <2>1 DEF X!Keys, X!Key
  <2> HIDE DEF near
  <2>4. met' \subseteq X!Keys(X!Within(depth))'
    BY <2>2, <2>3
  <2> QED BY <2>4 DEF X!ReportIsReal, X!RUNNING, X!VIOLATION
<1>2. X!ExhaustedIsComplete' /\ X!ShallowestFirst'
  BY DEF X!ExhaustedIsComplete, X!ShallowestFirst, X!RUNNING, X!EXHAUSTED, X!VIOLATION, X!CUT
<1> QED BY <1>1, <1>2 DEF X!SearchIsSound

\* Taking the next world of the queue.
LEMMA PopKeeps ==
  ASSUME X!ExploreConstants, StillSearching, X!Pop
  PROVE  StillSearching' /\ outcome' = X!RUNNING
<1> DEFINE k == X!Taken  item == queue[k]  far == item.path >= depth
<1>0. /\ moves \in Graphs /\ depth \in Nat /\ order \in {X!BREADTH, X!DEPTH}
      /\ queue \in Seq(Items) /\ shape[Root] \in met /\ frontier \in Nat
  BY DEF StillSearching, WorldsType
<1>1. /\ outcome = X!RUNNING /\ at = None /\ queue # << >>
      /\ queue' = SubSeq(queue, 1, k - 1) \o SubSeq(queue, k + 1, Len(queue))
      /\ UNCHANGED <<moves, bad, shape, depth, limit, order, met, outcome>>
      /\ IF far THEN frontier' = frontier + 1 /\ at' = at
                ELSE at' = item /\ frontier' = frontier
  BY DEF X!Pop, X!arguments
<1>2. Len(queue) \in Nat /\ k \in 1..Len(queue) /\ (order = X!BREADTH => k = 1)
  <2>1. Len(queue) \in Nat /\ Len(queue) # 0
    BY <1>0, <1>1, EmptySeq, LenProperties
  <2>2. k = IF order = X!BREADTH THEN 1 ELSE Len(queue)
    BY DEF X!Taken
  <2> HIDE DEF k
  <2> QED BY <2>1, <2>2
<1> HIDE DEF k
<1>3. item \in Items
  BY <1>0, <1>2, ElementOfSeq
<1>4. /\ queue' \in Seq(Items) /\ Len(queue') = Len(queue) - 1
      /\ \A i \in 1..Len(queue') : queue'[i] = IF i < k THEN queue[i] ELSE queue[i + 1]
  BY <1>0, <1>1, <1>2, WithoutOne
<1>5. \A i \in 1..Len(queue') :
        \E j \in 1..Len(queue) : queue'[i] = queue[j] /\ j # k /\ j = IF i < k THEN i ELSE i + 1
  <2> SUFFICES ASSUME NEW i \in 1..Len(queue')
               PROVE  \E j \in 1..Len(queue) : /\ queue'[i] = queue[j] /\ j # k
                                               /\ j = IF i < k THEN i ELSE i + 1
    OBVIOUS
  <2> DEFINE j == IF i < k THEN i ELSE i + 1
  <2>1. j \in 1..Len(queue) /\ j # k
    BY <1>2, <1>4
  <2>2. queue'[i] = queue[j]
    BY <1>4
  <2> HIDE DEF j
  <2>3. j = IF i < k THEN i ELSE i + 1
    BY DEF j
  <2> QED BY <2>1, <2>2, <2>3
<1>6. \A j \in 1..Len(queue) : j = k \/ \E i \in 1..Len(queue') : queue'[i] = queue[j]
  <2> SUFFICES ASSUME NEW j \in 1..Len(queue), j # k
               PROVE  \E i \in 1..Len(queue') : queue'[i] = queue[j]
    OBVIOUS
  <2>1. CASE j < k
    <3>1. j \in 1..Len(queue')
      BY <2>1, <1>2, <1>4
    <3> QED BY <3>1, <2>1, <1>4
  <2>2. CASE j > k
    <3>1. j - 1 \in 1..Len(queue') /\ ~(j - 1 < k) /\ (j - 1) + 1 = j
      BY <2>2, <1>2, <1>4
    <3> QED BY <3>1, <1>4
  <2> QED BY <2>1, <2>2, <1>2
<1> DEFINE pair == <<item.world, item.path>>
<1>7. /\ Ahead(queue', at') \subseteq Ahead(queue, at)
      /\ Ahead(queue, at) \subseteq Ahead(queue', at') \cup {pair}
      /\ ~far => Ahead(queue, at) \subseteq Ahead(queue', at')
      /\ pair \in Ahead(queue, at)
  <2> HIDE DEF item, far
  <2>1. \A i \in 1..Len(queue') : \E j \in 1..Len(queue) : queue'[i] = queue[j]
    BY <1>5
  <2>2. at' = None \/ (at' = item /\ ~far)
    BY <1>1
  <2>3. item = queue[k]
    BY DEF item
  <2>4. ~far => at' = item /\ at' # None
    BY <1>0, <1>1, <1>3, GraphType
  <2>5. pair \in Ahead(queue, at)
    BY <1>2, <2>3 DEF Ahead
  <2>6. ASSUME NEW p \in Ahead(queue', at') PROVE p \in Ahead(queue, at)
    BY <2>1, <2>2, <2>5, <2>6, AheadIs
  <2>7. ASSUME NEW p \in Ahead(queue, at) PROVE p \in Ahead(queue', at') \/ p = pair
    <3>1. PICK j \in 1..Len(queue) : p = <<queue[j].world, queue[j].path>>
      BY <1>1, AheadIs
    <3> QED BY <3>1, <1>6, <2>3 DEF Ahead
  <2>8. ~far => pair \in Ahead(queue', at')
    BY <2>4 DEF Ahead
  <2> QED BY <2>5, <2>6, <2>7, <2>8
<1> HIDE DEF pair
<1>14. /\ \A p \in Ahead(queue', at') : p \in Ahead(queue, at)
       /\ \A p \in Ahead(queue, at) : p \in Ahead(queue', at') \/ (p = pair /\ far)
       /\ pair \in Ahead(queue, at) /\ pair[1] = item.world /\ pair[2] = item.path
  <2>1. pair[1] = item.world /\ pair[2] = item.path
    BY DEF pair
  <2> HIDE DEF item, far
  <2> QED BY <1>7, <2>1
<1>15. moves' = moves /\ depth' = depth /\ met' = met /\ order' = order /\ bad' = bad
      /\ shape' = shape
  BY <1>1
<1>8. WorldsType'
  <2>1. at' \in Items \cup {None} /\ frontier' \in Nat
    BY <1>0, <1>1, <1>3
  <2> QED BY <2>1, <1>0, <1>1, <1>4 DEF WorldsType
<1>9. MetIsNear'
  BY <1>1 DEF StillSearching, MetIsNear
<1>10. AheadIsNear'
  <2>1. \A p \in Ahead(queue, at) :
          shape[p[1]] \in met /\ p[1] \in X!Reach(moves, p[2]) /\ p[2] \in 0..depth
    BY DEF StillSearching, AheadIsNear
  <2>2. \A p \in Ahead(queue', at') :
          shape'[p[1]] \in met' /\ p[1] \in X!Reach(moves', p[2]) /\ p[2] \in 0..depth'
    BY <1>14, <1>15, <2>1
  <2> QED BY <2>2 DEF AheadIsNear
<1>16. Sure' = Sure
  BY <1>15 DEF Sure, X!ToldApart, X!Key
<1>17. /\ \A w : Fine(w)' <=> Fine(w)
       /\ \A key, n : NotBefore(key, n)' <=> NotBefore(key, n)
  BY <1>15, <1>16 DEF Fine, NotBefore
<1>11. MovesAreTried'
  <2>1. \A i \in 1..Len(queue') : queue'[i].untried = moves'[queue'[i].world]
    BY <1>1, <1>5 DEF StillSearching, MovesAreTried
  <2>2. at' # None => at' = item /\ ~far
    BY <1>1
  <2>3. ~far => item.path < depth
    BY <1>3, <1>0 DEF Items
  <2>4. item.untried = moves[item.world]
    BY <1>2 DEF StillSearching, MovesAreTried
  <2> HIDE DEF item, far
  <2> QED BY <1>1, <1>17, <2>1, <2>2, <2>3, <2>4 DEF MovesAreTried
<1>12. NoneIsLost'
  <2>1. frontier' >= frontier /\ (far => frontier' > 0)
    BY <1>0, <1>1
  <2>2. ASSUME NEW key, AtTheFrontier(key) PROVE AtTheFrontier(key)'
    <3>1. frontier' > 0
      <4>1. frontier > 0
        BY <2>2 DEF AtTheFrontier
      <4>2. frontier' \in Nat
        BY <1>8 DEF WorldsType
      <4> HIDE DEF far
      <4> QED BY <4>1, <4>2, <2>1, <1>0
    <3> QED BY <3>1, <2>2, <1>15, <1>17 DEF AtTheFrontier
  <2>3. ASSUME NEW w, far, w = item.world PROVE AtTheFrontier(shape[w])'
    <3>1. pair[1] = w /\ pair[2] = item.path /\ pair \in Ahead(queue, at)
      BY <2>3, <1>14
    <3>2. item.path = depth
      <4>1. pair[2] \in 0..depth
        BY <3>1 DEF StillSearching, AheadIsNear
      <4> HIDE DEF item
      <4> QED BY <2>3, <3>1, <1>0, <4>1
    <3>3. order = X!BREADTH => NotBefore(shape[w], depth)
      <4> HIDE DEF item
      <4> QED BY <3>1, <3>2 DEF StillSearching, NearestFirst
    <3> QED BY <2>1, <2>3, <3>3, <1>15, <1>17 DEF AtTheFrontier
  <2>4. ASSUME NEW w, IsDealtWith(w) PROVE IsDealtWith(w)'
    <3>1. CASE \E p \in Ahead(queue, at) : p[1] = w
      <4>1. PICK p \in Ahead(queue, at) : p[1] = w
        BY <3>1
      <4>2. CASE p \in Ahead(queue', at')
        BY <4>1, <4>2 DEF IsDealtWith
      <4>3. CASE p \notin Ahead(queue', at')
        <5>1. p = pair /\ far
          BY <4>3, <1>14
        <5>2. w = item.world
          BY <4>1, <5>1, <1>14
        <5>3. AtTheFrontier(shape[w])'
          BY <5>1, <5>2, <2>3
        <5> QED BY <5>3 DEF IsDealtWith
      <4> QED BY <4>2, <4>3
    <3>2. CASE \A x \in moves[w] : Fine(x)
      BY <3>2, <1>15, <1>17 DEF IsDealtWith
    <3>3. CASE AtTheFrontier(shape[w])
      <4>1. AtTheFrontier(shape[w])'
        BY <3>3, <2>2, <1>15
      <4> QED BY <4>1 DEF IsDealtWith
    <3> QED BY <3>1, <3>2, <3>3, <2>4 DEF IsDealtWith
  <2> QED BY <1>15, <2>4 DEF StillSearching, NoneIsLost
<1>13. ASSUME order = X!BREADTH PROVE NearestFirst'
  <2>0. NearestFirst /\ k = 1
    BY <1>2, <1>13 DEF StillSearching
  <2>1. \A p \in Ahead(queue', at') : NotBefore(shape[p[1]], p[2])'
    BY <1>14, <1>15, <1>17, <2>0 DEF NearestFirst
  <2>2. \A i \in 1..Len(queue') : i + 1 \in 1..Len(queue) /\ queue'[i] = queue[i + 1]
    BY <1>2, <1>4, <2>0
  <2>3. \A i, j \in 1..Len(queue') :
          i <= j => queue'[i].path <= queue'[j].path /\ queue'[j].path <= queue'[i].path + 1
    <3> SUFFICES ASSUME NEW i \in 1..Len(queue'), NEW j \in 1..Len(queue'), i <= j
                 PROVE  queue'[i].path <= queue'[j].path /\ queue'[j].path <= queue'[i].path + 1
      OBVIOUS
    <3>1. i + 1 <= j + 1
      OBVIOUS
    <3> QED BY <3>1, <2>0, <2>2 DEF NearestFirst
  <2>4. at' # None => \A i \in 1..Len(queue') :
                        at'.path <= queue'[i].path /\ queue'[i].path <= at'.path + 1
    <3> SUFFICES ASSUME at' # None, NEW i \in 1..Len(queue')
                 PROVE  at'.path <= queue'[i].path /\ queue'[i].path <= at'.path + 1
      OBVIOUS
    <3>1. at' = queue[1] /\ 1 \in 1..Len(queue) /\ 1 <= i + 1
      BY <1>1, <1>2, <2>0
    <3> QED BY <3>1, <2>0, <2>2 DEF NearestFirst
  <2> QED BY <2>1, <2>3, <2>4 DEF NearestFirst
<1> QED BY <1>1, <1>8, <1>9, <1>10, <1>11, <1>12, <1>13 DEF StillSearching

\* Having tried all moves of a world.
LEMMA LeaveKeeps ==
  ASSUME X!ExploreConstants, StillSearching, X!Leave
  PROVE  StillSearching' /\ outcome' = X!RUNNING
<1> DEFINE pair == <<at.world, at.path>>
<1>0. /\ outcome = X!RUNNING /\ at # None /\ at.untried = {} /\ at' = None
      /\ moves' = moves /\ bad' = bad /\ shape' = shape /\ depth' = depth /\ order' = order /\ queue' = queue
      /\ met' = met /\ frontier' = frontier /\ outcome' = outcome
  BY DEF X!Leave, X!arguments
<1>1. at.path \in Nat
  <2>1. at \in Items
    BY <1>0 DEF StillSearching, WorldsType
  <2> QED BY <2>1 DEF Items
<1>2. /\ \A p \in Ahead(queue', at') : p \in Ahead(queue, at)
      /\ \A p \in Ahead(queue, at) : p \in Ahead(queue', at') \/ p = pair
      /\ pair[1] = at.world
  BY <1>0, AheadIs
<1> HIDE DEF pair
<1>7. Sure' = Sure
  BY <1>0 DEF Sure, X!ToldApart, X!Key
<1>8. /\ \A w : Fine(w)' <=> Fine(w)
      /\ \A key, n : NotBefore(key, n)' <=> NotBefore(key, n)
      /\ \A key : AtTheFrontier(key)' <=> AtTheFrontier(key)
  BY <1>0, <1>7 DEF Fine, NotBefore, AtTheFrontier
<1>3. WorldsType' /\ MetIsNear' /\ MovesAreTried'
  BY <1>0, <1>8 DEF StillSearching, WorldsType, MetIsNear, MovesAreTried
<1>4. AheadIsNear'
  <2>1. \A p \in Ahead(queue, at) :
          shape[p[1]] \in met /\ p[1] \in X!Reach(moves, p[2]) /\ p[2] \in 0..depth
    BY DEF StillSearching, AheadIsNear
  <2>2. \A p \in Ahead(queue', at') :
          shape'[p[1]] \in met' /\ p[1] \in X!Reach(moves', p[2]) /\ p[2] \in 0..depth'
    BY <1>0, <1>2, <2>1
  <2> QED BY <2>2 DEF AheadIsNear
<1>5. NoneIsLost'
  <2>1. \A x \in moves[at.world] : Fine(x)
    BY <1>0 DEF StillSearching, MovesAreTried
  <2>2. ASSUME NEW w, IsDealtWith(w) PROVE IsDealtWith(w)'
    <3>1. CASE \E p \in Ahead(queue, at) : p[1] = w
      <4>1. PICK p \in Ahead(queue, at) : p[1] = w
        BY <3>1
      <4>2. CASE p \in Ahead(queue', at')
        BY <4>1, <4>2 DEF IsDealtWith
      <4>3. CASE p = pair
        BY <4>1, <4>3, <2>1, <1>0, <1>2, <1>8 DEF IsDealtWith
      <4> QED BY <4>1, <4>2, <4>3, <1>2
    <3> QED BY <3>1, <2>2, <1>0, <1>8 DEF IsDealtWith
  <2> QED BY <1>0, <2>2 DEF StillSearching, NoneIsLost
<1>6. ASSUME order = X!BREADTH PROVE NearestFirst'
  <2>0. NearestFirst
    BY <1>6 DEF StillSearching
  <2>1. \A p \in Ahead(queue', at') : NotBefore(shape[p[1]], p[2])'
    BY <1>0, <1>2, <1>8, <2>0 DEF NearestFirst
  <2> QED BY <2>0, <2>1, <1>0 DEF NearestFirst
<1> QED BY <1>0, <1>3, <1>4, <1>5, <1>6 DEF StillSearching

\* The keys of what is near, in the next state.
LEMMA KeysOfNear ==
  ASSUME moves' = moves, shape' = shape, depth' = depth,
         \A key \in met' : \E w \in X!Reach(moves, depth) : shape[w] = key
  PROVE  (met \subseteq X!Keys(X!Within(depth)))'
<1>1. (X!Within(depth))' = X!Reach(moves, depth)
  <2>1. (X!Within(depth))' = X!Reach(moves', depth')
    BY DEF X!Within, X!Reach
  <2> QED BY <2>1
<1>2. (X!Keys(X!Within(depth)))' = {shape[w] : w \in X!Reach(moves, depth)}
  BY <1>1 DEF X!Keys, X!Key
<1> QED BY <1>2

\* The next of the moves that are left.
LEMMA LeastUntried ==
  ASSUME X!ExploreConstants, StillSearching, at # None, at.untried # {}
  PROVE  X!Min(at.untried) \in at.untried
<1>1. moves \in Graphs /\ at \in Items /\ at.untried \subseteq moves[at.world]
  BY DEF StillSearching, WorldsType, MovesAreTried
<1>2. at.world \in World
  BY <1>1 DEF Items
<1>3. moves[at.world] \subseteq World /\ IsFiniteSet(moves[at.world]) /\ World \subseteq Nat
  BY <1>1, <1>2, GraphType
<1>4. IsFiniteSet(at.untried)
  <2>1. at.untried \in SUBSET moves[at.world]
    BY <1>1
  <2> QED BY <2>1, <1>3, FS_Subset
<1>5. at.untried \subseteq Int
  <2>1. at.untried \subseteq Nat
    BY <1>1, <1>3
  <2> QED BY <2>1
<1>6. Min(at.untried) \in at.untried
  BY <1>4, <1>5, MinOfFinite
<1> QED BY <1>6 DEF X!Min, Min

\* Breadth first, nothing that waits is nearer than the world that is searched.
LEMMA NothingIsNearer ==
  ASSUME StillSearching, order = X!BREADTH, at # None
  PROVE  \A p \in Ahead(queue, at) : p[2] >= at.path
<1> SUFFICES ASSUME NEW p \in Ahead(queue, at) PROVE p[2] >= at.path
  OBVIOUS
<1>1. at.path \in Nat
  BY DEF StillSearching, WorldsType, Items
<1>2. CASE p = <<at.world, at.path>>
  BY <1>1, <1>2
<1>3. CASE \E i \in 1..Len(queue) : p = <<queue[i].world, queue[i].path>>
  <2>1. PICK i \in 1..Len(queue) : p = <<queue[i].world, queue[i].path>>
    BY <1>3
  <2>2. at.path <= queue[i].path /\ p[2] = queue[i].path
    BY <2>1 DEF StillSearching, NearestFirst
  <2>3. queue[i].path \in Nat
    <3>1. queue[i] \in Items
      BY ElementOfSeq DEF StillSearching, WorldsType
    <3> QED BY <3>1 DEF Items
  <2> QED BY <2>2, <2>3, <1>1
<1> QED BY <1>2, <1>3, AheadIs

\* A move to a world whose key has been seen, or to one that now waits to be searched.
LEMMA MoveKeeps ==
  ASSUME X!ExploreConstants, StillSearching, X!Move, outcome' = X!RUNNING
  PROVE  StillSearching'
<1> DEFINE made == X!Min(at.untried)  item == X!Item(made, at.path + 1)
           pair == <<made, at.path + 1>>
<1>0. /\ outcome = X!RUNNING /\ at # None /\ at.untried # {}
      /\ at' = [at EXCEPT !.untried = @ \ {made}]
      /\ moves' = moves /\ bad' = bad /\ shape' = shape /\ depth' = depth /\ order' = order
  BY DEF X!Move, X!arguments
<1>1. /\ made \notin bad /\ met' = met \cup {shape[made]} /\ frontier' = frontier
      /\ IF shape[made] \in met THEN queue' = queue ELSE queue' = Append(queue, item)
  <2>1. X!RUNNING # X!VIOLATION /\ X!RUNNING # X!CUT
    BY DEF X!RUNNING, X!VIOLATION, X!CUT
  <2> QED BY <2>1 DEF X!Move, X!Key
<1>2. /\ moves \in Graphs /\ depth \in Nat /\ order \in {X!BREADTH, X!DEPTH}
      /\ queue \in Seq(Items) /\ shape[Root] \in met /\ frontier \in Nat
      /\ at \in Items
  BY <1>0 DEF StillSearching, WorldsType
<1>3. at.world \in World /\ at.path \in Nat /\ at.path < depth /\ at.untried \subseteq moves[at.world]
  BY <1>0, <1>2 DEF StillSearching, MovesAreTried, Items
<1>4. made \in at.untried
  BY <1>0, LeastUntried
<1>5. made \in World /\ made \in moves[at.world] /\ moves[made] \subseteq World
  BY <1>2, <1>3, <1>4, GraphType
<1>6. item \in Items /\ item.world = made /\ item.path = at.path + 1 /\ item.untried = moves[made]
  <2>1. at.path + 1 \in Nat
    BY <1>3
  <2> HIDE DEF made
  <2> QED BY <2>1, <1>5 DEF X!Item, Items
<1> HIDE DEF made, item
<1>7. /\ at' \in Items /\ at' # None /\ at'.world = at.world /\ at'.path = at.path
      /\ at'.untried = at.untried \ {made}
  <2>1. /\ at' \in Items /\ at'.world = at.world /\ at'.path = at.path
        /\ at'.untried = at.untried \ {made}
    BY <1>0, <1>2 DEF Items
  <2> QED BY <2>1, <1>2, GraphType
<1> DEFINE new == shape[made] \notin met
<1> HIDE DEF new
<1>8. /\ queue' \in Seq(Items) /\ Len(queue) \in Nat
      /\ Len(queue') = IF new THEN Len(queue) + 1 ELSE Len(queue)
      /\ \A i \in 1..Len(queue) : queue'[i] = queue[i]
      /\ new => queue'[Len(queue) + 1] = item
  <2>1. Len(queue) \in Nat
    BY <1>2, LenProperties
  <2>2. CASE ~new
    BY <1>1, <1>2, <2>1, <2>2 DEF new
  <2>3. CASE new
    BY <1>1, <1>2, <1>6, <2>1, <2>3, AppendProperties DEF new
  <2> QED BY <2>2, <2>3
<1>9. /\ \A p \in Ahead(queue', at') : p \in Ahead(queue, at) \/ (p = pair /\ new)
      /\ \A p \in Ahead(queue, at) : p \in Ahead(queue', at')
      /\ new => pair \in Ahead(queue', at')
      /\ pair[1] = made /\ pair[2] = at.path + 1
  <2>1. pair[1] = made /\ pair[2] = at.path + 1
    OBVIOUS
  <2>2. \A i \in 1..Len(queue') : i \in 1..Len(queue) \/ (i = Len(queue) + 1 /\ new)
    BY <1>8
  <2>3. \A i \in 1..Len(queue) : i \in 1..Len(queue')
    BY <1>8
  <2>4. new => Len(queue) + 1 \in 1..Len(queue')
    BY <1>8
  <2>5. pair = <<item.world, item.path>>
    BY <1>6
  <2> HIDE DEF pair
  <2>6. ASSUME NEW p \in Ahead(queue', at')
        PROVE  p \in Ahead(queue, at) \/ (p = pair /\ new)
    <3>1. CASE p = <<at'.world, at'.path>>
      BY <3>1, <1>0, <1>7, AheadIs
    <3>2. CASE \E i \in 1..Len(queue') : p = <<queue'[i].world, queue'[i].path>>
      <4>1. PICK i \in 1..Len(queue') : p = <<queue'[i].world, queue'[i].path>>
        BY <3>2
      <4>2. CASE i \in 1..Len(queue)
        <5>1. p = <<queue[i].world, queue[i].path>>
          BY <4>1, <4>2, <1>8
        <5> QED BY <5>1, <4>2, AheadIs
      <4>3. CASE i = Len(queue) + 1 /\ new
        BY <4>1, <4>3, <1>8, <2>5
      <4> QED BY <4>2, <4>3, <2>2
    <3> QED BY <3>1, <3>2, <2>6, AheadIs
  <2>7. ASSUME NEW p \in Ahead(queue, at) PROVE p \in Ahead(queue', at')
    <3>1. CASE p = <<at.world, at.path>>
      BY <3>1, <1>0, <1>7, AheadIs
    <3>2. CASE \E i \in 1..Len(queue) : p = <<queue[i].world, queue[i].path>>
      <4>1. PICK i \in 1..Len(queue) : p = <<queue[i].world, queue[i].path>>
        BY <3>2
      <4>2. p = <<queue'[i].world, queue'[i].path>> /\ i \in 1..Len(queue')
        BY <4>1, <1>8, <2>3
      <4> QED BY <4>2, AheadIs
    <3> QED BY <3>1, <3>2, <2>7, AheadIs
  <2>8. ASSUME new PROVE pair \in Ahead(queue', at')
    <3>1. pair = <<queue'[Len(queue) + 1].world, queue'[Len(queue) + 1].path>>
      BY <2>5, <2>8, <1>8
    <3> QED BY <3>1, <2>4, <2>8, AheadIs
  <2> QED BY <2>1, <2>6, <2>7, <2>8
<1> HIDE DEF pair
<1>10. <<at.world, at.path>> \in Ahead(queue, at)
  BY <1>0, AheadIs
<1>11. made \in X!Reach(moves, at.path + 1)
  <2>1. at.world \in X!Reach(moves, at.path)
    BY <1>10 DEF StillSearching, AheadIsNear
  <2> QED BY <2>1, <1>3, <1>5, WithinMoves
<1>12. WorldsType'
  BY <1>0, <1>1, <1>2, <1>7, <1>8 DEF WorldsType
<1>18. Sure' = Sure
  BY <1>0 DEF Sure, X!ToldApart, X!Key
<1>19. /\ \A w : Fine(w) => Fine(w)'
       /\ \A key, n : NotBefore(key, n)' <=> NotBefore(key, n)
       /\ \A key : AtTheFrontier(key) => AtTheFrontier(key)'
       /\ \A w : w = made => Fine(w)'
  <2>1. \A w : w = made => Fine(w)'
    BY <1>0, <1>1 DEF Fine
  <2> QED BY <2>1, <1>0, <1>1, <1>18 DEF Fine, NotBefore, AtTheFrontier
<1>13. MetIsNear'
  <2>1. made \in X!Reach(moves, depth)
    <3>1. at.path + 1 <= depth /\ at.path + 1 \in Nat
      BY <1>2, <1>3
    <3> QED BY <3>1, <1>2, <1>11, WithinGrows
  <2>2. \A key \in met' : \E w \in X!Reach(moves, depth) : shape[w] = key
    BY <2>1, <1>1 DEF StillSearching, MetIsNear
  <2> QED BY <2>2, <1>0 DEF MetIsNear
<1>14. AheadIsNear'
  <2>1. \A p \in Ahead(queue, at) :
          shape[p[1]] \in met /\ p[1] \in X!Reach(moves, p[2]) /\ p[2] \in 0..depth
    BY DEF StillSearching, AheadIsNear
  <2>2. at.path + 1 \in 0..depth
    BY <1>2, <1>3
  <2>3. \A p \in Ahead(queue', at') :
          shape'[p[1]] \in met' /\ p[1] \in X!Reach(moves', p[2]) /\ p[2] \in 0..depth'
    BY <1>0, <1>1, <1>9, <1>11, <2>1, <2>2
  <2> QED BY <2>3 DEF AheadIsNear
<1>15. MovesAreTried'
  <2>1. \A i \in 1..Len(queue') : queue'[i].untried = moves[queue'[i].world]
    <3> SUFFICES ASSUME NEW i \in 1..Len(queue')
                 PROVE  queue'[i].untried = moves[queue'[i].world]
      OBVIOUS
    <3>1. CASE i \in 1..Len(queue)
      BY <3>1, <1>8 DEF StillSearching, MovesAreTried
    <3>2. CASE i \notin 1..Len(queue)
      <4>1. i = Len(queue) + 1 /\ new
        BY <3>2, <1>8
      <4> QED BY <4>1, <1>6, <1>8
    <3> QED BY <3>1, <3>2
  <2>2. at'.path < depth /\ at'.untried \subseteq moves[at'.world]
    BY <1>3, <1>7
  <2>3. \A x \in moves[at'.world] \ at'.untried : Fine(x)'
    <3> SUFFICES ASSUME NEW x \in moves[at'.world] \ at'.untried PROVE Fine(x)'
      OBVIOUS
    <3>1. x = made \/ x \in moves[at.world] \ at.untried
      BY <1>7
    <3>2. x \in moves[at.world] \ at.untried => Fine(x)
      BY <1>0 DEF StillSearching, MovesAreTried
    <3> QED BY <3>1, <3>2, <1>19
  <2> QED BY <2>1, <2>2, <2>3, <1>0 DEF MovesAreTried
<1>16. NoneIsLost'
  <2>1. ASSUME NEW w, IsDealtWith(w) PROVE IsDealtWith(w)'
    BY <2>1, <1>0, <1>9, <1>19 DEF IsDealtWith
  <2>2. ASSUME NEW w, w = made, new PROVE IsDealtWith(w)'
    BY <2>2, <1>9 DEF IsDealtWith
  <2>3. \A key \in met' : key \in met \/ (key = shape[made] /\ new)
    BY <1>1 DEF new
  <2> QED BY <2>1, <2>2, <2>3, <1>0, <1>5 DEF StillSearching, NoneIsLost
<1>17. ASSUME order = X!BREADTH PROVE NearestFirst'
  <2>0. NearestFirst
    BY <1>17 DEF StillSearching
  <2>1. \A p \in Ahead(queue, at) : p[2] >= at.path
    BY <1>0, <1>17, NothingIsNearer
  <2>2. \A w \in X!Reach(Sure, at.path) : shape[w] \in met
    <3>1. at.path \in 0..depth
      BY <1>2, <1>3
    <3> QED BY <3>1, <2>1, <1>17, NearAreMet
  <2>3. new => NotBefore(shape[made], at.path + 1)
    <3>1. (at.path + 1) - 1 = at.path
      BY <1>3
    <3> QED BY <2>2, <3>1 DEF NotBefore, new
  <2>4. \A p \in Ahead(queue', at') : NotBefore(shape[p[1]], p[2])'
    <3> SUFFICES ASSUME NEW p \in Ahead(queue', at')
                 PROVE  NotBefore(shape[p[1]], p[2])
      BY <1>0, <1>19
    <3>1. CASE p \in Ahead(queue, at)
      BY <3>1, <2>0 DEF NearestFirst
    <3>2. CASE p = pair /\ new
      BY <3>2, <1>9, <2>3
    <3> QED BY <3>1, <3>2, <1>9
  <2>5. \A i \in 1..Len(queue) : /\ queue[i].path \in Nat /\ at.path <= queue[i].path
                                 /\ queue[i].path <= at.path + 1
    <3> SUFFICES ASSUME NEW i \in 1..Len(queue)
                 PROVE  /\ queue[i].path \in Nat /\ at.path <= queue[i].path
                        /\ queue[i].path <= at.path + 1
      OBVIOUS
    <3>1. queue[i] \in Items
      BY <1>2, ElementOfSeq
    <3> QED BY <3>1, <1>0, <2>0 DEF NearestFirst, Items
  <2>6. \A i \in 1..Len(queue') :
          \/ i \in 1..Len(queue) /\ queue'[i] = queue[i]
          \/ i = Len(queue) + 1 /\ queue'[i].path = at.path + 1
    BY <1>6, <1>8
  <2>7. ASSUME NEW i \in 1..Len(queue'), NEW j \in 1..Len(queue'), i <= j
        PROVE  queue'[i].path <= queue'[j].path /\ queue'[j].path <= queue'[i].path + 1
    <3>1. CASE i \in 1..Len(queue) /\ j \in 1..Len(queue)
      BY <3>1, <2>0, <2>7, <1>8 DEF NearestFirst
    <3>2. CASE i \in 1..Len(queue) /\ j = Len(queue) + 1
      <4>1. queue'[i] = queue[i] /\ queue'[j].path = at.path + 1
        BY <3>2, <2>6, <1>8
      <4>2. queue[i].path \in Nat /\ at.path <= queue[i].path /\ queue[i].path <= at.path + 1
        BY <3>2, <2>5
      <4> QED BY <4>1, <4>2, <1>3
    <3>3. CASE i = Len(queue) + 1
      <4>1. j = i /\ queue'[i].path = at.path + 1
        BY <3>3, <2>6, <2>7, <1>8
      <4> QED BY <4>1, <1>3
    <3> QED BY <3>1, <3>2, <3>3, <2>6
  <2>8. \A i \in 1..Len(queue') : at'.path <= queue'[i].path /\ queue'[i].path <= at'.path + 1
    <3> SUFFICES ASSUME NEW i \in 1..Len(queue')
                 PROVE  at.path <= queue'[i].path /\ queue'[i].path <= at.path + 1
      BY <1>7
    <3> QED BY <2>5, <2>6, <1>3
  <2> QED BY <2>4, <2>7, <2>8 DEF NearestFirst
<1> QED BY <1>0, <1>12, <1>13, <1>14, <1>15, <1>16, <1>17 DEF StillSearching

\* A move that ends the search: to a bad world, or to one world too many.
LEMMA MoveEnds ==
  ASSUME X!ExploreConstants, StillSearching, X!Move, outcome' # X!RUNNING
  PROVE  X!SearchIsSound'
<1> DEFINE made == X!Min(at.untried)
<1>0. /\ outcome = X!RUNNING /\ at # None /\ at.untried # {}
      /\ moves' = moves /\ bad' = bad /\ shape' = shape /\ depth' = depth /\ order' = order
      /\ at' = [at EXCEPT !.untried = @ \ {made}]
      /\ IF made \in bad
         THEN outcome' = X!VIOLATION /\ length' = at.path + 1 /\ met' = met
         ELSE /\ met' = met \cup {shape[made]}
              /\ outcome' \in {outcome, X!CUT}
  BY DEF X!Move, X!arguments, X!Key
<1>1. made \in at.untried
  BY <1>0, LeastUntried
<1> HIDE DEF made
<1>2. /\ at \in Items /\ at.path \in Nat /\ at.path < depth /\ depth \in Nat
      /\ at.untried \subseteq moves[at.world] /\ at'.path = at.path
  <2>1. at \in Items /\ at.path < depth /\ depth \in Nat /\ at.untried \subseteq moves[at.world]
    BY <1>0 DEF StillSearching, WorldsType, MovesAreTried
  <2> QED BY <2>1, <1>0 DEF Items
<1>3. /\ outcome' # X!EXHAUSTED
      /\ outcome' = X!VIOLATION => length' = at.path + 1 /\ made \in bad
  BY <1>0 DEF X!RUNNING, X!VIOLATION, X!CUT, X!EXHAUSTED
<1>4. made \in X!Reach(moves, at.path + 1) /\ made \in X!Reach(moves, depth)
  <2>1. <<at.world, at.path>> \in Ahead(queue, at)
    BY <1>0, AheadIs
  <2>2. at.world \in X!Reach(moves, at.path)
    BY <2>1 DEF StillSearching, AheadIsNear
  <2>3. made \in X!Reach(moves, at.path + 1)
    BY <2>2, <1>1, <1>2, WithinMoves
  <2>4. at.path + 1 <= depth /\ at.path + 1 \in Nat
    BY <1>2
  <2> QED BY <2>3, <2>4, <1>2, WithinGrows
<1>5. Sure' = Sure
  BY <1>0 DEF Sure, X!ToldApart, X!Key
<1>6. ASSUME order = X!BREADTH
      PROVE  X!Reach(Sure, at.path) \cap (bad \ {Root}) = {}
  <2>1. \A p \in Ahead(queue, at) : p[2] >= at.path
    BY <1>0, <1>6, NothingIsNearer
  <2>2. at.path \in 0..depth
    BY <1>2
  <2> QED BY <2>1, <2>2, <1>6, NearAreMet
<1>7. X!ReportIsReal'
  <2>1. ASSUME outcome' = X!VIOLATION PROVE (X!Within(length) \cap bad)' # {}
    <3>1. (X!Within(length))' = X!Reach(moves', length')
      BY DEF X!Within, X!Reach
    <3> QED BY <3>1, <2>1, <1>0, <1>3, <1>4
  <2>2. \A key \in met' : \E w \in X!Reach(moves, depth) : shape[w] = key
    BY <1>0, <1>4 DEF StillSearching, MetIsNear
  <2>3. (met \subseteq X!Keys(X!Within(depth)))'
    BY <1>0, <2>2, KeysOfNear
  <2> QED BY <2>1, <2>3 DEF X!ReportIsReal
<1>8. X!ShallowestFirst'
  <2>1. ASSUME order' = X!BREADTH, outcome' = X!VIOLATION
        PROVE  (X!Surely(length - 1) \cap (bad \ {Root}))' = {}
    <3>1. length' - 1 = at.path
      BY <1>2, <1>3, <2>1
    <3>2. (X!Surely(length - 1))' = X!Reach(Sure', length' - 1)
      BY DEF X!Surely, X!Reach, Sure
    <3> QED BY <1>0, <1>5, <1>6, <2>1, <3>1, <3>2
  <2>2. ASSUME order' = X!BREADTH, outcome' = X!CUT
        PROVE  (X!Surely(at.path) \cap (bad \ {Root}))' = {}
    <3>1. (X!Surely(at.path))' = X!Reach(Sure', at'.path)
      BY DEF X!Surely, X!Reach, Sure
    <3> QED BY <1>0, <1>2, <1>5, <1>6, <2>2, <3>1
  <2> QED BY <2>1, <2>2 DEF X!ShallowestFirst
<1>9. X!ExhaustedIsComplete'
  BY <1>3 DEF X!ExhaustedIsComplete
<1> QED BY <1>7, <1>8, <1>9 DEF X!SearchIsSound

\* With nothing left to search, all has been seen that worlds told apart lead to.
LEMMA FinishEnds ==
  ASSUME X!ExploreConstants, StillSearching, X!Finish
  PROVE  X!SearchIsSound' /\ outcome' # X!RUNNING
<1>0. /\ at = None /\ queue = << >> /\ outcome' = X!EXHAUSTED
      /\ moves' = moves /\ bad' = bad /\ shape' = shape /\ order' = order /\ at' = at
      /\ met' = met /\ depth' = depth /\ frontier' = frontier
  BY DEF X!Finish, X!arguments
<1>1. outcome' # X!RUNNING /\ outcome' # X!VIOLATION /\ outcome' # X!CUT
  BY <1>0 DEF X!RUNNING, X!VIOLATION, X!CUT, X!EXHAUSTED
<1>2. /\ depth \in Nat /\ frontier \in Nat /\ order \in {X!BREADTH, X!DEPTH}
      /\ shape[Root] \in met /\ moves \in Graphs
  BY DEF StillSearching, WorldsType
<1>3. Ahead(queue, at) = {}
  <2>1. Len(queue) = 0 /\ 1..0 = {}
    BY <1>0
  <2> QED BY <1>0, <2>1 DEF Ahead
<1>4. ASSUME order = X!BREADTH \/ frontier = 0
      PROVE  \A w \in X!Reach(Sure, depth) : shape[w] \in met /\ (w = Root \/ w \notin bad)
  <2>1. CASE order = X!BREADTH
    <3>1. depth \in 0..depth
      BY <1>2
    <3> QED BY <3>1, <2>1, <1>3, NearAreMet
  <2>2. CASE frontier = 0
    <3> DEFINE S == {w \in World : shape[w] \in met /\ (w = Root \/ w \notin bad)}
    <3>1. \A w \in S : Sure[w] \subseteq S
      <4> SUFFICES ASSUME NEW w \in S, NEW x \in Sure[w] PROVE x \in S
        OBVIOUS
      <4>1. PICK r \in World : shape[r] = shape[w] /\ IsDealtWith(r)
        BY DEF StillSearching, NoneIsLost
      <4>2. ~(frontier > 0)
        BY <2>2
      <4>3. \A y \in moves[r] : Fine(y)
        BY <4>1, <4>2, <1>3 DEF IsDealtWith, AtTheFrontier
      <4>4. Fine(x)
        BY <4>1, <4>3, TwinsAreFine
      <4>5. x \in World
        BY <1>2, GraphType DEF Sure
      <4> QED BY <4>4, <4>5 DEF Fine
    <3>2. Root \in S
      BY <1>2, GraphType
    <3> HIDE DEF S
    <3>3. X!Reach(Sure, depth) \subseteq S
      BY <3>1, <3>2, <1>2, WithinClosed
    <3> QED BY <3>3 DEF S
  <2> QED BY <2>1, <2>2, <1>4
<1>5. Sure' = Sure
  BY <1>0 DEF Sure, X!ToldApart, X!Key
<1>6. X!ExhaustedIsComplete'
  <2>1. (X!Surely(depth))' = X!Reach(Sure, depth)
    <3>1. (X!Surely(depth))' = X!Reach(Sure', depth')
      BY DEF X!Surely, X!Reach, Sure
    <3> QED BY <3>1, <1>0, <1>5
  <2>2. (X!Keys(X!Surely(depth)))' = {shape[w] : w \in X!Reach(Sure, depth)}
    BY <2>1, <1>0 DEF X!Keys, X!Key
  <2> QED BY <2>1, <2>2, <1>0, <1>4 DEF X!ExhaustedIsComplete
<1>7. X!ShallowestFirst'
  BY <1>1 DEF X!ShallowestFirst
<1>8. X!ReportIsReal'
  <2>1. \A key \in met' : \E w \in X!Reach(moves, depth) : shape[w] = key
    BY <1>0 DEF StillSearching, MetIsNear
  <2>2. (met \subseteq X!Keys(X!Within(depth)))'
    BY <1>0, <2>1, KeysOfNear
  <2> QED BY <2>2, <1>1 DEF X!ReportIsReal
<1> QED BY <1>1, <1>6, <1>7, <1>8 DEF X!SearchIsSound

\* What the search of the worlds says of them is so, whatever a key leaves out: what it
\* reports is bad and at the end of a path of that length; exhausted, it has seen all
\* within its depth that worlds told apart by their keys lead to, and none of that is bad;
\* stopped by a bad world or by its budget, breadth first, none of that is bad and nearer.
THEOREM WhatIsSearchedIsSeen == Searching => []SearchIsSound
<1>1. X!ExploreConstants
  BY SearchesAssumption
<1>2. X!Init => ExploreInv
  BY <1>1, ExploreInit
<1>3. ExploreInv /\ [X!Next]_X!vars => ExploreInv'
  <2> SUFFICES ASSUME ExploreInv, [X!Next]_X!vars PROVE ExploreInv'
    OBVIOUS
  <2>1. CASE X!Pop
    <3>1. StillSearching
      BY <2>1 DEF X!Pop, ExploreInv
    <3>2. StillSearching' /\ outcome' = X!RUNNING
      BY <1>1, <2>1, <3>1, PopKeeps
    <3> QED BY <3>2, RunningSaysNothing DEF ExploreInv, StillSearching
  <2>2. CASE X!Move
    <3>1. StillSearching
      BY <2>2 DEF X!Move, ExploreInv
    <3>2. CASE outcome' = X!RUNNING
      <4>1. StillSearching'
        BY <1>1, <2>2, <3>1, <3>2, MoveKeeps
      <4>2. X!SearchIsSound'
        BY <3>2, <4>1, RunningSaysNothing DEF StillSearching
      <4> QED BY <4>1, <4>2 DEF ExploreInv
    <3>3. CASE outcome' # X!RUNNING
      <4>1. X!SearchIsSound'
        BY <1>1, <2>2, <3>1, <3>3, MoveEnds
      <4> QED BY <4>1, <3>3 DEF ExploreInv
    <3> QED BY <3>2, <3>3
  <2>3. CASE X!Leave
    <3>1. StillSearching
      BY <2>3 DEF X!Leave, ExploreInv
    <3>2. StillSearching' /\ outcome' = X!RUNNING
      BY <1>1, <2>3, <3>1, LeaveKeeps
    <3> QED BY <3>2, RunningSaysNothing DEF ExploreInv, StillSearching
  <2>4. CASE X!Finish
    <3>1. StillSearching
      BY <2>4 DEF X!Finish, ExploreInv
    <3>2. X!SearchIsSound' /\ outcome' # X!RUNNING
      BY <1>1, <2>4, <3>1, FinishEnds
    <3> QED BY <3>2 DEF ExploreInv
  <2>5. CASE UNCHANGED X!vars
    <3>1. UNCHANGED worlds
      BY <2>5 DEF X!vars, X!arguments, worlds
    <3>2. StillSearching => StillSearching'
      <4>1. Sure' = Sure
        BY <3>1 DEF worlds, Sure, X!ToldApart, X!Key
      <4>2. \A key, n : NotBefore(key, n)' <=> NotBefore(key, n)
        BY <3>1, <4>1 DEF worlds, NotBefore
      <4>3. \A key : AtTheFrontier(key)' <=> AtTheFrontier(key)
        BY <3>1, <4>2 DEF worlds, AtTheFrontier
      <4>4. \A w : Fine(w)' <=> Fine(w)
        BY <3>1 DEF worlds, Fine
      <4>5. \A w : IsDealtWith(w)' <=> IsDealtWith(w)
        BY <3>1, <4>3, <4>4 DEF worlds, IsDealtWith
      <4>6. NoneIsLost => NoneIsLost'
        BY <3>1, <4>5 DEF worlds, NoneIsLost
      <4>7. NearestFirst => NearestFirst'
        BY <3>1, <4>2 DEF worlds, NearestFirst
      <4>8. MovesAreTried => MovesAreTried'
        BY <3>1, <4>4 DEF worlds, MovesAreTried
      <4> QED BY <3>1, <4>6, <4>7, <4>8
              DEF worlds, StillSearching, WorldsType, MetIsNear, AheadIsNear
    <3>3. X!SearchIsSound'
      <4>1. /\ (X!Within(depth))' = X!Within(depth)
            /\ (X!Within(length))' = X!Within(length)
        BY <3>1 DEF worlds, X!Within
      <4>2. /\ (X!Surely(depth))' = X!Surely(depth)
            /\ (X!Surely(length - 1))' = X!Surely(length - 1)
            /\ (X!Surely(at.path))' = X!Surely(at.path)
        BY <3>1 DEF worlds, X!Surely, X!ToldApart, X!Key
      <4>3. /\ (X!Keys(X!Within(depth)))' = X!Keys(X!Within(depth))
            /\ (X!Keys(X!Surely(depth)))' = X!Keys(X!Surely(depth))
        BY <3>1, <4>1, <4>2 DEF worlds, X!Keys, X!Key
      <4> QED BY <3>1, <4>1, <4>2, <4>3 DEF ExploreInv, worlds, X!SearchIsSound, X!ReportIsReal,
                                X!ExhaustedIsComplete, X!ShallowestFirst
    <3> QED BY <3>1, <3>2, <3>3 DEF ExploreInv, worlds
  <2> QED BY <2>1, <2>2, <2>3, <2>4, <2>5 DEF X!Next
<1>4. ExploreInv => SearchIsSound
  BY DEF ExploreInv, SearchIsSound
<1> QED BY <1>2, <1>3, <1>4, WorldsMove, PTL DEF X!Spec

-----------------------------------------------------------------------------
(* Cutting a schedule down.                                                *)

\* A behaviour of the searches is one of shrink.
LEMMA ScheduleMoves == Searching => F!Spec
<1>1. Begin => F!Init
  BY DEF Begin
<1>2. [Step]_searched => [F!Next]_F!vars
  BY DEF Step, searched, schedule, F!vars
<1> QED BY <1>1, <1>2, PTL DEF Searching, F!Spec

\* How many of the set come before a member.
Place(S, f) == Cardinality({g \in S : g < f})

\* Every place of the list that is left has one fault, and every fault one place.
LEMMA PlacesOfFaults ==
  ASSUME NEW S, S \subseteq Int, IsFiniteSet(S)
  PROVE  /\ Cardinality(S) \in Nat
         /\ \A f \in S : Place(S, f) \in 0..(Cardinality(S) - 1)
         /\ \A f, h \in S : Place(S, f) = Place(S, h) => f = h
         /\ \A i \in 0..(Cardinality(S) - 1) : \E f \in S : Place(S, f) = i
<1> DEFINE below(f) == {g \in S : g < f}
<1> DEFINE n == Cardinality(S)
<1>1. n \in Nat
  BY FS_CardinalityType
<1>2. \A f \in S : IsFiniteSet(below(f)) /\ Cardinality(below(f)) \in Nat
  <2> SUFFICES ASSUME NEW f \in S
               PROVE  IsFiniteSet(below(f)) /\ Cardinality(below(f)) \in Nat
    OBVIOUS
  <2>1. IsFiniteSet(below(f))
    BY FS_Subset
  <2> QED BY <2>1, FS_CardinalityType
<1>3. ASSUME NEW f \in S
      PROVE  Place(S, f) \in 0..(n - 1)
  <2>1. IsFiniteSet(S \ {f}) /\ Cardinality(S \ {f}) = n - 1
    BY FS_RemoveElement
  <2>2. below(f) \in SUBSET (S \ {f})
    BY SMT
  <2>3. Cardinality(below(f)) <= n - 1
    BY <2>1, <2>2, FS_Subset
  <2> HIDE DEF n, below
  <2> QED BY <1>1, <1>2, <2>3 DEF Place, below
<1>4. ASSUME NEW f \in S, NEW h \in S, f < h
      PROVE  Place(S, f) < Place(S, h)
  <2>1. IsFiniteSet(below(f) \cup {f})
        /\ Cardinality(below(f) \cup {f}) = Cardinality(below(f)) + 1
    <3>1. f \notin below(f)
      BY SMT
    <3> QED BY <3>1, <1>2, FS_AddElement
  <2>2. below(f) \cup {f} \in SUBSET below(h)
    <3>1. \A g \in S : g < f => g < h
      BY <1>4
    <3> QED BY <1>4, <3>1
  <2>3. Cardinality(below(f) \cup {f}) <= Cardinality(below(h))
    BY <1>2, <2>2, FS_Subset
  <2> HIDE DEF below
  <2>4. Cardinality(below(f)) < Cardinality(below(h))
    BY <2>1, <2>3, <1>2
  <2> QED BY <2>4 DEF Place, below
<1>5. ASSUME NEW f \in S, NEW h \in S, Place(S, f) = Place(S, h)
      PROVE  f = h
  <2>0. f \in Int /\ h \in Int /\ Place(S, f) \in Int /\ Place(S, h) \in Int
    BY <1>3, <1>1
  <2>1. CASE f < h
    BY <2>1, <1>4, <1>5, <2>0
  <2>2. CASE h < f
    BY <2>2, <1>4, <1>5, <2>0
  <2> QED BY <2>0, <2>1, <2>2
<1>6. ASSUME NEW i \in 0..(n - 1)
      PROVE  \E f \in S : Place(S, f) = i
  <2> DEFINE p == [f \in S |-> Place(S, f)]
  <2>1. p \in Injection(S, 0..(n - 1))
    <3>1. p \in [S -> 0..(n - 1)]
      BY <1>3
    <3>2. \A f, h \in S : p[f] = p[h] => f = h
      BY <1>5
    <3> QED BY <3>1, <3>2 DEF Injection, IsInjective
  <2>2. IsFiniteSet(0..(n - 1)) /\ Cardinality(0..(n - 1)) = n
    <3> HIDE DEF n
    <3>1. n - 1 \in Int /\ (0 > n - 1 => n = 0)
      BY <1>1
    <3> QED BY <1>1, <3>1, FS_Interval
  <2>3. p \in Surjection(S, 0..(n - 1))
    BY <2>1, <2>2, FS_Injection
  <2> QED BY <2>3 DEF Surjection
<1> QED BY <1>1, <1>3, <1>5, <1>6

FaultsSchedules == [faults : SUBSET F!Faults, ticks : Nat]

\* What any schedule that can be tried is like.
LEMMA ScheduleType ==
  ASSUME F!ShrinkConstants, NEW s \in FaultsSchedules
  PROVE  /\ s.faults \subseteq F!Faults /\ s.ticks \in Nat
         /\ F!Faults \subseteq Int /\ IsFiniteSet(F!Faults)
         /\ IsFiniteSet(s.faults) /\ Cardinality(s.faults) \in Nat
         /\ F!Half(s) \in Nat /\ F!Half(s) >= s.ticks \div 2
<1>1. s.faults \subseteq F!Faults /\ s.ticks \in Nat
  BY DEF FaultsSchedules
<1>2. F!Faults = 1..Len(Firing) /\ Len(Firing) \in Nat
  BY LenProperties DEF F!ShrinkConstants, F!Faults
<1>3. F!Faults \subseteq Int /\ IsFiniteSet(F!Faults)
  BY <1>2, FS_Interval
<1>4. IsFiniteSet(s.faults) /\ Cardinality(s.faults) \in Nat
  BY <1>1, <1>3, FS_Subset, FS_CardinalityType
<1>5. s.ticks \div 2 \in Nat /\ Floor \in Nat
  BY <1>1 DEF F!ShrinkConstants
<1>6. \E x \in {Floor, s.ticks \div 2} : \A y \in {Floor, s.ticks \div 2} : x >= y
  BY <1>5
<1>7. F!Half(s) \in {Floor, s.ticks \div 2}
      /\ \A y \in {Floor, s.ticks \div 2} : F!Half(s) >= y
  BY <1>6 DEF F!Half, F!Max
<1> QED BY <1>1, <1>3, <1>4, <1>5, <1>7

\* The fault at a place is one of the schedule, and every fault is at a place.
LEMMA FaultsHavePlaces ==
  ASSUME F!ShrinkConstants, NEW s \in FaultsSchedules
  PROVE  /\ \A i \in 0..(Cardinality(s.faults) - 1) : F!FaultAt(s, i) \in s.faults
         /\ \A f \in s.faults : \E i \in 0..(Cardinality(s.faults) - 1) : F!FaultAt(s, i) = f
<1>0. s.faults \subseteq Int /\ IsFiniteSet(s.faults)
  BY ScheduleType
<1>1. \A i : F!FaultAt(s, i) = CHOOSE f \in s.faults : Place(s.faults, f) = i
  BY DEF F!FaultAt, Place, F!Cardinality, Cardinality
<1>2. /\ \A f \in s.faults : Place(s.faults, f) \in 0..(Cardinality(s.faults) - 1)
      /\ \A f, h \in s.faults : Place(s.faults, f) = Place(s.faults, h) => f = h
      /\ \A i \in 0..(Cardinality(s.faults) - 1) : \E f \in s.faults : Place(s.faults, f) = i
  BY <1>0, PlacesOfFaults
<1>3. ASSUME NEW i \in 0..(Cardinality(s.faults) - 1)
      PROVE  F!FaultAt(s, i) \in s.faults /\ Place(s.faults, F!FaultAt(s, i)) = i
  BY <1>1, <1>2
<1>4. ASSUME NEW f \in s.faults
      PROVE  F!FaultAt(s, Place(s.faults, f)) = f
  BY <1>2, <1>3
<1> QED BY <1>2, <1>3, <1>4

-----------------------------------------------------------------------------
(* The invariant: no cut tried since the last that was kept still fails;   *)
(* and each kept cut has paid for a round over all faults and the half.    *)

Lengths == {s.ticks : s \in Schedules}
Shorter(s) == {t \in Lengths : t > s.ticks}

\* How many cuts have been kept, at most.
KeptAtMost(s) == (Cardinality(F!Faults) - Cardinality(s.faults)) + Cardinality(Shorter(s))

CutsTried ==
  /\ failing \in SUBSET Schedules /\ best \in failing
  /\ \A f \in best.faults : Firing[f] <= best.ticks
  /\ shrunk \in BOOLEAN
  /\ index \in 0..Cardinality(best.faults)
  /\ \A i \in 0..(index - 1) : F!Without(best, i) \notin failing
  /\ shrunk => /\ index = Cardinality(best.faults)
               /\ F!Half(best) < best.ticks => F!Halved(best) \notin failing

RunsPaid ==
  /\ runs \in Nat
  /\ runs <= KeptAtMost(best) * (Cardinality(F!Faults) + 1) + index + (IF shrunk THEN 1 ELSE 0)

ShrinkInv == CutsTried /\ RunsPaid

LEMMA LengthsAreFew ==
  ASSUME F!ShrinkConstants
  PROVE  /\ Lengths \subseteq Nat /\ IsFiniteSet(Lengths) /\ Cardinality(Lengths) \in Nat
         /\ \A s : IsFiniteSet(Shorter(s)) /\ Cardinality(Shorter(s)) \in Nat
<1> DEFINE g == [s \in Schedules |-> s.ticks]
<1>1. g \in Surjection(Schedules, Lengths)
  BY DEF Lengths, Surjection
<1>2. IsFiniteSet(Lengths)
  <2>1. IsFiniteSet(Schedules)
    BY DEF F!ShrinkConstants, F!IsFiniteSet, IsFiniteSet
  <2> QED BY <1>1, <2>1, FS_Surjection
<1>3. Lengths \subseteq Nat
  BY DEF F!ShrinkConstants, Lengths
<1>4. ASSUME NEW s
      PROVE  IsFiniteSet(Shorter(s)) /\ Cardinality(Shorter(s)) \in Nat
  <2>1. Shorter(s) \in SUBSET Lengths
    BY DEF Shorter
  <2>2. IsFiniteSet(Shorter(s))
    BY <1>2, <2>1, FS_Subset
  <2> QED BY <2>2, FS_CardinalityType
<1> QED BY <1>2, <1>3, <1>4, FS_CardinalityType

\* A schedule that is cut further leaves fewer cuts to keep.
LEMMA CutsAreCounted ==
  ASSUME F!ShrinkConstants, NEW s \in Schedules, NEW t \in FaultsSchedules,
         t.faults \subseteq s.faults, t.ticks <= s.ticks,
         t.faults # s.faults \/ t.ticks < s.ticks
  PROVE  KeptAtMost(s) \in Nat /\ KeptAtMost(t) \in Nat /\ KeptAtMost(t) >= KeptAtMost(s) + 1
<1>0. s \in FaultsSchedules
  BY DEF F!ShrinkConstants, FaultsSchedules
<1>1. /\ s.faults \subseteq F!Faults /\ s.ticks \in Nat /\ t.ticks \in Nat
      /\ IsFiniteSet(F!Faults) /\ IsFiniteSet(s.faults) /\ IsFiniteSet(t.faults)
      /\ Cardinality(s.faults) \in Nat /\ Cardinality(t.faults) \in Nat
  BY <1>0, ScheduleType
<1>2. /\ Cardinality(F!Faults) \in Nat
      /\ Cardinality(s.faults) <= Cardinality(F!Faults)
      /\ Cardinality(t.faults) <= Cardinality(s.faults)
      /\ Cardinality(t.faults) = Cardinality(s.faults) => t.faults = s.faults
  BY <1>1, FS_Subset, FS_CardinalityType
<1>3. /\ IsFiniteSet(Shorter(s)) /\ Cardinality(Shorter(s)) \in Nat
      /\ IsFiniteSet(Shorter(t)) /\ Cardinality(Shorter(t)) \in Nat
      /\ Lengths \subseteq Nat
  BY LengthsAreFew
<1>4. Shorter(s) \subseteq Shorter(t)
  <2> SUFFICES ASSUME NEW x \in Lengths, x > s.ticks
               PROVE  x > t.ticks
    BY DEF Shorter
  <2>1. x \in Nat
    BY <1>3
  <2> QED BY <2>1, <1>1
<1>5. Cardinality(Shorter(s)) <= Cardinality(Shorter(t))
  BY <1>3, <1>4, FS_Subset
<1>6. ASSUME t.ticks < s.ticks
      PROVE  Cardinality(Shorter(s)) < Cardinality(Shorter(t))
  <2>1. s.ticks \in Shorter(t) /\ s.ticks \notin Shorter(s)
    BY <1>1, <1>6 DEF Shorter, Lengths
  <2>2. Shorter(s) # Shorter(t)
    BY <2>1
  <2> QED BY <1>3, <1>4, <1>5, <2>2, FS_Subset
<1> DEFINE a == Cardinality(s.faults) b == Cardinality(t.faults)
           c == Cardinality(Shorter(s)) d == Cardinality(Shorter(t))
           n == Cardinality(F!Faults)
<1>7. a \in Nat /\ b \in Nat /\ c \in Nat /\ d \in Nat /\ n \in Nat /\ a <= n /\ b <= a /\ c <= d
  BY <1>1, <1>2, <1>3, <1>5
<1>8. b < a \/ c < d
  BY <1>2, <1>6, <1>7
<1>9. KeptAtMost(s) = (n - a) + c /\ KeptAtMost(t) = (n - b) + d
  BY DEF KeptAtMost
<1> HIDE DEF a, b, c, d, n
<1> QED BY <1>7, <1>8, <1>9

\* What is paid for one more round.
LEMMA OneMoreRound ==
  ASSUME NEW k \in Nat, NEW l \in Nat, NEW c \in Nat, l >= k + 1
  PROVE  k * c \in Nat /\ l * c \in Nat /\ l * c >= k * c + c
<1>1. PICK d \in Nat : l = k + 1 + d
  <2>1. l - (k + 1) \in Nat /\ l = k + 1 + (l - (k + 1))
    OBVIOUS
  <2> QED BY <2>1
<1>2. l * c = k * c + c + d * c
  BY <1>1
<1>3. k * c \in Nat /\ d * c \in Nat
  OBVIOUS
<1> QED BY <1>2, <1>3

\* The first schedule has been cut nowhere.
LEMMA ShrinkInit ==
  ASSUME F!ShrinkConstants, F!Init
  PROVE  ShrinkInv
<1>1. F!First \in FaultsSchedules /\ F!First.faults = F!Faults /\ F!First.ticks = RunLength
  BY DEF F!ShrinkConstants, F!First, F!Schedule, FaultsSchedules
<1>2. CutsTried
  <2>1. Cardinality(F!Faults) \in Nat
    BY <1>1, ScheduleType
  <2>2. index \in 0..Cardinality(best.faults) /\ \A i \in 0..(index - 1) : FALSE
    BY <1>1, <2>1 DEF F!Init
  <2> QED BY <1>1, <2>2 DEF F!Init, F!ShrinkConstants, CutsTried
<1>4. Cardinality(Shorter(best)) \in Nat
  BY LengthsAreFew
<1>5. KeptAtMost(best) \in Nat
  <2>1. Cardinality(F!Faults) \in Nat /\ best.faults = F!Faults
    BY <1>1, ScheduleType DEF F!Init
  <2> QED BY <2>1, <1>4 DEF KeptAtMost
<1>6. Cardinality(F!Faults) \in Nat
  BY <1>1, ScheduleType
<1>7. runs = 0 /\ index = 0 /\ shrunk = FALSE
  BY DEF F!Init
<1> DEFINE k == KeptAtMost(best)  c == Cardinality(F!Faults) + 1
<1>8. k * c \in Nat
  <2>1. k \in Nat /\ c \in Nat
    BY <1>5, <1>6
  <2> HIDE DEF k, c
  <2> QED BY <2>1
<1>9. RunsPaid
  BY <1>7, <1>8 DEF RunsPaid
<1> QED BY <1>2, <1>9 DEF ShrinkInv

\* A cut that is kept is one more, and nothing has been tried on it yet.
LEMMA KeepKeeps ==
  ASSUME F!ShrinkConstants, ShrinkInv, ~shrunk,
         NEW s \in FaultsSchedules, s \in failing, F!Keep(s),
         s.faults \subseteq best.faults, s.ticks <= best.ticks,
         s.faults # best.faults \/ s.ticks < best.ticks,
         \A f \in s.faults : Firing[f] <= s.ticks,
         runs' = runs + 1, UNCHANGED <<failing, shrunk>>
  PROVE  ShrinkInv'
<1>0. best \in Schedules /\ best \in FaultsSchedules /\ s \in Schedules
  BY DEF ShrinkInv, CutsTried, F!ShrinkConstants, FaultsSchedules
<1>1. best' = s /\ index' = 0 /\ shrunk = FALSE /\ shrunk' = FALSE /\ failing' = failing
  BY DEF F!Keep, ShrinkInv, CutsTried
<1>2. Cardinality(s.faults) \in Nat
  BY ScheduleType
<1>3. CutsTried'
  <2>1. index' \in 0..Cardinality(best'.faults) /\ \A i \in 0..(index' - 1) : FALSE
    BY <1>1, <1>2
  <2>2. failing' \in SUBSET Schedules /\ best' \in failing' /\ shrunk' \in BOOLEAN /\ ~shrunk'
    BY <1>1 DEF ShrinkInv, CutsTried
  <2>3. \A f \in best'.faults : Firing[f] <= best'.ticks
    BY <1>1
  <2> QED BY <2>1, <2>2, <2>3 DEF CutsTried
<1> DEFINE k == KeptAtMost(best)  l == KeptAtMost(s)
           n == Cardinality(F!Faults)  b == Cardinality(best.faults)
<1>4. k \in Nat /\ l \in Nat /\ l >= k + 1
  BY <1>0, CutsAreCounted
<1>5. n \in Nat /\ b \in Nat /\ b <= n
  <2>1. IsFiniteSet(F!Faults) /\ best.faults \subseteq F!Faults
    BY <1>0, ScheduleType
  <2> QED BY <2>1, FS_Subset, FS_CardinalityType
<1>6. runs \in Nat /\ runs <= k * (n + 1) + index /\ index \in 0..b
  <2>1. runs \in Nat /\ runs <= k * (n + 1) + index + (IF shrunk THEN 1 ELSE 0) /\ index \in 0..b
    BY DEF ShrinkInv, CutsTried, RunsPaid
  <2>2. k * (n + 1) \in Nat
    <3> HIDE DEF k, n
    <3> QED BY <1>4, <1>5
  <2> HIDE DEF k, n, b
  <2> QED BY <2>1, <2>2, <1>1, <1>5
<1>7. RunsPaid'
  <2>1. KeptAtMost(best)' = l
    BY <1>1 DEF KeptAtMost, Shorter
  <2>2. runs' = runs + 1 /\ index' = 0 /\ ~shrunk'
    BY <1>1
  <2>3. runs' \in Nat /\ runs' <= l * (n + 1) + index' + 0
    <3> DEFINE c == n + 1
    <3>1. c \in Nat /\ index \in Nat /\ index + 1 <= c
      <4> HIDE DEF k, l, n, b
      <4> QED BY <1>5, <1>6
    <3>2. k * c \in Nat /\ l * c \in Nat /\ l * c >= k * c + c
      <4> HIDE DEF k, l, c
      <4> QED BY <1>4, <3>1, OneMoreRound
    <3>3. runs \in Nat /\ runs <= k * c + index
      BY <1>6
    <3> DEFINE x == k * c  y == l * c
    <3>4. x \in Nat /\ y \in Nat /\ y >= x + c /\ runs <= x + index
      BY <3>2, <3>3
    <3>5. runs' \in Nat /\ runs' <= y + 0 + 0
      <4> HIDE DEF x, y, c, k, l, n, b
      <4> QED BY <3>1, <3>3, <3>4, <2>2
    <3> QED BY <3>5, <2>2
  <2>4. (KeptAtMost(best) * (Cardinality(F!Faults) + 1) + index + (IF shrunk THEN 1 ELSE 0))'
          = l * (n + 1) + index' + 0
    <3>1. (IF shrunk THEN 1 ELSE 0)' = 0
      BY <2>2
    <3>2. (Cardinality(F!Faults))' = n
      BY DEF F!Faults
    <3> QED BY <2>1, <3>1, <3>2
  <2> QED BY <2>3, <2>4 DEF RunsPaid
<1> QED BY <1>3, <1>7 DEF ShrinkInv

\* Leaving out one fault.
LEMMA TryWithoutKeeps ==
  ASSUME F!ShrinkConstants, ShrinkInv, F!TryWithout
  PROVE  ShrinkInv'
<1> DEFINE fewer == F!Without(best, index)
<1>0. best \in Schedules /\ best \in FaultsSchedules
  BY DEF ShrinkInv, CutsTried, F!ShrinkConstants, FaultsSchedules
<1>1. /\ ~shrunk /\ index < Cardinality(best.faults)
      /\ runs' = runs + 1 /\ UNCHANGED <<failing, shrunk>>
      /\ IF fewer \in failing THEN F!Keep(fewer) ELSE index' = index + 1 /\ UNCHANGED best
  BY DEF F!TryWithout, F!Cardinality, Cardinality
<1>2. index \in Nat /\ Cardinality(best.faults) \in Nat /\ index \in 0..(Cardinality(best.faults) - 1)
  <2>1. Cardinality(best.faults) \in Nat /\ index \in 0..Cardinality(best.faults)
    BY <1>0, ScheduleType DEF ShrinkInv, CutsTried
  <2> QED BY <2>1, <1>1
<1>3. CASE fewer \in failing
  <2> DEFINE f == F!FaultAt(best, index)
  <2>1. f \in best.faults
    BY <1>0, <1>2, FaultsHavePlaces
  <2>2. fewer.faults = best.faults \ {f} /\ fewer.ticks = best.ticks /\ fewer \in FaultsSchedules
    BY <1>0 DEF FaultsSchedules, F!Without
  <2>3. \A g \in fewer.faults : Firing[g] <= fewer.ticks
    BY <2>2 DEF ShrinkInv, CutsTried
  <2>4. fewer.faults \subseteq best.faults /\ fewer.ticks <= best.ticks /\ fewer.faults # best.faults
    <3>1. best.ticks \in Nat
      BY <1>0, ScheduleType
    <3> QED BY <2>1, <2>2, <3>1
  <2> HIDE DEF fewer
  <2> QED BY <1>1, <1>3, <2>2, <2>3, <2>4, KeepKeeps
<1>4. CASE fewer \notin failing
  <2>1. index' = index + 1 /\ best' = best /\ failing' = failing /\ shrunk' = FALSE /\ shrunk = FALSE
    BY <1>1, <1>4 DEF ShrinkInv, CutsTried
  <2>2. index' \in 0..Cardinality(best.faults)
    BY <1>2, <2>1
  <2>3. \A i \in 0..(index' - 1) : i \in 0..(index - 1) \/ i = index
    BY <1>2, <2>1
  <2>4. \A i \in 0..(index' - 1) : F!Without(best, i) \notin failing
    BY <2>3, <1>4 DEF ShrinkInv, CutsTried
  <2>5. CutsTried'
    <3>1. (\A i \in 0..(index - 1) : F!Without(best, i) \notin failing)'
      BY <2>1, <2>4
    <3>2. (index \in 0..Cardinality(best.faults))' /\ ~shrunk' /\ shrunk' \in BOOLEAN
      BY <2>1, <2>2
    <3>3. (/\ failing \in SUBSET Schedules /\ best \in failing
           /\ \A f \in best.faults : Firing[f] <= best.ticks)'
      BY <2>1 DEF ShrinkInv, CutsTried
    <3> QED BY <3>1, <3>2, <3>3 DEF CutsTried
  <2> DEFINE k == KeptAtMost(best) * (Cardinality(F!Faults) + 1)
  <2>6. k \in Int
    <3>1. KeptAtMost(best) \in Int
      <4>1. Cardinality(best.faults) \in Nat /\ Cardinality(Shorter(best)) \in Nat
            /\ Cardinality(F!Faults) \in Nat
        BY <1>0, ScheduleType, LengthsAreFew, FS_CardinalityType
      <4> QED BY <4>1 DEF KeptAtMost
    <3>2. Cardinality(F!Faults) \in Int
      BY <1>0, ScheduleType, FS_CardinalityType
    <3> QED BY <3>1, <3>2
  <2>7. runs \in Nat /\ runs <= k + index + 0
    <3>1. (IF shrunk THEN 1 ELSE 0) = 0
      BY <2>1
    <3> QED BY <3>1 DEF ShrinkInv, RunsPaid
  <2>8. runs' \in Nat /\ runs' <= k + index' + 0
    <3> HIDE DEF k
    <3> QED BY <2>6, <2>7, <2>1, <1>1, <1>2
  <2>9. RunsPaid'
    <3>1. (KeptAtMost(best) * (Cardinality(F!Faults) + 1))' = k
      BY <2>1 DEF KeptAtMost, Shorter
    <3>2. (IF shrunk THEN 1 ELSE 0)' = 0
      BY <2>1
    <3> HIDE DEF k
    <3> QED BY <2>8, <3>1, <3>2 DEF RunsPaid
  <2> QED BY <2>5, <2>9 DEF ShrinkInv
<1> QED BY <1>3, <1>4

\* Halving the run, and leaving it at that.
LEMMA TryHalfKeeps ==
  ASSUME F!ShrinkConstants, ShrinkInv, F!TryHalf \/ F!AtTheFloor
  PROVE  ShrinkInv'
<1> DEFINE half == F!Halved(best)
<1>0. best \in Schedules /\ best \in FaultsSchedules
  BY DEF ShrinkInv, CutsTried, F!ShrinkConstants, FaultsSchedules
<1>1. /\ ~shrunk /\ index = Cardinality(best.faults) /\ failing' = failing
      /\ \/ /\ F!Half(best) < best.ticks /\ half \in failing
            /\ F!Keep(half) /\ shrunk' = shrunk /\ runs' = runs + 1
         \/ /\ F!Half(best) >= best.ticks \/ half \notin failing
            /\ best' = best /\ index' = index /\ shrunk' = TRUE /\ runs' \in {runs, runs + 1}
  BY DEF F!TryHalf, F!AtTheFloor, F!Cardinality, Cardinality
<1>2. best.ticks \in Nat /\ F!Half(best) \in Nat
  BY <1>0, ScheduleType
<1>3. CASE F!Half(best) < best.ticks /\ half \in failing
  <2>1. half.ticks = F!Half(best) /\ half.faults = {f \in best.faults : Firing[f] <= F!Half(best)}
    BY DEF F!Halved, F!Schedule
  <2>2. half \in FaultsSchedules
    BY <1>0, <1>2 DEF FaultsSchedules, F!Halved, F!Schedule
  <2>3. half.faults \subseteq best.faults /\ half.ticks < best.ticks /\ half.ticks <= best.ticks
        /\ \A f \in half.faults : Firing[f] <= half.ticks
    BY <1>2, <1>3, <2>1
  <2>4. F!Keep(half) /\ UNCHANGED <<failing, shrunk>> /\ runs' = runs + 1
    BY <1>1, <1>3, <1>2
  <2> HIDE DEF half
  <2> QED BY <1>1, <1>3, <2>2, <2>3, <2>4, KeepKeeps
<1>4. CASE ~(F!Half(best) < best.ticks /\ half \in failing)
  <2>1. /\ best' = best /\ index' = index /\ shrunk' = TRUE /\ runs' \in {runs, runs + 1}
        /\ failing' = failing
    BY <1>1, <1>4
  <2>2. F!Half(best) < best.ticks => half \notin failing
    BY <1>4
  <2>3. CutsTried'
    BY <1>1, <2>1, <2>2 DEF ShrinkInv, CutsTried, F!Without, F!FaultAt, F!Half, F!Halved
  <2> DEFINE k == KeptAtMost(best) * (Cardinality(F!Faults) + 1)
  <2>6. k \in Int /\ index \in Nat
    <3>1. KeptAtMost(best) \in Int /\ index \in Nat
      <4>1. Cardinality(best.faults) \in Nat /\ Cardinality(Shorter(best)) \in Nat
            /\ Cardinality(F!Faults) \in Nat
        BY <1>0, ScheduleType, LengthsAreFew, FS_CardinalityType
      <4> QED BY <4>1, <1>1 DEF KeptAtMost
    <3>2. Cardinality(F!Faults) \in Int
      BY <1>0, ScheduleType, FS_CardinalityType
    <3> QED BY <3>1, <3>2
  <2>7. runs \in Nat /\ runs <= k + index + 0
    <3>1. (IF shrunk THEN 1 ELSE 0) = 0
      BY <1>1
    <3> QED BY <3>1 DEF ShrinkInv, RunsPaid
  <2>8. runs' \in Nat /\ runs' <= k + index' + 1
    <3> HIDE DEF k
    <3> QED BY <2>6, <2>7, <2>1
  <2>9. RunsPaid'
    <3>1. (KeptAtMost(best) * (Cardinality(F!Faults) + 1))' = k
      BY <2>1 DEF KeptAtMost, Shorter
    <3>2. (IF shrunk THEN 1 ELSE 0)' = 1
      BY <2>1
    <3> HIDE DEF k
    <3> QED BY <2>8, <3>1, <3>2 DEF RunsPaid
  <2> QED BY <2>3, <2>9 DEF ShrinkInv
<1> QED BY <1>3, <1>4

\* No schedule has more to be cut than all its faults and all the lengths but its own.
LEMMA RunsAreBounded ==
  ASSUME F!ShrinkConstants, ShrinkInv
  PROVE  runs <= (Cardinality(F!Faults) + 1) * (Cardinality(F!Faults) + Cardinality(Lengths))
<1> DEFINE n == Cardinality(F!Faults)  b == Cardinality(best.faults)
           c == Cardinality(Shorter(best))  m == Cardinality(Lengths)
           k == KeptAtMost(best)
<1>1. best \in Schedules /\ best \in FaultsSchedules
  BY DEF ShrinkInv, CutsTried, F!ShrinkConstants, FaultsSchedules
<1>2. n \in Nat /\ b \in Nat /\ b <= n
  <2>1. IsFiniteSet(F!Faults) /\ best.faults \subseteq F!Faults
    BY <1>1, ScheduleType
  <2> QED BY <2>1, FS_Subset, FS_CardinalityType
<1>3. c \in Nat /\ m \in Nat /\ c + 1 <= m
  <2>1. Shorter(best) \in SUBSET (Lengths \ {best.ticks}) /\ best.ticks \in Lengths
    <3>1. best.ticks \in Nat /\ best.ticks \in Lengths
      BY <1>1, ScheduleType DEF Lengths
    <3>2. ~(best.ticks > best.ticks)
      BY <3>1
    <3> QED BY <3>1, <3>2 DEF Shorter
  <2>2. IsFiniteSet(Lengths) /\ m \in Nat /\ c \in Nat
    BY LengthsAreFew
  <2>3. IsFiniteSet(Lengths \ {best.ticks}) /\ Cardinality(Lengths \ {best.ticks}) = m - 1
    BY <2>1, <2>2, FS_RemoveElement
  <2>4. c <= m - 1
    BY <2>1, <2>3, FS_Subset
  <2> HIDE DEF c, m
  <2> QED BY <2>2, <2>4
<1>4. k = (n - b) + c /\ k \in Nat
  <2>1. k = (n - b) + c
    BY DEF KeptAtMost
  <2> HIDE DEF k, n, b, c
  <2> QED BY <2>1, <1>2, <1>3
<1>5. runs \in Nat /\ index \in 0..b /\ runs <= k * (n + 1) + index + (IF shrunk THEN 1 ELSE 0)
  BY DEF ShrinkInv, CutsTried, RunsPaid
<1> DEFINE p == (n + 1) * (n + m)
<1>6. runs <= p
  <2> HIDE DEF n, b, c, m, k
  <2>1. k * (n + 1) \in Nat /\ p \in Nat
    BY <1>2, <1>3, <1>4
  <2>2. k * (n + 1) + (n + 1) <= p
    <3>1. n + m \in Nat /\ n + 1 \in Nat /\ n + m >= k + 1
      BY <1>2, <1>3, <1>4
    <3>2. (n + m) * (n + 1) >= k * (n + 1) + (n + 1)
      BY <3>1, <1>4, OneMoreRound
    <3>3. (n + m) * (n + 1) = p
      BY <3>1
    <3> QED BY <3>2, <3>3, <3>1, <2>1
  <2> DEFINE q == k * (n + 1)
  <2>3. runs <= q + index + 1 /\ q \in Nat /\ q + (n + 1) <= p
    <3>1. (IF shrunk THEN 1 ELSE 0) \in {0, 1}
      OBVIOUS
    <3> HIDE DEF p
    <3>2. q \in Nat /\ q + (n + 1) <= p
      BY <2>1, <2>2
    <3> HIDE DEF q
    <3>3. runs <= q + index + (IF shrunk THEN 1 ELSE 0)
      BY <1>5 DEF q
    <3> QED BY <3>1, <3>2, <3>3, <1>5, <1>2
  <2> HIDE DEF p, q
  <2> QED BY <2>1, <2>3, <1>2, <1>5
<1> QED BY <1>6

\* The invariant says what was to be shown.
LEMMA ShrunkIsEnough ==
  ASSUME F!ShrinkConstants, ShrinkInv
  PROVE  F!ShrunkIsMinimal
<1>0. best \in FaultsSchedules
  BY DEF ShrinkInv, CutsTried, F!ShrinkConstants, FaultsSchedules
<1>1. ASSUME shrunk, NEW f \in best.faults
      PROVE  [best EXCEPT !.faults = @ \ {f}] \notin failing
  <2>1. PICK i \in 0..(Cardinality(best.faults) - 1) : F!FaultAt(best, i) = f
    BY <1>0, FaultsHavePlaces
  <2>2. F!Without(best, i) \notin failing
    BY <1>1 DEF ShrinkInv, CutsTried
  <2> QED BY <2>1, <2>2 DEF F!Without
<1>2. runs <= (F!Cardinality(F!Faults) + 1)
               * (F!Cardinality(F!Faults) + F!Cardinality({s.ticks : s \in Schedules}))
  BY RunsAreBounded DEF Lengths, F!Cardinality, Cardinality
<1> QED BY <1>1, <1>2 DEF F!ShrunkIsMinimal, ShrinkInv, CutsTried

\* What shrink returns fails as the first schedule did and cannot be cut once more, and
\* it has been found in at most as many runs as there are cuts, over again for each.
THEOREM ShrinkingEndsAtALeast == Searching => []ShrunkIsMinimal
<1>1. F!ShrinkConstants
  BY SearchesAssumption
<1>2. F!Init => ShrinkInv
  BY <1>1, ShrinkInit
<1>3. ShrinkInv /\ [F!Next]_F!vars => ShrinkInv'
  <2> SUFFICES ASSUME ShrinkInv, [F!Next]_F!vars PROVE ShrinkInv'
    OBVIOUS
  <2>1. CASE F!TryWithout
    BY <1>1, <2>1, TryWithoutKeeps
  <2>2. CASE F!TryHalf \/ F!AtTheFloor
    BY <1>1, <2>2, TryHalfKeeps
  <2>3. CASE UNCHANGED F!vars
    <3>1. UNCHANGED schedule
      BY <2>3 DEF F!vars, schedule
    <3>2. CutsTried'
      BY <3>1 DEF schedule, ShrinkInv, CutsTried
    <3>3. RunsPaid'
      BY <3>1 DEF schedule, ShrinkInv, RunsPaid, KeptAtMost, Shorter
    <3> QED BY <3>2, <3>3 DEF ShrinkInv
  <2> QED BY <2>1, <2>2, <2>3 DEF F!Next
<1>4. ShrinkInv => ShrunkIsMinimal
  BY <1>1, ShrunkIsEnough DEF ShrunkIsMinimal
<1> QED BY <1>2, <1>3, <1>4, ScheduleMoves, PTL DEF F!Spec

-----------------------------------------------------------------------------
(* Drawing a schedule and injecting it.                                    *)

\* A behaviour of the searches is one of the fault schedules.
LEMMA FaultsMove == Searching => D!Spec
<1>1. Begin => D!Init
  BY DEF Begin
<1>2. [Step]_searched => [D!Next]_D!vars
  BY DEF Step, searched, drawn, D!vars, D!drawing, D!running
<1> QED BY <1>1, <1>2, PTL DEF Searching, D!Spec

Kinds == {D!CRASH, D!RESTART, D!PARTITION, D!HEAL}
Fault == [kind : Kinds, at : Nat, target : Nat]

\* The nodes that the first i faults of a schedule leave stopped, whether they leave a
\* partition, and whether a fault finds something to do there.
StoppedAfter(s, i) ==
  {m \in Nat : \E j \in 1..i :
     /\ s[j].kind = D!CRASH /\ s[j].target = m
     /\ \A k \in (j + 1)..i : ~(s[k].kind = D!RESTART /\ s[k].target = m)}

SplitAfter(s, i) ==
  \E j \in 1..i : s[j].kind = D!PARTITION /\ \A k \in (j + 1)..i : s[k].kind # D!HEAL

Finds(fault, stopped, parted) ==
  \/ fault.kind = D!CRASH /\ fault.target \notin stopped
  \/ fault.kind = D!RESTART /\ fault.target \in stopped
  \/ fault.kind = D!PARTITION /\ ~parted
  \/ fault.kind = D!HEAL /\ parted

Leaves(fault, stopped) ==
  CASE fault.kind = D!CRASH   -> stopped \cup {fault.target}
    [] fault.kind = D!RESTART -> stopped \ {fault.target}
    [] OTHER                  -> stopped

Parts(fault, parted) ==
  IF fault.kind \in {D!PARTITION, D!HEAL} THEN fault.kind = D!PARTITION ELSE parted

\* What no fault has come to.
LEMMA AfterNone ==
  ASSUME NEW s
  PROVE  StoppedAfter(s, 0) = {} /\ SplitAfter(s, 0) = FALSE
BY DEF StoppedAfter, SplitAfter

\* What one more fault does.
LEMMA AfterOne ==
  ASSUME NEW s, NEW i \in Nat, s[i + 1] \in Fault
  PROVE  /\ StoppedAfter(s, i + 1) = Leaves(s[i + 1], StoppedAfter(s, i))
         /\ SplitAfter(s, i + 1) = Parts(s[i + 1], SplitAfter(s, i))
<1> DEFINE g == s[i + 1]
<1>1. g.kind \in Kinds /\ g.target \in Nat
  BY DEF Fault
<1>2. /\ D!CRASH # D!RESTART /\ D!CRASH # D!PARTITION /\ D!CRASH # D!HEAL
      /\ D!RESTART # D!PARTITION /\ D!RESTART # D!HEAL /\ D!PARTITION # D!HEAL
  BY DEF D!CRASH, D!RESTART, D!PARTITION, D!HEAL
<1>3. ASSUME NEW j \in 1..i
      PROVE  j \in 1..(i + 1) /\ (j + 1)..(i + 1) = ((j + 1)..i) \cup {i + 1}
  OBVIOUS
<1>4. 1..(i + 1) = (1..i) \cup {i + 1} /\ ((i + 1) + 1)..(i + 1) = {}
  OBVIOUS
<1>5. ASSUME NEW m \in Nat
      PROVE  m \in StoppedAfter(s, i + 1) <=>
               \/ g.kind = D!CRASH /\ g.target = m
               \/ m \in StoppedAfter(s, i) /\ ~(g.kind = D!RESTART /\ g.target = m)
  <2> DEFINE on(j) == s[j].kind = D!CRASH /\ s[j].target = m
             off(k) == s[k].kind = D!RESTART /\ s[k].target = m
  <2>1. m \in StoppedAfter(s, i + 1) <=>
          \E j \in 1..(i + 1) : on(j) /\ \A k \in (j + 1)..(i + 1) : ~off(k)
    BY DEF StoppedAfter
  <2>2. m \in StoppedAfter(s, i) <=>
          \E j \in 1..i : on(j) /\ \A k \in (j + 1)..i : ~off(k)
    BY DEF StoppedAfter
  <2> HIDE DEF on, off
  <2>3. (\E j \in 1..(i + 1) : on(j) /\ \A k \in (j + 1)..(i + 1) : ~off(k)) <=>
          \/ on(i + 1)
          \/ (\E j \in 1..i : on(j) /\ \A k \in (j + 1)..i : ~off(k)) /\ ~off(i + 1)
    <3>1. ASSUME NEW j \in 1..(i + 1), on(j), \A k \in (j + 1)..(i + 1) : ~off(k)
          PROVE  \/ on(i + 1)
                 \/ (\E h \in 1..i : on(h) /\ \A k \in (h + 1)..i : ~off(k)) /\ ~off(i + 1)
      <4>1. CASE j = i + 1
        BY <3>1, <4>1
      <4>2. CASE j \in 1..i
        BY <3>1, <4>2, <1>3
      <4> QED BY <4>1, <4>2, <1>4
    <3>2. ASSUME on(i + 1)
          PROVE  \E j \in 1..(i + 1) : on(j) /\ \A k \in (j + 1)..(i + 1) : ~off(k)
      BY <3>2, <1>4
    <3>3. ASSUME NEW j \in 1..i, on(j), \A k \in (j + 1)..i : ~off(k), ~off(i + 1)
          PROVE  \E h \in 1..(i + 1) : on(h) /\ \A k \in (h + 1)..(i + 1) : ~off(k)
      BY <3>3, <1>3
    <3> QED BY <3>1, <3>2, <3>3
  <2> QED BY <2>1, <2>2, <2>3 DEF on, off
<1>7. StoppedAfter(s, i + 1) = Leaves(g, StoppedAfter(s, i))
  <2>1. StoppedAfter(s, i + 1) \subseteq Nat /\ StoppedAfter(s, i) \subseteq Nat
    BY DEF StoppedAfter
  <2>2. CASE g.kind = D!CRASH
    BY <2>1, <2>2, <1>1, <1>2, <1>5 DEF Leaves
  <2>3. CASE g.kind = D!RESTART
    BY <2>1, <2>3, <1>1, <1>2, <1>5 DEF Leaves
  <2>4. CASE g.kind # D!CRASH /\ g.kind # D!RESTART
    BY <2>1, <2>4, <1>5 DEF Leaves
  <2> QED BY <2>2, <2>3, <2>4
<1>8. SplitAfter(s, i + 1) = Parts(g, SplitAfter(s, i))
  <2> DEFINE on(j) == s[j].kind = D!PARTITION
             off(k) == s[k].kind = D!HEAL
  <2>1. /\ SplitAfter(s, i + 1) <=> \E j \in 1..(i + 1) : on(j) /\ \A k \in (j + 1)..(i + 1) : ~off(k)
        /\ SplitAfter(s, i) <=> \E j \in 1..i : on(j) /\ \A k \in (j + 1)..i : ~off(k)
    BY DEF SplitAfter
  <2>2. (on(i + 1) => ~off(i + 1)) /\ on(i + 1) = (g.kind = D!PARTITION) /\ off(i + 1) = (g.kind = D!HEAL)
    BY <1>2
  <2> HIDE DEF on, off
  <2>3. SplitAfter(s, i + 1) <=> on(i + 1) \/ (SplitAfter(s, i) /\ ~off(i + 1))
    <3>1. ASSUME NEW j \in 1..(i + 1), on(j), \A k \in (j + 1)..(i + 1) : ~off(k)
          PROVE  \/ on(i + 1)
                 \/ (\E h \in 1..i : on(h) /\ \A k \in (h + 1)..i : ~off(k)) /\ ~off(i + 1)
      <4>1. CASE j = i + 1
        BY <3>1, <4>1
      <4>2. CASE j \in 1..i
        BY <3>1, <4>2, <1>3
      <4> QED BY <4>1, <4>2, <1>4
    <3>2. ASSUME on(i + 1)
          PROVE  \E j \in 1..(i + 1) : on(j) /\ \A k \in (j + 1)..(i + 1) : ~off(k)
      BY <3>2, <1>4
    <3>3. ASSUME NEW j \in 1..i, on(j), \A k \in (j + 1)..i : ~off(k), ~off(i + 1)
          PROVE  \E h \in 1..(i + 1) : on(h) /\ \A k \in (h + 1)..(i + 1) : ~off(k)
      BY <3>3, <1>3
    <3> QED BY <2>1, <3>1, <3>2, <3>3
  <2>4. SplitAfter(s, i + 1) \in BOOLEAN /\ SplitAfter(s, i) \in BOOLEAN
    BY DEF SplitAfter
  <2>5. CASE g.kind = D!PARTITION
    BY <2>2, <2>3, <2>4, <2>5, <1>2 DEF Parts
  <2>6. CASE g.kind = D!HEAL
    BY <2>2, <2>3, <2>4, <2>6, <1>2 DEF Parts
  <2>7. CASE g.kind \notin {D!PARTITION, D!HEAL}
    BY <2>2, <2>3, <2>4, <2>7 DEF Parts
  <2> QED BY <2>5, <2>6, <2>7
<1> QED BY <1>7, <1>8

\* Only the faults that have come count.
LEMMA AfterSame ==
  ASSUME NEW s, NEW t, NEW i \in Nat, \A j \in 1..i : s[j] = t[j]
  PROVE  StoppedAfter(s, i) = StoppedAfter(t, i) /\ SplitAfter(s, i) = SplitAfter(t, i)
<1>1. \A j \in 1..i : \A k \in (j + 1)..i : k \in 1..i
  OBVIOUS
<1> QED BY <1>1 DEF StoppedAfter, SplitAfter

-----------------------------------------------------------------------------
(* The invariant: each fault of the schedule finds something to do after   *)
(* those before it; the generator's account is what they all leave, the    *)
(* cluster's state what those leave that have come.                        *)

DrawnInTurn ==
  /\ size \in Sizes /\ whens \subseteq 2..(Ticks - 2) /\ out \in Seq(Fault)
  /\ \A i, j \in 1..Len(out) : i < j => out[i].at < out[j].at
  /\ \A i \in 1..Len(out) : 0 < out[i].at /\ \A w \in whens : out[i].at < w
  /\ \A i \in 1..Len(out) : out[i].target \in 0..size
  /\ raised \in BOOLEAN /\ (raised => whens # {})

EveryFaultFinds ==
  /\ \A i \in 1..Len(out) : Finds(out[i], StoppedAfter(out, i - 1), SplitAfter(out, i - 1))
  /\ marked = StoppedAfter(out, Len(out)) /\ split = SplitAfter(out, Len(out))
  /\ size > 1 => \A i \in 0..Len(out) : 2 * Cardinality(StoppedAfter(out, i)) <= size

InjectedSoFar ==
  /\ tick \in Nat /\ (whens # {} => tick = 0)
  /\ applied \in 0..Len(out) /\ skipped = 0
  /\ \A i \in 1..Len(out) : out[i].at <= tick <=> i <= applied
  /\ down = StoppedAfter(out, applied) /\ sides = SplitAfter(out, applied)

FaultsInv == DrawnInTurn /\ EveryFaultFinds /\ InjectedSoFar

LEMMA FaultsInit ==
  ASSUME D!FaultsConstants, D!Init
  PROVE  FaultsInv
<1>1. size \in Sizes /\ whens \subseteq 2..(Ticks - 2)
  BY DEF D!Init, D!kSubset
<1>2. out = << >> /\ Len(out) = 0 /\ out \in Seq(Fault)
      /\ 1..Len(out) = {} /\ 0..Len(out) = {0}
  <2>1. out = << >> /\ Len(out) = 0 /\ out \in Seq(Fault)
    BY EmptySeq DEF D!Init
  <2>2. 1..0 = {} /\ 0..0 = {0}
    OBVIOUS
  <2> QED BY <2>1, <2>2
<1>3. DrawnInTurn
  BY <1>1, <1>2 DEF D!Init, DrawnInTurn
<1>4. EveryFaultFinds
  <2>1. StoppedAfter(out, 0) = {} /\ SplitAfter(out, 0) = FALSE
    BY AfterNone
  <2>2. size \in Nat /\ Cardinality({}) = 0
    BY <1>1, FS_EmptySet DEF D!FaultsConstants
  <2>3. \A i \in 0..Len(out) : 2 * Cardinality(StoppedAfter(out, i)) <= size
    BY <1>2, <2>1, <2>2
  <2> QED BY <1>2, <2>1, <2>3 DEF D!Init, EveryFaultFinds
<1>5. InjectedSoFar
  BY <1>2, AfterNone DEF D!Init, InjectedSoFar
<1> QED BY <1>3, <1>4, <1>5 DEF FaultsInv

-----------------------------------------------------------------------------
(* Drawing.                                                                *)

\* The tick a fault is drawn for is one of those left, and the first.
LEMMA NextTickDrawn ==
  ASSUME FaultsInv, whens # {}, Ticks \in Nat
  PROVE  D!At \in whens /\ D!At \in Nat /\ D!At >= 2 /\ \A w \in whens : D!At <= w
<1>1. whens \subseteq 2..(Ticks - 2)
  BY DEF FaultsInv, DrawnInTurn
<1>2. whens \subseteq Int /\ IsFiniteSet(whens)
  <2>1. 2 \in Int /\ Ticks - 2 \in Int
    OBVIOUS
  <2> QED BY <1>1, <2>1, PartOfInterval
<1>3. Min(whens) \in whens /\ \A w \in whens : Min(whens) <= w
  BY <1>2, MinOfFinite
<1>4. D!At = Min(whens)
  BY DEF D!At, D!Min, Min
<1>5. \A w \in whens : w \in Nat /\ w >= 2
  BY <1>1
<1> QED BY <1>3, <1>4, <1>5

\* One more fault, which does something and does not stop too many.
LEMMA DrawnOne ==
  ASSUME D!FaultsConstants, FaultsInv, whens # {}, NEW g \in Fault, g.at = D!At, g.target \in 0..size,
         out' = Append(out, g), whens' = whens \ {D!At}, raised = FALSE, raised' = FALSE,
         Finds(g, marked, split), marked' = Leaves(g, marked), split' = Parts(g, split),
         size > 1 => 2 * Cardinality(Leaves(g, marked)) <= size,
         UNCHANGED <<size, D!running>>
  PROVE  FaultsInv'
<1> DEFINE n == Len(out)
<1>0. /\ size' = size /\ tick' = tick /\ applied' = applied /\ skipped' = skipped
      /\ down' = down /\ sides' = sides
  BY DEF D!running
<1>1. out \in Seq(Fault) /\ n \in Nat
  BY LenProperties DEF FaultsInv, DrawnInTurn
<1>2. /\ out' \in Seq(Fault) /\ Len(out') = n + 1 /\ out'[n + 1] = g
      /\ \A i \in 1..n : out'[i] = out[i]
  BY <1>1, AppendProperties
<1>3. 1..(n + 1) = (1..n) \cup {n + 1} /\ 0..(n + 1) = (0..n) \cup {n + 1}
  BY <1>1
<1>4. D!At \in whens /\ D!At \in Nat /\ D!At >= 2 /\ \A w \in whens : D!At <= w
  BY NextTickDrawn DEF D!FaultsConstants
<1>5. /\ whens \subseteq 2..(Ticks - 2)
      /\ \A i, j \in 1..n : i < j => out[i].at < out[j].at
      /\ \A i \in 1..n : 0 < out[i].at /\ \A w \in whens : out[i].at < w
  BY DEF FaultsInv, DrawnInTurn
<1>6. DrawnInTurn'
  <2>1. ASSUME NEW i \in 1..(n + 1), NEW j \in 1..(n + 1), i < j
        PROVE  out'[i].at < out'[j].at
    <3>1. i \in 1..n
      BY <1>1, <2>1
    <3>2. CASE j \in 1..n
      BY <3>1, <3>2, <2>1, <1>2, <1>5
    <3>3. CASE j = n + 1
      BY <3>1, <3>3, <1>2, <1>4, <1>5
    <3> QED BY <3>2, <3>3, <1>3
  <2>2. ASSUME NEW i \in 1..(n + 1)
        PROVE  0 < out'[i].at /\ \A w \in whens' : out'[i].at < w
    <3>1. CASE i \in 1..n
      BY <3>1, <1>2, <1>5
    <3>2. CASE i = n + 1
      <4>1. out'[i].at = D!At
        BY <3>2, <1>2
      <4>2. ASSUME NEW w \in whens' PROVE D!At < w
        <5>1. w \in Nat /\ D!At <= w /\ D!At # w
          BY <1>4, <1>5
        <5> QED BY <5>1, <1>4
      <4> QED BY <4>1, <4>2, <1>4
    <3> QED BY <3>1, <3>2, <1>3
  <2> HIDE DEF n
  <2>3. Fault' = Fault
    BY <1>0 DEF Fault
  <2>4. (size \in Sizes)' /\ whens' \subseteq 2..(Ticks - 2)
    BY <1>0, <1>5 DEF FaultsInv, DrawnInTurn
  <2>5. ASSUME NEW i \in 1..(n + 1)
        PROVE  out'[i].target \in 0..size'
    <3>1. i \in 1..n \/ i = n + 1
      BY <1>3
    <3>2. \A j \in 1..n : out[j].target \in 0..size
      BY DEF FaultsInv, DrawnInTurn, n
    <3> QED BY <3>1, <3>2, <1>0, <1>2
  <2> QED BY <1>2, <2>1, <2>2, <2>3, <2>4, <2>5 DEF DrawnInTurn
<1>7. /\ \A i \in 0..n : /\ StoppedAfter(out', i) = StoppedAfter(out, i)
                           /\ SplitAfter(out', i) = SplitAfter(out, i)
      /\ StoppedAfter(out', n + 1) = Leaves(g, marked)
      /\ SplitAfter(out', n + 1) = Parts(g, split)
  <2>1. ASSUME NEW i \in 0..n
        PROVE  /\ StoppedAfter(out', i) = StoppedAfter(out, i)
               /\ SplitAfter(out', i) = SplitAfter(out, i)
    <3>1. i \in Nat /\ \A j \in 1..i : out'[j] = out[j]
      BY <1>1, <1>2
    <3> HIDE DEF n
    <3> QED BY <3>1, AfterSame
  <2>2. n \in 0..n
    BY <1>1
  <2>3. marked = StoppedAfter(out', n) /\ split = SplitAfter(out', n)
    BY <2>1, <2>2 DEF FaultsInv, EveryFaultFinds
  <2>4. /\ StoppedAfter(out', n + 1) = Leaves(out'[n + 1], StoppedAfter(out', n))
        /\ SplitAfter(out', n + 1) = Parts(out'[n + 1], SplitAfter(out', n))
    <3>1. out'[n + 1] \in Fault
      BY <1>2
    <3> HIDE DEF n
    <3> QED BY <1>1, <3>1, AfterOne
  <2> QED BY <1>2, <2>1, <2>3, <2>4
<1>8. EveryFaultFinds'
  <2>1. ASSUME NEW i \in 1..(n + 1)
        PROVE  Finds(out'[i], StoppedAfter(out', i - 1), SplitAfter(out', i - 1))
    <3>1. CASE i \in 1..n
      <4>1. i - 1 \in 0..n /\ out'[i] = out[i]
        BY <1>1, <1>2, <3>1
      <4>2. Finds(out[i], StoppedAfter(out, i - 1), SplitAfter(out, i - 1))
        BY <3>1 DEF FaultsInv, EveryFaultFinds
      <4> QED BY <4>1, <4>2, <1>7
    <3>2. CASE i = n + 1
      <4>1. i - 1 = n /\ n \in 0..n
        BY <1>1, <3>2
      <4>2. marked = StoppedAfter(out, n) /\ split = SplitAfter(out, n)
        BY DEF FaultsInv, EveryFaultFinds
      <4> QED BY <3>2, <4>1, <4>2, <1>2, <1>7
    <3> QED BY <3>1, <3>2, <1>3
  <2>2. ASSUME size > 1, NEW i \in 0..(n + 1)
        PROVE  2 * Cardinality(StoppedAfter(out', i)) <= size
    <3>1. CASE i \in 0..n
      BY <2>2, <3>1, <1>7 DEF FaultsInv, EveryFaultFinds
    <3>2. CASE i = n + 1
      BY <2>2, <3>2, <1>7
    <3> QED BY <3>1, <3>2, <1>3
  <2> QED BY <1>0, <1>2, <1>7, <2>1, <2>2 DEF EveryFaultFinds
<1>9. InjectedSoFar'
  <2>1. tick = 0 /\ applied \in 0..n /\ skipped = 0 /\ \A i \in 1..n : out[i].at <= tick <=> i <= applied
    BY DEF FaultsInv, InjectedSoFar
  <2>2. applied' \in 0..Len(out') /\ applied \in 0..n /\ tick' = 0 /\ skipped' = 0
    BY <1>0, <1>1, <1>2, <2>1
  <2>3. ASSUME NEW i \in 1..(n + 1)
        PROVE  out'[i].at <= tick' <=> i <= applied'
    <3>1. CASE i \in 1..n
      BY <3>1, <1>0, <1>2, <2>1
    <3>2. CASE i = n + 1
      BY <3>2, <1>0, <1>1, <1>2, <1>4, <2>1
    <3> QED BY <3>1, <3>2, <1>3
  <2>4. down' = StoppedAfter(out', applied') /\ sides' = SplitAfter(out', applied')
    BY <1>0, <1>7, <2>1 DEF FaultsInv, InjectedSoFar
  <2> QED BY <1>2, <2>2, <2>3, <2>4 DEF InjectedSoFar
<1> QED BY <1>6, <1>8, <1>9 DEF FaultsInv

\* Who is stopped is a target, so they are a finite set.
LEMMA StoppedAreFew ==
  ASSUME D!FaultsConstants, FaultsInv, NEW i \in 0..Len(out)
  PROVE  /\ StoppedAfter(out, i) \subseteq 0..size /\ IsFiniteSet(StoppedAfter(out, i))
         /\ Cardinality(StoppedAfter(out, i)) \in Nat
<1>1. size \in Nat /\ Len(out) \in Nat /\ \A j \in 1..Len(out) : out[j].target \in 0..size
  BY LenProperties DEF FaultsInv, DrawnInTurn, D!FaultsConstants
<1>2. \A j \in 1..i : j \in 1..Len(out)
  BY <1>1
<1>3. StoppedAfter(out, i) \subseteq 0..size
  BY <1>1, <1>2 DEF StoppedAfter
<1>4. IsFiniteSet(StoppedAfter(out, i))
  BY <1>1, <1>3, PartOfInterval
<1> QED BY <1>3, <1>4, FS_CardinalityType

\* One round of the generator.
LEMMA DrawKeeps ==
  ASSUME D!FaultsConstants, FaultsInv, NEW quarter \in 1..4, D!Draw(quarter)
  PROVE  FaultsInv'
<1>0. /\ whens # {} /\ raised = FALSE /\ UNCHANGED <<size, D!running>> /\ size \in Nat \ {0}
      /\ split \in BOOLEAN
  BY DEF D!Draw, FaultsInv, DrawnInTurn, EveryFaultFinds, D!FaultsConstants, SplitAfter
<1>1. /\ D!CRASH # D!RESTART /\ D!CRASH # D!PARTITION /\ D!CRASH # D!HEAL
      /\ D!RESTART # D!PARTITION /\ D!RESTART # D!HEAL /\ D!PARTITION # D!HEAL
  BY DEF D!CRASH, D!RESTART, D!PARTITION, D!HEAL
<1>2. /\ marked \subseteq 0..size /\ IsFiniteSet(marked) /\ Cardinality(marked) \in Nat
      /\ size > 1 => 2 * Cardinality(marked) <= size
  <2>1. Len(out) \in 0..Len(out)
    BY LenProperties DEF FaultsInv, DrawnInTurn
  <2> QED BY <2>1, StoppedAreFew DEF FaultsInv, EveryFaultFinds
<1> DEFINE fault(kind, target) == [kind |-> kind, at |-> D!At, target |-> target]
<1>3. ASSUME NEW kind \in Kinds, NEW target \in 0..size, D!Adds(kind, target),
             Finds(fault(kind, target), marked, split),
             marked' = Leaves(fault(kind, target), marked),
             split' = Parts(fault(kind, target), split),
             size > 1 => 2 * Cardinality(Leaves(fault(kind, target), marked)) <= size
      PROVE  FaultsInv'
  <2> DEFINE g == fault(kind, target)
  <2>1. D!At \in Nat /\ target \in Nat
    BY <1>0, NextTickDrawn DEF D!FaultsConstants
  <2>2. g \in Fault /\ g.at = D!At /\ g.target \in 0..size
    BY <2>1 DEF Fault
  <2>3. out' = Append(out, g) /\ whens' = whens \ {D!At} /\ raised' = FALSE
    BY <1>0, <1>3 DEF D!Adds
  <2> HIDE DEF g
  <2>4. Finds(g, marked, split) /\ marked' = Leaves(g, marked) /\ split' = Parts(g, split)
        /\ (size > 1 => 2 * Cardinality(Leaves(g, marked)) <= size)
    BY <1>3 DEF g
  <2> QED BY <1>0, <2>2, <2>3, <2>4, DrawnOne
<1>4. ASSUME NEW m \in D!Members \ marked, D!Stops(m),
             size > 1 => 2 * (Cardinality(marked) + 1) <= size
      PROVE  FaultsInv'
  <2> DEFINE g == fault(D!CRASH, m)
  <2>1. m \in 0..size /\ D!CRASH \in Kinds
    BY <1>0 DEF D!Members, Kinds
  <2>2. Leaves(g, marked) = marked \cup {m} /\ Parts(g, split) = split /\ Finds(g, marked, split)
    BY <1>1, <1>4 DEF Leaves, Parts, Finds
  <2>3. Cardinality(marked \cup {m}) = Cardinality(marked) + 1
    BY <1>2, <1>4, FS_AddElement
  <2>4. D!Adds(D!CRASH, m) /\ marked' = Leaves(g, marked) /\ split' = Parts(g, split)
    BY <2>2, <1>4 DEF D!Stops
  <2>5. size > 1 => 2 * Cardinality(Leaves(g, marked)) <= size
    BY <2>2, <2>3, <1>4
  <2> QED BY <2>1, <2>2, <2>4, <2>5, <1>3
<1>5. ASSUME NEW m \in marked, D!Starts(m)
      PROVE  FaultsInv'
  <2> DEFINE g == fault(D!RESTART, m)
  <2>1. m \in 0..size /\ D!RESTART \in Kinds
    BY <1>2 DEF Kinds
  <2>2. Leaves(g, marked) = marked \ {m} /\ Parts(g, split) = split /\ Finds(g, marked, split)
    BY <1>1, <1>5 DEF Leaves, Parts, Finds
  <2>3. Cardinality(marked \ {m}) = Cardinality(marked) - 1
    BY <1>2, <1>5, FS_RemoveElement
  <2>4. D!Adds(D!RESTART, m) /\ marked' = Leaves(g, marked) /\ split' = Parts(g, split)
    BY <2>2, <1>5 DEF D!Starts
  <2>5. size > 1 => 2 * Cardinality(Leaves(g, marked)) <= size
    <3> DEFINE c == Cardinality(marked)
    <3>1. size > 1 => 2 * (c - 1) <= size
      <4>1. c \in Nat /\ (size > 1 => 2 * c <= size) /\ size \in Nat
        BY <1>0, <1>2
      <4> HIDE DEF c
      <4> QED BY <4>1
    <3> QED BY <3>1, <2>2, <2>3
  <2> QED BY <2>1, <2>2, <2>4, <2>5, <1>3
<1>6. ASSUME D!Splits, ~split
      PROVE  FaultsInv'
  <2>1. CASE size = 1
    <3>1. /\ raised' = TRUE /\ whens' = whens /\ out' = out /\ marked' = marked
          /\ split' = split /\ UNCHANGED <<size, tick, down, sides, applied, skipped>>
      BY <1>0, <1>6, <2>1 DEF D!Splits, D!running
    <3>2. DrawnInTurn'
      BY <3>1, <1>0 DEF FaultsInv, DrawnInTurn
    <3>3. EveryFaultFinds' /\ InjectedSoFar'
      BY <3>1 DEF FaultsInv, EveryFaultFinds, InjectedSoFar
    <3> QED BY <3>2, <3>3 DEF FaultsInv
  <2>2. CASE size # 1
    <3> DEFINE g == fault(D!PARTITION, D!NoTarget)
    <3>1. D!NoTarget \in 0..size /\ D!PARTITION \in Kinds
      BY <1>0 DEF D!NoTarget, Kinds
    <3>2. Leaves(g, marked) = marked /\ Parts(g, split) = TRUE /\ Finds(g, marked, split)
      BY <1>1, <1>6 DEF Leaves, Parts, Finds
    <3>3. D!Adds(D!PARTITION, D!NoTarget) /\ marked' = Leaves(g, marked) /\ split' = Parts(g, split)
      BY <3>2, <2>2, <1>6 DEF D!Splits
    <3> QED BY <3>1, <3>2, <3>3, <1>2, <1>3
  <2> QED BY <2>1, <2>2
<1>7. ASSUME D!Heals, split
      PROVE  FaultsInv'
  <2> DEFINE g == fault(D!HEAL, D!NoTarget)
  <2>1. D!NoTarget \in 0..size /\ D!HEAL \in Kinds
    BY <1>0 DEF D!NoTarget, Kinds
  <2>2. Leaves(g, marked) = marked /\ Parts(g, split) = FALSE /\ Finds(g, marked, split)
    BY <1>1, <1>7 DEF Leaves, Parts, Finds
  <2>3. D!Adds(D!HEAL, D!NoTarget) /\ marked' = Leaves(g, marked) /\ split' = Parts(g, split)
    BY <2>2, <1>7 DEF D!Heals
  <2> QED BY <2>1, <2>2, <2>3, <1>2, <1>3
<1>8. CASE quarter = 1 /\ D!Cardinality(marked) < size \div 2
  <2>1. PICK m \in D!Members \ marked : D!Stops(m)
    BY <1>8 DEF D!Draw
  <2>2. 2 * (Cardinality(marked) + 1) <= size
    <3>1. Cardinality(marked) < size \div 2
      BY <1>8 DEF D!Cardinality, Cardinality
    <3> DEFINE c == Cardinality(marked)
    <3>2. c \in Nat /\ size \in Nat /\ c + 1 <= size \div 2
      BY <3>1, <1>0, <1>2
    <3> HIDE DEF c
    <3>3. 2 * (size \div 2) <= size /\ size \div 2 \in Nat
      BY <3>2
    <3>4. 2 * (c + 1) <= 2 * (size \div 2)
      BY <3>2, <3>3
    <3> QED BY <3>2, <3>3, <3>4 DEF c
  <2> QED BY <2>1, <2>2, <1>4
<1>9. CASE ~(quarter = 1 /\ D!Cardinality(marked) < size \div 2)
  <2>1. CASE \E m \in marked : D!Starts(m)
    BY <2>1, <1>5
  <2>2. CASE D!Splits /\ ~split
    BY <2>2, <1>6
  <2>3. CASE D!Heals /\ split
    BY <2>3, <1>7
  <2>4. CASE marked = {} /\ \E m \in D!Members : D!Stops(m)
    <3>1. PICK m \in D!Members \ marked : D!Stops(m)
      BY <2>4
    <3>2. size > 1 => 2 * (Cardinality(marked) + 1) <= size
      <4>1. Cardinality(marked) = 0
        BY <2>4, FS_EmptySet
      <4> QED BY <4>1, <1>0
    <3> QED BY <3>1, <3>2, <1>4
  <2>5. (\E m \in marked : D!Starts(m)) \/ (D!Splits /\ ~split) \/ (D!Heals /\ split)
        \/ (marked = {} /\ \E m \in D!Members : D!Stops(m))
    BY <1>9 DEF D!Draw
  <2> QED BY <2>1, <2>2, <2>3, <2>4, <2>5
<1> QED BY <1>8, <1>9

-----------------------------------------------------------------------------
(* Running.                                                                *)

\* What the cluster makes of a fault that finds something to do.
LEMMA InjectDoes ==
  ASSUME NEW g \in Fault, D!Inject(g), Finds(g, down, sides)
  PROVE  /\ applied' = applied + 1 /\ skipped' = skipped
         /\ down' = Leaves(g, down) /\ sides' = Parts(g, sides)
<1>1. D!Bites(g)
  BY DEF Finds, D!Bites
<1> QED BY <1>1 DEF D!Inject, Leaves, Parts

LEMMA TickKeeps ==
  ASSUME D!FaultsConstants, FaultsInv, D!Tick
  PROVE  FaultsInv'
<1> DEFINE n == Len(out)
<1>0. /\ whens = {} /\ tick' = tick + 1 /\ size' = size /\ whens' = whens /\ out' = out
      /\ marked' = marked /\ split' = split /\ raised' = raised
  BY DEF D!Tick, D!drawing
<1>1. /\ out \in Seq(Fault) /\ n \in Nat /\ DOMAIN out = 1..n
      /\ \A i, j \in 1..n : i < j => out[i].at < out[j].at
      /\ \A i \in 1..n : out[i] \in Fault /\ out[i].at \in Nat
  <2>1. out \in Seq(Fault) /\ \A i, j \in 1..n : i < j => out[i].at < out[j].at
    BY DEF FaultsInv, DrawnInTurn
  <2>2. n \in Nat /\ DOMAIN out = 1..n /\ \A i \in 1..n : out[i] \in Fault
    BY <2>1, LenProperties, ElementOfSeq
  <2> HIDE DEF n
  <2> QED BY <2>1, <2>2 DEF Fault
<1>2. /\ tick \in Nat /\ applied \in 0..n /\ skipped = 0
      /\ \A i \in 1..n : out[i].at <= tick <=> i <= applied
      /\ down = StoppedAfter(out, applied) /\ sides = SplitAfter(out, applied)
  BY DEF FaultsInv, InjectedSoFar
<1>3. DrawnInTurn' /\ EveryFaultFinds'
  BY <1>0 DEF FaultsInv, DrawnInTurn, EveryFaultFinds
<1>4. CASE /\ \A i \in DOMAIN out : out[i].at # tick + 1
           /\ UNCHANGED <<down, sides, applied, skipped>>
  <2>1. \A i \in 1..n : out[i].at <= tick + 1 <=> i <= applied
    <3> HIDE DEF n
    <3>1. \A i \in 1..n : out[i].at # tick + 1
      BY <1>1, <1>4
    <3> QED BY <3>1, <1>1, <1>2
  <2>2. tick' \in Nat /\ (whens' # {} => tick' = 0)
    BY <1>0, <1>2
  <2>3. InjectedSoFar'
    BY <1>0, <1>2, <1>4, <2>1, <2>2 DEF InjectedSoFar
  <2> QED BY <1>3, <2>3 DEF FaultsInv
<1>5. ASSUME NEW i \in DOMAIN out, out[i].at = tick + 1, D!Inject(out[i])
      PROVE  FaultsInv'
  <2>1. i = applied + 1 /\ i \in 1..n
    <3> HIDE DEF n
    <3>1. i \in 1..n /\ i > applied
      BY <1>1, <1>2, <1>5
    <3>2. ASSUME i > applied + 1
          PROVE  FALSE
      <4>1. applied + 1 \in 1..n /\ applied + 1 < i
        BY <1>1, <1>2, <3>1, <3>2
      <4>2. out[applied + 1].at < tick + 1 /\ out[applied + 1].at \in Nat
        BY <4>1, <3>1, <1>1, <1>5
      <4>3. out[applied + 1].at <= tick
        BY <4>2, <1>2
      <4>4. applied + 1 <= applied
        BY <4>1, <4>3, <1>2
      <4> QED BY <4>4, <1>2
    <3> QED BY <3>1, <3>2, <1>2
  <2>2. out[i] \in Fault /\ Finds(out[i], down, sides)
    <3>1. i - 1 = applied
      BY <2>1, <1>2
    <3>2. Finds(out[i], StoppedAfter(out, i - 1), SplitAfter(out, i - 1))
      BY <2>1 DEF FaultsInv, EveryFaultFinds
    <3> QED BY <3>1, <3>2, <2>1, <1>1, <1>2
  <2>3. /\ applied' = applied + 1 /\ skipped' = 0
        /\ down' = Leaves(out[i], down) /\ sides' = Parts(out[i], sides)
    BY <2>2, <1>2, <1>5, InjectDoes
  <2>4. down' = StoppedAfter(out, applied') /\ sides' = SplitAfter(out, applied')
    <3>1. applied \in Nat /\ out[applied + 1] \in Fault
      BY <1>2, <2>1, <2>2
    <3> QED BY <3>1, <2>1, <2>3, <1>2, AfterOne
  <2>5. \A j \in 1..n : out[j].at <= tick + 1 <=> j <= applied + 1
    <3> HIDE DEF n
    <3> SUFFICES ASSUME NEW j \in 1..n
                 PROVE  out[j].at <= tick + 1 <=> j <= applied + 1
      OBVIOUS
    <3>1. CASE j < i
      <4>1. out[j].at < out[i].at
        BY <3>1, <2>1, <1>1
      <4> QED BY <4>1, <3>1, <2>1, <1>1, <1>2, <1>5
    <3>2. CASE j = i
      BY <3>2, <2>1, <1>1, <1>2, <1>5
    <3>3. CASE j > i
      <4>1. out[i].at < out[j].at
        BY <3>3, <2>1, <1>1
      <4> QED BY <4>1, <3>3, <2>1, <1>1, <1>2, <1>5
    <3> QED BY <3>1, <3>2, <3>3, <2>1
  <2>6. tick' \in Nat /\ (whens' # {} => tick' = 0) /\ applied' \in 0..n
    BY <1>0, <1>1, <1>2, <2>1, <2>3
  <2>7. InjectedSoFar'
    BY <1>0, <2>3, <2>4, <2>5, <2>6 DEF InjectedSoFar
  <2> QED BY <1>3, <2>7 DEF FaultsInv
<1> QED BY <1>4, <1>5 DEF D!Tick

\* The invariant says what was to be shown.
LEMMA FaultsAreEnough ==
  ASSUME D!FaultsConstants, FaultsInv
  PROVE  D!NoFaultIsInert
<1>1. /\ applied \in 0..Len(out) /\ skipped = 0 /\ Len(out) \in Nat /\ DOMAIN out = 1..Len(out)
      /\ \A i \in 1..Len(out) : out[i].at <= tick <=> i <= applied
  BY LenProperties DEF FaultsInv, DrawnInTurn, InjectedSoFar
<1>2. applied = Cardinality({i \in DOMAIN out : out[i].at <= tick})
  <2>1. {i \in DOMAIN out : out[i].at <= tick} = 1..applied
    BY <1>1
  <2>2. Cardinality(1..applied) = applied
    BY <1>1, FS_Interval
  <2> QED BY <2>1, <2>2
<1>3. size > 1 => 2 * Cardinality(down) <= size
  BY <1>1 DEF FaultsInv, EveryFaultFinds, InjectedSoFar
<1> QED BY <1>1, <1>2, <1>3 DEF D!NoFaultIsInert, D!Cardinality, Cardinality

\* No fault of a generated schedule finds nothing to do, whatever was drawn, and no more
\* than half of a cluster of two or more is ever stopped.
THEOREM NoFaultIsDrawnInVain == Searching => []NoFaultIsInert
<1>1. D!FaultsConstants
  BY SearchesAssumption
<1>2. D!Init => FaultsInv
  BY <1>1, FaultsInit
<1>3. FaultsInv /\ [D!Next]_D!vars => FaultsInv'
  <2> SUFFICES ASSUME FaultsInv, [D!Next]_D!vars PROVE FaultsInv'
    OBVIOUS
  <2>1. CASE D!Tick
    BY <1>1, <2>1, TickKeeps
  <2>2. ASSUME NEW quarter \in 1..4, D!Draw(quarter) PROVE FaultsInv'
    BY <1>1, <2>2, DrawKeeps
  <2>3. CASE UNCHANGED D!vars
    BY <2>3 DEF D!vars, D!drawing, D!running, FaultsInv, DrawnInTurn, EveryFaultFinds, InjectedSoFar
  <2> QED BY <2>1, <2>2, <2>3 DEF D!Next
<1>4. FaultsInv => NoFaultIsInert
  BY <1>1, FaultsAreEnough DEF NoFaultIsInert
<1> QED BY <1>2, <1>3, <1>4, FaultsMove, PTL DEF D!Spec

-----------------------------------------------------------------------------
(* The checks of a finished run.                                           *)

\* A behaviour of the searches is one of inspect.
LEMMA RunsMove == Searching => K!Spec
<1>1. Begin => K!Init
  BY DEF Begin
<1>2. [Step]_searched => [K!Next]_K!vars
  BY DEF Step, searched, finished, K!vars
<1> QED BY <1>1, <1>2, PTL DEF Searching, K!Spec

\* The invariant: what is reported is what the checks find.
CheckersInv ==
  /\ run \in Runs
  /\ inspected \in BOOLEAN
  /\ ~inspected => broken = {}
  /\ inspected =>
       /\ K!ELECTION_SAFETY \in broken <=> K!ElectionBreached
       /\ K!LOG_MATCHING \in broken <=> K!MatchingBreached
       /\ K!LEADER_COMPLETENESS \in broken <=> K!CompletenessBreached
       /\ K!STATE_MACHINE_SAFETY \in broken <=> K!AppliedBreached

\* A log in a view.
LEMMA ViewedLog ==
  ASSUME NEW v \in K!Viewed
  PROVE  /\ v.term \in Nat /\ v.commit \in Nat
         /\ v.log.base \in Nat /\ Len(v.log.entries) \in Nat
         /\ K!FirstIndex(v.log) = v.log.base + 1
         /\ K!LastIndex(v.log) = v.log.base + Len(v.log.entries)
         /\ K!FirstIndex(v.log) \in Nat /\ K!LastIndex(v.log) \in Nat
         /\ \A i \in Int : K!Holds(v.log, i)
                            <=> i \in K!FirstIndex(v.log)..K!LastIndex(v.log)
         /\ \A i \in Int : K!Holds(v.log, i)
                            => K!At(v.log, i) \in [term : Nat, command : Cmd]
<1>1. /\ v.term \in Nat /\ v.commit \in Nat /\ v.log.base \in Nat
      /\ v.log.entries \in Seq([term : Nat, command : Cmd])
  BY DEF K!Viewed, K!LogOf
<1>2. Len(v.log.entries) \in Nat
  BY <1>1, LenProperties
<1>3. /\ K!FirstIndex(v.log) = v.log.base + 1
      /\ K!LastIndex(v.log) = v.log.base + Len(v.log.entries)
  BY DEF K!FirstIndex, K!LastIndex
<1>4. \A i \in Int : K!Holds(v.log, i) <=> i \in K!FirstIndex(v.log)..K!LastIndex(v.log)
  BY <1>1, <1>2, <1>3 DEF K!Holds
<1>5. ASSUME NEW i \in Int, K!Holds(v.log, i)
      PROVE  K!At(v.log, i) \in [term : Nat, command : Cmd]
  <2>1. i - v.log.base \in 1..Len(v.log.entries)
    BY <1>1, <1>2, <1>3, <1>5 DEF K!Holds
  <2>2. v.log.entries[i - v.log.base] \in [term : Nat, command : Cmd]
    BY <1>1, <2>1, ElementOfSeq
  <2> QED BY <2>2 DEF K!At
<1> QED BY <1>1, <1>2, <1>3, <1>4, <1>5

\* The indices that two logs of views share are those both hold.
LEMMA SharedIsHeld ==
  ASSUME NEW v \in K!Viewed, NEW u \in K!Viewed, NEW i
  PROVE  /\ i \in K!Shared(v.log, u.log)
              <=> i \in Int /\ K!Holds(v.log, i) /\ K!Holds(u.log, i)
         /\ K!Shared(v.log, u.log) \subseteq K!FirstIndex(v.log)..K!LastIndex(v.log)
<1> DEFINE a == K!FirstIndex(v.log)  b == K!FirstIndex(u.log)
           c == K!LastIndex(v.log)   d == K!LastIndex(u.log)
<1>1. a \in Nat /\ b \in Nat /\ c \in Nat /\ d \in Nat
  BY ViewedLog
<1>2. K!Max({a, b}) = (IF a >= b THEN a ELSE b) /\ K!Min({c, d}) = (IF c <= d THEN c ELSE d)
  <2>1. Max({a, b}) = (IF a >= b THEN a ELSE b) /\ Min({c, d}) = (IF c <= d THEN c ELSE d)
    BY <1>1, MaxOfPair, MinOfPair
  <2> QED BY <2>1 DEF K!Max, K!Min, Max, Min
<1>3. K!Shared(v.log, u.log) = K!Max({a, b})..K!Min({c, d})
  BY DEF K!Shared
<1>4. \A j \in Int : (K!Holds(v.log, j) <=> j \in a..c) /\ (K!Holds(u.log, j) <=> j \in b..d)
  BY ViewedLog
<1> HIDE DEF a, b, c, d
<1>5. \A j : j \in K!Shared(v.log, u.log) <=> j \in a..c /\ j \in b..d
  BY <1>1, <1>2, <1>3
<1>6. \A j : j \in a..c => j \in Int
  OBVIOUS
<1>7. i \in K!Shared(v.log, u.log) <=> i \in Int /\ K!Holds(v.log, i) /\ K!Holds(u.log, i)
  BY <1>4, <1>5, <1>6
<1> QED BY <1>5, <1>7 DEF a, c

\* A node was running at some last moment, and that is how the run left it.
LEMMA LeftIsView ==
  ASSUME K!CheckersConstants, run \in Runs, NEW n \in K!Nodes
  PROVE  /\ \E k \in K!Moments : n \in K!Running(k) /\ K!Left(n) = K!View(k, n)
         /\ K!Left(n) \in K!Viewed
         /\ K!Left(n).commit <= K!LastIndex(K!Left(n).log)
         /\ \A k \in K!Moments : n \in K!Running(k) =>
              /\ K!View(k, n) \in K!Viewed
              /\ K!View(k, n).commit <= K!LastIndex(K!View(k, n).log)
              /\ K!View(k, n).log.base <= K!Left(n).log.base
<1>1. K!IsRun(run)
  BY DEF K!CheckersConstants
<1>2. /\ K!Moments = 1..Len(run.history) /\ Len(run.history) \in Nat \ {0}
      /\ \E k \in K!Moments : n \in K!Running(k)
  BY <1>1 DEF K!IsRun, K!Moments, K!Nodes, K!Running
<1> DEFINE S == {k \in K!Moments : n \in K!Running(k)}
<1>3. K!Max(S) \in S /\ \A k \in S : K!Max(S) >= k
  <2>1. S \subseteq 1..Len(run.history) /\ S # {} /\ Len(run.history) \in Int
    BY <1>2
  <2>2. S \subseteq Int /\ IsFiniteSet(S)
    <3> HIDE DEF S
    <3>1. 1 \in Int
      OBVIOUS
    <3> QED BY <2>1, <3>1, PartOfInterval
  <2>3. Max(S) \in S /\ \A k \in S : Max(S) >= k
    BY <2>1, <2>2, MaxOfFinite
  <2> QED BY <2>3 DEF K!Max, Max
<1>4. K!Left(n) = K!View(K!Max(S), n)
  BY DEF K!Left
<1>5. ASSUME NEW k \in K!Moments, n \in K!Running(k)
      PROVE  /\ K!View(k, n) \in K!Viewed
             /\ K!View(k, n).commit <= K!LastIndex(K!View(k, n).log)
  BY <1>1, <1>5 DEF K!IsRun, K!Moments, K!Running, K!View
<1>6. ASSUME NEW k \in K!Moments, n \in K!Running(k)
      PROVE  K!View(k, n).log.base <= K!Left(n).log.base
  <2>1. K!Max(S) \in K!Moments /\ n \in K!Running(K!Max(S)) /\ k \in 1..K!Max(S)
    BY <1>2, <1>3, <1>6
  <2>2. K!View(k, n).log.base <= K!View(K!Max(S), n).log.base
    BY <1>1, <1>6, <2>1 DEF K!IsRun, K!Moments, K!Running, K!View
  <2> QED BY <2>2, <1>4
<1> HIDE DEF S
<1>7. K!Max(S) \in K!Moments /\ n \in K!Running(K!Max(S))
  BY <1>3 DEF S
<1> QED BY <1>4, <1>5, <1>6, <1>7

\* The nodes that a run left running.
LEMMA NodesOfRun ==
  ASSUME K!CheckersConstants, run \in Runs
  PROVE  /\ K!Up \subseteq K!Nodes /\ K!Nodes \subseteq Nat
         /\ IsFiniteSet(K!Nodes) /\ IsFiniteSet(K!Up)
         /\ K!Moments \subseteq Nat
         /\ \A k \in K!Moments : K!Running(k) \subseteq K!Nodes
         /\ \A n \in K!Nodes : /\ Len(run.applied[n]) \in Nat
                               /\ DOMAIN run.applied[n] = 1..Len(run.applied[n])
<1>1. K!IsRun(run)
  BY DEF K!CheckersConstants
<1>2. /\ K!Moments = 1..Len(run.history) /\ Len(run.history) \in Nat \ {0}
      /\ Len(run.history) \in K!Moments
  BY <1>1 DEF K!IsRun, K!Moments
<1>3. \A k \in K!Moments : K!Running(k) \subseteq K!Nodes
  BY <1>1 DEF K!IsRun, K!Moments, K!Running, K!Nodes
<1>4. K!Nodes \subseteq Nat /\ IsFiniteSet(K!Nodes)
  BY <1>1 DEF K!IsRun, K!Nodes, K!IsFiniteSet, IsFiniteSet
<1>5. K!Up \in SUBSET K!Nodes
  BY <1>2, <1>3 DEF K!Up
<1>6. IsFiniteSet(K!Up)
  BY <1>4, <1>5, FS_Subset
<1>7. ASSUME NEW n \in K!Nodes
      PROVE  /\ Len(run.applied[n]) \in Nat
             /\ DOMAIN run.applied[n] = 1..Len(run.applied[n])
  <2>1. run.applied[n] \in Seq(Cmd)
    BY <1>1 DEF K!IsRun, K!Nodes
  <2> QED BY <2>1, LenProperties
<1>8. K!Moments \subseteq Nat
  BY <1>2
<1> QED BY <1>3, <1>4, <1>5, <1>6, <1>7, <1>8

\* Two logs that have an index of one term after a difference.
LEMMA DifferBelow ==
  ASSUME NEW v \in K!Viewed, NEW u \in K!Viewed
  PROVE  K!PrefixesDiffer(v.log, u.log) <=>
           \E i, j \in K!Shared(v.log, u.log) :
             /\ i < j /\ K!At(v.log, i) # K!At(u.log, i)
             /\ K!At(v.log, j).term = K!At(u.log, j).term
<1> DEFINE l == v.log  r == u.log  S == K!Shared(l, r)
           agreed == {i \in S : K!At(l, i).term = K!At(r, i).term}
<1>1. agreed \subseteq Int /\ IsFiniteSet(agreed) /\ S \subseteq Int
  <2>1. K!FirstIndex(l) \in Int /\ K!LastIndex(l) \in Int
    BY ViewedLog
  <2>2. S \subseteq K!FirstIndex(l)..K!LastIndex(l)
    BY SharedIsHeld
  <2>3. agreed \subseteq K!FirstIndex(l)..K!LastIndex(l)
    BY <2>2
  <2> HIDE DEF agreed, S
  <2>4. agreed \subseteq Int /\ IsFiniteSet(agreed)
    BY <2>1, <2>3, PartOfInterval
  <2> QED BY <2>1, <2>2, <2>4
<1>2. agreed # {} => K!Max(agreed) \in agreed /\ \A j \in agreed : K!Max(agreed) >= j
  <2> HIDE DEF agreed
  <2>1. agreed # {} => Max(agreed) \in agreed /\ \A j \in agreed : Max(agreed) >= j
    BY <1>1, MaxOfFinite
  <2> QED BY <2>1 DEF K!Max, Max
<1>3. K!PrefixesDiffer(l, r) <=>
        agreed # {} /\ \E i \in S : i < K!Max(agreed) /\ K!At(l, i) # K!At(r, i)
  BY DEF K!PrefixesDiffer
<1> DEFINE differ == \E i, j \in S : /\ i < j /\ K!At(l, i) # K!At(r, i)
                                     /\ K!At(l, j).term = K!At(r, j).term
<1>4. ASSUME K!PrefixesDiffer(l, r) PROVE differ
  <2>1. PICK i \in S : i < K!Max(agreed) /\ K!At(l, i) # K!At(r, i)
    BY <1>3, <1>4
  <2>2. K!Max(agreed) \in agreed
    BY <1>2, <1>3, <1>4
  <2>3. K!Max(agreed) \in S /\ K!At(l, K!Max(agreed)).term = K!At(r, K!Max(agreed)).term
    BY <2>2
  <2> QED BY <2>1, <2>3
<1>5. ASSUME NEW i \in S, NEW j \in S, i < j, K!At(l, i) # K!At(r, i),
             K!At(l, j).term = K!At(r, j).term
      PROVE  K!PrefixesDiffer(l, r)
  <2>1. j \in agreed
    BY <1>5
  <2>2. agreed # {} /\ K!Max(agreed) \in Int /\ K!Max(agreed) >= j
    BY <2>1, <1>1, <1>2
  <2>3. i < K!Max(agreed)
    <3> HIDE DEF agreed, S
    <3> QED BY <2>2, <1>1, <1>5
  <2> QED BY <2>2, <2>3, <1>3, <1>5
<1> QED BY <1>4, <1>5

\* The first log in the order of the membership that holds an index.
LEMMA FirstToHold ==
  ASSUME K!CheckersConstants, run \in Runs, NEW i \in Int,
         NEW n \in K!Up, K!Holds(K!Left(n).log, i)
  PROVE  LET m == K!Min({o \in K!Up : K!Holds(K!Left(o).log, i)})
         IN  /\ m \in K!Up /\ K!Holds(K!Left(m).log, i)
             /\ \A o \in K!Up : K!Holds(K!Left(o).log, i) => m <= o
<1> DEFINE S == {o \in K!Up : K!Holds(K!Left(o).log, i)}
<1>1. S \subseteq Int /\ S # {} /\ IsFiniteSet(S)
  <2>1. S \in SUBSET K!Up /\ IsFiniteSet(K!Up) /\ K!Up \subseteq Nat
    BY NodesOfRun
  <2>2. IsFiniteSet(S)
    BY <2>1, FS_Subset
  <2>3. n \in S
    OBVIOUS
  <2>4. S \subseteq Nat
    <3> HIDE DEF S
    <3> QED BY <2>1
  <2> HIDE DEF S
  <2> QED BY <2>2, <2>3, <2>4
<1>2. Min(S) \in S /\ \A x \in S : Min(S) <= x
  BY <1>1, MinOfFinite
<1>3. K!Min(S) = Min(S)
  BY DEF K!Min, Min
<1> QED BY <1>2, <1>3

\* Logs that the check finds to differ do.
LEMMA MatchingAlarmIsReal ==
  ASSUME K!CheckersConstants, run \in Runs, K!MatchingBreached
  PROVE  ~K!LogsMatch
<1>1. \A n \in K!Up : n \in K!Nodes /\ K!Left(n) \in K!Viewed
  BY NodesOfRun, LeftIsView
<1>2. ASSUME K!OneTermTwoCommands PROVE ~K!LogsMatch
  <2>1. PICK n \in K!Up : \E i \in K!FirstIndex(K!Left(n).log)..K!LastIndex(K!Left(n).log) :
          LET l == K!Left(K!Min({m \in K!Up : K!Holds(K!Left(m).log, i)})).log
          IN  /\ K!At(l, i).term = K!At(K!Left(n).log, i).term
              /\ K!At(l, i).command # K!At(K!Left(n).log, i).command
    BY <1>2 DEF K!OneTermTwoCommands
  <2>2. PICK i \in K!FirstIndex(K!Left(n).log)..K!LastIndex(K!Left(n).log) :
          LET l == K!Left(K!Min({m \in K!Up : K!Holds(K!Left(m).log, i)})).log
          IN  /\ K!At(l, i).term = K!At(K!Left(n).log, i).term
              /\ K!At(l, i).command # K!At(K!Left(n).log, i).command
    BY <2>1
  <2> DEFINE m == K!Min({o \in K!Up : K!Holds(K!Left(o).log, i)})
  <2>3. i \in Int /\ K!Holds(K!Left(n).log, i)
    <3>1. i \in Int
      OBVIOUS
    <3> QED BY <3>1, <1>1, ViewedLog
  <2>4. m \in K!Up /\ K!Holds(K!Left(m).log, i)
    BY <2>3, FirstToHold
  <2>5. /\ K!At(K!Left(m).log, i).term = K!At(K!Left(n).log, i).term
        /\ K!At(K!Left(m).log, i) # K!At(K!Left(n).log, i)
    BY <2>2
  <2> HIDE DEF m
  <2>6. i \in K!Shared(K!Left(m).log, K!Left(n).log) /\ i <= i
    BY <2>3, <2>4, <1>1, SharedIsHeld
  <2> QED BY <2>4, <2>5, <2>6 DEF K!LogsMatch
<1>3. ASSUME NEW m \in K!Up, NEW n \in K!Up, K!PrefixesDiffer(K!Left(m).log, K!Left(n).log)
      PROVE  ~K!LogsMatch
  <2>1. PICK i, j \in K!Shared(K!Left(m).log, K!Left(n).log) :
          /\ i < j /\ K!At(K!Left(m).log, i) # K!At(K!Left(n).log, i)
          /\ K!At(K!Left(m).log, j).term = K!At(K!Left(n).log, j).term
    BY <1>1, <1>3, DifferBelow
  <2>2. i <= j
    <3>1. i \in Int /\ j \in Int
      BY <1>1, SharedIsHeld
    <3> QED BY <3>1, <2>1
  <2> QED BY <2>1, <2>2 DEF K!LogsMatch
<1> QED BY <1>2, <1>3 DEF K!MatchingBreached

\* Replicas that the check finds to differ do.
LEMMA AppliedAlarmIsReal ==
  ASSUME K!CheckersConstants, run \in Runs, K!AppliedBreached
  PROVE  ~K!ReplicasAgree
<1> DEFINE lens == {Len(run.applied[n]) : n \in K!Up}
<1>1. /\ \A n \in K!Up : /\ Len(run.applied[n]) \in Nat
                         /\ DOMAIN run.applied[n] = 1..Len(run.applied[n])
      /\ IsFiniteSet(K!Up) /\ K!Up # {}
  BY NodesOfRun DEF K!AppliedBreached
<1>2. lens \subseteq Int /\ IsFiniteSet(lens) /\ lens # {}
  <2> DEFINE f == [n \in K!Up |-> Len(run.applied[n])]
  <2>1. f \in Surjection(K!Up, lens)
    BY DEF Surjection
  <2>2. IsFiniteSet(lens)
    BY <1>1, <2>1, FS_Surjection
  <2>3. lens \subseteq Int
    BY <1>1
  <2>4. lens # {}
    BY <1>1
  <2> QED BY <2>2, <2>3, <2>4
<1>3. K!Min(lens) \in Int /\ \A x \in lens : K!Min(lens) <= x
  <2>1. Min(lens) \in lens /\ \A x \in lens : Min(lens) <= x
    BY <1>2, MinOfFinite
  <2>2. Min(lens) = K!Min(lens)
    BY DEF Min, K!Min
  <2> HIDE DEF lens
  <2> QED BY <2>1, <2>2, <1>2
<1>4. PICK p \in 1..K!Min(lens) : \E m, n \in K!Up : run.applied[m][p] # run.applied[n][p]
  BY DEF K!AppliedBreached
<1>5. PICK m, n \in K!Up : run.applied[m][p] # run.applied[n][p]
  BY <1>4
<1>6. ASSUME NEW o \in K!Up PROVE p \in DOMAIN run.applied[o]
  <2>1. Len(run.applied[o]) \in lens
    OBVIOUS
  <2>2. K!Min(lens) <= Len(run.applied[o])
    BY <2>1, <1>3
  <2> HIDE DEF lens
  <2> QED BY <2>2, <1>1, <1>3
<1> QED BY <1>5, <1>6 DEF K!ReplicasAgree

\* Who first knew an index to be committed, if anyone did.
LEMMA WhoKnewFirst ==
  ASSUME K!CheckersConstants, run \in Runs, NEW i \in Int, i >= 1, K!Knew(i) # {}
  PROVE  \E k \in K!Moments : \E m \in K!Running(k) :
           /\ K!FirstToKnow(i) = <<k, m>> /\ m \in K!Nodes
           /\ i \in 1..K!View(k, m).commit /\ K!Holds(K!View(k, m).log, i)
           /\ K!Holds(K!Left(m).log, i)
<1> DEFINE S == K!Knew(i)
           earlier(w, v) == w[1] < v[1] \/ (w[1] = v[1] /\ w[2] <= v[2])
<1>0. K!Moments \subseteq Nat /\ K!Nodes \subseteq Nat
  BY NodesOfRun
<1>1. \A w \in S : /\ w[1] \in K!Moments /\ w[2] \in K!Nodes /\ w = <<w[1], w[2]>>
                   /\ w[2] \in K!Running(w[1]) /\ K!View(w[1], w[2]).commit >= i
                   /\ K!Holds(K!Left(w[2]).log, i)
  BY DEF K!Knew
<1> HIDE DEF S
<1>2. \E w \in S : \A v \in S : earlier(w, v)
  <2> DEFINE A == {w[1] : w \in S}
  <2>1. A \subseteq Nat /\ A # {}
    BY <1>0, <1>1 DEF S
  <2>2. PICK k \in A : \A x \in A : k <= x
    BY <2>1, LeastOfNaturals
  <2> DEFINE B == {w[2] : w \in {u \in S : u[1] = k}}
  <2>3. B \subseteq Nat /\ B # {}
    BY <1>0, <1>1
  <2>4. PICK n \in B : \A x \in B : n <= x
    BY <2>3, LeastOfNaturals
  <2>5. PICK w \in S : w[1] = k /\ w[2] = n
    BY <2>4
  <2>6. ASSUME NEW v \in S PROVE earlier(w, v)
    <3>1. v[1] \in A /\ v[1] \in Nat /\ k \in Nat /\ k <= v[1]
      BY <2>1, <2>2
    <3>2. v[1] = k => v[2] \in B /\ n <= v[2]
      BY <2>4
    <3> HIDE DEF A, B
    <3> QED BY <3>1, <3>2, <2>5
  <2> QED BY <2>6
<1> DEFINE first == CHOOSE w \in S : \A v \in S : earlier(w, v)
<1>3. first \in S
  BY <1>2
<1>4. K!FirstToKnow(i) = first
  BY DEF K!FirstToKnow, S
<1> HIDE DEF first
<1> DEFINE k == first[1]  m == first[2]
<1>5. /\ k \in K!Moments /\ m \in K!Nodes /\ m \in K!Running(k) /\ first = <<k, m>>
      /\ K!View(k, m).commit >= i /\ K!Holds(K!Left(m).log, i)
  BY <1>1, <1>3
<1> HIDE DEF k, m
<1>6. /\ K!View(k, m) \in K!Viewed /\ K!View(k, m).commit <= K!LastIndex(K!View(k, m).log)
      /\ K!View(k, m).log.base <= K!Left(m).log.base /\ K!Left(m) \in K!Viewed
  BY <1>5, LeftIsView
<1>7. i \in 1..K!View(k, m).commit
  BY <1>5, <1>6, ViewedLog
<1>8. K!Holds(K!View(k, m).log, i)
  <2>1. /\ K!View(k, m).commit \in Nat /\ K!View(k, m).log.base \in Nat
        /\ K!Left(m).log.base \in Nat
        /\ K!FirstIndex(K!View(k, m).log) = K!View(k, m).log.base + 1
        /\ K!LastIndex(K!View(k, m).log) \in Nat
        /\ i \in (K!Left(m).log.base + 1)..K!LastIndex(K!Left(m).log)
        /\ K!LastIndex(K!Left(m).log) \in Nat
    BY <1>5, <1>6, ViewedLog
  <2>2. i \in K!FirstIndex(K!View(k, m).log)..K!LastIndex(K!View(k, m).log)
    BY <2>1, <1>6, <1>7
  <2> QED BY <2>2, <1>6, ViewedLog
<1> QED BY <1>4, <1>5, <1>7, <1>8

\* A leader that the check finds to lack what was committed does, but for the exceptions.
LEMMA CompletenessAlarmIsReal ==
  ASSUME K!CheckersConstants, run \in Runs, K!CompletenessBreached,
         \A n \in K!Up, i \in K!Indices : ~K!MayBeFalse(n, i)
  PROVE  ~K!LeadersAreComplete
<1>1. PICK n \in K!Up, i \in K!Indices : K!Left(n).role = K!LEADER /\ K!Lacks(n, i)
  BY DEF K!CompletenessBreached
<1>2. i \in Int /\ i >= 1
  <2>1. \A x : i \in 1..x => i \in Int /\ i >= 1
    OBVIOUS
  <2> QED BY <2>1 DEF K!Indices
<1>3. K!Knew(i) # {} /\ K!Left(n).term > K!Committed(i).term /\ K!Without(n, i)
  BY <1>1 DEF K!Lacks
<1>4. PICK k \in K!Moments : \E m \in K!Running(k) :
        /\ K!FirstToKnow(i) = <<k, m>> /\ m \in K!Nodes
        /\ i \in 1..K!View(k, m).commit /\ K!Holds(K!View(k, m).log, i)
  BY <1>2, <1>3, WhoKnewFirst
<1>5. PICK m \in K!Running(k) :
        /\ K!FirstToKnow(i) = <<k, m>> /\ m \in K!Nodes
        /\ i \in 1..K!View(k, m).commit /\ K!Holds(K!View(k, m).log, i)
  BY <1>4
<1>6. n \in K!Nodes /\ m \in K!Nodes
  BY NodesOfRun
<1>7. PICK j \in K!Moments : n \in K!Running(j) /\ K!Left(n) = K!View(j, n)
  BY <1>6, LeftIsView
<1>8. /\ ~(i <= K!Left(n).log.base) /\ ~(K!Left(n).term <= K!View(k, m).term)
      /\ K!At(K!View(k, m).log, i) = K!Committed(i)
  <2>1. ~K!MayBeFalse(n, i)
    BY <1>1
  <2>2. <<k, m>>[1] = k /\ <<k, m>>[2] = m
    OBVIOUS
  <2> QED BY <2>1, <2>2, <1>1, <1>3, <1>5 DEF K!MayBeFalse
<1>9. K!View(j, n).term > K!View(k, m).term
  <2>1. K!View(k, m).term \in Nat /\ K!Left(n).term \in Nat
    BY <1>6, LeftIsView, ViewedLog
  <2> QED BY <2>1, <1>7, <1>8
<1>10. K!Leads(j, n)
  BY <1>1, <1>7 DEF K!Leads
<1> SUFFICES ASSUME K!LeadersAreComplete PROVE FALSE
  OBVIOUS
<1>11. K!Holds(K!Left(n).log, i) /\ K!At(K!Left(n).log, i) = K!At(K!View(k, m).log, i)
  BY <1>5, <1>7, <1>8, <1>9, <1>10 DEF K!LeadersAreComplete
<1> QED BY <1>3, <1>8, <1>11 DEF K!Without

\* Logs that meet again after a difference, or two that do not match.
LEMMA DifferencesAreFound ==
  ASSUME K!CheckersConstants, run \in Runs
  PROVE  /\ \A m, n \in K!Up : \A i, j \in K!Shared(K!Left(m).log, K!Left(n).log) :
              /\ i < j /\ K!At(K!Left(m).log, i) # K!At(K!Left(n).log, i)
              /\ K!At(K!Left(m).log, j).term = K!At(K!Left(n).log, j).term
              => K!MatchingBreached
         /\ Cardinality(K!Up) = 2 /\ ~K!LogsMatch => K!MatchingBreached
<1>1. \A n \in K!Up : n \in K!Nodes /\ K!Left(n) \in K!Viewed /\ n \in Nat
  BY NodesOfRun, LeftIsView
<1>2. ASSUME NEW m \in K!Up, NEW n \in K!Up,
             NEW i \in K!Shared(K!Left(m).log, K!Left(n).log),
             NEW j \in K!Shared(K!Left(m).log, K!Left(n).log),
             i < j, K!At(K!Left(m).log, i) # K!At(K!Left(n).log, i),
             K!At(K!Left(m).log, j).term = K!At(K!Left(n).log, j).term
      PROVE  K!MatchingBreached
  <2>1. K!PrefixesDiffer(K!Left(m).log, K!Left(n).log)
    BY <1>1, <1>2, DifferBelow
  <2> QED BY <2>1 DEF K!MatchingBreached
<1>3. ASSUME Cardinality(K!Up) = 2, ~K!LogsMatch
      PROVE  K!MatchingBreached
  <2>1. PICK m, n \in K!Up : \E i, j \in K!Shared(K!Left(m).log, K!Left(n).log) :
          /\ K!At(K!Left(m).log, i).term = K!At(K!Left(n).log, i).term
          /\ j <= i /\ K!At(K!Left(m).log, j) # K!At(K!Left(n).log, j)
    BY <1>3 DEF K!LogsMatch
  <2>2. PICK i, j \in K!Shared(K!Left(m).log, K!Left(n).log) :
          /\ K!At(K!Left(m).log, i).term = K!At(K!Left(n).log, i).term
          /\ j <= i /\ K!At(K!Left(m).log, j) # K!At(K!Left(n).log, j)
    BY <2>1
  <2>3. i \in Int /\ j \in Int /\ \A o \in {m, n} : K!Holds(K!Left(o).log, j)
    BY <1>1, SharedIsHeld
  <2>4. CASE j < i
    BY <2>2, <2>4, <1>2
  <2>5. CASE j = i
    <3>1. m # n
      BY <2>2
    <3>2. K!Up = {m, n}
      <4>1. IsFiniteSet(K!Up)
        BY NodesOfRun
      <4>2. IsFiniteSet({m, n}) /\ Cardinality({m, n}) = 2
        <5>1. IsFiniteSet({m}) /\ Cardinality({m}) = 1
          BY FS_Singleton
        <5>2. IsFiniteSet({m} \cup {n}) /\ Cardinality({m} \cup {n}) = Cardinality({m}) + 1
          BY <5>1, <3>1, FS_AddElement
        <5>3. {m} \cup {n} = {m, n}
          OBVIOUS
        <5> QED BY <5>1, <5>2, <5>3
      <4>3. {m, n} \in SUBSET K!Up
        OBVIOUS
      <4> QED BY <4>1, <4>2, <4>3, <1>3, FS_Subset
    <3>3. ASSUME NEW a \in K!Up, NEW b \in K!Up, K!Up = {a, b}, a < b,
                 K!Holds(K!Left(a).log, j), K!Holds(K!Left(b).log, j),
                 K!At(K!Left(a).log, j).term = K!At(K!Left(b).log, j).term,
                 K!At(K!Left(a).log, j) # K!At(K!Left(b).log, j)
          PROVE  K!OneTermTwoCommands
      <4> DEFINE o == K!Min({c \in K!Up : K!Holds(K!Left(c).log, j)})
      <4>1. o \in K!Up /\ \A c \in K!Up : K!Holds(K!Left(c).log, j) => o <= c
        BY <2>3, <3>3, FirstToHold
      <4>2. o = a
        <5> HIDE DEF o
        <5>1. o \in {a, b} /\ o <= a /\ a \in Nat /\ b \in Nat
          BY <3>3, <4>1, <1>1
        <5> QED BY <5>1, <3>3
      <4>3. /\ K!At(K!Left(a).log, j) \in [term : Nat, command : Cmd]
            /\ K!At(K!Left(b).log, j) \in [term : Nat, command : Cmd]
        BY <3>3, <2>3, <1>1, ViewedLog
      <4>4. K!At(K!Left(a).log, j).command # K!At(K!Left(b).log, j).command
        BY <3>3, <4>3
      <4>5. j \in K!FirstIndex(K!Left(b).log)..K!LastIndex(K!Left(b).log)
        BY <3>3, <2>3, <1>1, ViewedLog
      <4>6. /\ K!At(K!Left(o).log, j).term = K!At(K!Left(b).log, j).term
            /\ K!At(K!Left(o).log, j).command # K!At(K!Left(b).log, j).command
        <5> HIDE DEF o
        <5> QED BY <3>3, <4>2, <4>4
      <4> QED BY <4>5, <4>6 DEF K!OneTermTwoCommands
    <3>4. m \in Nat /\ n \in Nat /\ (m < n \/ n < m)
      <4>1. m \in Nat /\ n \in Nat
        BY <1>1
      <4> QED BY <4>1, <3>1
    <3>5. K!OneTermTwoCommands
      <4>1. CASE m < n
        BY <4>1, <3>2, <3>3, <2>2, <2>3, <2>5
      <4>2. CASE n < m
        <5>1. K!Up = {n, m}
          BY <3>2
        <5> QED BY <4>2, <5>1, <3>3, <2>2, <2>3, <2>5
      <4> QED BY <4>1, <4>2, <3>4
    <3> QED BY <3>5 DEF K!MatchingBreached
  <2> QED BY <2>2, <2>3, <2>4, <2>5
<1> QED BY <1>2, <1>3

\* Replicas that have come equally far and differ.
LEMMA DivergenceIsFound ==
  ASSUME K!CheckersConstants, run \in Runs, ~K!ReplicasAgree,
         \A m, n \in K!Up : DOMAIN run.applied[m] = DOMAIN run.applied[n]
  PROVE  K!AppliedBreached
<1>1. PICK m, n \in K!Up : \E p \in DOMAIN run.applied[m] \cap DOMAIN run.applied[n] :
        run.applied[m][p] # run.applied[n][p]
  BY DEF K!ReplicasAgree
<1>2. PICK p \in DOMAIN run.applied[m] \cap DOMAIN run.applied[n] :
        run.applied[m][p] # run.applied[n][p]
  BY <1>1
<1> DEFINE lens == {Len(run.applied[o]) : o \in K!Up}
<1>3. \A o \in K!Up : /\ Len(run.applied[o]) \in Nat
                      /\ DOMAIN run.applied[o] = 1..Len(run.applied[o])
  BY NodesOfRun
<1>4. ASSUME NEW o \in K!Up PROVE p \in 1..Len(run.applied[o]) 
  BY <1>2, <1>3
<1>5. K!Min(lens) \in lens
  <2> DEFINE f == [o \in K!Up |-> Len(run.applied[o])]
  <2>1. f \in Surjection(K!Up, lens)
    BY DEF Surjection
  <2>2. IsFiniteSet(lens)
    BY NodesOfRun, <2>1, FS_Surjection
  <2>3. lens \subseteq Int /\ lens # {}
    BY <1>3
  <2>4. Min(lens) \in lens
    BY <2>2, <2>3, MinOfFinite
  <2> QED BY <2>4 DEF Min, K!Min
<1>6. p \in 1..K!Min(lens)
  BY <1>4, <1>5
<1> QED BY <1>2, <1>6 DEF K!AppliedBreached

\* A leader at the end without what is known to be committed in an earlier term than its.
LEMMA LeaderWithoutIsFound ==
  ASSUME K!CheckersConstants, run \in Runs,
         NEW n \in K!Up, NEW k \in K!Moments, NEW m \in K!Running(k),
         NEW i \in 1..K!View(k, m).commit,
         K!Holds(K!View(k, m).log, i), K!Knew(i) # {},
         K!Committed(i) = K!At(K!View(k, m).log, i),
         K!Left(n).role = K!LEADER, K!Left(n).term > K!View(k, m).term,
         K!Holds(K!Left(n).log, i) =>
           K!At(K!Left(n).log, i).command # K!At(K!View(k, m).log, i).command
  PROVE  K!CompletenessBreached
<1>1. m \in K!Nodes /\ n \in K!Nodes
  BY NodesOfRun
<1>2. K!View(k, m) \in K!Viewed /\ K!Left(n) \in K!Viewed
  BY <1>1, LeftIsView
<1>3. i \in Int /\ i >= 1
  BY <1>2, ViewedLog
<1>4. K!Committed(i).term <= K!View(k, m).term
  <2>1. \A x \in 1..Len(K!View(k, m).log.entries) :
          K!View(k, m).log.entries[x].term <= K!View(k, m).term
    BY DEF K!CheckersConstants, K!IsRun, K!Moments, K!Running, K!View
  <2>2. i - K!View(k, m).log.base \in 1..Len(K!View(k, m).log.entries)
    <3>1. i \in (K!View(k, m).log.base + 1)..K!LastIndex(K!View(k, m).log)
      BY <1>2, <1>3, ViewedLog
    <3> QED BY <3>1, <1>2, <1>3, ViewedLog
  <2> QED BY <2>1, <2>2 DEF K!At
<1>5. K!Left(n).term > K!Committed(i).term
  <2>1. K!Committed(i).term \in Nat
    BY <1>2, <1>3, ViewedLog
  <2>2. K!View(k, m).term \in Nat /\ K!Left(n).term \in Nat
    BY <1>2, ViewedLog
  <2> QED BY <2>1, <2>2, <1>4
<1>6. i \in K!Indices
  <2> DEFINE lasts == {K!LastIndex(K!Left(o).log) : o \in K!Nodes}
             f == [o \in K!Nodes |-> K!LastIndex(K!Left(o).log)]
  <2>1. PICK r \in K!Nodes : K!Holds(K!Left(r).log, i)
    BY <1>3, WhoKnewFirst
  <2>2. IsFiniteSet(lasts)
    <3>1. f \in Surjection(K!Nodes, lasts)
      BY DEF Surjection
    <3> QED BY <3>1, NodesOfRun, FS_Surjection
  <2>3. lasts \subseteq Int
    BY LeftIsView, ViewedLog
  <2>4. K!LastIndex(K!Left(r).log) \in lasts
    BY <2>1
  <2>5. Max(lasts) \in lasts /\ Max(lasts) >= K!LastIndex(K!Left(r).log)
    BY <2>2, <2>3, <2>4, MaxOfFinite
  <2>6. Max(lasts) = K!Max(lasts)
    BY DEF Max, K!Max
  <2>7. i <= K!LastIndex(K!Left(r).log)
    BY <2>1, <1>3, LeftIsView, ViewedLog
  <2>8. i \in 1..K!Max(lasts)
    <3>1. K!LastIndex(K!Left(r).log) \in Int /\ K!Max(lasts) \in Int
          /\ K!Max(lasts) >= K!LastIndex(K!Left(r).log)
      BY <2>3, <2>4, <2>5, <2>6
    <3> HIDE DEF lasts
    <3> QED BY <3>1, <2>7, <1>3
  <2> QED BY <2>8 DEF K!Indices
<1>7. K!Lacks(n, i)
  BY <1>5 DEF K!Lacks, K!Without
<1> QED BY <1>6, <1>7 DEF K!CompletenessBreached

\* The checks look at nothing but the run.
LEMMA ChecksOfOneRun ==
  ASSUME run' = run
  PROVE  /\ K!ElectionBreached' <=> K!ElectionBreached
         /\ K!MatchingBreached' <=> K!MatchingBreached
         /\ K!CompletenessBreached' <=> K!CompletenessBreached
         /\ K!AppliedBreached' <=> K!AppliedBreached
<1>1. K!ElectionBreached' <=> K!ElectionBreached
  BY DEF K!ElectionBreached, K!Moments, K!Running, K!Leads, K!View
<1>2. K!MatchingBreached' <=> K!MatchingBreached
  BY DEF K!MatchingBreached, K!OneTermTwoCommands, K!PrefixesDiffer, K!Up, K!Left,
         K!Moments, K!Running, K!View, K!Shared, K!Holds, K!At, K!FirstIndex,
         K!LastIndex, K!Max, K!Min
<1>3. K!CompletenessBreached' <=> K!CompletenessBreached
  BY DEF K!CompletenessBreached, K!Up, K!Indices, K!Nodes, K!Left, K!Lacks, K!Knew,
         K!Without, K!FirstToKnow, K!Committed, K!Moments, K!Running, K!View, K!Holds, K!At, K!FirstIndex,
         K!LastIndex, K!Max
<1>4. K!AppliedBreached' <=> K!AppliedBreached
  BY DEF K!AppliedBreached, K!Up, K!Running, K!Min
<1> QED BY <1>1, <1>2, <1>3, <1>4

\* Every report is the outcome of the five checks of the run.
LEMMA CheckersInvHolds ==
  ASSUME K!CheckersConstants
  PROVE  Searching => []CheckersInv
<1>1. K!Init => CheckersInv
  BY DEF K!Init, CheckersInv
<1>2. CheckersInv /\ [K!Next]_K!vars => CheckersInv'
  <2> SUFFICES ASSUME CheckersInv, [K!Next]_K!vars PROVE CheckersInv'
    OBVIOUS
  <2>1. CASE K!Inspect
    <3> DEFINE found == {p \in {K!ELECTION_SAFETY} : K!ElectionBreached}
                          \cup {p \in {K!LEADER_APPEND_ONLY} : K!AppendOnlyBreached}
                          \cup {p \in {K!LOG_MATCHING} : K!MatchingBreached}
                          \cup {p \in {K!LEADER_COMPLETENESS} : K!CompletenessBreached}
                          \cup {p \in {K!STATE_MACHINE_SAFETY} : K!AppliedBreached}
    <3>1. inspected' = TRUE /\ broken' = found /\ run' = run
      BY <2>1 DEF K!Inspect
    <3>2. /\ K!ELECTION_SAFETY \in found <=> K!ElectionBreached
          /\ K!LOG_MATCHING \in found <=> K!MatchingBreached
          /\ K!LEADER_COMPLETENESS \in found <=> K!CompletenessBreached
          /\ K!STATE_MACHINE_SAFETY \in found <=> K!AppliedBreached
      BY DEF K!ELECTION_SAFETY, K!LEADER_APPEND_ONLY, K!LOG_MATCHING,
             K!LEADER_COMPLETENESS, K!STATE_MACHINE_SAFETY
    <3> HIDE DEF found
    <3>3. /\ K!ElectionBreached' <=> K!ElectionBreached
          /\ K!MatchingBreached' <=> K!MatchingBreached
          /\ K!CompletenessBreached' <=> K!CompletenessBreached
          /\ K!AppliedBreached' <=> K!AppliedBreached
      BY <3>1, ChecksOfOneRun
    <3> QED BY <3>1, <3>2, <3>3, <2>1 DEF CheckersInv
  <2>2. CASE UNCHANGED K!vars
    <3>1. run' = run /\ inspected' = inspected /\ broken' = broken
      BY <2>2 DEF K!vars
    <3>2. /\ K!ElectionBreached' <=> K!ElectionBreached
          /\ K!MatchingBreached' <=> K!MatchingBreached
          /\ K!CompletenessBreached' <=> K!CompletenessBreached
          /\ K!AppliedBreached' <=> K!AppliedBreached
      BY <3>1, ChecksOfOneRun
    <3> QED BY <3>1, <3>2 DEF CheckersInv
  <2> QED BY <2>1, <2>2 DEF K!Next
<1> QED BY <1>1, <1>2, RunsMove, PTL DEF K!Spec

\* The alarms of inspect are real: what it calls breached in a run is, in a run of any
\* length and any number of nodes, but for the three kinds of leaders (MayBeFalse) for
\* which its check of leader completeness may be wrong.
THEOREM WhatIsReportedIsSo == Searching => []AlarmsAreReal
<1>1. K!CheckersConstants
  BY SearchesAssumption
<1>2. CheckersInv => AlarmsAreReal
  <2> SUFFICES ASSUME CheckersInv PROVE K!AlarmsAreReal
    BY DEF AlarmsAreReal
  <2>1. run \in Runs /\ ~inspected => broken = {}
    BY DEF CheckersInv
  <2>2. ASSUME NEW p \in broken PROVE inspected
    BY <2>2 DEF CheckersInv
  <2>3. ASSUME K!ELECTION_SAFETY \in broken PROVE ~K!OneLeaderPerTerm
    <3>1. K!ElectionBreached
      BY <2>2, <2>3 DEF CheckersInv
    <3> QED BY <3>1 DEF K!ElectionBreached, K!OneLeaderPerTerm
  <2>4. ASSUME K!LOG_MATCHING \in broken PROVE ~K!LogsMatch
    <3>1. K!MatchingBreached /\ run \in Runs
      BY <2>2, <2>4 DEF CheckersInv
    <3> QED BY <1>1, <3>1, MatchingAlarmIsReal
  <2>5. ASSUME K!STATE_MACHINE_SAFETY \in broken PROVE ~K!ReplicasAgree
    <3>1. K!AppliedBreached /\ run \in Runs
      BY <2>2, <2>5 DEF CheckersInv
    <3> QED BY <1>1, <3>1, AppliedAlarmIsReal
  <2>6. ASSUME K!LEADER_COMPLETENESS \in broken,
               ~ \E n \in K!Up, i \in K!Indices : K!MayBeFalse(n, i)
        PROVE  ~K!LeadersAreComplete
    <3>1. K!CompletenessBreached /\ run \in Runs
      BY <2>2, <2>6 DEF CheckersInv
    <3> QED BY <1>1, <2>6, <3>1, CompletenessAlarmIsReal
  <2> QED BY <2>3, <2>4, <2>5, <2>6 DEF K!AlarmsAreReal
<1> QED BY <1>1, <1>2, CheckersInvHolds, PTL

\* What inspect cannot miss it reports, in a run of any length and any number of nodes:
\* logs that meet again after a difference, or differ at all if two nodes run; replicas
\* that differ, if all have applied equally many; and a leader at the end without a command
\* known to be committed in an earlier term, if the check takes that entry to be committed.
THEOREM WhatCannotBeMissedIsFound == Searching => []ViolationsAreFound
<1>1. K!CheckersConstants
  BY SearchesAssumption
<1>2. CheckersInv => ViolationsAreFound
  <2> SUFFICES ASSUME CheckersInv, inspected PROVE K!ViolationsAreFound
    BY DEF ViolationsAreFound, K!ViolationsAreFound
  <2>1. /\ run \in Runs
        /\ K!LOG_MATCHING \in broken <=> K!MatchingBreached
        /\ K!LEADER_COMPLETENESS \in broken <=> K!CompletenessBreached
        /\ K!STATE_MACHINE_SAFETY \in broken <=> K!AppliedBreached
    BY DEF CheckersInv
  <2>2. ASSUME NEW m \in K!Up, NEW n \in K!Up,
               \E i, j \in K!Shared(K!Left(m).log, K!Left(n).log) :
                 /\ i < j /\ K!At(K!Left(m).log, i) # K!At(K!Left(n).log, i)
                 /\ K!At(K!Left(m).log, j).term = K!At(K!Left(n).log, j).term
        PROVE  K!LOG_MATCHING \in broken
    BY <1>1, <2>1, <2>2, DifferencesAreFound
  <2>3. K!Cardinality(K!Up) = 2 /\ ~K!LogsMatch => K!LOG_MATCHING \in broken
    <3>1. K!Cardinality(K!Up) = Cardinality(K!Up)
      BY DEF K!Cardinality, Cardinality
    <3> QED BY <1>1, <2>1, <3>1, DifferencesAreFound
  <2>4. /\ ~K!ReplicasAgree
        /\ \A m, n \in K!Up : DOMAIN run.applied[m] = DOMAIN run.applied[n]
        => K!STATE_MACHINE_SAFETY \in broken
    BY <1>1, <2>1, DivergenceIsFound
  <2>5. ASSUME NEW n \in K!Up, NEW k \in K!Moments, NEW m \in K!Running(k),
               NEW i \in 1..K!View(k, m).commit,
               K!Holds(K!View(k, m).log, i), K!Knew(i) # {},
               K!Committed(i) = K!At(K!View(k, m).log, i),
               K!Left(n).role = K!LEADER, K!Left(n).term > K!View(k, m).term,
               K!Holds(K!Left(n).log, i) =>
                 K!At(K!Left(n).log, i).command # K!At(K!View(k, m).log, i).command
        PROVE  K!LEADER_COMPLETENESS \in broken
    <3>1. K!CompletenessBreached
      BY <1>1, <2>1, <2>5, LeaderWithoutIsFound
    <3> QED BY <2>1, <3>1
  <2> QED BY <2>2, <2>3, <2>4, <2>5 DEF K!ViolationsAreFound
<1> QED BY <1>1, <1>2, CheckersInvHolds, PTL
=============================================================================

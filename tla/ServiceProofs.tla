---------------------------- MODULE ServiceProofs ----------------------------
(***************************************************************************)
(* Proofs about the services a client meets: leased reads, sessions, keys  *)
(* that expire, ranges that move and watchers.  Each part begins with the  *)
(* fact that a behaviour of Services is one of the component it is about.  *)
(***************************************************************************)
EXTENDS Services, SequenceTheorems, FiniteSetTheorems, WellFoundedInduction, TLAPS

-----------------------------------------------------------------------------
(* Leases.  The invariant says how early the other side can be where it    *)
(* is.                                                                     *)

\* A behaviour of the services is one of the lease.
LEMMA LeaseMoves == Spec => Lea!Spec
<1>1. Init => Lea!Init
  BY DEF Init
<1>2. [Next]_vars => [Lea!Next]_Lea!vars
  BY DEF Next, vars, holder, Lea!vars
<1> QED BY <1>1, <1>2, PTL DEF Spec, Lea!Spec

ArgumentsOK == length \in Nat /\ drift \in Nat /\ now \in Nat /\ since \in Nat

NotBefore ==
  /\ stage \in Lea!Stage
  /\ since <= now
  /\ stage = Lea!ASKING  => since >= Lea!EarliestStand
  /\ stage = Lea!LED     => since >= Lea!EarliestStand + Lea!RoundTrip
  /\ stage = Lea!WRITING => since >= Lea!EarliestStand + Lea!RoundTrip + Lea!NextAppend
  /\ stage = Lea!WRITTEN => since >= Lea!EarliestWrite

StaleIsLate == \A t \in stale : t \in Nat /\ Lea!EarliestWrite <= t /\ t < Lea!ExpiresAt

LeaseInv == ArgumentsOK /\ NotBefore /\ StaleIsLate

-----------------------------------------------------------------------------

\* The delays are numbers.
LEMMA DelaysAreNumbers ==
  ASSUME Lea!LeaseConstants
  PROVE  Lea!RoundTrip \in Nat /\ Lea!EarliestStand \in Int /\ Lea!NextAppend \in Int
<1>1. Lea!RoundTrip \in Nat /\ Lea!EarliestStand \in Int
  BY DEF Lea!LeaseConstants, Lea!RoundTrip, Lea!EarliestStand
<1>2. Heartbeat - 1 \in Int
  BY DEF Lea!LeaseConstants
<1>3. \E x \in {Heartbeat - 1, Lea!RoundTrip} : \A y \in {Heartbeat - 1, Lea!RoundTrip} : x <= y
  BY <1>1, <1>2
<1>4. Lea!NextAppend \in {Heartbeat - 1, Lea!RoundTrip}
  BY <1>3 DEF Lea!NextAppend, Lea!Min
<1> QED BY <1>1, <1>2, <1>4

LEMMA LeaseInit ==
  ASSUME Lea!LeaseConstants, Lea!Init
  PROVE  LeaseInv
BY DEF Lea!LeaseConstants, Lea!Init, LeaseInv, ArgumentsOK, NotBefore, StaleIsLate, Lea!Stage,
       Lea!QUIET, Lea!ASKING, Lea!LED, Lea!WRITING, Lea!WRITTEN

\* A read adds its own tick to the stale ones, if the write is committed by then.
LEMMA ServeKeeps ==
  ASSUME Lea!LeaseConstants, LeaseInv, NEW s, Lea!Serve(now + 1, s),
         s = Lea!WRITTEN => now + 1 >= Lea!EarliestWrite
  PROVE  StaleIsLate'
BY DelaysAreNumbers
   DEF LeaseInv, ArgumentsOK, StaleIsLate, Lea!Serve, Lea!HeldAt, Lea!ExpiresAt, Lea!EarliestWrite

LEMMA WaitKeeps ==
  ASSUME Lea!LeaseConstants, LeaseInv, Lea!Wait
  PROVE  LeaseInv'
<1>1. Lea!Serve(now + 1, stage) /\ UNCHANGED <<stage, since, length, drift>> /\ now' = now + 1
  BY DEF Lea!Wait, Lea!Serve
<1>2. stage = Lea!WRITTEN => now + 1 >= Lea!EarliestWrite
  BY DelaysAreNumbers DEF LeaseInv, ArgumentsOK, NotBefore, Lea!EarliestWrite
<1>3. StaleIsLate'
  BY <1>1, <1>2, ServeKeeps
<1>4. ArgumentsOK' /\ NotBefore'
  BY <1>1 DEF LeaseInv, ArgumentsOK, NotBefore, Lea!EarliestStand, Lea!EarliestWrite,
              Lea!RoundTrip, Lea!NextAppend
<1> QED BY <1>3, <1>4 DEF LeaseInv

LEMMA MoveKeeps ==
  ASSUME Lea!LeaseConstants, LeaseInv, Lea!Move
  PROVE  LeaseInv'
<1>1. /\ Lea!Serve(now + 1, Lea!After(stage)) /\ UNCHANGED <<length, drift>>
      /\ now' = now + 1 /\ since' = now + 1 /\ stage' = Lea!After(stage)
      /\ now + 1 >= Lea!DueAt
  BY DEF Lea!Move, Lea!Serve
<1>2. stage \in {Lea!QUIET, Lea!ASKING, Lea!LED, Lea!WRITING}
  BY DEF LeaseInv, NotBefore, Lea!Stage, Lea!Move
<1>3. ArgumentsOK'
  BY <1>1 DEF LeaseInv, ArgumentsOK
<1>4. NotBefore' /\ (Lea!After(stage) = Lea!WRITTEN => now + 1 >= Lea!EarliestWrite)
  <2>1. CASE stage = Lea!QUIET
    BY <1>1, <1>3, <2>1, DelaysAreNumbers
       DEF NotBefore, ArgumentsOK, Lea!After, Lea!DueAt, Lea!Stage, Lea!QUIET, Lea!ASKING, Lea!LED, Lea!WRITING, Lea!WRITTEN
  <2>2. CASE stage = Lea!ASKING
    BY <1>1, <1>3, <2>2, DelaysAreNumbers
       DEF LeaseInv, NotBefore, ArgumentsOK, Lea!After, Lea!DueAt, Lea!Stage,
           Lea!QUIET, Lea!ASKING, Lea!LED, Lea!WRITING, Lea!WRITTEN
  <2>3. CASE stage = Lea!LED
    BY <1>1, <1>3, <2>3, DelaysAreNumbers
       DEF LeaseInv, NotBefore, ArgumentsOK, Lea!After, Lea!DueAt, Lea!Stage,
           Lea!QUIET, Lea!ASKING, Lea!LED, Lea!WRITING, Lea!WRITTEN
  <2>4. CASE stage = Lea!WRITING
    BY <1>1, <1>3, <2>4, DelaysAreNumbers
       DEF LeaseInv, NotBefore, ArgumentsOK, Lea!After, Lea!DueAt, Lea!Stage, Lea!EarliestWrite,
           Lea!QUIET, Lea!ASKING, Lea!LED, Lea!WRITING, Lea!WRITTEN
  <2> QED BY <1>2, <2>1, <2>2, <2>3, <2>4
<1>5. StaleIsLate'
  BY <1>1, <1>4, ServeKeeps
<1> QED BY <1>3, <1>4, <1>5 DEF LeaseInv

\* What the invariant is for.
LEMMA InvIsEnough ==
  ASSUME Lea!LeaseConstants, LeaseInv
  PROVE  Lea!LeaseReadsAreCurrent
<1> SUFFICES ASSUME Lea!ExpiresAt <= Lea!EarliestWrite, NEW t \in stale
             PROVE  FALSE
  BY DEF Lea!LeaseReadsAreCurrent
<1>1. Lea!EarliestWrite \in Int /\ Lea!ExpiresAt \in Int
  BY DelaysAreNumbers DEF LeaseInv, ArgumentsOK, Lea!EarliestWrite, Lea!ExpiresAt
<1>2. t \in Int /\ Lea!EarliestWrite <= t /\ t < Lea!ExpiresAt
  BY DEF LeaseInv, StaleIsLate
<1> QED BY <1>1, <1>2

\* Reads under a lease are current: with any timers, delays, lease and drift of the
\* clock, a lease that is over before the majority can have committed a write through
\* somebody else serves no stale read, however the other side moves.
THEOREM CurrentReads == Spec => []LeaseReadsAreCurrent
<1>1. Lea!LeaseConstants
  BY ServicesAssumption
<1>2. Lea!Init => LeaseInv
  BY <1>1, LeaseInit
<1>3. LeaseInv /\ [Lea!Next]_Lea!vars => LeaseInv'
  <2> SUFFICES ASSUME LeaseInv, [Lea!Next]_Lea!vars
               PROVE  LeaseInv'
    OBVIOUS
  <2>1. CASE Lea!Wait
    BY <1>1, <2>1, WaitKeeps
  <2>2. CASE Lea!Move
    BY <1>1, <2>2, MoveKeeps
  <2>3. CASE UNCHANGED Lea!vars
    BY <2>3 DEF Lea!vars, LeaseInv, ArgumentsOK, NotBefore, StaleIsLate, Lea!ExpiresAt
  <2> QED BY <2>1, <2>2, <2>3 DEF Lea!Next
<1>4. LeaseInv => LeaseReadsAreCurrent
  BY <1>1, InvIsEnough DEF LeaseReadsAreCurrent
<1> QED BY <1>2, <1>3, <1>4, LeaseMoves, PTL DEF Lea!Spec

-----------------------------------------------------------------------------
(* Sessions.                                                               *)

\* A behaviour of the services is one of the sessions.
LEMMA SessionsMove == Spec => Ses!Spec
<1>1. Init => Ses!Init
  BY DEF Init
<1>2. [Next]_vars => [Ses!Next]_Ses!vars
  BY DEF Next, vars, clients, Ses!vars, Ses!replicaVars
<1> QED BY <1>1, <1>2, PTL DEF Spec, Ses!Spec

\* What a key may hold, and a client be told.
Values == {Absent, None, Refused, Yes, No} \cup Random \cup Int \cup {cmd.value : cmd \in Wish}

\* The machine gives what can be remembered, and one thing unless it is asked the time.
LEMMA ApplyGives ==
  ASSUME Ses!SessionsConstants, NEW h \in Values, NEW cmd \in Wish,
         NEW result \in Ses!Apply(h, cmd)
  PROVE  /\ result.held \in Values /\ result.out \in Values /\ result.out # Absent
         /\ cmd.name # Ses!NOW => Ses!Apply(h, cmd) = {result}
<1>1. /\ cmd.name \in {Ses!SET, Ses!DELETE, Ses!INCREMENT, Ses!COMPARE_AND_SET, Ses!NOW}
      /\ cmd.value # Absent /\ cmd.value \in Values
      /\ Absent \notin {None, Refused, Yes, No} \cup Random \cup Int
  BY DEF Ses!SessionsConstants, Values
<1>2. CASE cmd.name = Ses!SET
  <2>1. Ses!Apply(h, cmd) = {Ses!Result(cmd.value, cmd.value)}
    BY <1>2 DEF Ses!Apply, Ses!SET, Ses!DELETE, Ses!INCREMENT, Ses!COMPARE_AND_SET, Ses!NOW
  <2> QED BY <1>1, <2>1 DEF Ses!Result
<1>3. CASE cmd.name = Ses!DELETE
  <2>1. Ses!Apply(h, cmd) = {Ses!Result(Absent, Ses!Get(h))}
    BY <1>3 DEF Ses!Apply, Ses!SET, Ses!DELETE, Ses!INCREMENT, Ses!COMPARE_AND_SET, Ses!NOW
  <2>2. Ses!Get(h) \in Values /\ Ses!Get(h) # Absent /\ Absent \in Values
    BY <1>1 DEF Ses!Get, Values
  <2> QED BY <2>1, <2>2 DEF Ses!Result
<1>4. CASE cmd.name = Ses!INCREMENT
  <2> DEFINE sum == Ses!Incremented(h, cmd.value)
  <2>1. Ses!Apply(h, cmd) = IF h = Absent \/ Ses!IsNumber(h) THEN {Ses!Result(sum, sum)}
                                                              ELSE {Ses!Result(h, Refused)}
    BY <1>4 DEF Ses!Apply, Ses!SET, Ses!DELETE, Ses!INCREMENT, Ses!COMPARE_AND_SET, Ses!NOW
  <2>2. ASSUME h = Absent \/ Ses!IsNumber(h) PROVE sum \in Int
    <3>1. (IF h = Absent THEN 0 ELSE h) \in Int
      BY <2>2 DEF Ses!IsNumber
    <3>2. (IF cmd.value \in {None, 0} THEN 1 ELSE cmd.value) \in Int
      BY <1>4 DEF Ses!SessionsConstants
    <3> QED BY <3>1, <3>2 DEF Ses!Incremented
  <2>3. sum \in Int => sum \in Values /\ sum # Absent
    BY <1>1 DEF Values
  <2> HIDE DEF sum
  <2>4. Refused \in Values /\ Refused # Absent
    BY <1>1 DEF Values
  <2> QED BY <2>1, <2>2, <2>3, <2>4 DEF Ses!Result
<1>5. CASE cmd.name = Ses!COMPARE_AND_SET
  <2>1. Ses!Apply(h, cmd) = IF Ses!Get(h) = cmd.expected THEN {Ses!Result(cmd.value, Yes)}
                                                         ELSE {Ses!Result(h, No)}
    BY <1>5 DEF Ses!Apply, Ses!SET, Ses!DELETE, Ses!INCREMENT, Ses!COMPARE_AND_SET, Ses!NOW
  <2>2. Yes \in Values /\ Yes # Absent /\ No \in Values /\ No # Absent
    BY <1>1 DEF Values
  <2> QED BY <1>1, <2>1, <2>2 DEF Ses!Result
<1>6. CASE cmd.name = Ses!NOW
  <2>1. Ses!Apply(h, cmd) = {Ses!Result(x, x) : x \in Random}
    BY <1>6 DEF Ses!Apply, Ses!SET, Ses!DELETE, Ses!INCREMENT, Ses!COMPARE_AND_SET, Ses!NOW
  <2>2. PICK x \in Random : result = Ses!Result(x, x)
    BY <2>1
  <2> QED BY <1>1, <1>6, <2>2 DEF Ses!Result, Values
<1> QED BY <1>1, <1>2, <1>3, <1>4, <1>5, <1>6

SessionTypeOK ==
  /\ command \in [Key -> Wish \cup {None}]
  /\ sent \in [Key -> Nat]
  /\ chosen \in Seq(Key)
  /\ place \in [Server -> Nat]
  /\ held \in [Server -> Values]
  /\ answers \in [Server -> [Key -> Values]]
  /\ took \in [Server -> Seq(Key)]
  /\ told \subseteq Key \X Values
  /\ restarts \in Nat /\ forgets \in Nat

\* What is committed has been asked for, and no replica is ahead of the log.
ChosenIsAsked ==
  /\ \A k \in Key : sent[k] > 0 => command[k] \in Wish
  /\ \A i \in 1..Len(chosen) : command[chosen[i]] \in Wish
  /\ \A r \in Server : place[r] <= Len(chosen)

\* The table remembers what has taken effect, nothing has done so twice, and what has
\* been run has done so or been refused.
TableIsTrue ==
  \A r \in Server :
    /\ \A k \in Key : answers[r][k] # Absent <=> \E j \in 1..Len(took[r]) : took[r][j] = k
    /\ \A i, j \in 1..Len(took[r]) : took[r][i] = took[r][j] => i = j
    /\ \A i \in 1..place[r] : \/ \E j \in 1..Len(took[r]) : took[r][j] = chosen[i]
                              \/ <<chosen[i], Refused>> \in told

SessionInv == SessionTypeOK /\ ChosenIsAsked /\ (forgets = 0 => TableIsTrue)

LEMMA SessionInit ==
  ASSUME Ses!Init
  PROVE  SessionInv
<1>1. Absent \in Values
  BY DEF Values
<1>2. << >> \in Seq(Key) /\ Len(<< >>) = 0
  OBVIOUS
<1> QED BY <1>1, <1>2 DEF Ses!Init, SessionInv, SessionTypeOK, ChosenIsAsked, TableIsTrue

LEMMA AskKeeps ==
  ASSUME Ses!SessionsConstants, SessionInv, NEW k \in Key, NEW cmd \in Wish, Ses!Ask(k, cmd)
  PROVE  SessionInv'
<1>1. /\ command[k] = None
      /\ command' = [command EXCEPT ![k] = cmd]
      /\ sent' = [sent EXCEPT ![k] = 1]
      /\ UNCHANGED <<chosen, place, held, answers, took, told, restarts, forgets>>
  BY DEF Ses!Ask, Ses!Asked, Ses!replicaVars
<1>2. None \notin Wish
  BY DEF Ses!SessionsConstants
<1>3. SessionTypeOK'
  BY <1>1 DEF SessionInv, SessionTypeOK
<1>4. ChosenIsAsked'
  <2>1. \A x \in Key : sent'[x] > 0 => command'[x] \in Wish
    BY <1>1 DEF SessionInv, SessionTypeOK, ChosenIsAsked
  <2>2. \A i \in 1..Len(chosen) : command'[chosen[i]] \in Wish
    <3>1. \A i \in 1..Len(chosen) : chosen[i] \in Key /\ command[chosen[i]] \in Wish
      BY DEF SessionInv, SessionTypeOK, ChosenIsAsked
    <3> QED BY <1>1, <1>2, <3>1 DEF SessionInv, SessionTypeOK
  <2> QED BY <1>1, <2>1, <2>2 DEF SessionInv, ChosenIsAsked
<1>5. forgets' = 0 => TableIsTrue'
  BY <1>1 DEF SessionInv, TableIsTrue
<1> QED BY <1>3, <1>4, <1>5 DEF SessionInv

LEMMA RetryKeeps ==
  ASSUME Ses!SessionsConstants, SessionInv, NEW k \in Key, Ses!Retry(k)
  PROVE  SessionInv'
<1>1. /\ command[k] # None
      /\ sent' = [sent EXCEPT ![k] = @ + 1]
      /\ UNCHANGED <<command, chosen, place, held, answers, took, told, restarts, forgets>>
  BY DEF Ses!Retry, Ses!Asked, Ses!replicaVars
<1>2. SessionTypeOK'
  BY <1>1 DEF SessionInv, SessionTypeOK
<1>3. ChosenIsAsked'
  <2>1. command[k] \in Wish
    BY <1>1 DEF SessionInv, SessionTypeOK
  <2>2. \A x \in Key : sent'[x] > 0 => command'[x] \in Wish
    BY <1>1, <2>1 DEF SessionInv, SessionTypeOK, ChosenIsAsked
  <2> QED BY <1>1, <2>2 DEF SessionInv, ChosenIsAsked
<1>4. forgets' = 0 => TableIsTrue'
  BY <1>1 DEF SessionInv, TableIsTrue
<1> QED BY <1>2, <1>3, <1>4 DEF SessionInv

\* One more committed request, which has been sent.
LEMMA CommitOfSent ==
  ASSUME SessionInv, NEW k \in Key, Ses!Commit(k)
  PROVE  /\ chosen' = Append(chosen, k) /\ command[k] \in Wish
         /\ chosen' \in Seq(Key) /\ Len(chosen') = Len(chosen) + 1 /\ Len(chosen) \in Nat
         /\ chosen'[Len(chosen) + 1] = k
         /\ \A i \in 1..Len(chosen) : chosen'[i] = chosen[i]
         /\ UNCHANGED <<command, sent, place, held, answers, took, told, restarts, forgets>>
<1> DEFINE copies == {i \in DOMAIN chosen : chosen[i] = k}
<1>1. /\ chosen' = Append(chosen, k)
      /\ Ses!Cardinality(copies) < sent[k]
      /\ UNCHANGED <<command, sent, place, held, answers, took, told, restarts, forgets>>
  BY DEF Ses!Commit, Ses!replicaVars
<1>2. Cardinality(copies) \in Nat
  <2>1. chosen \in Seq(Key) /\ DOMAIN chosen = 1..Len(chosen) /\ Len(chosen) \in Nat
    BY LenProperties DEF SessionInv, SessionTypeOK
  <2>2. IsFiniteSet(1..Len(chosen))
    BY <2>1, FS_Interval
  <2> QED BY <2>1, <2>2, FS_Subset, FS_CardinalityType
<1>3. Ses!Cardinality(copies) = Cardinality(copies)
  BY DEF Ses!Cardinality, Cardinality
<1> HIDE DEF copies
<1>4. sent[k] > 0
  BY <1>1, <1>2, <1>3 DEF SessionInv, SessionTypeOK
<1>5. command[k] \in Wish
  BY <1>4 DEF SessionInv, ChosenIsAsked
<1>6. chosen \in Seq(Key)
  BY DEF SessionInv, SessionTypeOK
<1> QED BY <1>1, <1>5, <1>6, AppendProperties, LenProperties

LEMMA CommitKeeps ==
  ASSUME Ses!SessionsConstants, SessionInv, NEW k \in Key, Ses!Commit(k)
  PROVE  SessionInv'
<1>1. /\ command[k] \in Wish
      /\ chosen' \in Seq(Key) /\ Len(chosen') = Len(chosen) + 1 /\ Len(chosen) \in Nat
      /\ chosen'[Len(chosen) + 1] = k
      /\ \A i \in 1..Len(chosen) : chosen'[i] = chosen[i]
      /\ UNCHANGED <<command, sent, place, held, answers, took, told, restarts, forgets>>
  BY CommitOfSent
<1>2. SessionTypeOK'
  BY <1>1 DEF SessionInv, SessionTypeOK
<1>3. ChosenIsAsked'
  <2>1. ASSUME NEW i \in 1..Len(chosen') PROVE command[chosen'[i]] \in Wish
    <3>1. i \in 1..Len(chosen) \/ i = Len(chosen) + 1
      BY <1>1
    <3> QED BY <1>1, <3>1 DEF SessionInv, ChosenIsAsked
  <2>2. ASSUME NEW r \in Server PROVE place[r] <= Len(chosen')
    BY <1>1 DEF SessionInv, SessionTypeOK, ChosenIsAsked
  <2> QED BY <1>1, <2>1, <2>2 DEF SessionInv, ChosenIsAsked
<1>4. ASSUME forgets = 0 PROVE TableIsTrue'
  <2>1. \A r \in Server : \A i \in 1..place[r] : chosen'[i] = chosen[i]
    <3>1. \A r \in Server : place[r] \in Nat /\ place[r] <= Len(chosen)
      BY DEF SessionInv, SessionTypeOK, ChosenIsAsked
    <3> QED BY <1>1, <3>1
  <2> QED BY <1>1, <1>4, <2>1 DEF SessionInv, TableIsTrue
<1> QED BY <1>1, <1>2, <1>3, <1>4 DEF SessionInv

\* What a replica does with the next committed request: it knows it, or it takes it and
\* remembers the answer, or it is refused.
LEMMA RunDoes ==
  ASSUME Ses!SessionsConstants, SessionInv, NEW r \in Server, Ses!Run(r),
         NEW n, n = place[r] + 1, NEW k, k = chosen[n]
  PROVE  /\ n \in 1..Len(chosen) /\ k \in Key /\ command[k] \in Wish
         /\ place' = [place EXCEPT ![r] = n]
         /\ UNCHANGED <<command, sent, chosen, restarts, forgets>>
         /\ \/ /\ answers[r][k] # Absent
               /\ told' = told \cup {<<k, answers[r][k]>>}
               /\ UNCHANGED <<held, answers, took>>
            \/ \E result \in Ses!Apply(held[r], command[k]) :
                 /\ answers[r][k] = Absent
                 /\ result.held \in Values /\ result.out \in Values /\ result.out # Absent
                 /\ held' = [held EXCEPT ![r] = result.held]
                 /\ told' = told \cup {<<k, result.out>>}
                 /\ result.out = Refused => UNCHANGED <<answers, took>>
                 /\ result.out # Refused =>
                      /\ answers' = [answers EXCEPT ![r][k] = result.out]
                      /\ took' = [took EXCEPT ![r] = Append(took[r], k)]
<1>1. /\ place[r] < Len(chosen)
      /\ place' = [place EXCEPT ![r] = n]
      /\ UNCHANGED <<command, sent, chosen, restarts, forgets>>
  BY DEF Ses!Run
<1>2. n \in 1..Len(chosen)
  BY <1>1, LenProperties DEF SessionInv, SessionTypeOK
<1>3. k \in Key /\ command[k] \in Wish /\ held[r] \in Values
  BY <1>2, ElementOfSeq DEF SessionInv, SessionTypeOK, ChosenIsAsked
<1>4. CASE Ses!Seen(r, k)
  BY <1>1, <1>2, <1>3, <1>4 DEF Ses!Run, Ses!Seen, Ses!Remembered
<1>5. CASE ~Ses!Seen(r, k)
  <2>1. PICK result \in Ses!Apply(held[r], command[k]) :
          /\ told' = told \cup {<<k, result.out>>}
          /\ held' = [held EXCEPT ![r] = result.held]
          /\ IF result.out = Refused
             THEN UNCHANGED <<answers, took>>
             ELSE /\ answers' = [answers EXCEPT ![r][k] = result.out]
                  /\ took' = [took EXCEPT ![r] = Append(@, k)]
    BY <1>5 DEF Ses!Run
  <2>2. result.held \in Values /\ result.out \in Values /\ result.out # Absent
    BY <1>3, ApplyGives
  <2> QED BY <1>1, <1>2, <1>3, <1>5, <2>1, <2>2 DEF Ses!Seen
<1> QED BY <1>4, <1>5

LEMMA RunKeeps ==
  ASSUME Ses!SessionsConstants, SessionInv, NEW r \in Server, Ses!Run(r)
  PROVE  SessionInv'
<1> DEFINE n == place[r] + 1
           k == chosen[n]
<1>1. /\ n \in 1..Len(chosen) /\ k \in Key /\ command[k] \in Wish
      /\ place' = [place EXCEPT ![r] = n]
      /\ UNCHANGED <<command, sent, chosen, restarts, forgets>>
      /\ \/ /\ answers[r][k] # Absent
            /\ told' = told \cup {<<k, answers[r][k]>>}
            /\ UNCHANGED <<held, answers, took>>
         \/ \E result \in Ses!Apply(held[r], command[k]) :
              /\ answers[r][k] = Absent
              /\ result.held \in Values /\ result.out \in Values /\ result.out # Absent
              /\ held' = [held EXCEPT ![r] = result.held]
              /\ told' = told \cup {<<k, result.out>>}
              /\ result.out = Refused => UNCHANGED <<answers, took>>
              /\ result.out # Refused =>
                   /\ answers' = [answers EXCEPT ![r][k] = result.out]
                   /\ took' = [took EXCEPT ![r] = Append(took[r], k)]
  BY RunDoes
<1>2. SessionTypeOK
  BY DEF SessionInv
<1>3. n = place[r] + 1 /\ k = chosen[n]
  OBVIOUS
<1> HIDE DEF n, k
<1>4. took[r] \in Seq(Key) /\ Len(took[r]) \in Nat
  BY <1>2, LenProperties DEF SessionTypeOK
<1>5. Append(took[r], k) \in Seq(Key)
  BY <1>1, <1>4, AppendProperties
<1>6. SessionTypeOK'
  <2>1. answers[r] \in [Key -> Values]
    BY <1>2 DEF SessionTypeOK
  <2>2. n \in Nat
    BY <1>1
  <2>3. place' \in [Server -> Nat]
    BY <1>1, <1>2, <2>2 DEF SessionTypeOK
  <2>4. /\ held' \in [Server -> Values] /\ answers' \in [Server -> [Key -> Values]]
        /\ took' \in [Server -> Seq(Key)] /\ told' \subseteq Key \X Values
    <3>1. /\ held \in [Server -> Values] /\ answers \in [Server -> [Key -> Values]]
          /\ took \in [Server -> Seq(Key)] /\ told \subseteq Key \X Values
      BY <1>2 DEF SessionTypeOK
    <3>2. CASE /\ told' = told \cup {<<k, answers[r][k]>>}
               /\ UNCHANGED <<held, answers, took>>
      BY <1>1, <2>1, <3>1, <3>2
    <3>3. ASSUME NEW result,
                 /\ result.held \in Values /\ result.out \in Values
                 /\ held' = [held EXCEPT ![r] = result.held]
                 /\ told' = told \cup {<<k, result.out>>}
          PROVE  held' \in [Server -> Values] /\ told' \subseteq Key \X Values
      BY <1>1, <3>1, <3>3
    <3>4. ASSUME NEW x \in Values, answers' = [answers EXCEPT ![r][k] = x]
          PROVE  answers' \in [Server -> [Key -> Values]]
      BY <1>1, <2>1, <3>1, <3>4
    <3>5. ASSUME took' = [took EXCEPT ![r] = Append(took[r], k)]
          PROVE  took' \in [Server -> Seq(Key)]
      BY <1>5, <3>1, <3>5
    <3> QED BY <1>1, <3>1, <3>2, <3>3, <3>4, <3>5
  <2> QED BY <1>1, <1>2, <2>3, <2>4 DEF SessionTypeOK
<1>7. ChosenIsAsked'
  BY <1>1, <1>2 DEF SessionInv, ChosenIsAsked, SessionTypeOK
<1>8. ASSUME forgets = 0 PROVE TableIsTrue'
  <2>1. TableIsTrue
    BY <1>8 DEF SessionInv
  <2> SUFFICES ASSUME NEW s \in Server
               PROVE  /\ \A x \in Key : answers'[s][x] # Absent <=>
                           \E j \in 1..Len(took'[s]) : took'[s][j] = x
                      /\ \A i, j \in 1..Len(took'[s]) : took'[s][i] = took'[s][j] => i = j
                      /\ \A i \in 1..place'[s] :
                           \/ \E j \in 1..Len(took'[s]) : took'[s][j] = chosen'[i]
                           \/ <<chosen'[i], Refused>> \in told'
    BY DEF TableIsTrue
  <2>2. CASE s # r
    <3>1. answers'[s] = answers[s] /\ took'[s] = took[s] /\ place'[s] = place[s] /\ told \subseteq told'
      BY <1>1, <1>2, <2>2 DEF SessionTypeOK
    <3> QED BY <1>1, <2>1, <3>1 DEF TableIsTrue
  <2>3. CASE s = r
    <3>1. place'[r] = n /\ \A i \in 1..n : i \in 1..place[r] \/ i = n
      BY <1>1, <1>2, <1>3 DEF SessionTypeOK
    <3>2. CASE answers'[r] = answers[r] /\ took'[r] = took[r]
      <4>1. \/ \E j \in 1..Len(took[r]) : took[r][j] = k
            \/ <<k, Refused>> \in told'
        <5>1. CASE answers[r][k] # Absent
          BY <1>1, <2>1, <5>1 DEF TableIsTrue
        <5>2. CASE <<k, Refused>> \in told'
          BY <5>2
        <5>3. answers[r][k] # Absent \/ <<k, Refused>> \in told'
          BY <1>1, <1>2, <3>2 DEF SessionTypeOK
        <5> QED BY <5>1, <5>2, <5>3
      <4>2. told \subseteq told' /\ chosen' = chosen
        BY <1>1
      <4>3. \A i \in 1..n : \/ \E j \in 1..Len(took[r]) : took[r][j] = chosen[i]
                            \/ <<chosen[i], Refused>> \in told'
        BY <1>3, <2>1, <3>1, <4>1, <4>2 DEF TableIsTrue
      <4> QED BY <2>1, <2>3, <3>1, <3>2, <4>2, <4>3 DEF TableIsTrue
    <3>3. CASE /\ answers[r][k] = Absent
               /\ took'[r] = Append(took[r], k)
               /\ \E a \in Values \ {Absent} : answers'[r] = [answers[r] EXCEPT ![k] = a]
      <4> DEFINE m == Len(took[r])
      <4>1. /\ Len(took'[r]) = m + 1 /\ took'[r][m + 1] = k
            /\ \A j \in 1..m : took'[r][j] = took[r][j]
            /\ m \in Nat
        BY <1>1, <1>4, <3>3, AppendProperties
      <4> HIDE DEF m
      <4>2. \A j \in 1..(m + 1) : j \in 1..m \/ j = m + 1
        BY <4>1
      <4>3. \A j \in 1..m : j \in 1..(m + 1) /\ j # m + 1
        BY <4>1
      <4>4. m + 1 \in 1..(m + 1)
        BY <4>1
      <4>5. \A j \in 1..m : took[r][j] # k
        BY <1>1, <2>1, <3>3 DEF TableIsTrue, m
      <4>6. \A x \in Key : answers[r][x] # Absent <=> \E j \in 1..m : took[r][j] = x
        BY <2>1 DEF TableIsTrue, m
      <4>7. \A i, j \in 1..m : took[r][i] = took[r][j] => i = j
        BY <2>1 DEF TableIsTrue, m
      <4>8. \A x \in Key : answers'[r][x] # Absent <=> \E j \in 1..(m + 1) : took'[r][j] = x
        <5>1. answers[r] \in [Key -> Values]
          BY <1>2 DEF SessionTypeOK
        <5>2. \A x \in Key : answers'[r][x] # Absent <=> (x = k \/ answers[r][x] # Absent)
          BY <1>1, <3>3, <5>1
        <5>3. ASSUME NEW x \in Key
              PROVE (\E j \in 1..(m + 1) : took'[r][j] = x) <=> (x = k \/ \E j \in 1..m : took[r][j] = x)
          BY <4>1, <4>2, <4>3, <4>4
        <5> QED BY <4>6, <5>2, <5>3
      <4>9. \A i, j \in 1..(m + 1) : took'[r][i] = took'[r][j] => i = j
        BY <4>1, <4>2, <4>5, <4>7
      <4>10. \A i \in 1..n : \/ \E j \in 1..(m + 1) : took'[r][j] = chosen[i]
                             \/ <<chosen[i], Refused>> \in told'
        <5>1. told \subseteq told'
          BY <1>1
        <5>2. \A i \in 1..place[r] : \/ \E j \in 1..m : took[r][j] = chosen[i]
                                     \/ <<chosen[i], Refused>> \in told
          BY <2>1 DEF TableIsTrue, m
        <5>3. \A i \in 1..place[r] : \/ \E j \in 1..(m + 1) : took'[r][j] = chosen[i]
                                     \/ <<chosen[i], Refused>> \in told'
          BY <4>1, <4>3, <5>1, <5>2
        <5>4. \E j \in 1..(m + 1) : took'[r][j] = chosen[n]
          BY <1>3, <4>1, <4>4
        <5> QED BY <3>1, <5>3, <5>4
      <4> QED BY <1>1, <2>3, <3>1, <4>1, <4>8, <4>9, <4>10
    <3>4. \/ answers'[r] = answers[r] /\ took'[r] = took[r]
          \/ /\ answers[r][k] = Absent
             /\ took'[r] = Append(took[r], k)
             /\ \E a \in Values \ {Absent} : answers'[r] = [answers[r] EXCEPT ![k] = a]
      BY <1>1, <1>2 DEF SessionTypeOK
    <3> QED BY <3>2, <3>3, <3>4
  <2> QED BY <2>2, <2>3
<1> QED BY <1>1, <1>6, <1>7, <1>8 DEF SessionInv

\* A replica that comes back has nothing, and has run nothing.
LEMMA RestartKeeps ==
  ASSUME SessionInv, NEW r \in Server, Ses!Restart(r)
  PROVE  SessionInv'
<1>1. /\ restarts' = restarts + 1
      /\ place' = [place EXCEPT ![r] = 0]
      /\ held' = [held EXCEPT ![r] = Absent]
      /\ answers' = [answers EXCEPT ![r] = [k \in Key |-> Absent]]
      /\ took' = [took EXCEPT ![r] = << >>]
      /\ UNCHANGED <<command, sent, chosen, told, forgets>>
  BY DEF Ses!Restart
<1>2. Absent \in Values /\ [k \in Key |-> Absent] \in [Key -> Values]
  BY DEF Values
<1>3. << >> \in Seq(Key) /\ Len(<< >>) = 0
  OBVIOUS
<1>4. SessionTypeOK'
  BY <1>1, <1>2, <1>3 DEF SessionInv, SessionTypeOK
<1>5. ChosenIsAsked'
  <2>1. Len(chosen) \in Nat
    BY LenProperties DEF SessionInv, SessionTypeOK
  <2> QED BY <1>1, <2>1 DEF SessionInv, SessionTypeOK, ChosenIsAsked
<1>6. ASSUME forgets = 0 PROVE TableIsTrue'
  <2> SUFFICES ASSUME NEW s \in Server
               PROVE  /\ \A x \in Key : answers'[s][x] # Absent <=>
                           \E j \in 1..Len(took'[s]) : took'[s][j] = x
                      /\ \A i, j \in 1..Len(took'[s]) : took'[s][i] = took'[s][j] => i = j
                      /\ \A i \in 1..place'[s] :
                           \/ \E j \in 1..Len(took'[s]) : took'[s][j] = chosen'[i]
                           \/ <<chosen'[i], Refused>> \in told'
    BY DEF TableIsTrue
  <2>1. CASE s # r
    <3>1. answers'[s] = answers[s] /\ took'[s] = took[s] /\ place'[s] = place[s]
      BY <1>1, <2>1 DEF SessionInv, SessionTypeOK
    <3> QED BY <1>1, <1>6, <3>1 DEF SessionInv, TableIsTrue
  <2>2. CASE s = r
    <3>1. answers'[s] = [k \in Key |-> Absent] /\ took'[s] = << >> /\ place'[s] = 0
      BY <1>1, <2>2 DEF SessionInv, SessionTypeOK
    <3> QED BY <1>3, <3>1
  <2> QED BY <2>1, <2>2
<1> QED BY <1>1, <1>4, <1>5, <1>6 DEF SessionInv

LEMMA ForgetKeeps ==
  ASSUME SessionInv, NEW r \in Server, NEW c, Ses!Forget(r, c)
  PROVE  SessionInv'
<1>1. /\ forgets' = forgets + 1
      /\ answers' = [answers EXCEPT ![r] =
                       [k \in Key |-> IF k[1] = c THEN Absent ELSE answers[r][k]]]
      /\ UNCHANGED <<command, sent, chosen, place, held, took, told, restarts>>
  BY DEF Ses!Forget
<1>2. [k \in Key |-> IF k[1] = c THEN Absent ELSE answers[r][k]] \in [Key -> Values]
  BY DEF SessionInv, SessionTypeOK, Values
<1>3. SessionTypeOK' /\ forgets' # 0
  BY <1>1, <1>2 DEF SessionInv, SessionTypeOK
<1>4. ChosenIsAsked'
  BY <1>1 DEF SessionInv, ChosenIsAsked
<1> QED BY <1>3, <1>4 DEF SessionInv

LEMMA SessionKeeps ==
  ASSUME Ses!SessionsConstants, SessionInv, [Ses!Next]_Ses!vars
  PROVE  SessionInv'
<1>1. ASSUME NEW k \in Key, (\E cmd \in Wish : Ses!Ask(k, cmd)) \/ Ses!Retry(k) \/ Ses!Commit(k)
      PROVE  SessionInv'
  BY <1>1, AskKeeps, RetryKeeps, CommitKeeps
<1>2. ASSUME NEW r \in Server, Ses!Run(r) \/ Ses!Restart(r) \/ \E c \in Ses!Client : Ses!Forget(r, c)
      PROVE  SessionInv'
  BY <1>2, RunKeeps, RestartKeeps, ForgetKeeps
<1>3. CASE UNCHANGED Ses!vars
  <2>1. UNCHANGED <<command, sent, chosen, place, held, answers, took, told, restarts, forgets>>
    BY <1>3 DEF Ses!vars, Ses!replicaVars
  <2>2. SessionTypeOK' /\ ChosenIsAsked'
    BY <2>1 DEF SessionInv, SessionTypeOK, ChosenIsAsked
  <2>3. TableIsTrue' <=> TableIsTrue
    BY <2>1 DEF TableIsTrue
  <2> QED BY <2>1, <2>2, <2>3 DEF SessionInv
<1> QED BY <1>1, <1>2, <1>3 DEF Ses!Next

LEMMA SessionsKeep == Spec => [](SessionInv)
<1>1. Ses!SessionsConstants
  BY ServicesAssumption
<1>2. Ses!Init => SessionInv
  BY SessionInit
<1>3. SessionInv /\ [Ses!Next]_Ses!vars => SessionInv'
  BY <1>1, SessionKeeps
<1> QED BY <1>2, <1>3, SessionsMove, PTL DEF Ses!Spec

\* Retries are harmless: of any clients, replicas and commands, and however often a
\* request is sent, committed and run again after a restart, it takes effect once on a
\* replica that has run it, or is refused, as long as no table has dropped anything.
THEOREM EffectsAreOnce == Spec => []TakesEffectOnce
<1>1. SessionInv => TakesEffectOnce
  <2> SUFFICES ASSUME SessionInv, forgets = 0 PROVE Ses!TakesEffectOnce
    BY DEF TakesEffectOnce, Ses!TakesEffectOnce
  <2>1. \A r \in Server : DOMAIN took[r] = 1..Len(took[r])
    BY LenProperties DEF SessionInv, SessionTypeOK
  <2> QED BY <2>1 DEF SessionInv, TableIsTrue, Ses!TakesEffectOnce
<1> QED BY <1>1, SessionsKeep, PTL

-----------------------------------------------------------------------------
(* Every replica is at some point of one run of the log.                   *)

World == [held : Values, answers : [Key -> Values], took : Seq(Key)]

Start == [held |-> Absent, answers |-> [k \in Key |-> Absent], took |-> << >>]

\* What a request does, if the machine has one thing to give.
The(h, cmd) == CHOOSE result \in Ses!Apply(h, cmd) : TRUE

After(w, k, cmd) ==
  IF w.answers[k] # Absent THEN w
  ELSE LET result == The(w.held, cmd) IN
       IF result.out = Refused THEN [w EXCEPT !.held = result.held]
       ELSE [held    |-> result.held,
             answers |-> [w.answers EXCEPT ![k] = result.out],
             took    |-> Append(w.took, k)]

\* Nothing that is remembered or has taken effect goes.
Onward(w, x) ==
  /\ \A k \in Key : w.answers[k] # Absent => x.answers[k] = w.answers[k]
  /\ Len(w.took) <= Len(x.took)
  /\ \A i \in 1..Len(w.took) : x.took[i] = w.took[i]

At(r) == [held |-> held[r], answers |-> answers[r], took |-> took[r]]

\* f[i] is what the first i requests of the log make of the machine and its table.
IsRunOf(f) ==
  /\ f \in [0..Len(chosen) -> World]
  /\ f[0] = Start
  /\ \A i \in 1..Len(chosen) : f[i] = After(f[i - 1], chosen[i], command[chosen[i]])
  /\ \A i, j \in 0..Len(chosen) : i <= j => Onward(f[i], f[j])
  /\ \A r \in Server : At(r) = f[place[r]]
  /\ \A t \in told : t[2] # Refused => t[2] # Absent /\ f[Len(chosen)].answers[t[1]] = t[2]

Certain == forgets = 0 /\ \A k \in Key : command[k] # None => command[k].name # Ses!NOW

OneRun == Certain => \E f : IsRunOf(f)

LEMMA OnwardFurther ==
  ASSUME NEW w \in World, NEW x \in World, NEW y \in World, Onward(w, x), Onward(x, y)
  PROVE  Onward(w, y)
<1>1. Len(w.took) \in Nat /\ Len(x.took) \in Nat /\ Len(y.took) \in Nat
  BY LenProperties DEF World
<1> QED BY <1>1 DEF Onward

LEMMA AfterIsOnward ==
  ASSUME Ses!SessionsConstants, NEW w \in World, NEW k \in Key, NEW cmd \in Wish, cmd.name # Ses!NOW
  PROVE  /\ After(w, k, cmd) \in World /\ Onward(w, w) /\ Onward(w, After(w, k, cmd))
<1>1. /\ w.held \in Values /\ w.answers \in [Key -> Values] /\ w.took \in Seq(Key)
      /\ Len(w.took) \in Nat
      /\ w = [held |-> w.held, answers |-> w.answers, took |-> w.took]
  BY LenProperties DEF World
<1>2. Onward(w, w)
  BY <1>1 DEF Onward
<1>3. CASE w.answers[k] # Absent
  BY <1>2, <1>3 DEF After
<1>4. CASE w.answers[k] = Absent
  <2> DEFINE result == The(w.held, cmd)
  <2>1. result.held \in Values /\ result.out \in Values
    <3>1. \E x : x \in Ses!Apply(w.held, cmd)
      BY DEF Ses!SessionsConstants, Ses!Apply
    <3>2. result \in Ses!Apply(w.held, cmd)
      BY <3>1 DEF The
    <3> QED BY <1>1, <3>2, ApplyGives
  <2>2. After(w, k, cmd) =
          IF result.out = Refused THEN [w EXCEPT !.held = result.held]
          ELSE [held    |-> result.held,
                answers |-> [w.answers EXCEPT ![k] = result.out],
                took    |-> Append(w.took, k)]
    BY <1>4 DEF After
  <2> HIDE DEF result
  <2>3. CASE result.out = Refused
    <3>1. After(w, k, cmd) = [held |-> result.held, answers |-> w.answers, took |-> w.took]
      BY <1>1, <2>2, <2>3
    <3> QED BY <1>1, <1>2, <2>1, <3>1 DEF World, Onward
  <2>4. CASE result.out # Refused
    <3>1. /\ Append(w.took, k) \in Seq(Key) /\ Len(Append(w.took, k)) = Len(w.took) + 1
          /\ \A i \in 1..Len(w.took) : Append(w.took, k)[i] = w.took[i]
      BY <1>1, AppendProperties
    <3>2. /\ [w.answers EXCEPT ![k] = result.out] \in [Key -> Values]
          /\ \A x \in Key : w.answers[x] # Absent =>
               [w.answers EXCEPT ![k] = result.out][x] = w.answers[x]
      BY <1>1, <1>4, <2>1
    <3> QED BY <1>1, <1>2, <2>1, <2>2, <2>4, <3>1, <3>2 DEF World, Onward
  <2> QED BY <2>3, <2>4
<1> QED BY <1>2, <1>3, <1>4

LEMMA OneRunInit ==
  ASSUME Ses!Init
  PROVE  OneRun
<1> DEFINE f == [i \in 0..0 |-> Start]
<1>1. chosen = << >> /\ Len(chosen) = 0 /\ told = {} /\ \A r \in Server : place[r] = 0
  BY DEF Ses!Init
<1>2. Start \in World
  BY DEF Start, World, Values
<1>3. f \in [0..Len(chosen) -> World] /\ f[0] = Start
  BY <1>1, <1>2
<1>4. \A r \in Server : At(r) = Start
  BY DEF Ses!Init, At, Start
<1>5. Onward(Start, Start)
  <2>1. Start.took = << >> /\ Len(<< >>) = 0
    BY DEF Start
  <2> QED BY <2>1 DEF Onward
<1>6. IsRunOf(f)
  BY <1>1, <1>3, <1>4, <1>5 DEF IsRunOf
<1> QED BY <1>6 DEF OneRun

\* What stays the same in a step under which no table and no command of the log changes.
LEMMA SameRun ==
  ASSUME NEW f, IsRunOf(f), UNCHANGED <<chosen, place, held, answers, took, told>>,
         \A i \in 1..Len(chosen) : command'[chosen[i]] = command[chosen[i]]
  PROVE  IsRunOf(f)'
BY DEF IsRunOf, At

LEMMA AskKeepsRun ==
  ASSUME Ses!SessionsConstants, SessionInv, OneRun, NEW k \in Key, NEW cmd \in Wish, Ses!Ask(k, cmd)
  PROVE  OneRun'
<1>1. /\ command[k] = None
      /\ command' = [command EXCEPT ![k] = cmd]
      /\ UNCHANGED <<chosen, place, held, answers, took, told, forgets>>
  BY DEF Ses!Ask, Ses!Asked, Ses!replicaVars
<1>2. None \notin Wish /\ command \in [Key -> Wish \cup {None}]
  BY DEF Ses!SessionsConstants, SessionInv, SessionTypeOK
<1>3. ASSUME Certain' PROVE Certain
  <2>1. ASSUME NEW x \in Key, command[x] # None PROVE command[x].name # Ses!NOW
    <3>1. x # k /\ command'[x] = command[x]
      BY <1>1, <1>2, <2>1
    <3> QED BY <1>3, <2>1, <3>1 DEF Certain
  <2> QED BY <1>1, <1>3, <2>1 DEF Certain
<1>4. \A i \in 1..Len(chosen) : command'[chosen[i]] = command[chosen[i]]
  <2>1. \A i \in 1..Len(chosen) : chosen[i] \in Key /\ command[chosen[i]] \in Wish
    BY DEF SessionInv, SessionTypeOK, ChosenIsAsked
  <2> QED BY <1>1, <1>2, <2>1
<1> SUFFICES ASSUME Certain' PROVE \E f : IsRunOf(f)'
  BY DEF OneRun
<1>5. PICK f : IsRunOf(f)
  BY <1>3 DEF OneRun
<1>6. IsRunOf(f)'
  BY <1>1, <1>4, <1>5, SameRun
<1> QED BY <1>6

\* One more committed request makes the run one longer.
LEMMA CommitKeepsRun ==
  ASSUME Ses!SessionsConstants, SessionInv, OneRun, NEW k \in Key, Ses!Commit(k)
  PROVE  OneRun'
<1>1. /\ command[k] \in Wish
      /\ Len(chosen') = Len(chosen) + 1 /\ Len(chosen) \in Nat
      /\ chosen'[Len(chosen) + 1] = k
      /\ \A i \in 1..Len(chosen) : chosen'[i] = chosen[i]
      /\ UNCHANGED <<command, sent, place, held, answers, took, told, restarts, forgets>>
  BY CommitOfSent
<1> SUFFICES ASSUME Certain PROVE \E f : IsRunOf(f)'
  BY <1>1 DEF OneRun, Certain
<1>2. PICK f : IsRunOf(f)
  BY DEF OneRun
<1> DEFINE n == Len(chosen)
           w == After(f[n], k, command[k])
           g == [i \in 0..(n + 1) |-> IF i = n + 1 THEN w ELSE f[i]]
<1>3. n \in Nat /\ Len(chosen') = n + 1 /\ chosen'[n + 1] = k /\ \A i \in 1..n : chosen'[i] = chosen[i]
  BY <1>1
<1>4. /\ f \in [0..n -> World] /\ f[0] = Start
      /\ \A i \in 1..n : f[i] = After(f[i - 1], chosen[i], command[chosen[i]])
      /\ \A i, j \in 0..n : i <= j => Onward(f[i], f[j])
      /\ \A r \in Server : At(r) = f[place[r]]
      /\ \A t \in told : t[2] # Refused => t[2] # Absent /\ f[n].answers[t[1]] = t[2]
  BY <1>2 DEF IsRunOf
<1>5. command[k].name # Ses!NOW
  <2>1. command[k] # None
    BY <1>1 DEF Ses!SessionsConstants
  <2> QED BY <2>1 DEF Certain
<1>6. f[n] \in World /\ w \in World /\ Onward(w, w) /\ Onward(f[n], w)
  <2>1. f[n] \in World
    BY <1>3, <1>4
  <2>2. w \in World
    BY <1>1, <1>5, <2>1, AfterIsOnward
  <2> QED BY <1>1, <1>5, <2>1, <2>2, AfterIsOnward
<1>7. w = After(f[n], k, command[k])
  OBVIOUS
<1> HIDE DEF n, w
<1>8. /\ g[n + 1] = w /\ g[n] = f[n] /\ g[0] = f[0]
      /\ \A i \in 0..n : g[i] = f[i]
      /\ g \in [0..(n + 1) -> World]
  <2>1. \A i \in 0..n : i \in 0..(n + 1) /\ i # n + 1
    BY <1>3
  <2>2. n + 1 \in 0..(n + 1) /\ 0 \in 0..n /\ n \in 0..n
    BY <1>3
  <2>3. \A i \in 0..(n + 1) : i \in 0..n \/ i = n + 1
    BY <1>3
  <2> QED BY <1>4, <1>6, <2>1, <2>2, <2>3
<1> HIDE DEF g
<1>9. \A i \in 1..(n + 1) : g[i] = After(g[i - 1], chosen'[i], command[chosen'[i]])
  <2>1. ASSUME NEW i \in 1..n PROVE g[i] = After(g[i - 1], chosen'[i], command[chosen'[i]])
    <3>1. i \in 0..n /\ i - 1 \in 0..n
      BY <1>3
    <3> QED BY <1>3, <1>4, <1>8, <3>1
  <2>2. g[n + 1] = After(g[n], chosen'[n + 1], command[chosen'[n + 1]])
    BY <1>3, <1>7, <1>8
  <2>3. (n + 1) - 1 = n /\ \A i \in 1..(n + 1) : i \in 1..n \/ i = n + 1
    BY <1>3
  <2> QED BY <2>1, <2>2, <2>3
<1>10. \A i, j \in 0..(n + 1) : i <= j => Onward(g[i], g[j])
  <2>1. ASSUME NEW i \in 0..n PROVE Onward(g[i], w)
    <3>1. f[i] \in World /\ Onward(f[i], f[n])
      BY <1>3, <1>4
    <3> QED BY <1>6, <1>8, <3>1, OnwardFurther
  <2>2. \A i \in 0..(n + 1) : i \in 0..n \/ i = n + 1
    BY <1>3
  <2>3. ASSUME NEW i \in 0..(n + 1), NEW j \in 0..(n + 1), i <= j PROVE Onward(g[i], g[j])
    <3>1. CASE j \in 0..n
      <4>1. i \in 0..n
        BY <1>3, <2>3, <3>1
      <4> QED BY <1>4, <1>8, <2>3, <3>1, <4>1
    <3>2. CASE j = n + 1
      BY <1>6, <1>8, <2>1, <2>2, <3>2
    <3> QED BY <2>2, <3>1, <3>2
  <2> QED BY <2>3
<1>11. \A r \in Server : At(r) = g[place[r]]
  <2>1. \A r \in Server : place[r] \in 0..n
    BY <1>3 DEF SessionInv, SessionTypeOK, ChosenIsAsked, n
  <2> QED BY <1>4, <1>8, <2>1
<1>12. \A t \in told : t[2] # Refused => t[2] # Absent /\ w.answers[t[1]] = t[2]
  <2>1. \A t \in told : t[1] \in Key
    BY DEF SessionInv, SessionTypeOK
  <2> QED BY <1>4, <1>6, <2>1 DEF Onward
<1>13. PICK h : h = g
  OBVIOUS
<1>14. /\ h \in [0..(n + 1) -> World] /\ h[0] = Start
       /\ \A i \in 1..(n + 1) : h[i] = After(h[i - 1], chosen'[i], command[chosen'[i]])
       /\ \A i, j \in 0..(n + 1) : i <= j => Onward(h[i], h[j])
       /\ \A r \in Server : At(r) = h[place[r]]
       /\ \A t \in told : t[2] # Refused => t[2] # Absent /\ h[n + 1].answers[t[1]] = t[2]
  BY <1>4, <1>8, <1>9, <1>10, <1>11, <1>12, <1>13
<1>15. IsRunOf(h)'
  BY <1>1, <1>3, <1>14 DEF IsRunOf, At
<1> QED BY <1>15

\* Running one request takes a replica to the next point of the run.
LEMMA RunIsAfter ==
  ASSUME Ses!SessionsConstants, SessionInv, Certain, NEW r \in Server, Ses!Run(r),
         NEW n, n = place[r] + 1, NEW k, k = chosen[n]
  PROVE  /\ At(r)' = After(At(r), k, command[k])
         /\ \A s \in Server \ {r} : At(s)' = At(s) /\ place'[s] = place[s]
         /\ \E out \in Values :
              /\ told' = told \cup {<<k, out>>}
              /\ out # Refused => out # Absent /\ answers'[r][k] = out
<1>1. /\ k \in Key /\ command[k] \in Wish
      /\ place' = [place EXCEPT ![r] = n]
      /\ UNCHANGED <<command, sent, chosen, restarts, forgets>>
      /\ \/ /\ answers[r][k] # Absent
            /\ told' = told \cup {<<k, answers[r][k]>>}
            /\ UNCHANGED <<held, answers, took>>
         \/ \E result \in Ses!Apply(held[r], command[k]) :
              /\ answers[r][k] = Absent
              /\ result.held \in Values /\ result.out \in Values /\ result.out # Absent
              /\ held' = [held EXCEPT ![r] = result.held]
              /\ told' = told \cup {<<k, result.out>>}
              /\ result.out = Refused => UNCHANGED <<answers, took>>
              /\ result.out # Refused =>
                   /\ answers' = [answers EXCEPT ![r][k] = result.out]
                   /\ took' = [took EXCEPT ![r] = Append(took[r], k)]
  BY RunDoes
<1>2. /\ place \in [Server -> Nat] /\ held \in [Server -> Values]
      /\ answers \in [Server -> [Key -> Values]] /\ took \in [Server -> Seq(Key)]
  BY DEF SessionInv, SessionTypeOK
<1>3. \A s \in Server \ {r} : place'[s] = place[s]
  BY <1>1, <1>2
<1>4. CASE /\ answers[r][k] # Absent
           /\ told' = told \cup {<<k, answers[r][k]>>}
           /\ UNCHANGED <<held, answers, took>>
  <2>1. answers[r][k] \in Values
    BY <1>1, <1>2
  <2>2. After(At(r), k, command[k]) = At(r)
    BY <1>4 DEF After, At
  <2>3. \A s \in Server : At(s)' = At(s)
    BY <1>4 DEF At
  <2> QED BY <1>3, <1>4, <2>1, <2>2, <2>3
<1>5. ASSUME NEW result \in Ses!Apply(held[r], command[k]),
             /\ answers[r][k] = Absent
             /\ result.held \in Values /\ result.out \in Values /\ result.out # Absent
             /\ held' = [held EXCEPT ![r] = result.held]
             /\ told' = told \cup {<<k, result.out>>}
             /\ result.out = Refused => UNCHANGED <<answers, took>>
             /\ result.out # Refused =>
                  /\ answers' = [answers EXCEPT ![r][k] = result.out]
                  /\ took' = [took EXCEPT ![r] = Append(took[r], k)]
      PROVE  /\ At(r)' = After(At(r), k, command[k])
             /\ \A s \in Server \ {r} : At(s)' = At(s) /\ place'[s] = place[s]
             /\ \E out \in Values :
                  /\ told' = told \cup {<<k, out>>}
                  /\ out # Refused => out # Absent /\ answers'[r][k] = out
  <2>1. command[k].name # Ses!NOW
    BY <1>1 DEF Certain, Ses!SessionsConstants
  <2>2. Ses!Apply(held[r], command[k]) = {result}
    BY <1>1, <1>2, <2>1, ApplyGives
  <2>3. The(held[r], command[k]) = result
    BY <2>2 DEF The
  <2>4. After(At(r), k, command[k]) =
          IF result.out = Refused
          THEN [held |-> result.held, answers |-> answers[r], took |-> took[r]]
          ELSE [held |-> result.held, answers |-> [answers[r] EXCEPT ![k] = result.out],
                took |-> Append(took[r], k)]
    <3> DEFINE w == At(r)
    <3>1. w.held = held[r] /\ w.answers = answers[r] /\ w.took = took[r]
      BY DEF At
    <3>2. \A x : [w EXCEPT !.held = x] = [held |-> x, answers |-> answers[r], took |-> took[r]]
      BY DEF At
    <3> HIDE DEF w
    <3>3. After(w, k, command[k]) =
            IF result.out = Refused THEN [w EXCEPT !.held = result.held]
            ELSE [held |-> result.held, answers |-> [w.answers EXCEPT ![k] = result.out],
                  took |-> Append(w.took, k)]
      BY <1>5, <2>3, <3>1 DEF After
    <3> QED BY <3>1, <3>2, <3>3 DEF w
  <2>5. held'[r] = result.held /\ \A s \in Server \ {r} : held'[s] = held[s]
    BY <1>2, <1>5
  <2>6. CASE result.out = Refused
    <3>1. answers' = answers /\ took' = took
      BY <1>5, <2>6
    <3>2. At(r)' = [held |-> result.held, answers |-> answers[r], took |-> took[r]]
      BY <2>5, <3>1 DEF At
    <3>3. \A s \in Server \ {r} : At(s)' = At(s)
      BY <2>5, <3>1 DEF At
    <3> QED BY <1>3, <1>5, <2>4, <2>6, <3>2, <3>3
  <2>7. CASE result.out # Refused
    <3>1. /\ answers'[r] = [answers[r] EXCEPT ![k] = result.out]
          /\ took'[r] = Append(took[r], k)
          /\ \A s \in Server \ {r} : answers'[s] = answers[s] /\ took'[s] = took[s]
      BY <1>2, <1>5, <2>7
    <3>2. answers'[r][k] = result.out
      BY <1>1, <1>2, <3>1
    <3>3. At(r)' = [held |-> result.held, answers |-> [answers[r] EXCEPT ![k] = result.out],
                    took |-> Append(took[r], k)]
      BY <2>5, <3>1 DEF At
    <3>4. \A s \in Server \ {r} : At(s)' = At(s)
      BY <2>5, <3>1 DEF At
    <3> QED BY <1>3, <1>5, <2>4, <2>7, <3>2, <3>3, <3>4
  <2> QED BY <2>6, <2>7
<1> QED BY <1>1, <1>4, <1>5

LEMMA RunKeepsRun ==
  ASSUME Ses!SessionsConstants, SessionInv, OneRun, NEW r \in Server, Ses!Run(r)
  PROVE  OneRun'
<1>1. UNCHANGED <<command, sent, chosen, restarts, forgets>>
  BY DEF Ses!Run
<1> SUFFICES ASSUME Certain PROVE \E f : IsRunOf(f)'
  BY <1>1 DEF OneRun, Certain
<1>2. PICK f : IsRunOf(f)
  BY DEF OneRun
<1>3. /\ f \in [0..Len(chosen) -> World] /\ f[0] = Start
      /\ \A i \in 1..Len(chosen) : f[i] = After(f[i - 1], chosen[i], command[chosen[i]])
      /\ \A i, j \in 0..Len(chosen) : i <= j => Onward(f[i], f[j])
      /\ \A s \in Server : At(s) = f[place[s]]
      /\ \A t \in told : t[2] # Refused => t[2] # Absent /\ f[Len(chosen)].answers[t[1]] = t[2]
  BY <1>2 DEF IsRunOf
<1> DEFINE n == place[r] + 1
           k == chosen[n]
<1>4. /\ n \in 1..Len(chosen) /\ k \in Key
      /\ place' = [place EXCEPT ![r] = n]
  BY RunDoes
<1>5. /\ At(r)' = After(At(r), k, command[k])
      /\ \A s \in Server \ {r} : At(s)' = At(s) /\ place'[s] = place[s]
      /\ \E out \in Values :
           /\ told' = told \cup {<<k, out>>}
           /\ out # Refused => out # Absent /\ answers'[r][k] = out
  BY RunIsAfter
<1>6. n - 1 = place[r] /\ place \in [Server -> Nat] /\ Len(chosen) \in Nat
  BY LenProperties DEF SessionInv, SessionTypeOK
<1> HIDE DEF n
<1>7. At(r)' = f[n]
  BY <1>3, <1>4, <1>5, <1>6
<1>8. \A s \in Server : At(s)' = f[place'[s]]
  <2>1. place'[r] = n
    BY <1>4, <1>6
  <2> QED BY <1>3, <1>5, <1>7, <2>1
<1> HIDE DEF k
<1>9. PICK out \in Values : /\ told' = told \cup {<<k, out>>}
                            /\ out # Refused => out # Absent /\ answers'[r][k] = out
  BY <1>5
<1>10. out # Refused => out # Absent /\ f[Len(chosen)].answers[k] = out
  <2>1. ASSUME out # Refused PROVE out # Absent /\ f[n].answers[k] = out
    BY <1>7, <1>9, <2>1 DEF At
  <2>2. Onward(f[n], f[Len(chosen)])
    BY <1>3, <1>4, <1>6
  <2> QED BY <1>4, <2>1, <2>2 DEF Onward
<1>11. \A t \in told' : t[2] # Refused => t[2] # Absent /\ f[Len(chosen)].answers[t[1]] = t[2]
  BY <1>3, <1>9, <1>10
<1>12. IsRunOf(f)'
  BY <1>1, <1>3, <1>8, <1>11 DEF IsRunOf
<1> QED BY <1>12

LEMMA RestartKeepsRun ==
  ASSUME SessionInv, OneRun, NEW r \in Server, Ses!Restart(r)
  PROVE  OneRun'
<1>1. /\ place' = [place EXCEPT ![r] = 0]
      /\ held' = [held EXCEPT ![r] = Absent]
      /\ answers' = [answers EXCEPT ![r] = [k \in Key |-> Absent]]
      /\ took' = [took EXCEPT ![r] = << >>]
      /\ UNCHANGED <<command, sent, chosen, told, forgets>>
  BY DEF Ses!Restart
<1> SUFFICES ASSUME Certain PROVE \E f : IsRunOf(f)'
  BY <1>1 DEF OneRun, Certain
<1>2. PICK f : IsRunOf(f)
  BY DEF OneRun
<1>3. f[0] = Start /\ \A s \in Server : At(s) = f[place[s]]
  BY <1>2 DEF IsRunOf
<1>4. /\ place \in [Server -> Nat] /\ held \in [Server -> Values]
      /\ answers \in [Server -> [Key -> Values]] /\ took \in [Server -> Seq(Key)]
  BY DEF SessionInv, SessionTypeOK
<1>5. \A s \in Server : At(s)' = f[place'[s]]
  <2>1. /\ held'[r] = Absent /\ answers'[r] = [k \in Key |-> Absent] /\ took'[r] = << >>
        /\ place'[r] = 0
    BY <1>1, <1>4
  <2>2. At(r)' = f[place'[r]]
    BY <1>3, <2>1 DEF At, Start
  <2>3. ASSUME NEW s \in Server, s # r PROVE At(s)' = f[place'[s]]
    <3>1. /\ held'[s] = held[s] /\ answers'[s] = answers[s] /\ took'[s] = took[s]
          /\ place'[s] = place[s]
      BY <1>1, <1>4, <2>3
    <3> QED BY <1>3, <3>1 DEF At
  <2> QED BY <2>2, <2>3
<1>6. IsRunOf(f)'
  BY <1>1, <1>2, <1>5 DEF IsRunOf
<1> QED BY <1>6

LEMMA OneRunKeeps ==
  ASSUME Ses!SessionsConstants, SessionInv, OneRun, [Ses!Next]_Ses!vars
  PROVE  OneRun'
<1>1. ASSUME NEW k \in Key, NEW cmd \in Wish, Ses!Ask(k, cmd)
      PROVE  OneRun'
  BY <1>1, AskKeepsRun
<1>2. ASSUME NEW k \in Key, Ses!Commit(k)
      PROVE  OneRun'
  BY <1>2, CommitKeepsRun
<1>3. ASSUME NEW r \in Server, Ses!Run(r) \/ Ses!Restart(r)
      PROVE  OneRun'
  BY <1>3, RunKeepsRun, RestartKeepsRun
<1>4. ASSUME NEW r \in Server, NEW c, Ses!Forget(r, c)
      PROVE  OneRun'
  BY <1>4 DEF Ses!Forget, OneRun, Certain, SessionInv, SessionTypeOK
<1>5. ASSUME UNCHANGED <<command, chosen, place, held, answers, took, told, forgets>>
      PROVE  OneRun'
  <2> SUFFICES ASSUME Certain PROVE \E f : IsRunOf(f)'
    BY <1>5 DEF OneRun, Certain
  <2>1. PICK f : IsRunOf(f)
    BY DEF OneRun
  <2>2. IsRunOf(f)'
    BY <1>5, <2>1, SameRun
  <2> QED BY <2>2
<1>6. ASSUME NEW k \in Key, Ses!Retry(k)
      PROVE  OneRun'
  BY <1>5, <1>6 DEF Ses!Retry, Ses!replicaVars
<1>7. CASE UNCHANGED Ses!vars
  BY <1>5, <1>7 DEF Ses!vars, Ses!replicaVars
<1> QED BY <1>1, <1>2, <1>3, <1>4, <1>6, <1>7 DEF Ses!Next

\* What a client has been told stands, and the replicas go one way: of any clients,
\* replicas and commands that are functions of the state, every replica is at some point
\* of one run of the log, and every answer is in the table at its end.
THEOREM AnswersStand == Spec => []AnswerStands
<1>1. Ses!SessionsConstants
  BY ServicesAssumption
<1>2. Ses!Init => OneRun
  BY OneRunInit
<1>3. SessionInv /\ OneRun /\ [Ses!Next]_Ses!vars => OneRun'
  BY <1>1, OneRunKeeps
<1>4. SessionInv /\ OneRun => AnswerStands
  <2> SUFFICES ASSUME SessionInv, OneRun, forgets = 0,
                      \A k \in Key : Ses!Asked(k) => command[k].name # Ses!NOW
               PROVE  /\ \A x, y \in told : (x[1] = y[1] /\ Refused \notin {x[2], y[2]}) => x[2] = y[2]
                      /\ \A r, s \in Server : \A i \in DOMAIN took[r] \cap DOMAIN took[s] :
                           took[r][i] = took[s][i]
    BY DEF AnswerStands, Ses!AnswerStands
  <2>1. PICK f : IsRunOf(f)
    BY DEF OneRun, Certain, Ses!Asked
  <2>2. \A x, y \in told : (x[1] = y[1] /\ Refused \notin {x[2], y[2]}) => x[2] = y[2]
    BY <2>1 DEF IsRunOf
  <2>3. ASSUME NEW r \in Server, NEW s \in Server, place[r] <= place[s],
               NEW i \in DOMAIN took[r] \cap DOMAIN took[s]
        PROVE  took[r][i] = took[s][i]
    <3>1. place[r] \in 0..Len(chosen) /\ place[s] \in 0..Len(chosen)
      BY LenProperties DEF SessionInv, SessionTypeOK, ChosenIsAsked
    <3>2. Onward(At(r), At(s))
      BY <2>1, <2>3, <3>1 DEF IsRunOf
    <3>3. i \in 1..Len(took[r])
      BY LenProperties DEF SessionInv, SessionTypeOK
    <3> QED BY <3>2, <3>3 DEF Onward, At
  <2>4. \A r, s \in Server : place[r] <= place[s] \/ place[s] <= place[r]
    BY DEF SessionInv, SessionTypeOK
  <2> QED BY <2>2, <2>3, <2>4
<1> QED BY <1>2, <1>3, <1>4, SessionsKeep, SessionsMove, PTL DEF Ses!Spec

-----------------------------------------------------------------------------
(* Keys that expire.                                                       *)

\* A behaviour of the services is one of the stores.
LEMMA StoresMove == Spec => Exp!Spec
<1>1. Init => Exp!Init
  BY DEF Init
<1>2. [Next]_vars => [Exp!Round]_Exp!vars
  BY DEF Next, vars, stores, Exp!vars, Exp!sweepVars
<1> QED BY <1>1, <1>2, PTL DEF Spec, Exp!Spec

LEMMA MultiplesGrow ==
  ASSUME NEW s \in Nat, NEW i \in Nat, NEW j \in Nat, i <= j
  PROVE  i * s \in Nat /\ i * s <= j * s
<1>1. i * s \in Nat /\ j * s \in Nat /\ (j - i) * s \in Nat
  OBVIOUS
<1>2. j * s = i * s + (j - i) * s
  OBVIOUS
<1> QED BY <1>1, <1>2

LEMMA Remainder ==
  ASSUME NEW s \in Nat \ {0}, NEW t \in Nat
  PROVE  /\ t % s \in 0..(s - 1) /\ t \div s \in Nat
         /\ t = (s * (t \div s)) + (t % s)
OBVIOUS

\* The remainder goes up by one, or back to zero.
LEMMA NextRemainder ==
  ASSUME NEW s \in Nat \ {0}, NEW t \in Nat
  PROVE  (t + 1) % s = 0 \/ (t + 1) % s = (t % s) + 1
<1> DEFINE q == t \div s
           p == (t + 1) \div s
           r == t % s
           z == (t + 1) % s
<1>1. q \in Int /\ p \in Int /\ r \in 0..(s - 1) /\ z \in 0..(s - 1)
  BY Remainder
<1>2. t = s * q + r /\ t + 1 = s * p + z
  BY Remainder
<1> HIDE DEF q, p, r, z
<1>3. s * p - s * q = s * (p - q)
  BY <1>1
<1>4. s * (p - q) = 1 + r - z
  BY <1>1, <1>2, <1>3
<1>5. z = 0 \/ z = r + 1
  <2>1. CASE p - q >= 2
    BY <1>1, <1>4, <2>1
  <2>2. CASE p - q <= -1
    BY <1>1, <1>4, <2>2
  <2>3. CASE p - q = 0
    <3>1. s * (p - q) = 0
      BY <2>3
    <3> QED BY <1>1, <1>4, <3>1
  <2>4. CASE p - q = 1
    <3>1. s * (p - q) = s
      BY <2>4
    <3> QED BY <1>1, <1>4, <3>1
  <2> QED BY <1>1, <2>1, <2>2, <2>3, <2>4
<1> QED BY <1>5 DEF r, z

\* A multiple before another is a whole one before it.
LEMMA MultipleBelow ==
  ASSUME NEW e \in Nat \ {0}, NEW a \in Nat, NEW b \in Nat
  PROVE  /\ a * e \in Nat
         /\ (a + 1) * e = a * e + e
         /\ a < b => a * e + e <= b * e
<1>1. a * e \in Nat /\ b * e \in Nat /\ (a + 1) * e = a * e + e
  OBVIOUS
<1>2. ASSUME a < b PROVE a * e + e <= b * e
  <2>1. b - (a + 1) \in Nat /\ (b - (a + 1)) * e \in Nat
    BY <1>2
  <2>2. (b - (a + 1)) * e = b * e - (a + 1) * e
    OBVIOUS
  <2> QED BY <1>1, <2>1, <2>2
<1> QED BY <1>1, <1>2

\* A tick is one of an attempt if it is the next multiple.
LEMMA NextAttempt ==
  ASSUME NEW e \in Nat \ {0}, NEW n \in Nat, NEW t \in Nat,
         n * e <= t, t < (n + 1) * e
  PROVE  (t + 1) % e = 0 <=> t + 1 = (n + 1) * e
<1> DEFINE q == (t + 1) \div e
           r == (t + 1) % e
<1>1. q \in Nat /\ r \in 0..(e - 1) /\ t + 1 = e * q + r
  OBVIOUS
<1>2. e * q = q * e
  BY <1>1
<1> HIDE DEF q, r
<1>3. n * e \in Nat /\ (n + 1) * e = n * e + e /\ q * e \in Nat /\ (q + 1) * e = q * e + e
  BY <1>1, MultipleBelow
<1>4. q >= n
  <2>1. CASE q < n
    <3>1. q * e + e <= n * e
      BY <1>1, <2>1, MultipleBelow
    <3> QED BY <1>1, <1>2, <1>3, <3>1
  <2> QED BY <1>1, <2>1
<1>5. q <= n + 1
  <2>1. CASE n + 1 < q
    <3>1. (n + 1) * e + e <= q * e
      BY <1>1, <2>1, MultipleBelow
    <3> QED BY <1>1, <1>2, <1>3, <3>1
  <2> QED BY <1>1, <2>1
<1>6. CASE q = n
  <2>1. q * e = n * e
    BY <1>6
  <2> QED BY <1>1, <1>2, <1>3, <2>1 DEF r
<1>7. CASE q = n + 1
  <2>1. q * e = (n + 1) * e
    BY <1>7
  <2> QED BY <1>1, <1>2, <1>3, <2>1 DEF r
<1> QED BY <1>1, <1>4, <1>5, <1>6, <1>7

\* A finite set of integers that has an element has a greatest one: the elements above
\* each one are a subset, and subsets of a finite set cannot shrink for ever.
LEMMA GreatestIsFound ==
  ASSUME NEW S, S \subseteq Int, IsFiniteSet(S), S # {}
  PROVE  /\ Exp!Max(S) \in S
         /\ \A x \in S : Exp!Max(S) >= x
<1> DEFINE above(x) == {y \in S : y > x}
           T == {above(x) : x \in S}
<1>1. IsWellFoundedOn(StrictSubsetOrdering(S), FiniteSubsetsOf(S))
  BY FS_StrictSubsetOrderingWellFounded
<1>2. T \subseteq FiniteSubsetsOf(S) /\ T # {}
  <2>1. \A x \in S : above(x) \in SUBSET S /\ IsFiniteSet(above(x))
    BY FS_Subset
  <2> QED
    BY <2>1 DEF FiniteSubsetsOf
<1>3. PICK B \in T : \A C \in T : ~ (<<C, B>> \in StrictSubsetOrdering(S))
  BY <1>1, <1>2, WFMin
<1>4. PICK x \in S : B = above(x)
  OBVIOUS
<1>5. \A y \in S : x >= y
  <2> SUFFICES ASSUME NEW y \in S, y > x
               PROVE  FALSE
    OBVIOUS
  <2>1. above(y) \in T
    OBVIOUS
  <2>2. above(y) \in SUBSET S /\ above(x) \in SUBSET S
    OBVIOUS
  <2>3. \A z \in S : z > y => z > x
    BY SMT
  <2>4. above(y) \subseteq above(x)
    BY <2>3
  <2>5. y \in above(x) /\ y \notin above(y)
    BY SMT
  <2> QED
    BY <1>3, <1>4, <2>1, <2>2, <2>4, <2>5 DEF StrictSubsetOrdering
<1> QED
  BY <1>5 DEF Exp!Max

StoresTypeOK ==
  /\ byClock \in BOOLEAN /\ skew \in Nat /\ sweep \in Nat \ {0}
  /\ round \in Nat
  /\ pending \subseteq Nat /\ IsFiniteSet(pending)
  /\ leases \in [Exp!Replica -> SUBSET Nat]
  /\ divergences \in Nat /\ worstDelay \in Int

\* By the clock, a store holds of the first one's leases those its own clock leaves.
ClocksLeave ==
  byClock =>
    /\ pending = leases[0]
    /\ \A i \in Exp!Replica : leases[i] = {l \in pending : round + (i * skew) < Exp!ExpiresAt(l)}

\* Through the log, the last sweep has taken whatever was over by then.
SweepsTake ==
  ~byClock =>
    /\ divergences = 0 /\ worstDelay < sweep
    /\ \A i \in Exp!Replica : leases[i] = pending
    /\ \A l \in pending : Exp!ExpiresAt(l) > round - (round % sweep)

\* The grants are counted, and none has gone before its time.
GrantsStand ==
  /\ grantEvery \in Nat \ {0} /\ granted \in 0..Leases
  /\ granted * grantEvery <= round
  /\ granted < Leases => round < (granted + 1) * grantEvery
  /\ pending \subseteq Exp!Grants
  /\ \A l \in Exp!Grants : round < Exp!ExpiresAt(l) => l \in pending

StoresInv == StoresTypeOK /\ ClocksLeave /\ SweepsTake /\ GrantsStand

LEMMA StoresInit ==
  ASSUME Exp!ExpiryConstants, Exp!Init
  PROVE  StoresInv
<1>1. 0 \in Exp!Replica
  BY DEF Exp!ExpiryConstants, Exp!Replica
<1>2. IsFiniteSet({})
  BY FS_EmptySet
<1>3. StoresTypeOK
  BY <1>2 DEF Exp!ExpiryConstants, Exp!Init, StoresTypeOK
<1>4. GrantsStand
  <2>1. /\ grantEvery \in Nat \ {0} /\ granted = 0 /\ round = 0 /\ pending = {} /\ Leases \in Nat
    BY DEF Exp!ExpiryConstants, Exp!Init
  <2>2. 0 * grantEvery = 0 /\ (0 + 1) * grantEvery = grantEvery
    BY <2>1
  <2>3. Exp!Grants = {}
    BY <2>1 DEF Exp!Grants
  <2> QED BY <2>1, <2>2, <2>3 DEF GrantsStand
<1> QED BY <1>1, <1>3, <1>4 DEF Exp!ExpiryConstants, Exp!Init, StoresTypeOK, StoresInv, ClocksLeave, SweepsTake

\* A round grants the lease that is due.
LEMMA GrantsGrow ==
  ASSUME Exp!ExpiryConstants, StoresInv, Exp!Round,
         NEW new, new = IF Exp!Granting(round + 1) THEN {round + 1} ELSE {}
  PROVE  /\ Exp!Grants' = Exp!Grants \cup new
         /\ grantEvery' \in Nat \ {0} /\ granted' \in 0..Leases
         /\ granted' * grantEvery' <= round'
         /\ granted' < Leases => round' < (granted' + 1) * grantEvery'
<1> DEFINE e == grantEvery  g == granted  t == round + 1
<1>1. /\ e \in Nat \ {0} /\ g \in 0..Leases /\ g \in Nat /\ Leases \in Nat /\ round \in Nat
      /\ t \in Nat /\ g * e <= round /\ (g < Leases => round < (g + 1) * e)
  BY DEF StoresInv, StoresTypeOK, GrantsStand, Exp!ExpiryConstants
<1>2. grantEvery' = e /\ round' = t /\ granted' = g + Exp!Cardinality(new)
  BY DEF Exp!Round
<1>3. Exp!Granting(t) <=> t % e = 0 /\ g < Leases
  BY DEF Exp!Granting
<1>4. Exp!Grants = {l \in 1..round : l % e = 0 /\ l <= Leases * e}
  BY DEF Exp!Grants
<1>5. Exp!Grants' = {l \in 1..t : l % e = 0 /\ l <= Leases * e}
  BY <1>2 DEF Exp!Grants
<1>6. (g + 1) * e = g * e + e /\ g * e \in Nat /\ ((g + 1) + 1) * e = (g + 1) * e + e
  BY <1>1, MultipleBelow
<1>7. Exp!Cardinality({t}) = 1 /\ Exp!Cardinality({}) = 0
  <2>1. Cardinality({t}) = 1 /\ Cardinality({}) = 0
    BY FS_Singleton, FS_EmptySet
  <2> QED BY <2>1 DEF Exp!Cardinality, Cardinality
<1>8. \A l : l \in 1..t <=> l \in 1..round \/ l = t
  BY <1>1
<1>9. CASE g < Leases
  <2>1. t % e = 0 <=> t = (g + 1) * e
    BY <1>1, <1>9, NextAttempt
  <2>2. (g + 1) * e <= Leases * e
    BY <1>1, <1>9, MultiplesGrow
  <2>3. CASE t % e = 0
    <3>1. new = {t} /\ t <= Leases * e
      BY <1>3, <1>9, <2>1, <2>2, <2>3
    <3>2. Exp!Grants' = Exp!Grants \cup new
      BY <1>4, <1>5, <1>8, <2>3, <3>1
    <3>3. granted' = g + 1
      BY <1>1, <1>2, <1>7, <3>1
    <3>4. (g + 1) * e <= t /\ t < ((g + 1) + 1) * e
      BY <1>1, <1>6, <2>1, <2>3
    <3> QED BY <1>1, <1>2, <1>9, <3>2, <3>3, <3>4
  <2>4. CASE t % e # 0
    <3>1. new = {} /\ t # (g + 1) * e
      BY <1>3, <2>1, <2>4
    <3>2. Exp!Grants' = Exp!Grants \cup new
      BY <1>4, <1>5, <1>8, <2>4, <3>1
    <3>3. granted' = g
      BY <1>1, <1>2, <1>7, <3>1
    <3>4. g * e <= t /\ t < (g + 1) * e
      BY <1>1, <1>6, <1>9, <3>1
    <3> QED BY <1>1, <1>2, <3>2, <3>3, <3>4
  <2> QED BY <2>3, <2>4
<1>10. CASE g = Leases
  <2>1. new = {} /\ ~(t <= Leases * e)
    BY <1>1, <1>3, <1>6, <1>10
  <2>2. Exp!Grants' = Exp!Grants \cup new
    BY <1>4, <1>5, <1>8, <2>1
  <2>3. granted' = g
    BY <1>1, <1>2, <1>7, <2>1
  <2>4. g * e <= t
    BY <1>1, <1>6
  <2> QED BY <1>1, <1>2, <1>10, <2>2, <2>3, <2>4
<1> QED BY <1>1, <1>9, <1>10

\* What a round leaves open stands: what has been granted and not yet ended.
LEMMA GrantsStay ==
  ASSUME Exp!ExpiryConstants, StoresInv, Exp!Round,
         NEW new, new = IF Exp!Granting(round + 1) THEN {round + 1} ELSE {},
         pending' \subseteq pending \cup new,
         \A l \in pending \cup new : round + 1 < Exp!ExpiresAt(l) => l \in pending'
  PROVE  GrantsStand'
<1>1. Exp!Grants' = Exp!Grants \cup new
  BY GrantsGrow
<1>2. /\ pending \subseteq Exp!Grants /\ Exp!Grants \subseteq Nat /\ new \subseteq Nat
      /\ \A l \in Exp!Grants : round < Exp!ExpiresAt(l) => l \in pending
      /\ round \in Nat /\ Length \in Nat /\ round' = round + 1
  <2>1. Exp!Grants \subseteq Nat
    BY DEF StoresInv, StoresTypeOK, Exp!Grants
  <2> QED BY <2>1 DEF StoresInv, StoresTypeOK, GrantsStand, Exp!ExpiryConstants, Exp!Round
<1>3. ASSUME NEW l \in Exp!Grants \cup new, round + 1 < Exp!ExpiresAt(l) PROVE l \in pending'
  <2>1. CASE l \in new
    BY <2>1, <1>3
  <2>2. CASE l \in Exp!Grants
    <3>1. round < Exp!ExpiresAt(l)
      BY <1>2, <1>3, <2>2 DEF Exp!ExpiresAt
    <3> QED BY <3>1, <1>2, <1>3, <2>2
  <2> QED BY <2>1, <2>2
<1>4. \A l : Exp!ExpiresAt(l)' = Exp!ExpiresAt(l)
  BY DEF Exp!ExpiresAt
<1>5. pending' \subseteq Exp!Grants'
  BY <1>1, <1>2
<1>6. \A l \in Exp!Grants' : round' < Exp!ExpiresAt(l) => l \in pending'
  BY <1>1, <1>2, <1>3
<1>7. /\ grantEvery' \in Nat \ {0} /\ granted' \in 0..Leases
      /\ granted' * grantEvery' <= round'
      /\ granted' < Leases => round' < (granted' + 1) * grantEvery'
  BY GrantsGrow
<1> QED BY <1>5, <1>6, <1>7 DEF GrantsStand, Exp!ExpiresAt

LEMMA RoundKeeps ==
  ASSUME Exp!ExpiryConstants, StoresInv, Exp!Round
  PROVE  StoresInv'
<1> DEFINE t     == round + 1
           new   == IF Exp!Granting(t) THEN {t} ELSE {}
           open  == pending \cup new
           gone  == Exp!Swept(open, t)
           keeps == [i \in Exp!Replica |-> Exp!Ticked(i, (leases[i] \cup new) \ gone, t)]
           over  == {l \in open : byClock /\ \A i \in Exp!Replica : l \notin keeps[i]}
           apart == Exp!Cardinality({keeps[i] : i \in Exp!Replica}) > 1
           late  == {t - Exp!ExpiresAt(l) : l \in gone}
<1>1. /\ round' = t /\ leases' = keeps /\ pending' = open \ (gone \cup over)
      /\ divergences' = divergences + (IF apart THEN 1 ELSE 0)
      /\ worstDelay' = Exp!Max({worstDelay} \cup late)
      /\ UNCHANGED <<byClock, skew, sweep>>
  BY DEF Exp!Round
<1>2. /\ byClock \in BOOLEAN /\ skew \in Nat /\ sweep \in Nat \ {0} /\ round \in Nat
      /\ pending \subseteq Nat /\ IsFiniteSet(pending) /\ leases \in [Exp!Replica -> SUBSET Nat]
      /\ divergences \in Nat /\ worstDelay \in Int
      /\ Length \in Nat /\ Exp!Replica = 0..(Replicas - 1) /\ 0 \in Exp!Replica
      /\ t \in Nat /\ t > round
  BY DEF StoresInv, StoresTypeOK, Exp!ExpiryConstants, Exp!Replica
<1>3. new \subseteq {t} /\ new \subseteq Nat /\ open \subseteq Nat /\ IsFiniteSet(open)
  <2>1. new \subseteq {t}
    OBVIOUS
  <2>2. IsFiniteSet({t}) /\ IsFiniteSet(new)
    BY <2>1, FS_Singleton, FS_Subset
  <2> HIDE DEF new, t
  <2> QED BY <1>2, <2>1, <2>2, FS_Union
<1>4. gone \subseteq open /\ IsFiniteSet(gone)
  <2>1. gone \subseteq open
    BY DEF Exp!Swept
  <2> HIDE DEF gone, open
  <2> QED BY <1>3, <2>1, FS_Subset
<1>5. \A l \in open : Exp!ExpiresAt(l) = l + Length /\ l \in Nat
  BY <1>2, <1>3 DEF Exp!ExpiresAt
<1>6. \A i \in Exp!Replica : i \in Nat /\ i * skew \in Nat
  BY <1>2, MultiplesGrow
<1>7. CASE byClock
  <2>1. gone = {}
    BY <1>7 DEF Exp!Swept, Exp!Sweeping
  <2>2. \A i \in Exp!Replica :
          keeps[i] = {l \in leases[i] \cup new : ~(t + (i * skew) >= Exp!ExpiresAt(l))}
    BY <1>7, <2>1 DEF Exp!Ticked, Exp!Expired, Exp!Clock
  <2>3. over = {l \in open : \A i \in Exp!Replica : l \notin keeps[i]}
    BY <1>7
  <2>4. \A i \in Exp!Replica : leases[i] = {l \in pending : round + (i * skew) < Exp!ExpiresAt(l)}
    BY <1>7 DEF StoresInv, ClocksLeave
  <2> HIDE DEF gone, keeps, over, new
  <2>5. \A i \in Exp!Replica : keeps[i] = {l \in open : t + (i * skew) < Exp!ExpiresAt(l)}
    <3> SUFFICES ASSUME NEW i \in Exp!Replica, NEW l \in open
                 PROVE  l \in keeps[i] <=> t + (i * skew) < Exp!ExpiresAt(l)
      BY <2>2, <2>4
    <3>1. Exp!ExpiresAt(l) \in Int /\ i * skew \in Nat
      BY <1>2, <1>5, <1>6
    <3>2. t + (i * skew) < Exp!ExpiresAt(l) => round + (i * skew) < Exp!ExpiresAt(l)
      BY <1>2, <3>1
    <3>3. ~(t + (i * skew) >= Exp!ExpiresAt(l)) <=> t + (i * skew) < Exp!ExpiresAt(l)
      BY <1>2, <3>1
    <3> QED BY <2>2, <2>4, <3>2, <3>3
  <2>6. keeps[0] = {l \in open : t < Exp!ExpiresAt(l)}
    BY <1>2, <1>5, <2>5
  <2>7. \A i \in Exp!Replica : keeps[i] \subseteq keeps[0]
    <3> SUFFICES ASSUME NEW i \in Exp!Replica, NEW l \in open, t + (i * skew) < Exp!ExpiresAt(l)
                 PROVE  t < Exp!ExpiresAt(l)
      BY <2>5, <2>6
    <3>1. Exp!ExpiresAt(l) \in Int /\ i * skew \in Nat
      BY <1>2, <1>5, <1>6
    <3> QED BY <1>2, <3>1
  <2>8. pending' = keeps[0]
    BY <1>1, <1>2, <2>1, <2>3, <2>6, <2>7
  <2>9. keeps \in [Exp!Replica -> SUBSET Nat]
    <3>1. \A i \in Exp!Replica : keeps[i] \in SUBSET Nat
      BY <1>3, <2>5
    <3> QED BY <3>1 DEF keeps
  <2>10. IsFiniteSet(keeps[0]) /\ keeps[0] \subseteq Nat
    BY <1>3, <2>6, FS_Subset
  <2>11. divergences' \in Nat
    BY <1>1, <1>2
  <2>12. worstDelay' \in Int
    <3>1. late = {}
      BY <2>1
    <3>2. worstDelay' = Exp!Max({worstDelay})
      BY <1>1, <3>1
    <3>3. IsFiniteSet({worstDelay})
      BY FS_Singleton
    <3> QED BY <1>2, <3>2, <3>3, GreatestIsFound
  <2>13. StoresTypeOK'
    BY <1>1, <1>2, <2>8, <2>9, <2>10, <2>11, <2>12 DEF StoresTypeOK
  <2>14. \A i \in Exp!Replica : keeps[i] = {l \in keeps[0] : t + (i * skew) < Exp!ExpiresAt(l)}
    BY <2>5, <2>6, <2>7
  <2>15. ClocksLeave'
    <3> HIDE DEF t
    <3> QED BY <1>1, <2>8, <2>14 DEF ClocksLeave, Exp!ExpiresAt
  <2>16. GrantsStand'
    <3>1. new = IF Exp!Granting(round + 1) THEN {round + 1} ELSE {}
      BY DEF new
    <3>2. /\ pending' \subseteq pending \cup new
          /\ \A l \in pending \cup new : round + 1 < Exp!ExpiresAt(l) => l \in pending'
      BY <2>6, <2>8
    <3> QED BY <3>1, <3>2, GrantsStay
  <2> QED BY <1>1, <1>7, <2>13, <2>15, <2>16 DEF StoresInv, SweepsTake
<1>8. CASE ~byClock
  <2>1. over = {} /\ \A i \in Exp!Replica : keeps[i] = (leases[i] \cup new) \ gone
    BY <1>8 DEF Exp!Ticked
  <2>2. /\ divergences = 0 /\ worstDelay < sweep
        /\ \A i \in Exp!Replica : leases[i] = pending
        /\ \A l \in pending : Exp!ExpiresAt(l) > round - (round % sweep)
    BY <1>8 DEF StoresInv, SweepsTake
  <2>3. gone = IF t % sweep = 0 THEN {l \in open : t >= Exp!ExpiresAt(l)} ELSE {}
    BY <1>8 DEF Exp!Swept, Exp!Sweeping, Exp!Expired
  <2>4. \A i \in Exp!Replica : keeps[i] = open \ gone
    BY <2>1, <2>2
  <2>5. ~apart
    <3>1. {keeps[i] : i \in Exp!Replica} = {open \ gone}
      BY <1>2, <2>4
    <3>2. Exp!Cardinality({open \ gone}) = Cardinality({open \ gone})
      BY DEF Exp!Cardinality, Cardinality
    <3>3. Cardinality({open \ gone}) = 1
      BY FS_Singleton
    <3>4. apart <=> Exp!Cardinality({keeps[i] : i \in Exp!Replica}) > 1
      OBVIOUS
    <3>5. Exp!Cardinality({keeps[i] : i \in Exp!Replica}) = Exp!Cardinality({open \ gone})
      BY <3>1, Zenon
    <3> HIDE DEF apart, keeps, open, gone
    <3>6. Exp!Cardinality({keeps[i] : i \in Exp!Replica}) = 1
      BY <3>2, <3>3, <3>5, Zenon
    <3> QED BY <3>4, <3>6
  <2>6. pending' = open \ gone
    BY <1>1, <2>1
  <2>7. keeps \in [Exp!Replica -> SUBSET Nat]
    <3>1. \A i \in Exp!Replica : keeps[i] \in SUBSET Nat
      BY <1>3, <2>4
    <3> QED BY <3>1
  <2>8. divergences' = 0
    BY <1>1, <2>2, <2>5
  <2>9. (t % sweep) \in 0..(sweep - 1) /\ (round % sweep) \in 0..(sweep - 1)
        /\ (t % sweep = 0 \/ t % sweep = (round % sweep) + 1)
    BY <1>2, Remainder, NextRemainder
  <2> HIDE DEF gone, keeps, over, apart
  <2>10. \A l \in open : l \in pending \/ l = t
    BY <1>3
  <2> HIDE DEF new, open
  <2>11. ASSUME NEW l \in open PROVE t - Exp!ExpiresAt(l) < sweep /\ t - Exp!ExpiresAt(l) \in Int
    <3>1. Exp!ExpiresAt(l) = l + Length /\ l \in Nat
      BY <1>5
    <3>2. CASE l = t
      BY <1>2, <3>1, <3>2
    <3>3. CASE l \in pending
      <4>1. Exp!ExpiresAt(l) > round - (round % sweep)
        BY <2>2, <3>3
      <4> QED BY <1>2, <2>9, <3>1, <4>1
    <3> QED BY <2>10, <3>2, <3>3
  <2>12. worstDelay' \in Int /\ worstDelay' < sweep
    <3> DEFINE S == {worstDelay} \cup late
    <3>1. late \subseteq Int /\ \A x \in late : x < sweep
      BY <1>4, <2>11
    <3>2. IsFiniteSet(late)
      <4> DEFINE f == [l \in gone |-> t - Exp!ExpiresAt(l)]
      <4>1. late = {t - Exp!ExpiresAt(l) : l \in gone} /\ IsFiniteSet(gone)
        BY <1>4
      <4>2. f \in Surjection(gone, late)
        BY <4>1 DEF Surjection
      <4> QED BY <4>1, <4>2, FS_Surjection
    <3>3. IsFiniteSet(S)
      BY <3>2, FS_AddElement
    <3> HIDE DEF late
    <3>4. S \subseteq Int /\ S # {} /\ \A x \in S : x < sweep
      BY <1>2, <2>2, <3>1
    <3>5. worstDelay' = Exp!Max(S)
      BY <1>1
    <3> HIDE DEF S
    <3> QED BY <3>3, <3>4, <3>5, GreatestIsFound
  <2>13. ASSUME NEW l \in open \ gone PROVE Exp!ExpiresAt(l) > t - (t % sweep)
    <3>1. Exp!ExpiresAt(l) = l + Length /\ l \in Nat
      BY <1>5
    <3>2. CASE t % sweep = 0
      <4>1. ~(t >= Exp!ExpiresAt(l))
        BY <2>3, <3>2
      <4> QED BY <1>2, <3>1, <3>2, <4>1
    <3>3. CASE t % sweep = (round % sweep) + 1
      <4>1. CASE l = t
        BY <1>2, <2>9, <3>1, <3>3, <4>1
      <4>2. CASE l \in pending
        <5>1. Exp!ExpiresAt(l) > round - (round % sweep)
          BY <2>2, <4>2
        <5> QED BY <1>2, <2>9, <3>1, <3>3, <5>1
      <4> QED BY <2>10, <4>1, <4>2
    <3> QED BY <2>9, <3>2, <3>3
  <2>14. pending' \subseteq Nat /\ IsFiniteSet(pending')
    BY <1>3, <2>6, FS_Subset
  <2>15. StoresTypeOK'
    BY <1>1, <1>2, <2>7, <2>8, <2>12, <2>14 DEF StoresTypeOK
  <2>16. SweepsTake'
    <3> HIDE DEF t
    <3>1. \A l \in pending' : Exp!ExpiresAt(l)' > t - (t % sweep)
      BY <2>6, <2>13 DEF Exp!ExpiresAt
    <3> QED BY <1>1, <2>4, <2>6, <2>8, <2>12, <3>1 DEF SweepsTake
  <2>17. GrantsStand'
    <3>1. new = IF Exp!Granting(round + 1) THEN {round + 1} ELSE {}
      BY DEF new
    <3>2. open = pending \cup new
      BY DEF open
    <3>3. ASSUME NEW l \in open, t < Exp!ExpiresAt(l) PROVE l \in pending'
      <4>1. ~(t >= Exp!ExpiresAt(l))
        BY <1>2, <1>5, <3>3
      <4> QED BY <2>3, <2>6, <4>1
    <3>4. /\ pending' \subseteq pending \cup new
          /\ \A l \in pending \cup new : round + 1 < Exp!ExpiresAt(l) => l \in pending'
      BY <2>6, <3>2, <3>3
    <3> QED BY <3>1, <3>4, GrantsStay
  <2> QED BY <1>1, <1>8, <2>15, <2>16, <2>17 DEF StoresInv, ClocksLeave
<1> QED BY <1>2, <1>7, <1>8

\* What the invariant is for.
LEMMA StoresAgree ==
  ASSUME Exp!ExpiryConstants, StoresInv
  PROVE  Exp!ExpiryIsAgreed
<1>1. /\ byClock \in BOOLEAN /\ skew \in Nat /\ sweep \in Nat \ {0} /\ round \in Nat
      /\ pending \subseteq Nat
      /\ Length \in Nat /\ Exp!Replica = 0..(Replicas - 1) /\ 0 \in Exp!Replica
  BY DEF StoresInv, StoresTypeOK, Exp!ExpiryConstants, Exp!Replica
<1>2. \A l \in pending : Exp!ExpiresAt(l) \in Int
  BY <1>1 DEF Exp!ExpiresAt
<1>3. \A i \in Exp!Replica : i \in Nat /\ i * skew \in Nat
  BY <1>1, MultiplesGrow
<1>6. /\ pending \subseteq Exp!Grants
      /\ \A l \in Exp!Grants : l \in Nat /\ (round < Exp!ExpiresAt(l) => l \in pending)
  <2>1. Exp!Grants \subseteq Nat
    BY <1>1 DEF Exp!Grants
  <2> QED BY <2>1 DEF StoresInv, GrantsStand
<1>4. CASE byClock
  <2>1. pending = leases[0]
        /\ \A i \in Exp!Replica : leases[i] = {l \in pending : round + (i * skew) < Exp!ExpiresAt(l)}
    BY <1>4 DEF StoresInv, ClocksLeave
  <2>2. pending = UNION {leases[i] : i \in Exp!Replica}
    BY <1>1, <2>1
  <2>3. ASSUME NEW i \in Exp!Replica, NEW j \in Exp!Replica, i <= j
        PROVE  /\ leases[j] \subseteq leases[i]
               /\ \A l \in leases[i] \ leases[j] :
                    Exp!ExpiresAt(l) - round \in (i * skew + 1)..(j * skew)
    <3>1. i * skew \in Nat /\ j * skew \in Nat /\ i * skew <= j * skew
      BY <1>1, <1>3, <2>3, MultiplesGrow
    <3>2. ASSUME NEW l \in pending, round + (j * skew) < Exp!ExpiresAt(l)
          PROVE  round + (i * skew) < Exp!ExpiresAt(l)
      BY <1>1, <1>2, <3>1, <3>2
    <3>3. ASSUME NEW l \in pending, round + (i * skew) < Exp!ExpiresAt(l),
                 ~(round + (j * skew) < Exp!ExpiresAt(l))
          PROVE  Exp!ExpiresAt(l) - round \in (i * skew + 1)..(j * skew)
      BY <1>1, <1>2, <3>1, <3>3
    <3> QED BY <2>1, <3>2, <3>3
  <2>4. ASSUME NEW i \in Exp!Replica, NEW l \in Exp!Grants, round + i * skew < Exp!ExpiresAt(l)
        PROVE  l \in leases[i]
    <3>1. Exp!ExpiresAt(l) \in Int /\ i * skew \in Nat
      BY <1>1, <1>3, <1>6 DEF Exp!ExpiresAt
    <3>2. round < Exp!ExpiresAt(l)
      BY <1>1, <2>4, <3>1
    <3> QED BY <1>6, <2>1, <2>4, <3>2
  <2> QED BY <1>4, <1>6, <2>2, <2>3, <2>4 DEF Exp!ExpiryIsAgreed
<1>5. CASE ~byClock
  <2>1. /\ divergences = 0 /\ worstDelay < sweep
        /\ \A i \in Exp!Replica : leases[i] = pending
        /\ \A l \in pending : Exp!ExpiresAt(l) > round - (round % sweep)
    BY <1>5 DEF StoresInv, SweepsTake
  <2>2. pending = UNION {leases[i] : i \in Exp!Replica}
    BY <1>1, <2>1
  <2>3. (round % sweep) \in 0..(sweep - 1)
    BY <1>1, Remainder
  <2>4. \A l \in pending : round - Exp!ExpiresAt(l) < sweep
    BY <1>1, <1>2, <2>1, <2>3
  <2> QED BY <1>5, <1>6, <2>1, <2>2, <2>4 DEF Exp!ExpiryIsAgreed
<1> QED BY <1>1, <1>4, <1>5

\* Stores agree on what has expired: for any replicas, leases, skews and sweeps, stores
\* that go by the log hold the same keys and drop each one in time and none before its
\* lease has ended, and stores that go by their clocks drop none before its lease has ended
\* by their own and differ for no longer than the clocks do.
THEOREM StoresExpireTogether == Spec => []ExpiryIsAgreed
<1>1. Exp!ExpiryConstants
  BY ServicesAssumption
<1>2. Exp!Init => StoresInv
  BY <1>1, StoresInit
<1>3. StoresInv /\ [Exp!Round]_Exp!vars => StoresInv'
  <2> SUFFICES ASSUME StoresInv, UNCHANGED Exp!vars PROVE StoresInv'
    BY <1>1, RoundKeeps
  <2> QED BY DEF Exp!vars, Exp!sweepVars, StoresInv, StoresTypeOK, ClocksLeave, SweepsTake, GrantsStand,
            Exp!ExpiresAt, Exp!Grants
<1>4. StoresInv => ExpiryIsAgreed
  BY <1>1, StoresAgree DEF ExpiryIsAgreed
<1> QED BY <1>2, <1>3, <1>4, StoresMove, PTL DEF Exp!Spec

-----------------------------------------------------------------------------
(* A range that moves.  The schedule is what there is to know: where the   *)
(* loop is says which phase the move is in, and so who can have taken      *)
(* what.                                                                   *)

\* A behaviour of the services is one of the move.
LEMMA MoveMoves == Spec => Reb!Spec
<1>1. Init => Reb!Init
  BY DEF Init
<1>2. [Next]_vars => [Reb!Round]_Reb!vars
  BY DEF Next, vars, move, Reb!vars, Reb!groupVars
<1> QED BY <1>1, <1>2, PTL DEF Spec, Reb!Spec

FreezeAt == every * 2
CopyAt   == every * 3
HandAt   == every * 3 + copyTicks

MoveTypeOK ==
  /\ every \in Nat \ {0} /\ copyTicks \in Nat /\ tick \in Nat
  /\ attempted \in Nat /\ refused \in Nat
  /\ taken \in [Reb!Group -> Seq(Nat)]
  /\ committed \in [Reb!Group -> Nat]

PhaseAt(t) ==
  IF t < FreezeAt THEN Reb!STEADY ELSE
  IF t < CopyAt   THEN Reb!FROZEN ELSE
  IF t < HandAt   THEN Reb!COPYING ELSE Reb!HANDED

\* The move keeps to its schedule.
OnSchedule ==
  /\ phase = PhaseAt(tick)
  /\ frozenAt = IF tick < FreezeAt THEN 0 ELSE FreezeAt
  /\ handedAt = IF tick < HandAt THEN 0 ELSE HandAt

\* The writes of the freeze, of the first n.
InFreeze(n) == {m \in 1..n : FreezeAt <= m * every /\ m * every < HandAt}

\* Attempts are made in time, and those of the freeze are the ones refused.
Attempts ==
  /\ attempted * every <= tick /\ tick < (attempted + 1) * every
  /\ ~unsafe => refused = Cardinality(InFreeze(attempted))

\* The source takes what comes before the freeze and the destination what comes after.
TakenInTurn ==
  /\ \A i \in DOMAIN taken[Reb!SOURCE] : taken[Reb!SOURCE][i] <= every
  /\ committed[Reb!SOURCE] <= Len(taken[Reb!SOURCE])
  /\ committed[Reb!DESTINATION] <= Len(taken[Reb!DESTINATION])
  /\ taken[Reb!DESTINATION] # << >> => tick >= HandAt

MoveInv ==
  /\ MoveTypeOK /\ OnSchedule /\ Attempts
  /\ ~unsafe => TakenInTurn /\ Reb!OrderedByTheFreeze

LEMMA MoveInit ==
  ASSUME Reb!RebalanceConstants, Reb!Init
  PROVE  MoveInv
<1>1. every \in Nat \ {0} /\ copyTicks \in Nat /\ tick = 0
  BY DEF Reb!RebalanceConstants, Reb!Init
<1>2. FreezeAt > 0 /\ HandAt > 0
  BY <1>1 DEF FreezeAt, HandAt
<1>3. OnSchedule
  BY <1>1, <1>2 DEF OnSchedule, PhaseAt, Reb!Init
<1>4. InFreeze(0) = {}
  BY DEF InFreeze
<1>5. Cardinality({}) = 0
  BY FS_EmptySet
<1>6. Attempts
  <2>1. attempted = 0 /\ refused = 0
    BY DEF Reb!Init
  <2>2. 0 * every = 0 /\ (0 + 1) * every = every
    BY <1>1
  <2> QED BY <1>1, <1>4, <1>5, <2>1, <2>2 DEF Attempts
<1>7. MoveTypeOK /\ TakenInTurn
  BY <1>1 DEF MoveTypeOK, TakenInTurn, Reb!Init, Reb!Group, Reb!SOURCE, Reb!DESTINATION
<1>8. Reb!OrderedByTheFreeze
  BY DEF Reb!OrderedByTheFreeze, Reb!Init
<1> QED BY <1>3, <1>6, <1>7, <1>8 DEF MoveInv

\* How often the move goes on at a tick.
LEMMA TurnsOf ==
  ASSUME every \in Nat \ {0}, copyTicks \in Nat, NEW t \in Nat
  PROVE  Reb!Turns(t) =
           IF t = FreezeAt THEN 1 ELSE
           IF t = CopyAt THEN (IF copyTicks = 0 THEN 2 ELSE 1) ELSE
           IF t = HandAt THEN 1 ELSE 0
<1> DEFINE X == {x \in {"freeze", "copy", "hand"} :
                   \/ x = "freeze" /\ t = every * 2
                   \/ x = "copy"   /\ t = every * 3
                   \/ x = "hand"   /\ t = every * 3 + copyTicks}
<1>1. Reb!Turns(t) = Cardinality(X)
  BY DEF Reb!Turns, Reb!Cardinality, Cardinality
<1>2. /\ Cardinality({}) = 0 /\ Cardinality({"freeze"}) = 1 /\ Cardinality({"copy"}) = 1
      /\ Cardinality({"hand"}) = 1
  BY FS_EmptySet, FS_Singleton
<1>3. Cardinality({"copy", "hand"}) = 2
  <2>1. IsFiniteSet({"copy"}) /\ "hand" \notin {"copy"} /\ {"copy"} \cup {"hand"} = {"copy", "hand"}
    BY FS_Singleton
  <2> QED BY <1>2, <2>1, FS_AddElement
<1>4. CASE t = FreezeAt
  <2>1. t # every * 3 /\ t # every * 3 + copyTicks
    BY <1>4 DEF FreezeAt
  <2>2. X = {"freeze"}
    BY <1>4, <2>1 DEF FreezeAt
  <2> QED BY <1>1, <1>2, <1>4, <2>2
<1>5. CASE t = CopyAt /\ copyTicks = 0
  <2>1. t # every * 2 /\ t = every * 3 /\ t = every * 3 + copyTicks /\ t # FreezeAt
    BY <1>5 DEF CopyAt, FreezeAt
  <2>2. X = {"copy", "hand"}
    BY <2>1
  <2> QED BY <1>1, <1>3, <1>5, <2>1, <2>2
<1>6. CASE t = CopyAt /\ copyTicks # 0
  <2>1. t # every * 2 /\ t = every * 3 /\ t # every * 3 + copyTicks /\ t # FreezeAt
    BY <1>6 DEF CopyAt, FreezeAt
  <2>2. X = {"copy"}
    BY <2>1
  <2> QED BY <1>1, <1>2, <1>6, <2>1, <2>2
<1>7. CASE t # FreezeAt /\ t # CopyAt /\ t = HandAt
  <2>1. t # every * 2 /\ t # every * 3 /\ t = every * 3 + copyTicks
    BY <1>7 DEF CopyAt, FreezeAt, HandAt
  <2>2. X = {"hand"}
    BY <2>1
  <2> QED BY <1>1, <1>2, <1>7, <2>2
<1>8. CASE t # FreezeAt /\ t # CopyAt /\ t # HandAt
  <2>1. X = {}
    BY <1>8 DEF CopyAt, FreezeAt, HandAt
  <2> QED BY <1>1, <1>2, <1>8, <2>1
<1> QED BY <1>4, <1>5, <1>6, <1>7, <1>8

\* So the phase is the one of the schedule.
LEMMA PhaseIsKept ==
  ASSUME every \in Nat \ {0}, copyTicks \in Nat, tick \in Nat, phase = PhaseAt(tick)
  PROVE  Reb!Advanced(tick + 1) = PhaseAt(tick + 1)
<1> DEFINE t == tick + 1
           turns == Reb!Turns(t)
<1>1. turns = IF t = FreezeAt THEN 1 ELSE
              IF t = CopyAt THEN (IF copyTicks = 0 THEN 2 ELSE 1) ELSE
              IF t = HandAt THEN 1 ELSE 0
  BY TurnsOf
<1>2. /\ Reb!PHASES[1] = Reb!STEADY /\ Reb!PHASES[2] = Reb!FROZEN
      /\ Reb!PHASES[3] = Reb!COPYING /\ Reb!PHASES[4] = Reb!HANDED
      /\ DOMAIN Reb!PHASES = {1, 2, 3, 4}
  BY DEF Reb!PHASES
<1>3. /\ Reb!At(Reb!STEADY) = 1 /\ Reb!At(Reb!FROZEN) = 2
      /\ Reb!At(Reb!COPYING) = 3 /\ Reb!At(Reb!HANDED) = 4
  BY <1>2 DEF Reb!At, Reb!STEADY, Reb!FROZEN, Reb!COPYING, Reb!HANDED
<1>4. Reb!Advanced(t) = Reb!PHASES[Reb!At(phase) + turns]
  BY DEF Reb!Advanced
<1>5. /\ FreezeAt \in Nat /\ CopyAt \in Nat /\ HandAt \in Nat
      /\ FreezeAt < CopyAt /\ HandAt = CopyAt + copyTicks /\ t \in Nat /\ t = tick + 1
  BY DEF FreezeAt, CopyAt, HandAt
<1> HIDE DEF t, turns
<1>6. CASE t < FreezeAt
  <2>1. turns = 0 /\ phase = Reb!STEADY /\ PhaseAt(t) = Reb!STEADY
    BY <1>1, <1>5, <1>6 DEF PhaseAt
  <2> QED BY <1>2, <1>3, <1>4, <2>1 DEF t
<1>7. CASE t = FreezeAt
  <2>1. turns = 1 /\ phase = Reb!STEADY /\ PhaseAt(t) = Reb!FROZEN
    BY <1>1, <1>5, <1>7 DEF PhaseAt
  <2> QED BY <1>2, <1>3, <1>4, <2>1 DEF t
<1>8. CASE FreezeAt < t /\ t < CopyAt
  <2>1. turns = 0 /\ phase = Reb!FROZEN /\ PhaseAt(t) = Reb!FROZEN
    BY <1>1, <1>5, <1>8 DEF PhaseAt
  <2> QED BY <1>2, <1>3, <1>4, <2>1 DEF t
<1>9. CASE t = CopyAt /\ copyTicks = 0
  <2>1. turns = 2 /\ phase = Reb!FROZEN /\ PhaseAt(t) = Reb!HANDED
    BY <1>1, <1>5, <1>9 DEF PhaseAt
  <2> QED BY <1>2, <1>3, <1>4, <2>1 DEF t
<1>10. CASE t = CopyAt /\ copyTicks # 0
  <2>1. turns = 1 /\ phase = Reb!FROZEN /\ PhaseAt(t) = Reb!COPYING
    BY <1>1, <1>5, <1>10 DEF PhaseAt
  <2> QED BY <1>2, <1>3, <1>4, <2>1 DEF t
<1>11. CASE CopyAt < t /\ t < HandAt
  <2>1. turns = 0 /\ phase = Reb!COPYING /\ PhaseAt(t) = Reb!COPYING
    BY <1>1, <1>5, <1>11 DEF PhaseAt
  <2> QED BY <1>2, <1>3, <1>4, <2>1 DEF t
<1>12. CASE CopyAt < t /\ t = HandAt
  <2>1. turns = 1 /\ phase = Reb!COPYING /\ PhaseAt(t) = Reb!HANDED
    BY <1>1, <1>5, <1>12 DEF PhaseAt
  <2> QED BY <1>2, <1>3, <1>4, <2>1 DEF t
<1>13. CASE CopyAt < t /\ HandAt < t
  <2>1. turns = 0 /\ phase = Reb!HANDED /\ PhaseAt(t) = Reb!HANDED
    BY <1>1, <1>5, <1>13 DEF PhaseAt
  <2> QED BY <1>2, <1>3, <1>4, <2>1 DEF t
<1>14. copyTicks \in Nat
  OBVIOUS
<1> QED BY <1>5, <1>6, <1>7, <1>8, <1>9, <1>10, <1>11, <1>12, <1>13, <1>14

LEMMA ScheduleKept ==
  ASSUME Reb!RebalanceConstants, MoveInv, Reb!Round
  PROVE  OnSchedule'
<1>1. /\ every \in Nat \ {0} /\ copyTicks \in Nat /\ tick \in Nat /\ phase = PhaseAt(tick)
      /\ frozenAt = IF tick < FreezeAt THEN 0 ELSE FreezeAt
      /\ handedAt = IF tick < HandAt THEN 0 ELSE HandAt
  BY DEF MoveInv, MoveTypeOK, OnSchedule
<1>2. /\ tick' = tick + 1 /\ phase' = Reb!Advanced(tick + 1)
      /\ frozenAt' = IF phase = Reb!STEADY /\ phase' # Reb!STEADY THEN tick + 1 ELSE frozenAt
      /\ handedAt' = IF phase # Reb!HANDED /\ phase' = Reb!HANDED THEN tick + 1 ELSE handedAt
      /\ every' = every /\ copyTicks' = copyTicks
  BY DEF Reb!Round
<1>3. FreezeAt' = FreezeAt /\ CopyAt' = CopyAt /\ HandAt' = HandAt
  BY <1>2 DEF FreezeAt, CopyAt, HandAt
<1>4. phase' = PhaseAt(tick + 1)
  BY <1>1, <1>2, PhaseIsKept
<1>5. /\ FreezeAt \in Nat /\ CopyAt \in Nat /\ HandAt \in Nat
      /\ FreezeAt < CopyAt /\ CopyAt <= HandAt
  BY <1>1 DEF FreezeAt, CopyAt, HandAt
<1>6. /\ Reb!STEADY # Reb!FROZEN /\ Reb!STEADY # Reb!COPYING /\ Reb!STEADY # Reb!HANDED
      /\ Reb!HANDED # Reb!FROZEN /\ Reb!HANDED # Reb!COPYING
  BY DEF Reb!STEADY, Reb!FROZEN, Reb!COPYING, Reb!HANDED
<1>7. ASSUME NEW t \in Nat
      PROVE  (PhaseAt(t) = Reb!STEADY <=> t < FreezeAt) /\ (PhaseAt(t) = Reb!HANDED <=> t >= HandAt)
  BY <1>5, <1>6 DEF PhaseAt
<1>8. /\ phase = Reb!STEADY <=> tick < FreezeAt
      /\ phase' = Reb!STEADY <=> tick + 1 < FreezeAt
      /\ phase = Reb!HANDED <=> tick >= HandAt
      /\ phase' = Reb!HANDED <=> tick + 1 >= HandAt
  BY <1>1, <1>4, <1>7
<1>9. frozenAt' = IF tick + 1 < FreezeAt THEN 0 ELSE FreezeAt
  BY <1>1, <1>2, <1>5, <1>8
<1>10. handedAt' = IF tick + 1 < HandAt THEN 0 ELSE HandAt
  BY <1>1, <1>2, <1>5, <1>8
<1>11. PhaseAt(tick)' = PhaseAt(tick + 1)
  BY <1>2, <1>3 DEF PhaseAt
<1> QED BY <1>2, <1>3, <1>4, <1>9, <1>10, <1>11 DEF OnSchedule

\* Who is asked in the safe version, and when nobody is.
LEMMA WhoIsAsked ==
  ASSUME every \in Nat \ {0}, copyTicks \in Nat, ~unsafe, NEW t \in Nat
  PROVE  /\ Reb!Owners(PhaseAt(t)) = {} <=> FreezeAt <= t /\ t < HandAt
         /\ t < FreezeAt => Reb!Asked(Reb!Owners(PhaseAt(t))) = Reb!SOURCE
         /\ t >= HandAt => Reb!Asked(Reb!Owners(PhaseAt(t))) = Reb!DESTINATION
<1>1. /\ FreezeAt \in Nat /\ CopyAt \in Nat /\ HandAt \in Nat
      /\ FreezeAt < CopyAt /\ CopyAt <= HandAt
  BY DEF FreezeAt, CopyAt, HandAt
<1>2. /\ Reb!Owners(Reb!STEADY) = {Reb!SOURCE} /\ Reb!Owners(Reb!HANDED) = {Reb!DESTINATION}
      /\ Reb!Owners(Reb!FROZEN) = {} /\ Reb!Owners(Reb!COPYING) = {}
  BY DEF Reb!Owners, Reb!Serving, Reb!Owner, Reb!STEADY, Reb!FROZEN, Reb!COPYING, Reb!HANDED
<1>3. Reb!Asked({Reb!SOURCE}) = Reb!SOURCE /\ Reb!Asked({Reb!DESTINATION}) = Reb!DESTINATION
  BY DEF Reb!Asked, Reb!SOURCE, Reb!DESTINATION
<1>4. {Reb!SOURCE} # {} /\ {Reb!DESTINATION} # {}
  OBVIOUS
<1> QED BY <1>1, <1>2, <1>3, <1>4 DEF PhaseAt

LEMMA AttemptsKept ==
  ASSUME Reb!RebalanceConstants, MoveInv, Reb!Round
  PROVE  Attempts' /\ attempted' \in Nat /\ refused' \in Nat
<1> DEFINE n == attempted
           t == tick + 1
<1>1. /\ every \in Nat \ {0} /\ copyTicks \in Nat /\ tick \in Nat /\ n \in Nat /\ refused \in Nat
      /\ phase = PhaseAt(tick) /\ n * every <= tick /\ tick < (n + 1) * every
      /\ ~unsafe => refused = Cardinality(InFreeze(n))
  BY DEF MoveInv, MoveTypeOK, OnSchedule, Attempts
<1>2. /\ tick' = t /\ every' = every /\ copyTicks' = copyTicks /\ unsafe' = unsafe
      /\ phase' = Reb!Advanced(t)
  BY DEF Reb!Round
<1>3. phase' = PhaseAt(t)
  BY <1>1, <1>2, PhaseIsKept
<1>4. FreezeAt' = FreezeAt /\ HandAt' = HandAt
  BY <1>2 DEF FreezeAt, HandAt
<1>5. (t % every = 0 <=> t = (n + 1) * every) /\ (n + 1) * every \in Nat
      /\ ((n + 1) + 1) * every = (n + 1) * every + every
  <2>1. t % every = 0 <=> t = (n + 1) * every
    BY <1>1, NextAttempt
  <2>2. n + 1 \in Nat
    BY <1>1
  <2> HIDE DEF n, t
  <2> QED BY <1>1, <2>1, <2>2, MultipleBelow
<1> HIDE DEF n, t
<1>6. CASE t % every = 0
  <2>1. /\ attempted' = n + 1
        /\ refused' = IF Reb!Owners(PhaseAt(t)) = {} THEN refused + 1 ELSE refused
    <3>1. Reb!Attempt(t, PhaseAt(t))
      BY <1>2, <1>3, <1>6 DEF Reb!Round
    <3> QED BY <3>1 DEF Reb!Attempt, n
  <2>2. (n + 1) * every <= t /\ t < ((n + 1) + 1) * every
    BY <1>1, <1>5, <1>6
  <2>3. ASSUME ~unsafe PROVE refused' = Cardinality(InFreeze(n + 1))
    <3>1. t \in Nat
      BY <1>1 DEF t
    <3>2. Reb!Owners(PhaseAt(t)) = {} <=> FreezeAt <= t /\ t < HandAt
      BY <1>1, <2>3, <3>1, WhoIsAsked
    <3>3. IsFiniteSet(InFreeze(n)) /\ n + 1 \notin InFreeze(n)
      <4>1. IsFiniteSet(1..n) /\ InFreeze(n) \subseteq 1..n
        BY <1>1, FS_Interval DEF InFreeze
      <4> QED BY <1>1, <4>1, FS_Subset
    <3>4. 1..(n + 1) = (1..n) \cup {n + 1}
      BY <1>1
    <3>5. CASE FreezeAt <= t /\ t < HandAt
      <4>1. InFreeze(n + 1) = InFreeze(n) \cup {n + 1}
        BY <1>5, <1>6, <3>4, <3>5 DEF InFreeze
      <4>2. Cardinality(InFreeze(n + 1)) = Cardinality(InFreeze(n)) + 1
        BY <3>3, <4>1, FS_AddElement
      <4> QED BY <1>1, <2>1, <2>3, <3>2, <3>5, <4>2
    <3>6. CASE ~(FreezeAt <= t /\ t < HandAt)
      <4>1. InFreeze(n + 1) = InFreeze(n)
        BY <1>5, <1>6, <3>4, <3>6 DEF InFreeze
      <4> QED BY <1>1, <2>1, <2>3, <3>2, <3>6, <4>1
    <3> QED BY <3>5, <3>6
  <2>4. InFreeze(attempted)' = InFreeze(n + 1)
    BY <1>2, <1>4, <2>1 DEF InFreeze
  <2> QED BY <1>1, <1>2, <2>1, <2>2, <2>3, <2>4 DEF Attempts
<1>7. CASE t % every # 0
  <2>1. attempted' = n /\ refused' = refused
    BY <1>2, <1>7 DEF Reb!Round, n
  <2>2. n * every <= t /\ t < (n + 1) * every
    BY <1>1, <1>5, <1>7, MultipleBelow DEF t
  <2>3. InFreeze(attempted)' = InFreeze(n)
    BY <1>2, <1>4, <2>1 DEF InFreeze
  <2> QED BY <1>1, <1>2, <2>1, <2>2, <2>3 DEF Attempts
<1> QED BY <1>6, <1>7

\* What the groups have taken when the round is over.
LEMMA TakenKept ==
  ASSUME Reb!RebalanceConstants, MoveInv, Reb!Round
  PROVE  /\ taken' \in [Reb!Group -> Seq(Nat)] /\ committed' \in [Reb!Group -> Nat]
         /\ \A g \in Reb!Group : committed'[g] <= Len(taken'[g])
         /\ ~unsafe => (TakenInTurn /\ Reb!OrderedByTheFreeze)'
<1> DEFINE t == tick + 1
           s == Reb!SOURCE
           d == Reb!DESTINATION
<1>1. /\ every \in Nat \ {0} /\ copyTicks \in Nat /\ tick \in Nat /\ attempted \in Nat
      /\ phase = PhaseAt(tick) /\ attempted * every <= tick /\ tick < (attempted + 1) * every
      /\ taken \in [Reb!Group -> Seq(Nat)] /\ committed \in [Reb!Group -> Nat]
  BY DEF MoveInv, MoveTypeOK, OnSchedule, Attempts
<1>2. /\ tick' = t /\ every' = every /\ copyTicks' = copyTicks /\ unsafe' = unsafe
      /\ phase' = Reb!Advanced(t)
  BY DEF Reb!Round
<1>3. phase' = PhaseAt(t) /\ t \in Nat
  BY <1>1, <1>2, PhaseIsKept
<1>4. FreezeAt' = FreezeAt /\ HandAt' = HandAt
  BY <1>2 DEF FreezeAt, HandAt
<1>5. Reb!Group = {s, d} /\ s # d
  BY DEF Reb!Group, Reb!SOURCE, Reb!DESTINATION
<1>6. \/ taken' = taken
      \/ /\ t % every = 0 /\ Reb!Owners(PhaseAt(t)) # {}
         /\ taken' = [taken EXCEPT ![Reb!Asked(Reb!Owners(PhaseAt(t)))] = Append(@, t)]
  <2>1. CASE t % every = 0
    <3>1. Reb!Attempt(t, PhaseAt(t))
      BY <1>2, <1>3, <2>1 DEF Reb!Round
    <3> QED BY <2>1, <3>1 DEF Reb!Attempt
  <2>2. CASE t % every # 0
    BY <1>2, <2>2 DEF Reb!Round
  <2> QED BY <2>1, <2>2
<1>7. taken' \in [Reb!Group -> Seq(Nat)]
  <2>1. CASE taken' = taken
    BY <1>1, <2>1
  <2>2. ASSUME NEW g, taken' = [taken EXCEPT ![g] = Append(@, t)]
        PROVE  taken' \in [Reb!Group -> Seq(Nat)]
    <3> HIDE DEF t
    <3>1. CASE g \in Reb!Group
      <4>1. taken[g] \in Seq(Nat) /\ Append(taken[g], t) \in Seq(Nat)
        BY <1>1, <1>3, <3>1
      <4> QED BY <1>1, <2>2, <3>1, <4>1
    <3>2. CASE g \notin Reb!Group
      BY <1>1, <2>2, <3>2
    <3> QED BY <3>1, <3>2
  <2> QED BY <1>6, <2>1, <2>2
<1>8. PICK upto \in [Reb!Group -> 0..Writes] :
        /\ \A g \in Reb!Group : committed[g] <= upto[g] /\ upto[g] <= Len(taken'[g])
        /\ committed' = upto
        /\ inverted' = inverted \cup
             {[taken |-> taken'[s][i], late |-> tick'] :
                i \in {j \in (committed[s] + 1)..upto[s] : committed[d] > 0}}
  BY DEF Reb!Round, Reb!Commit
<1>9. committed' \in [Reb!Group -> Nat] /\ \A g \in Reb!Group : committed'[g] <= Len(taken'[g])
  BY <1>8 DEF Reb!RebalanceConstants
<1>10. ASSUME ~unsafe PROVE (TakenInTurn /\ Reb!OrderedByTheFreeze)'
  <2>1. TakenInTurn /\ \A pair \in inverted : pair.late - pair.taken > 2 * every + copyTicks
    BY <1>10 DEF MoveInv, Reb!OrderedByTheFreeze
  <2>2. FreezeAt = every * 2 /\ HandAt = every * 3 + copyTicks
    BY DEF FreezeAt, HandAt
  <2>3. t % every = 0 /\ t < FreezeAt => t <= every
    <3>1. t % every = 0 => t = (attempted + 1) * every
      BY <1>1, NextAttempt
    <3>2. CASE attempted = 0
      <4>1. (attempted + 1) * every = 1 * every /\ 1 * every = every
        BY <1>1, <3>2
      <4> QED BY <1>1, <3>1, <4>1
    <3>3. CASE attempted # 0
      <4>1. 1 * every + every <= (attempted + 1) * every /\ 1 * every = every
            /\ (attempted + 1) * every \in Nat
        <5>1. attempted + 1 \in Nat /\ 1 < attempted + 1
          BY <1>1, <3>3
        <5> QED BY <1>1, <5>1, MultipleBelow
      <4> QED BY <1>1, <1>3, <2>2, <3>1, <4>1
    <3> QED BY <3>2, <3>3
  <2>4. /\ Reb!Owners(PhaseAt(t)) = {} <=> FreezeAt <= t /\ t < HandAt
        /\ t < FreezeAt => Reb!Asked(Reb!Owners(PhaseAt(t))) = s
        /\ t >= HandAt => Reb!Asked(Reb!Owners(PhaseAt(t))) = d
    BY <1>1, <1>3, <1>10, WhoIsAsked
  <2>5. taken \in [{s, d} -> Seq(Nat)] /\ taken[s] \in Seq(Nat) /\ taken[d] \in Seq(Nat)
    BY <1>1, <1>5
  <2>6. (\A i \in DOMAIN taken[s] : taken[s][i] <= every) /\ (taken[d] # << >> => tick >= HandAt)
    BY <2>1 DEF TakenInTurn
  <2> HIDE DEF s, d, t
  <2>7. /\ taken'[s] = taken[s] \/ (t <= every /\ taken'[s] = Append(taken[s], t))
        /\ taken'[d] = taken[d] \/ t >= HandAt
    <3>1. CASE taken' = taken
      BY <3>1
    <3>2. CASE t < FreezeAt /\ t % every = 0
               /\ taken' = [taken EXCEPT ![Reb!Asked(Reb!Owners(PhaseAt(t)))] = Append(@, t)]
      <4>1. taken' = [taken EXCEPT ![s] = Append(@, t)]
        BY <2>4, <3>2
      <4> QED BY <1>5, <2>3, <2>5, <3>2, <4>1
    <3>3. CASE t >= HandAt
               /\ taken' = [taken EXCEPT ![Reb!Asked(Reb!Owners(PhaseAt(t)))] = Append(@, t)]
      <4>1. taken' = [taken EXCEPT ![d] = Append(@, t)]
        BY <2>4, <3>3
      <4> QED BY <1>5, <2>5, <3>3, <4>1
    <3>4. t \in Nat /\ FreezeAt \in Int /\ HandAt \in Int
      BY <1>1, <1>3, <2>2
    <3> QED BY <1>6, <2>4, <3>1, <3>2, <3>3, <3>4
  <2>8. \A i \in DOMAIN taken'[s] : taken'[s][i] \in Nat /\ taken'[s][i] <= every
    <3>1. CASE taken'[s] = taken[s]
      BY <2>5, <2>6, <3>1
    <3>2. CASE t <= every /\ taken'[s] = Append(taken[s], t)
      BY <1>3, <2>5, <2>6, <3>2
    <3> QED BY <2>7, <3>1, <3>2
  <2>9. taken'[d] # << >> => t >= HandAt
    BY <1>1, <2>2, <2>6, <2>7 DEF t
  <2>10. TakenInTurn'
    BY <1>2, <1>4, <1>5, <1>9, <2>8, <2>9 DEF TakenInTurn, s, d
  <2>11. \A pair \in inverted' : pair.late - pair.taken > 2 * every + copyTicks
    <3> SUFFICES ASSUME NEW i \in (committed[s] + 1)..upto[s], committed[d] > 0
                 PROVE  t - taken'[s][i] > 2 * every + copyTicks
      BY <1>2, <1>8, <2>1
    <3>1. i \in DOMAIN taken'[s]
      BY <1>1, <1>5, <1>7, <1>8
    <3>2. taken[d] # << >>
      <4>1. committed[d] <= Len(taken[d]) /\ committed[d] \in Nat
        BY <1>1, <1>5, <2>1 DEF TakenInTurn, d
      <4> QED BY <2>5, <4>1
    <3> QED BY <1>1, <2>2, <2>6, <2>8, <3>1, <3>2 DEF t
  <2> QED BY <1>2, <2>10, <2>11 DEF Reb!OrderedByTheFreeze
<1> QED BY <1>7, <1>9, <1>10

LEMMA RoundKeepsMove ==
  ASSUME Reb!RebalanceConstants, MoveInv, Reb!Round
  PROVE  MoveInv'
<1>1. MoveTypeOK'
  <2>1. /\ every' = every /\ copyTicks' = copyTicks /\ tick' = tick + 1
    BY DEF Reb!Round
  <2> QED BY <2>1, AttemptsKept, TakenKept DEF MoveInv, MoveTypeOK
<1>2. unsafe' = unsafe
  BY DEF Reb!Round
<1> QED BY <1>1, <1>2, ScheduleKept, AttemptsKept, TakenKept DEF MoveInv

LEMMA FreezeCosts ==
  ASSUME Reb!RebalanceConstants, MoveInv
  PROVE  Reb!FreezeIsTheCost
<1> DEFINE frozen == {n \in 1..attempted : frozenAt > 0 /\ frozenAt <= n * every
                                           /\ (handedAt = 0 \/ n * every < handedAt)}
<1>1. /\ every \in Nat \ {0} /\ copyTicks \in Nat /\ tick \in Nat /\ attempted \in Nat
      /\ phase = PhaseAt(tick) /\ attempted * every <= tick
      /\ frozenAt = IF tick < FreezeAt THEN 0 ELSE FreezeAt
      /\ handedAt = IF tick < HandAt THEN 0 ELSE HandAt
      /\ ~unsafe => refused = Cardinality(InFreeze(attempted))
  BY DEF MoveInv, MoveTypeOK, OnSchedule, Attempts
<1>2. /\ FreezeAt \in Nat \ {0} /\ CopyAt \in Nat /\ HandAt \in Nat
      /\ FreezeAt < CopyAt /\ CopyAt <= HandAt
      /\ HandAt - FreezeAt = every + copyTicks /\ HandAt = every * 3 + copyTicks
  BY <1>1 DEF FreezeAt, CopyAt, HandAt
<1>3. ASSUME NEW n \in 1..attempted
      PROVE  (FreezeAt <= n * every /\ n * every < HandAt) <=>
             (frozenAt > 0 /\ frozenAt <= n * every /\ (handedAt = 0 \/ n * every < handedAt))
  <2>1. n * every \in Nat /\ n * every <= attempted * every /\ attempted * every \in Nat
    BY <1>1, MultipleBelow
  <2>2. n * every <= tick
    BY <1>1, <2>1
  <2> QED BY <1>1, <1>2, <2>1, <2>2
<1>4. frozen = InFreeze(attempted)
  BY <1>3 DEF InFreeze
<1>5. ~unsafe => refused = Reb!Cardinality(frozen)
  BY <1>1, <1>4 DEF Reb!Cardinality, Cardinality
<1>6. handedAt > 0 => handedAt - frozenAt = every + copyTicks
  BY <1>1, <1>2
<1>7. phase = Reb!HANDED <=> tick >= HandAt
  BY <1>1, <1>2 DEF PhaseAt, Reb!STEADY, Reb!FROZEN, Reb!COPYING, Reb!HANDED
<1>8. tick = Writes * every =>
        (phase = Reb!HANDED <=> every * 3 + copyTicks <= Writes * every)
  BY <1>1, <1>2, <1>7
<1> QED BY <1>5, <1>6, <1>8 DEF Reb!FreezeIsTheCost

\* A move keeps the order of writes as far as its freeze reaches, and costs the freeze:
\* for any spacing of the writes, any length of the copy, and groups that commit
\* whenever they like.
THEOREM MovesAreOrdered == Spec => []MoveIsOrdered
<1>1. Reb!RebalanceConstants
  BY ServicesAssumption
<1>2. Reb!Init => MoveInv
  BY <1>1, MoveInit
<1>3. MoveInv /\ [Reb!Round]_Reb!vars => MoveInv'
  <2> SUFFICES ASSUME MoveInv, UNCHANGED Reb!vars PROVE MoveInv'
    BY <1>1, RoundKeepsMove
  <2> QED BY DEF Reb!vars, Reb!groupVars, MoveInv, MoveTypeOK, OnSchedule, Attempts, TakenInTurn,
                 PhaseAt, InFreeze, FreezeAt, CopyAt, HandAt, Reb!OrderedByTheFreeze
<1>4. MoveInv => MoveIsOrdered
  <2> SUFFICES ASSUME MoveInv PROVE Reb!OrderedByTheFreeze /\ Reb!FreezeIsTheCost
    BY DEF MoveIsOrdered
  <2>1. Reb!OrderedByTheFreeze
    BY DEF MoveInv, Reb!OrderedByTheFreeze
  <2> QED BY <1>1, <2>1, FreezeCosts
<1> QED BY <1>2, <1>3, <1>4, MoveMoves, PTL DEF Reb!Spec

-----------------------------------------------------------------------------
(* Watchers.                                                               *)

\* A behaviour of the services is one of the feed.
LEMMA FeedMoves == Spec => Wat!Spec
<1>1. Init => Wat!Init
  BY DEF Init
<1>2. [Next]_vars => [Wat!Next]_Wat!vars
  BY DEF Next, vars, feed, Wat!vars
<1> QED BY <1>1, <1>2, PTL DEF Spec, Wat!Spec

\* A set of naturals that has an element has a least one.
LEMMA LeastOfNaturals ==
  ASSUME NEW S, S \subseteq Nat, S # {}
  PROVE  \E m \in S : \A x \in S : m <= x
<1>1. PICK b \in S : TRUE
  OBVIOUS
<1>0. IsFiniteSet(0..b)
  <2>1. b \in Int /\ 0 \in Int
    OBVIOUS
  <2> QED BY <2>1, FS_Interval
<1> DEFINE T == {b - x : x \in {y \in S : y <= b}}
<1>2. b \in Nat /\ T \subseteq 0..b /\ b - b \in T
  BY <1>1, SMT
<1>3. T \subseteq Int /\ IsFiniteSet(T) /\ T # {}
  <2> HIDE DEF T
  <2>1. IsFiniteSet(T)
    BY <1>0, <1>2, FS_Subset
  <2> QED BY <1>2, <2>1
<1>4. PICK d \in T : \A e \in T : d >= e
  BY <1>3, GreatestIsFound
<1>5. PICK m \in S : m <= b /\ d = b - m
  OBVIOUS
<1>6. \A x \in S : x <= b => b - x \in T
  OBVIOUS
<1> HIDE DEF T
<1>7. \A x \in S : m <= x
  <2> SUFFICES ASSUME NEW x \in S PROVE m <= x
    OBVIOUS
  <2>1. x \in Nat /\ m \in Nat
    OBVIOUS
  <2>2. x <= b => b - x <= b - m
    BY <1>4, <1>5, <1>6
  <2> QED BY <1>2, <1>5, <2>1, <2>2
<1> QED BY <1>7

Event == [index : Nat, key : Watched]

Rising(s) == \A i, j \in 1..Len(s) : i < j => s[i].index < s[j].index

Elements(s) == {s[i] : i \in 1..Len(s)}

LEMMA ElementsAre ==
  ASSUME NEW S, NEW s \in Seq(S)
  PROVE  Wat!ToSet(s) = Elements(s) /\ Elements(s) \subseteq S
BY LenProperties DEF Wat!ToSet, Elements

\* What Among says of one element after the other.
IsUp(s, set, u) ==
  u = [i \in 0..Len(s) |->
         IF i = 0 THEN << >>
         ELSE IF s[i] \in set THEN Append(u[i - 1], s[i]) ELSE u[i - 1]]

\* There is such a function, however long the list: what there is for a shorter list can be
\* prolonged.
LEMMA UpExists ==
  ASSUME NEW set, NEW s \in Seq(Event)
  PROVE  \E u : IsUp(s, set, u)
<1> DEFINE First(n) == [i \in 1..n |-> s[i]]
           UpTo(n, u) ==
             u = [i \in 0..n |->
                    IF i = 0 THEN << >>
                    ELSE IF s[i] \in set THEN Append(u[i - 1], s[i]) ELSE u[i - 1]]
           Bad == {n \in 0..Len(s) : ~\E u : UpTo(n, u)}
<1>0. Len(s) \in Nat
  BY LenProperties
<1>1. SUFFICES Bad = {}
  <2>1. Len(s) \in 0..Len(s)
    BY <1>0
  <2> QED BY <1>1, <2>1 DEF IsUp
<1>2. SUFFICES ASSUME Bad # {} PROVE FALSE
  OBVIOUS
<1>3. PICK m \in Bad : \A x \in Bad : m <= x
  <2>1. Bad \subseteq Nat
    BY <1>0
  <2> HIDE DEF Bad
  <2> QED BY <1>2, <2>1, LeastOfNaturals
<1>4. m \in 0..Len(s) /\ ~\E u : UpTo(m, u)
  BY <1>3
<1>5. m # 0
  <2>1. UpTo(0, [i \in 0..0 |-> << >>])
    OBVIOUS
  <2> QED BY <1>4, <2>1
<1>6. m \in Nat /\ m - 1 \in 0..Len(s) /\ ~(m <= m - 1)
  BY <1>0, <1>4, <1>5
<1>7. PICK u : UpTo(m - 1, u)
  BY <1>3, <1>6
<1> DEFINE v == [i \in 0..m |->
                   IF i = m THEN (IF s[m] \in set THEN Append(u[m - 1], s[m]) ELSE u[m - 1])
                   ELSE u[i]]
<1>8. \A i \in 0..m : v[i] = IF i = 0 THEN << >>
                             ELSE IF s[i] \in set THEN Append(v[i - 1], s[i]) ELSE v[i - 1]
  <2> SUFFICES ASSUME NEW i \in 0..m
               PROVE  v[i] = IF i = 0 THEN << >>
                             ELSE IF s[i] \in set THEN Append(v[i - 1], s[i]) ELSE v[i - 1]
    OBVIOUS
  <2>1. \A j \in 0..(m - 1) : u[j] = IF j = 0 THEN << >>
                                     ELSE IF s[j] \in set THEN Append(u[j - 1], s[j]) ELSE u[j - 1]
    BY <1>7
  <2>2. CASE i = m
    <3>1. v[i] = (IF s[m] \in set THEN Append(u[m - 1], s[m]) ELSE u[m - 1]) /\ v[i - 1] = u[m - 1]
      BY <1>5, <1>6, <2>2
    <3> QED BY <1>5, <2>2, <3>1
  <2>3. CASE i # m
    <3>1. i \in 0..(m - 1) /\ v[i] = u[i] /\ (i # 0 => v[i - 1] = u[i - 1])
      BY <1>6, <2>3
    <3> QED BY <2>1, <3>1
  <2> QED BY <2>2, <2>3
<1>9. v = [i \in 0..m |-> IF i = 0 THEN << >>
                          ELSE IF s[i] \in set THEN Append(v[i - 1], s[i]) ELSE v[i - 1]]
  <2> DEFINE w == [i \in 0..m |-> IF i = 0 THEN << >>
                          ELSE IF s[i] \in set THEN Append(v[i - 1], s[i]) ELSE v[i - 1]]
  <2>1. DOMAIN v = 0..m /\ DOMAIN w = 0..m /\ \A i \in 0..m : v[i] = w[i]
    BY <1>8
  <2>2. v = [i \in 0..m |-> v[i]] /\ w = [i \in 0..m |-> w[i]]
    OBVIOUS
  <2> HIDE DEF v, w
  <2>3. v = w
    BY <2>1, <2>2
  <2> QED BY <2>3 DEF w
<1>10. UpTo(m, v)
  BY <1>9
<1> QED BY <1>4, <1>10

LEMMA AmongIsUp ==
  ASSUME NEW set, NEW s \in Seq(Event)
  PROVE  \E u : IsUp(s, set, u) /\ Wat!Among(s, set) = u[Len(s)]
<1> DEFINE u == CHOOSE f : IsUp(s, set, f)
<1>1. IsUp(s, set, u)
  BY UpExists
<1>2. Wat!Among(s, set) = u[Len(s)]
  BY DEF Wat!Among, IsUp
<1> QED BY <1>1, <1>2

\* A later event at the end.
LEMMA AppendRises ==
  ASSUME NEW t \in Seq(Event), Rising(t), NEW e \in Event,
         \A x \in Elements(t) : x.index < e.index
  PROVE  /\ Append(t, e) \in Seq(Event) /\ Rising(Append(t, e))
         /\ Elements(Append(t, e)) = Elements(t) \cup {e}
<1> DEFINE n == Len(t)  a == Append(t, e)
<1>1. /\ n \in Nat /\ a \in Seq(Event) /\ Len(a) = n + 1
      /\ a[n + 1] = e /\ \A i \in 1..n : a[i] = t[i]
  BY LenProperties, AppendProperties
<1>2. \A i \in 1..n : t[i] \in Elements(t)
  BY DEF Elements
<1>3. \A i, j \in 1..n : i < j => t[i].index < t[j].index
  BY DEF Rising
<1> HIDE DEF a, n
<1>4. \A i \in 1..(n + 1) : i \in 1..n \/ i = n + 1
  BY <1>1
<1>5. ASSUME NEW i \in 1..(n + 1), NEW j \in 1..(n + 1), i < j
      PROVE  a[i].index < a[j].index
  <2>1. i \in 1..n
    BY <1>1, <1>5
  <2>2. CASE j \in 1..n
    BY <1>1, <1>3, <1>5, <2>1, <2>2
  <2>3. CASE j = n + 1
    BY <1>1, <1>2, <2>1, <2>3
  <2> QED BY <1>4, <2>2, <2>3
<1>6. Rising(a)
  BY <1>1, <1>5 DEF Rising
<1>7. Elements(a) = Elements(t) \cup {e}
  <2>1. Elements(t) = {t[i] : i \in 1..n}
    BY DEF Elements, n
  <2>2. Elements(a) = {a[i] : i \in 1..(n + 1)}
    BY <1>1 DEF Elements
  <2>3. n + 1 \in 1..(n + 1) /\ \A i \in 1..n : i \in 1..(n + 1)
    BY <1>1
  <2> QED BY <1>1, <1>4, <2>1, <2>2, <2>3
<1> QED BY <1>1, <1>6, <1>7 DEF a

\* Some of a list that rises, in its order.
LEMMA AmongGives ==
  ASSUME NEW set, NEW s \in Seq(Event), Rising(s)
  PROVE  /\ Wat!Among(s, set) \in Seq(Event) /\ Rising(Wat!Among(s, set))
         /\ Elements(Wat!Among(s, set)) = Elements(s) \cap set
<1>1. PICK u : IsUp(s, set, u) /\ Wat!Among(s, set) = u[Len(s)]
  BY AmongIsUp
<1>2. Len(s) \in Nat /\ \A i \in 1..Len(s) : s[i] \in Event
  BY LenProperties, ElementOfSeq
<1> DEFINE Good(n) == /\ u[n] \in Seq(Event) /\ Rising(u[n])
                      /\ Elements(u[n]) = {s[i] : i \in 1..n} \cap set
           Bad == {n \in 0..Len(s) : ~Good(n)}
<1>3. SUFFICES Bad = {}
  <2>1. Len(s) \in 0..Len(s)
    BY <1>2
  <2>2. Good(Len(s))
    <3> HIDE DEF Good
    <3> QED BY <1>3, <2>1
  <2> QED BY <1>1, <2>2 DEF Elements
<1>4. SUFFICES ASSUME Bad # {} PROVE FALSE
  OBVIOUS
<1>5. PICK m \in Bad : \A x \in Bad : m <= x
  <2>1. Bad \subseteq Nat
    BY <1>2
  <2> HIDE DEF Bad
  <2> QED BY <1>4, <2>1, LeastOfNaturals
<1>6. \A i \in 0..Len(s) : u[i] = IF i = 0 THEN << >>
                                  ELSE IF s[i] \in set THEN Append(u[i - 1], s[i]) ELSE u[i - 1]
  BY <1>1 DEF IsUp
<1>7. m \in 0..Len(s) /\ ~Good(m)
  BY <1>5
<1>8. m # 0
  <2>1. ASSUME m = 0 PROVE Good(m)
    <3>1. u[0] = << >> /\ << >> \in Seq(Event) /\ Len(<< >>) = 0
      BY <1>2, <1>6, EmptySeq
    <3>2. Rising(<< >>) /\ Elements(<< >>) = {} /\ {s[i] : i \in 1..0} = {}
      BY <3>1 DEF Rising, Elements
    <3> QED BY <2>1, <3>1, <3>2
  <2> QED BY <1>7, <2>1
<1>9. m \in 1..Len(s) /\ m - 1 \in 0..Len(s) /\ ~(m <= m - 1)
  BY <1>2, <1>7, <1>8
<1>10. Good(m - 1)
  BY <1>5, <1>9
<1> DEFINE t == u[m - 1]  before == {s[i] : i \in 1..(m - 1)}
<1>11. t \in Seq(Event) /\ Rising(t) /\ Elements(t) = before \cap set /\ s[m] \in Event
  BY <1>2, <1>9, <1>10
<1>12. {s[i] : i \in 1..m} = before \cup {s[m]}
  <2>1. \A i \in 1..m : i \in 1..(m - 1) \/ i = m
    BY <1>9
  <2>2. m \in 1..m /\ \A i \in 1..(m - 1) : i \in 1..m
    BY <1>9
  <2> QED BY <2>1, <2>2
<1>13. CASE s[m] \in set
  <2>1. u[m] = Append(t, s[m])
    <3>1. m \in 0..Len(s) /\ m # 0
      BY <1>7, <1>8
    <3>2. u[m] = IF m = 0 THEN << >>
                 ELSE IF s[m] \in set THEN Append(u[m - 1], s[m]) ELSE u[m - 1]
      BY <1>6, <3>1, Zenon
    <3> QED BY <1>13, <3>1, <3>2, Zenon
  <2>2. \A x \in Elements(t) : x.index < s[m].index
    <3>1. \A i \in 1..(m - 1) : i \in 1..Len(s) /\ i < m
      BY <1>2, <1>9
    <3>2. \A i \in 1..(m - 1) : s[i].index < s[m].index
      BY <1>9, <3>1 DEF Rising
    <3> QED BY <1>11, <3>2
  <2> HIDE DEF t, before
  <2>3. u[m] \in Seq(Event) /\ Rising(u[m]) /\ Elements(u[m]) = (before \cap set) \cup {s[m]}
    BY <1>11, <2>1, <2>2, AppendRises
  <2>4. Elements(u[m]) = (before \cup {s[m]}) \cap set
    BY <1>13, <2>3
  <2> QED BY <1>7, <1>12, <2>3, <2>4
<1>14. CASE s[m] \notin set
  <2>1. u[m] = t
    BY <1>6, <1>9, <1>14
  <2> HIDE DEF t, before
  <2>2. Elements(u[m]) = (before \cup {s[m]}) \cap set
    BY <1>11, <1>14, <2>1
  <2> QED BY <1>7, <1>11, <1>12, <2>1, <2>2
<1> QED BY <1>13, <1>14

\* A list that rises is given by what is in it.
LEMMA OneOrder ==
  ASSUME NEW s \in Seq(Event), Rising(s), NEW t \in Seq(Event), Rising(t),
         Elements(s) = Elements(t)
  PROVE  s = t
<1>1. /\ Len(s) \in Nat /\ Len(t) \in Nat
      /\ \A i \in 1..Len(s) : s[i] \in Event /\ s[i].index \in Nat
      /\ \A i \in 1..Len(t) : t[i] \in Event /\ t[i].index \in Nat
  <2>1. \A e \in Event : e.index \in Nat
    BY DEF Event
  <2>2. Len(s) \in Nat /\ Len(t) \in Nat
    BY LenProperties
  <2>3. /\ \A i \in 1..Len(s) : s[i] \in Event
        /\ \A i \in 1..Len(t) : t[i] \in Event
    BY ElementOfSeq
  <2> QED BY <2>1, <2>2, <2>3
<1>2. /\ \A i \in 1..Len(s) : \E j \in 1..Len(t) : s[i] = t[j]
      /\ \A i \in 1..Len(t) : \E j \in 1..Len(s) : t[i] = s[j]
  BY DEF Elements
<1>3. /\ \A i, j \in 1..Len(s) : i < j => s[i].index < s[j].index
      /\ \A i, j \in 1..Len(t) : i < j => t[i].index < t[j].index
  BY DEF Rising
<1> DEFINE Bad == {n \in 1..Len(s) : ~(n <= Len(t) /\ s[n] = t[n])}
<1>4. ASSUME Bad # {} PROVE FALSE
  <2>1. PICK m \in Bad : \A x \in Bad : m <= x
    <3>1. Bad \subseteq Nat
      BY <1>1
    <3> HIDE DEF Bad
    <3> QED BY <1>4, <3>1, LeastOfNaturals
  <2>2. m \in 1..Len(s) /\ ~(m <= Len(t) /\ s[m] = t[m])
    BY <2>1
  <2>3. \A i \in 1..(m - 1) : i \in 1..Len(s) /\ i \in 1..Len(t) /\ s[i] = t[i]
    <3> SUFFICES ASSUME NEW i \in 1..(m - 1)
                 PROVE  i \in 1..Len(s) /\ i \in 1..Len(t) /\ s[i] = t[i]
      OBVIOUS
    <3>1. i \in 1..Len(s) /\ ~(m <= i)
      BY <1>1, <2>2
    <3>2. i \notin Bad
      BY <2>1, <3>1
    <3> QED BY <1>1, <3>1, <3>2
  <2> HIDE DEF Bad
  <2>4. PICK j \in 1..Len(t) : s[m] = t[j]
    BY <1>2, <2>2
  <2>5. ~(j < m)
    <3> SUFFICES ASSUME j < m PROVE FALSE
      OBVIOUS
    <3>1. j \in 1..(m - 1)
      BY <1>1, <2>2
    <3>2. s[j].index < s[m].index /\ s[j] = t[j]
      BY <1>3, <2>2, <2>3, <3>1
    <3> QED BY <1>1, <2>2, <2>4, <3>2
  <2>6. j # m
    BY <2>2, <2>4
  <2>7. m < j /\ m \in 1..Len(t)
    BY <1>1, <2>2, <2>5, <2>6
  <2>8. PICK k \in 1..Len(s) : t[m] = s[k]
    BY <1>2, <2>7
  <2>9. t[m].index < s[m].index
    BY <1>3, <2>4, <2>7
  <2>10. k < m
    <3> SUFFICES ASSUME ~(k < m) PROVE FALSE
      OBVIOUS
    <3>1. k = m \/ m < k
      BY <1>1, <2>2
    <3>2. s[m].index <= s[k].index
      BY <1>1, <1>3, <2>2, <3>1
    <3> QED BY <1>1, <2>2, <2>7, <2>8, <2>9, <3>2
  <2>11. k \in 1..(m - 1)
    BY <1>1, <2>2, <2>10
  <2>12. t[k].index < t[m].index /\ s[k] = t[k]
    BY <1>3, <2>3, <2>7, <2>10, <2>11
  <2> QED BY <1>1, <2>7, <2>8, <2>12
<1>5. \A n \in 1..Len(s) : n <= Len(t) /\ s[n] = t[n]
  BY <1>4
<1>6. ~(Len(s) < Len(t))
  <2> SUFFICES ASSUME Len(s) < Len(t) PROVE FALSE
    OBVIOUS
  <2>1. PICK k \in 1..Len(s) : t[Len(t)] = s[k]
    <3>1. Len(t) \in 1..Len(t)
      BY <1>1
    <3> QED BY <1>2, <3>1
  <2>2. k \in 1..Len(t) /\ Len(t) \in 1..Len(t) /\ k < Len(t) /\ s[k] = t[k]
    BY <1>1, <1>5
  <2>3. t[k].index < t[Len(t)].index
    BY <1>3, <2>2
  <2> QED BY <1>1, <2>1, <2>2, <2>3
<1>7. Len(s) <= Len(t)
  <2>1. CASE Len(s) = 0
    BY <1>1, <2>1
  <2>2. CASE Len(s) # 0
    <3>1. Len(s) \in 1..Len(s)
      BY <1>1, <2>2
    <3> QED BY <1>5, <3>1
  <2> QED BY <2>1, <2>2
<1>8. Len(s) = Len(t)
  BY <1>1, <1>6, <1>7
<1> QED BY <1>5, <1>8, SeqEqual

\* One list after another.
LEMMA ConcatRises ==
  ASSUME NEW s \in Seq(Event), Rising(s), NEW t \in Seq(Event), Rising(t),
         \A x \in Elements(s), y \in Elements(t) : x.index < y.index
  PROVE  /\ s \o t \in Seq(Event) /\ Rising(s \o t)
         /\ Elements(s \o t) = Elements(s) \cup Elements(t)
<1> DEFINE a == s \o t  n == Len(s)  k == Len(t)
<1>1. /\ n \in Nat /\ k \in Nat /\ a \in Seq(Event) /\ Len(a) = n + k
      /\ \A i \in 1..(n + k) : a[i] = IF i <= n THEN s[i] ELSE t[i - n]
  BY LenProperties, ConcatProperties
<1>2. \A i \in 1..n : s[i] \in Elements(s)
  BY DEF Elements
<1>3. \A i \in 1..k : t[i] \in Elements(t)
  BY DEF Elements
<1>4. /\ \A i, j \in 1..n : i < j => s[i].index < s[j].index
      /\ \A i, j \in 1..k : i < j => t[i].index < t[j].index
  BY DEF Rising
<1>5. Elements(s) = {s[i] : i \in 1..n} /\ Elements(t) = {t[i] : i \in 1..k}
      /\ Elements(a) = {a[i] : i \in 1..(n + k)}
  BY <1>1 DEF Elements
<1> HIDE DEF a, n, k
<1>6. \A i \in 1..n : i \in 1..(n + k) /\ a[i] = s[i]
  BY <1>1
<1>7. \A i \in 1..k : n + i \in 1..(n + k) /\ a[n + i] = t[i]
  <2> SUFFICES ASSUME NEW i \in 1..k PROVE n + i \in 1..(n + k) /\ a[n + i] = t[i]
    OBVIOUS
  <2>1. n + i \in 1..(n + k) /\ ~(n + i <= n) /\ n + i - n = i
    BY <1>1
  <2> QED BY <1>1, <2>1
<1>8. \A i \in 1..(n + k) : i \in 1..n \/ (i - n \in 1..k /\ a[i] = t[i - n])
  BY <1>1
<1>9. ASSUME NEW i \in 1..(n + k), NEW j \in 1..(n + k), i < j
      PROVE  a[i].index < a[j].index
  <2>1. CASE i \in 1..n /\ j \in 1..n
    BY <1>4, <1>6, <1>9, <2>1
  <2>2. CASE i \in 1..n /\ j \notin 1..n
    BY <1>2, <1>3, <1>6, <1>8, <2>2
  <2>3. CASE i \notin 1..n
    <3>1. j \notin 1..n /\ i - n < j - n
      BY <1>1, <1>9, <2>3
    <3> QED BY <1>4, <1>8, <2>3, <3>1
  <2> QED BY <2>1, <2>2, <2>3
<1>10. Rising(a)
  BY <1>1, <1>9 DEF Rising
<1>11. Elements(a) = Elements(s) \cup Elements(t)
  <2>1. Elements(a) \subseteq Elements(s) \cup Elements(t)
    BY <1>5, <1>6, <1>8
  <2>2. Elements(s) \subseteq Elements(a)
    BY <1>5, <1>6
  <2>3. Elements(t) \subseteq Elements(a)
    BY <1>5, <1>7
  <2> QED BY <2>1, <2>2, <2>3
<1> QED BY <1>1, <1>10, <1>11 DEF a

FeedTypeOK ==
  /\ events \in Seq(Event)
  /\ seen \in [Watcher -> Seq(Event)]
  /\ at \in [Watcher -> Nat]
  /\ connected \in [Watcher -> BOOLEAN]
  /\ mark \in [Watcher -> Nat]
  /\ skipped \in [Watcher -> SUBSET Event]

\* What the watcher follows and is to have, up to an index.
Due(w, n) ==
  {e \in Elements(events) : Wat!Wants(w, e) /\ e \notin skipped[w] /\ e.index <= n}

\* A watcher has what is due up to where it stands, it has missed nothing further on, and
\* a connected one stands past everything it follows.
StandsAt(w) ==
  /\ at[w] <= Wat!LastOf(events)
  /\ Rising(seen[w]) /\ Elements(seen[w]) = Due(w, at[w])
  /\ \A e \in skipped[w] : e.index <= at[w]
  /\ connected[w] => \A e \in Elements(events) : Wat!Wants(w, e) => e.index <= at[w]
  /\ ~connected[w] => mark[w] = at[w]

FeedInv ==
  /\ FeedTypeOK
  /\ Rising(events)
  /\ \A w \in Watcher : StandsAt(w)

LEMMA LastIsGreatest ==
  ASSUME NEW s \in Seq(Event), Rising(s)
  PROVE  /\ Wat!LastOf(s) \in Nat
         /\ \A e \in Elements(s) : e.index <= Wat!LastOf(s)
         /\ s # << >> => \E e \in Elements(s) : e.index = Wat!LastOf(s)
<1>1. Len(s) \in Nat /\ \A i \in 1..Len(s) : s[i] \in Event
  BY LenProperties, ElementOfSeq
<1>2. \A e \in Event : e.index \in Nat
  BY DEF Event
<1>3. CASE s = << >>
  <2>1. Len(s) = 0
    BY <1>3, EmptySeq
  <2>2. Elements(s) = {}
    BY <2>1 DEF Elements
  <2> QED BY <1>3, <2>2 DEF Wat!LastOf
<1>4. CASE s # << >>
  <2>1. Len(s) \in 1..Len(s)
    BY <1>1, <1>4, EmptySeq
  <2>2. Wat!LastOf(s) = s[Len(s)].index
    BY <1>4 DEF Wat!LastOf
  <2>3. \A i \in 1..Len(s) : s[i].index <= s[Len(s)].index
    <3> SUFFICES ASSUME NEW i \in 1..Len(s) PROVE s[i].index <= s[Len(s)].index
      OBVIOUS
    <3>1. i = Len(s) \/ i < Len(s)
      BY <1>1
    <3>2. s[i].index \in Nat /\ s[Len(s)].index \in Nat
      BY <1>1, <1>2, <2>1
    <3>3. i < Len(s) => s[i].index < s[Len(s)].index
      BY <2>1 DEF Rising
    <3> QED BY <3>1, <3>2, <3>3
  <2> QED BY <1>1, <1>2, <2>1, <2>2, <2>3 DEF Elements
<1> QED BY <1>3, <1>4

LEMMA FeedInit == Wat!Init => FeedInv
<1> SUFFICES ASSUME Wat!Init PROVE FeedInv
  OBVIOUS
<1>1. /\ << >> \in Seq(Event) /\ Elements(<< >>) = {} /\ Rising(<< >>) /\ Wat!LastOf(<< >>) = 0
  BY EmptySeq DEF Elements, Rising, Wat!LastOf
<1>2. FeedTypeOK
  BY <1>1 DEF Wat!Init, FeedTypeOK
<1>3. ASSUME NEW w \in Watcher PROVE StandsAt(w)
  <2>1. /\ events = << >> /\ seen[w] = << >> /\ at[w] = 0 /\ connected[w] = TRUE /\ skipped[w] = {}
    BY DEF Wat!Init
  <2>2. Due(w, at[w]) = {}
    BY <1>1, <2>1 DEF Due
  <2>3. Elements(events) = {} /\ Elements(seen[w]) = {} /\ Rising(seen[w]) /\ Wat!LastOf(events) = 0
    BY <1>1, <2>1
  <2>4. at[w] <= Wat!LastOf(events)
    BY <2>1, <2>3
  <2> QED BY <2>1, <2>2, <2>3, <2>4, Zenon DEF StandsAt
<1> QED BY <1>1, <1>2, <1>3 DEF FeedInv, Wat!Init

LEMMA DisconnectKeeps ==
  ASSUME FeedInv, NEW w \in Watcher, Wat!Disconnect(w)
  PROVE  FeedInv'
<1>1. /\ UNCHANGED <<wanted, events, seen, at, skipped>> /\ connected[w]
      /\ connected' = [connected EXCEPT ![w] = FALSE]
      /\ mark' = [mark EXCEPT ![w] = at[w]]
      /\ FeedTypeOK
  BY DEF Wat!Disconnect, FeedInv
<1>2. FeedTypeOK'
  BY <1>1 DEF FeedTypeOK
<1>3. ASSUME NEW x \in Watcher PROVE StandsAt(x)'
  <2>1. StandsAt(x) /\ Due(x, at[x])' = Due(x, at[x])
    BY <1>1 DEF FeedInv, Due, Wat!Wants
  <2>2. /\ connected'[x] => connected[x]
        /\ ~connected'[x] => mark'[x] = at[x]
    <3>1. CASE x = w
      BY <1>1, <3>1 DEF FeedTypeOK
    <3>2. CASE x # w
      BY <1>1, <2>1, <3>2 DEF FeedTypeOK, StandsAt
    <3> QED BY <3>1, <3>2
  <2>3. \A e : Wat!Wants(x, e)' <=> Wat!Wants(x, e)
    BY <1>1 DEF Wat!Wants
  <2> QED BY <1>1, <2>1, <2>2, <2>3 DEF StandsAt
<1> QED BY <1>1, <1>2, <1>3 DEF FeedInv

\* What a watcher that comes back from its index is handed: all that is past it.
LEMMA ResumeHands ==
  ASSUME FeedInv, NEW w \in Watcher, ~connected[w],
         NEW more, more = Wat!Taken(w, Wat!Since(mark[w]), at[w])
  PROVE  /\ more \in Seq(Event) /\ Rising(more)
         /\ Elements(more) = {e \in Elements(events) : Wat!Wants(w, e) /\ e.index > at[w]}
<1> DEFINE rest == Wat!Since(mark[w])
           late == {e \in Wat!ToSet(events) : e.index > mark[w]}
           own == {e \in Wat!ToSet(rest) : Wat!Wants(w, e) /\ e.index > at[w]}
<1>1. events \in Seq(Event) /\ Rising(events) /\ mark[w] = at[w]
  BY DEF FeedInv, FeedTypeOK, StandsAt
<1>2. rest = Wat!Among(events, late) /\ more = Wat!Among(rest, own)
  BY DEF Wat!Since, Wat!Taken
<1> HIDE DEF rest, late, own
<1>3. rest \in Seq(Event) /\ Rising(rest) /\ Elements(rest) = Elements(events) \cap late
  BY <1>1, <1>2, AmongGives
<1>4. more \in Seq(Event) /\ Rising(more) /\ Elements(more) = Elements(rest) \cap own
  BY <1>2, <1>3, AmongGives
<1>5. Wat!ToSet(events) = Elements(events) /\ Wat!ToSet(rest) = Elements(rest)
  BY <1>1, <1>3, ElementsAre
<1>6. Elements(more) = {e \in Elements(events) : Wat!Wants(w, e) /\ e.index > at[w]}
  BY <1>1, <1>3, <1>4, <1>5 DEF late, own
<1> QED BY <1>4, <1>6

LEMMA ResumeKeeps ==
  ASSUME FeedInv, NEW w \in Watcher, Wat!ResumeFromIndex(w)
  PROVE  FeedInv'
<1> DEFINE more == Wat!Taken(w, Wat!Since(mark[w]), at[w])
<1>1. /\ UNCHANGED <<wanted, events, mark, skipped>> /\ ~connected[w]
      /\ connected' = [connected EXCEPT ![w] = TRUE]
      /\ seen' = [seen EXCEPT ![w] = @ \o more]
      /\ at' = [at EXCEPT ![w] = Wat!Reached(at[w], more)]
      /\ FeedTypeOK /\ Rising(events)
  BY DEF Wat!ResumeFromIndex, FeedInv
<1>2. /\ more \in Seq(Event) /\ Rising(more)
      /\ Elements(more) = {e \in Elements(events) : Wat!Wants(w, e) /\ e.index > at[w]}
  BY <1>1, ResumeHands
<1> HIDE DEF more
<1> DEFINE to == Wat!Reached(at[w], more)
<1>3. /\ events \in Seq(Event) /\ seen[w] \in Seq(Event) /\ at[w] \in Nat /\ StandsAt(w)
      /\ \A e \in Elements(events) : e \in Event /\ e.index \in Nat
  <2>1. events \in Seq(Event) /\ seen[w] \in Seq(Event) /\ at[w] \in Nat /\ StandsAt(w)
    BY <1>1 DEF FeedInv, FeedTypeOK
  <2>2. Elements(events) \subseteq Event
    BY <2>1, ElementsAre
  <2> QED BY <2>1, <2>2 DEF Event
<1>4. /\ to \in Nat /\ at[w] <= to /\ to <= Wat!LastOf(events)
      /\ \A e \in Elements(events) : Wat!Wants(w, e) => e.index <= to
  <2>1. /\ Wat!LastOf(events) \in Nat /\ at[w] <= Wat!LastOf(events)
        /\ \A e \in Elements(events) : e.index <= Wat!LastOf(events)
    BY <1>1, <1>3, LastIsGreatest DEF StandsAt
  <2>2. CASE more = << >>
    <3>1. to = at[w]
      BY <2>2 DEF Wat!Reached
    <3>2. Elements(more) = {}
      BY <2>2, EmptySeq DEF Elements
    <3>3. \A e \in Elements(events) : Wat!Wants(w, e) => ~(e.index > at[w])
      BY <1>2, <3>2
    <3> QED BY <1>3, <2>1, <3>1, <3>3
  <2>3. CASE more # << >>
    <3>1. to = Wat!LastOf(more)
      BY <2>3 DEF Wat!Reached
    <3>2. /\ to \in Nat /\ \A e \in Elements(more) : e.index <= to
          /\ \E e \in Elements(more) : e.index = to
      BY <1>2, <2>3, <3>1, LastIsGreatest
    <3>3. PICK e \in Elements(more) : e.index = to
      BY <3>2
    <3>4. e \in Elements(events) /\ at[w] < to
      BY <1>2, <3>3
    <3>5. to <= Wat!LastOf(events)
      BY <2>1, <3>3, <3>4
    <3>6. ASSUME NEW d \in Elements(events), Wat!Wants(w, d) PROVE d.index <= to
      <4>1. CASE d.index > at[w]
        BY <1>2, <3>2, <3>6, <4>1
      <4>2. CASE ~(d.index > at[w])
        BY <1>3, <3>2, <3>4, <4>2
      <4> QED BY <4>1, <4>2
    <3> QED BY <1>3, <3>2, <3>4, <3>5, <3>6
  <2> QED BY <2>2, <2>3
<1> HIDE DEF to
<1>5. /\ seen[w] \o more \in Seq(Event) /\ Rising(seen[w] \o more)
      /\ Elements(seen[w] \o more) = Elements(seen[w]) \cup Elements(more)
  <2>1. \A x \in Elements(seen[w]), y \in Elements(more) : x.index < y.index
    <3>1. \A x \in Elements(seen[w]) : x.index \in Nat /\ x.index <= at[w]
      BY <1>3 DEF StandsAt, Due
    <3>2. \A y \in Elements(more) : y.index \in Nat /\ y.index > at[w]
      BY <1>2, <1>3
    <3> QED BY <1>3, <3>1, <3>2
  <2> QED BY <1>2, <1>3, <2>1, ConcatRises DEF StandsAt
<1>6. FeedTypeOK'
  BY <1>1, <1>4, <1>5 DEF FeedTypeOK, to
<1>7. ASSUME NEW x \in Watcher PROVE StandsAt(x)'
  <2>1. \A e : Wat!Wants(x, e)' <=> Wat!Wants(x, e)
    BY <1>1 DEF Wat!Wants
  <2>2. \A n : Due(x, n)' = Due(x, n)
    BY <1>1, <2>1 DEF Due
  <2>3. CASE x # w
    <3>1. seen'[x] = seen[x] /\ at'[x] = at[x] /\ connected'[x] = connected[x]
      BY <1>1, <2>3 DEF FeedTypeOK
    <3>2. StandsAt(x)
      BY DEF FeedInv
    <3> QED BY <1>1, <2>1, <2>2, <3>1, <3>2 DEF StandsAt
  <2>4. CASE x = w
    <3>1. seen'[x] = seen[w] \o more /\ at'[x] = to /\ connected'[x] = TRUE
      BY <1>1, <2>4 DEF FeedTypeOK, to
    <3>2. Elements(seen[w]) \cup Elements(more) = Due(w, to)
      <4>1. Elements(seen[w]) = Due(w, at[w])
        BY <1>3 DEF StandsAt
      <4>2. \A e \in Elements(more) : e \notin skipped[w]
        BY <1>2, <1>3 DEF StandsAt
      <4>3. \A e \in Elements(more) : e.index <= to
        BY <1>2, <1>4
      <4>4. \A e \in Elements(events) : e.index <= at[w] \/ e.index > at[w]
        BY <1>3
      <4>5. \A e \in Elements(events) : e.index <= at[w] => e.index <= to
        BY <1>3, <1>4
      <4> QED BY <1>2, <4>1, <4>2, <4>3, <4>4, <4>5 DEF Due
    <3>3. \A e \in skipped[w] : e.index <= to
      <4>1. \A e \in skipped[w] : e.index <= at[w] /\ e.index \in Nat
        BY <1>1, <1>3 DEF StandsAt, FeedTypeOK, Event
      <4> QED BY <1>3, <1>4, <4>1
    <3> QED BY <1>1, <1>4, <1>5, <2>1, <2>2, <2>4, <3>1, <3>2, <3>3 DEF StandsAt
  <2> QED BY <2>3, <2>4
<1> QED BY <1>1, <1>6, <1>7 DEF FeedInv

\* What a watcher takes of one event.
LEMMA OneTaken ==
  ASSUME NEW w \in Watcher, NEW e \in Event, NEW from
  PROVE  Wat!Taken(w, <<e>>, from) =
           IF Wat!Wants(w, e) /\ e.index > from THEN <<e>> ELSE << >>
<1> DEFINE own == {d \in Wat!ToSet(<<e>>) : Wat!Wants(w, d) /\ d.index > from}
           t == Wat!Taken(w, <<e>>, from)
<1>1. /\ <<e>> \in Seq(Event) /\ Len(<<e>>) = 1 /\ <<e>>[1] = e
      /\ << >> \in Seq(Event) /\ Len(<< >>) = 0
  BY EmptySeq
<1>2. Rising(<<e>>) /\ Elements(<<e>>) = {e} /\ Rising(<< >>) /\ Elements(<< >>) = {}
  BY <1>1 DEF Rising, Elements
<1>3. Wat!ToSet(<<e>>) = {e}
  BY <1>1, <1>2, ElementsAre
<1>4. t = Wat!Among(<<e>>, own)
  BY DEF Wat!Taken
<1> HIDE DEF t, own
<1>5. t \in Seq(Event) /\ Rising(t) /\ Elements(t) = {e} \cap own
  BY <1>1, <1>2, <1>4, AmongGives
<1>6. CASE Wat!Wants(w, e) /\ e.index > from
  <2>1. Elements(t) = {e}
    BY <1>3, <1>5, <1>6 DEF own
  <2>2. t = <<e>>
    BY <1>1, <1>2, <1>5, <2>1, OneOrder
  <2> QED BY <1>6, <2>2 DEF t
<1>7. CASE ~(Wat!Wants(w, e) /\ e.index > from)
  <2>1. Elements(t) = {}
    BY <1>3, <1>5, <1>7 DEF own
  <2>2. t = << >>
    BY <1>1, <1>2, <1>5, <2>1, OneOrder
  <2> QED BY <1>7, <2>2 DEF t
<1> QED BY <1>6, <1>7

LEMMA PublishKeeps ==
  ASSUME Wat!WatchConstants, FeedInv,
         NEW i \in Wat!Upcoming, NEW k \in Watched,
         NEW back \in SUBSET {w \in Watcher : ~connected[w]},
         Wat!Publish([index |-> i, key |-> k], back)
  PROVE  FeedInv'
<1> DEFINE e == [index |-> i, key |-> k]
           last == Wat!LastOf(events)
           from(w) == IF w \in back THEN i - 1 ELSE at[w]
           more(w) == IF connected[w] \/ w \in back THEN Wat!Taken(w, <<e>>, from(w)) ELSE << >>
           passed(w) == {d \in Wat!ToSet(Wat!Since(mark[w])) : Wat!Wants(w, d)}
<1>1. /\ events \in Seq(Event) /\ Rising(events) /\ FeedTypeOK /\ Elements(events) \subseteq Event
      /\ Wat!ToSet(events) = Elements(events)
      /\ last \in Nat /\ \A d \in Elements(events) : d.index <= last
  BY LastIsGreatest, ElementsAre DEF FeedInv, FeedTypeOK
<1>2. i \in Nat /\ last < i /\ i - 1 \in Nat /\ last <= i - 1
  BY <1>1 DEF Wat!Upcoming, Wat!WatchConstants
<1>3. /\ e \in Event /\ e.index = i /\ \A d \in Event : d.index \in Nat
  BY <1>2 DEF Event
<1>4. /\ events' = Append(events, e)
      /\ seen' = [w \in Watcher |-> seen[w] \o more(w)]
      /\ at' = [w \in Watcher |-> Wat!Reached(from(w), more(w))]
      /\ connected' = [w \in Watcher |-> connected[w] \/ w \in back]
      /\ skipped' = [w \in Watcher |->
                       IF w \in back THEN skipped[w] \cup passed(w) ELSE skipped[w]]
      /\ UNCHANGED <<wanted, mark>>
  BY <1>3 DEF Wat!Publish
<1> HIDE DEF e, passed, last
<1>5. \A d \in Elements(events) : d.index < e.index
  <2> SUFFICES ASSUME NEW d \in Elements(events) PROVE d.index < e.index
    OBVIOUS
  <2>1. d.index \in Nat /\ d.index <= last
    BY <1>1, <1>3
  <2> QED BY <1>1, <1>2, <1>3, <2>1
<1>6. events' \in Seq(Event) /\ Rising(events') /\ Elements(events') = Elements(events) \cup {e}
  BY <1>1, <1>3, <1>4, <1>5, AppendRises
<1>7. Wat!LastOf(events)' = i
  <2>1. events' # << >> /\ events'[Len(events')] = e
    BY <1>1, <1>3, <1>4, AppendProperties
  <2> QED BY <1>3, <2>1 DEF Wat!LastOf
<1>8. \A w, d : Wat!Wants(w, d)' <=> Wat!Wants(w, d)
  BY <1>4 DEF Wat!Wants
<1>9. ASSUME NEW w \in Watcher
      PROVE  /\ StandsAt(w) /\ seen[w] \in Seq(Event) /\ at[w] \in Nat /\ at[w] < i /\ e \notin skipped[w]
             /\ skipped[w] \subseteq Event /\ connected[w] \in BOOLEAN
  <2>1. /\ StandsAt(w) /\ seen[w] \in Seq(Event) /\ at[w] \in Nat /\ skipped[w] \subseteq Event
        /\ connected[w] \in BOOLEAN
    BY <1>1 DEF FeedInv, FeedTypeOK
  <2>2. at[w] <= last
    BY <2>1 DEF StandsAt, last
  <2>3. at[w] < i
    BY <1>1, <1>2, <2>1, <2>2
  <2>4. e \notin skipped[w]
    BY <1>2, <1>3, <2>1, <2>3 DEF StandsAt
  <2> QED BY <2>1, <2>3, <2>4
<1>10. ASSUME NEW w \in back
       PROVE  /\ w \in Watcher /\ ~connected[w]
              /\ passed(w) = {d \in Elements(events) : Wat!Wants(w, d) /\ d.index > at[w]}
  <2>1. w \in Watcher /\ ~connected[w]
    OBVIOUS
  <2>2. mark[w] = at[w]
    BY <1>9, <2>1 DEF StandsAt
  <2> DEFINE late == {d \in Wat!ToSet(events) : d.index > mark[w]}
             rest == Wat!Among(events, late)
  <2>3. passed(w) = {d \in Wat!ToSet(rest) : Wat!Wants(w, d)}
    BY DEF passed, Wat!Since
  <2>4. late = {d \in Elements(events) : d.index > at[w]}
    BY <1>1, <2>2
  <2> HIDE DEF late
  <2>5. rest \in Seq(Event) /\ Elements(rest) = Elements(events) \cap late
    BY <1>1, AmongGives
  <2> HIDE DEF rest
  <2>6. Wat!ToSet(rest) = Elements(rest)
    BY <2>5, ElementsAre
  <2> QED BY <2>1, <2>3, <2>4, <2>5, <2>6
<1>11. ASSUME NEW w \in Watcher
       PROVE  more(w) = IF (connected[w] \/ w \in back) /\ Wat!Wants(w, e) THEN <<e>> ELSE << >>
  <2>1. e.index > from(w)
    BY <1>2, <1>3, <1>9
  <2>2. Wat!Taken(w, <<e>>, from(w)) = IF Wat!Wants(w, e) /\ e.index > from(w) THEN <<e>> ELSE << >>
    BY <1>3, OneTaken
  <2> QED BY <2>1, <2>2
<1>12. ASSUME NEW w \in Watcher
       PROVE  from(w) \in Nat /\ from(w) < i /\ at[w] <= from(w) /\ skipped'[w] \subseteq Event
  <2>1. from(w) \in Nat /\ from(w) < i /\ at[w] <= from(w)
    BY <1>1, <1>2, <1>9
  <2>2. skipped'[w] \subseteq Event
    BY <1>1, <1>4, <1>9, <1>10
  <2> QED BY <2>1, <2>2
<1> HIDE DEF more
<1>13. ASSUME NEW w \in Watcher
       PROVE  /\ seen[w] \o more(w) \in Seq(Event) /\ Rising(seen[w] \o more(w))
              /\ Elements(seen[w] \o more(w)) =
                   IF (connected[w] \/ w \in back) /\ Wat!Wants(w, e)
                   THEN Elements(seen[w]) \cup {e} ELSE Elements(seen[w])
  <2>1. /\ <<e>> \in Seq(Event) /\ Len(<<e>>) = 1 /\ <<e>>[1] = e
        /\ << >> \in Seq(Event) /\ Len(<< >>) = 0
    BY <1>3, EmptySeq
  <2>2. Rising(<<e>>) /\ Elements(<<e>>) = {e} /\ Rising(<< >>) /\ Elements(<< >>) = {}
    BY <2>1 DEF Rising, Elements
  <2>3. Rising(seen[w]) /\ \A d \in Elements(seen[w]) : d.index < e.index
    BY <1>5, <1>9 DEF StandsAt, Due
  <2>4. CASE (connected[w] \/ w \in back) /\ Wat!Wants(w, e)
    <3>1. more(w) = <<e>>
      BY <1>11, <2>4
    <3>2. \A x \in Elements(seen[w]), y \in Elements(<<e>>) : x.index < y.index
      BY <2>2, <2>3
    <3>3. /\ seen[w] \o <<e>> \in Seq(Event) /\ Rising(seen[w] \o <<e>>)
          /\ Elements(seen[w] \o <<e>>) = Elements(seen[w]) \cup Elements(<<e>>)
      BY <1>9, <2>1, <2>2, <2>3, <3>2, ConcatRises
    <3> QED BY <2>2, <2>4, <3>1, <3>3
  <2>5. CASE ~((connected[w] \/ w \in back) /\ Wat!Wants(w, e))
    <3>1. more(w) = << >>
      BY <1>11, <2>5
    <3>2. \A x \in Elements(seen[w]), y \in Elements(<< >>) : x.index < y.index
      BY <2>2
    <3>3. /\ seen[w] \o << >> \in Seq(Event) /\ Rising(seen[w] \o << >>)
          /\ Elements(seen[w] \o << >>) = Elements(seen[w]) \cup Elements(<< >>)
      BY <1>9, <2>1, <2>2, <2>3, <3>2, ConcatRises
    <3> QED BY <2>2, <2>5, <3>1, <3>3
  <2> QED BY <2>4, <2>5
<1>14. ASSUME NEW w \in Watcher
       PROVE  Wat!Reached(from(w), more(w)) =
                IF (connected[w] \/ w \in back) /\ Wat!Wants(w, e) THEN i ELSE from(w)
  <2>1. Wat!LastOf(<<e>>) = i /\ <<e>> # << >>
    BY <1>3 DEF Wat!LastOf
  <2> QED BY <1>11, <2>1 DEF Wat!Reached
<1> HIDE DEF from
<1>15. FeedTypeOK'
  <2>1. seen' \in [Watcher -> Seq(Event)]
    BY <1>4, <1>13
  <2>2. at' \in [Watcher -> Nat]
    BY <1>2, <1>4, <1>12, <1>14
  <2>3. connected' \in [Watcher -> BOOLEAN]
    BY <1>4, <1>9
  <2>4. skipped' \in [Watcher -> SUBSET Event]
    BY <1>4, <1>12
  <2>5. mark' \in [Watcher -> Nat]
    BY <1>1, <1>4 DEF FeedTypeOK
  <2> QED BY <1>6, <2>1, <2>2, <2>3, <2>4, <2>5 DEF FeedTypeOK
<1>16. ASSUME NEW w \in Watcher PROVE StandsAt(w)'
  <2> DEFINE s == seen[w] \o more(w)
             reach == Wat!Reached(from(w), more(w))
             skip == IF w \in back THEN skipped[w] \cup passed(w) ELSE skipped[w]
  <2>1. /\ seen'[w] = s /\ at'[w] = reach /\ connected'[w] = (connected[w] \/ w \in back)
        /\ skipped'[w] = skip /\ mark'[w] = mark[w]
    BY <1>4
  <2>2. /\ Elements(seen[w]) = Due(w, at[w]) /\ (\A d \in skipped[w] : d.index <= at[w])
        /\ (connected[w] => \A d \in Elements(events) : Wat!Wants(w, d) => d.index <= at[w])
        /\ (~connected[w] => mark[w] = at[w])
        /\ at[w] \in Nat /\ at[w] < i /\ e \notin skipped[w]
    BY <1>9 DEF StandsAt
  <2>3. \A d \in Elements(events) : d.index \in Nat /\ d.index < i /\ d # e
    BY <1>1, <1>3, <1>5
  <2>4. /\ reach \in Nat /\ reach <= i /\ at[w] <= reach /\ i - 1 <= i
    BY <1>2, <1>12, <1>14, <2>2
  <2>5. Due(w, at[w])' = {d \in Elements(events) \cup {e} :
                            Wat!Wants(w, d) /\ d \notin skip /\ d.index <= reach}
    BY <1>6, <1>8, <2>1 DEF Due
  <2>6. Elements(s) = IF (connected[w] \/ w \in back) /\ Wat!Wants(w, e)
                      THEN Due(w, at[w]) \cup {e} ELSE Due(w, at[w])
    BY <1>13, <2>2
  <2>7. reach = IF (connected[w] \/ w \in back) /\ Wat!Wants(w, e) THEN i ELSE from(w)
    BY <1>14
  <2>8. CASE connected[w]
    <3>1. w \notin back /\ skip = skipped[w] /\ from(w) = at[w]
      BY <1>10, <2>8 DEF from
    <3> HIDE DEF s, reach, skip
    <3>2. \A d \in Elements(events) : Wat!Wants(w, d) => d.index <= at[w] /\ d.index <= reach
      BY <2>2, <2>3, <2>4, <2>8
    <3>3. Wat!Wants(w, e) <=> (Wat!Wants(w, e) /\ e \notin skip /\ e.index <= reach)
      BY <1>2, <1>3, <2>2, <2>7, <2>8, <3>1
    <3>4. Due(w, at[w]) = {d \in Elements(events) : Wat!Wants(w, d) /\ d \notin skip}
      BY <3>1, <3>2 DEF Due
    <3>5. Elements(s) = Due(w, at[w])'
      BY <2>5, <2>6, <2>8, <3>2, <3>3, <3>4
    <3>6. \A d \in skip : d.index <= reach
      <4>1. \A d \in skip : d.index <= at[w] /\ d.index \in Nat
        BY <1>3, <1>9, <2>2, <3>1
      <4> QED BY <2>2, <2>4, <4>1
    <3>7. \A d \in Elements(events) \cup {e} : Wat!Wants(w, d) => d.index <= reach
      BY <3>2, <3>3
    <3> QED BY <1>6, <1>7, <1>8, <1>13, <2>1, <2>4, <2>8, <3>5, <3>6, <3>7 DEF StandsAt, s
  <2>9. CASE w \in back
    <3>1. skip = skipped[w] \cup passed(w) /\ from(w) = i - 1 /\ ~connected[w]
      BY <1>10, <2>9 DEF from
    <3>2. passed(w) = {d \in Elements(events) : Wat!Wants(w, d) /\ d.index > at[w]}
      BY <1>10, <2>9
    <3> HIDE DEF s, reach, skip
    <3>3. \A d \in Elements(events) : d.index <= reach /\ (d.index <= at[w] \/ d.index > at[w])
                                      /\ ~(d.index <= at[w] /\ d.index > at[w])
      BY <1>2, <2>2, <2>3, <2>7, <3>1
    <3>4. Due(w, at[w]) = {d \in Elements(events) : Wat!Wants(w, d) /\ d \notin skip}
      BY <3>1, <3>2, <3>3 DEF Due
    <3>5. Wat!Wants(w, e) <=> (Wat!Wants(w, e) /\ e \notin skip /\ e.index <= reach)
      BY <1>2, <1>3, <2>2, <2>3, <2>7, <2>9, <3>1, <3>2
    <3>6. Elements(s) = Due(w, at[w])'
      BY <2>5, <2>6, <2>9, <3>3, <3>4, <3>5
    <3>7. \A d \in skip : d.index <= reach
      <4>1. \A d \in skipped[w] : d.index <= at[w] /\ d.index \in Nat
        BY <1>3, <1>9, <2>2
      <4>2. \A d \in skipped[w] : d.index <= reach
        BY <2>2, <2>4, <4>1
      <4> QED BY <3>1, <3>2, <3>3, <4>2
    <3>8. \A d \in Elements(events) \cup {e} : Wat!Wants(w, d) => d.index <= reach
      BY <3>3, <3>5
    <3> QED BY <1>6, <1>7, <1>8, <1>13, <2>1, <2>4, <2>9, <3>6, <3>7, <3>8 DEF StandsAt, s
  <2>10. CASE ~connected[w] /\ w \notin back
    <3>1. skip = skipped[w] /\ from(w) = at[w] /\ reach = at[w]
      BY <2>7, <2>10 DEF from
    <3> HIDE DEF s, reach, skip
    <3>2. ~(e.index <= reach)
      BY <1>2, <1>3, <2>2, <3>1
    <3>3. Elements(s) = Due(w, at[w])'
      BY <2>5, <2>6, <2>10, <3>1, <3>2 DEF Due
    <3> QED BY <1>6, <1>7, <1>8, <1>13, <2>1, <2>2, <2>4, <2>10, <3>1, <3>3 DEF StandsAt, s
  <2> QED BY <2>8, <2>9, <2>10
<1> QED BY <1>6, <1>15, <1>16 DEF FeedInv

LEMMA FeedKeeps ==
  ASSUME Wat!WatchConstants, FeedInv, [Wat!Next]_Wat!vars
  PROVE  FeedInv'
<1>1. CASE UNCHANGED Wat!vars
  <2>1. UNCHANGED <<wanted, events, seen, at, connected, mark, skipped>>
    BY <1>1 DEF Wat!vars
  <2> QED BY <2>1 DEF FeedInv, FeedTypeOK, StandsAt, Due, Wat!Wants, Wat!LastOf
<1>2. ASSUME NEW i \in Wat!Upcoming, NEW k \in Watched,
             NEW back \in SUBSET {w \in Watcher : ~connected[w]},
             Wat!Publish([index |-> i, key |-> k], back)
      PROVE  FeedInv'
  BY <1>2, PublishKeeps
<1>3. ASSUME NEW w \in Watcher, Wat!Disconnect(w) PROVE FeedInv'
  BY <1>3, DisconnectKeeps
<1>4. ASSUME NEW w \in Watcher, Wat!ResumeFromIndex(w) PROVE FeedInv'
  BY <1>4, ResumeKeeps
<1> QED BY <1>1, <1>2, <1>3, <1>4 DEF Wat!Next

\* Watchers miss nothing that they do not leave out on their own, and get nothing twice
\* or out of order: for any number of watchers, of events and of returns.
THEOREM WatchersMissNothing == Spec => []SeenIsWanted
<1>1. Wat!WatchConstants
  BY ServicesAssumption
<1>2. FeedInv => SeenIsWanted
  <2> SUFFICES ASSUME FeedInv, NEW w \in Watcher, connected[w]
               PROVE  seen[w] = Wat!Among(events,
                        {e \in Wat!ToSet(events) : Wat!Wants(w, e) /\ e \notin skipped[w]})
    BY DEF SeenIsWanted, Wat!SeenIsWanted
  <2> DEFINE own == {e \in Wat!ToSet(events) : Wat!Wants(w, e) /\ e \notin skipped[w]}
  <2>1. /\ events \in Seq(Event) /\ Rising(events) /\ seen[w] \in Seq(Event) /\ StandsAt(w)
    BY DEF FeedInv, FeedTypeOK
  <2>2. Rising(seen[w]) /\ Elements(seen[w]) = Due(w, at[w])
    BY <2>1 DEF StandsAt
  <2>3. own = {e \in Elements(events) : Wat!Wants(w, e) /\ e \notin skipped[w]}
    BY <2>1, ElementsAre
  <2>4. Elements(seen[w]) = Elements(events) \cap own
    BY <2>1, <2>2, <2>3 DEF StandsAt, Due
  <2> HIDE DEF own
  <2>5. /\ Wat!Among(events, own) \in Seq(Event) /\ Rising(Wat!Among(events, own))
        /\ Elements(Wat!Among(events, own)) = Elements(events) \cap own
    BY <2>1, AmongGives
  <2>6. seen[w] = Wat!Among(events, own)
    BY <2>1, <2>2, <2>4, <2>5, OneOrder
  <2> QED BY <2>6 DEF own
<1>3. Wat!Init => FeedInv
  BY FeedInit
<1>4. FeedInv /\ [Wat!Next]_Wat!vars => FeedInv'
  BY <1>1, FeedKeeps
<1> QED BY <1>2, <1>3, <1>4, FeedMoves, PTL DEF Wat!Spec
=============================================================================

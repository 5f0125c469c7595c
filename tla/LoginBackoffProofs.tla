------------------------- MODULE LoginBackoffProofs -------------------------
(***************************************************************************)
(* Proofs about LoginBackoff: the delay stays on its curve through the      *)
(* overflow of the shift, a parallel burst is bounded by the attempts in    *)
(* progress, and what is owed is not forgiven, for any number of attempts,  *)
(* addresses and failures.                                                  *)
(***************************************************************************)
EXTENDS LoginBackoff, FiniteSetTheorems, TLAPS

-----------------------------------------------------------------------------
(* The delay *)

\* The powers of two that the shift by 37 to 56 leaves room for.
LEMMA Powers == \A k \in 0..20 : 2^k \in Nat \ {0}
<1> DEFINE P(k) == 2^k \in Nat \ {0}
<1>1. P(0) /\ P(1) /\ P(2) /\ P(3) /\ P(4) /\ P(5) /\ P(6)
  OBVIOUS
<1>2. P(7) /\ P(8) /\ P(9) /\ P(10) /\ P(11) /\ P(12) /\ P(13)
  OBVIOUS
<1>3. P(14) /\ P(15) /\ P(16) /\ P(17) /\ P(18) /\ P(19) /\ P(20)
  OBVIOUS
<1>4. \A k \in 0..20 : k \in {0, 1, 2, 3, 4, 5, 6, 7, 8, 9, 10, 11, 12, 13, 14, 15,
                              16, 17, 18, 19, 20}
  OBVIOUS
<1> HIDE DEF P
<1>5. \A k \in 0..20 : P(k)
  BY <1>1, <1>2, <1>3, <1>4
<1> QED BY <1>5 DEF P

\* What is left of the base after a shift is a number.
LEMMA MantissaType == \A n \in Nat : Mantissa(n) \in Nat
<1> SUFFICES ASSUME NEW n \in Nat PROVE Mantissa(n) \in Nat
  OBVIOUS
<1>1. CASE n \in 37..56
  <2>1. 57 - n \in 0..20
    BY <1>1
  <2>2. PICK m \in Nat \ {0} : m = 2^(57 - n)
    BY <2>1, Powers
  <2>3. 1953125 % m \in Nat
    BY <2>2
  <2> QED BY <1>1, <2>2, <2>3 DEF Mantissa
<1>2. CASE n \notin 37..56
  BY <1>2 DEF Mantissa
<1> QED BY <1>1, <1>2

\* Whether it overflows or not, the shift doubles the delay up to the cap and
\* never gives less beyond: both tests of delay() together, `d > cap' and
\* `d <= 0', catch every wrapped value.
LEMMA ShiftedCurve ==
  ASSUME NEW n \in Nat
  PROVE  Shifted(n) = CASE n = 0 -> 1 [] n = 1 -> 2 [] n = 2 -> 4 [] n = 3 -> 8
                        [] OTHER -> 16
<1>1. 2^0 = 1 /\ 2^1 = 2 /\ 2^2 = 4 /\ 2^3 = 8 /\ 2^4 = 16
  OBVIOUS
<1>2. Mantissa(n) \in Nat
  BY MantissaType
<1>3. CASE n > 4
  <2>1. AboveCap(n) \/ NotPositive(n)
    BY <1>2, <1>3 DEF AboveCap, NotPositive
  <2> QED BY <1>3, <2>1 DEF Shifted, loginBackoffCap
<1>4. CASE n <= 4
  <2>1. n \in {0, 1, 2, 3, 4}
    BY <1>4
  <2>2. Mantissa(n) = 1953125 /\ ~Negative(n)
    BY <1>4 DEF Mantissa, Negative
  <2>3. ~(AboveCap(n) \/ NotPositive(n))
    BY <1>4, <2>2 DEF AboveCap, NotPositive
  <2>4. Shifted(n) = 2^n
    BY <1>4, <2>3 DEF Shifted
  <2> QED BY <1>1, <2>1, <2>4
<1> QED BY <1>3, <1>4

\* The delay for a number of failures.
Curve(f) ==
  CASE f < 3 -> 0 [] f = 3 -> 1 [] f = 4 -> 2 [] f = 5 -> 4 [] f = 6 -> 8 [] OTHER -> 16

\* delay() is the curve.
LEMMA DelayCurve ==
  ASSUME NEW f \in Nat
  PROVE  Delay(f) = Curve(f)
<1>1. CASE f < 3
  BY <1>1 DEF Delay, Curve, loginBackoffThreshold
<1>2. CASE f >= 3
  <2>1. f - 3 \in Nat /\ Delay(f) = Shifted(f - 3)
    BY <1>2 DEF Delay, loginBackoffThreshold
  <2> QED BY <1>2, <2>1, ShiftedCurve DEF Curve
<1> QED BY <1>1, <1>2

-----------------------------------------------------------------------------
(* Type correctness *)

EntryState == [failures : 1..MaxFailures, age : 0..(IdleReset + 1)]
Working == [pc : {"checking", "sleeping"}, email : Email, delay : 0..loginBackoffCap]

\* The fields of entries, and of attempts in progress.
LEMMA Fields ==
  ASSUME TypeOK
  PROVE  /\ \A e \in Email : entries[e] # None =>
              /\ entries[e] \in EntryState
              /\ entries[e].failures \in 1..MaxFailures
              /\ entries[e].age \in 0..(IdleReset + 1)
         /\ \A a \in Attempt : att[a] \in AttemptState
         /\ \A a \in Attempt : att[a].pc \in {"checking", "sleeping"} =>
              att[a] \in Working /\ att[a] # Idle /\ att[a].email \in Email
BY DEF TypeOK, EntryState, AttemptState, Working, Idle

\* What an entry makes its address owe, and whether it still counts.
Counts(entry) == entry # None /\ ~Stale(entry)
Owes(entry) == IF Counts(entry) THEN Delay(entry.failures) ELSE 0

\* What an entry makes its address owe is a delay of the curve.
LEMMA EntryOwes ==
  ASSUME NEW entry \in EntryState \cup {None}
  PROVE  /\ Owes(entry) \in 0..loginBackoffCap
         /\ Counts(entry) => Owes(entry) = Curve(entry.failures)
         /\ ~Counts(entry) => Owes(entry) = 0
<1>1. CASE Counts(entry)
  <2>1. entry.failures \in Nat
    BY <1>1, BackoffAssumption DEF Counts, EntryState
  <2>2. Owes(entry) = Curve(entry.failures)
    BY <1>1, <2>1, DelayCurve DEF Owes
  <2> QED BY <1>1, <2>1, <2>2 DEF Curve, loginBackoffCap
<1>2. CASE ~Counts(entry)
  BY <1>2 DEF Owes, loginBackoffCap
<1> QED BY <1>1, <1>2

\* What an address owes is a delay of the curve.
LEMMA OwedType ==
  ASSUME TypeOK, NEW e \in Email
  PROVE  /\ Owed(e) \in 0..loginBackoffCap
         /\ Known(e) => Owed(e) = Curve(entries[e].failures)
         /\ ~Known(e) => Owed(e) = 0
<1>1. Owed(e) = Owes(entries[e]) /\ (Known(e) <=> Counts(entries[e]))
  BY DEF Owed, Owes, Known, Counts
<1>2. entries[e] \in EntryState \cup {None}
  BY DEF TypeOK, EntryState
<1> QED BY <1>1, <1>2, EntryOwes

\* The same after a step.
LEMMA OwedTypeNext ==
  ASSUME TypeOK', NEW e \in Email
  PROVE  /\ Owed(e)' \in 0..loginBackoffCap
         /\ Known(e)' => Owed(e)' = Curve(entries'[e].failures)
<1>1. Owed(e)' = Owes(entries'[e]) /\ (Known(e)' <=> Counts(entries'[e]))
  BY DEF Owed, Owes, Known, Counts, Stale
<1>2. entries'[e] \in EntryState \cup {None}
  BY DEF TypeOK, EntryState
<1> QED BY <1>1, <1>2, EntryOwes

\* What recordFailure stores.
LEMMA RecordedType ==
  ASSUME TypeOK, NEW e \in Email, recordFailure(e).failures <= MaxFailures
  PROVE  /\ recordFailure(e) \in EntryState
         /\ recordFailure(e) # None
         /\ recordFailure(e).age = 0
         /\ recordFailure(e).failures = IF Known(e) THEN entries[e].failures + 1 ELSE 1
<1> DEFINE f == IF Known(e) THEN entries[e].failures + 1 ELSE 1
<1>1. f \in Nat \ {0}
  BY Fields, BackoffAssumption DEF Known
<1>2. recordFailure(e) = [failures |-> f, age |-> 0]
  BY DEF recordFailure
<1> HIDE DEF f
<1>3. recordFailure(e).failures = f /\ recordFailure(e).age = 0
  BY <1>2
<1>4. f \in 1..MaxFailures /\ 0 \in 0..(IdleReset + 1)
  BY <1>1, <1>3, BackoffAssumption
<1>5. recordFailure(e) \in EntryState /\ recordFailure(e) \in [failures : Nat, age : Nat]
  BY <1>1, <1>2, <1>4 DEF EntryState
<1> QED BY <1>3, <1>5, BackoffAssumption DEF f

\* A tick ages an entry.
LEMMA AgedType ==
  ASSUME TypeOK, NEW e \in Email, Known(e)
  PROVE  LET aged == [entries[e] EXCEPT !.age = @ + 1]
         IN  /\ aged \in EntryState /\ aged # None
             /\ aged.failures = entries[e].failures
             /\ aged.age = entries[e].age + 1
<1>1. entries[e] \in EntryState /\ entries[e].age \in 0..IdleReset
  BY Fields, BackoffAssumption DEF Known, Stale
<1> DEFINE aged == [entries[e] EXCEPT !.age = @ + 1]
<1>2. aged \in EntryState /\ aged.failures = entries[e].failures
      /\ aged.age = entries[e].age + 1
  BY <1>1, BackoffAssumption DEF EntryState
<1>3. aged \in [failures : Nat, age : Nat]
  BY <1>2, BackoffAssumption DEF EntryState
<1> QED BY <1>2, <1>3, BackoffAssumption

\* Every step keeps every type.
LEMMA TypeStep == TypeOK /\ [Next]_vars => TypeOK'
<1> SUFFICES ASSUME TypeOK, [Next]_vars PROVE TypeOK'
  OBVIOUS
<1> USE BackoffAssumption
<1>0. /\ entries \in [Email -> EntryState \cup {None}]
      /\ att \in [Attempt -> AttemptState] /\ free \in [Email -> Nat]
      /\ Working \subseteq AttemptState /\ Idle \in AttemptState
  BY DEF TypeOK, EntryState, AttemptState, Working
<1>1. ASSUME entries' \in [Email -> EntryState \cup {None}],
             att' \in [Attempt -> AttemptState], free' \in [Email -> Nat]
      PROVE  TypeOK'
  BY <1>1 DEF TypeOK, EntryState
<1>2. ASSUME NEW a \in Attempt, NEW e \in Email, Begin(a, e) PROVE TypeOK'
  <2> DEFINE w == [pc |-> "checking", email |-> e, delay |-> Owed(e)]
  <2>1. w \in Working
    BY OwedType DEF Working
  <2>2. att' = [att EXCEPT ![a] = w]
    BY <1>2 DEF Begin
  <2> HIDE DEF w
  <2>3. att' \in [Attempt -> AttemptState]
    BY <1>0, <2>1, <2>2
  <2>4. entries' \in [Email -> EntryState \cup {None}] /\ free' \in [Email -> Nat]
    BY <1>0, <1>2 DEF Begin
  <2> QED BY <1>1, <2>3, <2>4
<1>3. ASSUME NEW a \in Attempt, Sleep(a), att[a].pc = "checking"
      PROVE  att' \in [Attempt -> AttemptState]
  <2>1. att[a] \in Working
    BY <1>3, Fields
  <2>2. [att[a] EXCEPT !.pc = "sleeping"] \in Working
    BY <2>1 DEF Working
  <2>3. att' = [att EXCEPT ![a] = [att[a] EXCEPT !.pc = "sleeping"]]
    BY <1>0, <1>3 DEF Sleep
  <2> QED BY <1>0, <2>2, <2>3
<1>4. ASSUME NEW a \in Attempt, Reject(a) PROVE TypeOK'
  <2> DEFINE e == att[a].email
  <2>1. e \in Email
    BY <1>4, Fields DEF Reject
  <2>2. recordFailure(e) \in EntryState
    BY <1>4, <2>1, RecordedType DEF Reject
  <2>3. entries' = [entries EXCEPT ![e] = recordFailure(e)]
        /\ free' = [free EXCEPT ![e] = (IF Known(e) THEN @ ELSE 0)
                                         + (IF att[a].delay = 0 THEN 1 ELSE 0)]
    BY <1>4 DEF Reject
  <2>4. att' \in [Attempt -> AttemptState]
    BY <1>3, <1>4 DEF Reject
  <2> HIDE DEF e
  <2> QED BY <1>0, <1>1, <2>1, <2>2, <2>3, <2>4
<1>5. ASSUME NEW a \in Attempt, Accept(a) PROVE TypeOK'
  <2>1. att' \in [Attempt -> AttemptState]
    BY <1>3, <1>5 DEF Accept
  <2> QED BY <1>0, <1>1, <1>5, <2>1 DEF Accept
<1>6. ASSUME NEW a \in Attempt, RepositoryFails(a) \/ Respond(a) PROVE TypeOK'
  BY <1>0, <1>1, <1>6 DEF RepositoryFails, Respond
<1>7. CASE sweep
  BY <1>0, <1>1, <1>7 DEF sweep
<1>8. CASE Tick
  <2>1. \A e \in Email : entries'[e] \in EntryState \cup {None}
    BY <1>0, <1>8, AgedType DEF Tick, Known
  <2>2. entries' \in [Email -> EntryState \cup {None}]
    BY <1>8, <2>1 DEF Tick
  <2> QED BY <1>0, <1>1, <1>8, <2>2 DEF Tick
<1>9. CASE UNCHANGED vars
  BY <1>0, <1>1, <1>9 DEF vars
<1> QED BY <1>2, <1>4, <1>5, <1>6, <1>7, <1>8, <1>9 DEF Next

\* Every variable keeps its type.
THEOREM TypeCorrect == Spec => []TypeOK
<1>1. Init => TypeOK
  BY DEF Init, TypeOK, AttemptState
<1> QED BY <1>1, TypeStep, PTL DEF Spec

\* For any number of counted failures, and so through every overflow of the
\* 64-bit shift, delay() answers what its comment's table says.
THEOREM DelayKeepsItsCurve == Spec => []CurveKept
<1>1. TypeOK => CurveKept
  BY OwedType DEF CurveKept, Curve
<1> QED BY <1>1, TypeCorrect, PTL

-----------------------------------------------------------------------------
(* What is owed is not forgiven *)

Falls(e) ==
  Owed(e)' < Owed(e) =>
    \/ \E a \in Attempt : att[a] # Idle /\ att[a].email = e /\ Accept(a)
    \/ entries[e].age = IdleReset /\ Tick

\* An address whose entry does not change owes the same.
LEMMA SameEntry ==
  ASSUME TypeOK, TypeOK', NEW e \in Email, entries'[e] = entries[e]
  PROVE  Falls(e)
<1>1. Owed(e)' = Owed(e)
  BY DEF Owed, Stale
<1>2. Owed(e) \in Nat
  BY OwedType DEF loginBackoffCap
<1> QED BY <1>1, <1>2 DEF Falls

\* An address that owes nothing cannot owe less.
LEMMA NothingOwed ==
  ASSUME TypeOK, TypeOK', NEW e \in Email, ~Known(e)
  PROVE  Falls(e)
<1>1. Owed(e) = 0
  BY OwedType
<1>2. Owed(e)' \in 0..loginBackoffCap
  BY OwedTypeNext
<1> QED BY <1>1, <1>2 DEF Falls, loginBackoffCap

\* What an address that stays known owes follows its failures.
LEMMA KnownOwes ==
  ASSUME TypeOK, TypeOK', NEW e \in Email, Known(e), Known(e)',
         entries'[e].failures >= entries[e].failures
  PROVE  Falls(e)
<1>1. Owed(e) = Curve(entries[e].failures)
  BY OwedType
<1>2. Owed(e)' = Curve(entries'[e].failures)
  BY OwedTypeNext
<1>3. entries[e].failures \in Nat /\ entries'[e].failures \in Nat
  <2>1. entries[e].failures \in Nat
    BY Fields, BackoffAssumption DEF Known
  <2>2. entries'[e].failures \in Nat
    BY BackoffAssumption DEF Known, TypeOK
  <2> QED BY <2>1, <2>2
<1>4. \A m, n \in Nat : m >= n => Curve(m) >= Curve(n)
  BY DEF Curve
<1>5. Curve(entries[e].failures) \in Nat /\ Curve(entries'[e].failures) \in Nat
  BY <1>3 DEF Curve
<1>6. ~(Owed(e)' < Owed(e))
  BY <1>1, <1>2, <1>3, <1>4, <1>5
<1> QED BY <1>6 DEF Falls

\* No step but a right password or the end of IdleReset lowers what is owed.
LEMMA FallsStep ==
  ASSUME TypeOK, TypeOK', Next, NEW e \in Email
  PROVE  Falls(e)
<1>0. entries \in [Email -> EntryState \cup {None}]
  BY DEF TypeOK, EntryState
<1>1. ASSUME NEW a \in Attempt, NEW x \in Email, Begin(a, x) PROVE Falls(e)
  <2>1. CASE Known(e) \/ e # x
    <3>1. entries'[e] = entries[e]
      BY <1>0, <1>1, <2>1 DEF Begin
    <3> QED BY <3>1, SameEntry
  <2> QED BY <2>1, NothingOwed
<1>2. ASSUME NEW a \in Attempt, Reject(a) PROVE Falls(e)
  <2>1. att[a].email \in Email
    BY <1>2, Fields DEF Reject
  <2>2. CASE e # att[a].email
    <3>1. entries'[e] = entries[e]
      BY <1>0, <1>2, <2>1, <2>2 DEF Reject
    <3> QED BY <3>1, SameEntry
  <2>3. CASE e = att[a].email /\ Known(e)
    <3>1. entries'[e] = recordFailure(e) /\ recordFailure(e).failures <= MaxFailures
      BY <1>0, <1>2, <2>3 DEF Reject
    <3>2. entries'[e] # None /\ entries'[e].age = 0
          /\ entries'[e].failures = entries[e].failures + 1
      BY <2>3, <3>1, RecordedType
    <3>3. Known(e)'
      BY <3>2, BackoffAssumption DEF Known, Stale
    <3>4. entries'[e].failures >= entries[e].failures
      BY <2>3, <3>2, Fields DEF Known
    <3> QED BY <2>3, <3>3, <3>4, KnownOwes
  <2> QED BY <2>2, <2>3, NothingOwed
<1>3. ASSUME NEW a \in Attempt, Accept(a) PROVE Falls(e)
  <2>1. att[a] # Idle
    BY <1>3, Fields DEF Accept
  <2>2. CASE e = att[a].email
    BY <1>3, <2>1, <2>2 DEF Falls
  <2>3. CASE e # att[a].email
    <3>1. entries'[e] = entries[e]
      BY <1>0, <1>3, <2>3 DEF Accept
    <3> QED BY <3>1, SameEntry
  <2> QED BY <2>2, <2>3
<1>4. ASSUME NEW a \in Attempt, RepositoryFails(a) \/ Respond(a) PROVE Falls(e)
  <2>1. entries'[e] = entries[e]
    BY <1>4 DEF RepositoryFails, Respond
  <2> QED BY <2>1, SameEntry
<1>5. CASE sweep
  <2>1. CASE Known(e)
    <3>1. entries'[e] = entries[e]
      BY <1>5, <2>1 DEF sweep, Swept, Known
    <3> QED BY <3>1, SameEntry
  <2> QED BY <2>1, NothingOwed
<1>6. CASE Tick
  <2>1. CASE Known(e) /\ entries[e].age # IdleReset
    <3>1. entries'[e] = [entries[e] EXCEPT !.age = @ + 1]
      BY <1>6, <2>1 DEF Tick, Known
    <3>2. entries'[e] # None /\ entries'[e].failures = entries[e].failures
          /\ entries'[e].age = entries[e].age + 1
      BY <2>1, <3>1, AgedType
    <3>3. entries[e].age \in 0..IdleReset /\ entries[e].failures \in Nat
      BY <2>1, Fields, BackoffAssumption DEF Known, Stale
    <3>4. Known(e)' /\ entries'[e].failures >= entries[e].failures
      BY <2>1, <3>2, <3>3, BackoffAssumption DEF Known, Stale
    <3> QED BY <2>1, <3>4, KnownOwes
  <2>2. CASE Known(e) /\ entries[e].age = IdleReset
    BY <1>6, <2>2 DEF Falls
  <2> QED BY <2>1, <2>2, NothingOwed
<1> QED BY <1>1, <1>2, <1>3, <1>4, <1>5, <1>6 DEF Next

\* recordFailure never lowers the delay and sweep never forgets an entry that
\* still counts, however attempts, sweeps and ticks interleave.
THEOREM OwedIsKept == Spec => OwedFalls
<1>1. TypeOK /\ TypeOK' /\ [Next]_vars => [\A e \in Email : Falls(e)]_vars
  BY FallsStep
<1>2. (\A e \in Email : Falls(e)) <=>
      (\A e \in Email : Owed(e)' < Owed(e) =>
         \/ \E a \in Attempt : att[a] # Idle /\ att[a].email = e /\ Accept(a)
         \/ entries[e].age = IdleReset /\ Tick)
  BY DEF Falls
<1> QED BY <1>1, <1>2, TypeCorrect, PTL DEF Spec, OwedFalls

-----------------------------------------------------------------------------
(* A burst *)

\* Attempts against e that read no delay and have not been recorded.
Pending(e) ==
  {a \in Attempt : att[a].pc = "checking" /\ att[a].email = e /\ att[a].delay = 0}

\* Pending attempts are some of the attempts.
LEMMA PendingFinite ==
  ASSUME NEW e \in Email
  PROVE  /\ IsFiniteSet(Pending(e)) /\ Cardinality(Pending(e)) \in Nat
         /\ Cardinality(Attempt) \in Nat
         /\ Cardinality(Pending(e)) <= Cardinality(Attempt)
<1>1. Pending(e) \in SUBSET Attempt
  BY DEF Pending
<1> QED BY <1>1, FS_Subset, FS_CardinalityType, BackoffAssumption

\* The same after a step.
LEMMA PendingFiniteNext ==
  ASSUME NEW e \in Email
  PROVE  /\ IsFiniteSet(Pending(e)') /\ Cardinality(Pending(e)') \in Nat
         /\ Cardinality(Pending(e)') <= Cardinality(Attempt)
<1>1. Pending(e)' \in SUBSET Attempt
  BY DEF Pending
<1> QED BY <1>1, FS_Subset, FS_CardinalityType, BackoffAssumption

\* A set of attempts that shrinks has fewer members.
LEMMA FewerPending ==
  ASSUME NEW e \in Email, Pending(e)' \subseteq Pending(e)
  PROVE  /\ Cardinality(Pending(e)') <= Cardinality(Pending(e))
         /\ \A a \in Pending(e) \ Pending(e)' :
              Cardinality(Pending(e)') + 1 <= Cardinality(Pending(e))
<1>1. Cardinality(Pending(e)') <= Cardinality(Pending(e))
  BY PendingFinite, FS_Subset
<1>2. ASSUME NEW a \in Pending(e) \ Pending(e)'
      PROVE  Cardinality(Pending(e)') # Cardinality(Pending(e))
  BY <1>2, PendingFinite, FS_Subset
<1> QED BY <1>1, <1>2, PendingFinite, PendingFiniteNext

\* One address: below the threshold every free guess is a counted failure; at
\* any time those taken and those still to come are within the bound.
BurstAt(e) ==
  /\ entries[e] = None => free[e] = 0
  /\ Known(e) /\ entries[e].failures < loginBackoffThreshold
       => free[e] <= entries[e].failures
  /\ free[e] + Cardinality(Pending(e)) <= loginBackoffThreshold + Cardinality(Attempt) - 1

\* An address that a step does not touch, but perhaps ends attempts against.
LEMMA BurstUntouched ==
  ASSUME TypeOK, TypeOK', NEW e \in Email, BurstAt(e),
         entries'[e] = entries[e], free'[e] = free[e], Pending(e)' \subseteq Pending(e)
  PROVE  BurstAt(e)'
<1>1. Cardinality(Pending(e)') <= Cardinality(Pending(e))
  BY FewerPending
<1>2. free[e] + Cardinality(Pending(e)')
        <= loginBackoffThreshold + Cardinality(Attempt) - 1
  <2>1. free[e] \in Nat
    BY DEF TypeOK
  <2> QED BY <1>1, <2>1, PendingFinite, PendingFiniteNext DEF BurstAt, loginBackoffThreshold
<1> QED BY <1>2 DEF BurstAt, Known, Stale

\* An address whose count is forgotten.
LEMMA BurstReset ==
  ASSUME NEW e \in Email, entries'[e] = None, free'[e] = 0
  PROVE  BurstAt(e)'
BY PendingFinite, PendingFiniteNext DEF BurstAt, Known, loginBackoffThreshold

\* What the steps of an attempt do to the attempts that are pending.
LEMMA PendingMoves ==
  ASSUME TypeOK, NEW a \in Attempt, NEW e \in Email
  PROVE  /\ att[a].pc = "checking" /\ Sleep(a) =>
              /\ Pending(e)' \subseteq Pending(e) /\ a \notin Pending(e)'
              /\ e = att[a].email /\ att[a].delay = 0 => a \in Pending(e)
         /\ att' = [att EXCEPT ![a] = Idle] => Pending(e)' \subseteq Pending(e)
<1>0. att \in [Attempt -> AttemptState]
  BY DEF TypeOK
<1>1. ASSUME att[a].pc = "checking", Sleep(a)
      PROVE  /\ Pending(e)' \subseteq Pending(e) /\ a \notin Pending(e)'
             /\ e = att[a].email /\ att[a].delay = 0 => a \in Pending(e)
  <2>1. att[a] \in Working
    BY <1>1, Fields
  <2>2. att'[a].pc = "sleeping" /\ \A b \in Attempt \ {a} : att'[b] = att[b]
    BY <1>0, <1>1, <2>1 DEF Sleep, Working
  <2> QED BY <1>1, <2>2 DEF Pending
<1>2. ASSUME att' = [att EXCEPT ![a] = Idle] PROVE Pending(e)' \subseteq Pending(e)
  <2>1. att'[a].pc = "idle" /\ \A b \in Attempt \ {a} : att'[b] = att[b]
    BY <1>0, <1>2 DEF Idle
  <2> QED BY <2>1 DEF Pending
<1> QED BY <1>1, <1>2

\* A new attempt: it pays nothing only below the threshold.
LEMMA BurstBegin ==
  ASSUME TypeOK, TypeOK', NEW e \in Email, BurstAt(e),
         NEW a \in Attempt, NEW x \in Email, Begin(a, x)
  PROVE  BurstAt(e)'
<1>0. /\ entries \in [Email -> EntryState \cup {None}] /\ free \in [Email -> Nat]
      /\ att \in [Attempt -> AttemptState]
  BY DEF TypeOK, EntryState
<1>1. /\ att'[a].pc = "checking" /\ att'[a].email = x /\ att'[a].delay = Owed(x)
      /\ \A b \in Attempt \ {a} : att'[b] = att[b]
  BY <1>0 DEF Begin
<1>2. CASE e # x
  <2>1. Pending(e)' \subseteq Pending(e)
    BY <1>1, <1>2 DEF Pending
  <2> QED BY <1>0, <1>2, <2>1, BurstUntouched DEF Begin
<1>3. CASE e = x /\ ~Known(e)
  BY <1>0, <1>3, BurstReset DEF Begin
<1>4. CASE e = x /\ Known(e)
  <2>1. entries'[e] = entries[e] /\ free'[e] = free[e]
    BY <1>0, <1>4 DEF Begin
  <2>2. entries[e].failures \in Nat
    BY <1>4, Fields, BackoffAssumption DEF Known
  <2>3. CASE entries[e].failures < loginBackoffThreshold
    <3>1. free[e] \in Nat /\ free[e] <= 2
      BY <1>0, <1>4, <2>2, <2>3 DEF BurstAt, loginBackoffThreshold
    <3>2. free[e] + Cardinality(Pending(e)')
            <= loginBackoffThreshold + Cardinality(Attempt) - 1
      BY <3>1, PendingFinite, PendingFiniteNext DEF loginBackoffThreshold
    <3> QED BY <2>1, <3>2 DEF BurstAt, Known, Stale
  <2>4. CASE ~(entries[e].failures < loginBackoffThreshold)
    <3>1. Owed(e) # 0
      BY <1>4, <2>2, <2>4, OwedType DEF Curve, loginBackoffThreshold
    <3>2. Pending(e)' \subseteq Pending(e)
      BY <1>1, <1>4, <3>1 DEF Pending
    <3> QED BY <2>1, <3>2, BurstUntouched
  <2> QED BY <2>3, <2>4
<1> QED BY <1>2, <1>3, <1>4

\* A failure: a free guess is taken from the pending ones.
LEMMA BurstReject ==
  ASSUME TypeOK, TypeOK', NEW e \in Email, BurstAt(e), NEW a \in Attempt, Reject(a)
  PROVE  BurstAt(e)'
<1>0. /\ entries \in [Email -> EntryState \cup {None}] /\ free \in [Email -> Nat]
      /\ att[a].pc = "checking" /\ Sleep(a) /\ att[a].email \in Email
  BY Fields DEF TypeOK, EntryState, Reject
<1>1. /\ Pending(e)' \subseteq Pending(e) /\ a \notin Pending(e)'
      /\ e = att[a].email /\ att[a].delay = 0 => a \in Pending(e)
  BY <1>0, PendingMoves
<1>2. CASE e # att[a].email
  BY <1>0, <1>1, <1>2, BurstUntouched DEF Reject
<1>3. CASE e = att[a].email
  <2> DEFINE d == IF att[a].delay = 0 THEN 1 ELSE 0
             old == IF Known(e) THEN free[e] ELSE 0
             f == IF Known(e) THEN entries[e].failures + 1 ELSE 1
  <2>1. free'[e] = old + d /\ entries'[e] = recordFailure(e)
        /\ recordFailure(e).failures <= MaxFailures
    BY <1>0, <1>3 DEF Reject
  <2>2. entries'[e] # None /\ entries'[e].failures = f
    BY <2>1, RecordedType
  <2>3. d \in {0, 1} /\ old \in Nat /\ old <= free[e] /\ f \in Nat
    <3>1. Known(e) => entries[e].failures \in Nat
      BY Fields, BackoffAssumption DEF Known
    <3> QED BY <1>0, <3>1
  <2>4. Cardinality(Pending(e)') + d <= Cardinality(Pending(e))
    <3>1. CASE att[a].delay = 0
      <4>1. a \in Pending(e) \ Pending(e)'
        BY <1>1, <1>3, <3>1
      <4> QED BY <1>1, <3>1, <4>1, FewerPending
    <3>2. CASE att[a].delay # 0
      BY <1>1, <3>2, FewerPending, PendingFinite, PendingFiniteNext
    <3> QED BY <3>1, <3>2
  <2>5. f < loginBackoffThreshold => old + d <= f
    <3>1. CASE Known(e)
      <4>1. entries[e].failures \in Nat
        BY <3>1, Fields, BackoffAssumption DEF Known
      <4> QED BY <1>0, <2>3, <3>1, <4>1 DEF BurstAt, loginBackoffThreshold
    <3>2. CASE ~Known(e)
      BY <3>2
    <3> QED BY <3>1, <3>2
  <2> HIDE DEF d, old, f
  <2>6. free[e] \in Nat
    BY <1>0
  <2>7. free'[e] + Cardinality(Pending(e)')
          <= loginBackoffThreshold + Cardinality(Attempt) - 1
    BY <2>1, <2>3, <2>4, <2>6, PendingFinite, PendingFiniteNext
       DEF BurstAt, loginBackoffThreshold
  <2> QED BY <2>1, <2>2, <2>5, <2>7 DEF BurstAt
<1> QED BY <1>2, <1>3

\* Every step keeps the bound of a burst.
LEMMA BurstStep ==
  ASSUME TypeOK, TypeOK', [Next]_vars, NEW e \in Email, BurstAt(e)
  PROVE  BurstAt(e)'
<1>0. entries \in [Email -> EntryState \cup {None}] /\ free \in [Email -> Nat]
  BY DEF TypeOK, EntryState
<1>1. ASSUME NEW a \in Attempt, Accept(a) PROVE BurstAt(e)'
  <2>1. Pending(e)' \subseteq Pending(e)
    BY <1>1, PendingMoves DEF Accept
  <2>2. CASE e = att[a].email
    BY <1>0, <1>1, <2>2, BurstReset DEF Accept
  <2>3. CASE e # att[a].email
    BY <1>0, <1>1, <2>1, <2>3, BurstUntouched DEF Accept
  <2> QED BY <2>2, <2>3
<1>2. ASSUME NEW a \in Attempt, RepositoryFails(a) \/ Respond(a) PROVE BurstAt(e)'
  <2>1. Pending(e)' \subseteq Pending(e)
    BY <1>2, PendingMoves DEF RepositoryFails, Respond
  <2> QED BY <1>2, <2>1, BurstUntouched DEF RepositoryFails, Respond
<1>3. CASE sweep
  <2>1. Pending(e)' = Pending(e)
    BY <1>3 DEF sweep, Pending
  <2>2. CASE Swept(e)
    BY <1>3, <2>2, BurstReset DEF sweep
  <2>3. CASE ~Swept(e)
    BY <1>3, <2>1, <2>3, BurstUntouched DEF sweep
  <2> QED BY <2>2, <2>3
<1>4. CASE Tick
  <2>1. Pending(e)' = Pending(e) /\ free'[e] = free[e]
    BY <1>4 DEF Tick, Pending
  <2>2. CASE Known(e)
    <3>1. entries'[e] # None /\ entries'[e].failures = entries[e].failures
      BY <1>4, <2>2, AgedType DEF Tick, Known
    <3> QED BY <2>1, <2>2, <3>1 DEF BurstAt
  <2>3. CASE ~Known(e)
    <3>1. entries'[e] = entries[e]
      BY <1>4, <2>3 DEF Tick, Known
    <3> QED BY <2>1, <3>1, BurstUntouched
  <2> QED BY <2>2, <2>3
<1>5. CASE UNCHANGED vars
  <2>1. Pending(e)' = Pending(e) /\ free'[e] = free[e] /\ entries'[e] = entries[e]
    BY <1>5 DEF vars, Pending
  <2> QED BY <2>1, BurstUntouched
<1> QED BY <1>1, <1>2, <1>3, <1>4, <1>5, BurstBegin, BurstReject DEF Next

\* However many attempts run in parallel, read the delay together and are
\* recorded in any order, an address takes no more guesses for free than the
\* tolerated failures and one per attempt in progress.
THEOREM BurstsAreBounded == Spec => []BurstBound
<1> DEFINE Inv == \A e \in Email : BurstAt(e)
<1>1. Init => Inv
  <2> SUFFICES ASSUME Init, NEW e \in Email PROVE BurstAt(e)
    OBVIOUS
  <2>1. entries[e] = None /\ free[e] = 0
    BY DEF Init
  <2> QED BY <2>1, PendingFinite DEF BurstAt, Known, loginBackoffThreshold
<1>2. Inv /\ TypeOK /\ TypeOK' /\ [Next]_vars => Inv'
  BY BurstStep
<1>3. Inv /\ TypeOK => BurstBound
  <2> SUFFICES ASSUME Inv, TypeOK, NEW e \in Email
               PROVE  free[e] <= loginBackoffThreshold + Cardinality(Attempt) - 1
    BY DEF BurstBound
  <2>1. free[e] \in Nat /\ BurstAt(e)
    BY DEF TypeOK
  <2> QED BY <2>1, PendingFinite DEF BurstAt, loginBackoffThreshold
<1> HIDE DEF Inv
<1> QED BY <1>1, <1>2, <1>3, TypeCorrect, PTL DEF Spec
=============================================================================

------------------------- MODULE RetryBackoff_proofs -------------------------
(***************************************************************************)
(* Type correctness of the sync manager's retry schedule for every limit  *)
(* and every length of a failure run: each wait a failure asks for is one *)
(* of 5m, 10m, 20m, 40m and 1h.  TypeOK is inductive; what it rests on is *)
(* the range of calculateRetryInterval, whose exponent is capped at 4.    *)
(***************************************************************************)
EXTENDS RetryBackoff, FiniteSetTheorems, TLAPS

Waits == {5, 10, 20, 40, 60}

(* calculateRetryInterval asks for one of the five waits for every         *)
(* syncAttempts value: the exponent min(n - 1, 4) ranges over 0..4 and the *)
(* one-hour cap only ever lowers 80 to 60.                                 *)
LEMMA IntervalRange ==
    ASSUME NEW n \in Nat
    PROVE  calculateRetryInterval(n) \in Waits
<1>1. CASE n <= 0
  BY <1>1 DEF calculateRetryInterval, Waits
<1>2. CASE n > 0
  <2>. DEFINE k == MinOf(n - 1, 4)
  <2>1. k \in 0..4
    BY <1>2 DEF MinOf
  <2>2. 2^0 = 1 /\ 2^1 = 2 /\ 2^2 = 4 /\ 2^3 = 8 /\ 2^4 = 16
    OBVIOUS
  <2>3. k = 0 \/ k = 1 \/ k = 2 \/ k = 3 \/ k = 4
    BY <2>1
  <2>4. 2^k \in {1, 2, 4, 8, 16}
    <3>1. CASE k = 0  BY <2>2, <3>1, Zenon
    <3>2. CASE k = 1  BY <2>2, <3>2, Zenon
    <3>3. CASE k = 2  BY <2>2, <3>3, Zenon
    <3>4. CASE k = 3  BY <2>2, <3>4, Zenon
    <3>5. CASE k = 4  BY <2>2, <3>5, Zenon
    <3>. QED  BY <2>3, <3>1, <3>2, <3>3, <3>4, <3>5
  <2>5. 5 * 2^k \in {5, 10, 20, 40, 80}
    BY <2>4
  <2>. QED  BY <1>2, <2>5 DEF calculateRetryInterval, MinOf, Waits
<1>. QED  BY <1>1, <1>2

(* The give-up fallback of reconcileSync is a wait of the schedule.        *)
LEMMA FallbackRange == GiveUpFallback \in Waits
BY DEF GiveUpFallback, Waits

(* The initial state is well typed. *)
LEMMA InitTypeOK == Init => TypeOK
BY DEF Init, TypeOK

(* A failure appends a record of its kind with a wait of the schedule.     *)
LEMMA NextTypeOK == TypeOK /\ [Next]_vars => TypeOK'
<1> SUFFICES ASSUME TypeOK, [Next]_vars PROVE TypeOK'
  OBVIOUS
<1>. USE DEF TypeOK
<1>1. ASSUME NEW e \in Entry, e.wait \in Waits,
             streak' = Append(streak, e)
      PROVE  /\ streak' \in Seq(Entry)
             /\ \A i \in 1..Len(streak') : streak'[i].wait \in {5, 10, 20, 40, 60}
  BY <1>1 DEF Waits
<1>2. CASE ProcessFailure
  <2>. DEFINE interim == attempts + 1
              giveUp  == interim >= MaxHandlerCreationRetries
              e == [kind |-> "process", giveUp |-> giveUp,
                    attempts |-> interim + 1,
                    wait |-> IF giveUp THEN GiveUpFallback ELSE 60]
  <2>1. e \in Entry /\ e.wait \in Waits
    BY FallbackRange DEF Entry, Kinds, Waits
  <2>2. attempts' \in Nat /\ streak' = Append(streak, e)
    BY <1>2 DEF ProcessFailure
  <2>. QED  BY <2>1, <2>2, <1>1
<1>3. CASE StoreFailure
  <2>. DEFINE giveUp == attempts >= MaxSyncAttempts
              e == [kind |-> "store", giveUp |-> giveUp,
                    attempts |-> attempts + 1,
                    wait |-> IF giveUp THEN GiveUpFallback
                                       ELSE calculateRetryInterval(attempts)]
  <2>1. e.wait \in Waits
    BY IntervalRange, FallbackRange
  <2>2. e \in Entry
    BY <2>1 DEF Entry, Kinds, Waits
  <2>3. attempts' \in Nat /\ streak' = Append(streak, e)
    BY <1>3 DEF StoreFailure
  <2>. QED  BY <2>1, <2>2, <2>3, <1>1
<1>4. CASE Success
  BY <1>4 DEF Success
<1>5. CASE UNCHANGED vars
  BY <1>5 DEF vars
<1>. QED  BY <1>2, <1>3, <1>4, <1>5 DEF Next

(* For every attempt limit and every length of a failure run, the retry    *)
(* schedule of PerformSync and reconcileSync only ever asks for 5m, 10m,   *)
(* 20m, 40m or 1h, and syncAttempts stays a natural.                       *)
THEOREM BackoffTypeCorrect == Spec => []TypeOK
BY InitTypeOK, NextTypeOK, PTL DEF Spec

-----------------------------------------------------------------------------
(* From the fifth exponent on, a power of two is at least 16.  Counted as  *)
(* subsets: 2^m subsets of 1..m include the 2^4 = 16 subsets of 1..4.     *)
LEMMA PowerOfTwoAtLeast16 ==
    ASSUME NEW m \in Nat, m >= 4
    PROVE  2^m \in Nat /\ 2^m >= 16
<1>1. IsFiniteSet(1..m) /\ Cardinality(1..m) = m
  BY FS_Interval
<1>2. IsFiniteSet(1..4) /\ Cardinality(1..4) = 4
  <2>1. 1 \in Int /\ 4 \in Int
    OBVIOUS
  <2>2. IsFiniteSet(1..4) /\ Cardinality(1..4) = IF 1 > 4 THEN 0 ELSE 4 - 1 + 1
    BY <2>1, FS_Interval, Zenon
  <2>. QED  BY <2>2
<1>3. IsFiniteSet(SUBSET (1..m)) /\ Cardinality(SUBSET (1..m)) = 2^m
  BY <1>1, FS_SUBSET
<1>4. Cardinality(SUBSET (1..4)) = 2^4
  BY <1>2, FS_SUBSET
<1>5. SUBSET (1..4) \in SUBSET SUBSET (1..m)
  OBVIOUS
<1>6. Cardinality(SUBSET (1..4)) <= Cardinality(SUBSET (1..m))
  BY <1>3, <1>5, FS_Subset
<1>7. Cardinality(SUBSET (1..m)) \in Nat
  BY <1>3, FS_CardinalityType
<1>8. 2^4 = 16
  OBVIOUS
<1>. QED  BY <1>3, <1>4, <1>6, <1>7, <1>8

(* calculateRetryInterval is the formula of spec section 4.5.2 for every   *)
(* syncAttempts value: up to the fifth attempt the exponent cap is not     *)
(* reached and the two expressions coincide; beyond it the spec's own      *)
(* term is at least 80 minutes and both give the one-hour cap.             *)
LEMMA IntervalFormula ==
    ASSUME NEW n \in Nat
    PROVE  calculateRetryInterval(n) = SpecRetryInterval(n)
<1>1. CASE n = 0
  BY <1>1 DEF calculateRetryInterval, SpecRetryInterval
<1>2. CASE n \in 1..5
  <2>1. MinOf(n - 1, 4) = n - 1
    BY <1>2 DEF MinOf
  <2>. QED  BY <1>2, <2>1 DEF calculateRetryInterval, SpecRetryInterval
<1>3. CASE n > 5
  <2>1. 2^(n - 1) \in Nat /\ 2^(n - 1) >= 16
    BY <1>3, PowerOfTwoAtLeast16
  <2>2. MinOf(n - 1, 4) = 4 /\ 2^4 = 16
    BY <1>3 DEF MinOf
  <2>3. MinOf(5 * 2^(n - 1), 60) = 60
    BY <2>1 DEF MinOf
  <2>4. calculateRetryInterval(n) = 60
    BY <1>3, <2>2 DEF calculateRetryInterval, MinOf
  <2>. QED  BY <1>3, <2>3, <2>4 DEF SpecRetryInterval
<1>. QED  BY <1>1, <1>2, <1>3

(* For every attempt limit, the interval calculateRetryInterval gives for  *)
(* any syncAttempts value PerformSync has reached is the spec's            *)
(* min(5m * 2^(attempts-1), 1h).                                           *)
THEOREM IntervalMatchesSpecFormulaHolds == Spec => []IntervalMatchesSpecFormula
<1>1. TypeOK => IntervalMatchesSpecFormula
  BY IntervalFormula DEF TypeOK, IntervalMatchesSpecFormula
<1>. QED  BY <1>1, BackoffTypeCorrect, PTL

=============================================================================

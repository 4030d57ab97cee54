-------------------------- MODULE OtpLockoutProofs --------------------------
(***************************************************************************)
(* Proofs about OtpLockout, for every set of concurrent validations, every *)
(* limit and every window.  OvershootBounded is inductive together with    *)
(* the types, because a validation that leaves the set of the admitted     *)
(* pays for the failure it counts.                                         *)
(***************************************************************************)
EXTENDS OtpLockout, FiniteSetTheorems, TLAPS

LEMMA AdmittedFinite ==
    ASSUME NEW S \in SUBSET Validator
    PROVE  /\ IsFiniteSet(S)
           /\ Cardinality(S) \in Nat
           /\ Cardinality(S) <= N
           /\ N \in Nat
BY LockoutAssumption, FS_Subset, FS_CardinalityType DEF N

\* One validation fewer is admitted, by one.
LEMMA AdmittedLess ==
    ASSUME NEW S \in SUBSET Validator, NEW v \in S
    PROVE  Cardinality(S \ {v}) = Cardinality(S) - 1
BY AdmittedFinite, FS_RemoveElement

LEMMA TypeInit == Init => TypeOK
BY LockoutAssumption DEF Init, TypeOK

LEMMA TypeStep == TypeOK /\ [Next]_vars => TypeOK'
<1> SUFFICES ASSUME TypeOK, [Next]_vars PROVE TypeOK'
  OBVIOUS
<1> USE LockoutAssumption DEF TypeOK
<1>1. ASSUME NEW v \in Validator, NEW k \in Key, Check(v, k) PROVE TypeOK'
  BY <1>1 DEF Check, Goto
<1>2. ASSUME NEW v \in Validator, Lookup(v) PROVE TypeOK'
  BY <1>2 DEF Lookup, Goto
<1>3. ASSUME NEW v \in Validator, Fail(v) PROVE TypeOK'
  <2> DEFINE k == key[v]
  <2>a. k \in Key /\ now \in Nat
    OBVIOUS
  <2>b. OneMore(k) \in Entry
    BY <2>a DEF OneMore, Entry
  <2>c. failed' = [failed EXCEPT ![k] = OneMore(k)]
    BY <1>3 DEF Fail
  <2> HIDE DEF k
  <2>1. failed' \in [Key -> Entry \cup {NoEntry}]
    BY <2>a, <2>b, <2>c
  <2>2. pc' \in [Validator -> {"idle", "lookup", "wrong", "right"}]
    BY <1>3 DEF Fail, Goto
  <2>3. wrong' \in [Key -> Nat]
    <3>1. wrong' = [wrong EXCEPT ![k] = wrong[k] + 1]
      BY <1>3 DEF Fail, k
    <3>2. wrong[k] + 1 \in Nat
      BY <2>a
    <3> QED BY <3>1, <3>2
  <2> QED BY <2>1, <2>2, <2>3, <1>3 DEF Fail
<1>4. ASSUME NEW v \in Validator, Succeed(v) PROVE TypeOK'
  BY <1>4 DEF Succeed, Goto
<1>5. CASE Restart
  BY <1>5 DEF Restart
<1>6. CASE Tick
  BY <1>6 DEF Tick
<1>7. CASE UNCHANGED vars
  BY <1>7 DEF vars
<1> QED BY <1>1, <1>2, <1>3, <1>4, <1>5, <1>6, <1>7 DEF Next

\* The variables keep their types.
THEOREM LockoutTypeCorrect == Spec => []TypeOK
BY TypeInit, TypeStep, PTL DEF Spec

-----------------------------------------------------------------------------
Bounded(k) == Count(k) + Cardinality(Admitted(k)) < Limit + N

\* A key nobody is newly admitted for, and whose count does not grow, stays
\* within its bound.
LEMMA ShrinkKeeps ==
    ASSUME NEW k \in Key, Bounded(k), Count(k) \in Nat, Count(k)' \in Nat,
           Count(k)' <= Count(k), Admitted(k)' \subseteq Admitted(k)
    PROVE  Bounded(k)'
<1>1. Admitted(k) \in SUBSET Validator /\ Admitted(k)' \in SUBSET Validator
  BY DEF Admitted
<1>2. Cardinality(Admitted(k)') <= Cardinality(Admitted(k))
  BY <1>1, AdmittedFinite, FS_Subset
<1>3. /\ Cardinality(Admitted(k)) \in Nat
      /\ Cardinality(Admitted(k)') \in Nat
      /\ N \in Nat
  BY <1>1, AdmittedFinite
<1> QED BY <1>2, <1>3, LockoutAssumption DEF Bounded, N

\* A key with fewer failures than the limit is within its bound.
LEMMA BelowLimit ==
    ASSUME NEW k \in Key, Count(k) \in Nat, Count(k) < Limit
    PROVE  Bounded(k)
<1>1. Admitted(k) \in SUBSET Validator
  BY DEF Admitted
<1> QED BY <1>1, AdmittedFinite, LockoutAssumption DEF Bounded

LEMMA CountType ==
    ASSUME TypeOK, NEW k \in Key
    PROVE  Count(k) \in Nat
BY DEF TypeOK, Count, Entry

LEMMA OvershootStep ==
    ASSUME TypeOK, TypeOK', OvershootBounded, [Next]_vars
    PROVE  OvershootBounded'
<1> SUFFICES ASSUME NEW k \in Key PROVE Bounded(k)'
  BY DEF OvershootBounded, Bounded, N
<1>1. Count(k) \in Nat /\ Count(k)' \in Nat
  <2>1. Count(k)' \in Nat
    BY DEF TypeOK, Count, Entry
  <2> QED BY <2>1, CountType
<1>2. Bounded(k)
  BY DEF OvershootBounded, Bounded
<1>3. ASSUME Count(k)' < Limit PROVE Bounded(k)'
  <2>1. Admitted(k)' \in SUBSET Validator
    BY DEF Admitted
  <2>2. Cardinality(Admitted(k)') \in Nat /\ Cardinality(Admitted(k)') <= N /\ N \in Nat
    BY <2>1, AdmittedFinite
  <2> QED BY <2>2, <1>1, <1>3, LockoutAssumption DEF Bounded, N
<1>4. ASSUME NEW v \in Validator, NEW j \in Key, Check(v, j) PROVE Bounded(k)'
  <2>1. CASE pc'[v] = "lookup" /\ j = k
    <3>1. Count(k)' < Limit
      <4>1. CASE Expired(k)
        BY <1>4, <2>1, <4>1, LockoutAssumption DEF Check, TypeOK, Count
      <4>2. CASE ~Expired(k)
        <5>1. failed' = failed /\ ~Locked(k)
          BY <1>4, <2>1, <4>2 DEF Check, Goto, TypeOK
        <5>2. Count(k) < Limit
          BY <5>1, <1>1, LockoutAssumption DEF Locked, Count, TypeOK, Entry
        <5> QED BY <5>1, <5>2 DEF Count
      <4> QED BY <4>1, <4>2
    <3> QED BY <3>1, <1>3
  <2>2. CASE ~(pc'[v] = "lookup" /\ j = k)
    <3>1. Admitted(k)' \subseteq Admitted(k)
      BY <1>4, <2>2 DEF Check, Goto, TypeOK, Admitted
    <3>2. Count(k)' = Count(k) \/ Count(k)' = 0
      BY <1>4 DEF Check, TypeOK, Count
    <3> QED BY <3>1, <3>2, <1>1, <1>2, ShrinkKeeps
  <2> QED BY <2>1, <2>2
<1>5. ASSUME NEW v \in Validator, Lookup(v) PROVE Bounded(k)'
  <2>1. Admitted(k)' \subseteq Admitted(k)
    BY <1>5 DEF Lookup, Goto, TypeOK, Admitted
  <2>2. Count(k)' = Count(k)
    BY <1>5 DEF Lookup, Count
  <2> QED BY <2>1, <2>2, <1>1, <1>2, ShrinkKeeps
<1>6. ASSUME NEW v \in Validator, Fail(v) PROVE Bounded(k)'
  <2>1. CASE key[v] = k
    <3>1. v \in Admitted(k) /\ Admitted(k)' = Admitted(k) \ {v}
      BY <1>6, <2>1 DEF Fail, Goto, TypeOK, Admitted
    <3>2. Count(k)' = Count(k) + 1
      BY <1>6, <2>1, LockoutAssumption DEF Fail, OneMore, TypeOK, Count, Entry
    <3>3. Admitted(k) \in SUBSET Validator
      BY DEF Admitted
    <3>4. Cardinality(Admitted(k)') = Cardinality(Admitted(k)) - 1
      BY <3>1, <3>3, AdmittedLess
    <3>5. Cardinality(Admitted(k)) \in Nat
      BY <3>3, AdmittedFinite
    <3>6. N \in Nat
      BY <3>3, AdmittedFinite
    <3>7. Count(k)' + Cardinality(Admitted(k)') = Count(k) + Cardinality(Admitted(k))
      BY ONLY <3>2, <3>4, <3>5, <1>1
    <3> QED BY <3>7, <1>2 DEF Bounded, N
  <2>2. CASE key[v] # k
    <3>1. Admitted(k)' \subseteq Admitted(k)
      BY <1>6, <2>2 DEF Fail, Goto, TypeOK, Admitted
    <3>2. Count(k)' = Count(k)
      BY <1>6, <2>2 DEF Fail, TypeOK, Count
    <3> QED BY <3>1, <3>2, <1>1, <1>2, ShrinkKeeps
  <2> QED BY <2>1, <2>2
<1>7. ASSUME NEW v \in Validator, Succeed(v) PROVE Bounded(k)'
  <2>1. Admitted(k)' \subseteq Admitted(k)
    BY <1>7 DEF Succeed, Goto, TypeOK, Admitted
  <2>2. Count(k)' = Count(k) \/ Count(k)' = 0
    BY <1>7 DEF Succeed, TypeOK, Count
  <2> QED BY <2>1, <2>2, <1>1, <1>2, ShrinkKeeps
<1>8. CASE Restart
  <2>1. Count(k)' = 0
    BY <1>8 DEF Restart, Count
  <2> QED BY <2>1, <1>3, LockoutAssumption
<1>9. CASE Tick \/ UNCHANGED vars
  <2>1. Admitted(k)' = Admitted(k) /\ Count(k)' = Count(k)
    BY <1>9 DEF Tick, vars, Admitted, Count
  <2> QED BY <2>1, <1>1, <1>2, ShrinkKeeps
<1> QED BY <1>4, <1>5, <1>6, <1>7, <1>8, <1>9 DEF Next

\* However many validations race, a key counts at most Limit - 1 failures plus
\* one for each validation that may run at once.
THEOREM Overshoot == Spec => []OvershootBounded
<1>1. Init => OvershootBounded
  <2> SUFFICES ASSUME Init, NEW k \in Key PROVE Bounded(k)
    BY DEF OvershootBounded, Bounded
  <2>1. Count(k) = 0
    BY DEF Init, Count
  <2> QED BY <2>1, BelowLimit, LockoutAssumption
<1>2. TypeOK /\ TypeOK' /\ OvershootBounded /\ [Next]_vars => OvershootBounded'
  BY OvershootStep
<1> QED BY <1>1, <1>2, LockoutTypeCorrect, PTL DEF Spec

\* The table is well typed and its counts are bounded, as the runs check it.
THEOREM LockoutInvariance == Spec => []LockoutInv
<1>1. TypeOK /\ OvershootBounded => LockoutInv
  BY DEF LockoutInv
<1> QED BY <1>1, LockoutTypeCorrect, Overshoot, PTL

-----------------------------------------------------------------------------
(* The guess rate.  A is what one entry can count, W a window and a tick.  *)

A == Limit - 1 + N
W == Window + 1

LEMMA AW == N \in Nat /\ A \in Nat /\ W \in Nat \ {0}
BY FS_CardinalityType, LockoutAssumption DEF N, A, W

\* m windows that fit between s and t number at most t.
LEMMA WindowsFit ==
    ASSUME NEW m \in Nat, NEW s \in Nat, NEW t \in Nat, s + m * W <= t
    PROVE  m \in 0..t
<1>1. m <= m * W
  BY AW
<1> QED BY <1>1, AW

\* The moment up to which the entry in the table has not begun to count.
Base(k) == IF failed[k] = NoEntry THEN now ELSE failed[k].firstFail

PacedBy(k, m) == wrong[k] <= A * m + Count(k) /\ since[k] + m * W <= Base(k)

Timed(k) == since[k] <= now /\ (failed[k] # NoEntry => failed[k].firstFail <= now)

LEMMA PacedIs == EntriesPaced <=> \A k \in Key : Timed(k) /\ \E m \in 0..now : PacedBy(k, m)
BY DEF EntriesPaced, Paced, PacedBy, Timed, Base, A, W, N

LEMMA PacedInit == Init => EntriesPaced
<1> SUFFICES ASSUME Init, NEW k \in Key PROVE Timed(k) /\ PacedBy(k, 0) /\ 0 \in 0..now
  BY PacedIs
<1> QED BY AW DEF Init, Timed, PacedBy, Base, Count

\* What a step must leave of a key: the same pace, or one more entry dropped,
\* or a fresh start.
LEMMA PacedSame ==
    ASSUME TypeOK, TypeOK', NEW k \in Key, NEW m \in 0..now, PacedBy(k, m),
           now <= now', since'[k] = since[k], Base(k) <= Base(k)',
           wrong'[k] - wrong[k] <= Count(k)' - Count(k)
    PROVE  \E i \in 0..now' : PacedBy(k, i)'
<1>1. /\ Count(k) \in Nat /\ Count(k)' \in Nat
      /\ Base(k) \in Int /\ Base(k)' \in Int
      /\ wrong[k] \in Nat /\ wrong'[k] \in Nat /\ since[k] \in Nat
      /\ now \in Nat /\ now' \in Nat
  BY LockoutAssumption DEF TypeOK, Entry, Count, Base
<1>2. A * m \in Nat /\ m * W \in Nat
  BY AW
<1>3. wrong'[k] <= A * m + Count(k)' /\ since'[k] + m * W <= Base(k)'
  BY ONLY <1>1, <1>2, PacedBy(k, m), since'[k] = since[k], Base(k) <= Base(k)',
          wrong'[k] - wrong[k] <= Count(k)' - Count(k) DEF PacedBy
<1>4. m \in 0..now'
  BY <1>1
<1> QED BY <1>3, <1>4 DEF PacedBy

LEMMA PacedDrop ==
    ASSUME TypeOK, TypeOK', NEW k \in Key, Count(k) <= A, NEW m \in 0..now,
           PacedBy(k, m), Expired(k), failed'[k] = NoEntry,
           wrong'[k] = wrong[k], since'[k] = since[k], now' = now
    PROVE  \E i \in 0..now' : PacedBy(k, i)'
<1>1. /\ Count(k) \in Nat /\ failed[k].firstFail \in Nat
      /\ wrong[k] \in Nat /\ since[k] \in Nat /\ now \in Nat
  BY CountType, LockoutAssumption DEF TypeOK, Entry, Expired
<1>2. /\ wrong[k] <= A * m + Count(k)
      /\ since[k] + m * W <= failed[k].firstFail
      /\ now >= failed[k].firstFail + W
      /\ Base(k)' = now
      /\ Count(k)' = 0
  BY <1>1, LockoutAssumption DEF PacedBy, Base, Expired, W, Count
<1>3. /\ A * m \in Nat /\ m * W \in Nat /\ A \in Nat /\ W \in Nat
      /\ A * (m + 1) = A * m + A
      /\ (m + 1) * W = m * W + W
  BY AW
<1>4. wrong[k] <= A * (m + 1) /\ since[k] + (m + 1) * W <= now
  BY ONLY <1>1, <1>2, <1>3, Count(k) <= A
<1>5. m + 1 \in 0..now'
  BY <1>4, <1>1, WindowsFit
<1>6. PacedBy(k, m + 1)'
  BY <1>2, <1>3, <1>4 DEF PacedBy
<1> QED BY <1>5, <1>6

\* The count of any key stays within what the bound on the overshoot gives it.
LEMMA CountAtMostA ==
    ASSUME TypeOK, OvershootBounded, NEW k \in Key
    PROVE  Count(k) <= A
<1>1. Cardinality(Admitted(k)) \in Nat
  BY AdmittedFinite DEF Admitted
<1> QED BY <1>1, AW, CountType, LockoutAssumption DEF OvershootBounded, A

LEMMA PacedStep ==
    ASSUME TypeOK, TypeOK', OvershootBounded, EntriesPaced, [Next]_vars
    PROVE  EntriesPaced'
<1> SUFFICES ASSUME NEW k \in Key
             PROVE  Timed(k)' /\ \E i \in 0..now' : PacedBy(k, i)'
  BY DEF EntriesPaced, Paced, PacedBy, Timed, Base, A, W, N
<1>1. Timed(k)
  BY PacedIs
<1>2. PICK m \in 0..now : PacedBy(k, m)
  BY PacedIs
<1>3. /\ now \in Nat /\ now' \in Nat /\ since[k] \in Nat
      /\ failed[k] # NoEntry => failed[k].firstFail \in Nat
      /\ wrong[k] \in Nat /\ Count(k) \in Nat
  BY CountType, LockoutAssumption DEF TypeOK, Entry
\* Nothing about k changes, though time may pass.
<1>4. ASSUME failed'[k] = failed[k], wrong'[k] = wrong[k], since'[k] = since[k], now <= now'
      PROVE  Timed(k)' /\ \E i \in 0..now' : PacedBy(k, i)'
  <2>1. Timed(k)'
    BY <1>1, <1>3, <1>4 DEF Timed
  <2>2. Count(k)' = Count(k) /\ Base(k) <= Base(k)'
    BY <1>3, <1>4 DEF Count, Base
  <2>3. wrong'[k] - wrong[k] <= Count(k)' - Count(k)
    BY <2>2, <1>3, <1>4
  <2> QED BY <1>2, <1>4, <2>1, <2>2, <2>3, PacedSame
\* The pace of k starts afresh.
<1>5. ASSUME failed'[k] = NoEntry, wrong'[k] = 0, since'[k] = now, now' = now
      PROVE  Timed(k)' /\ \E i \in 0..now' : PacedBy(k, i)'
  <2>1. Timed(k)'
    BY <1>3, <1>5 DEF Timed
  <2>2. PacedBy(k, 0)' /\ 0 \in 0..now'
    BY <1>3, <1>5, AW DEF PacedBy, Count, Base
  <2> QED BY <2>1, <2>2
<1>6. ASSUME NEW v \in Validator, NEW j \in Key, Check(v, j)
      PROVE  Timed(k)' /\ \E i \in 0..now' : PacedBy(k, i)'
  <2>1. now' = now /\ wrong' = wrong /\ since' = since
    BY <1>6 DEF Check
  <2>2. CASE j = k /\ Expired(k)
    <3>1. failed'[k] = NoEntry
      BY <1>6, <2>2 DEF Check, TypeOK
    <3>2. Timed(k)'
      BY <3>1, <2>1, <1>1 DEF Timed
    <3>3. \E i \in 0..now' : PacedBy(k, i)'
      BY <3>1, <2>1, <2>2, <1>2, CountAtMostA, PacedDrop
    <3> QED BY <3>2, <3>3
  <2>3. CASE ~(j = k /\ Expired(k))
    <3>1. failed'[k] = failed[k]
      BY <1>6, <2>3 DEF Check, TypeOK
    <3> QED BY <3>1, <2>1, <1>3, <1>4
  <2> QED BY <2>2, <2>3
<1>7. ASSUME NEW v \in Validator, Lookup(v)
      PROVE  Timed(k)' /\ \E i \in 0..now' : PacedBy(k, i)'
  BY <1>7, <1>3, <1>4 DEF Lookup
<1>8. ASSUME NEW v \in Validator, Fail(v)
      PROVE  Timed(k)' /\ \E i \in 0..now' : PacedBy(k, i)'
  <2>1. now' = now /\ since' = since
    BY <1>8 DEF Fail
  <2>2. CASE key[v] = k
    <3>1. failed'[k] = OneMore(k) /\ wrong'[k] = wrong[k] + 1
      BY <1>8, <2>2 DEF Fail, TypeOK
    <3>2. OneMore(k) # NoEntry
      BY <1>3, LockoutAssumption DEF OneMore, TypeOK, Entry
    <3>3. Count(k)' = Count(k) + 1
      BY <3>1, <3>2 DEF Count, OneMore
    <3>4. Base(k)' = Base(k) /\ failed'[k].firstFail <= now
      BY <3>1, <3>2, <1>1, <1>3 DEF Base, OneMore, Timed
    <3>5. Timed(k)'
      BY <3>4, <2>1, <1>1 DEF Timed
    <3>6. wrong'[k] - wrong[k] <= Count(k)' - Count(k)
      BY <3>1, <3>3, <1>3
    <3>7. Base(k) <= Base(k)'
      BY <3>4, <1>3 DEF Base
    <3>8. now <= now'
      BY <2>1, <1>3
    <3> QED BY <3>5, <3>6, <3>7, <3>8, <2>1, <1>2, PacedSame
  <2>3. CASE key[v] # k
    <3>1. failed'[k] = failed[k] /\ wrong'[k] = wrong[k]
      BY <1>8, <2>3 DEF Fail, TypeOK
    <3> QED BY <3>1, <2>1, <1>3, <1>4
  <2> QED BY <2>2, <2>3
<1>9. ASSUME NEW v \in Validator, Succeed(v)
      PROVE  Timed(k)' /\ \E i \in 0..now' : PacedBy(k, i)'
  <2>1. CASE key[v] = k
    BY <1>9, <2>1, <1>5 DEF Succeed, TypeOK
  <2>2. CASE key[v] # k
    <3>1. /\ failed'[k] = failed[k] /\ wrong'[k] = wrong[k]
          /\ since'[k] = since[k] /\ now' = now
      BY <1>9, <2>2 DEF Succeed, TypeOK
    <3> QED BY <3>1, <1>3, <1>4
  <2> QED BY <2>1, <2>2
<1>10. CASE Restart
  BY <1>10, <1>5 DEF Restart
<1>11. CASE Tick \/ UNCHANGED vars
  BY <1>11, <1>3, <1>4 DEF Tick, vars
<1> QED BY <1>6, <1>7, <1>8, <1>9, <1>10, <1>11 DEF Next

\* m whole windows between s and t number at most their quotient.
LEMMA WindowsCounted ==
    ASSUME NEW m \in Nat, NEW d \in Nat, m * W <= d
    PROVE  m <= d \div W
BY AW

LEMMA PacedImpliesRate ==
    ASSUME TypeOK, OvershootBounded, EntriesPaced
    PROVE  GuessRateBounded
<1> SUFFICES ASSUME NEW k \in Key
             PROVE  wrong[k] <= A * (1 + ((now - since[k]) \div W))
  BY DEF GuessRateBounded, A, W
<1>1. PICK m \in 0..now : PacedBy(k, m)
  BY PacedIs
<1>2. Timed(k)
  BY PacedIs
<1> DEFINE d == now - since[k]
           q == d \div W
<1>3. d \in Nat /\ q \in Nat /\ m \in Nat /\ wrong[k] \in Nat /\ Count(k) \in Nat
  BY <1>2, AW, CountType, LockoutAssumption DEF Timed, TypeOK
<1>4. m * W <= d
  BY <1>1, <1>2, AW, LockoutAssumption DEF PacedBy, Base, Timed, TypeOK, Entry
<1>5. m <= q
  BY <1>3, <1>4, WindowsCounted
<1>6. wrong[k] <= A * m + Count(k) /\ Count(k) <= A
  BY <1>1, CountAtMostA DEF PacedBy
<1> HIDE DEF d, q
<1>7. A * m + A <= A * (1 + q) /\ A * m \in Nat /\ A * (1 + q) \in Nat
  BY <1>3, <1>5, AW
<1>8. wrong[k] <= A * (1 + q)
  BY ONLY <1>3, <1>6, <1>7, AW
<1> QED BY <1>8 DEF d, q

\* Without a success a key counts at most A failures per window, and A more:
\* neither races nor expiry let it count faster.
THEOREM GuessRate == Spec => []GuessRateBounded
<1>1. TypeOK /\ TypeOK' /\ OvershootBounded /\ EntriesPaced /\ [Next]_vars => EntriesPaced'
  BY PacedStep
<1>2. TypeOK /\ OvershootBounded /\ EntriesPaced => GuessRateBounded
  BY PacedImpliesRate
<1> QED BY <1>1, <1>2, PacedInit, LockoutTypeCorrect, Overshoot, PTL DEF Spec

-----------------------------------------------------------------------------
(* What unlocks a key.                                                     *)

\* A failure never unlocks a key, that of a validation admitted before it was
\* locked included.
LEMMA FailKeepsLocked ==
    ASSUME TypeOK, NEW v \in Validator, Fail(v), NEW k \in Key, Locked(k)
    PROVE  Locked(k)'
<1>1. failed[k] \in Entry /\ failed[k].count \in Nat /\ Limit \in Nat
  BY LockoutAssumption DEF TypeOK, Locked, Entry
<1>2. failed' = [failed EXCEPT ![key[v]] = OneMore(key[v])]
  BY DEF Fail
<1>3. CASE key[v] = k
  <2>1. failed'[k] = OneMore(k)
    BY <1>2, <1>3 DEF TypeOK
  <2>2. OneMore(k) = [count |-> failed[k].count + 1, firstFail |-> failed[k].firstFail]
    BY DEF OneMore, Locked
  <2>3. failed'[k] \in Entry
    BY <1>1, <2>1, <2>2 DEF Entry
  <2>4. failed'[k] # NoEntry
    BY <2>3, LockoutAssumption DEF Entry
  <2>5. failed'[k].count = failed[k].count + 1
    BY <2>1, <2>2
  <2> QED BY <1>1, <2>4, <2>5 DEF Locked
<1>4. CASE key[v] # k
  BY <1>2, <1>4 DEF TypeOK, Locked
<1> QED BY <1>3, <1>4

\* Only Check's dropping of an expired entry, a success and a restart unlock.
LEMMA UnlockedBy ==
    ASSUME TypeOK, [Next]_vars, NEW k \in Key, Locked(k), ~Locked(k)'
    PROVE  \/ Expired(k)
           \/ \E v \in Validator : pc[v] = "right" /\ key[v] = k /\ pc'[v] = "idle"
           \/ \A v \in Validator : pc'[v] = "idle"
<1>1. ASSUME NEW v \in Validator, NEW x \in Key, Check(v, x)
      PROVE  Expired(k)
  <2>1. CASE x = k
    BY <1>1, <2>1 DEF Check, Locked
  <2>2. CASE x # k
    <3>1. failed'[k] = failed[k]
      BY <1>1, <2>2 DEF Check, TypeOK
    <3> QED BY <3>1 DEF Locked
  <2> QED BY <2>1, <2>2
<1>2. ASSUME NEW v \in Validator, Succeed(v)
      PROVE  pc[v] = "right" /\ key[v] = k /\ pc'[v] = "idle"
  <2>1. key[v] # k => failed'[k] = failed[k]
    BY <1>2 DEF Succeed, TypeOK
  <2> QED BY <1>2, <2>1 DEF Succeed, Goto, TypeOK, Locked
<1>3. CASE Restart
  BY <1>3 DEF Restart
<1>4. ASSUME failed' = failed PROVE FALSE
  BY <1>4 DEF Locked
<1>5. CASE Tick \/ (\E v \in Validator : Lookup(v)) \/ UNCHANGED vars
  BY <1>4, <1>5 DEF Tick, Lookup, vars
<1> QED BY <1>1, <1>2, <1>3, <1>5, FailKeepsLocked DEF Next

\* A locked key stays locked until its window ends, a validation admitted
\* before the lock succeeds, or the service restarts: the two critical sections of
\* Validate (otp_service.go) give no other way out, interleaved as they may be.
THEOREM LockedStays == Spec => LockHolds
<1>1. TypeOK /\ [Next]_vars =>
        [\A k \in Key : Locked(k) /\ ~Locked(k)' =>
            \/ Expired(k)
            \/ \E v \in Validator : pc[v] = "right" /\ key[v] = k /\ pc'[v] = "idle"
            \/ \A v \in Validator : pc'[v] = "idle"]_vars
  BY UnlockedBy
<1> QED BY <1>1, LockoutTypeCorrect, PTL DEF Spec, LockHolds
=============================================================================

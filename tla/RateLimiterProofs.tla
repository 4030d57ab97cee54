------------------------- MODULE RateLimiterProofs -------------------------
(***************************************************************************)
(* Proofs about RateLimiter, for every rate, burst and interval.  What an  *)
(* address was admitted and the tokens it has left are together paid for   *)
(* by the burst and by the whole intervals up to its last call; when it is *)
(* swept, the idle time has paid for a new burst.                          *)
(***************************************************************************)
EXTENDS RateLimiter, TLAPS

\* Whole intervals add up to no more than the whole intervals of the sum.
LEMMA IntervalsAdd ==
    ASSUME NEW x \in Nat, NEW y \in Nat
    PROVE  (x \div Interval) + (y \div Interval) <= (x + y) \div Interval
<1> DEFINE p == x \div Interval
           q == y \div Interval
<1>1. p \in Nat /\ q \in Nat /\ Interval \in Nat \ {0}
  BY LimiterAssumption
<1>2. p * Interval <= x /\ q * Interval <= y
  BY LimiterAssumption
<1>3. (p + q) * Interval = p * Interval + q * Interval
  BY <1>1
<1> HIDE DEF p, q
<1>4. (p + q) * Interval <= x + y
  BY <1>1, <1>2, <1>3
<1>5. \A m \in Nat, d \in Nat : m * Interval <= d => m <= d \div Interval
  BY LimiterAssumption
<1>6. p + q \in Nat /\ x + y \in Nat
  BY <1>1
<1>7. p + q <= (x + y) \div Interval
  BY <1>4, <1>5, <1>6
<1> QED BY <1>7 DEF p, q

\* More time has no fewer whole intervals.
LEMMA IntervalsGrow ==
    ASSUME NEW x \in Nat, NEW y \in Nat, x <= y
    PROVE  (x \div Interval) <= (y \div Interval)
BY LimiterAssumption

\* What whole intervals are worth.
Worth(t) == Rate * (t \div Interval)

LEMMA WorthType == ASSUME NEW t \in Nat PROVE Worth(t) \in Nat
<1>1. t \div Interval \in Nat
  BY LimiterAssumption
<1> QED BY <1>1, LimiterAssumption DEF Worth

LEMMA WorthAdd ==
    ASSUME NEW x \in Nat, NEW y \in Nat
    PROVE  Worth(x) + Worth(y) <= Worth(x + y)
<1> DEFINE p == x \div Interval
           q == y \div Interval
           s == (x + y) \div Interval
<1>1. p \in Nat /\ q \in Nat /\ s \in Nat /\ Rate \in Nat /\ p + q <= s
  BY IntervalsAdd, LimiterAssumption
<1> HIDE DEF p, q, s
<1>2. Rate * p + Rate * q <= Rate * s
  BY <1>1
<1> QED BY <1>2 DEF Worth, p, q, s

LEMMA WorthGrow ==
    ASSUME NEW x \in Nat, NEW y \in Nat, x <= y
    PROVE  Worth(x) <= Worth(y)
<1> DEFINE p == x \div Interval
           q == y \div Interval
<1>1. p \in Nat /\ q \in Nat /\ Rate \in Nat /\ p <= q
  BY IntervalsGrow, LimiterAssumption
<1> HIDE DEF p, q
<1>2. Rate * p <= Rate * q
  BY <1>1
<1> QED BY <1>2 DEF Worth, p, q

-----------------------------------------------------------------------------
LEMMA LimiterTypeInit == Init => TypeOK
BY LimiterAssumption DEF Init, TypeOK

LEMMA RefilledType ==
    ASSUME TypeOK, NEW ip \in Ip, visitors[ip] # NoVisitor, visitors[ip].lastCheck <= now
    PROVE  /\ Refilled(visitors[ip]) \in 0..Burst
           /\ Refilled(visitors[ip]) <= visitors[ip].tokens + Worth(now - visitors[ip].lastCheck)
<1> DEFINE v == visitors[ip]
           w == Worth(now - v.lastCheck)
<1>1. v \in Visitor
  BY DEF TypeOK
<1>2. /\ v.tokens \in 0..Burst /\ v.lastCheck \in 0..MaxTime /\ now \in 0..MaxTime
      /\ now - v.lastCheck \in Nat
  BY <1>1, LimiterAssumption DEF Visitor, TypeOK
<1>3. w \in Nat
  BY <1>2, WorthType
<1>4. w = ((now - v.lastCheck) \div Interval) * Rate
  <2>1. (now - v.lastCheck) \div Interval \in Nat
    BY <1>2, LimiterAssumption
  <2> QED BY <2>1, LimiterAssumption DEF Worth
<1>5. Refilled(v) = Least(Burst, v.tokens + w)
  BY <1>4 DEF Refilled
<1> HIDE DEF w, v
<1>6. Refilled(v) \in 0..Burst /\ Refilled(v) <= v.tokens + w
  BY <1>2, <1>3, <1>5, LimiterAssumption DEF Least
<1> QED BY <1>6 DEF v, w

\* An address that has an entry.
Known(ip) ==
    /\ first[ip] # NoVisitor
    /\ first[ip] <= visitors[ip].lastCheck
    /\ visitors[ip].lastCheck <= now
    /\ admitted[ip] + visitors[ip].tokens <= Burst + Worth(visitors[ip].lastCheck - first[ip])

\* An address whose entry was swept.
Forgotten(ip) ==
    /\ first[ip] <= now
    /\ admitted[ip] <= Worth(now - first[ip])

Paid(ip) ==
    /\ visitors[ip] # NoVisitor => Known(ip)
    /\ visitors[ip] = NoVisitor /\ first[ip] # NoVisitor => Forgotten(ip)
    /\ first[ip] = NoVisitor => admitted[ip] = 0
    /\ admitted[ip] <= asked[ip]

PaidInv == TypeOK /\ \A ip \in Ip : Paid(ip)

LEMMA PaidInit == Init => PaidInv
BY LimiterTypeInit DEF Init, PaidInv, Paid

\* An address on which nothing but time acts.
LEMMA PaidWaits ==
    ASSUME TypeOK, TypeOK', NEW ip \in Ip, Paid(ip), now <= now',
           visitors'[ip] = visitors[ip], first'[ip] = first[ip],
           admitted'[ip] = admitted[ip], asked'[ip] = asked[ip]
    PROVE  Paid(ip)'
<1>1. now \in Nat /\ now' \in Nat
  BY LimiterAssumption DEF TypeOK
<1>2. CASE visitors[ip] # NoVisitor
  <2>1. visitors[ip].lastCheck \in Nat
    BY <1>2, LimiterAssumption DEF TypeOK, Visitor
  <2>2. Known(ip)'
    BY <1>1, <1>2, <2>1 DEF Paid, Known
  <2> QED BY <1>2, <2>2 DEF Paid, Known
<1>3. CASE visitors[ip] = NoVisitor /\ first[ip] # NoVisitor
  <2>1. first[ip] \in Nat /\ admitted[ip] \in Nat /\ Forgotten(ip)
    BY <1>3, LimiterAssumption DEF TypeOK, Paid
  <2>2. now - first[ip] \in Nat /\ now' - first[ip] \in Nat /\ now - first[ip] <= now' - first[ip]
    BY <1>1, <2>1 DEF Forgotten
  <2>3. Worth(now - first[ip]) <= Worth(now' - first[ip])
    BY <2>2, WorthGrow
  <2>4. Worth(now - first[ip]) \in Nat /\ Worth(now' - first[ip]) \in Nat
    BY <2>2, WorthType
  <2>5. first[ip] <= now' /\ admitted[ip] <= Worth(now' - first[ip])
    BY <1>1, <2>1, <2>3, <2>4 DEF Forgotten
  <2>6. Forgotten(ip)'
    BY <2>5 DEF Forgotten, Worth
  <2> QED BY <1>3, <2>6 DEF Paid
<1>4. CASE visitors[ip] = NoVisitor /\ first[ip] = NoVisitor
  BY <1>4 DEF Paid
<1> QED BY <1>2, <1>3, <1>4

-----------------------------------------------------------------------------
LEMMA AllowType ==
    ASSUME PaidInv, NEW ip \in Ip, Allow(ip)
    PROVE  TypeOK'
<1> DEFINE v == visitors[ip]
           tokens == IF v = NoVisitor THEN Burst ELSE Refilled(v)
           left == IF tokens > 0 THEN tokens - 1 ELSE 0
<1>1. tokens \in 0..Burst
  <2>1. CASE v = NoVisitor
    BY <2>1, LimiterAssumption
  <2>2. CASE v # NoVisitor
    <3>1. v.lastCheck <= now
      BY <2>2 DEF PaidInv, Paid, Known
    <3> QED BY <2>2, <3>1, RefilledType DEF PaidInv
  <2> QED BY <2>1, <2>2
<1>2. visitors' = [visitors EXCEPT ![ip] = [tokens |-> left, lastCheck |-> now]]
  BY DEF Allow
<1> HIDE DEF tokens
<1>3. left \in 0..Burst
  BY <1>1, LimiterAssumption
<1> HIDE DEF left
<1>4. [tokens |-> left, lastCheck |-> now] \in Visitor
  BY <1>3 DEF PaidInv, TypeOK, Visitor
<1>5. visitors' \in [Ip -> Visitor \cup {NoVisitor}]
  BY <1>2, <1>4 DEF PaidInv, TypeOK
<1>6. now' \in 0..MaxTime /\ swept' \in 0..MaxTime
  BY DEF PaidInv, TypeOK, Allow
<1>7. first' \in [Ip -> (0..MaxTime) \cup {NoVisitor}]
  BY DEF PaidInv, TypeOK, Allow
<1>8. asked' \in [Ip -> 0..MaxCalls]
  <2>1. asked[ip] + 1 \in 0..MaxCalls
    BY LimiterAssumption DEF PaidInv, TypeOK, Allow
  <2>2. asked' = [asked EXCEPT ![ip] = asked[ip] + 1]
    BY DEF Allow
  <2> QED BY <2>1, <2>2 DEF PaidInv, TypeOK
<1>9. admitted' \in [Ip -> 0..MaxCalls]
  <2> DEFINE a == IF tokens > 0 THEN admitted[ip] + 1 ELSE admitted[ip]
  <2>1. a \in 0..MaxCalls
    BY LimiterAssumption DEF PaidInv, TypeOK, Allow, Paid
  <2>2. admitted' = [admitted EXCEPT ![ip] = a]
    BY DEF Allow, tokens
  <2> HIDE DEF a
  <2> QED BY <2>1, <2>2 DEF PaidInv, TypeOK
<1>10. busy' \in [Ip -> BOOLEAN]
  <2>1. busy' = [busy EXCEPT ![ip] = busy[ip] /\ Soon(ip)]
    BY DEF Allow
  <2>2. (busy[ip] /\ Soon(ip)) \in BOOLEAN
    OBVIOUS
  <2>3. busy \in [Ip -> BOOLEAN]
    BY DEF PaidInv, TypeOK
  <2> QED BY ONLY <2>1, <2>2, <2>3
<1> QED BY <1>5, <1>6, <1>7, <1>8, <1>9, <1>10 DEF TypeOK

\* One more call: the tokens it finds are paid for by the time up to now.
LEMMA AllowPaid ==
    ASSUME PaidInv, TypeOK', NEW ip \in Ip, Allow(ip)
    PROVE  Paid(ip)'
<1> DEFINE v == visitors[ip]
           tokens == IF v = NoVisitor THEN Burst ELSE Refilled(v)
           left == IF tokens > 0 THEN tokens - 1 ELSE 0
           a == admitted[ip]
           f == IF first[ip] = NoVisitor THEN now ELSE first[ip]
<1>1. now \in 0..MaxTime /\ now \in Nat /\ a \in Nat /\ asked[ip] \in Nat /\ a <= asked[ip]
  BY LimiterAssumption DEF PaidInv, TypeOK, Paid
<1>2. f \in Nat /\ f <= now /\ f # NoVisitor /\ tokens \in 0..Burst /\ a + tokens <= Burst + Worth(now - f)
  <2>1. CASE v # NoVisitor
    <3> DEFINE l == v.lastCheck
    <3>1. /\ first[ip] \in Nat /\ first[ip] # NoVisitor /\ l \in Nat /\ v.tokens \in Nat
          /\ first[ip] <= l /\ l <= now /\ a + v.tokens <= Burst + Worth(l - first[ip])
      BY <2>1, LimiterAssumption DEF PaidInv, TypeOK, Paid, Known, Visitor
    <3>2. tokens \in 0..Burst /\ tokens <= v.tokens + Worth(now - l)
      BY <2>1, <3>1, RefilledType DEF PaidInv
    <3>3. now - l \in Nat /\ l - first[ip] \in Nat /\ (l - first[ip]) + (now - l) = now - first[ip]
      BY <1>1, <3>1
    <3>4. Worth(l - first[ip]) + Worth(now - l) <= Worth(now - first[ip])
      BY <3>3, WorthAdd
    <3>5. /\ Worth(l - first[ip]) \in Nat /\ Worth(now - l) \in Nat
          /\ Worth(now - first[ip]) \in Nat
      <4>1. now - first[ip] \in Nat
        BY <1>1, <3>1
      <4> QED BY <3>3, <4>1, WorthType
    <3>6. f = first[ip]
      BY <3>1
    <3> HIDE DEF tokens, a, l, v
    <3>7. a + tokens <= Burst + Worth(now - first[ip])
      BY <1>1, <3>1, <3>2, <3>4, <3>5, LimiterAssumption
    <3> HIDE DEF f
    <3> QED BY <1>1, <3>1, <3>2, <3>6, <3>7
  <2>2. CASE v = NoVisitor /\ first[ip] # NoVisitor
    <3>1. first[ip] \in Nat /\ first[ip] <= now /\ a <= Worth(now - first[ip])
      BY <2>2, LimiterAssumption DEF PaidInv, TypeOK, Paid, Forgotten
    <3>2. now - first[ip] \in Nat
      BY <1>1, <3>1
    <3>3. Worth(now - first[ip]) \in Nat
      BY <3>2, WorthType
    <3>4. f = first[ip] /\ tokens = Burst
      BY <2>2
    <3> HIDE DEF a, f, tokens
    <3> QED BY <1>1, <2>2, <3>1, <3>3, <3>4, LimiterAssumption
  <2>3. CASE v = NoVisitor /\ first[ip] = NoVisitor
    <3>1. f = now /\ tokens = Burst /\ a = 0
      BY <2>3 DEF PaidInv, Paid
    <3>2. Worth(now - now) \in Nat
      <4>1. now - now \in Nat
        BY <1>1
      <4> QED BY <4>1, WorthType
    <3>3. now # NoVisitor
      BY <1>1, LimiterAssumption
    <3> HIDE DEF a, f, tokens
    <3> QED BY <1>1, <3>1, <3>2, <3>3, LimiterAssumption
  <2> QED BY <2>1, <2>2, <2>3
<1>3. /\ visitors'[ip] = [tokens |-> left, lastCheck |-> now]
      /\ first'[ip] = f /\ now' = now
      /\ admitted'[ip] = (IF tokens > 0 THEN a + 1 ELSE a)
      /\ asked'[ip] = asked[ip] + 1
  BY DEF Allow, PaidInv, TypeOK
<1>4. Worth(now - f) \in Nat
  <2>1. now - f \in Nat
    BY <1>1, <1>2
  <2> QED BY <2>1, WorthType
<1>5. visitors'[ip] # NoVisitor
  <2>1. left \in 0..Burst
    BY <1>2, LimiterAssumption
  <2> HIDE DEF left
  <2>2. [tokens |-> left, lastCheck |-> now] \in Visitor
    BY <2>1, <1>1 DEF Visitor
  <2> QED BY <1>3, <2>2, LimiterAssumption
<1>6. visitors'[ip].tokens = left /\ visitors'[ip].lastCheck = now
  BY <1>3
<1> HIDE DEF f, a, v
<1>7. admitted'[ip] + left <= Burst + Worth(now - f)
  <2> HIDE DEF tokens
  <2> QED BY <1>1, <1>2, <1>3, <1>4, LimiterAssumption
<1>8. Known(ip)'
  <2> HIDE DEF left, tokens
  <2> QED BY <1>1, <1>2, <1>3, <1>6, <1>7 DEF Known, Worth
<1>9. admitted'[ip] <= asked'[ip]
  <2> HIDE DEF tokens
  <2> QED BY <1>1, <1>3
<1> QED BY <1>2, <1>3, <1>5, <1>8, <1>9 DEF Paid

LEMMA AllowStep ==
    ASSUME PaidInv, NEW ip \in Ip, Allow(ip)
    PROVE  PaidInv'
<1>1. TypeOK'
  BY AllowType
<1>2. ASSUME NEW j \in Ip, j # ip
      PROVE  Paid(j)'
  <2>1. /\ visitors'[j] = visitors[j] /\ first'[j] = first[j]
        /\ admitted'[j] = admitted[j] /\ asked'[j] = asked[j]
    BY <1>2 DEF Allow, PaidInv, TypeOK
  <2>2. now <= now'
    BY LimiterAssumption DEF Allow, PaidInv, TypeOK
  <2> QED BY <1>1, <2>1, <2>2, PaidWaits DEF PaidInv
<1>3. Paid(ip)'
  BY <1>1, AllowPaid
<1> QED BY <1>1, <1>2, <1>3 DEF PaidInv

\* The idle time of what is swept is worth a burst.
LEMMA StalePaid ==
    ASSUME PaidInv, NEW ip \in Ip, Stale(ip)
    PROVE  Forgotten(ip)
<1> DEFINE l == visitors[ip].lastCheck
           f == first[ip]
           a == admitted[ip]
<1>1. /\ f \in Nat /\ l \in Nat /\ now \in Nat /\ a \in Nat /\ visitors[ip].tokens \in Nat
      /\ f <= l /\ l <= now /\ a + visitors[ip].tokens <= Burst + Worth(l - f)
      /\ now - l > Every
  BY LimiterAssumption DEF Stale, PaidInv, TypeOK, Paid, Known, Visitor
<1>2. now - l \in Nat /\ l - f \in Nat /\ now - f \in Nat /\ (l - f) + (now - l) = now - f
  BY <1>1
<1>3. Worth(l - f) + Worth(now - l) <= Worth(now - f)
  BY <1>2, WorthAdd
<1>4. Worth(l - f) \in Nat /\ Worth(now - l) \in Nat /\ Worth(now - f) \in Nat
  BY <1>2, WorthType
<1>5. Burst <= Worth(now - l)
  <2>1. Every \in Nat /\ Every <= now - l
    BY <1>1, LimiterAssumption
  <2>2. Worth(Every) <= Worth(now - l)
    BY <1>2, <2>1, WorthGrow
  <2>3. Burst <= Worth(Every) /\ Worth(Every) \in Nat
    BY LimiterAssumption, WorthType DEF Worth
  <2> QED BY <1>4, <2>2, <2>3, LimiterAssumption
<1>6. a <= Worth(now - f) /\ f <= now
  <2> HIDE DEF a, l, f
  <2> QED BY <1>1, <1>3, <1>4, <1>5, LimiterAssumption
<1> QED BY <1>6 DEF Forgotten

LEMMA CleanupStep ==
    ASSUME PaidInv, Cleanup
    PROVE  PaidInv'
<1>1. TypeOK'
  BY DEF Cleanup, PaidInv, TypeOK
<1>2. now' = now /\ now <= now' /\ first' = first /\ admitted' = admitted /\ asked' = asked
  BY LimiterAssumption DEF Cleanup, PaidInv, TypeOK
<1>3. ASSUME NEW ip \in Ip
      PROVE  Paid(ip)'
  <2>1. CASE Stale(ip)
    <3>1. visitors'[ip] = NoVisitor
      BY <2>1 DEF Cleanup
    <3>2. Forgotten(ip)
      BY <2>1, StalePaid
    <3>3. Forgotten(ip)'
      BY <1>2, <3>2 DEF Forgotten, Worth
    <3>4. first[ip] # NoVisitor
      BY <2>1 DEF Stale, PaidInv, Paid, Known
    <3>5. admitted[ip] <= asked[ip]
      BY DEF PaidInv, Paid
    <3> QED BY <1>2, <3>1, <3>3, <3>4, <3>5 DEF Paid
  <2>2. CASE ~Stale(ip)
    <3>1. visitors'[ip] = visitors[ip]
      BY <2>2 DEF Cleanup
    <3> QED BY <1>1, <1>2, <3>1, PaidWaits DEF PaidInv
  <2> QED BY <2>1, <2>2
<1> QED BY <1>1, <1>3 DEF PaidInv

LEMMA TickStep ==
    ASSUME PaidInv, Tick
    PROVE  PaidInv'
<1>1. TypeOK' /\ now <= now'
  BY LimiterAssumption DEF Tick, PaidInv, TypeOK
<1>2. ASSUME NEW ip \in Ip
      PROVE  Paid(ip)'
  BY <1>1, PaidWaits DEF Tick, PaidInv
<1> QED BY <1>1, <1>2 DEF PaidInv

LEMMA LimiterStep == PaidInv /\ [Next]_vars => PaidInv'
<1> SUFFICES ASSUME PaidInv, [Next]_vars
             PROVE  PaidInv'
  OBVIOUS
<1>1. CASE \E ip \in Ip : Allow(ip)
  BY <1>1, AllowStep
<1>2. CASE Cleanup
  BY <1>2, CleanupStep
<1>3. CASE Tick
  BY <1>3, TickStep
<1>4. CASE UNCHANGED vars
  BY <1>4 DEF vars, PaidInv, TypeOK, Paid, Known, Forgotten, Worth
<1> QED BY <1>1, <1>2, <1>3, <1>4 DEF Next

-----------------------------------------------------------------------------
\* The map of visitors is always well formed: no entry has more than Burst
\* tokens or fewer than none.
THEOREM LimiterTypeCorrect == Spec => []TypeOK
<1>1. PaidInv => TypeOK
  BY DEF PaidInv
<1> QED BY PaidInit, LimiterStep, <1>1, PTL DEF Spec

\* Allow and the sweep together never admit an address beyond its burst and
\* the rate since it was first seen, whatever rate, burst and interval are.
THEOREM AdmittedWithinRate == Spec => []AdmittedBounded
<1>1. ASSUME PaidInv, NEW ip \in Ip, first[ip] # NoVisitor
      PROVE  admitted[ip] <= Burst + Worth(now - first[ip])
  <2>1. first[ip] \in Nat /\ now \in Nat /\ admitted[ip] \in Nat
    BY <1>1, LimiterAssumption DEF PaidInv, TypeOK
  <2>2. CASE visitors[ip] = NoVisitor
    <3>1. first[ip] <= now /\ admitted[ip] <= Worth(now - first[ip])
      BY <1>1, <2>2 DEF PaidInv, Paid, Forgotten
    <3>2. now - first[ip] \in Nat
      BY <2>1, <3>1
    <3>3. Worth(now - first[ip]) \in Nat
      BY <3>2, WorthType
    <3> QED BY <2>1, <3>1, <3>3, LimiterAssumption
  <2>3. CASE visitors[ip] # NoVisitor
    <3> DEFINE l == visitors[ip].lastCheck
    <3>1. /\ l \in Nat /\ visitors[ip].tokens \in Nat /\ first[ip] <= l /\ l <= now
          /\ admitted[ip] + visitors[ip].tokens <= Burst + Worth(l - first[ip])
      BY <1>1, <2>3, LimiterAssumption DEF PaidInv, TypeOK, Paid, Known, Visitor
    <3>2. l - first[ip] \in Nat /\ now - first[ip] \in Nat /\ l - first[ip] <= now - first[ip]
      BY <2>1, <3>1
    <3>3. Worth(l - first[ip]) <= Worth(now - first[ip])
      BY <3>2, WorthGrow
    <3>4. Worth(l - first[ip]) \in Nat /\ Worth(now - first[ip]) \in Nat
      BY <3>2, WorthType
    <3> HIDE DEF l
    <3> QED BY <2>1, <3>1, <3>3, <3>4, LimiterAssumption
  <2> QED BY <2>2, <2>3
<1>2. PaidInv => AdmittedBounded
  BY <1>1 DEF AdmittedBounded, Worth
<1> QED BY PaidInit, LimiterStep, <1>2, PTL DEF Spec

\* The map is well formed, and the sweep drops only entries that would be full,
\* for every rate, burst and sweep interval under which a burst refills between
\* two sweeps.
THEOREM SweepLosesNothing == Spec => []LimiterInv
<1>1. ASSUME PaidInv, NEW ip \in Ip, Stale(ip)
      PROVE  Refilled(visitors[ip]) = Burst
  <2> DEFINE v == visitors[ip]
             w == ((now - v.lastCheck) \div Interval) * Rate
  <2>1. v.tokens \in Nat /\ v.lastCheck \in Nat /\ now \in Nat /\ now - v.lastCheck > Every
    BY <1>1, LimiterAssumption DEF Stale, PaidInv, TypeOK, Visitor
  <2>2. Every \in Nat /\ Every <= now - v.lastCheck /\ now - v.lastCheck \in Nat
    BY <2>1, LimiterAssumption
  <2>3. /\ Worth(Every) <= Worth(now - v.lastCheck)
        /\ Worth(Every) \in Nat /\ Worth(now - v.lastCheck) \in Nat
    BY <2>2, WorthGrow, WorthType
  <2>4. w = Worth(now - v.lastCheck)
    <3>1. (now - v.lastCheck) \div Interval \in Nat
      BY <2>2, LimiterAssumption
    <3> QED BY <3>1, LimiterAssumption DEF Worth
  <2>5. Burst <= Worth(Every)
    BY LimiterAssumption DEF Worth
  <2>6. Refilled(v) = Least(Burst, v.tokens + w)
    BY DEF Refilled
  <2> HIDE DEF w, v
  <2>7. Refilled(v) = Burst
    BY <2>1, <2>3, <2>4, <2>5, <2>6, LimiterAssumption DEF Least
  <2> QED BY <2>7 DEF v
<1>2. PaidInv => LimiterInv
  BY <1>1 DEF LimiterInv, SweepUnseen, PaidInv
<1> QED BY PaidInit, LimiterStep, <1>2, PTL DEF Spec

-----------------------------------------------------------------------------
(* A client that never leaves a whole interval between two calls.          *)

\* What it was admitted and what it has left is the burst, or the burst was
\* used up; once it was swept it has used up what it asked for within it.
Starving(ip) ==
    /\ admitted[ip] = Least(asked[ip], Burst)
    /\ first[ip] = NoVisitor => asked[ip] = 0
    /\ visitors[ip] # NoVisitor => visitors[ip].tokens = Burst - admitted[ip]

BusyInv == \A ip \in Ip : busy[ip] => Starving(ip)

\* Within an interval no token is added.
LEMMA SoonAddsNothing ==
    ASSUME PaidInv, NEW ip \in Ip, visitors[ip] # NoVisitor,
           now - visitors[ip].lastCheck < Interval
    PROVE  Refilled(visitors[ip]) = visitors[ip].tokens
<1> DEFINE d == now - visitors[ip].lastCheck
           t == visitors[ip].tokens
<1>1. d \in Nat /\ t \in 0..Burst
  BY LimiterAssumption DEF PaidInv, TypeOK, Paid, Known, Visitor
<1>2. d \div Interval = 0
  BY <1>1, LimiterAssumption
<1>3. Refilled(visitors[ip]) = Least(Burst, t + 0 * Rate)
  BY <1>2 DEF Refilled
<1> HIDE DEF d, t
<1>4. Refilled(visitors[ip]) = t
  BY <1>1, <1>3, LimiterAssumption DEF Least
<1> QED BY <1>4 DEF t

LEMMA AllowStarves ==
    ASSUME PaidInv, NEW ip \in Ip, busy[ip] => Starving(ip), Allow(ip), busy'[ip]
    PROVE  Starving(ip)'
<1> DEFINE v == visitors[ip]
           tokens == IF v = NoVisitor THEN Burst ELSE Refilled(v)
           left == IF tokens > 0 THEN tokens - 1 ELSE 0
           a == admitted[ip]
           n == asked[ip]
<1>1. busy[ip] /\ Soon(ip)
  BY DEF Allow, PaidInv, TypeOK
<1>2. a \in Nat /\ n \in Nat /\ Burst \in Nat /\ a = Least(n, Burst)
  BY <1>1, LimiterAssumption DEF PaidInv, TypeOK, Starving
<1>3. tokens = Burst - a
  <2>1. CASE first[ip] = NoVisitor
    <3>1. v = NoVisitor
      BY <2>1 DEF PaidInv, Paid, Known
    <3>2. a = 0
      BY <2>1 DEF PaidInv, Paid
    <3> QED BY <3>1, <3>2, LimiterAssumption
  <2>2. CASE v # NoVisitor /\ now - v.lastCheck < Interval
    <3>1. Refilled(v) = v.tokens
      BY <2>2, SoonAddsNothing
    <3>2. v.tokens = Burst - a
      BY <1>1, <2>2 DEF Starving
    <3> QED BY <2>2, <3>1, <3>2
  <2> QED BY <1>1, <2>1, <2>2 DEF Soon
<1>4. /\ visitors'[ip] = [tokens |-> left, lastCheck |-> now]
      /\ first'[ip] # NoVisitor
      /\ admitted'[ip] = (IF tokens > 0 THEN a + 1 ELSE a)
      /\ asked'[ip] = n + 1
  BY LimiterAssumption DEF Allow, PaidInv, TypeOK
<1>5. visitors'[ip].tokens = left
  BY <1>4
<1> HIDE DEF a, n, v, tokens
<1>6. admitted'[ip] = Least(asked'[ip], Burst) /\ left = Burst - admitted'[ip]
  BY <1>2, <1>3, <1>4 DEF Least
<1> QED BY <1>4, <1>5, <1>6 DEF Starving, Least

\* However long it calls, a client that never leaves a whole interval between
\* two calls is admitted for its burst and refused from then on.
THEOREM BusyAreRefused == Spec => []BusyStarves
<1>1. Init => BusyInv
  BY LimiterAssumption DEF Init, BusyInv, Starving, Least
<1>2. ASSUME PaidInv, BusyInv, [Next]_vars
      PROVE  BusyInv'
  <2>1. ASSUME NEW ip \in Ip, Allow(ip)
        PROVE  BusyInv'
    <3>1. ASSUME NEW j \in Ip, j # ip
          PROVE  (busy[j] => Starving(j))'
      BY <1>2, <2>1, <3>1 DEF BusyInv, Starving, Allow, PaidInv, TypeOK
    <3>2. (busy[ip] => Starving(ip))'
      BY <1>2, <2>1, AllowStarves DEF BusyInv
    <3> QED BY <3>1, <3>2 DEF BusyInv
  <2>2. CASE Cleanup
    <3>1. ASSUME NEW ip \in Ip
          PROVE  visitors'[ip] = visitors[ip] \/ visitors'[ip] = NoVisitor
      BY <2>2 DEF Cleanup
    <3> QED BY <1>2, <2>2, <3>1 DEF Cleanup, BusyInv, Starving
  <2>3. CASE Tick
    BY <1>2, <2>3 DEF Tick, BusyInv, Starving
  <2>4. CASE UNCHANGED vars
    BY <1>2, <2>4 DEF vars, BusyInv, Starving
  <2> QED BY <1>2, <2>1, <2>2, <2>3, <2>4 DEF Next
<1>3. BusyInv => BusyStarves
  BY DEF BusyInv, BusyStarves, Starving
<1> QED BY PaidInit, LimiterStep, <1>1, <1>2, <1>3, PTL DEF Spec
=============================================================================

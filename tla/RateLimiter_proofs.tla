------------------------- MODULE RateLimiter_proofs -------------------------
(***************************************************************************)
(* The lazy, pruned buckets of RateLimiter.tla are the buckets of          *)
(* TokenBuckets.tla, for every rate, burst, cost and set of clients, as    *)
(* long as a bucket prune drops would be full: PruneIsSafe.                *)
(***************************************************************************)
EXTENDS RateLimiter, TLAPS

LEMMA LeastFacts ==
    ASSUME NEW a \in Nat, NEW b \in Nat
    PROVE  Least(a, b) \in 0..a /\ Least(a, b) <= b
  BY DEF Least

\* What time earns: nothing in none, and more in more of it.
LEMMA Earned ==
    ASSUME NEW m \in Nat, NEW r \in Nat
    PROVE  /\ m * r \in Nat /\ 0 * r = 0
           /\ (m + 1) * r = m * r + r
  BY SMTT(30)

LEMMA MoreTime ==
    ASSUME NEW m \in Nat, NEW n \in Nat, NEW r \in Nat, m <= n
    PROVE  m * r <= n * r
  BY SMTT(30)

-----------------------------------------------------------------------------
LEMMA InitType == Init => TypeOK
  <1> SUFFICES ASSUME Init PROVE TypeOK
    OBVIOUS
  <1>1. now \in 0..MaxTime /\ DOMAIN buckets = {}
    BY LimiterAssumption DEF Init
  <1>2. granted \in [Keys -> Nat] /\ answer = NoAnswer
    BY DEF Init
  <1> QED
    BY <1>1, <1>2 DEF TypeOK

\* The bucket a request is charged to.
LEMMA BucketFacts ==
    ASSUME TypeOK, NEW k \in Keys
    PROVE  /\ BucketOf(k) \in Bucket
           /\ BucketOf(k).lastRefill \in 0..now
           /\ k \in DOMAIN buckets => BucketOf(k) = buckets[k]
           /\ k \notin DOMAIN buckets =>
                  BucketOf(k) = [tokens |-> Burst, lastRefill |-> now, lastUsed |-> now]
  BY LimiterAssumption DEF TypeOK, BucketOf, Bucket

LEMMA RefillFacts ==
    ASSUME TypeOK, NEW b \in Bucket, b.lastRefill <= now
    PROVE  /\ Refill(b) \in Bucket
           /\ Refill(b).tokens = Least(Burst, b.tokens + (now - b.lastRefill) * Rate)
           /\ Refill(b).lastRefill = now /\ Refill(b).lastUsed = now
  <1>1. now \in 0..MaxTime /\ now - b.lastRefill \in Nat /\ b.tokens \in Nat
    BY LimiterAssumption DEF TypeOK, Bucket
  <1>2. (now - b.lastRefill) * Rate \in Nat
    BY <1>1, LimiterAssumption, Earned
  <1>3. Least(Burst, b.tokens + (now - b.lastRefill) * Rate) \in 0..Burst
    <2> DEFINE sum == b.tokens + (now - b.lastRefill) * Rate
    <2>1. sum \in Nat
      BY <1>1, <1>2
    <2> HIDE DEF sum
    <2>2. Least(Burst, sum) \in 0..Burst
      BY <2>1, LimiterAssumption, LeastFacts
    <2> QED
      BY <2>2 DEF sum
  <1> QED
    BY <1>1, <1>3 DEF Refill, Bucket

\* What a client may spend, by the state of its bucket.
CreditByBucket ==
    \A k \in Keys :
        /\ Credit[k] \in 0..Burst
        /\ k \notin DOMAIN buckets => Credit[k] = Burst
        /\ k \in DOMAIN buckets =>
               Credit[k] = Least(Burst, buckets[k].tokens
                                          + (now - buckets[k].lastRefill) * Rate)

LEMMA CreditFacts == TypeOK => CreditByBucket
  <1> SUFFICES ASSUME TypeOK, NEW k \in Keys
               PROVE  /\ Credit[k] \in 0..Burst
                      /\ k \notin DOMAIN buckets => Credit[k] = Burst
                      /\ k \in DOMAIN buckets =>
                             Credit[k] = Least(Burst, buckets[k].tokens
                                                 + (now - buckets[k].lastRefill) * Rate)
    BY DEF CreditByBucket
  <1>1. /\ Credit[k] = Least(Burst, BucketOf(k).tokens + (now - BucketOf(k).lastRefill) * Rate)
        /\ Refill(BucketOf(k)) \in Bucket
    BY BucketFacts, RefillFacts DEF Credit, TypeOK
  <1>2. Credit[k] \in 0..Burst
    BY <1>1 DEF Credit, Bucket
  <1>3. CASE k \in DOMAIN buckets
    BY <1>1, <1>2, <1>3, BucketFacts
  <1>4. CASE k \notin DOMAIN buckets
    <2>1. BucketOf(k).tokens = Burst /\ BucketOf(k).lastRefill = now
      BY <1>4, BucketFacts
    <2>2. now - now = 0 /\ 0 * Rate = 0
      BY LimiterAssumption DEF TypeOK
    <2>3. Burst + (now - now) * Rate = Burst
      BY <2>2, LimiterAssumption
    <2> QED
      BY <1>1, <1>2, <1>4, <2>1, <2>3 DEF Least
  <1> QED
    BY <1>3, <1>4

LEMMA CreditFactsNext == TypeOK' => CreditByBucket'
  BY CreditFacts, PTL

-----------------------------------------------------------------------------
(* What each step does to the types and to the credit.                     *)

LEMMA TickStep ==
    ASSUME TypeOK, Tick
    PROVE  /\ TypeOK'
           /\ Credit' = [k \in Keys |-> Least(Burst, Credit[k] + Rate)]
  <1>1. now < MaxTime /\ now' = now + 1 /\ buckets' = buckets /\ granted' = granted
        /\ answer' = NoAnswer
    BY DEF Tick
  <1>2. TypeOK'
    BY <1>1, LimiterAssumption DEF TypeOK, Bucket
  <1>3. ASSUME NEW k \in Keys
        PROVE  Credit'[k] = Least(Burst, Credit[k] + Rate)
    <2>1. CASE k \notin DOMAIN buckets
      <3>1. Credit[k] = Burst
        BY <2>1, CreditFacts DEF CreditByBucket
      <3>2. Credit'[k] = Burst
        BY <1>1, <1>2, <2>1, CreditFactsNext DEF CreditByBucket
      <3> QED
        BY <3>1, <3>2, LimiterAssumption DEF Least
    <2>2. CASE k \in DOMAIN buckets
      <3> DEFINE t == buckets[k].tokens
                 d == now - buckets[k].lastRefill
      <3>1. t \in Nat /\ d \in Nat /\ now \in Nat /\ buckets[k].lastRefill \in Nat
        BY <2>2, LimiterAssumption DEF TypeOK, Bucket
      <3>2. Credit[k] = Least(Burst, t + d * Rate)
        BY <2>2, CreditFacts DEF CreditByBucket
      <3>3. now' - buckets'[k].lastRefill = d + 1 /\ buckets'[k].tokens = t
        BY <1>1, <3>1
      <3>4. Credit'[k] = Least(Burst, t + (d + 1) * Rate)
        BY <1>1, <1>2, <2>2, <3>3, CreditFactsNext DEF CreditByBucket
      <3>5. d * Rate \in Nat /\ (d + 1) * Rate = d * Rate + Rate
        BY <3>1, LimiterAssumption, Earned
      <3> HIDE DEF t, d
      <3> QED
        BY <3>1, <3>2, <3>4, <3>5, LimiterAssumption DEF Least
    <2> QED
      BY <2>1, <2>2
  <1> QED
    BY <1>2, <1>3 DEF Credit

LEMMA PruneType ==
    ASSUME TypeOK, Prune
    PROVE  TypeOK'
  <1>1. /\ now' = now /\ granted' = granted /\ answer' = answer
        /\ DOMAIN buckets' = {j \in DOMAIN buckets : ~Stale(buckets[j])}
        /\ \A k \in DOMAIN buckets' : buckets'[k] = buckets[k]
    BY DEF Prune
  <1> QED
    BY <1>1 DEF TypeOK

LEMMA PruneStep ==
    ASSUME TypeOK, PruneIsSafe, Prune
    PROVE  TypeOK' /\ Credit' = Credit
  <1>1. /\ now' = now /\ granted' = granted /\ answer' = answer
        /\ DOMAIN buckets' = {j \in DOMAIN buckets : ~Stale(buckets[j])}
        /\ \A k \in DOMAIN buckets' : buckets'[k] = buckets[k]
    BY DEF Prune
  <1>2. TypeOK'
    BY PruneType
  <1>3. ASSUME NEW k \in Keys
        PROVE  Credit'[k] = Credit[k]
    <2>1. CASE k \in DOMAIN buckets'
      BY <1>1, <1>2, <2>1, CreditFacts, CreditFactsNext DEF CreditByBucket
    <2>2. CASE k \notin DOMAIN buckets' /\ k \in DOMAIN buckets
      <3> DEFINE t == buckets[k].tokens
                 d == now - buckets[k].lastRefill
      <3>1. t \in Nat /\ d \in Nat /\ MaxIdle < d
        BY <1>1, <2>2, LimiterAssumption DEF TypeOK, Bucket, Stale
      <3>2. d * Rate \in Nat /\ MaxIdle * Rate <= d * Rate
        BY <3>1, LimiterAssumption, Earned, MoreTime
      <3>3. Burst <= t + d * Rate
        <4> HIDE DEF t, d
        <4>1. MaxIdle * Rate \in Nat
          BY LimiterAssumption, Earned
        <4> QED
          BY <3>1, <3>2, <4>1, LimiterAssumption DEF PruneIsSafe
      <3>4. Credit[k] = Least(Burst, t + d * Rate)
        BY <2>2, CreditFacts DEF CreditByBucket
      <3>5. Credit[k] = Burst
        BY <3>3, <3>4 DEF Least
      <3>6. Credit'[k] = Burst
        BY <1>2, <2>2, CreditFactsNext DEF CreditByBucket
      <3> QED
        BY <3>5, <3>6
    <2>3. CASE k \notin DOMAIN buckets
      BY <1>1, <1>2, <2>3, CreditFacts, CreditFactsNext DEF CreditByBucket
    <2> QED
      BY <2>1, <2>2, <2>3
  <1> QED
    BY <1>2, <1>3 DEF Credit

LEMMA AllowStep ==
    ASSUME TypeOK, NEW k \in Keys, Allow(k)
    PROVE  /\ TypeOK'
           /\ IF Credit[k] >= Cost
              THEN /\ Credit' = [Credit EXCEPT ![k] = @ - Cost]
                   /\ granted' = [granted EXCEPT ![k] = @ + 1]
                   /\ answer' = [key |-> k, ok |-> TRUE]
              ELSE /\ Credit' = Credit /\ granted' = granted
                   /\ answer' = [key |-> k, ok |-> FALSE]
           /\ now' = now
  <1> DEFINE b == Refill(BucketOf(k))
             left == IF Credit[k] >= Cost THEN Credit[k] - Cost ELSE Credit[k]
  <1>1. b \in Bucket /\ b.tokens = Credit[k] /\ b.lastRefill = now /\ b.lastUsed = now
    BY BucketFacts, RefillFacts DEF Credit, TypeOK
  <1>2. Credit[k] \in 0..Burst /\ left \in 0..Burst
    BY CreditFacts, LimiterAssumption DEF CreditByBucket
  <1>3. /\ now' = now
        /\ granted' = (IF Credit[k] >= Cost THEN [granted EXCEPT ![k] = @ + 1] ELSE granted)
        /\ answer' = [key |-> k, ok |-> Credit[k] >= Cost]
        /\ DOMAIN buckets' = DOMAIN buckets \cup {k}
        /\ \A j \in DOMAIN buckets \ {k} : buckets'[j] = buckets[j]
        /\ buckets'[k] = (IF Credit[k] >= Cost THEN [b EXCEPT !.tokens = @ - Cost] ELSE b)
    BY <1>1 DEF Allow
  <1>4. /\ buckets'[k].tokens = left /\ buckets'[k].lastRefill = now
        /\ buckets'[k].lastUsed = now /\ buckets'[k] \in Bucket
    <2> HIDE DEF b
    <2>1. CASE Credit[k] >= Cost
      BY <1>1, <1>2, <1>3, <2>1 DEF Bucket
    <2>2. CASE ~(Credit[k] >= Cost)
      BY <1>1, <1>2, <1>3, <2>2 DEF Bucket
    <2> QED
      BY <2>1, <2>2
  <1> HIDE DEF b, left
  <1>5. TypeOK'
    <2>1. granted' \in [Keys -> Nat]
      BY <1>3 DEF TypeOK
    <2>2. answer' \in [key : Keys, ok : BOOLEAN]
      BY <1>3
    <2>3. DOMAIN buckets' \subseteq Keys /\ now' \in 0..MaxTime
      BY <1>3 DEF TypeOK
    <2>4. ASSUME NEW j \in DOMAIN buckets'
          PROVE  /\ buckets'[j] \in Bucket /\ buckets'[j].lastRefill <= now'
                 /\ buckets'[j].lastUsed = buckets'[j].lastRefill
      <3>1. CASE j = k
        <4>1. now \in Nat /\ now' = now
          BY <1>3 DEF TypeOK
        <4> QED
          BY <1>4, <3>1, <4>1
      <3>2. CASE j # k
        BY <1>3, <3>2 DEF TypeOK
      <3> QED
        BY <3>1, <3>2
    <2> QED
      BY <2>1, <2>2, <2>3, <2>4 DEF TypeOK
  <1>6. Credit'[k] = left
    <2>1. k \in DOMAIN buckets'
      BY <1>3
    <2>2. Credit'[k] = Least(Burst, left + (now' - buckets'[k].lastRefill) * Rate)
      BY <1>4, <1>5, <2>1, CreditFactsNext DEF CreditByBucket
    <2>3. (now' - buckets'[k].lastRefill) * Rate = 0
      BY <1>3, <1>4, LimiterAssumption DEF TypeOK
    <2> QED
      BY <1>2, <2>2, <2>3, LimiterAssumption DEF Least
  <1>7. ASSUME NEW j \in Keys, j # k
        PROVE  Credit'[j] = Credit[j]
    <2>1. CASE j \in DOMAIN buckets
      BY <1>3, <1>5, <1>7, <2>1, CreditFacts, CreditFactsNext DEF CreditByBucket
    <2>2. CASE j \notin DOMAIN buckets
      BY <1>3, <1>5, <1>7, <2>2, CreditFacts, CreditFactsNext DEF CreditByBucket
    <2> QED
      BY <2>1, <2>2
  <1>8. Credit' = [j \in Keys |-> IF j = k THEN left ELSE Credit[j]]
    BY <1>6, <1>7 DEF Credit
  <1>9. CASE Credit[k] >= Cost
    <2>1. Credit' = [Credit EXCEPT ![k] = @ - Cost]
      BY <1>8, <1>9 DEF left, Credit
    <2>2. answer' = [key |-> k, ok |-> TRUE]
      BY <1>3, <1>9
    <2>3. now' = now /\ granted' = [granted EXCEPT ![k] = @ + 1]
      BY <1>3, <1>9
    <2> QED
      BY <1>5, <1>9, <2>1, <2>2, <2>3
  <1>10. CASE ~(Credit[k] >= Cost)
    <2>1. Credit' = Credit
      BY <1>8, <1>10 DEF left, Credit
    <2>2. answer' = [key |-> k, ok |-> FALSE]
      <3>1. (Credit[k] >= Cost) = FALSE
        BY <1>2, <1>10, LimiterAssumption, SMT
      <3>2. answer' = [key |-> k, ok |-> Credit[k] >= Cost]
        BY <1>3, Zenon
      <3> DEFINE paid == Credit[k] >= Cost
      <3>3. paid = FALSE /\ answer' = [key |-> k, ok |-> paid]
        BY <3>1, <3>2, Zenon
      <3> HIDE DEF paid
      <3> QED
        BY <3>3
    <2>3. now' = now
      BY <1>3
    <2>4. granted' = granted
      BY <1>3, <1>10, Zenon
    <2> QED
      BY <1>5, <1>10, <2>1, <2>2, <2>3, <2>4
  <1> QED
    BY <1>9, <1>10

-----------------------------------------------------------------------------
(* What a client has been granted and what it can still spend never exceed *)
(* the burst and what time has earned.                                     *)

IInv ==
    /\ TypeOK
    /\ \A k \in Keys : granted[k] * Cost + Credit[k] <= Burst + now * Rate

LEMMA InitCredit == Init => \A k \in Keys : Credit[k] = Burst
  <1> SUFFICES ASSUME Init, NEW k \in Keys PROVE Credit[k] = Burst
    OBVIOUS
  <1>1. TypeOK /\ DOMAIN buckets = {}
    BY InitType DEF Init
  <1> QED
    BY <1>1, CreditFacts DEF CreditByBucket

LEMMA InitInv == Init => IInv
  <1> SUFFICES ASSUME Init PROVE IInv
    OBVIOUS
  <1>1. TypeOK
    BY InitType
  <1>2. ASSUME NEW k \in Keys
        PROVE  granted[k] * Cost + Credit[k] <= Burst + now * Rate
    <2>1. granted[k] = 0 /\ now = 0 /\ Credit[k] = Burst
      BY InitCredit DEF Init
    <2>2. 0 * Cost = 0 /\ 0 * Rate = 0
      BY LimiterAssumption, Earned
    <2> QED
      BY <2>1, <2>2, LimiterAssumption
  <1> QED
    BY <1>1, <1>2 DEF IInv

LEMMA StutterType == TypeOK /\ UNCHANGED vars => TypeOK'
  BY DEF TypeOK, vars

LEMMA StutterCredit == UNCHANGED vars => Credit' = Credit
  BY DEF vars, Credit, Refill, BucketOf

LEMMA StepInv ==
    ASSUME PruneIsSafe
    PROVE  IInv /\ [Next]_vars => IInv'
  <1> SUFFICES ASSUME IInv, [Next]_vars PROVE IInv'
    OBVIOUS
  <1> USE LimiterAssumption
  <1>0. TypeOK
    BY DEF IInv
  <1> DEFINE Bound(k) == granted[k] * Cost + Credit[k] <= Burst + now * Rate
  <1>a. ASSUME NEW k \in Keys
        PROVE  /\ Credit[k] \in Nat /\ granted[k] \in Nat /\ now \in Nat
               /\ granted[k] * Cost \in Nat /\ now * Rate \in Nat
               /\ Bound(k)
    <2>1. Credit[k] \in Nat /\ granted[k] \in Nat /\ now \in Nat
      BY <1>0, CreditFacts DEF CreditByBucket, TypeOK
    <2> QED
      BY <2>1, Earned DEF IInv
  <1>1. CASE Tick
    <2>1. TypeOK' /\ Credit' = [k \in Keys |-> Least(Burst, Credit[k] + Rate)]
      BY <1>0, <1>1, TickStep
    <2>2. now' = now + 1 /\ granted' = granted
      BY <1>1 DEF Tick
    <2>3. ASSUME NEW k \in Keys
          PROVE  Bound(k)'
      <3>1. Credit'[k] \in Nat /\ Credit'[k] <= Credit[k] + Rate
        <4>1. Credit[k] + Rate \in Nat
          BY <1>a
        <4> QED
          BY <2>1, <4>1, LeastFacts
      <3>2. (now + 1) * Rate = now * Rate + Rate
        BY <1>a, Earned
      <3> DEFINE g == granted[k] * Cost
                 e == now * Rate
      <3>3. g \in Nat /\ e \in Nat /\ g + Credit[k] <= Burst + e
        BY <1>a
      <3> HIDE DEF g, e
      <3>4. g + Credit'[k] <= Burst + (e + Rate)
        BY <1>a, <3>1, <3>3
      <3> QED
        BY <2>2, <3>2, <3>4 DEF g, e
    <2> QED
      BY <2>1, <2>3 DEF IInv
  <1>2. CASE Prune
    <2>1. TypeOK' /\ Credit' = Credit
      BY <1>0, <1>2, PruneStep
    <2>2. now' = now /\ granted' = granted
      BY <1>2 DEF Prune
    <2> QED
      BY <2>1, <2>2 DEF IInv
  <1>3. ASSUME NEW k \in Keys, Allow(k)
        PROVE  IInv'
    <2>1. TypeOK' /\ now' = now
      BY <1>0, <1>3, AllowStep
    <2>2. CASE Credit[k] >= Cost
      <3>1. Credit' = [Credit EXCEPT ![k] = @ - Cost]
        BY <1>0, <1>3, <2>2, AllowStep
      <3>2. granted' = [granted EXCEPT ![k] = @ + 1]
        BY <1>0, <1>3, <2>2, AllowStep
      <3>3. ASSUME NEW j \in Keys
            PROVE  Bound(j)'
        <4>1. CASE j # k
          <5>1. Credit'[j] = Credit[j] /\ granted'[j] = granted[j]
            BY <1>0, <3>1, <3>2, <4>1 DEF Credit, TypeOK
          <5> QED
            BY <1>a, <2>1, <5>1
        <4>2. CASE j = k
          <5>1. Credit'[k] = Credit[k] - Cost /\ granted'[k] = granted[k] + 1
            BY <1>0, <3>1, <3>2 DEF Credit, TypeOK
          <5>2. (granted[k] + 1) * Cost = granted[k] * Cost + Cost
            BY <1>a, Earned
          <5> DEFINE g == granted[k] * Cost
                     e == now * Rate
          <5>3. g \in Nat /\ e \in Nat /\ g + Credit[k] <= Burst + e
            BY <1>a
          <5> HIDE DEF g, e
          <5>4. (g + Cost) + (Credit[k] - Cost) <= Burst + e
            BY <1>a, <5>3
          <5> QED
            BY <2>1, <4>2, <5>1, <5>2, <5>4 DEF g, e
        <4> QED
          BY <4>1, <4>2
      <3> QED
        BY <2>1, <3>3 DEF IInv
    <2>3. CASE ~(Credit[k] >= Cost)
      <3>1. Credit' = Credit /\ granted' = granted
        BY <1>0, <1>3, <2>3, AllowStep
      <3> QED
        BY <2>1, <3>1 DEF IInv
    <2> QED
      BY <2>2, <2>3
  <1>4. CASE UNCHANGED vars
    <2>1. now' = now /\ granted' = granted
      BY <1>4 DEF vars
    <2> QED
      BY <1>0, <1>4, <2>1, StutterType, StutterCredit DEF IInv
  <1> QED
    BY <1>1, <1>2, <1>3, <1>4 DEF Next

-----------------------------------------------------------------------------
(* The theorems.                                                           *)

\* The dictionary keeps well formed buckets, none refilled in the future.
THEOREM TypeCorrect == Spec => []TypeOK
  <1>1. TypeOK /\ [Next]_vars => TypeOK'
    BY TickStep, PruneType, AllowStep, StutterType DEF Next
  <1> QED
    BY <1>1, InitType, PTL DEF Spec

\* With a prune interval in which an empty bucket fills, a client gets its burst
\* and what the rate has earned it, and no more, however long the server runs.
THEOREM NeverOverRate ==
    ASSUME PruneIsSafe
    PROVE  Spec => []WithinRate
  <1>1. IInv => WithinRate
    <2> SUFFICES ASSUME IInv, NEW k \in Keys
                 PROVE  granted[k] * Cost <= Burst + now * Rate
      BY DEF WithinRate
    <2>1. Credit[k] \in Nat /\ granted[k] \in Nat /\ now \in Nat
      BY LimiterAssumption, CreditFacts DEF IInv, CreditByBucket, TypeOK
    <2>2. granted[k] * Cost \in Nat /\ now * Rate \in Nat
      BY <2>1, LimiterAssumption, Earned
    <2>3. granted[k] * Cost + Credit[k] <= Burst + now * Rate
      BY DEF IInv
    <2> QED
      BY <2>1, <2>2, <2>3, LimiterAssumption
  <1> QED
    BY <1>1, InitInv, StepInv, PTL DEF Spec

\* Under the same condition the lazy dictionary answers every request as
\* buckets that fill all the time would.
THEOREM RefinesBuckets ==
    ASSUME PruneIsSafe
    PROVE  Spec => ImplementsBuckets
  <1>1. Init => Ideal!Init
    BY InitCredit, Zenon DEF Init, Ideal!Init, Credit, NoAnswer, Ideal!NoAnswer
  <1>2. TypeOK /\ [Next]_vars => [Ideal!Next]_(Ideal!vars)
    <2> SUFFICES ASSUME TypeOK, [Next]_vars
                 PROVE  [Ideal!Next]_(Ideal!vars)
      OBVIOUS
    <2>1. CASE Tick
      <3>1. Ideal!Tick
        BY <2>1, TickStep DEF Tick, Ideal!Tick, Least, Ideal!Least, NoAnswer, Ideal!NoAnswer
      <3> QED
        BY <3>1 DEF Ideal!Next
    <2>2. CASE Prune
      BY <2>2, PruneStep DEF Prune, Ideal!vars
    <2>3. ASSUME NEW k \in Keys, Allow(k)
          PROVE  Ideal!Next
      <3>1. CASE Credit[k] >= Cost
        BY <2>3, <3>1, AllowStep DEF Ideal!Next, Ideal!Grant
      <3>2. CASE ~(Credit[k] >= Cost)
        <4>1. Credit[k] < Cost
          BY <3>2, LimiterAssumption, CreditFacts DEF CreditByBucket
        <4> QED
          BY <2>3, <3>2, <4>1, AllowStep DEF Ideal!Next, Ideal!Refuse
      <3> QED
        BY <3>1, <3>2
    <2>4. CASE UNCHANGED vars
      BY <2>4, StutterCredit DEF vars, Ideal!vars
    <2> QED
      BY <2>1, <2>2, <2>3, <2>4 DEF Next
  <1> QED
    BY <1>1, <1>2, TypeCorrect, PTL DEF Spec, ImplementsBuckets, Ideal!Spec

=============================================================================

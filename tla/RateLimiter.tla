----------------------------- MODULE RateLimiter -----------------------------
(***************************************************************************)
(* RateLimiter and TokenBucket of src/src/momiji/limits.py: buckets made   *)
(* on a client's first request, refilled only when they are asked, and     *)
(* dropped by the periodic prune.  The clock is time.monotonic in whole    *)
(* ticks and credit is in whole units, so that arithmetic is exact.        *)
(***************************************************************************)
EXTENDS Naturals

CONSTANTS
    Keys,     \* client addresses
    Rate,     \* units a bucket gains per tick
    Burst,    \* its capacity
    Cost,     \* units a request costs
    MaxIdle,  \* prune drops the buckets unused for longer than this
    MaxTime   \* bound on the clock

ASSUME LimiterAssumption == /\ Rate \in Nat /\ Burst \in Nat /\ Cost \in Nat
                            /\ MaxIdle \in Nat /\ MaxTime \in Nat

VARIABLES
    now,      \* time.monotonic()
    buckets,  \* the limiter's dictionary: tokens, last_refill and last_used by key
    granted,  \* history: requests let through, by key
    answer    \* the answer of the last allow in this tick
vars == <<now, buckets, granted, answer>>

Least(a, b) == IF a <= b THEN a ELSE b

NoAnswer == [key |-> "none", ok |-> FALSE]

Bucket == [tokens : 0..Burst, lastRefill : 0..MaxTime, lastUsed : 0..MaxTime]

Init ==
    /\ now = 0
    /\ buckets = [k \in {} |-> [tokens |-> Burst, lastRefill |-> 0, lastUsed |-> 0]]
    /\ granted = [k \in Keys |-> 0]
    /\ answer = NoAnswer

Tick ==
    /\ now < MaxTime
    /\ now' = now + 1
    /\ answer' = NoAnswer
    /\ UNCHANGED <<buckets, granted>>

\* Mutant: a refill that does not move last_refill counts the same time twice.
RefillWithoutStamp(b) ==
    [b EXCEPT !.tokens = Least(Burst, @ + (now - b.lastRefill) * Rate), !.lastUsed = now]

\* The first half of TokenBucket.allow.
Refill(b) ==
    [tokens     |-> Least(Burst, b.tokens + (now - b.lastRefill) * Rate),
     lastRefill |-> now,
     lastUsed   |-> now]

\* The bucket RateLimiter.allow asks: a client's first one is full.
BucketOf(k) ==
    IF k \in DOMAIN buckets
    THEN buckets[k]
    ELSE [tokens |-> Burst, lastRefill |-> now, lastUsed |-> now]

\* RateLimiter.allow: a request costs nothing when it is refused.
Allow(k) ==
    LET b == Refill(BucketOf(k))
        ok == b.tokens >= Cost
    IN  /\ buckets' = [j \in DOMAIN buckets \cup {k} |->
                          IF j # k THEN buckets[j]
                          ELSE IF ok THEN [b EXCEPT !.tokens = @ - Cost] ELSE b]
        /\ granted' = IF ok THEN [granted EXCEPT ![k] = @ + 1] ELSE granted
        /\ answer' = [key |-> k, ok |-> ok]
        /\ UNCHANGED now

\* Mutant: prune drops the buckets in use.
UsedRecently(b) == now - b.lastUsed <= MaxIdle

Stale(b) == now - b.lastUsed > MaxIdle

\* RateLimiter.prune, called by prune_rate_limiter every minute.
Prune ==
    /\ buckets' = [k \in {j \in DOMAIN buckets : ~Stale(buckets[j])} |-> buckets[k]]
    /\ UNCHANGED <<now, granted, answer>>

Next == Tick \/ Prune \/ \E k \in Keys : Allow(k)

Spec == Init /\ [][Next]_vars

-----------------------------------------------------------------------------
TypeOK ==
    /\ now \in 0..MaxTime
    /\ DOMAIN buckets \subseteq Keys
    /\ \A k \in DOMAIN buckets : /\ buckets[k] \in Bucket
                                 /\ buckets[k].lastRefill <= now
                                 /\ buckets[k].lastUsed = buckets[k].lastRefill
    /\ granted \in [Keys -> Nat]
    /\ answer \in {NoAnswer} \cup [key : Keys, ok : BOOLEAN]

\* What a client may spend now: a bucket that is not there counts as full.
Credit == [k \in Keys |-> Refill(BucketOf(k)).tokens]

Ideal == INSTANCE TokenBuckets WITH credit <- Credit

\* Lazy refills and pruning cannot be told from buckets that fill all the time:
\* neither gives a client a request too many nor refuses one it has earned.
ImplementsBuckets == Ideal!Spec

\* However requests, refusals and prunes fall, a client gets its burst and what
\* the rate has earned it since the start, and no more.
WithinRate == \A k \in Keys : granted[k] * Cost <= Burst + now * Rate

\* A bucket is dropped only when it would be full by now.
PruneIsSafe == Burst <= MaxIdle * Rate

=============================================================================

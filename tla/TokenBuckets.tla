---------------------------- MODULE TokenBuckets ----------------------------
(***************************************************************************)
(* What the rate limiter promises: every client has a bucket of its own    *)
(* that starts full, fills at a constant rate and pays for each request    *)
(* let through.  RateLimiter.tla, which keeps buckets only for clients it  *)
(* has seen and refills them when asked, implements this.                  *)
(***************************************************************************)
EXTENDS Naturals

CONSTANTS
    Keys,     \* client addresses
    Rate,     \* units of credit a bucket gains per tick
    Burst,    \* units a full bucket holds
    Cost,     \* units a request costs (the code's 1.0 token)
    MaxTime   \* bound on the clock

VARIABLES
    now,      \* the clock
    credit,   \* what each client may spend
    granted,  \* history: requests let through, by client
    answer    \* the last answer given in this tick
vars == <<now, credit, granted, answer>>

NoAnswer == [key |-> "none", ok |-> FALSE]

Least(a, b) == IF a <= b THEN a ELSE b

Init ==
    /\ now = 0
    /\ credit = [k \in Keys |-> Burst]
    /\ granted = [k \in Keys |-> 0]
    /\ answer = NoAnswer

Tick ==
    /\ now < MaxTime
    /\ now' = now + 1
    /\ credit' = [k \in Keys |-> Least(Burst, credit[k] + Rate)]
    /\ answer' = NoAnswer
    /\ UNCHANGED granted

\* A client that can pay is let through.
Grant(k) ==
    /\ credit[k] >= Cost
    /\ credit' = [credit EXCEPT ![k] = @ - Cost]
    /\ granted' = [granted EXCEPT ![k] = @ + 1]
    /\ answer' = [key |-> k, ok |-> TRUE]
    /\ UNCHANGED now

\* One that cannot is refused, and loses nothing by it.
Refuse(k) ==
    /\ credit[k] < Cost
    /\ answer' = [key |-> k, ok |-> FALSE]
    /\ UNCHANGED <<now, credit, granted>>

Next == Tick \/ \E k \in Keys : Grant(k) \/ Refuse(k)

Spec == Init /\ [][Next]_vars

=============================================================================

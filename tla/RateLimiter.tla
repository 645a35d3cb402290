----------------------------- MODULE RateLimiter -----------------------------
(***************************************************************************)
(* RateLimiter: a fixed-window counter per key (endpoint and host), kept   *)
(* in memory, and the Retry-After header the routes derive from it.        *)
(*                                                                         *)
(* consume runs on the event loop and does not await, so it is one step,   *)
(* of the module RequestGate.  The clock counts in units finer than a      *)
(* second, since the header rounds what is left of a window to whole       *)
(* seconds.                                                                *)
(***************************************************************************)
EXTENDS Naturals, Functions

CONSTANTS
    MaxRequests,  \* RATE_LIMIT_MAX_REQUESTS
    Window,       \* RATE_LIMIT_WINDOW_MS, in clock units
    Second,       \* clock units in a second
    MaxTime       \* bound on the clock

ASSUME RateAssumption ==
    /\ MaxRequests \in Nat /\ MaxTime \in Nat \ {0}
    /\ Window \in Nat \ {0} /\ Second \in Nat \ {0}

VARIABLES
    now,
    buckets  \* per key with a window: the requests counted, and its end

NoBuckets == [k \in {} |-> k]

\* The first request of a window is admitted whatever MaxRequests is.
Limit == IF MaxRequests = 0 THEN 1 ELSE MaxRequests

SweptEarly(k) ==
    Restrict(buckets,
             {x \in DOMAIN buckets : buckets[x].resetAt > now + 1 \/ x = k})

\* consume first drops the lapsed buckets of all other keys.
Swept(k) ==
    Restrict(buckets, {x \in DOMAIN buckets : buckets[x].resetAt > now \/ x = k})

\* The request opens a new window.
Opens(k) == k \in DOMAIN buckets => buckets[k].resetAt <= now

AdmitsOneMore(k) == ~Opens(k) => buckets[k].count <= MaxRequests

Admits(k) == ~Opens(k) => buckets[k].count < MaxRequests

Counted(k) == IF Opens(k) THEN [count |-> 1, resetAt |-> now + Window]
              ELSE [buckets[k] EXCEPT !.count = @ + 1]

\* consume, when it admits the request and when it does not
Admit(k) ==
    /\ Admits(k)
    /\ buckets' = [x \in DOMAIN Swept(k) \cup {k} |->
                      IF x = k THEN Counted(k) ELSE Swept(k)[x]]

Refuse(k) == ~Admits(k) /\ buckets' = Swept(k)

RetryAfterFloor(k) == (buckets[k].resetAt - now) \div Second

\* Retry-After: what is left of the window in whole seconds, but at least one.
RetryAfter(k) ==
    LET seconds == (buckets[k].resetAt - now) \div Second
    IN  IF seconds = 0 THEN 1 ELSE seconds
=============================================================================

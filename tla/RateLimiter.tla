------------------------------ MODULE RateLimiter ------------------------------
(***************************************************************************)
(* The rate limiter of the gateway for one caller of one endpoint          *)
(* (gateway/src/rateLimit/rateLimiter.ts, gateway/middleware/rateLimit.ts):*)
(* a counter in Redis for every window of time.                            *)
(***************************************************************************)
EXTENDS Integers, FiniteSets

CONSTANTS
    LimitedCall,    \* requests
    MaxRequests,    \* config.maxRequests
    LastWindow      \* bound

ASSUME RateLimiterConstants == MaxRequests \in Nat /\ LastWindow \in Nat

VARIABLES
    window,         \* the window that is going on
    counters,       \* ratelimit:<identifier>:<endpoint>:<window>; 0: no such key
    expiry,         \* the window in which each counter got its time to live
    limitedPc,      \* where each request is
    keyOf,          \* the window whose counter each request counts in
    countOf,        \* the count each request got
    gone,           \* observation only: the counters that have expired
    unavailable,    \* observation only: requests counted while Redis failed
    late            \* observation only: requests whose INCR reached Redis after its
                    \* window and its counter were over

rateVars == <<window, counters, expiry, limitedPc, keyOf, countOf, gone, unavailable, late>>

\* A counter without a time to live outlasts the behaviour.
Never == LastWindow

RateInit ==
    /\ window = 0
    /\ counters = [w \in 0 .. LastWindow |-> 0]
    /\ expiry = [w \in 0 .. LastWindow |-> Never]
    /\ limitedPc = [c \in LimitedCall |-> "new"]
    /\ keyOf = [c \in LimitedCall |-> 0] /\ countOf = [c \in LimitedCall |-> 0]
    /\ gone = {} /\ unavailable = {} /\ late = {}

LimitedGoto(c, place) == limitedPc' = [limitedPc EXCEPT ![c] = place]

\* buildKey; the INCR is under way.
BuildKey(c) ==
    /\ limitedPc[c] = "new"
    /\ keyOf' = [keyOf EXCEPT ![c] = window]
    /\ LimitedGoto(c, "counting")
    /\ UNCHANGED <<window, counters, expiry, countOf, gone, unavailable, late>>

\* Redis increments and answers in one step, whatever window it has become; one that
\* finds no key begins at 1, and goes on to let the counter expire.
Increment(c) ==
    LET k == keyOf[c]
        count == counters[k] + 1
    IN  /\ limitedPc[c] = "counting"
        /\ counters' = [counters EXCEPT ![k] = count]
        /\ countOf' = [countOf EXCEPT ![c] = count]
        /\ late' = IF window > k /\ k \in gone THEN late \cup {c} ELSE late
        /\ LimitedGoto(c, IF count = 1 THEN "expiring" ELSE "counted")
        /\ UNCHANGED <<window, expiry, keyOf, gone, unavailable>>

\* The command is answered by an error and counts as the first; a transaction
\* that is not answered at all ends the request with a 500, counted or not.
IncrementFails(c) ==
    /\ limitedPc[c] = "counting"
    /\ \/ /\ countOf' = [countOf EXCEPT ![c] = 1]
          /\ unavailable' = unavailable \cup {c}
          /\ LimitedGoto(c, "expiring")
          /\ UNCHANGED counters
       \/ /\ LimitedGoto(c, "error")
          /\ \/ counters' = [counters EXCEPT ![keyOf[c]] = @ + 1]
             \/ UNCHANGED counters
          /\ UNCHANGED <<countOf, unavailable>>
    /\ UNCHANGED <<window, expiry, keyOf, gone, late>>

\* Faulty variant: the time to live is rounded down and ends within the window.
ExpireKeyRoundedDown(c) ==
    /\ limitedPc[c] = "expiring"
    /\ LimitedGoto(c, "counted") /\ expiry' = [expiry EXCEPT ![keyOf[c]] = window - 1]
    /\ UNCHANGED <<window, counters, keyOf, countOf, gone, unavailable, late>>

\* EXPIRE, of the length of a window; it does nothing to a key that is not there.
\* When it fails the request does, and the counter stays for ever.
ExpireKey(c) ==
    /\ limitedPc[c] = "expiring"
    /\ \/ /\ LimitedGoto(c, "counted")
          /\ expiry' = IF counters[keyOf[c]] > 0 THEN [expiry EXCEPT ![keyOf[c]] = window]
                       ELSE expiry
       \/ LimitedGoto(c, "error") /\ UNCHANGED expiry
    /\ UNCHANGED <<window, counters, keyOf, countOf, gone, unavailable, late>>

\* rateLimitMiddleware: next() or 429.
Decide(c) ==
    /\ limitedPc[c] = "counted"
    /\ LimitedGoto(c, IF countOf[c] <= MaxRequests THEN "allowed" ELSE "refused")
    /\ UNCHANGED <<window, counters, expiry, keyOf, countOf, gone, unavailable, late>>

NextWindow ==
    /\ window < LastWindow
    /\ window' = window + 1
    /\ UNCHANGED <<counters, expiry, limitedPc, keyOf, countOf, gone, unavailable, late>>

\* Redis takes a counter away in the window after the one that let it expire, or
\* later.
CounterExpires(w) ==
    /\ window > expiry[w]
    /\ counters' = [counters EXCEPT ![w] = 0]
    /\ expiry' = [expiry EXCEPT ![w] = Never]
    /\ gone' = gone \cup {w}
    /\ UNCHANGED <<window, limitedPc, keyOf, countOf, unavailable, late>>

RateNext ==
    \/ \E c \in LimitedCall :
        BuildKey(c) \/ Increment(c) \/ IncrementFails(c) \/ ExpireKey(c) \/ Decide(c)
    \/ NextWindow
    \/ \E w \in 0 .. LastWindow : CounterExpires(w)

\* No window lets more requests through than its limit, however many arrive at
\* the same time or straddle its end.  Two kinds of request it does not count: one
\* that Redis answered by an error, and one whose INCR was under way until its
\* counter had expired, which begins the window's count again (checkRateLimit).
RateHonoured ==
    \A w \in 0 .. window :
        Cardinality({c \in LimitedCall \ (unavailable \cup late) :
                        limitedPc[c] = "allowed" /\ keyOf[c] = w}) <= MaxRequests
================================================================================

-------------------------------- MODULE Balance --------------------------------
(***************************************************************************)
(* GET /api/v1/wallet/:address/balance of the wallet service               *)
(* (wallet/src/routes.ts) for one valid address: a copy of the answer is   *)
(* kept in Redis for a time.                                               *)
(*                                                                         *)
(* Time advances in ticks, and the balance changes at every one, so that a *)
(* balance is named by the tick it dates from.  The rate limit and the     *)
(* failures of Horizon and Redis are external.                             *)
(***************************************************************************)
EXTENDS Integers

CONSTANTS
    BalanceReader,  \* requests
    CacheTtl,       \* "EX" 10
    Patience,       \* bound: ticks a request may take
    LastTick        \* bound

ASSUME BalanceConstants == CacheTtl \in Nat \ {0} /\ Patience \in Nat /\ LastTick \in Nat

VARIABLES
    tick,
    balanceCache,   \* cache:balance:<address>: [balance, expires]
    balancePc,      \* where each request is
    balanceSeen,    \* the account loaded by each request, or its answer
    balanceStart    \* observation only: when each request began

balanceVars == <<tick, balanceCache, balancePc, balanceSeen, balanceStart>>

BalanceInit ==
    /\ tick = 0
    /\ balanceCache = [balance |-> 0, expires |-> 0]
    /\ balancePc = [r \in BalanceReader |-> "new"]
    /\ balanceSeen = [r \in BalanceReader |-> 0]
    /\ balanceStart = [r \in BalanceReader |-> 0]

BalanceGoto(r, place) == balancePc' = [balancePc EXCEPT ![r] = place]
Cached == balanceCache.expires > tick

\* Faulty variant: a copy that is asked for is kept for longer.
CacheHitExtends(r) ==
    /\ balancePc[r] = "new" /\ Cached
    /\ BalanceGoto(r, "answered")
    /\ balanceSeen' = [balanceSeen EXCEPT ![r] = balanceCache.balance]
    /\ balanceStart' = [balanceStart EXCEPT ![r] = tick]
    /\ balanceCache' = [balanceCache EXCEPT !.expires = tick + CacheTtl]
    /\ UNCHANGED tick

CacheHit(r) ==
    /\ balancePc[r] = "new" /\ Cached
    /\ BalanceGoto(r, "answered")
    /\ balanceSeen' = [balanceSeen EXCEPT ![r] = balanceCache.balance]
    /\ balanceStart' = [balanceStart EXCEPT ![r] = tick]
    /\ UNCHANGED <<tick, balanceCache>>

\* Nothing is cached, or Redis fails, which is only logged.
CacheMiss(r) ==
    /\ balancePc[r] = "new"
    /\ BalanceGoto(r, "loading")
    /\ balanceStart' = [balanceStart EXCEPT ![r] = tick]
    /\ UNCHANGED <<tick, balanceCache, balanceSeen>>

\* Horizon answers; or it does not know the account, limits the rate or fails.
LoadAccount(r) ==
    /\ balancePc[r] = "loading"
    /\ \/ BalanceGoto(r, "caching") /\ balanceSeen' = [balanceSeen EXCEPT ![r] = tick]
       \/ /\ \E status \in {"NOT_FOUND", "SERVICE_UNAVAILABLE", "INTERNAL_ERROR"} :
                BalanceGoto(r, status)
          /\ UNCHANGED balanceSeen
    /\ UNCHANGED <<tick, balanceCache, balanceStart>>

\* The copy is made, or Redis fails; the request is answered either way.
CacheAndAnswer(r) ==
    /\ balancePc[r] = "caching"
    /\ balanceCache' \in {[balance |-> balanceSeen[r], expires |-> tick + CacheTtl],
                          balanceCache}
    /\ BalanceGoto(r, "answered")
    /\ UNCHANGED <<tick, balanceSeen, balanceStart>>

\* A request is done within Patience.
BalanceTick ==
    /\ tick < LastTick
    /\ \A r \in BalanceReader :
        balancePc[r] \in {"loading", "caching"} => tick < balanceStart[r] + Patience
    /\ tick' = tick + 1
    /\ UNCHANGED <<balanceCache, balancePc, balanceSeen, balanceStart>>

BalanceNext ==
    \/ \E r \in BalanceReader :
        CacheHit(r) \/ CacheMiss(r) \/ LoadAccount(r) \/ CacheAndAnswer(r)
    \/ BalanceTick

\* Though a slow request may overwrite a newer copy with an older one, no
\* balance is given out that was out of date for longer than a copy lives
\* and a request takes when the request for it came.
BalanceRecent ==
    \A r \in BalanceReader : balancePc[r] = "answered" =>
        balanceSeen[r] + CacheTtl + Patience > balanceStart[r]
================================================================================

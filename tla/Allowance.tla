------------------------------ MODULE Allowance ------------------------------
(***************************************************************************)
(* What the permissions contract promises to owners and delegates, with no *)
(* merchants, limits per payment, metadata, ledgers or settings in it.  An *)
(* allowance that was granted is open, stopped or over.  Only an open one  *)
(* pays, and never beyond its limit; one that is over stays so until the   *)
(* next grant.  Between grants the limit moves only by a request that has  *)
(* waited, once per request, and never below what was spent.  What happens *)
(* to one pair leaves the others alone, but time passes for all.           *)
(*                                                                         *)
(* A request belongs to the pair: it outlives the grant it was made under, *)
(* waits for as long as it would cut into what was spent, and only a       *)
(* revocation withdraws it.  A limit may also move up, and what was spent  *)
(* down: amounts may be negative.                                          *)
(***************************************************************************)
EXTENDS Integers

CONSTANTS Pair, TimeLock, None

VARIABLES
    state,          \* of each pair: "none", "open", "stopped" or "over"
    limit, spent,
    request,        \* what the owner asked to take off the limit, or None
    now

allowanceVars == <<state, limit, spent, request, now>>

Init ==
    /\ state = [p \in Pair |-> "none"]
    /\ limit = [p \in Pair |-> 0] /\ spent = [p \in Pair |-> 0]
    /\ request = [p \in Pair |-> None]
    /\ now = 0

OthersKeep(p, new, old) == \A q \in Pair \ {p} : new[q] = old[q]

\* A grant of no time is over at once.
Grant(p) ==
    /\ state'[p] \in {"open", "over"} /\ OthersKeep(p, state', state)
    /\ limit'[p] > 0 /\ OthersKeep(p, limit', limit)
    /\ spent' = [spent EXCEPT ![p] = 0]
    /\ UNCHANGED <<request, now>>

Spend(p) ==
    /\ state[p] = "open"
    /\ spent'[p] <= limit[p] /\ OthersKeep(p, spent', spent)
    /\ UNCHANGED <<state, limit, request, now>>

Pause(p) ==
    /\ state[p] = "open"
    /\ state' = [state EXCEPT ![p] = "stopped"]
    /\ UNCHANGED <<limit, spent, request, now>>

Revoke(p) ==
    /\ state[p] # "none"
    /\ state' = [state EXCEPT ![p] = IF @ = "open" THEN "stopped" ELSE @]
    /\ request' = [request EXCEPT ![p] = None]
    /\ UNCHANGED <<limit, spent, now>>

Resume(p) ==
    /\ state[p] = "stopped"
    /\ state' = [state EXCEPT ![p] = "open"]
    /\ UNCHANGED <<limit, spent, request, now>>

Ask(p) ==
    /\ state[p] # "none" /\ request[p] = None
    /\ request'[p] # None /\ request'[p].execution_time = now + TimeLock
    /\ OthersKeep(p, request', request)
    /\ UNCHANGED <<state, limit, spent, now>>

Lower(p) ==
    /\ state[p] # "none" /\ request[p] # None
    /\ now >= request[p].execution_time
    /\ limit' = [limit EXCEPT ![p] = @ - request[p].amount]
    /\ spent[p] <= limit'[p]
    /\ request' = [request EXCEPT ![p] = None]
    /\ UNCHANGED <<state, spent, now>>

\* Time passes, and may end what was granted.
Pass ==
    /\ now' >= now
    /\ \A p \in Pair :
           state'[p] # state[p] => state[p] # "none" /\ state'[p] = "over"
    /\ UNCHANGED <<limit, spent, request>>

Next ==
    \/ \E p \in Pair :
           \/ Grant(p) \/ Spend(p) \/ Pause(p) \/ Revoke(p) \/ Resume(p)
           \/ Ask(p) \/ Lower(p)
    \/ Pass

Spec == Init /\ [][Next]_allowanceVars
=============================================================================

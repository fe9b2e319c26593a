----------------------------- MODULE EscrowAdmin -----------------------------
(***************************************************************************)
(* The administrative half of the Soroban escrow contract                  *)
(* (contracts/escrow/src/lib.rs): who is an administrator, how the primary *)
(* role moves, and the settings administrators control (fee, amount        *)
(* limits, token whitelist, the creation pause).                           *)
(*                                                                         *)
(* A contract invocation is atomic: an Err or a panic rolls every write    *)
(* back, so a rejected call is a step that changes nothing and needs no    *)
(* action.  An address authorises its own calls (require_auth), so an      *)
(* operation is quantified over the address that signs it.                 *)
(*                                                                         *)
(* A soroban Vec whose order no operation observes is modelled as a bag, a *)
(* function from elements to the number of their occurrences: push_back    *)
(* adds one occurrence, remove(first_index_of(x)) takes one away.          *)
(***************************************************************************)
EXTENDS Integers, FiniteSets

CONSTANTS
    Address,        \* every account and contract address
    Token,          \* token contracts
    Admins,         \* addresses that administrators may be drawn from
    Treasury,       \* the address configured to receive fees
    FeeChoices,     \* fee_bps arguments tried
    LimitChoices,   \* <<min_amount, max_amount>> arguments tried
    None            \* an absent Option

MaxFeeBps == 1000

ASSUME AdminConstants ==
    /\ Admins \subseteq Address
    /\ Treasury \in Address
    /\ FeeChoices \subseteq Nat
    /\ LimitChoices \subseteq Int \X Int
    /\ None \notin Address

VARIABLES
    admin,          \* DataKey::Admin, the primary administrator
    adminList,      \* DataKey::AdminList, a bag of co-administrators
    pendingAdmin,   \* DataKey::PendingAdmin
    feeBps,         \* DataKey::FeeConfig, its fee_bps (treasury is constant)
    limits,         \* DataKey::AmountLimits, <<min, max>>; <<0, 0>> before
    whitelist,      \* DataKey::TokenWhitelist, a bag of tokens
    tokenEnabled,   \* DataKey::TokenEnabled(token)
    createPaused,   \* DataKey::PauseState
    proposer        \* observation only: who made the pending proposal

adminVars == <<admin, adminList, pendingAdmin, feeBps, limits, whitelist,
               tokenEnabled, createPaused, proposer>>

Initialized == admin # None
IsAdmin(a) == Initialized /\ (a = admin \/ adminList[a] > 0)
IsTokenAllowed(t) == tokenEnabled[t]
ValidLimits(l) == l[1] > 0 /\ l[2] >= l[1]

AdminTypeOK ==
    /\ admin \in Address \cup {None}
    /\ adminList \in [Address -> Nat]
    /\ pendingAdmin \in Address \cup {None}
    /\ pendingAdmin # None => Initialized
    /\ proposer \in Address \cup {None}
    /\ feeBps \in 0..MaxFeeBps
    /\ limits \in Int \X Int
    /\ Initialized => ValidLimits(limits)
    /\ whitelist \in [Token -> Nat]
    /\ tokenEnabled \in [Token -> BOOLEAN]
    /\ createPaused \in BOOLEAN

AdminInit ==
    /\ admin = None
    /\ adminList = [a \in Address |-> 0]
    /\ pendingAdmin = None
    /\ feeBps = 0
    /\ limits = <<0, 0>>
    /\ whitelist = [t \in Token |-> 0]
    /\ tokenEnabled = [t \in Token |-> FALSE]
    /\ createPaused = FALSE
    /\ proposer = None

-----------------------------------------------------------------------------
(* Faulty variants of some operations, each with one check or one write    *)
(* left out.  No specification uses them: README.md tells which property   *)
(* notices which fault.                                                    *)

SetLimitsUnchecked(caller, l) ==
    /\ IsAdmin(caller)
    /\ limits' = l
    /\ UNCHANGED <<admin, adminList, pendingAdmin, feeBps, whitelist,
                   tokenEnabled, createPaused, proposer>>

RemoveTokenFlagOnly(caller, t) ==
    /\ IsAdmin(caller)
    /\ tokenEnabled' = [tokenEnabled EXCEPT ![t] = FALSE]
    /\ UNCHANGED <<admin, adminList, pendingAdmin, feeBps, limits, whitelist,
                   createPaused, proposer>>

AcceptAdminKeepsPending(caller) ==
    /\ pendingAdmin # None /\ caller = pendingAdmin
    /\ adminList' =
         [adminList EXCEPT ![caller] = IF @ > 0 THEN @ - 1 ELSE @]
    /\ admin' = caller
    /\ UNCHANGED <<pendingAdmin, feeBps, limits, whitelist, tokenEnabled,
                   createPaused, proposer>>

AcceptAdminKeepsListing(caller) ==
    /\ pendingAdmin # None /\ caller = pendingAdmin
    /\ admin' = caller
    /\ pendingAdmin' = None
    /\ proposer' = None
    /\ UNCHANGED <<adminList, feeBps, limits, whitelist, tokenEnabled,
                   createPaused>>

AddCoAdminTwice(caller, coAdmin) ==
    /\ Initialized /\ caller = admin
    /\ coAdmin # admin
    /\ adminList' = [adminList EXCEPT ![coAdmin] = @ + 1]
    /\ UNCHANGED <<admin, pendingAdmin, feeBps, limits, whitelist,
                   tokenEnabled, createPaused, proposer>>

-----------------------------------------------------------------------------

\* initialize is not authenticated: whoever calls it first names the admin.
Initialize(a, fee, l) ==
    /\ ~Initialized
    /\ fee <= MaxFeeBps
    /\ ValidLimits(l)
    /\ admin' = a
    /\ feeBps' = fee
    /\ limits' = l
    /\ UNCHANGED <<adminList, pendingAdmin, whitelist, tokenEnabled,
                   createPaused, proposer>>

SetLimits(caller, l) ==
    /\ IsAdmin(caller)
    /\ ValidLimits(l)
    /\ limits' = l
    /\ UNCHANGED <<admin, adminList, pendingAdmin, feeBps, whitelist,
                   tokenEnabled, createPaused, proposer>>

UpdateFee(caller, fee) ==
    /\ IsAdmin(caller)
    /\ fee <= MaxFeeBps
    /\ feeBps' = fee
    /\ UNCHANGED <<admin, adminList, pendingAdmin, limits, whitelist,
                   tokenEnabled, createPaused, proposer>>

\* Adding a token that is already allowed succeeds and changes nothing.
AddToken(caller, t) ==
    /\ IsAdmin(caller)
    /\ ~IsTokenAllowed(t)
    /\ whitelist' = [whitelist EXCEPT ![t] = @ + 1]
    /\ tokenEnabled' = [tokenEnabled EXCEPT ![t] = TRUE]
    /\ UNCHANGED <<admin, adminList, pendingAdmin, feeBps, limits,
                   createPaused, proposer>>

RemoveToken(caller, t) ==
    /\ IsAdmin(caller)
    /\ whitelist' = [whitelist EXCEPT ![t] = IF @ > 0 THEN @ - 1 ELSE @]
    /\ tokenEnabled' = [tokenEnabled EXCEPT ![t] = FALSE]
    /\ UNCHANGED <<admin, adminList, pendingAdmin, feeBps, limits,
                   createPaused, proposer>>

SetCreatePaused(caller, paused) ==
    /\ IsAdmin(caller)
    /\ createPaused' = paused
    /\ UNCHANGED <<admin, adminList, pendingAdmin, feeBps, limits, whitelist,
                   tokenEnabled, proposer>>

-----------------------------------------------------------------------------
(* The primary role: proposed by the primary, accepted by the candidate.   *)

\* A second proposal replaces the first.
ProposeAdmin(caller, candidate) ==
    /\ Initialized /\ caller = admin
    /\ pendingAdmin' = candidate
    /\ proposer' = caller
    /\ UNCHANGED <<admin, adminList, feeBps, limits, whitelist, tokenEnabled,
                   createPaused>>

\* The candidate leaves the co-admin list; the former primary is not put on
\* it and so loses every role.
AcceptAdmin(caller) ==
    /\ pendingAdmin # None /\ caller = pendingAdmin
    /\ adminList' =
         [adminList EXCEPT ![caller] = IF @ > 0 THEN @ - 1 ELSE @]
    /\ admin' = caller
    /\ pendingAdmin' = None
    /\ proposer' = None
    /\ UNCHANGED <<feeBps, limits, whitelist, tokenEnabled, createPaused>>

CancelAdminTransfer(caller) ==
    /\ Initialized /\ caller = admin
    /\ pendingAdmin # None
    /\ pendingAdmin' = None
    /\ proposer' = None
    /\ UNCHANGED <<admin, adminList, feeBps, limits, whitelist, tokenEnabled,
                   createPaused>>

AddCoAdmin(caller, coAdmin) ==
    /\ Initialized /\ caller = admin
    /\ coAdmin # admin
    /\ adminList[coAdmin] = 0
    /\ adminList' = [adminList EXCEPT ![coAdmin] = @ + 1]
    /\ UNCHANGED <<admin, pendingAdmin, feeBps, limits, whitelist,
                   tokenEnabled, createPaused, proposer>>

RemoveCoAdmin(caller, coAdmin) ==
    /\ Initialized /\ caller = admin
    /\ adminList[coAdmin] > 0
    /\ adminList' = [adminList EXCEPT ![coAdmin] = @ - 1]
    /\ UNCHANGED <<admin, pendingAdmin, feeBps, limits, whitelist,
                   tokenEnabled, createPaused, proposer>>

-----------------------------------------------------------------------------

AdminNext ==
    \/ \E a \in Admins, fee \in FeeChoices, l \in LimitChoices :
           Initialize(a, fee, l)
    \/ \E a \in Address, l \in LimitChoices : SetLimits(a, l)
    \/ \E a \in Address, fee \in FeeChoices : UpdateFee(a, fee)
    \/ \E a \in Address, t \in Token : AddToken(a, t)
    \/ \E a \in Address, t \in Token : RemoveToken(a, t)
    \/ \E a \in Address, p \in BOOLEAN : SetCreatePaused(a, p)
    \/ \E a \in Address, b \in Admins : ProposeAdmin(a, b)
    \/ \E a \in Address : AcceptAdmin(a)
    \/ \E a \in Address : CancelAdminTransfer(a)
    \/ \E a \in Address, b \in Admins : AddCoAdmin(a, b)
    \/ \E a \in Address, b \in Admins : RemoveCoAdmin(a, b)

AdminSpec == AdminInit /\ [][AdminNext]_adminVars

-----------------------------------------------------------------------------
(* Properties.                                                             *)

(* No address is both primary and co-administrator, nobody is listed twice *)
(* and nobody holds a role before initialize, whatever sequence of         *)
(* proposals, acceptances, additions and removals led here.  accept_admin, *)
(* add_co_admin and remove_co_admin each keep a part of it and rely on the *)
(* others for the rest.                                                    *)
RolesDisjoint ==
    /\ \A a \in Address : adminList[a] <= 1
    /\ Initialized => adminList[admin] = 0
    /\ ~Initialized => \A a \in Address : adminList[a] = 0

(* Losing a role takes effect at once: an address that stops being primary *)
(* or is taken off the co-admin list is no administrator in the next state *)
(* (unless that very step made it the primary).  accept_admin and          *)
(* remove_co_admin drop one listing only, so this needs RolesDisjoint.     *)
RevocationTakesEffect ==
    [][\A a \in Address :
           \/ admin = a /\ admin' # a
           \/ adminList'[a] < adminList[a] /\ admin' # a
           => ~IsAdmin(a)']_adminVars

(* A pending transfer was proposed by the present primary: no proposal     *)
(* outlives the administrator who made it, so accept_admin can never hand  *)
(* the contract over on the word of a former primary.                      *)
ProposalIsCurrent == pendingAdmin # None => proposer = admin

(* The two records of the whitelist agree: list_tokens enumerates exactly  *)
(* the tokens deposit accepts, each once, after any sequence of add_token  *)
(* and remove_token.                                                       *)
WhitelistMatchesFlags ==
    \A t \in Token : whitelist[t] = IF tokenEnabled[t] THEN 1 ELSE 0
=============================================================================

----------------------------- MODULE Permissions -----------------------------
(***************************************************************************)
(* The permissions contract (contracts/permissions/src/lib.rs): spending   *)
(* limits an owner grants to a delegate, spends against them, and          *)
(* decrements of the total limit that wait out a time lock.                *)
(*                                                                         *)
(* An invocation is atomic, and a call that ends in an Err or a panic      *)
(* changes nothing.  Each operation below names the address whose          *)
(* authorisation the code demands by its first parameter: the owner or the *)
(* delegate of the pair; execute_decrease_allowance demands none.          *)
(***************************************************************************)
EXTENDS Integers

CONSTANTS
    Address,
    Owners, Delegates,  \* who grants and who is granted
    Merchants,
    MerchantLists,  \* allowed_merchants arguments tried
    Grants,         \* <<limit_total, limit_per_tx>> arguments tried
    Ttls,           \* ttl_ledgers arguments tried
    Spends,         \* amount arguments of execute_spend tried
    Decrements,     \* amount arguments of decrease_allowance tried
    Policies,       \* PermissionMetadata values
    None,           \* an absent Option
    TimeLock,       \* the 86400 seconds a decrement waits
    LedgerTimes,    \* seconds between two ledgers
    MaxLedger,      \* the largest u32 ledger sequence number
    MaxTime,        \* bound: timestamps
    MinSpent,       \* bound: how far negative spends lower spent
    MaxLimit        \* bound: how far negative decrements raise limit_total

ASSUME PermissionsConstants ==
    /\ Owners \subseteq Address /\ Delegates \subseteq Address
    /\ Grants \subseteq Int \X Int
    /\ MerchantLists \subseteq SUBSET Merchants
    /\ Ttls \subseteq Nat /\ LedgerTimes \subseteq Nat
    /\ Spends \subseteq Int /\ Decrements \subseteq Int
    /\ TimeLock \in Nat /\ MaxLedger \in Nat /\ MaxTime \in Nat
    /\ MinSpent \in Int /\ MinSpent <= 0 /\ MaxLimit \in Int
    /\ None \notin Address /\ None \notin Policies

VARIABLES
    perm,           \* DataKey::Permission(owner, delegate), None if absent
    pending,        \* DataKey::PendingDecrement(owner, delegate)
    metadata,       \* DataKey::Metadata(owner, delegate)
    admin,          \* DataKey::Admin
    grantsPaused,   \* DataKey::GrantPauseState
    allowSelf,      \* DataKey::AllowSelfDelegation
    ledger, now,    \* external: ledger sequence number and timestamp
    stopped,        \* observation only: the owner paused or revoked last
    askedAt,        \* observation only: when the last decrement was requested
    policy          \* observation only: the metadata given with the last grant

configVars == <<admin, grantsPaused, allowSelf>>
clockVars == <<ledger, now>>
pairVars == <<perm, pending, metadata, stopped, askedAt, policy>>
vars == <<pairVars, configVars, clockVars>>

Pair == Owners \X Delegates
PermissionStatus == {"Active", "Paused", "Revoked"}   \* Expired is never stored
PermissionRecord ==
    [limit_total : Int, spent : Int, limit_per_tx : Int,
     allowed_merchants : SUBSET Merchants, status : PermissionStatus,
     expires_at_ledger : 0..MaxLedger]
PendingDecrement == [amount : Int, execution_time : Nat]

ASSUME NoneIsNoPermission ==
    None \notin PermissionRecord /\ None \notin PendingDecrement

TypeOK ==
    /\ perm \in [Pair -> PermissionRecord \cup {None}]
    /\ pending \in [Pair -> PendingDecrement \cup {None}]
    /\ metadata \in [Pair -> Policies \cup {None}]
    /\ admin \in Address \cup {None}
    /\ grantsPaused \in BOOLEAN /\ allowSelf \in BOOLEAN
    /\ ledger \in 0..MaxLedger /\ now \in Nat
    /\ stopped \in [Pair -> BOOLEAN]
    /\ askedAt \in [Pair -> Nat]
    /\ policy \in [Pair -> Policies \cup {None}]

Init ==
    /\ perm = [p \in Pair |-> None]
    /\ pending = [p \in Pair |-> None]
    /\ metadata = [p \in Pair |-> None]
    /\ admin = None /\ grantsPaused = FALSE /\ allowSelf = FALSE
    /\ ledger = 0 /\ now = 0
    /\ stopped = [p \in Pair |-> FALSE]
    /\ askedAt = [p \in Pair |-> 0]
    /\ policy = [p \in Pair |-> None]

Exists(p) == perm[p] # None
Remaining(p) == perm[p].limit_total - perm[p].spent
Expired(p) == ledger >= perm[p].expires_at_ledger

-----------------------------------------------------------------------------
(* Faulty variants of some operations; no specification uses them.         *)

\* The per-transaction limit alone is checked.
SpendAllowedPerTx(p, amount, merchant) ==
    /\ Exists(p) /\ perm[p].status = "Active" /\ ~Expired(p)
    /\ amount <= perm[p].limit_per_tx
    /\ perm[p].allowed_merchants # {} => merchant \in perm[p].allowed_merchants

\* A revoked permission is not told from an active one.
SpendAllowedUnlessPaused(p, amount, merchant) ==
    /\ Exists(p) /\ perm[p].status # "Paused" /\ ~Expired(p)
    /\ amount <= perm[p].limit_per_tx /\ amount <= Remaining(p)
    /\ perm[p].allowed_merchants # {} => merchant \in perm[p].allowed_merchants

\* The u32 addition is not checked.
GrantRecordUncheckedTtl(p, total, perTx, merchants, ttl) ==
    /\ ~grantsPaused
    /\ allowSelf \/ p[1] # p[2]
    /\ perTx > 0 /\ total >= perTx
    /\ perm' = [perm EXCEPT ![p] =
                  [limit_total |-> total, spent |-> 0, limit_per_tx |-> perTx,
                   allowed_merchants |-> merchants, status |-> "Active",
                   expires_at_ledger |-> ledger + ttl]]
    /\ stopped' = [stopped EXCEPT ![p] = FALSE]
    /\ UNCHANGED <<pending, askedAt, configVars, clockVars>>

\* A decrement is due at once.
DecreaseAllowanceDueAtOnce(p, amount) ==
    /\ Exists(p) /\ pending[p] = None
    /\ pending' = [pending EXCEPT ![p] =
                     [amount |-> amount, execution_time |-> now]]
    /\ askedAt' = [askedAt EXCEPT ![p] = now]
    /\ UNCHANGED <<perm, metadata, stopped, policy, configVars, clockVars>>

\* What was spent is not looked at.
ExecuteDecreaseAllowanceUnchecked(p) ==
    LET new_limit == perm[p].limit_total - pending[p].amount
    IN  /\ pending[p] # None /\ now >= pending[p].execution_time
        /\ Exists(p) /\ new_limit <= MaxLimit
        /\ perm' = [perm EXCEPT ![p].limit_total = new_limit]
        /\ pending' = [pending EXCEPT ![p] = None]
        /\ UNCHANGED <<metadata, stopped, askedAt, policy, configVars, clockVars>>

-----------------------------------------------------------------------------
(* Grants.                                                                 *)

\* grant writes the record afresh; a pending decrement of an earlier grant
\* and its metadata stay.
GrantRecord(p, total, perTx, merchants, ttl) ==
    /\ ~grantsPaused
    /\ allowSelf \/ p[1] # p[2]
    /\ perTx > 0 /\ total >= perTx
    /\ ledger + ttl <= MaxLedger       \* the u32 addition panics otherwise
    /\ perm' = [perm EXCEPT ![p] =
                  [limit_total |-> total, spent |-> 0, limit_per_tx |-> perTx,
                   allowed_merchants |-> merchants, status |-> "Active",
                   expires_at_ledger |-> ledger + ttl]]
    /\ stopped' = [stopped EXCEPT ![p] = FALSE]
    /\ UNCHANGED <<pending, askedAt, configVars, clockVars>>

Grant(p, total, perTx, merchants, ttl) ==
    /\ GrantRecord(p, total, perTx, merchants, ttl)
    /\ policy' = [policy EXCEPT ![p] = None]
    /\ UNCHANGED metadata

GrantWithMetadata(p, total, perTx, merchants, ttl, m) ==
    /\ GrantRecord(p, total, perTx, merchants, ttl)
    /\ metadata' = [metadata EXCEPT ![p] = m]
    /\ policy' = [policy EXCEPT ![p] = m]

Revoke(p) ==
    /\ Exists(p)
    /\ perm' = [perm EXCEPT ![p].status = "Revoked"]
    /\ pending' = [pending EXCEPT ![p] = None]
    /\ stopped' = [stopped EXCEPT ![p] = TRUE]
    /\ UNCHANGED <<metadata, askedAt, policy, configVars, clockVars>>

Pause(p) ==
    /\ Exists(p) /\ perm[p].status = "Active"
    /\ perm' = [perm EXCEPT ![p].status = "Paused"]
    /\ stopped' = [stopped EXCEPT ![p] = TRUE]
    /\ UNCHANGED <<pending, metadata, askedAt, policy,
                   configVars, clockVars>>

\* resume makes active whatever is not, a revoked permission too.
Resume(p) ==
    /\ Exists(p) /\ perm[p].status # "Active"
    /\ perm' = [perm EXCEPT ![p].status = "Active"]
    /\ stopped' = [stopped EXCEPT ![p] = FALSE]
    /\ UNCHANGED <<pending, metadata, askedAt, policy,
                   configVars, clockVars>>

-----------------------------------------------------------------------------
(* Spending.                                                               *)

\* can_spend; no merchants listed means any merchant.
SpendAllowed(p, amount, merchant) ==
    /\ Exists(p) /\ perm[p].status = "Active" /\ ~Expired(p)
    /\ amount <= perm[p].limit_per_tx /\ amount <= Remaining(p)
    /\ perm[p].allowed_merchants # {} => merchant \in perm[p].allowed_merchants

ExecuteSpend(p, amount, merchant) ==
    /\ SpendAllowed(p, amount, merchant)
    /\ perm[p].spent + amount >= MinSpent
    /\ perm' = [perm EXCEPT ![p].spent = @ + amount]
    /\ UNCHANGED <<pending, metadata, stopped, askedAt, policy,
                   configVars, clockVars>>

-----------------------------------------------------------------------------
(* Decrements.                                                             *)

DecreaseAllowance(p, amount) ==
    /\ Exists(p)
    /\ pending[p] = None
    /\ pending' = [pending EXCEPT ![p] =
                     [amount |-> amount, execution_time |-> now + TimeLock]]
    /\ askedAt' = [askedAt EXCEPT ![p] = now]
    /\ UNCHANGED <<perm, metadata, stopped, policy, configVars, clockVars>>

ExecuteDecreaseAllowance(p) ==
    LET new_limit == perm[p].limit_total - pending[p].amount
    IN  /\ pending[p] # None /\ now >= pending[p].execution_time
        /\ Exists(p)
        /\ new_limit >= perm[p].spent /\ new_limit <= MaxLimit
        /\ perm' = [perm EXCEPT ![p].limit_total = new_limit]
        /\ pending' = [pending EXCEPT ![p] = None]
        /\ UNCHANGED <<metadata, stopped, askedAt, policy, configVars, clockVars>>

-----------------------------------------------------------------------------
(* Contract settings, and time.                                            *)

SetAdmin(a) ==
    /\ admin = None
    /\ admin' = a
    /\ UNCHANGED <<pairVars, grantsPaused, allowSelf, clockVars>>

\* pause_grants and unpause_grants.
SetGrantsPaused(a, paused) ==
    /\ admin # None /\ a = admin
    /\ grantsPaused' = paused
    /\ UNCHANGED <<pairVars, admin, allowSelf, clockVars>>

SetAllowSelfDelegation(a, allow) ==
    /\ admin # None /\ a = admin
    /\ allowSelf' = allow
    /\ UNCHANGED <<pairVars, admin, grantsPaused, clockVars>>

CloseLedger(seconds) ==
    /\ ledger < MaxLedger /\ now + seconds <= MaxTime
    /\ ledger' = ledger + 1
    /\ now' = now + seconds
    /\ UNCHANGED <<pairVars, configVars>>

GrantStep(p) ==
    \E g \in Grants, ms \in MerchantLists, ttl \in Ttls :
        \/ Grant(p, g[1], g[2], ms, ttl)
        \/ \E m \in Policies \cup {None} :
               GrantWithMetadata(p, g[1], g[2], ms, ttl, m)

PairStep(p) ==
    \/ GrantStep(p)
    \/ Revoke(p)
    \/ Pause(p)
    \/ Resume(p)
    \/ \E n \in Spends, m \in Merchants : ExecuteSpend(p, n, m)
    \/ \E n \in Decrements : DecreaseAllowance(p, n)
    \/ ExecuteDecreaseAllowance(p)

Next ==
    \/ \E p \in Pair : PairStep(p)
    \/ \E a \in Address : SetAdmin(a)
    \/ \E a \in Address, b \in BOOLEAN : SetGrantsPaused(a, b)
    \/ \E a \in Address, b \in BOOLEAN : SetAllowSelfDelegation(a, b)
    \/ \E s \in LedgerTimes : CloseLedger(s)

Spec == Init /\ [][Next]_vars

-----------------------------------------------------------------------------
(* Properties.                                                             *)

(* What was spent never exceeds the total limit in force: execute_spend    *)
(* looks at the limit, execute_decrease_allowance at what was spent, and   *)
(* grant starts both afresh, in whatever order the calls arrive.           *)
SpentWithinLimit ==
    \A p \in Pair : Exists(p) => perm[p].spent <= perm[p].limit_total

(* After the owner pauses or revokes, or after the permission's last       *)
(* ledger, nothing is spent until the owner acts: resume does not revive   *)
(* an expired permission, and a decrement does not disturb a paused one.   *)
NoSpendOnceStopped ==
    [][\A p \in Pair :
           Exists(p) /\ (stopped[p] \/ Expired(p)) =>
               perm'[p].spent = perm[p].spent \/ GrantStep(p)]_vars

(* Between grants the total limit moves only by a decrement the owner      *)
(* asked for at least TimeLock seconds earlier, by the amount asked for,   *)
(* and one request moves it once.                                          *)
LimitMovesByMatureRequest ==
    [][\A p \in Pair :
           /\ Exists(p) /\ perm'[p] # None
           /\ perm'[p].limit_total # perm[p].limit_total
           => \/ GrantStep(p)
              \/ /\ pending[p] # None /\ pending'[p] = None
                 /\ now >= askedAt[p] + TimeLock
                 /\ perm'[p].limit_total = perm[p].limit_total - pending[p].amount]_vars

(* Refinement: whatever the settings, the clock and the sequence of calls, *)
(* the contract keeps an allowance for every owner and delegate.           *)
States ==
    [p \in Pair |-> IF ~Exists(p) THEN "none"
                    ELSE IF Expired(p) THEN "over"
                    ELSE IF perm[p].status = "Active" THEN "open" ELSE "stopped"]
Limits == [p \in Pair |-> IF Exists(p) THEN perm[p].limit_total ELSE 0]
Spendings == [p \in Pair |-> IF Exists(p) THEN perm[p].spent ELSE 0]
A == INSTANCE Allowance WITH
         state <- States, limit <- Limits, spent <- Spendings, request <- pending
KeepsAllowance == A!Spec

(* What the comment in grant_with_metadata promises: "get_metadata cannot  *)
(* return a hash that belongs to an older policy".  It does not hold:      *)
(* grant, called over a grant with metadata, leaves that metadata.         *)
MetadataIsCurrent ==
    \A p \in Pair : metadata[p] # None => metadata[p] = policy[p]
=============================================================================

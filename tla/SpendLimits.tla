------------------------------ MODULE SpendLimits ------------------------------
(***************************************************************************)
(* Spending limits of the wallet service (wallet/src/spendLimits.ts): rows *)
(* of spend_limits in the database, and counters in Redis of what one      *)
(* wallet of one user has spent today, this week and ever.                 *)
(*                                                                         *)
(* The keys of the daily and weekly counters carry the date, and a key     *)
(* outlives its period, so a counter starts at zero when the period does.  *)
(***************************************************************************)
EXTENDS Integers

CONSTANTS
    None,           \* SQL NULL, an absent value
    Wallet,         \* the walletId of the wallet
    LimitTables     \* contents of spend_limits tried

\* The limits are BIGINT columns that may be NULL.
ASSUME LimitTablesAreOfNumbers ==
    \A rows \in LimitTables : \A r \in rows :
        /\ r.daily \in Int \cup {None} /\ r.weekly \in Int \cup {None}
        /\ r.lifetime \in Int \cup {None}

VARIABLES
    limitRows,      \* the rows of spend_limits of the wallet's user
    spent           \* the counters spend:daily, spend:weekly, spend:lifetime

limitVars == <<limitRows, spent>>

NothingSpent == [daily |-> 0, weekly |-> 0, lifetime |-> 0]

LimitsInit ==
    /\ limitRows \in LimitTables
    /\ spent = NothingSpent

Within(limit, amount) == limit = None \/ amount <= limit

\* The rows a findOne may return: nothing makes them unique.  The lookups go
\* from the most specific to the least, until one finds a row.
FindConfig(delegation) ==
    LET Rows(d, w) == {r \in limitRows : r.delegation = d /\ r.wallet = w}
        ofDelegation ==
            {r \in limitRows : delegation # None /\ r.delegation = delegation}
    IN  IF Rows(delegation, Wallet) # {} THEN Rows(delegation, Wallet)
        ELSE IF ofDelegation # {} THEN ofDelegation
        ELSE IF Rows(None, Wallet) # {} THEN Rows(None, Wallet)
        ELSE Rows(None, None)

\* Faulty variant: the limits are compared with this payment alone.
AllowedIgnoresSpent(config, amount) ==
    /\ Within(config.perTransaction, amount)
    /\ Within(config.daily, amount)
    /\ Within(config.weekly, amount)
    /\ Within(config.lifetime, amount)

Allowed(config, amount) ==
    /\ Within(config.perTransaction, amount)
    /\ Within(config.daily, spent.daily + amount)
    /\ Within(config.weekly, spent.weekly + amount)
    /\ Within(config.lifetime, spent.lifetime + amount)

\* The answers checkSpendLimit may give: without a row everything is allowed.
CheckSpendLimit(delegation, amount) ==
    LET configs == FindConfig(delegation)
    IN  IF configs = {} THEN {TRUE} ELSE {Allowed(c, amount) : c \in configs}

\* The Lua script is one step.
RecordSpend(amount) ==
    spent' = [period \in DOMAIN spent |-> spent[period] + amount]

NextDay ==
    /\ spent' = [spent EXCEPT !.daily = 0]
    /\ UNCHANGED limitRows
NextWeek ==
    /\ spent' = [spent EXCEPT !.daily = 0, !.weekly = 0]
    /\ UNCHANGED limitRows
================================================================================

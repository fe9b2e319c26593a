-------------------------- MODULE PermissionsProofs --------------------------
(***************************************************************************)
(* Proofs about the permissions contract, for any owners, delegates,       *)
(* limits, amounts and bounds.                                             *)
(***************************************************************************)
EXTENDS Permissions, TLAPS

(* No step lets what was spent outgrow the limit, and a pending decrement  *)
(* is due TimeLock seconds after it was asked for.                         *)
DueAfterTimeLock ==
    \A p \in Pair : pending[p] # None =>
        pending[p].execution_time = askedAt[p] + TimeLock

PermissionsInv == TypeOK /\ SpentWithinLimit /\ DueAfterTimeLock

LEMMA InitInv == Init => PermissionsInv
<1> SUFFICES ASSUME Init PROVE PermissionsInv
  OBVIOUS
<1>1. TypeOK
  <2>1. grantsPaused \in BOOLEAN /\ allowSelf \in BOOLEAN
    BY Zenon DEF Init
  <2>2. stopped \in [Pair -> BOOLEAN]
    BY Zenon DEF Init
  <2> QED BY <2>1, <2>2, PermissionsConstants DEF Init, TypeOK
<1> QED
  BY <1>1 DEF Init, PermissionsInv, SpentWithinLimit, DueAfterTimeLock, Exists

(* The record grant writes.                                                *)
LEMMA GrantRecordInv ==
  ASSUME PermissionsInv, NEW p \in Pair, NEW g \in Grants,
         NEW ms \in MerchantLists, NEW ttl \in Ttls,
         GrantRecord(p, g[1], g[2], ms, ttl)
  PROVE  /\ perm' \in [Pair -> PermissionRecord \cup {None}]
         /\ stopped' \in [Pair -> BOOLEAN]
         /\ SpentWithinLimit'
<1> DEFINE r == [limit_total |-> g[1], spent |-> 0, limit_per_tx |-> g[2],
                 allowed_merchants |-> ms, status |-> "Active",
                 expires_at_ledger |-> ledger + ttl]
<1>1. /\ perm' = [perm EXCEPT ![p] = r]
      /\ g[1] \in Int /\ g[2] \in Int /\ g[2] > 0 /\ g[1] >= g[2]
      /\ ledger + ttl \in 0..MaxLedger /\ ms \in SUBSET Merchants
  BY PermissionsConstants DEF GrantRecord, PermissionsInv, TypeOK
<1>2. r \in PermissionRecord
  BY <1>1 DEF PermissionRecord, PermissionStatus
<1>3. r.spent <= r.limit_total
  BY <1>1
<1> HIDE DEF r
<1>4. perm' \in [Pair -> PermissionRecord \cup {None}]
  BY <1>1, <1>2 DEF PermissionsInv, TypeOK
<1>5. stopped' \in [Pair -> BOOLEAN]
  <2>1. stopped \in [Pair -> BOOLEAN]
    BY DEF PermissionsInv, TypeOK
  <2>2. stopped' = [stopped EXCEPT ![p] = FALSE]
    BY DEF GrantRecord
  <2> QED BY <2>1, <2>2, Zenon
<1>6. SpentWithinLimit'
  BY <1>1, <1>3 DEF PermissionsInv, TypeOK, SpentWithinLimit, Exists
<1> QED BY <1>4, <1>5, <1>6

(* An operation that only writes the status of an existing permission.     *)
LEMMA StatusStepInv ==
  ASSUME PermissionsInv, NEW p \in Pair, Exists(p),
         NEW s \in PermissionStatus, perm' = [perm EXCEPT ![p].status = s],
         NEW b \in BOOLEAN, stopped' = [stopped EXCEPT ![p] = b]
  PROVE  /\ perm' \in [Pair -> PermissionRecord \cup {None}]
         /\ stopped' \in [Pair -> BOOLEAN]
         /\ SpentWithinLimit'
<1>1. perm[p] \in PermissionRecord /\ perm \in [Pair -> PermissionRecord \cup {None}]
  BY DEF PermissionsInv, TypeOK, Exists
<1>2. [perm[p] EXCEPT !.status = s] \in PermissionRecord
  BY <1>1 DEF PermissionRecord
<1>3. perm' \in [Pair -> PermissionRecord \cup {None}]
  BY <1>1, <1>2
<1>4. stopped' \in [Pair -> BOOLEAN]
  BY Zenon DEF PermissionsInv, TypeOK
<1>5. \A q \in Pair : /\ Exists(q)' => Exists(q)
                      /\ Exists(q) => /\ perm'[q].spent = perm[q].spent
                                      /\ perm'[q].limit_total = perm[q].limit_total
  BY <1>1 DEF Exists, PermissionRecord
<1>6. SpentWithinLimit'
  BY <1>5 DEF PermissionsInv, SpentWithinLimit
<1> QED BY <1>3, <1>4, <1>6

LEMMA StepInv == PermissionsInv /\ [Next]_vars => PermissionsInv'
<1> SUFFICES ASSUME PermissionsInv, [Next]_vars PROVE PermissionsInv'
  OBVIOUS
<1>0. TypeOK /\ SpentWithinLimit /\ DueAfterTimeLock
  BY DEF PermissionsInv
<1> USE PermissionsConstants
<1>1. ASSUME NEW p \in Pair, GrantStep(p) PROVE PermissionsInv'
  <2>1. PICK g \in Grants, ms \in MerchantLists, ttl \in Ttls :
           \/ Grant(p, g[1], g[2], ms, ttl)
           \/ \E m \in Policies \cup {None} :
                  GrantWithMetadata(p, g[1], g[2], ms, ttl, m)
    BY <1>1 DEF GrantStep
  <2>2. GrantRecord(p, g[1], g[2], ms, ttl)
    BY <2>1 DEF Grant, GrantWithMetadata
  <2>3. /\ metadata' \in [Pair -> Policies \cup {None}]
        /\ policy' \in [Pair -> Policies \cup {None}]
    BY <1>0, <2>1 DEF Grant, GrantWithMetadata, TypeOK
  <2>4. UNCHANGED <<pending, askedAt, admin, grantsPaused, allowSelf, ledger, now>>
    BY <2>2 DEF GrantRecord, configVars, clockVars
  <2> QED
    BY <1>0, <2>2, <2>3, <2>4, GrantRecordInv
       DEF PermissionsInv, TypeOK, DueAfterTimeLock
<1>2. ASSUME NEW p \in Pair, Revoke(p) PROVE PermissionsInv'
  <2>1. /\ perm' \in [Pair -> PermissionRecord \cup {None}]
        /\ stopped' \in [Pair -> BOOLEAN] /\ SpentWithinLimit'
    BY <1>2, StatusStepInv DEF Revoke, PermissionStatus
  <2>2. pending' = [pending EXCEPT ![p] = None]
    BY <1>2 DEF Revoke
  <2>3. DueAfterTimeLock'
    BY <1>0, <1>2, <2>2 DEF Revoke, DueAfterTimeLock, TypeOK
  <2> QED
    BY <1>0, <1>2, <2>1, <2>2, <2>3
       DEF Revoke, PermissionsInv, TypeOK, configVars, clockVars
<1>3. ASSUME NEW p \in Pair, Pause(p) \/ Resume(p) PROVE PermissionsInv'
  <2>1. /\ perm' \in [Pair -> PermissionRecord \cup {None}]
        /\ stopped' \in [Pair -> BOOLEAN] /\ SpentWithinLimit'
    BY <1>3, StatusStepInv DEF Pause, Resume, PermissionStatus
  <2>2. UNCHANGED <<pending, metadata, askedAt, policy, configVars, clockVars>>
    BY <1>3 DEF Pause, Resume
  <2> QED
    BY <1>0, <2>1, <2>2
       DEF PermissionsInv, TypeOK, DueAfterTimeLock, configVars, clockVars
<1>4. ASSUME NEW p \in Pair, NEW n \in Spends, NEW m \in Merchants,
             ExecuteSpend(p, n, m)
      PROVE  PermissionsInv'
  <2>1. /\ perm[p] \in PermissionRecord /\ n \in Int
        /\ perm[p].limit_total - perm[p].spent >= n
    BY <1>0, <1>4
       DEF ExecuteSpend, SpendAllowed, Exists, Remaining, TypeOK
  <2>2. perm[p].spent + n \in Int /\ perm[p].spent + n <= perm[p].limit_total
    BY <2>1 DEF PermissionRecord
  <2> DEFINE r == [perm[p] EXCEPT !.spent = @ + n]
  <2>3. r \in PermissionRecord /\ r.spent <= r.limit_total
    BY <2>1, <2>2 DEF PermissionRecord
  <2>4. perm' = [perm EXCEPT ![p] = r]
    BY <1>4 DEF ExecuteSpend
  <2> HIDE DEF r
  <2>5. perm' \in [Pair -> PermissionRecord \cup {None}] /\ SpentWithinLimit'
    BY <1>0, <2>3, <2>4 DEF TypeOK, SpentWithinLimit, Exists
  <2> QED
    BY <1>0, <1>4, <2>5
       DEF ExecuteSpend, PermissionsInv, TypeOK, DueAfterTimeLock, configVars,
           clockVars
<1>5. ASSUME NEW p \in Pair, NEW n \in Decrements, DecreaseAllowance(p, n)
      PROVE  PermissionsInv'
  <2> DEFINE d == [amount |-> n, execution_time |-> now + TimeLock]
  <2>1. /\ pending' = [pending EXCEPT ![p] = d]
        /\ askedAt' = [askedAt EXCEPT ![p] = now]
        /\ UNCHANGED <<perm, metadata, stopped, policy, configVars, clockVars>>
    BY <1>5 DEF DecreaseAllowance
  <2>2. d \in PendingDecrement /\ now \in Nat
    BY <1>0 DEF PendingDecrement, TypeOK
  <2>3. pending' \in [Pair -> PendingDecrement \cup {None}]
        /\ askedAt' \in [Pair -> Nat]
    BY <1>0, <2>1, <2>2 DEF TypeOK
  <2>4. DueAfterTimeLock'
    BY <1>0, <2>1 DEF TypeOK, DueAfterTimeLock
  <2> HIDE DEF d
  <2> QED
    BY <1>0, <2>1, <2>3, <2>4
       DEF PermissionsInv, TypeOK, SpentWithinLimit, Exists, configVars, clockVars
<1>6. ASSUME NEW p \in Pair, ExecuteDecreaseAllowance(p) PROVE PermissionsInv'
  <2> DEFINE new_limit == perm[p].limit_total - pending[p].amount
             r == [perm[p] EXCEPT !.limit_total = new_limit]
  <2>1. perm[p] \in PermissionRecord /\ pending[p] \in PendingDecrement
    BY <1>0, <1>6 DEF ExecuteDecreaseAllowance, Exists, TypeOK
  <2>2. new_limit \in Int /\ new_limit >= perm[p].spent
    BY <1>6, <2>1 DEF ExecuteDecreaseAllowance, PermissionRecord, PendingDecrement
  <2>3. perm' = [perm EXCEPT ![p] = r] /\ pending' = [pending EXCEPT ![p] = None]
    BY <1>6 DEF ExecuteDecreaseAllowance
  <2> HIDE DEF new_limit
  <2>4. r \in PermissionRecord /\ r.spent <= r.limit_total
    BY <2>1, <2>2 DEF PermissionRecord
  <2> HIDE DEF r
  <2>5. perm' \in [Pair -> PermissionRecord \cup {None}] /\ SpentWithinLimit'
    BY <1>0, <2>3, <2>4 DEF TypeOK, SpentWithinLimit, Exists
  <2>6. DueAfterTimeLock'
    BY <1>0, <1>6, <2>3 DEF ExecuteDecreaseAllowance, DueAfterTimeLock, TypeOK
  <2> QED
    BY <1>0, <1>6, <2>3, <2>5, <2>6
       DEF ExecuteDecreaseAllowance, PermissionsInv, TypeOK, configVars, clockVars
<1>7. CASE UNCHANGED pairVars
  <2>1. /\ admin' \in Address \cup {None}
        /\ ledger' \in 0..MaxLedger /\ now' \in Nat
    BY <1>0, <1>7
       DEF Next, PairStep, GrantStep, Grant, GrantWithMetadata, GrantRecord,
           Revoke, Pause, Resume, ExecuteSpend, DecreaseAllowance,
           ExecuteDecreaseAllowance, SetAdmin, SetGrantsPaused,
           SetAllowSelfDelegation, CloseLedger, TypeOK, vars, configVars,
           clockVars
  <2>2. grantsPaused' \in BOOLEAN /\ allowSelf' \in BOOLEAN
    <3>1. \/ UNCHANGED <<grantsPaused, allowSelf>>
          \/ \E x \in BOOLEAN : grantsPaused' = x /\ allowSelf' = allowSelf
          \/ \E x \in BOOLEAN : allowSelf' = x /\ grantsPaused' = grantsPaused
      BY DEF Next, PairStep, GrantStep, Grant, GrantWithMetadata, GrantRecord,
             Revoke, Pause, Resume, ExecuteSpend, DecreaseAllowance,
             ExecuteDecreaseAllowance, SetAdmin, SetGrantsPaused,
             SetAllowSelfDelegation, CloseLedger, vars, configVars
    <3>2. grantsPaused \in BOOLEAN /\ allowSelf \in BOOLEAN
      BY <1>0 DEF TypeOK
    <3> QED BY <3>1, <3>2, Zenon
  <2> QED
    BY <1>0, <1>7, <2>1, <2>2
       DEF PermissionsInv, TypeOK, SpentWithinLimit, DueAfterTimeLock, Exists,
           pairVars
<1> QED
  BY <1>1, <1>2, <1>3, <1>4, <1>5, <1>6, <1>7
     DEF Next, PairStep, SetAdmin, SetGrantsPaused, SetAllowSelfDelegation,
         CloseLedger, vars

THEOREM PermissionsInvariant == Spec => []PermissionsInv
<1>1. Init => PermissionsInv
  BY InitInv
<1>2. PermissionsInv /\ [Next]_vars => PermissionsInv'
  BY StepInv
<1> QED BY <1>1, <1>2, PTL DEF Spec

(* Types: statuses, limits and expiry ledgers stay what they should be.    *)
THEOREM TypeCorrect == Spec => []TypeOK
<1>1. PermissionsInv => TypeOK
  BY DEF PermissionsInv
<1> QED BY <1>1, PermissionsInvariant, PTL

(* No sequence of grants, spends and decrements lets a delegate spend more *)
(* than the limit in force.                                                *)
THEOREM NeverOverspent == Spec => []SpentWithinLimit
<1>1. PermissionsInv => SpentWithinLimit
  BY DEF PermissionsInv
<1> QED BY <1>1, PermissionsInvariant, PTL

-----------------------------------------------------------------------------

(* A permission the owner stopped is not active.                           *)
StoppedIsInactive ==
    \A p \in Pair : Exists(p) /\ stopped[p] => perm[p].status # "Active"

LEMMA StepStoppedIsInactive ==
  ASSUME TypeOK, StoppedIsInactive, [Next]_vars
  PROVE  StoppedIsInactive'
<1>1. ASSUME NEW p \in Pair, PairStep(p) PROVE StoppedIsInactive'
  <2>1. \A q \in Pair \ {p} : perm'[q] = perm[q] /\ stopped'[q] = stopped[q]
    BY <1>1
       DEF TypeOK, PairStep, GrantStep, Grant, GrantWithMetadata, GrantRecord,
           Revoke, Pause, Resume, ExecuteSpend, DecreaseAllowance,
           ExecuteDecreaseAllowance
  <2>2. perm'[p] # None /\ stopped'[p] => perm'[p].status # "Active"
    <3>1. CASE GrantStep(p) \/ Resume(p)
      BY <3>1 DEF TypeOK, GrantStep, Grant, GrantWithMetadata, GrantRecord, Resume
    <3>2. CASE Revoke(p) \/ Pause(p)
      BY <3>2 DEF TypeOK, Revoke, Pause, Exists, PermissionRecord
    <3>3. CASE \/ \E n \in Spends, m \in Merchants : ExecuteSpend(p, n, m)
               \/ \E n \in Decrements : DecreaseAllowance(p, n)
               \/ ExecuteDecreaseAllowance(p)
      <4>1. /\ stopped' = stopped /\ Exists(p)
            /\ perm'[p].status = perm[p].status
        BY <3>3
           DEF TypeOK, ExecuteSpend, SpendAllowed, DecreaseAllowance,
               ExecuteDecreaseAllowance, Exists, PermissionRecord
      <4> QED BY <4>1 DEF StoppedIsInactive
    <3> QED BY <1>1, <3>1, <3>2, <3>3 DEF PairStep
  <2> QED BY <2>1, <2>2 DEF StoppedIsInactive, Exists
<1>2. CASE UNCHANGED pairVars
  BY <1>2 DEF pairVars, StoppedIsInactive, Exists
<1> QED
  BY <1>1, <1>2
     DEF Next, vars, SetAdmin, SetGrantsPaused, SetAllowSelfDelegation, CloseLedger

(* A stopped or expired permission pays nothing until the owner acts, for  *)
(* any number of owners and delegates.                                     *)
THEOREM StoppedSpendsNothing == Spec => NoSpendOnceStopped
<1> DEFINE Held(p) ==
             Exists(p) /\ (stopped[p] \/ Expired(p)) =>
                perm'[p].spent = perm[p].spent \/ GrantStep(p)
<1>1. TypeOK /\ StoppedIsInactive /\ [Next]_vars => StoppedIsInactive'
  BY StepStoppedIsInactive
<1>2. TypeOK /\ StoppedIsInactive /\ [Next]_vars => \A p \in Pair : Held(p)
  <2> SUFFICES ASSUME TypeOK, StoppedIsInactive, [Next]_vars, NEW p \in Pair,
                      Exists(p), stopped[p] \/ Expired(p), ~GrantStep(p)
               PROVE  perm'[p].spent = perm[p].spent
    OBVIOUS
  <2>1. perm[p] \in PermissionRecord
    BY DEF TypeOK, Exists
  <2>2. ASSUME NEW n \in Spends, NEW m \in Merchants PROVE ~ExecuteSpend(p, n, m)
    BY DEF ExecuteSpend, SpendAllowed, StoppedIsInactive
  <2>3. ASSUME NEW q \in Pair, PairStep(q), q # p PROVE perm'[p] = perm[p]
    BY <2>3
       DEF TypeOK, PairStep, GrantStep, Grant, GrantWithMetadata, GrantRecord,
           Revoke, Pause, Resume, ExecuteSpend, DecreaseAllowance,
           ExecuteDecreaseAllowance
  <2>4. ASSUME PairStep(p) PROVE perm'[p].spent = perm[p].spent
    BY <2>1, <2>2, <2>4
       DEF TypeOK, PairStep, Revoke, Pause, Resume, DecreaseAllowance,
           ExecuteDecreaseAllowance, PermissionRecord
  <2> QED
    BY <2>3, <2>4
       DEF Next, vars, pairVars, SetAdmin, SetGrantsPaused,
           SetAllowSelfDelegation, CloseLedger
<1>3. Init => StoppedIsInactive
  BY DEF Init, StoppedIsInactive, Exists
<1> QED BY <1>1, <1>2, <1>3, TypeCorrect, PTL DEF Spec, NoSpendOnceStopped

(* The limit moves only by a request that has waited out its time lock.    *)
THEOREM LimitMovesInTime == Spec => LimitMovesByMatureRequest
<1> DEFINE Mature(p) ==
             /\ Exists(p) /\ perm'[p] # None
             /\ perm'[p].limit_total # perm[p].limit_total
             => \/ GrantStep(p)
                \/ /\ pending[p] # None /\ pending'[p] = None
                   /\ now >= askedAt[p] + TimeLock
                   /\ perm'[p].limit_total
                        = perm[p].limit_total - pending[p].amount
<1>1. PermissionsInv /\ [Next]_vars => \A p \in Pair : Mature(p)
  <2> SUFFICES ASSUME PermissionsInv, [Next]_vars, NEW p \in Pair, Exists(p),
                      perm'[p].limit_total # perm[p].limit_total, ~GrantStep(p)
               PROVE  /\ pending[p] # None /\ pending'[p] = None
                      /\ now >= askedAt[p] + TimeLock
                      /\ perm'[p].limit_total
                           = perm[p].limit_total - pending[p].amount
    OBVIOUS
  <2>1. perm[p] \in PermissionRecord
    BY DEF PermissionsInv, TypeOK, Exists
  <2>2. ASSUME NEW q \in Pair, PairStep(q), q # p PROVE perm'[p] = perm[p]
    BY <2>2
       DEF PermissionsInv, TypeOK, PairStep, GrantStep, Grant, GrantWithMetadata,
           GrantRecord, Revoke, Pause, Resume, ExecuteSpend, DecreaseAllowance,
           ExecuteDecreaseAllowance
  <2>3. PairStep(p) => ExecuteDecreaseAllowance(p)
    BY <2>1
       DEF PermissionsInv, TypeOK, PairStep, Revoke, Pause, Resume, ExecuteSpend,
           DecreaseAllowance, PermissionRecord
  <2>4. ExecuteDecreaseAllowance(p)
    BY <2>2, <2>3
       DEF Next, vars, pairVars, SetAdmin, SetGrantsPaused,
           SetAllowSelfDelegation, CloseLedger
  <2> QED
    BY <2>1, <2>4
       DEF ExecuteDecreaseAllowance, PermissionsInv, TypeOK, DueAfterTimeLock,
           PermissionRecord
<1> QED
  BY <1>1, PermissionsInvariant, PTL DEF Spec, LimitMovesByMatureRequest

-----------------------------------------------------------------------------
(* Allowance.  Each call for a pair is one step of its allowance or none.  *)

\* What the abstract specification sees of a pair, before and after a step.
Sees(p) ==
    /\ Exists(p) =>
         /\ States[p] = IF Expired(p) THEN "over"
                        ELSE IF perm[p].status = "Active" THEN "open" ELSE "stopped"
         /\ Limits[p] = perm[p].limit_total
         /\ Spendings[p] = perm[p].spent
    /\ ~Exists(p) => States[p] = "none" /\ Limits[p] = 0 /\ Spendings[p] = 0

LEMMA AlwaysSees ==
  /\ \A p \in Pair : Sees(p) /\ Sees(p)'
  /\ DOMAIN States = Pair /\ DOMAIN Limits = Pair /\ DOMAIN Spendings = Pair
  /\ DOMAIN States' = Pair /\ DOMAIN Limits' = Pair /\ DOMAIN Spendings' = Pair
  /\ States = [p \in Pair |-> States[p]] /\ States' = [p \in Pair |-> States'[p]]
  /\ Limits = [p \in Pair |-> Limits[p]] /\ Limits' = [p \in Pair |-> Limits'[p]]
  /\ Spendings = [p \in Pair |-> Spendings[p]]
  /\ Spendings' = [p \in Pair |-> Spendings'[p]]
BY DEF Sees, States, Limits, Spendings, Pair

\* A call for one pair leaves the rows of the others and the clock alone.
LEMMA OthersUntouched ==
  ASSUME TypeOK, NEW p \in Pair, PairStep(p)
  PROVE  /\ ledger' = ledger /\ now' = now
         /\ \A q \in Pair \ {p} : perm'[q] = perm[q] /\ pending'[q] = pending[q]
BY DEF TypeOK, PairStep, GrantStep, Grant, GrantWithMetadata, GrantRecord, Revoke, Pause,
       Resume, ExecuteSpend, DecreaseAllowance, ExecuteDecreaseAllowance, clockVars

\* So their allowances stay, and those of p change where its rows do.
LEMMA OthersKeepTheirs ==
  ASSUME TypeOK, NEW p \in Pair, PairStep(p)
  PROVE  /\ \A q \in Pair \ {p} : /\ States'[q] = States[q] /\ Limits'[q] = Limits[q]
                                  /\ Spendings'[q] = Spendings[q]
         /\ States'[p] = States[p] => States' = States
         /\ Limits'[p] = Limits[p] => Limits' = Limits
         /\ Spendings'[p] = Spendings[p] => Spendings' = Spendings
         /\ now' = now /\ (Expired(p)' <=> ledger >= perm'[p].expires_at_ledger)
<1>1. /\ ledger' = ledger /\ now' = now
      /\ \A q \in Pair \ {p} : perm'[q] = perm[q]
  BY OthersUntouched
<1>2. ASSUME NEW q \in Pair \ {p}
      PROVE  /\ States'[q] = States[q] /\ Limits'[q] = Limits[q]
             /\ Spendings'[q] = Spendings[q]
  <2>1. (Exists(q)' <=> Exists(q)) /\ (Expired(q)' <=> Expired(q))
    BY <1>1 DEF Exists, Expired
  <2> QED BY <1>1, <2>1, AlwaysSees DEF Sees
<1>3. Expired(p)' <=> ledger >= perm'[p].expires_at_ledger
  BY <1>1 DEF Expired
<1> QED BY <1>1, <1>2, <1>3, AlwaysSees

LEMMA GrantIsGrant ==
  ASSUME TypeOK, NEW p \in Pair, GrantStep(p)
  PROVE  A!Grant(p)
<1>1. PICK g \in Grants, ms \in MerchantLists, ttl \in Ttls :
         GrantRecord(p, g[1], g[2], ms, ttl)
  BY DEF GrantStep, Grant, GrantWithMetadata
<1> DEFINE r == [limit_total |-> g[1], spent |-> 0, limit_per_tx |-> g[2],
                 allowed_merchants |-> ms, status |-> "Active",
                 expires_at_ledger |-> ledger + ttl]
<1>2. /\ perm' = [perm EXCEPT ![p] = r] /\ pending' = pending
      /\ g[1] \in Int /\ g[2] \in Int /\ g[2] > 0 /\ g[1] >= g[2]
      /\ ledger + ttl \in 0..MaxLedger /\ ms \in SUBSET Merchants
  BY <1>1, PermissionsConstants DEF GrantRecord, TypeOK
<1>3. r \in PermissionRecord /\ r.limit_total > 0 /\ r.spent = 0 /\ r.status = "Active"
  BY <1>2 DEF PermissionRecord, PermissionStatus
<1> HIDE DEF r
<1>4. perm'[p] = r /\ Exists(p)'
  BY <1>2, <1>3, NoneIsNoPermission DEF TypeOK, Exists
<1>5. PairStep(p)
  BY DEF PairStep
<1>6. /\ States'[p] \in {"open", "over"} /\ Limits'[p] > 0 /\ Spendings'[p] = 0
  BY <1>3, <1>4, AlwaysSees DEF Sees
<1>7. /\ now' = now
      /\ \A q \in Pair \ {p} : /\ States'[q] = States[q] /\ Limits'[q] = Limits[q]
                               /\ Spendings'[q] = Spendings[q]
  BY <1>5, OthersKeepTheirs
<1>8. Spendings' = [Spendings EXCEPT ![p] = 0]
  BY <1>6, <1>7, AlwaysSees
<1> QED BY <1>2, <1>6, <1>7, <1>8 DEF A!Grant, A!OthersKeep

\* Pause, revoke and resume write the status of a row; a row that is over stays over.
LEMMA StatusSteps ==
  ASSUME TypeOK, NEW p \in Pair, Revoke(p) \/ Pause(p) \/ Resume(p)
  PROVE  A!Revoke(p) \/ A!Pause(p) \/ A!Resume(p) \/ UNCHANGED A!allowanceVars
<1>1. PairStep(p) /\ Exists(p)
  BY DEF PairStep, Revoke, Pause, Resume
<1>2. perm[p] \in PermissionRecord /\ perm \in [Pair -> PermissionRecord \cup {None}]
  BY <1>1 DEF TypeOK, Exists
<1>3. PICK s \in PermissionStatus :
        /\ perm' = [perm EXCEPT ![p].status = s]
        /\ s = "Active" <=> Resume(p)
        /\ Pause(p) => perm[p].status = "Active"
  BY DEF Revoke, Pause, Resume, PermissionStatus
<1>4. /\ perm'[p] \in PermissionRecord /\ perm'[p].status = s
      /\ perm'[p].limit_total = perm[p].limit_total /\ perm'[p].spent = perm[p].spent
      /\ perm'[p].expires_at_ledger = perm[p].expires_at_ledger
  BY <1>2, <1>3 DEF PermissionRecord
<1>5. Exists(p)' /\ (Expired(p)' <=> Expired(p))
  BY <1>1, <1>4, NoneIsNoPermission, OthersKeepTheirs DEF Exists, Expired
<1>6. /\ States[p] # "none"
      /\ States'[p] = IF Expired(p) THEN "over" ELSE IF s = "Active" THEN "open" ELSE "stopped"
      /\ States[p] = IF Expired(p) THEN "over"
                     ELSE IF perm[p].status = "Active" THEN "open" ELSE "stopped"
      /\ Limits'[p] = Limits[p] /\ Spendings'[p] = Spendings[p]
  BY <1>1, <1>4, <1>5, AlwaysSees DEF Sees
<1>7. /\ UNCHANGED <<Limits, Spendings, now>>
      /\ \A q \in Pair \ {p} : States'[q] = States[q]
  BY <1>1, <1>6, OthersKeepTheirs
<1>8. States' = [States EXCEPT ![p] = States'[p]]
  BY <1>7, AlwaysSees
<1>9. CASE Revoke(p)
  <2>1. States'[p] = IF States[p] = "open" THEN "stopped" ELSE States[p]
    <3>1. s # "Active"
      BY <1>4, <1>9 DEF Revoke, TypeOK
    <3> QED BY <1>6, <3>1
  <2>2. pending' = [pending EXCEPT ![p] = None]
    BY <1>9 DEF Revoke
  <2> QED BY <1>6, <1>7, <1>8, <2>1, <2>2 DEF A!Revoke
<1>10. CASE Pause(p)
  <2>1. perm[p].status = "Active" /\ pending' = pending
    BY <1>10 DEF Pause
  <2>2. s # "Active"
    BY <1>3, <2>1 DEF Resume
  <2>3. CASE Expired(p)
    BY <1>6, <1>7, <1>8, <2>1, <2>3, AlwaysSees, OthersKeepTheirs, <1>1 DEF A!allowanceVars
  <2>4. CASE ~Expired(p)
    BY <1>6, <1>7, <1>8, <2>1, <2>2, <2>4 DEF A!Pause
  <2> QED BY <2>3, <2>4
<1>11. CASE Resume(p)
  <2>1. s = "Active" /\ perm[p].status # "Active" /\ pending' = pending
    BY <1>3, <1>11 DEF Resume
  <2>2. CASE Expired(p)
    BY <1>6, <1>7, <1>8, <2>1, <2>2, AlwaysSees, OthersKeepTheirs, <1>1 DEF A!allowanceVars
  <2>3. CASE ~Expired(p)
    BY <1>6, <1>7, <1>8, <2>1, <2>3 DEF A!Resume
  <2> QED BY <2>2, <2>3
<1> QED BY <1>9, <1>10, <1>11

LEMMA SpendIsSpend ==
  ASSUME TypeOK, NEW p \in Pair, NEW n \in Spends, NEW m \in Merchants, ExecuteSpend(p, n, m)
  PROVE  A!Spend(p)
<1>1. PairStep(p)
  BY DEF PairStep
<1>2. /\ Exists(p) /\ perm[p].status = "Active" /\ ~Expired(p)
      /\ n =< perm[p].limit_total - perm[p].spent
      /\ perm' = [perm EXCEPT ![p].spent = @ + n] /\ pending' = pending
  BY DEF ExecuteSpend, SpendAllowed, Remaining
<1>3. /\ perm[p] \in PermissionRecord /\ n \in Int
      /\ perm \in [Pair -> PermissionRecord \cup {None}]
  BY <1>2, PermissionsConstants DEF TypeOK, Exists
<1>4. /\ perm[p].limit_total \in Int /\ perm[p].spent \in Int
      /\ perm'[p] \in PermissionRecord /\ perm'[p].spent = perm[p].spent + n
      /\ perm'[p].limit_total = perm[p].limit_total /\ perm'[p].status = perm[p].status
      /\ perm'[p].expires_at_ledger = perm[p].expires_at_ledger
  BY <1>2, <1>3 DEF PermissionRecord
<1>5. Exists(p)' /\ (Expired(p)' <=> Expired(p))
  BY <1>1, <1>4, NoneIsNoPermission, OthersKeepTheirs DEF Exists, Expired
<1>6. perm[p].spent + n =< perm[p].limit_total
  BY <1>2, <1>3, <1>4
<1>7. /\ States[p] = "open" /\ States'[p] = States[p]
      /\ Limits'[p] = Limits[p] /\ Spendings'[p] =< Limits[p]
  BY <1>2, <1>4, <1>5, <1>6, AlwaysSees DEF Sees
<1> QED BY <1>1, <1>2, <1>7, OthersKeepTheirs DEF A!Spend, A!OthersKeep

LEMMA DecreaseIsAsk ==
  ASSUME TypeOK, NEW p \in Pair, NEW n \in Decrements, DecreaseAllowance(p, n)
  PROVE  A!Ask(p)
<1> DEFINE d == [amount |-> n, execution_time |-> now + TimeLock]
<1>1. /\ Exists(p) /\ pending[p] = None /\ pending' = [pending EXCEPT ![p] = d]
      /\ perm' = perm /\ PairStep(p)
  BY DEF DecreaseAllowance, PairStep
<1>2. d \in PendingDecrement /\ d.execution_time = now + TimeLock
  BY PermissionsConstants DEF TypeOK, PendingDecrement
<1> HIDE DEF d
<1>3. /\ pending'[p] # None /\ pending'[p].execution_time = now + TimeLock
      /\ \A q \in Pair \ {p} : pending'[q] = pending[q]
  BY <1>1, <1>2, NoneIsNoPermission DEF TypeOK
<1>4. Exists(p)' /\ (Expired(p)' <=> Expired(p))
  BY <1>1, OthersKeepTheirs DEF Exists, Expired
<1>5. /\ States[p] # "none" /\ States'[p] = States[p]
      /\ Limits'[p] = Limits[p] /\ Spendings'[p] = Spendings[p]
  BY <1>1, <1>4, AlwaysSees DEF Sees
<1> QED BY <1>1, <1>3, <1>5, OthersKeepTheirs DEF A!Ask, A!OthersKeep

LEMMA ExecuteIsLower ==
  ASSUME TypeOK, NEW p \in Pair, ExecuteDecreaseAllowance(p)
  PROVE  A!Lower(p)
<1> DEFINE new_limit == perm[p].limit_total - pending[p].amount
<1>1. /\ Exists(p) /\ pending[p] # None /\ now >= pending[p].execution_time
      /\ new_limit >= perm[p].spent /\ perm' = [perm EXCEPT ![p].limit_total = new_limit]
      /\ pending' = [pending EXCEPT ![p] = None] /\ PairStep(p)
  BY DEF ExecuteDecreaseAllowance, PairStep
<1>2. /\ perm[p] \in PermissionRecord /\ pending[p] \in PendingDecrement
      /\ perm \in [Pair -> PermissionRecord \cup {None}]
  BY <1>1 DEF TypeOK, Exists
<1>3. new_limit \in Int /\ perm[p].spent \in Int
  BY <1>2 DEF PermissionRecord, PendingDecrement
<1>4. Limits[p] = perm[p].limit_total /\ Spendings[p] = perm[p].spent /\ States[p] # "none"
  BY <1>1, AlwaysSees DEF Sees
<1>5. new_limit = Limits[p] - pending[p].amount
  BY <1>4
<1> HIDE DEF new_limit
<1>6. /\ perm'[p] \in PermissionRecord /\ perm'[p].limit_total = new_limit
      /\ perm'[p].spent = perm[p].spent /\ perm'[p].status = perm[p].status
      /\ perm'[p].expires_at_ledger = perm[p].expires_at_ledger
  BY <1>1, <1>2, <1>3 DEF PermissionRecord
<1>7. Exists(p)' /\ (Expired(p)' <=> Expired(p))
  BY <1>1, <1>6, NoneIsNoPermission, OthersKeepTheirs DEF Exists, Expired
<1>8. States'[p] = States[p] /\ Limits'[p] = new_limit /\ Spendings'[p] = Spendings[p]
  BY <1>1, <1>6, <1>7, AlwaysSees DEF Sees
<1>9. Limits' = [Limits EXCEPT ![p] = Limits[p] - pending[p].amount]
  BY <1>1, <1>5, <1>8, OthersKeepTheirs, AlwaysSees
<1>10. Spendings[p] =< Limits'[p]
  BY <1>1, <1>3, <1>4, <1>8
<1> QED BY <1>1, <1>4, <1>8, <1>9, <1>10, OthersKeepTheirs DEF A!Lower

LEMMA LedgersPass ==
  ASSUME TypeOK, NEW s \in LedgerTimes, CloseLedger(s)
  PROVE  A!Pass
<1>1. /\ ledger' = ledger + 1 /\ now' = now + s
      /\ perm' = perm /\ pending' = pending
      /\ ledger \in Nat /\ now \in Nat /\ s \in Nat
  BY PermissionsConstants DEF CloseLedger, pairVars, TypeOK
<1>2. ASSUME NEW p \in Pair
      PROVE  /\ Limits'[p] = Limits[p] /\ Spendings'[p] = Spendings[p]
             /\ States'[p] # States[p] => States[p] # "none" /\ States'[p] = "over"
  <2>1. CASE Exists(p)
    <3>1. Expired(p) => Expired(p)'
      <4>1. perm[p].expires_at_ledger \in Nat
        BY <2>1, PermissionsConstants DEF TypeOK, PermissionRecord, Exists
      <4> QED BY <1>1, <4>1 DEF Expired
    <3> QED BY <1>1, <2>1, <3>1, AlwaysSees DEF Sees, Exists
  <2>2. CASE ~Exists(p)
    BY <1>1, <2>2, AlwaysSees DEF Sees, Exists
  <2> QED BY <2>1, <2>2
<1>3. UNCHANGED <<Limits, Spendings>>
  BY <1>2, AlwaysSees
<1> QED BY <1>1, <1>2, <1>3 DEF A!Pass

LEMMA StepKeepsAllowance ==
  ASSUME TypeOK, [Next]_vars
  PROVE  [A!Next]_(A!allowanceVars)
<1>1. ASSUME NEW p \in Pair, PairStep(p) PROVE [A!Next]_(A!allowanceVars)
  BY <1>1, GrantIsGrant, StatusSteps, SpendIsSpend, DecreaseIsAsk, ExecuteIsLower
     DEF PairStep, A!Next
<1>2. ASSUME NEW s \in LedgerTimes, CloseLedger(s) PROVE A!Next
  BY <1>2, LedgersPass DEF A!Next
<1>3. CASE UNCHANGED <<perm, pending, ledger, now>>
  <2>1. \A p \in Pair : (Exists(p)' <=> Exists(p)) /\ (Expired(p)' <=> Expired(p))
    BY <1>3 DEF Exists, Expired
  <2>2. UNCHANGED <<States, Limits, Spendings>>
    BY <1>3, <2>1, AlwaysSees DEF Sees
  <2> QED BY <1>3, <2>2 DEF A!allowanceVars
<1>4. ASSUME NEW a \in Address, NEW b \in BOOLEAN,
             SetAdmin(a) \/ SetGrantsPaused(a, b) \/ SetAllowSelfDelegation(a, b)
      PROVE  UNCHANGED <<perm, pending, ledger, now>>
  BY <1>4 DEF SetAdmin, SetGrantsPaused, SetAllowSelfDelegation, pairVars, clockVars
<1> QED BY <1>1, <1>2, <1>3, <1>4 DEF Next, vars, pairVars, clockVars

(* The contract keeps an allowance for every pair: an allowance pays only  *)
(* while it is open, its limit moves only by a mature request, and no call *)
(* for one pair touches another.                                           *)
THEOREM AllowanceKept == Spec => KeepsAllowance
<1>1. Init => A!Init
  BY DEF Init, A!Init, States, Limits, Spendings, Exists
<1>2. TypeOK /\ [Next]_vars => [A!Next]_(A!allowanceVars)
  BY StepKeepsAllowance
<1> QED BY <1>1, <1>2, TypeCorrect, PTL DEF Spec, KeepsAllowance, A!Spec
=============================================================================

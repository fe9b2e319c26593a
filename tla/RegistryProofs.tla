---------------------------- MODULE RegistryProofs ----------------------------
(***************************************************************************)
(* Proofs about the delegation registry, for any owners, agents, lifetimes *)
(* and bounds.                                                             *)
(***************************************************************************)
EXTENDS DelegationRegistry, TLAPS

(* Ids are handed out in order: unless a delegation preceded initialize,   *)
(* no delegation has an id that is still to come, and none exists before   *)
(* initialize was called.                                                  *)
IdsInOrder ==
    ~early =>
        /\ ~initialized => \A id \in Id : ~IsRecorded(id)
        /\ \A id \in Id : IsRecorded(id) => id < nextId

RegistryInv == RegistryTypeOK /\ IdsInOrder /\ IndexExact

-----------------------------------------------------------------------------
(* What appending does to a sequence without repetitions.                  *)

LEMMA AppendAddsToSet ==
  ASSUME NEW S, NEW s \in Seq(S), NEW x \in S
  PROVE  ToSet(Append(s, x)) = ToSet(s) \cup {x}
<1>1. /\ DOMAIN Append(s, x) = 1..(Len(s) + 1) /\ DOMAIN s = 1..Len(s)
      /\ \A i \in 1..Len(s) : Append(s, x)[i] = s[i]
      /\ Append(s, x)[Len(s) + 1] = x
      /\ Len(s) \in Nat
  OBVIOUS
<1>2. 1..(Len(s) + 1) = (1..Len(s)) \cup {Len(s) + 1}
  BY <1>1
<1> QED BY <1>1, <1>2 DEF ToSet

LEMMA AppendNewToInjective ==
  ASSUME NEW S, NEW s \in Seq(S), NEW x \in S, IsInjective(s), x \notin ToSet(s)
  PROVE  IsInjective(Append(s, x))
<1> DEFINE t == Append(s, x)
<1>1. /\ DOMAIN t = 1..(Len(s) + 1) /\ DOMAIN s = 1..Len(s)
      /\ \A k \in 1..Len(s) : t[k] = s[k] /\ s[k] # x
      /\ t[Len(s) + 1] = x
      /\ Len(s) \in Nat
  BY DEF ToSet
<1>2. \A k \in 1..(Len(s) + 1) : k \in 1..Len(s) \/ k = Len(s) + 1
  BY <1>1
<1>3. \A i, j \in 1..Len(s) : s[i] = s[j] => i = j
  BY <1>1, Zenon DEF IsInjective
<1> HIDE DEF t
<1>4. \A i, j \in DOMAIN t : t[i] = t[j] => i = j
  BY <1>1, <1>2, <1>3
<1>5. IsInjective(t)
  BY <1>4, Zenon DEF IsInjective
<1> QED BY <1>5 DEF t

-----------------------------------------------------------------------------

LEMMA InitInv == RegistryInit => RegistryInv
<1> SUFFICES ASSUME RegistryInit PROVE RegistryInv
  OBVIOUS
<1>1. RegistryTypeOK
  <2>1. \A o \in Principals : listed[o] \in Seq(Id)
    BY DEF RegistryInit
  <2>2. listed \in [Principals -> Seq(Id)]
    BY <2>1, Zenon DEF RegistryInit
  <2>3. nextId \in 1..(MaxId + 1) /\ sequence \in 0..MaxSequence
    BY RegistryConstants DEF RegistryInit
  <2>4. delegation \in [Id -> DelegationRecord \cup {NoDelegation}]
    BY Zenon DEF RegistryInit
  <2> QED BY <2>2, <2>3, <2>4 DEF RegistryInit, RegistryTypeOK
<1>2. IdsInOrder
  BY DEF RegistryInit, IdsInOrder, IsRecorded
<1>3. IndexExact
  BY DEF RegistryInit, IndexExact, IsRecorded, IsInjective, ToSet
<1> QED BY <1>1, <1>2, <1>3 DEF RegistryInv

(* A step that writes the status of a delegation that exists.              *)
LEMMA StatusInv ==
  ASSUME RegistryInv, NEW id \in Id, IsRecorded(id), NEW s \in DelegationStatus,
         delegation' = [delegation EXCEPT ![id].status = s],
         UNCHANGED <<initialized, nextId, listed, sequence, early>>
  PROVE  RegistryInv'
<1>1. /\ delegation[id] \in DelegationRecord
      /\ delegation'[id] = [delegation[id] EXCEPT !.status = s]
      /\ \A j \in Id : j # id => delegation'[j] = delegation[j]
  BY DEF RegistryInv, RegistryTypeOK, IsRecorded
<1>2. /\ delegation'[id] \in DelegationRecord
      /\ delegation'[id].owner = delegation[id].owner
  BY <1>1 DEF DelegationRecord
<1>3. RegistryTypeOK'
  BY <1>1, <1>2 DEF RegistryInv, RegistryTypeOK
<1>4. \A j \in Id : /\ IsRecorded(j)' <=> IsRecorded(j)
                    /\ delegation'[j].owner = delegation[j].owner
  BY <1>1, <1>2, NoneIsNoDelegation DEF IsRecorded
<1>5. IdsInOrder'
  BY <1>4 DEF RegistryInv, IdsInOrder
<1>6. IndexExact'
  <2> HIDE DEF IsRecorded
  <2>1. \A o \in Principals : {j \in Id : IsRecorded(j)' /\ delegation'[j].owner = o} =
                          {j \in Id : IsRecorded(j) /\ delegation[j].owner = o}
    BY <1>4
  <2> QED BY <2>1, Zenon DEF RegistryInv, IndexExact, IsRecorded
<1> QED BY <1>3, <1>5, <1>6 DEF RegistryInv

(* The record create_delegation writes belongs to a new id.                *)
LEMMA CreateInv ==
  ASSUME RegistryInv, NEW owner \in Principals, NEW agent \in Agents, NEW ttl \in TtlLedgers,
         CreateDelegation(owner, agent, ttl)
  PROVE  RegistryInv'
<1> DEFINE r == [owner |-> owner, agent_id |-> agent, status |-> "Active",
                 expires_at_ledger |-> sequence + ttl]
<1>1. /\ nextId \in Id /\ nextId' = nextId + 1
      /\ delegation' = [delegation EXCEPT ![nextId] = r]
      /\ listed' = [listed EXCEPT ![owner] = Append(@, nextId)]
      /\ early' = (early \/ ~initialized)
      /\ UNCHANGED <<initialized, sequence>>
  BY RegistryConstants DEF CreateDelegation, RegistryInv, RegistryTypeOK, Id
<1>2. r \in DelegationRecord
  <2>1. sequence + ttl \in 0..MaxSequence
    BY RegistryConstants DEF CreateDelegation, RegistryInv, RegistryTypeOK
  <2> QED BY <2>1 DEF DelegationRecord, DelegationStatus
<1>3. r.owner = owner
  OBVIOUS
<1> HIDE DEF r
<1>4. RegistryTypeOK'
  <2>1. nextId' \in 1..(MaxId + 1)
    BY <1>1, RegistryConstants DEF Id
  <2>2. delegation' \in [Id -> DelegationRecord \cup {NoDelegation}]
    BY <1>1, <1>2 DEF RegistryInv, RegistryTypeOK
  <2>3. listed' \in [Principals -> Seq(Id)]
    <3>1. Append(listed[owner], nextId) \in Seq(Id)
      BY <1>1 DEF RegistryInv, RegistryTypeOK
    <3> QED BY <1>1, <3>1, Zenon DEF RegistryInv, RegistryTypeOK
  <2>4. initialized' \in BOOLEAN /\ early' \in BOOLEAN
    BY <1>1 DEF RegistryInv, RegistryTypeOK
  <2> QED BY <1>1, <2>1, <2>2, <2>3, <2>4 DEF RegistryInv, RegistryTypeOK
<1>5. \A j \in Id : /\ IsRecorded(j)' <=> IsRecorded(j) \/ j = nextId
                    /\ delegation'[j] = IF j = nextId THEN r ELSE delegation[j]
  BY <1>1, <1>2, NoneIsNoDelegation DEF IsRecorded, RegistryInv, RegistryTypeOK
<1>6. ~early' => ~early /\ initialized /\ ~IsRecorded(nextId)
  <2>1. ~early' => ~early /\ initialized
    BY <1>1 DEF RegistryInv, RegistryTypeOK
  <2>2. ~early => (IsRecorded(nextId) => nextId < nextId)
    BY <1>1, Zenon DEF RegistryInv, IdsInOrder
  <2>3. ~(nextId < nextId)
    BY DEF RegistryInv, RegistryTypeOK
  <2> QED BY <2>1, <2>2, <2>3
<1>7. IdsInOrder'
  <2> SUFFICES ASSUME ~early' PROVE /\ ~initialized' => \A id \in Id : ~IsRecorded(id)'
                                    /\ \A id \in Id : IsRecorded(id)' => id < nextId'
    BY DEF IdsInOrder
  <2>1. ~early /\ initialized'
    BY <1>1, <1>6
  <2>2. \A id \in Id : IsRecorded(id) => id < nextId
    BY <2>1 DEF RegistryInv, IdsInOrder
  <2> QED BY <1>1, <1>5, <2>1, <2>2 DEF Id
<1>8. IndexExact'
  <2> SUFFICES ASSUME ~early', NEW o \in Principals
               PROVE  /\ IsInjective(listed'[o])
                      /\ ToSet(listed'[o]) =
                           {id \in Id : IsRecorded(id)' /\ delegation'[id].owner = o}
    BY Zenon DEF IndexExact, IsRecorded
  <2>1. /\ IsInjective(listed[o]) /\ ~IsRecorded(nextId) /\ listed[o] \in Seq(Id)
        /\ ToSet(listed[o]) = {id \in Id : IsRecorded(id) /\ delegation[id].owner = o}
    BY <1>6 DEF RegistryInv, IndexExact, RegistryTypeOK
  <2>2. CASE o = owner
    <3>1. listed'[o] = Append(listed[o], nextId)
      BY <1>1, <2>2 DEF RegistryInv, RegistryTypeOK
    <3>2. nextId \notin ToSet(listed[o])
      BY <2>1
    <3>3. IsInjective(Append(listed[o], nextId))
      <4>1. nextId \in Id
        BY <1>1
      <4>2. IsInjective(listed[o]) /\ listed[o] \in Seq(Id)
        BY <2>1
      <4> QED BY <3>2, <4>1, <4>2, AppendNewToInjective, Zenon
    <3>4. ToSet(Append(listed[o], nextId)) = ToSet(listed[o]) \cup {nextId}
      BY <1>1, <2>1, AppendAddsToSet, Zenon
    <3>5. ToSet(listed[o]) \cup {nextId} =
          {id \in Id : IsRecorded(id)' /\ delegation'[id].owner = o}
      BY <1>1, <1>3, <1>5, <2>1, <2>2
    <3> QED BY <3>1, <3>3, <3>4, <3>5, Zenon
  <2>3. CASE o # owner
    <3>1. listed'[o] = listed[o]
      BY <1>1, <2>3 DEF RegistryInv, RegistryTypeOK
    <3>2. {id \in Id : IsRecorded(id)' /\ delegation'[id].owner = o} =
          {id \in Id : IsRecorded(id) /\ delegation[id].owner = o}
      BY <1>3, <1>5, <2>1, <2>3
    <3> QED BY <2>1, <3>1, <3>2, Zenon
  <2> QED BY <2>2, <2>3
<1> QED BY <1>4, <1>7, <1>8 DEF RegistryInv

LEMMA NextInv == RegistryInv /\ [RegistryNext]_registryVars => RegistryInv'
<1> SUFFICES ASSUME RegistryInv, [RegistryNext]_registryVars PROVE RegistryInv'
  OBVIOUS
<1>1. CASE Initialize
  <2>1. RegistryTypeOK'
    BY <1>1, RegistryConstants DEF Initialize, RegistryInv, RegistryTypeOK
  <2>2. IdsInOrder'
    BY <1>1 DEF Initialize, RegistryInv, IdsInOrder, IsRecorded
  <2>3. IndexExact'
    BY <1>1, Zenon DEF Initialize, RegistryInv, IndexExact, IsRecorded
  <2> QED BY <2>1, <2>2, <2>3 DEF RegistryInv
<1>2. CASE \E o \in Principals, a \in Agents, ttl \in TtlLedgers : CreateDelegation(o, a, ttl)
  BY <1>2, CreateInv
<1>3. CASE \E id \in Id : PauseDelegation(id)
  BY <1>3, StatusInv DEF PauseDelegation, HasStatus, DelegationStatus
<1>4. CASE \E id \in Id : ResumeDelegation(id)
  BY <1>4, StatusInv DEF ResumeDelegation, HasStatus, DelegationStatus
<1>5. CASE \E id \in Id : RevokeDelegation(id)
  BY <1>5, StatusInv DEF RevokeDelegation, DelegationStatus
<1>6. CASE CloseRegistryLedger
  <2>1. RegistryTypeOK'
    BY <1>6, RegistryConstants DEF CloseRegistryLedger, RegistryInv, RegistryTypeOK
  <2>2. IdsInOrder'
    BY <1>6 DEF CloseRegistryLedger, RegistryInv, IdsInOrder, IsRecorded
  <2>3. IndexExact'
    BY <1>6, Zenon DEF CloseRegistryLedger, RegistryInv, IndexExact, IsRecorded
  <2> QED BY <2>1, <2>2, <2>3 DEF RegistryInv
<1>7. CASE UNCHANGED registryVars
  <2>1. RegistryTypeOK' /\ IdsInOrder'
    BY <1>7 DEF registryVars, RegistryInv, RegistryTypeOK, IdsInOrder, IsRecorded
  <2>2. IndexExact'
    BY <1>7, Zenon DEF registryVars, RegistryInv, IndexExact, IsRecorded
  <2> QED BY <2>1, <2>2 DEF RegistryInv
<1> QED BY <1>1, <1>2, <1>3, <1>4, <1>5, <1>6, <1>7 DEF RegistryNext

(* What every invocation preserves.                                        *)
THEOREM RegistryInvariant == RegistrySpec => []RegistryInv
<1> QED BY InitInv, NextInv, PTL DEF RegistrySpec

(* get_delegations_by_owner is exact: unless a delegation was created      *)
(* before initialize, the index of an owner lists every delegation of his  *)
(* and no other, each once, after any sequence of invocations.             *)
THEOREM ListedExactly == RegistrySpec => []IndexExact
<1>1. RegistryInv => IndexExact
  BY DEF RegistryInv
<1> QED BY <1>1, RegistryInvariant, PTL

-----------------------------------------------------------------------------
(* The step that AuthorityEndsForGood is about.                            *)
AuthorityStep ==
    ~early' =>
        \A id \in Id : IsRecorded(id) =>
            /\ HasStatus(id, "Revoked") \/ HasExpired(id) =>
                   \A a \in Agents : ~IsAuthorized(id, a)'
            /\ delegation'[id].agent_id = delegation[id].agent_id
            /\ delegation'[id].owner = delegation[id].owner

(* A step that writes the status of one delegation, to Active only if it   *)
(* was neither revoked nor expired.                                        *)
LEMMA StatusStep ==
  ASSUME RegistryInv, NEW i \in Id, IsRecorded(i), NEW s \in DelegationStatus,
         delegation' = [delegation EXCEPT ![i].status = s], UNCHANGED sequence,
         s = "Active" => ~HasStatus(i, "Revoked") /\ ~HasExpired(i)
  PROVE  AuthorityStep
<1>1. /\ delegation[i] \in DelegationRecord
      /\ delegation'[i] = [delegation[i] EXCEPT !.status = s]
      /\ \A j \in Id : j # i => delegation'[j] = delegation[j]
  BY DEF RegistryInv, RegistryTypeOK, IsRecorded
<1>2. /\ delegation'[i].owner = delegation[i].owner
      /\ delegation'[i].agent_id = delegation[i].agent_id
      /\ delegation'[i].expires_at_ledger = delegation[i].expires_at_ledger
      /\ delegation'[i].status = s
  BY <1>1 DEF DelegationRecord
<1>3. ASSUME NEW id \in Id, IsRecorded(id), HasStatus(id, "Revoked") \/ HasExpired(id),
             NEW a \in Agents
      PROVE  ~IsAuthorized(id, a)'
  <2>1. CASE id = i
    BY <1>2, <1>3, <2>1 DEF IsAuthorized, HasStatus, HasExpired
  <2>2. CASE id # i
    BY <1>1, <1>3, <2>2 DEF IsAuthorized, HasStatus, HasExpired
  <2> QED BY <2>1, <2>2
<1> QED BY <1>1, <1>2, <1>3 DEF AuthorityStep

(* A step that leaves the delegations that exist alone.                    *)
LEMMA OtherStep ==
  ASSUME RegistryInv, sequence \in Nat, sequence' \in Nat, sequence' >= sequence,
         ~early' => \A id \in Id : IsRecorded(id) => delegation'[id] = delegation[id]
  PROVE  AuthorityStep
<1> SUFFICES ASSUME ~early', NEW id \in Id, IsRecorded(id)
             PROVE  /\ HasStatus(id, "Revoked") \/ HasExpired(id) =>
                           \A a \in Agents : ~IsAuthorized(id, a)'
                    /\ delegation'[id].agent_id = delegation[id].agent_id
                    /\ delegation'[id].owner = delegation[id].owner
  BY DEF AuthorityStep
<1>1. delegation'[id] = delegation[id] /\ delegation[id].expires_at_ledger \in Nat
  BY RegistryConstants DEF RegistryInv, RegistryTypeOK, IsRecorded, DelegationRecord
<1> QED BY <1>1 DEF IsAuthorized, HasStatus, HasExpired

LEMMA NextAuthority == RegistryInv /\ [RegistryNext]_registryVars => AuthorityStep \/ UNCHANGED registryVars
<1> SUFFICES ASSUME RegistryInv, RegistryNext PROVE AuthorityStep
  OBVIOUS
<1>0. sequence \in Nat
  BY RegistryConstants DEF RegistryInv, RegistryTypeOK
<1>1. CASE Initialize \/ CloseRegistryLedger
  BY <1>0, <1>1, OtherStep DEF Initialize, CloseRegistryLedger
<1>2. CASE \E o \in Principals, a \in Agents, ttl \in TtlLedgers : CreateDelegation(o, a, ttl)
  <2>1. PICK o \in Principals, a \in Agents, ttl \in TtlLedgers : CreateDelegation(o, a, ttl)
    BY <1>2
  <2>2. ~early' => ~IsRecorded(nextId)
    BY <2>1, RegistryConstants DEF CreateDelegation, RegistryInv, RegistryTypeOK, IdsInOrder, Id
  <2>3. \A id \in Id : id # nextId => delegation'[id] = delegation[id]
    BY <2>1 DEF CreateDelegation, RegistryInv, RegistryTypeOK
  <2>4. sequence' = sequence
    BY <2>1 DEF CreateDelegation
  <2> QED BY <1>0, <2>2, <2>3, <2>4, OtherStep
<1>3. CASE \E id \in Id : PauseDelegation(id)
  BY <1>3, StatusStep DEF PauseDelegation, HasStatus, DelegationStatus
<1>4. CASE \E id \in Id : ResumeDelegation(id)
  BY <1>4, StatusStep DEF ResumeDelegation, HasStatus, DelegationStatus
<1>5. CASE \E id \in Id : RevokeDelegation(id)
  BY <1>5, StatusStep DEF RevokeDelegation, DelegationStatus
<1> QED BY <1>1, <1>2, <1>3, <1>4, <1>5 DEF RegistryNext

(* Authority ends for good: unless a delegation was created before         *)
(* initialize, no invocation and no ledger lets a delegation that is       *)
(* revoked or expired authorise an agent again, or changes whose it is and *)
(* whom it authorises.                                                     *)
THEOREM NeverAuthorisedAgain == RegistrySpec => AuthorityEndsForGood
<1>1. RegistryInv /\ [RegistryNext]_registryVars => [AuthorityStep]_registryVars
  BY NextAuthority
<1> QED BY <1>1, RegistryInvariant, PTL DEF RegistrySpec, AuthorityEndsForGood, AuthorityStep
=============================================================================

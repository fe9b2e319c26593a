-------------------------- MODULE DelegationRegistry --------------------------
(***************************************************************************)
(* The delegation registry contract                                        *)
(* (contracts/delegation_registry/src/lib.rs): records of which agent acts *)
(* for which owner, their ids and an index of the ids of every owner.      *)
(*                                                                         *)
(* An invocation is atomic and one that panics changes nothing: so         *)
(* resume_delegation, which writes the status Expired and then panics,     *)
(* never leaves that status behind.  A delegation is paused, resumed and   *)
(* revoked under the authorisation of the owner in its record.             *)
(***************************************************************************)
EXTENDS Integers, Sequences, SequencesExt

CONSTANTS
    Principals, Agents,  \* the owners, and whom they delegate to
    TtlLedgers,     \* ttl_ledgers arguments tried
    MaxSequence,    \* the largest u32 ledger sequence number
    MaxId,          \* bound: next_id
    MaxListed,      \* bound: delegations created for one owner
    NoDelegation    \* an id without a record

ASSUME RegistryConstants ==
    /\ TtlLedgers \subseteq Nat /\ MaxSequence \in Nat
    /\ MaxId \in Nat \ {0} /\ MaxListed \in Nat

VARIABLES
    initialized,    \* DataKey::Admin is set
    nextId,         \* DataKey::NextId, 1 when absent
    delegation,     \* DataKey::Delegation(id), or NoDelegation
    listed,         \* DataKey::UserDelegations(owner), a Vec of ids
    sequence,       \* external: the ledger sequence number
    early           \* observation only: a delegation preceded initialize

registryVars == <<initialized, nextId, delegation, listed, sequence, early>>

Id == 1..MaxId
DelegationStatus == {"Active", "Paused", "Revoked"}
DelegationRecord ==
    [owner : Principals, agent_id : Agents, status : DelegationStatus,
     expires_at_ledger : 0..MaxSequence]

ASSUME NoneIsNoDelegation == NoDelegation \notin DelegationRecord

RegistryTypeOK ==
    /\ initialized \in BOOLEAN /\ early \in BOOLEAN
    /\ nextId \in 1..(MaxId + 1)
    /\ delegation \in [Id -> DelegationRecord \cup {NoDelegation}]
    /\ listed \in [Principals -> Seq(Id)]
    /\ sequence \in 0..MaxSequence

RegistryInit ==
    /\ initialized = FALSE /\ early = FALSE
    /\ nextId = 1
    /\ delegation = [id \in Id |-> NoDelegation]
    /\ listed = [o \in Principals |-> <<>>]
    /\ sequence = 0

IsRecorded(id) == delegation[id] # NoDelegation
HasStatus(id, s) == IsRecorded(id) /\ delegation[id].status = s
HasExpired(id) == sequence >= delegation[id].expires_at_ledger

-----------------------------------------------------------------------------
(* Faulty variants of some operations; no specification uses them.         *)

\* Any delegation that is not active can be resumed.
ResumeDelegationUnlessActive(id) ==
    /\ IsRecorded(id) /\ ~HasStatus(id, "Active") /\ ~HasExpired(id)
    /\ delegation' = [delegation EXCEPT ![id].status = "Active"]
    /\ UNCHANGED <<initialized, nextId, listed, sequence, early>>

\* initialize starts the ids over each time it is called.
InitializeAgain ==
    /\ initialized' = TRUE
    /\ nextId' = 1
    /\ UNCHANGED <<delegation, listed, sequence, early>>

-----------------------------------------------------------------------------

\* initialize sets NextId to 1 even if delegations exist already.
Initialize ==
    /\ ~initialized
    /\ initialized' = TRUE
    /\ nextId' = 1
    /\ UNCHANGED <<delegation, listed, sequence, early>>

\* create_delegation does not ask whether initialize was called.
CreateDelegation(owner, agent, ttl) ==
    /\ nextId <= MaxId /\ Len(listed[owner]) < MaxListed
    /\ sequence + ttl <= MaxSequence
    /\ nextId' = nextId + 1
    /\ delegation' = [delegation EXCEPT ![nextId] =
                        [owner |-> owner, agent_id |-> agent, status |-> "Active",
                         expires_at_ledger |-> sequence + ttl]]
    /\ listed' = [listed EXCEPT ![owner] = Append(@, nextId)]
    /\ early' = (early \/ ~initialized)
    /\ UNCHANGED <<initialized, sequence>>

PauseDelegation(id) ==
    /\ HasStatus(id, "Active")
    /\ delegation' = [delegation EXCEPT ![id].status = "Paused"]
    /\ UNCHANGED <<initialized, nextId, listed, sequence, early>>

ResumeDelegation(id) ==
    /\ HasStatus(id, "Paused") /\ ~HasExpired(id)
    /\ delegation' = [delegation EXCEPT ![id].status = "Active"]
    /\ UNCHANGED <<initialized, nextId, listed, sequence, early>>

\* Revoking a second time succeeds and changes nothing.
RevokeDelegation(id) ==
    /\ IsRecorded(id) /\ ~HasStatus(id, "Revoked")
    /\ delegation' = [delegation EXCEPT ![id].status = "Revoked"]
    /\ UNCHANGED <<initialized, nextId, listed, sequence, early>>

CloseRegistryLedger ==
    /\ sequence < MaxSequence
    /\ sequence' = sequence + 1
    /\ UNCHANGED <<initialized, nextId, delegation, listed, early>>

RegistryNext ==
    \/ Initialize
    \/ \E o \in Principals, a \in Agents, ttl \in TtlLedgers : CreateDelegation(o, a, ttl)
    \/ \E id \in Id : PauseDelegation(id)
    \/ \E id \in Id : ResumeDelegation(id)
    \/ \E id \in Id : RevokeDelegation(id)
    \/ CloseRegistryLedger

RegistrySpec == RegistryInit /\ [][RegistryNext]_registryVars

\* is_authorized
IsAuthorized(id, agent) ==
    HasStatus(id, "Active") /\ ~HasExpired(id) /\ delegation[id].agent_id = agent

-----------------------------------------------------------------------------
(* Properties.  The first two hold as long as no delegation was created    *)
(* before initialize: initialize starts the ids over, and the delegations  *)
(* that follow then overwrite the early ones.                              *)

(* The index and the records agree: get_delegations_by_owner returns every *)
(* delegation of the owner, once, and no other owner's.                    *)
IndexExact ==
    ~early =>
        \A o \in Principals :
            /\ IsInjective(listed[o])
            /\ ToSet(listed[o]) =
                   {id \in Id : IsRecorded(id) /\ delegation[id].owner = o}

(* A revoked or expired delegation never authorises any agent again, and a *)
(* delegation never authorises any agent but the one it was created for.   *)
AuthorityEndsForGood ==
    [][~early' =>
        \A id \in Id : IsRecorded(id) =>
            /\ HasStatus(id, "Revoked") \/ HasExpired(id) =>
                   \A a \in Agents : ~IsAuthorized(id, a)'
            /\ delegation'[id].agent_id = delegation[id].agent_id
            /\ delegation'[id].owner = delegation[id].owner]_registryVars
=============================================================================

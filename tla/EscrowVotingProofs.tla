------------------------- MODULE EscrowVotingProofs -------------------------
(***************************************************************************)
(* Arbitration: votes are by different arbiters, so counting votes counts  *)
(* arbiters, and two majorities of one set of arbiters would share one.    *)
(***************************************************************************)
EXTENDS EscrowProofs, FunctionTheorems

(* Nobody has two votes on one escrow, across any reconfigurations.        *)
VotersDistinct ==
    \A id \in EscrowId : \A i, j \in DOMAIN votes[id] :
        votes[id][i].arbiter = votes[id][j].arbiter => i = j

VotingInv == TypeOK /\ VotersDistinct

LEMMA StepVotersDistinct ==
  ASSUME TypeOK, VotersDistinct, [Next]_vars
  PROVE  VotersDistinct'
<1>1. CASE UNCHANGED votes
  BY <1>1 DEF VotersDistinct
<1>2. ASSUME NEW id \in EscrowId, NEW a \in Arbiters, NEW s \in BOOLEAN,
             VoteDispute(id, a, s)
      PROVE  VotersDistinct'
  <2> DEFINE v == [arbiter |-> a, release_to_seller |-> s]
             old == votes[id]
             new == votes'[id]
  <2>1. /\ votes' = [votes EXCEPT ![id] = Append(old, v)]
        /\ \A i \in DOMAIN old : old[i].arbiter # a
    BY <1>2 DEF VoteDispute
  <2>2. old \in Seq(DisputeVote) /\ v \in DisputeVote /\ v.arbiter = a
    BY DEF TypeOK, DisputeVote
  <2>3. new = Append(old, v) /\ \A o \in EscrowId \ {id} : votes'[o] = votes[o]
    BY <2>1 DEF TypeOK
  <2>4. \A i, j \in DOMAIN new : new[i].arbiter = new[j].arbiter => i = j
    <3> HIDE DEF v, old, new
    <3>1. /\ Len(old) \in Nat /\ DOMAIN old = 1..Len(old)
          /\ DOMAIN new = 1..(Len(old) + 1) /\ new[Len(old) + 1] = v
          /\ \A i \in 1..Len(old) : new[i] = old[i]
      BY <2>2, <2>3
    <3>2. \A i, j \in DOMAIN old : old[i].arbiter = old[j].arbiter => i = j
      BY DEF VotersDistinct, old
    <3> QED BY <2>1, <2>2, <3>1, <3>2
  <2> QED BY <2>3, <2>4 DEF VotersDistinct
<1> QED
  BY <1>1, <1>2
     DEF Next, vars, escrowVars, Deposit, Release, Refund, Dispute,
         ResolveDispute, SetQuorumConfig, ResolveDisputeQuorum, CloseLedger

THEOREM VotingInvariant == Spec => []VotingInv
<1>1. Init => VotersDistinct
  BY DEF Init, VotersDistinct
<1>2. TypeOK /\ VotersDistinct /\ [Next]_vars => VotersDistinct'
  BY StepVotersDistinct
<1> QED BY <1>1, <1>2, TypeCorrect, PTL DEF Spec, VotingInv

-----------------------------------------------------------------------------

CountedIndices(id, side) ==
    {i \in DOMAIN votes[id] : /\ votes[id][i].release_to_seller = side
                              /\ votes[id][i].arbiter \in quorum.arbiters}

(* The votes counted are as many as the arbiters who cast them.            *)
LEMMA CountIsVoters ==
  ASSUME VotingInv, quorum # None, NEW id \in EscrowId, NEW side \in BOOLEAN
  PROVE  /\ IsFiniteSet(Voters(id, side) \cap quorum.arbiters)
         /\ CountedVotes(id, side)
              = Cardinality(Voters(id, side) \cap quorum.arbiters)
<1> DEFINE S == CountedIndices(id, side)
           T == Voters(id, side) \cap quorum.arbiters
           f == [i \in S |-> votes[id][i].arbiter]
<1>1. votes[id] \in Seq(DisputeVote) /\ DOMAIN votes[id] = 1..Len(votes[id])
      /\ Len(votes[id]) \in Nat
  BY DEF VotingInv, TypeOK
<1>2. IsFiniteSet(S)
  <2>1. IsFiniteSet(1..Len(votes[id]))
    BY <1>1, FS_Interval
  <2>2. S \subseteq 1..Len(votes[id])
    BY <1>1 DEF CountedIndices
  <2> QED BY <2>1, <2>2, FS_Subset
<1>3. f \in Bijection(S, T)
  <2>1. f \in [S -> T]
    BY DEF CountedIndices, Voters
  <2>2. \A t \in T : \E i \in S : f[i] = t
    BY DEF CountedIndices, Voters
  <2>3. \A i, j \in S : f[i] = f[j] => i = j
    BY DEF VotingInv, VotersDistinct, CountedIndices
  <2> HIDE DEF f, S, T
  <2> QED BY <2>1, <2>2, <2>3, Fun_IsBij
<1>4. IsFiniteSet(T) /\ Cardinality(T) = Cardinality(S)
  <2> HIDE DEF f, S, T
  <2> QED BY <1>2, <1>3, FS_Bijection DEF ExistsBijection
<1>5. CountedVotes(id, side) = Cardinality(S)
  BY DEF CountedVotes, CountedIndices
<1> QED BY <1>4, <1>5

(* A majority threshold excludes ConflictingQuorum for good, whatever      *)
(* configurations the stored votes come from.                              *)
THEOREM MajorityDecides == Spec => []MajorityNeverConflicts
<1>1. VotingInv => MajorityNeverConflicts
  <2> SUFFICES ASSUME VotingInv, quorum # None,
                      2 * quorum.threshold > Cardinality(quorum.arbiters),
                      NEW id \in EscrowId,
                      ReachesThreshold(id, TRUE), ReachesThreshold(id, FALSE)
               PROVE  FALSE
    BY DEF MajorityNeverConflicts
  <2> DEFINE Q == quorum.arbiters
             A == CountedIndices(id, TRUE)
             B == CountedIndices(id, FALSE)
  <2>1. Q \subseteq Arbiters /\ quorum.threshold \in Nat /\ IsFiniteSet(Q)
    BY EscrowConstants, FS_Subset DEF VotingInv, TypeOK, QuorumConfig
  <2>2. A \cap B = {}
    BY DEF CountedIndices
  <2>3. IsFiniteSet(A \cup B) /\ IsFiniteSet(A) /\ IsFiniteSet(B)
    <3>1. DOMAIN votes[id] = 1..Len(votes[id]) /\ Len(votes[id]) \in Nat
      <4>1. votes[id] \in Seq(DisputeVote)
        BY DEF VotingInv, TypeOK
      <4> QED BY <4>1
    <3>2. IsFiniteSet(DOMAIN votes[id])
      BY <3>1, FS_Interval
    <3>3. A \cup B \subseteq DOMAIN votes[id] /\ A \subseteq DOMAIN votes[id]
          /\ B \subseteq DOMAIN votes[id]
      BY DEF CountedIndices
    <3> QED BY <3>2, <3>3, FS_Subset
  <2>4. Cardinality(A \cup B) <= Cardinality(Q)
    <3> DEFINE f == [i \in A \cup B |-> votes[id][i].arbiter]
    <3>1. f \in [A \cup B -> Q]
      BY DEF CountedIndices
    <3>2. \A i, j \in A \cup B : f[i] = f[j] => i = j
      BY DEF VotingInv, VotersDistinct, CountedIndices
    <3>3. f \in Injection(A \cup B, Q)
      <4> HIDE DEF f, A, B, Q
      <4> QED BY <3>1, <3>2, Fun_IsInj
    <3> HIDE DEF f, A, B, Q
    <3> QED BY <2>1, <3>3, FS_Injection DEF ExistsInjection
  <2>5. Cardinality(A \cup B) = Cardinality(A) + Cardinality(B)
    <3> HIDE DEF A, B
    <3>1. Cardinality(A \cap B) = 0
      BY <2>2, FS_EmptySet
    <3>2. Cardinality(A \cup B)
            = Cardinality(A) + Cardinality(B) - Cardinality(A \cap B)
      BY <2>3, FS_Union
    <3>3. Cardinality(A) \in Nat /\ Cardinality(B) \in Nat
      BY <2>3, FS_CardinalityType
    <3> QED BY <3>1, <3>2, <3>3
  <2>6. Cardinality(A) >= quorum.threshold /\ Cardinality(B) >= quorum.threshold
    BY DEF ReachesThreshold, CountedVotes, CountedIndices
  <2>7. Cardinality(A) \in Nat /\ Cardinality(B) \in Nat /\ Cardinality(Q) \in Nat
    BY <2>1, <2>3, FS_CardinalityType
  <2> HIDE DEF A, B, Q
  <2>8. 2 * quorum.threshold > Cardinality(Q)
    BY DEF Q
  <2> QED BY <2>1, <2>4, <2>5, <2>6, <2>7, <2>8
<1> QED BY <1>1, VotingInvariant, PTL

-----------------------------------------------------------------------------

Outcome(side) == IF side THEN "Released" ELSE "Refunded"

(* A payout writes the status of the escrow it pays out, and no other.     *)
LEMMA PayoutStatus ==
  ASSUME TypeOK, NEW id \in EscrowId, IsLive(id),
         NEW s \in BOOLEAN, IF s THEN PayToSeller(id) ELSE PayToBuyer(id)
  PROVE  /\ escrows'[id].status = Outcome(s)
         /\ \A o \in EscrowId \ {id} : escrows'[o] = escrows[o]
<1>1. escrows[id] \in EscrowRecord
  BY RecordType DEF IsLive
<1>2. escrows' = [escrows EXCEPT ![id].status = Outcome(s)]
  BY DEF PayToSeller, PayToBuyer, Outcome
<1> QED BY <1>1, <1>2 DEF TypeOK, EscrowRecord

LEMMA StepDecides ==
  ASSUME VotingInv, NEW id \in EscrowId, NEW side \in BOOLEAN,
         ResolveDisputeQuorum(id), escrows'[id].status = Outcome(side)
  PROVE  HaveQuorum(id, side) /\ ~HaveQuorum(id, ~side)
<1> USE DEF VotingInv
<1>1. PICK s \in BOOLEAN :
         /\ IsLive(id) /\ quorum # None
         /\ ReachesThreshold(id, s) /\ ~ReachesThreshold(id, ~s)
         /\ IF s THEN PayToSeller(id) ELSE PayToBuyer(id)
  BY DEF ResolveDisputeQuorum, HasStatus, IsLive, Live
<1>2. s = side
  BY <1>1, PayoutStatus DEF Outcome
<1>3. ReachesThreshold(id, side) /\ ~ReachesThreshold(id, ~side)
  BY <1>1, <1>2
<1> QED BY <1>1, <1>3, CountIsVoters DEF HaveQuorum, ReachesThreshold

(* A quorum of the present arbiters, each counted once, stands behind      *)
(* every payout of resolve_dispute_quorum.                                 *)
THEOREM OnlyQuorumDecides == Spec => QuorumDecides
<1> DEFINE Decided(id, side) ==
             /\ ResolveDisputeQuorum(id)
             /\ HasStatus(id, IF side THEN "Released" ELSE "Refunded")'
             => HaveQuorum(id, side) /\ ~HaveQuorum(id, ~side)
<1>1. VotingInv => \A id \in EscrowId, side \in BOOLEAN : Decided(id, side)
  BY StepDecides DEF HasStatus, Outcome
<1> QED BY <1>1, VotingInvariant, PTL DEF Spec, QuorumDecides
=============================================================================

------------------------------- MODULE Escrow -------------------------------
(***************************************************************************)
(* The escrow contract (contracts/escrow/src/lib.rs): deposits, releases,  *)
(* refunds, disputes and their resolution by an administrator or by a      *)
(* quorum of arbiters, over the administrative state of EscrowAdmin and    *)
(* the balances of the token contracts it moves funds with.                *)
(***************************************************************************)
EXTENDS EscrowAdmin, Sequences, FiniteSets

CONSTANTS
    Self,           \* the address of the escrow contract
    Buyers, Sellers, Arbiters,
    Amounts,        \* deposit amounts tried, invalid ones included
    TimeoutChoices, \* timeout_ledgers arguments tried
    Endowment,      \* what each buyer owns of each token at first
    MaxEscrows,     \* bound: deposits made
    MaxLedger       \* the largest u32 ledger sequence number

ASSUME EscrowConstants ==
    /\ Self \in Address
    /\ Buyers \subseteq Address /\ Sellers \subseteq Address
    /\ Self \notin Buyers   \* deposit needs the buyer's authorisation
    /\ Arbiters \subseteq Address /\ IsFiniteSet(Arbiters)
    /\ Amounts \subseteq Int
    /\ TimeoutChoices \subseteq Nat
    /\ Endowment \in Nat /\ MaxEscrows \in Nat /\ MaxLedger \in Nat

VARIABLES
    escrows,        \* DataKey::Escrow(id), None where there is no record
    lastEscrowId,   \* DataKey::LastEscrowId
    quorum,         \* DataKey::QuorumConfig
    votes,          \* DataKey::DisputeVotes(id)
    balance,        \* external: token -> address -> balance
    ledger,         \* external: the ledger sequence number
    paid            \* observation only: what each escrow has paid to whom

escrowVars == <<escrows, lastEscrowId, quorum, votes, balance, ledger, paid>>
vars == <<adminVars, escrowVars>>

EscrowId == 1..MaxEscrows
Live == {"Funded", "Disputed"}
EscrowStatus == Live \cup {"Released", "Refunded"}

EscrowRecord ==
    [buyer : Address, seller : Address, token : Token, amount : Nat \ {0},
     status : EscrowStatus, timeout_ledger : 0..MaxLedger]
DisputeVote == [arbiter : Arbiters, release_to_seller : BOOLEAN]
QuorumConfig == [arbiters : SUBSET Arbiters, threshold : Nat \ {0}]
Payout == [seller : Nat, treasury : Nat, buyer : Nat]

\* None is no record, as an absent Option is no value.
ASSUME NoneIsNoRecord == None \notin EscrowRecord /\ None \notin QuorumConfig

TypeOK ==
    /\ AdminTypeOK
    /\ escrows \in [EscrowId -> EscrowRecord \cup {None}]
    /\ lastEscrowId \in 0..MaxEscrows
    /\ quorum \in QuorumConfig \cup {None}
    /\ votes \in [EscrowId -> Seq(DisputeVote)]
    /\ balance \in [Token -> [Address -> Nat]]
    /\ ledger \in 0..MaxLedger
    /\ paid \in [EscrowId -> Payout]

Exists(id) == escrows[id] # None
HasStatus(id, s) == Exists(id) /\ escrows[id].status = s
IsLive(id) == Exists(id) /\ escrows[id].status \in Live

Init ==
    /\ AdminInit
    /\ escrows = [id \in EscrowId |-> None]
    /\ lastEscrowId = 0
    /\ quorum = None
    /\ votes = [id \in EscrowId |-> <<>>]
    /\ balance = [t \in Token |->
                     [a \in Address |-> IF a \in Buyers THEN Endowment ELSE 0]]
    /\ ledger = 0
    /\ paid = [id \in EscrowId |-> [seller |-> 0, treasury |-> 0, buyer |-> 0]]

-----------------------------------------------------------------------------
(* Fees and transfers.                                                     *)

\* Faulty variant: forgets the part of the amount below 10000.
FeeDropsRemainder(amount, bps) == (amount \div 10000) * bps

\* Split at 10000 so that amount * fee_bps is never formed.
Fee(amount, bps) ==
    (amount \div 10000) * bps + ((amount % 10000) * bps) \div 10000

\* The token contract's transfer; it panics, and with it the whole
\* invocation, when the payer's balance does not cover the amount.
Transfer(bal, t, from, to, n) ==
    LET debited == [bal EXCEPT ![t][from] = @ - n]
    IN  [debited EXCEPT ![t][to] = @ + n]

\* Pay out escrow id to its seller, the fee to the treasury first.
PayToSeller(id) ==
    LET e   == escrows[id]
        fee == Fee(e.amount, feeBps)
        afterFee == Transfer(balance, e.token, Self, Treasury, fee)
    IN  /\ balance[e.token][Self] >= fee
        /\ afterFee[e.token][Self] >= e.amount - fee
        /\ balance' = Transfer(afterFee, e.token, Self, e.seller, e.amount - fee)
        /\ escrows' = [escrows EXCEPT ![id].status = "Released"]
        /\ paid' = [paid EXCEPT ![id].seller = @ + (e.amount - fee),
                                ![id].treasury = @ + fee]

\* Return escrow id to its buyer, without a fee.
PayToBuyer(id) ==
    LET e == escrows[id]
    IN  /\ balance[e.token][Self] >= e.amount
        /\ balance' = Transfer(balance, e.token, Self, e.buyer, e.amount)
        /\ escrows' = [escrows EXCEPT ![id].status = "Refunded"]
        /\ paid' = [paid EXCEPT ![id].buyer = @ + e.amount]

-----------------------------------------------------------------------------
(* The life of an escrow.                                                  *)

\* Faulty variant: the u32 addition is not checked.
DepositUncheckedTimeout(buyer, seller, token, amount, timeout) ==
    LET id == lastEscrowId + 1
    IN  /\ ~createPaused /\ IsTokenAllowed(token)
        /\ amount > 0 /\ limits[1] <= amount /\ amount <= limits[2]
        /\ balance[token][buyer] >= amount
        /\ lastEscrowId < MaxEscrows
        /\ balance' = Transfer(balance, token, buyer, Self, amount)
        /\ lastEscrowId' = id
        /\ escrows' = [escrows EXCEPT ![id] =
                          [buyer |-> buyer, seller |-> seller, token |-> token,
                           amount |-> amount, status |-> "Funded",
                           timeout_ledger |-> ledger + timeout]]
        /\ UNCHANGED <<quorum, votes, ledger, paid>>
        /\ UNCHANGED adminVars

\* Faulty variant: LastEscrowId is not written back.
DepositForgetsLastId(buyer, seller, token, amount, timeout) ==
    LET id == lastEscrowId + 1
    IN  /\ ~createPaused /\ IsTokenAllowed(token)
        /\ amount > 0 /\ limits[1] <= amount /\ amount <= limits[2]
        /\ balance[token][buyer] >= amount
        /\ ledger + timeout <= MaxLedger
        /\ balance' = Transfer(balance, token, buyer, Self, amount)
        /\ escrows' = [escrows EXCEPT ![id] =
                          [buyer |-> buyer, seller |-> seller, token |-> token,
                           amount |-> amount, status |-> "Funded",
                           timeout_ledger |-> ledger + timeout]]
        /\ UNCHANGED <<lastEscrowId, quorum, votes, ledger, paid>>
        /\ UNCHANGED adminVars

Deposit(buyer, seller, token, amount, timeout) ==
    LET id == lastEscrowId + 1
    IN  /\ ~createPaused
        /\ IsTokenAllowed(token)
        /\ amount > 0 /\ limits[1] <= amount /\ amount <= limits[2]
        /\ balance[token][buyer] >= amount
        /\ lastEscrowId < MaxEscrows
        /\ ledger + timeout <= MaxLedger   \* the u32 addition panics otherwise
        /\ balance' = Transfer(balance, token, buyer, Self, amount)
        /\ lastEscrowId' = id
        /\ escrows' = [escrows EXCEPT ![id] =
                          [buyer |-> buyer, seller |-> seller, token |-> token,
                           amount |-> amount, status |-> "Funded",
                           timeout_ledger |-> ledger + timeout]]
        /\ UNCHANGED <<quorum, votes, ledger, paid>>
        /\ UNCHANGED adminVars

\* Faulty variant: rejects only what was released already.
ReleasableUnlessReleased(id, caller) ==
    /\ Exists(id)
    /\ caller = escrows[id].buyer \/ IsAdmin(caller)
    /\ escrows[id].status # "Released"

\* validate_release_status; the timeout plays no part.
Releasable(id, caller) ==
    /\ Exists(id)
    /\ caller = escrows[id].buyer \/ IsAdmin(caller)
    /\ escrows[id].status = "Funded"

Release(id, caller) ==
    /\ Releasable(id, caller)
    /\ PayToSeller(id)
    /\ UNCHANGED <<lastEscrowId, quorum, votes, ledger>>
    /\ UNCHANGED adminVars

TimeoutReached(id) == ledger >= escrows[id].timeout_ledger

\* Faulty variant: the timeout ledger itself is still too early.
RefundableAfterTimeout(id, caller) ==
    /\ HasStatus(id, "Funded")
    /\ \/ caller = escrows[id].seller \/ IsAdmin(caller)
       \/ caller = escrows[id].buyer /\ ledger > escrows[id].timeout_ledger

Refundable(id, caller) ==
    /\ HasStatus(id, "Funded")
    /\ \/ caller = escrows[id].seller \/ IsAdmin(caller)
       \/ caller = escrows[id].buyer /\ TimeoutReached(id)

\* Faulty variant: the creation pause blocks refunds too.
RefundUnlessPaused(id, caller) ==
    /\ ~createPaused
    /\ Refundable(id, caller)
    /\ PayToBuyer(id)
    /\ UNCHANGED <<lastEscrowId, quorum, votes, ledger>>
    /\ UNCHANGED adminVars

Refund(id, caller) ==
    /\ Refundable(id, caller)
    /\ PayToBuyer(id)
    /\ UNCHANGED <<lastEscrowId, quorum, votes, ledger>>
    /\ UNCHANGED adminVars

\* Faulty variant: a settled escrow can be disputed.
DisputeUnlessRefunded(id, caller) ==
    /\ Exists(id) /\ escrows[id].status # "Refunded"
    /\ caller \in {escrows[id].buyer, escrows[id].seller}
    /\ escrows' = [escrows EXCEPT ![id].status = "Disputed"]
    /\ UNCHANGED <<lastEscrowId, quorum, votes, balance, ledger, paid>>
    /\ UNCHANGED adminVars

Dispute(id, caller) ==
    /\ HasStatus(id, "Funded")
    /\ caller \in {escrows[id].buyer, escrows[id].seller}
    /\ escrows' = [escrows EXCEPT ![id].status = "Disputed"]
    /\ UNCHANGED <<lastEscrowId, quorum, votes, balance, ledger, paid>>
    /\ UNCHANGED adminVars

ResolveDispute(id, caller, release_to_seller) ==
    /\ IsAdmin(caller)
    /\ HasStatus(id, "Disputed")
    /\ IF release_to_seller THEN PayToSeller(id) ELSE PayToBuyer(id)
    /\ UNCHANGED <<lastEscrowId, quorum, votes, ledger>>
    /\ UNCHANGED adminVars

-----------------------------------------------------------------------------
(* Arbitration by quorum.                                                  *)

\* An argument with a repeated arbiter is rejected: a set stands for the Vec.
SetQuorumConfig(caller, arbiters, threshold) ==
    /\ IsAdmin(caller)
    /\ threshold \in 1..Cardinality(arbiters)
    /\ quorum' = [arbiters |-> arbiters, threshold |-> threshold]
    /\ UNCHANGED <<escrows, lastEscrowId, votes, balance, ledger, paid>>
    /\ UNCHANGED adminVars

\* Faulty variant: an arbiter may vote again.
VoteDisputeAgain(id, arbiter, release_to_seller) ==
    /\ quorum # None /\ arbiter \in quorum.arbiters
    /\ HasStatus(id, "Disputed")
    /\ Len(votes[id]) < 2
    /\ votes' = [votes EXCEPT ![id] =
                    Append(@, [arbiter |-> arbiter,
                               release_to_seller |-> release_to_seller])]
    /\ UNCHANGED <<escrows, lastEscrowId, quorum, balance, ledger, paid>>
    /\ UNCHANGED adminVars

VoteDispute(id, arbiter, release_to_seller) ==
    /\ quorum # None /\ arbiter \in quorum.arbiters
    /\ HasStatus(id, "Disputed")
    /\ \A i \in DOMAIN votes[id] : votes[id][i].arbiter # arbiter
    /\ votes' = [votes EXCEPT ![id] =
                    Append(@, [arbiter |-> arbiter,
                               release_to_seller |-> release_to_seller])]
    /\ UNCHANGED <<escrows, lastEscrowId, quorum, balance, ledger, paid>>
    /\ UNCHANGED adminVars

\* Faulty variant: every vote ever cast counts.
CountedVotesAll(id, side) ==
    Cardinality({i \in DOMAIN votes[id] :
                    votes[id][i].release_to_seller = side})

\* Votes of arbiters that a reconfiguration dropped do not count.
CountedVotes(id, side) ==
    Cardinality({i \in DOMAIN votes[id] :
                    /\ votes[id][i].release_to_seller = side
                    /\ votes[id][i].arbiter \in quorum.arbiters})

ReachesThreshold(id, side) == CountedVotes(id, side) >= quorum.threshold

\* Both sides at the threshold is ConflictingQuorum, neither QuorumNotReached.
ResolveDisputeQuorum(id) ==
    /\ HasStatus(id, "Disputed")
    /\ quorum # None
    /\ \/ /\ ReachesThreshold(id, TRUE) /\ ~ReachesThreshold(id, FALSE)
          /\ PayToSeller(id)
       \/ /\ ReachesThreshold(id, FALSE) /\ ~ReachesThreshold(id, TRUE)
          /\ PayToBuyer(id)
    /\ UNCHANGED <<lastEscrowId, quorum, votes, ledger>>
    /\ UNCHANGED adminVars

-----------------------------------------------------------------------------

\* The network closes a ledger.
CloseLedger ==
    /\ ledger < MaxLedger
    /\ ledger' = ledger + 1
    /\ UNCHANGED <<escrows, lastEscrowId, quorum, votes, balance, paid>>
    /\ UNCHANGED adminVars

Next ==
    \/ AdminNext /\ UNCHANGED escrowVars
    \/ \E b \in Buyers, s \in Sellers, t \in Token, n \in Amounts,
          d \in TimeoutChoices : Deposit(b, s, t, n, d)
    \/ \E id \in EscrowId, a \in Address : Release(id, a)
    \/ \E id \in EscrowId, a \in Address : Refund(id, a)
    \/ \E id \in EscrowId, a \in Address : Dispute(id, a)
    \/ \E id \in EscrowId, a \in Address, s \in BOOLEAN :
           ResolveDispute(id, a, s)
    \/ \E a \in Address, arbs \in SUBSET Arbiters :
           \E k \in 0..(Cardinality(arbs) + 1) : SetQuorumConfig(a, arbs, k)
    \/ \E id \in EscrowId, a \in Arbiters, s \in BOOLEAN :
           VoteDispute(id, a, s)
    \/ \E id \in EscrowId : ResolveDisputeQuorum(id)
    \/ CloseLedger

Spec == Init /\ [][Next]_vars

-----------------------------------------------------------------------------
(* The read-only eligibility queries.                                      *)

\* get_refund_eligibility, its reason; eligible exactly when it is "ok".
RefundReason(id, caller) ==
    CASE ~Exists(id)              -> "notfund"
      [] HasStatus(id, "Released") -> "released"
      [] HasStatus(id, "Refunded") -> "refunded"
      [] HasStatus(id, "Disputed") -> "disputed"
      [] OTHER ->
           IF caller = escrows[id].seller \/ IsAdmin(caller) THEN "ok"
           ELSE IF caller # escrows[id].buyer THEN "noauth"
           ELSE IF TimeoutReached(id) THEN "ok" ELSE "timeout"

\* release_block_reason as get_release_eligibility reports it.
ReleaseReason(id) ==
    CASE ~Exists(id)              -> "notfound"
      [] HasStatus(id, "Released") -> "released"
      [] HasStatus(id, "Refunded") -> "refunded"
      [] HasStatus(id, "Disputed") -> "disputed"
      [] OTHER -> IF TimeoutReached(id) THEN "timeout" ELSE "ok"

-----------------------------------------------------------------------------
(* Safety.                                                                 *)

(* Status and money agree: an open escrow has paid nothing, a released one *)
(* has paid its whole amount to seller and treasury, a refunded one to the *)
(* buyer, and no path of release, refund, resolve_dispute and              *)
(* resolve_dispute_quorum pays a second time or takes over a tenth as fee. *)
Settled(id) ==
    LET p == paid[id]
    IN  /\ (~Exists(id) \/ IsLive(id)) =>
               p.seller = 0 /\ p.treasury = 0 /\ p.buyer = 0
        /\ HasStatus(id, "Released") =>
               /\ p.seller + p.treasury = escrows[id].amount
               /\ 10 * p.treasury <= escrows[id].amount
               /\ p.buyer = 0
        /\ HasStatus(id, "Refunded") =>
               /\ p.buyer = escrows[id].amount
               /\ p.seller = 0 /\ p.treasury = 0
SettledInFull == \A id \in EscrowId : Settled(id)

\* Ids are handed out in order, so the next one is free.
IdsInOrder == \A id \in EscrowId : Exists(id) <=> id <= lastEscrowId

(* The contract owns, of every token, at least what its open escrows add   *)
(* up to, so that settling one escrow never spends the deposit of another. *)
Owed(t) ==
    [id \in EscrowId |->
        IF IsLive(id) /\ escrows[id].token = t THEN escrows[id].amount ELSE 0]
Total(f) ==
    LET upTo[n \in 0..MaxEscrows] ==
            IF n = 0 THEN 0 ELSE upTo[n - 1] + f[n]
    IN  upTo[MaxEscrows]
Solvency == \A t \in Token : balance[t][Self] >= Total(Owed(t))

(* The parties, the token, the amount and the timeout an escrow was        *)
(* created with never change, and no later deposit reuses its id.          *)
TermsNeverChange ==
    [][\A id \in EscrowId : Exists(id) =>
           /\ Exists(id)'
           /\ escrows'[id] = [escrows[id] EXCEPT !.status = escrows'[id].status]]_vars

(* resolve_dispute_quorum pays out on the word of at least threshold       *)
(* different arbiters, all of them members of the configuration in force   *)
(* now, with fewer than threshold against them; no arbiter's word counts   *)
(* twice, however often the configuration changed since the votes.         *)
Voters(id, side) ==
    {votes[id][i].arbiter : i \in {j \in DOMAIN votes[id] :
                                     votes[id][j].release_to_seller = side}}
HaveQuorum(id, side) ==
    Cardinality(Voters(id, side) \cap quorum.arbiters) >= quorum.threshold
QuorumDecides ==
    [][\A id \in EscrowId, side \in BOOLEAN :
           /\ ResolveDisputeQuorum(id)
           /\ HasStatus(id, IF side THEN "Released" ELSE "Refunded")'
           => HaveQuorum(id, side) /\ ~HaveQuorum(id, ~side)]_vars

(* With a threshold of more than half of the arbiters the two sides never  *)
(* both reach it (ConflictingQuorum), even though votes cast under earlier *)
(* configurations stay stored and arbiters come back.                      *)
MajorityNeverConflicts ==
    quorum # None /\ 2 * quorum.threshold > Cardinality(quorum.arbiters) =>
        \A id \in EscrowId :
            ~(ReachesThreshold(id, TRUE) /\ ReachesThreshold(id, FALSE))

(* The fee is the exact share rounded down, and at most a tenth, for every *)
(* amount and every fee an administrator can have set: splitting the       *)
(* product at 10000 loses nothing.                                         *)
FeeIsExact ==
    \A n \in Amounts : n > 0 =>
        /\ Fee(n, feeBps) = (n * feeBps) \div 10000
        /\ 10 * Fee(n, feeBps) <= n

(* get_refund_eligibility tells the truth: a caller is reported eligible   *)
(* exactly when refund would now succeed, the transfer included.           *)
RefundEligibilityExact ==
    \A id \in EscrowId, a \in Address :
        RefundReason(id, a) = "ok" <=> ENABLED Refund(id, a)

(* What the comment on get_release_eligibility says: settlement workers    *)
(* learn from it "whether release can proceed".  It does not hold: of a    *)
(* funded escrow past its timeout, which release pays out, the query says  *)
(* "timeout".                                                              *)
ReleaseEligibilityExact ==
    \A id \in EscrowId : Exists(id) =>
        (ReleaseReason(id) = "ok" <=> ENABLED Release(id, escrows[id].buyer))

-----------------------------------------------------------------------------
(* Liveness.                                                               *)

(* The network goes on closing ledgers, a buyer whose escrow may be        *)
(* refunded goes on asking for it, and some administrator rules on a       *)
(* dispute that is still open.  Sellers, arbiters and the administrators'  *)
(* other operations are under no obligation.                               *)
BuyerRefund(id) == Exists(id) /\ Refund(id, escrows[id].buyer)
AdminRuling(id) ==
    \E a \in Address, s \in BOOLEAN : ResolveDispute(id, a, s)
FairSpec ==
    /\ Spec
    /\ WF_vars(CloseLedger)
    /\ \A id \in EscrowId : WF_vars(BuyerRefund(id)) /\ WF_vars(AdminRuling(id))

(* No deposit is stuck: whatever the sellers, the arbiters, the settings   *)
(* and the admin transfers do, every escrow is released or refunded.       *)
FundsComeOut ==
    \A id \in EscrowId : Exists(id) ~> Exists(id) /\ ~IsLive(id)

-----------------------------------------------------------------------------
(* Refinement: the contract keeps the promise of Custody.                  *)

PhaseOf(id) ==
    IF ~Exists(id) THEN "empty"
    ELSE CASE escrows[id].status = "Funded"   -> "held"
           [] escrows[id].status = "Disputed" -> "contested"
           [] escrows[id].status = "Released" -> "paid"
           [] escrows[id].status = "Refunded" -> "returned"

C == INSTANCE Custody WITH
        Id         <- EscrowId,
        phase      <- [id \in EscrowId |-> PhaseOf(id)],
        held       <- [id \in EscrowId |-> IF IsLive(id) THEN escrows[id].amount
                                                        ELSE 0],
        toSeller   <- [id \in EscrowId |-> paid[id].seller],
        toTreasury <- [id \in EscrowId |-> paid[id].treasury],
        toBuyer    <- [id \in EscrowId |-> paid[id].buyer]

ImplementsCustody == C!Spec
=============================================================================

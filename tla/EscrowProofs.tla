----------------------------- MODULE EscrowProofs -----------------------------
(***************************************************************************)
(* Proofs about the escrow contract, for any sets of addresses, tokens,    *)
(* amounts and arbiters and any number of escrows.                         *)
(***************************************************************************)
EXTENDS Escrow, EscrowAdminProofs, FiniteSetTheorems, WellFoundedInduction

-----------------------------------------------------------------------------
(* Arithmetic of the fee.                                                  *)

(* The parts of the amount below and above 10000.                          *)
LEMMA Split10000 ==
  ASSUME NEW n \in Nat
  PROVE  /\ n \div 10000 \in Nat /\ n % 10000 \in 0..9999
         /\ n = 10000 * (n \div 10000) + (n % 10000)
  OBVIOUS

(* The fee is a natural number of at most a tenth of the amount.           *)
LEMMA FeeBound ==
  ASSUME NEW n \in Nat, NEW b \in 0..MaxFeeBps
  PROVE  Fee(n, b) \in Nat /\ 10 * Fee(n, b) <= n
<1> DEFINE q == n \div 10000
           r == n % 10000
           f == (r * b) \div 10000
<1>1. q \in Nat /\ r \in 0..9999 /\ n = 10000 * q + r
  BY Split10000
<1>2. q * b \in Nat /\ q * b <= 1000 * q
  BY <1>1 DEF MaxFeeBps
<1>3. r * b \in Nat /\ r * b <= 1000 * r
  BY <1>1 DEF MaxFeeBps
<1>4. f \in Nat /\ 10000 * f <= r * b
  <2>1. r * b \in Nat
    BY <1>3
  <2> HIDE DEF r
  <2> QED BY <2>1, Split10000
<1>5. 10 * (q * b + f) <= n
  <2> HIDE DEF q, r, f
  <2> QED BY <1>1, <1>2, <1>3, <1>4
<1>6. q * b + f \in Nat
  <2> HIDE DEF q, r, f
  <2> QED BY <1>1, <1>2, <1>4
<1>7. Fee(n, b) = q * b + f
  BY DEF Fee
<1> QED BY <1>5, <1>6, <1>7

(* Splitting at 10000 gives the share of the whole amount, rounded down.   *)
LEMMA FeeFloor ==
  ASSUME NEW n \in Nat, NEW b \in 0..MaxFeeBps
  PROVE  Fee(n, b) = (n * b) \div 10000
<1> DEFINE q == n \div 10000
           r == n % 10000
<1>1. q \in Nat /\ r \in 0..9999 /\ n = 10000 * q + r
  BY Split10000
<1>b. b \in Nat
  BY DEF MaxFeeBps
<1> DEFINE x == q * b
           y == r * b
<1>2. n * b = 10000 * x + y
  <2> HIDE DEF q, r
  <2> QED BY <1>1, <1>b
<1>3. x \in Nat /\ y \in Nat
  <2> HIDE DEF q, r
  <2> QED BY <1>1, <1>b
<1>4. (10000 * x + y) \div 10000 = x + y \div 10000
  <2> HIDE DEF x, y
  <2> QED BY <1>3
<1> QED BY <1>2, <1>4 DEF Fee

-----------------------------------------------------------------------------
(* Sums over the escrows.                                                  *)

(* Induction over the natural numbers, for a set instead of a predicate:   *)
(* a least counterexample would be neither 0 nor a successor.              *)
LEMMA SetInduction ==
  ASSUME NEW S, 0 \in S, \A n \in Nat : n \in S => n + 1 \in S
  PROVE  Nat \subseteq S
<1> DEFINE T == Nat \ S
           less == OpToRel(<, Nat)
<1> SUFFICES ASSUME T # {} PROVE FALSE
  OBVIOUS
<1>1. PICK x \in T : \A y \in T : <<y, x>> \notin less
  <2>1. IsWellFoundedOn(less, Nat)
    BY NatLessThanWellFounded
  <2>2. T \subseteq Nat
    OBVIOUS
  <2> HIDE DEF T, less
  <2> QED BY <2>1, <2>2, WFMin
<1>2. \A y \in T : ~(y < x)
  BY <1>1 DEF OpToRel
<1>3. x - 1 \in Nat /\ x - 1 \notin T
  BY <1>2
<1> QED BY <1>3

(* The partial sums of f up to m.                                          *)
IsSums(s, f, m) ==
    s = [n \in 0..m |-> IF n = 0 THEN 0 ELSE s[n - 1] + f[n]]

LEMMA SumsExist ==
  ASSUME NEW f, NEW m \in Nat
  PROVE  \E s : IsSums(s, f, m)
<1> DEFINE S == {k \in Nat : \E s : IsSums(s, f, k)}
<1>1. 0 \in S
  <2>1. IsSums([n \in 0..0 |-> 0], f, 0)
    BY DEF IsSums
  <2> QED BY <2>1
<1>2. ASSUME NEW k \in Nat, k \in S PROVE k + 1 \in S
  <2>1. PICK s : IsSums(s, f, k)
    BY <1>2
  <2> DEFINE r == [n \in 0..(k + 1) |-> IF n = k + 1 THEN s[k] + f[n] ELSE s[n]]
  <2>2. \A n \in 0..k : r[n] = s[n]
    OBVIOUS
  <2>3. \A n \in 0..k : s[n] = IF n = 0 THEN 0 ELSE s[n - 1] + f[n]
    BY <2>1 DEF IsSums
  <2>4. \A n \in 0..(k + 1) : r[n] = IF n = 0 THEN 0 ELSE r[n - 1] + f[n]
    BY <2>2, <2>3
  <2>5. IsSums(r, f, k + 1)
    BY <2>4 DEF IsSums
  <2> QED BY <2>5
<1>3. Nat \subseteq S
  <2> HIDE DEF S
  <2> QED BY <1>1, <1>2, SetInduction
<1> QED BY <1>3

(* What Total adds up.                                                     *)
LEMMA TotalSums ==
  ASSUME NEW f
  PROVE  \E s : /\ Total(f) = s[MaxEscrows] /\ s[0] = 0
                /\ \A n \in 1..MaxEscrows : s[n] = s[n - 1] + f[n]
<1> DEFINE s == CHOOSE s : IsSums(s, f, MaxEscrows)
<1>1. IsSums(s, f, MaxEscrows)
  BY SumsExist, EscrowConstants
<1>2. Total(f) = s[MaxEscrows]
  BY DEF Total, IsSums
<1> HIDE DEF s
<1>3. \A n \in 0..MaxEscrows : s[n] = IF n = 0 THEN 0 ELSE s[n - 1] + f[n]
  BY <1>1 DEF IsSums
<1>4. s[0] = 0 /\ \A n \in 1..MaxEscrows : s[n] = s[n - 1] + f[n]
  BY <1>3, EscrowConstants
<1> QED BY <1>2, <1>4

(* A sum of natural numbers is one, and at least each of them.             *)
LEMMA TotalBounds ==
  ASSUME NEW f \in [EscrowId -> Nat]
  PROVE  Total(f) \in Nat /\ \A i \in EscrowId : f[i] <= Total(f)
<1>1. PICK s : /\ Total(f) = s[MaxEscrows] /\ s[0] = 0
               /\ \A n \in 1..MaxEscrows : s[n] = s[n - 1] + f[n]
  BY TotalSums
<1> DEFINE S == {k \in Nat : k <= MaxEscrows =>
                     s[k] \in Nat /\ \A i \in 1..k : f[i] <= s[k]}
<1>2. 0 \in S
  BY <1>1
<1>3. ASSUME NEW k \in Nat, k \in S PROVE k + 1 \in S
  <2> SUFFICES ASSUME k + 1 <= MaxEscrows
               PROVE  s[k + 1] \in Nat /\ \A i \in 1..(k + 1) : f[i] <= s[k + 1]
    OBVIOUS
  <2>1. s[k] \in Nat /\ \A i \in 1..k : f[i] <= s[k]
    BY <1>3, EscrowConstants
  <2>2. s[k + 1] = s[k] + f[k + 1] /\ f[k + 1] \in Nat
    BY <1>1, EscrowConstants DEF EscrowId
  <2>3. \A i \in 1..k : f[i] \in Nat
    BY EscrowConstants DEF EscrowId
  <2> QED BY <2>1, <2>2, <2>3
<1>4. MaxEscrows \in S
  <2> HIDE DEF S
  <2> QED BY <1>2, <1>3, SetInduction, EscrowConstants
<1> QED BY <1>1, <1>4, EscrowConstants DEF EscrowId

(* A sum over nothing but zeros.                                           *)
LEMMA TotalZero ==
  ASSUME NEW f, \A i \in EscrowId : f[i] = 0
  PROVE  Total(f) = 0
<1>1. PICK s : /\ Total(f) = s[MaxEscrows] /\ s[0] = 0
               /\ \A n \in 1..MaxEscrows : s[n] = s[n - 1] + f[n]
  BY TotalSums
<1> DEFINE S == {k \in Nat : k <= MaxEscrows => s[k] = 0}
<1>2. 0 \in S
  BY <1>1
<1>3. ASSUME NEW k \in Nat, k \in S PROVE k + 1 \in S
  BY <1>1, <1>3, EscrowConstants DEF EscrowId
<1>4. MaxEscrows \in S
  <2> HIDE DEF S
  <2> QED BY <1>2, <1>3, SetInduction, EscrowConstants
<1> QED BY <1>1, <1>4, EscrowConstants

(* Changing one summand changes the sum by as much.                        *)
LEMMA TotalChange ==
  ASSUME NEW f \in [EscrowId -> Nat], NEW g \in [EscrowId -> Nat],
         NEW i \in EscrowId, \A j \in EscrowId \ {i} : g[j] = f[j]
  PROVE  Total(g) + f[i] = Total(f) + g[i]
<1>1. PICK s : /\ Total(f) = s[MaxEscrows] /\ s[0] = 0
               /\ \A n \in 1..MaxEscrows : s[n] = s[n - 1] + f[n]
  BY TotalSums
<1>2. PICK r : /\ Total(g) = r[MaxEscrows] /\ r[0] = 0
               /\ \A n \in 1..MaxEscrows : r[n] = r[n - 1] + g[n]
  BY TotalSums
<1> DEFINE S == {k \in Nat : k <= MaxEscrows =>
                     /\ s[k] \in Nat /\ r[k] \in Nat
                     /\ IF k < i THEN r[k] = s[k]
                                 ELSE r[k] + f[i] = s[k] + g[i]}
<1>3. 0 \in S
  BY <1>1, <1>2 DEF EscrowId
<1>4. ASSUME NEW k \in Nat, k \in S PROVE k + 1 \in S
  <2> SUFFICES ASSUME k + 1 <= MaxEscrows
               PROVE  /\ s[k + 1] \in Nat /\ r[k + 1] \in Nat
                      /\ IF k + 1 < i THEN r[k + 1] = s[k + 1]
                                      ELSE r[k + 1] + f[i] = s[k + 1] + g[i]
    OBVIOUS
  <2>1. /\ s[k] \in Nat /\ r[k] \in Nat
        /\ IF k < i THEN r[k] = s[k] ELSE r[k] + f[i] = s[k] + g[i]
    BY <1>4, EscrowConstants
  <2>2. /\ k + 1 \in EscrowId /\ k + 1 \in 1..MaxEscrows
        /\ i \in Nat /\ f[i] \in Nat /\ g[i] \in Nat
    BY EscrowConstants DEF EscrowId
  <2>3. /\ s[k + 1] = s[k] + f[k + 1] /\ r[k + 1] = r[k] + g[k + 1]
        /\ f[k + 1] \in Nat /\ g[k + 1] \in Nat
    BY <1>1, <1>2, <2>2
  <2>4. CASE k + 1 = i
    BY <2>1, <2>2, <2>3, <2>4
  <2>5. CASE k + 1 # i
    BY <2>1, <2>2, <2>3, <2>5
  <2> QED BY <2>4, <2>5
<1>5. MaxEscrows \in S
  <2> HIDE DEF S
  <2> QED BY <1>3, <1>4, SetInduction, EscrowConstants
<1> QED BY <1>1, <1>2, <1>5, EscrowConstants DEF EscrowId

-----------------------------------------------------------------------------
(* Types.                                                                  *)

(* A covered transfer keeps balances natural numbers.                      *)
LEMMA TransferType ==
  ASSUME NEW bal \in [Token -> [Address -> Nat]], NEW t \in Token,
         NEW from \in Address, NEW to \in Address,
         NEW n \in Nat, bal[t][from] >= n
  PROVE  Transfer(bal, t, from, to, n) \in [Token -> [Address -> Nat]]
<1> DEFINE debited == [bal EXCEPT ![t][from] = @ - n]
<1>1. bal[t] \in [Address -> Nat] /\ bal[t][from] - n \in Nat
  OBVIOUS
<1>2. debited \in [Token -> [Address -> Nat]]
  BY <1>1
<1>3. debited[t] \in [Address -> Nat] /\ debited[t][to] + n \in Nat
  BY <1>2
<1>4. [debited EXCEPT ![t][to] = @ + n] \in [Token -> [Address -> Nat]]
  <2> HIDE DEF debited
  <2> QED BY <1>2, <1>3
<1> QED BY <1>4 DEF Transfer

(* What an existing escrow is: a record whose fields have their types.     *)
LEMMA RecordType ==
  ASSUME TypeOK, NEW id \in EscrowId, Exists(id)
  PROVE  /\ escrows[id] \in EscrowRecord
         /\ escrows[id].buyer \in Address /\ escrows[id].seller \in Address
         /\ escrows[id].token \in Token /\ escrows[id].amount \in Nat \ {0}
         /\ escrows[id].timeout_ledger \in 0..MaxLedger
  BY DEF TypeOK, Exists, EscrowRecord

(* The two ways an open escrow is paid out keep the types, and write only  *)
(* the status of that escrow and the amounts it has paid.                  *)
LEMMA PayToSellerEffect ==
  ASSUME TypeOK, NEW id \in EscrowId, Exists(id), PayToSeller(id)
  PROVE  /\ balance' \in [Token -> [Address -> Nat]]
         /\ escrows' \in [EscrowId -> EscrowRecord \cup {None}]
         /\ escrows' = [escrows EXCEPT ![id].status = "Released"]
         /\ \E fee \in Nat :
               /\ 10 * fee <= escrows[id].amount
               /\ escrows[id].amount - fee \in Nat
               /\ paid' = [paid EXCEPT
                     ![id].seller = @ + (escrows[id].amount - fee),
                     ![id].treasury = @ + fee]
         /\ paid' \in [EscrowId -> Payout]
<1> DEFINE e == escrows[id]
           fee == Fee(e.amount, feeBps)
           afterFee == Transfer(balance, e.token, Self, Treasury, fee)
<1>1. /\ e \in EscrowRecord /\ e.token \in Token /\ e.amount \in Nat
      /\ e.seller \in Address
  BY RecordType
<1>2. fee \in Nat /\ 10 * fee <= e.amount /\ e.amount - fee \in Nat
  <2>1. feeBps \in 0..MaxFeeBps
    BY DEF TypeOK, AdminTypeOK
  <2> HIDE DEF e
  <2>2. Fee(e.amount, feeBps) \in Nat /\ 10 * Fee(e.amount, feeBps) <= e.amount
    BY <1>1, <2>1, FeeBound
  <2> QED BY <1>1, <2>2
<1>3. /\ balance[e.token][Self] >= fee
      /\ afterFee[e.token][Self] >= e.amount - fee
      /\ balance' = Transfer(afterFee, e.token, Self, e.seller, e.amount - fee)
      /\ escrows' = [escrows EXCEPT ![id].status = "Released"]
      /\ paid' = [paid EXCEPT ![id].seller = @ + (e.amount - fee),
                              ![id].treasury = @ + fee]
  BY DEF PayToSeller
<1> HIDE DEF fee
<1>4. afterFee \in [Token -> [Address -> Nat]]
  BY <1>1, <1>2, <1>3, TransferType, AdminConstants, EscrowConstants DEF TypeOK
<1>5. balance' \in [Token -> [Address -> Nat]]
  <2> HIDE DEF afterFee
  <2> QED BY <1>1, <1>2, <1>3, <1>4, TransferType, EscrowConstants
<1>6. escrows' \in [EscrowId -> EscrowRecord \cup {None}]
  <2>1. [e EXCEPT !.status = "Released"] \in EscrowRecord
    BY <1>1 DEF EscrowRecord, EscrowStatus, Live
  <2> QED BY <1>3, <2>1 DEF TypeOK
<1>7. paid' \in [EscrowId -> Payout]
  <2>1. paid \in [EscrowId -> Payout] /\ paid[id] \in Payout
    BY DEF TypeOK
  <2>2. /\ paid[id].seller + (e.amount - fee) \in Nat
        /\ paid[id].treasury + fee \in Nat
    BY <1>1, <1>2, <2>1 DEF Payout
  <2> HIDE DEF e
  <2>3. paid' = [paid EXCEPT ![id] =
                   [paid[id] EXCEPT !.seller = @ + (e.amount - fee),
                                    !.treasury = @ + fee]]
    BY <1>3, <2>1
  <2>4. [paid[id] EXCEPT !.seller = @ + (e.amount - fee),
                         !.treasury = @ + fee] \in Payout
    BY <2>1, <2>2 DEF Payout
  <2> QED BY <2>1, <2>3, <2>4
<1> QED BY <1>2, <1>3, <1>5, <1>6, <1>7

LEMMA PayToBuyerEffect ==
  ASSUME TypeOK, NEW id \in EscrowId, Exists(id), PayToBuyer(id)
  PROVE  /\ balance' \in [Token -> [Address -> Nat]]
         /\ escrows' \in [EscrowId -> EscrowRecord \cup {None}]
         /\ escrows' = [escrows EXCEPT ![id].status = "Refunded"]
         /\ paid' = [paid EXCEPT ![id].buyer = @ + escrows[id].amount]
         /\ paid' \in [EscrowId -> Payout]
<1> DEFINE e == escrows[id]
<1>1. /\ e \in EscrowRecord /\ e.token \in Token /\ e.amount \in Nat
      /\ e.buyer \in Address
  BY RecordType
<1>2. /\ balance[e.token][Self] >= e.amount
      /\ balance' = Transfer(balance, e.token, Self, e.buyer, e.amount)
      /\ escrows' = [escrows EXCEPT ![id].status = "Refunded"]
      /\ paid' = [paid EXCEPT ![id].buyer = @ + e.amount]
  BY DEF PayToBuyer
<1>3. balance' \in [Token -> [Address -> Nat]]
  BY <1>1, <1>2, TransferType, EscrowConstants DEF TypeOK
<1>4. escrows' \in [EscrowId -> EscrowRecord \cup {None}]
  <2>1. [e EXCEPT !.status = "Refunded"] \in EscrowRecord
    BY <1>1 DEF EscrowRecord, EscrowStatus, Live
  <2> QED BY <1>2, <2>1 DEF TypeOK
<1>5. paid' \in [EscrowId -> Payout]
  <2>1. paid \in [EscrowId -> Payout] /\ paid[id] \in Payout
    BY DEF TypeOK
  <2>2. paid[id].buyer + e.amount \in Nat
    BY <1>1, <2>1 DEF Payout
  <2> HIDE DEF e
  <2>3. [paid[id] EXCEPT !.buyer = @ + e.amount] \in Payout
    BY <2>1, <2>2 DEF Payout
  <2> QED BY <1>2, <2>1, <2>3
<1> QED BY <1>2, <1>3, <1>4, <1>5

LEMMA InitTypeOK == Init => TypeOK
<1> SUFFICES ASSUME Init PROVE TypeOK
  OBVIOUS
<1>1. AdminTypeOK
  BY AdminInitTypeOK DEF Init
<1>2. votes \in [EscrowId -> Seq(DisputeVote)]
  BY DEF Init
<1>3. balance \in [Token -> [Address -> Nat]]
  BY EscrowConstants DEF Init
<1>4. paid \in [EscrowId -> Payout]
  BY DEF Init, Payout
<1> QED BY <1>1, <1>2, <1>3, <1>4, EscrowConstants DEF Init, TypeOK

(* Every operation of the contract keeps the types.                        *)
LEMMA StepTypeOK == TypeOK /\ [Next]_vars => TypeOK'
<1> SUFFICES ASSUME TypeOK, [Next]_vars PROVE TypeOK'
  OBVIOUS
<1> USE EscrowConstants
<1>0. UNCHANGED adminVars => AdminTypeOK'
  BY AdminStepTypeOK DEF TypeOK
<1>1. ASSUME AdminNext, UNCHANGED escrowVars
      PROVE  TypeOK'
  BY <1>1, AdminStepTypeOK DEF TypeOK, escrowVars
<1>2. ASSUME NEW b \in Buyers, NEW s \in Sellers, NEW t \in Token,
             NEW n \in Amounts, NEW d \in TimeoutChoices, Deposit(b, s, t, n, d)
      PROVE  TypeOK'
  <2> DEFINE id == lastEscrowId + 1
             r == [buyer |-> b, seller |-> s, token |-> t, amount |-> n,
                   status |-> "Funded", timeout_ledger |-> ledger + d]
  <2>1. id \in EscrowId /\ id \in 0..MaxEscrows
    BY <1>2 DEF Deposit, TypeOK, EscrowId
  <2>2. n \in Nat \ {0} /\ ledger + d \in 0..MaxLedger
    BY <1>2 DEF Deposit, TypeOK
  <2>3. r \in EscrowRecord
    BY <2>2 DEF EscrowRecord, EscrowStatus, Live
  <2>4. escrows' = [escrows EXCEPT ![id] = r] /\ lastEscrowId' = id
    BY <1>2 DEF Deposit
  <2>5. escrows' \in [EscrowId -> EscrowRecord \cup {None}]
    BY <2>3, <2>4 DEF TypeOK
  <2>6. balance' \in [Token -> [Address -> Nat]]
    BY <1>2, <2>2, TransferType DEF Deposit, TypeOK
  <2> QED BY <1>0, <1>2, <2>1, <2>4, <2>5, <2>6 DEF Deposit, TypeOK
<1>3. ASSUME NEW id \in EscrowId, NEW a \in Address, Release(id, a)
      PROVE  TypeOK'
  BY <1>0, <1>3, PayToSellerEffect DEF Release, Releasable, TypeOK
<1>4. ASSUME NEW id \in EscrowId, NEW a \in Address, Refund(id, a)
      PROVE  TypeOK'
  BY <1>0, <1>4, PayToBuyerEffect DEF Refund, Refundable, HasStatus, TypeOK
<1>5. ASSUME NEW id \in EscrowId, NEW a \in Address, Dispute(id, a)
      PROVE  TypeOK'
  <2>1. Exists(id) /\ escrows[id] \in EscrowRecord
    BY <1>5, RecordType DEF Dispute, HasStatus
  <2>2. [escrows[id] EXCEPT !.status = "Disputed"] \in EscrowRecord
    BY <2>1 DEF EscrowRecord, EscrowStatus, Live
  <2> QED BY <1>0, <1>5, <2>2 DEF Dispute, TypeOK
<1>6. ASSUME NEW id \in EscrowId, NEW a \in Address, NEW s \in BOOLEAN,
             ResolveDispute(id, a, s)
      PROVE  TypeOK'
  BY <1>0, <1>6, PayToSellerEffect, PayToBuyerEffect
     DEF ResolveDispute, HasStatus, TypeOK
<1>7. ASSUME NEW a \in Address, NEW arbs \in SUBSET Arbiters,
             NEW k \in 0..(Cardinality(arbs) + 1), SetQuorumConfig(a, arbs, k)
      PROVE  TypeOK'
  <2>1. Cardinality(arbs) \in Nat
    BY FS_Subset, FS_CardinalityType
  <2>2. quorum' \in QuorumConfig
    BY <1>7, <2>1 DEF SetQuorumConfig, QuorumConfig
  <2> QED BY <1>0, <1>7, <2>2 DEF SetQuorumConfig, TypeOK
<1>8. ASSUME NEW id \in EscrowId, NEW a \in Arbiters, NEW s \in BOOLEAN,
             VoteDispute(id, a, s)
      PROVE  TypeOK'
  <2> DEFINE v == [arbiter |-> a, release_to_seller |-> s]
  <2>1. v \in DisputeVote
    BY DEF DisputeVote
  <2>2. Append(votes[id], v) \in Seq(DisputeVote)
    BY <2>1 DEF TypeOK
  <2> QED BY <1>0, <1>8, <2>2 DEF VoteDispute, TypeOK
<1>9. ASSUME NEW id \in EscrowId, ResolveDisputeQuorum(id)
      PROVE  TypeOK'
  BY <1>0, <1>9, PayToSellerEffect, PayToBuyerEffect
     DEF ResolveDisputeQuorum, HasStatus, TypeOK
<1>10. CASE CloseLedger
  BY <1>0, <1>10 DEF CloseLedger, TypeOK
<1>11. CASE UNCHANGED vars
  BY <1>0, <1>11 DEF vars, escrowVars, TypeOK
<1> QED
  BY <1>1, <1>2, <1>3, <1>4, <1>5, <1>6, <1>7, <1>8, <1>9, <1>10, <1>11
     DEF Next

-----------------------------------------------------------------------------
(* Payments.                                                               *)

(* What the steps of the contract do to the records and the payments of    *)
(* one escrow: nothing, a creation, a dispute, or one of the two payouts   *)
(* of an open escrow.  Payouts of different operations differ only in who  *)
(* may ask for them, so the proofs below need not tell them apart.         *)
Untouched(id) == escrows'[id] = escrows[id] /\ paid'[id] = paid[id]
Created(id) ==
    /\ id = lastEscrowId + 1 /\ lastEscrowId' = id
    /\ escrows'[id] # None /\ escrows'[id].status = "Funded"
    /\ escrows'[id].amount > 0
    /\ paid'[id] = paid[id]
Contested(id) ==
    /\ HasStatus(id, "Funded")
    /\ escrows'[id] = [escrows[id] EXCEPT !.status = "Disputed"]
    /\ paid'[id] = paid[id]
PaidToSeller(id) ==
    /\ IsLive(id)
    /\ escrows'[id] = [escrows[id] EXCEPT !.status = "Released"]
    /\ \E fee \in Nat :
          /\ 10 * fee <= escrows[id].amount
          /\ escrows[id].amount - fee \in Nat
          /\ paid'[id] = [paid[id] EXCEPT
                             !.seller = @ + (escrows[id].amount - fee),
                             !.treasury = @ + fee]
PaidToBuyer(id) ==
    /\ IsLive(id)
    /\ escrows'[id] = [escrows[id] EXCEPT !.status = "Refunded"]
    /\ paid'[id] = [paid[id] EXCEPT !.buyer = @ + escrows[id].amount]

EscrowStep(id) ==
    \/ Created(id)
    \/ lastEscrowId' = lastEscrowId
       /\ (Contested(id) \/ PaidToSeller(id) \/ PaidToBuyer(id))

(* A step touches at most one escrow, in one of those ways.                *)
LEMMA OneEscrowPerStep ==
  ASSUME TypeOK, [Next]_vars
  PROVE  \/ lastEscrowId' = lastEscrowId /\ \A id \in EscrowId : Untouched(id)
         \/ \E id \in EscrowId :
               /\ EscrowStep(id)
               /\ \A other \in EscrowId \ {id} : Untouched(other)
<1> DEFINE Quiet ==
             lastEscrowId' = lastEscrowId /\ \A id \in EscrowId : Untouched(id)
           One(id) == /\ EscrowStep(id)
                      /\ \A other \in EscrowId \ {id} : Untouched(other)
<1> USE EscrowConstants
<1>1. ASSUME NEW id \in EscrowId, IsLive(id), PayToSeller(id),
             lastEscrowId' = lastEscrowId
      PROVE  One(id)
  <2>1. /\ escrows' = [escrows EXCEPT ![id].status = "Released"]
        /\ \E fee \in Nat :
               /\ 10 * fee <= escrows[id].amount
               /\ escrows[id].amount - fee \in Nat
               /\ paid' = [paid EXCEPT
                     ![id].seller = @ + (escrows[id].amount - fee),
                     ![id].treasury = @ + fee]
    BY <1>1, PayToSellerEffect DEF IsLive
  <2>2. PaidToSeller(id)
    BY <1>1, <2>1 DEF PaidToSeller, TypeOK
  <2>3. \A other \in EscrowId \ {id} : Untouched(other)
    BY <2>1 DEF Untouched, TypeOK
  <2> QED BY <1>1, <2>2, <2>3 DEF EscrowStep
<1>2. ASSUME NEW id \in EscrowId, IsLive(id), PayToBuyer(id),
             lastEscrowId' = lastEscrowId
      PROVE  One(id)
  <2>1. /\ escrows' = [escrows EXCEPT ![id].status = "Refunded"]
        /\ paid' = [paid EXCEPT ![id].buyer = @ + escrows[id].amount]
    BY <1>2, PayToBuyerEffect DEF IsLive
  <2>2. PaidToBuyer(id)
    BY <1>2, <2>1 DEF PaidToBuyer, TypeOK
  <2>3. \A other \in EscrowId \ {id} : Untouched(other)
    BY <2>1 DEF Untouched, TypeOK
  <2> QED BY <1>2, <2>2, <2>3 DEF EscrowStep
<1>3. ASSUME NEW b \in Buyers, NEW s \in Sellers, NEW t \in Token,
             NEW n \in Amounts, NEW d \in TimeoutChoices, Deposit(b, s, t, n, d)
      PROVE  \E id \in EscrowId : One(id)
  <2> DEFINE id == lastEscrowId + 1
             r == [buyer |-> b, seller |-> s, token |-> t, amount |-> n,
                   status |-> "Funded", timeout_ledger |-> ledger + d]
  <2>1. /\ id \in EscrowId /\ lastEscrowId' = id /\ paid' = paid
        /\ escrows' = [escrows EXCEPT ![id] = r]
    BY <1>3 DEF Deposit, TypeOK, EscrowId
  <2>2. n \in Nat \ {0} /\ ledger + d \in 0..MaxLedger
    BY <1>3 DEF Deposit, TypeOK
  <2>3. r \in EscrowRecord
    BY <2>2 DEF EscrowRecord, EscrowStatus, Live
  <2>4. escrows'[id] = r /\ r # None
    BY <2>1, <2>3, NoneIsNoRecord DEF TypeOK
  <2>5. Created(id)
    <3>1. escrows'[id] = r /\ r # None /\ r.status = "Funded" /\ r.amount > 0
      BY <2>2, <2>4
    <3> HIDE DEF r
    <3>2. /\ escrows'[id] # None /\ escrows'[id].status = "Funded"
          /\ escrows'[id].amount > 0
      BY <3>1
    <3>3. id = lastEscrowId + 1 /\ lastEscrowId' = id /\ paid'[id] = paid[id]
      BY <2>1
    <3> QED BY <3>2, <3>3 DEF Created, Exists
  <2>6. \A other \in EscrowId \ {id} : Untouched(other)
    BY <2>1 DEF Untouched, TypeOK
  <2> QED BY <2>1, <2>5, <2>6 DEF EscrowStep
<1>4. ASSUME NEW id \in EscrowId, NEW a \in Address, Dispute(id, a)
      PROVE  One(id)
  <2>1. Contested(id) /\ lastEscrowId' = lastEscrowId
    BY <1>4 DEF Dispute, Contested, TypeOK
  <2>2. \A other \in EscrowId \ {id} : Untouched(other)
    BY <1>4 DEF Dispute, Untouched, TypeOK
  <2> QED BY <2>1, <2>2 DEF EscrowStep
<1>5. ASSUME NEW id \in EscrowId, NEW a \in Address, Release(id, a)
      PROVE  One(id)
  BY <1>1, <1>5 DEF Release, Releasable, IsLive, Live
<1>6. ASSUME NEW id \in EscrowId, NEW a \in Address, Refund(id, a)
      PROVE  One(id)
  BY <1>2, <1>6 DEF Refund, Refundable, HasStatus, IsLive, Live
<1>7. ASSUME NEW id \in EscrowId, NEW a \in Address, NEW s \in BOOLEAN,
             ResolveDispute(id, a, s)
      PROVE  One(id)
  BY <1>1, <1>2, <1>7 DEF ResolveDispute, HasStatus, IsLive, Live
<1>8. ASSUME NEW id \in EscrowId, ResolveDisputeQuorum(id)
      PROVE  One(id)
  BY <1>1, <1>2, <1>8 DEF ResolveDisputeQuorum, HasStatus, IsLive, Live
<1>9. ASSUME \/ AdminNext /\ UNCHANGED escrowVars
             \/ \E a \in Address, arbs \in SUBSET Arbiters :
                   \E k \in 0..(Cardinality(arbs) + 1) :
                       SetQuorumConfig(a, arbs, k)
             \/ \E id \in EscrowId, a \in Arbiters, s \in BOOLEAN :
                   VoteDispute(id, a, s)
             \/ CloseLedger
             \/ UNCHANGED vars
      PROVE  Quiet
  <2>1. UNCHANGED <<escrows, paid, lastEscrowId>>
    BY <1>9 DEF escrowVars, vars, SetQuorumConfig, VoteDispute, CloseLedger
  <2> QED BY <2>1 DEF Untouched
<1> HIDE DEF One, Quiet
<1>10. Quiet \/ \E id \in EscrowId : One(id)
  BY <1>3, <1>4, <1>5, <1>6, <1>7, <1>8, <1>9 DEF Next
<1> QED BY <1>10 DEF One, Quiet

-----------------------------------------------------------------------------
(* The inductive invariant.                                                *)

(* SettledInFull is not inductive alone: deposit overwrites the record of  *)
(* the next id, which had better be free (IdsInOrder), and the amounts in  *)
(* the records must be numbers (TypeOK).                                   *)
EscrowInv == TypeOK /\ SettledInFull /\ IdsInOrder

LEMMA InitEscrowInv == Init => EscrowInv
<1> SUFFICES ASSUME Init PROVE EscrowInv
  OBVIOUS
<1>1. TypeOK
  BY InitTypeOK
<1>2. \A id \in EscrowId : /\ ~Exists(id)
                          /\ paid[id] = [seller |-> 0, treasury |-> 0, buyer |-> 0]
  BY DEF Init, Exists
<1>3. SettledInFull
  BY <1>2 DEF SettledInFull, Settled, HasStatus
<1>4. IdsInOrder
  BY <1>2 DEF IdsInOrder, Init, EscrowId
<1> QED BY <1>1, <1>3, <1>4 DEF EscrowInv

(* An escrow a step leaves alone stays settled as it was.                  *)
LEMMA UntouchedSettled ==
  ASSUME NEW id \in EscrowId, Settled(id), Untouched(id)
  PROVE  Settled(id)'
  BY DEF Settled, Untouched, Exists, IsLive, HasStatus

(* The one escrow a step touches is settled afterwards.                    *)
LEMMA TouchedSettled ==
  ASSUME EscrowInv, NEW id \in EscrowId, EscrowStep(id)
  PROVE  Settled(id)'
<1> DEFINE e == escrows[id]
           p == paid[id]
           q == paid'[id]
<1>1. /\ p.seller \in Nat /\ p.treasury \in Nat /\ p.buyer \in Nat
      /\ p \in Payout
  BY DEF EscrowInv, TypeOK, Payout
<1>2. Settled(id)
  BY DEF EscrowInv, SettledInFull
<1>3. CASE Created(id)
  <2>1. ~Exists(id)
    BY <1>3 DEF Created, EscrowInv, IdsInOrder, TypeOK
  <2>2. p.seller = 0 /\ p.treasury = 0 /\ p.buyer = 0
    BY <1>2, <2>1 DEF Settled
  <2> QED BY <1>3, <2>2 DEF Created, Settled, HasStatus, IsLive, Exists
<1>4. CASE Contested(id)
  <2>1. Exists(id) /\ e.status = "Funded" /\ IsLive(id)
    BY <1>4 DEF Contested, HasStatus, IsLive, Live
  <2>2. p.seller = 0 /\ p.treasury = 0 /\ p.buyer = 0
    BY <1>2, <2>1 DEF Settled
  <2>3. escrows'[id].status = "Disputed" /\ q = p
    BY <1>4, <2>1, RecordType DEF Contested, EscrowInv, EscrowRecord
  <2> QED BY <2>2, <2>3 DEF Settled, HasStatus
<1>5. CASE PaidToSeller(id)
  <2>1. Exists(id) /\ IsLive(id) /\ e \in EscrowRecord /\ e.amount \in Nat
    BY <1>5, RecordType DEF PaidToSeller, IsLive, EscrowInv
  <2>2. p.seller = 0 /\ p.treasury = 0 /\ p.buyer = 0
    BY <1>2, <2>1 DEF Settled
  <2>3. escrows'[id].status = "Released" /\ escrows'[id].amount = e.amount
    BY <1>5, <2>1 DEF PaidToSeller, EscrowRecord
  <2>4. PICK fee \in Nat :
           /\ 10 * fee <= e.amount
           /\ e.amount - fee \in Nat
           /\ q = [p EXCEPT !.seller = @ + (e.amount - fee), !.treasury = @ + fee]
    BY <1>5 DEF PaidToSeller
  <2>5. q.seller = e.amount - fee /\ q.treasury = fee /\ q.buyer = 0
    BY <1>1, <2>1, <2>2, <2>4 DEF Payout
  <2>6. q.seller + q.treasury = e.amount /\ 10 * q.treasury <= e.amount
    <3> HIDE DEF e, q
    <3> QED BY <2>1, <2>4, <2>5
  <2>7. ~IsLive(id)' /\ Exists(id)' /\ ~HasStatus(id, "Refunded")'
    <3>1. Exists(id)'
      BY <1>5, <2>1, NoneIsNoRecord
         DEF PaidToSeller, Exists, EscrowRecord, EscrowStatus, Live
    <3> QED BY <2>3, <3>1 DEF IsLive, HasStatus, Live
  <2> QED BY <2>3, <2>5, <2>6, <2>7 DEF Settled
<1>6. CASE PaidToBuyer(id)
  <2>1. Exists(id) /\ IsLive(id) /\ e \in EscrowRecord /\ e.amount \in Nat
    BY <1>6, RecordType DEF PaidToBuyer, IsLive, EscrowInv
  <2>2. p.seller = 0 /\ p.treasury = 0 /\ p.buyer = 0
    BY <1>2, <2>1 DEF Settled
  <2>3. escrows'[id].status = "Refunded" /\ escrows'[id].amount = e.amount
    BY <1>6, <2>1 DEF PaidToBuyer, EscrowRecord
  <2>4. q.seller = 0 /\ q.treasury = 0 /\ q.buyer = e.amount
    BY <1>1, <1>6, <2>1, <2>2 DEF PaidToBuyer, Payout
  <2>5. ~IsLive(id)' /\ Exists(id)' /\ ~HasStatus(id, "Released")'
    <3>1. Exists(id)'
      BY <1>6, <2>1, NoneIsNoRecord
         DEF PaidToBuyer, Exists, EscrowRecord, EscrowStatus, Live
    <3> QED BY <2>3, <3>1 DEF IsLive, HasStatus, Live
  <2> QED BY <2>3, <2>4, <2>5 DEF Settled
<1> QED BY <1>3, <1>4, <1>5, <1>6 DEF EscrowStep

(* Ids stay in order.                                                      *)
LEMMA StepIdsInOrder ==
  ASSUME EscrowInv, [Next]_vars
  PROVE  IdsInOrder'
<1>1. CASE lastEscrowId' = lastEscrowId /\ \A id \in EscrowId : Untouched(id)
  BY <1>1 DEF EscrowInv, IdsInOrder, Untouched, Exists
<1>2. ASSUME NEW id \in EscrowId, EscrowStep(id),
             \A other \in EscrowId \ {id} : Untouched(other)
      PROVE  IdsInOrder'
  <2>1. \A other \in EscrowId \ {id} : Exists(other)' <=> other <= lastEscrowId
    BY <1>2 DEF EscrowInv, IdsInOrder, Untouched, Exists
  <2>2. CASE Created(id)
    BY <2>1, <2>2 DEF Created, IdsInOrder, Exists, EscrowId, EscrowInv, TypeOK
  <2>3. CASE lastEscrowId' = lastEscrowId
             /\ (Contested(id) \/ PaidToSeller(id) \/ PaidToBuyer(id))
    <3>1. Exists(id)
      BY <2>3 DEF Contested, PaidToSeller, PaidToBuyer, HasStatus, IsLive
    <3>2. escrows[id] \in EscrowRecord
      BY <3>1, RecordType DEF EscrowInv
    <3>3. escrows'[id] \in EscrowRecord
      BY <2>3, <3>2
         DEF Contested, PaidToSeller, PaidToBuyer, EscrowRecord, EscrowStatus, Live
    <3>4. Exists(id)'
      BY <3>3, NoneIsNoRecord DEF Exists
    <3>5. id <= lastEscrowId
      BY <3>1 DEF EscrowInv, IdsInOrder
    <3> QED BY <2>1, <2>3, <3>4, <3>5 DEF IdsInOrder
  <2> QED BY <1>2, <2>2, <2>3 DEF EscrowStep
<1> QED BY <1>1, <1>2, OneEscrowPerStep DEF EscrowInv

LEMMA StepEscrowInv == EscrowInv /\ [Next]_vars => EscrowInv'
<1> SUFFICES ASSUME EscrowInv, [Next]_vars PROVE EscrowInv'
  OBVIOUS
<1>1. TypeOK'
  BY StepTypeOK DEF EscrowInv
<1>2. IdsInOrder'
  BY StepIdsInOrder
<1>3. SettledInFull'
  <2>1. \A id \in EscrowId : Settled(id)
    BY DEF EscrowInv, SettledInFull
  <2>2. CASE \A id \in EscrowId : Untouched(id)
    BY <2>1, <2>2, UntouchedSettled DEF SettledInFull
  <2>3. ASSUME NEW id \in EscrowId, EscrowStep(id),
               \A other \in EscrowId \ {id} : Untouched(other)
        PROVE  SettledInFull'
    BY <2>1, <2>3, UntouchedSettled, TouchedSettled DEF SettledInFull
  <2> QED BY <2>2, <2>3, OneEscrowPerStep DEF EscrowInv
<1> QED BY <1>1, <1>2, <1>3 DEF EscrowInv

THEOREM EscrowInvariant == Spec => []EscrowInv
<1>1. Init => EscrowInv
  BY InitEscrowInv
<1>2. EscrowInv /\ [Next]_vars => EscrowInv'
  BY StepEscrowInv
<1> QED BY <1>1, <1>2, PTL DEF Spec

(* Every state the contract reaches is well typed: balances never go       *)
(* negative, timeouts fit their 32 bits, limits stay ordered.              *)
THEOREM TypeCorrect == Spec => []TypeOK
<1>1. EscrowInv => TypeOK
  BY DEF EscrowInv
<1> QED BY <1>1, EscrowInvariant, PTL

(* Every escrow pays its amount out once and in full, or not at all yet.   *)
THEOREM PaysOnce == Spec => []SettledInFull
<1>1. EscrowInv => SettledInFull
  BY DEF EscrowInv
<1> QED BY <1>1, EscrowInvariant, PTL

(* The fee an escrow is charged is the exact share, for every amount.      *)
THEOREM FeeCorrect == Spec => []FeeIsExact
<1>1. TypeOK => FeeIsExact
  <2> SUFFICES ASSUME TypeOK, NEW n \in Amounts, n > 0
               PROVE  /\ Fee(n, feeBps) = (n * feeBps) \div 10000
                      /\ 10 * Fee(n, feeBps) <= n
    BY DEF FeeIsExact
  <2>1. n \in Nat /\ feeBps \in 0..MaxFeeBps
    BY EscrowConstants DEF TypeOK, AdminTypeOK
  <2> QED BY <2>1, FeeFloor, FeeBound
<1> QED BY <1>1, TypeCorrect, PTL

-----------------------------------------------------------------------------
(* The administrative invariants hold of the whole contract: no operation  *)
(* on an escrow writes what they are about.                                *)
LEMMA StepIsAdminStep == [Next]_vars => [AdminNext]_adminVars
  BY DEF Next, vars, Deposit, Release, Refund, Dispute, ResolveDispute,
         SetQuorumConfig, VoteDispute, ResolveDisputeQuorum, CloseLedger

(* So the whole contract behaves as its administrative half does alone, and *)
(* what EscrowAdminProofs proves of that holds of the contract.             *)
THEOREM AdministersAsAlone == Spec => AdminSpec
<1>1. Init => AdminInit
  BY DEF Init
<1> QED BY <1>1, StepIsAdminStep, PTL DEF Spec, AdminSpec

(* No address is primary and co-administrator, whatever happens to escrows. *)
THEOREM RolesInWholeContract == Spec => []RolesDisjoint
<1> QED BY AdministersAsAlone, RolesStayDisjoint, PTL

-----------------------------------------------------------------------------
(* Solvency.                                                               *)

(* What one transfer does to an account that is not its payer.             *)
LEMMA TransferTo ==
  ASSUME NEW bal \in [Token -> [Address -> Nat]], NEW t \in Token,
         NEW from \in Address, NEW n \in Nat, bal[t][from] >= n,
         from # Self, NEW u \in Token
  PROVE  Transfer(bal, t, from, Self, n)[u][Self]
             = IF u = t THEN bal[u][Self] + n ELSE bal[u][Self]
<1> DEFINE debited == [bal EXCEPT ![t][from] = @ - n]
<1>1. debited \in [Token -> [Address -> Int]] /\ debited[u][Self] = bal[u][Self]
  BY EscrowConstants
<1> HIDE DEF debited
<1>2. [debited EXCEPT ![t][Self] = @ + n][u][Self]
          = IF u = t THEN debited[u][Self] + n ELSE debited[u][Self]
  BY <1>1, EscrowConstants
<1> QED BY <1>1, <1>2 DEF Transfer, debited

(* And what it takes from the contract when the contract pays.             *)
LEMMA TransferFrom ==
  ASSUME NEW bal \in [Token -> [Address -> Nat]], NEW t \in Token,
         NEW to \in Address, NEW n \in Nat, bal[t][Self] >= n,
         NEW u \in Token
  PROVE  Transfer(bal, t, Self, to, n)[u][Self]
             >= IF u = t THEN bal[u][Self] - n ELSE bal[u][Self]
<1> DEFINE debited == [bal EXCEPT ![t][Self] = @ - n]
<1>1. /\ debited \in [Token -> [Address -> Int]]
      /\ debited[u][Self] = IF u = t THEN bal[u][Self] - n ELSE bal[u][Self]
  BY EscrowConstants
<1> HIDE DEF debited
<1>2. [debited EXCEPT ![t][to] = @ + n][u][Self] >= debited[u][Self]
  BY <1>1, EscrowConstants
<1> QED BY <1>1, <1>2 DEF Transfer, debited

LEMMA OwedType ==
  ASSUME TypeOK, NEW t \in Token
  PROVE  /\ Owed(t) \in [EscrowId -> Nat]
         /\ \A u \in Token : balance[u][Self] \in Nat
<1>1. \A id \in EscrowId : Exists(id) => escrows[id].amount \in Nat
  BY RecordType
<1> QED BY <1>1, EscrowConstants DEF Owed, IsLive, TypeOK

(* An open escrow of a solvent contract is covered by its balance.         *)
LEMMA LiveIsCovered ==
  ASSUME TypeOK, Solvency, NEW id \in EscrowId, IsLive(id)
  PROVE  balance[escrows[id].token][Self] >= escrows[id].amount
<1> DEFINE t == escrows[id].token
<1>1. t \in Token /\ escrows[id].amount \in Nat
  BY RecordType DEF IsLive
<1>2. Owed(t)[id] = escrows[id].amount
  BY DEF Owed
<1> HIDE DEF t
<1>3. Total(Owed(t)) \in Nat /\ Owed(t)[id] <= Total(Owed(t))
  BY <1>1, OwedType, TotalBounds
<1>4. balance[t][Self] >= Total(Owed(t)) /\ balance[t][Self] \in Nat
  BY <1>1, OwedType DEF Solvency
<1> QED BY <1>1, <1>2, <1>3, <1>4 DEF t

(* For every token, a step raises what is owed to one escrow by no more    *)
(* than the balance rises, and lowers the balance by no more than what it  *)
(* takes off the debt.                                                     *)
Balanced(id) ==
    /\ \A other \in EscrowId \ {id} : escrows'[other] = escrows[other]
    /\ \A t \in Token :
          balance'[t][Self] + Owed(t)[id] >= balance[t][Self] + Owed(t)'[id]

LEMMA PayToSellerBalanced ==
  ASSUME TypeOK, NEW id \in EscrowId, IsLive(id), PayToSeller(id)
  PROVE  Balanced(id)
<1> DEFINE e == escrows[id]
           fee == Fee(e.amount, feeBps)
           afterFee == Transfer(balance, e.token, Self, Treasury, fee)
<1>1. /\ Exists(id) /\ e \in EscrowRecord /\ e.token \in Token
      /\ e.amount \in Nat /\ e.seller \in Address
  BY RecordType DEF IsLive
<1>2. fee \in Nat /\ e.amount - fee \in Nat
  <2>1. feeBps \in 0..MaxFeeBps
    BY DEF TypeOK, AdminTypeOK
  <2> HIDE DEF e
  <2>2. Fee(e.amount, feeBps) \in Nat /\ 10 * Fee(e.amount, feeBps) <= e.amount
    BY <1>1, <2>1, FeeBound
  <2> QED BY <1>1, <2>2
<1>3. /\ balance[e.token][Self] >= fee
      /\ afterFee[e.token][Self] >= e.amount - fee
      /\ balance' = Transfer(afterFee, e.token, Self, e.seller, e.amount - fee)
      /\ escrows' = [escrows EXCEPT ![id].status = "Released"]
  BY DEF PayToSeller
<1>4. \A other \in EscrowId \ {id} : escrows'[other] = escrows[other]
  BY <1>3 DEF TypeOK
<1>5. \A t \in Token :
         /\ Owed(t)[id] = IF t = e.token THEN e.amount ELSE 0
         /\ Owed(t)'[id] = 0
  <2>1. escrows'[id].status = "Released"
    BY <1>1, <1>3 DEF TypeOK, EscrowRecord
  <2> QED BY <2>1 DEF Owed, IsLive, Live
<1>6. balance \in [Token -> [Address -> Nat]]
  BY DEF TypeOK
<1> HIDE DEF e, fee
<1>7. afterFee \in [Token -> [Address -> Nat]]
  BY <1>1, <1>2, <1>3, <1>6, TransferType, AdminConstants, EscrowConstants
<1>8. \A t \in Token :
         afterFee[t][Self]
             >= IF t = e.token THEN balance[t][Self] - fee ELSE balance[t][Self]
  BY <1>1, <1>2, <1>3, <1>6, TransferFrom, AdminConstants
<1> HIDE DEF afterFee
<1>9. \A t \in Token :
         balance'[t][Self]
             >= IF t = e.token THEN afterFee[t][Self] - (e.amount - fee)
                               ELSE afterFee[t][Self]
  BY <1>1, <1>2, <1>3, <1>7, TransferFrom
<1>10. \A t \in Token : /\ balance[t][Self] \in Nat /\ balance'[t][Self] \in Nat
                        /\ afterFee[t][Self] \in Nat
  <2>1. balance' \in [Token -> [Address -> Nat]]
    BY <1>1, PayToSellerEffect
  <2> QED BY <1>6, <1>7, <2>1, EscrowConstants
<1>11. \A t \in Token :
          balance'[t][Self] + Owed(t)[id] >= balance[t][Self] + Owed(t)'[id]
  <2> TAKE t \in Token
  <2>1. CASE t = e.token
    BY <1>1, <1>2, <1>5, <1>8, <1>9, <1>10, <2>1
  <2>2. CASE t # e.token
    BY <1>5, <1>8, <1>9, <1>10, <2>2
  <2> QED BY <2>1, <2>2
<1> QED BY <1>4, <1>11 DEF Balanced

LEMMA PayToBuyerBalanced ==
  ASSUME TypeOK, NEW id \in EscrowId, IsLive(id), PayToBuyer(id)
  PROVE  Balanced(id)
<1> DEFINE e == escrows[id]
<1>1. /\ Exists(id) /\ e \in EscrowRecord /\ e.token \in Token
      /\ e.amount \in Nat /\ e.buyer \in Address
  BY RecordType DEF IsLive
<1>2. /\ balance[e.token][Self] >= e.amount
      /\ balance' = Transfer(balance, e.token, Self, e.buyer, e.amount)
      /\ escrows' = [escrows EXCEPT ![id].status = "Refunded"]
  BY DEF PayToBuyer
<1>3. \A other \in EscrowId \ {id} : escrows'[other] = escrows[other]
  BY <1>2 DEF TypeOK
<1>4. \A t \in Token :
         /\ Owed(t)[id] = IF t = e.token THEN e.amount ELSE 0
         /\ Owed(t)'[id] = 0
  <2>1. escrows'[id].status = "Refunded"
    BY <1>1, <1>2 DEF TypeOK, EscrowRecord
  <2> QED BY <2>1 DEF Owed, IsLive, Live
<1>5. balance \in [Token -> [Address -> Nat]]
  BY DEF TypeOK
<1>6. balance' \in [Token -> [Address -> Nat]]
  BY <1>1, PayToBuyerEffect
<1> HIDE DEF e
<1>7. \A t \in Token :
         balance'[t][Self]
             >= IF t = e.token THEN balance[t][Self] - e.amount
                               ELSE balance[t][Self]
  BY <1>1, <1>2, <1>5, TransferFrom
<1>8. \A t \in Token : balance[t][Self] \in Nat /\ balance'[t][Self] \in Nat
  BY <1>5, <1>6, EscrowConstants
<1>9. \A t \in Token :
         balance'[t][Self] + Owed(t)[id] >= balance[t][Self] + Owed(t)'[id]
  BY <1>1, <1>4, <1>7, <1>8
<1> QED BY <1>3, <1>9 DEF Balanced

LEMMA DepositBalanced ==
  ASSUME TypeOK, IdsInOrder,
         NEW b \in Buyers, NEW s \in Sellers, NEW t \in Token,
         NEW n \in Amounts, NEW d \in TimeoutChoices, Deposit(b, s, t, n, d)
  PROVE  \E id \in EscrowId : Balanced(id)
<1> DEFINE id == lastEscrowId + 1
           r == [buyer |-> b, seller |-> s, token |-> t, amount |-> n,
                 status |-> "Funded", timeout_ledger |-> ledger + d]
<1>1. /\ id \in EscrowId /\ n \in Nat \ {0} /\ balance[t][b] >= n
      /\ escrows' = [escrows EXCEPT ![id] = r]
      /\ balance' = Transfer(balance, t, b, Self, n)
  BY EscrowConstants DEF Deposit, TypeOK, EscrowId
<1>2. /\ escrows'[id] = r
      /\ \A other \in EscrowId \ {id} : escrows'[other] = escrows[other]
  BY <1>1 DEF TypeOK
<1>3. \A u \in Token : /\ Owed(u)[id] = 0
                       /\ Owed(u)'[id] <= IF u = t THEN n ELSE 0
  <2>1. ~Exists(id)
    BY <1>1 DEF IdsInOrder, TypeOK
  <2>2. r.token = t /\ r.amount = n
    OBVIOUS
  <2> HIDE DEF id, r
  <2> QED BY <1>1, <1>2, <2>1, <2>2 DEF Owed, IsLive
<1>4. balance \in [Token -> [Address -> Nat]] /\ b \in Address /\ b # Self
  BY EscrowConstants DEF TypeOK
<1>5. \A u \in Token :
         balance'[u][Self] = IF u = t THEN balance[u][Self] + n ELSE balance[u][Self]
  <2> HIDE DEF id, r
  <2> QED BY <1>1, <1>4, TransferTo
<1>6. \A u \in Token : balance[u][Self] \in Nat
  BY <1>4, EscrowConstants
<1>7. \A u \in Token : Owed(u)'[id] \in Nat
  BY <1>1, <1>2 DEF Owed
<1>8. \A u \in Token :
         balance'[u][Self] + Owed(u)[id] >= balance[u][Self] + Owed(u)'[id]
  <2> HIDE DEF id, r
  <2> QED BY <1>1, <1>3, <1>5, <1>6, <1>7
<1> QED BY <1>1, <1>2, <1>8 DEF Balanced

(* A step that moves no money and changes no debt.                         *)
LEMMA DisputeBalanced ==
  ASSUME TypeOK, NEW id \in EscrowId, NEW a \in Address, Dispute(id, a)
  PROVE  Balanced(id)
<1>1. /\ Exists(id) /\ escrows[id].status = "Funded"
      /\ escrows[id] \in EscrowRecord
      /\ escrows' = [escrows EXCEPT ![id].status = "Disputed"]
      /\ balance' = balance
  BY RecordType DEF Dispute, HasStatus
<1>2. \A other \in EscrowId \ {id} : escrows'[other] = escrows[other]
  BY <1>1 DEF TypeOK
<1>3. escrows'[id] = [escrows[id] EXCEPT !.status = "Disputed"]
  BY <1>1 DEF TypeOK
<1>4. /\ escrows'[id].token = escrows[id].token
      /\ escrows'[id].amount = escrows[id].amount
  BY <1>1, <1>3 DEF EscrowRecord
<1>5. \A t \in Token : /\ Owed(t)'[id] <= Owed(t)[id]
                       /\ Owed(t)'[id] \in Nat /\ Owed(t)[id] \in Nat
  <2>1. escrows[id].amount \in Nat
    BY <1>1 DEF EscrowRecord
  <2> QED BY <1>1, <1>4, <2>1 DEF Owed, IsLive, Live
<1>6. \A t \in Token : balance[t][Self] \in Nat
  BY EscrowConstants DEF TypeOK
<1> QED BY <1>1, <1>2, <1>5, <1>6 DEF Balanced

(* Every step leaves records and balances alone, or is balanced.           *)
LEMMA StepBalanced ==
  ASSUME EscrowInv, [Next]_vars
  PROVE  \/ UNCHANGED <<escrows, balance>>
         \/ \E id \in EscrowId : Balanced(id)
<1>0. TypeOK /\ IdsInOrder
  BY DEF EscrowInv
<1>1. ASSUME NEW id \in EscrowId, NEW a \in Address, Release(id, a)
      PROVE  Balanced(id)
  BY <1>0, <1>1, PayToSellerBalanced DEF Release, Releasable, IsLive, Live
<1>2. ASSUME NEW id \in EscrowId, NEW a \in Address, Refund(id, a)
      PROVE  Balanced(id)
  BY <1>0, <1>2, PayToBuyerBalanced DEF Refund, Refundable, HasStatus, IsLive, Live
<1>3. ASSUME NEW id \in EscrowId, NEW a \in Address, NEW s \in BOOLEAN,
             ResolveDispute(id, a, s)
      PROVE  Balanced(id)
  BY <1>0, <1>3, PayToSellerBalanced, PayToBuyerBalanced
     DEF ResolveDispute, HasStatus, IsLive, Live
<1>4. ASSUME NEW id \in EscrowId, ResolveDisputeQuorum(id)
      PROVE  Balanced(id)
  BY <1>0, <1>4, PayToSellerBalanced, PayToBuyerBalanced
     DEF ResolveDisputeQuorum, HasStatus, IsLive, Live
<1>5. ASSUME \/ AdminNext /\ UNCHANGED escrowVars
             \/ \E a \in Address, arbs \in SUBSET Arbiters :
                   \E k \in 0..(Cardinality(arbs) + 1) :
                       SetQuorumConfig(a, arbs, k)
             \/ \E id \in EscrowId, a \in Arbiters, s \in BOOLEAN :
                   VoteDispute(id, a, s)
             \/ CloseLedger
             \/ UNCHANGED vars
      PROVE  UNCHANGED <<escrows, balance>>
  BY <1>5 DEF escrowVars, vars, SetQuorumConfig, VoteDispute, CloseLedger
<1> QED
  BY <1>0, <1>1, <1>2, <1>3, <1>4, <1>5, DepositBalanced, DisputeBalanced DEF Next

LEMMA StepSolvency ==
  ASSUME EscrowInv, TypeOK', Solvency, [Next]_vars
  PROVE  Solvency'
<1>1. CASE UNCHANGED <<escrows, balance>>
  <2>1. \A t \in Token : Owed(t)' = Owed(t)
    BY <1>1 DEF Owed, IsLive, Exists
  <2>2. \A t \in Token : Total(Owed(t)') = Total(Owed(t))
    BY <2>1
  <2> QED BY <1>1, <2>2 DEF Solvency, Total
<1>2. ASSUME NEW id \in EscrowId, Balanced(id)
      PROVE  Solvency'
  <2> SUFFICES ASSUME NEW t \in Token
               PROVE  balance'[t][Self] >= Total(Owed(t)')
    BY DEF Solvency, Total
  <2> DEFINE f == Owed(t)
             g == Owed(t)'
  <2>1. f \in [EscrowId -> Nat] /\ balance[t][Self] \in Nat
    BY OwedType DEF EscrowInv
  <2>2. g \in [EscrowId -> Nat] /\ balance'[t][Self] \in Nat
    <3>1. /\ escrows' \in [EscrowId -> EscrowRecord \cup {None}]
          /\ balance' \in [Token -> [Address -> Nat]]
      BY DEF TypeOK
    <3>2. \A o \in EscrowId : escrows'[o] # None => escrows'[o].amount \in Nat
      BY <3>1 DEF EscrowRecord
    <3> QED BY <3>1, <3>2, EscrowConstants DEF Owed, IsLive, Exists
  <2>3. \A other \in EscrowId \ {id} : g[other] = f[other]
    BY <1>2 DEF Balanced, Owed, IsLive, Exists
  <2>4. balance'[t][Self] + f[id] >= balance[t][Self] + g[id]
    BY <1>2 DEF Balanced
  <2>5. balance[t][Self] >= Total(f)
    BY DEF Solvency
  <2> HIDE DEF f, g
  <2>6. /\ Total(g) + f[id] = Total(f) + g[id]
        /\ Total(f) \in Nat /\ Total(g) \in Nat
    BY <2>1, <2>2, <2>3, TotalChange, TotalBounds
  <2>7. balance'[t][Self] >= Total(g)
    BY <2>1, <2>2, <2>4, <2>5, <2>6
  <2> QED BY <2>7 DEF g
<1> QED BY <1>1, <1>2, StepBalanced

(* The contract always owns what its open escrows add up to.               *)
THEOREM AlwaysSolvent == Spec => []Solvency
<1>1. Init => Solvency
  <2> SUFFICES ASSUME Init, NEW t \in Token
               PROVE  balance[t][Self] >= Total(Owed(t))
    BY DEF Solvency
  <2>1. \A id \in EscrowId : Owed(t)[id] = 0
    BY DEF Init, Owed, IsLive, Exists
  <2>2. Total(Owed(t)) = 0
    BY <2>1, TotalZero
  <2>3. balance[t][Self] = 0
    BY EscrowConstants DEF Init
  <2> QED BY <2>2, <2>3
<1>2. EscrowInv /\ Solvency /\ EscrowInv' /\ [Next]_vars => Solvency'
  BY StepSolvency DEF EscrowInv
<1> QED BY <1>1, <1>2, EscrowInvariant, PTL DEF Spec

(* No payout of an open escrow is ever stopped by the balance: the         *)
(* transfer to the buyer is covered, and so are the two that pay the fee   *)
(* to the treasury and the rest to the seller, one after the other.        *)
PayoutsCovered ==
    \A id \in EscrowId : IsLive(id) =>
        LET e   == escrows[id]
            fee == Fee(e.amount, feeBps)
        IN  /\ balance[e.token][Self] >= e.amount
            /\ balance[e.token][Self] >= fee
            /\ Transfer(balance, e.token, Self, Treasury, fee)[e.token][Self]
                   >= e.amount - fee

THEOREM PayoutsAlwaysCovered == Spec => []PayoutsCovered
<1>1. TypeOK /\ Solvency => PayoutsCovered
  <2> SUFFICES ASSUME TypeOK, Solvency, NEW id \in EscrowId, IsLive(id)
               PROVE  LET e   == escrows[id]
                          fee == Fee(e.amount, feeBps)
                      IN  /\ balance[e.token][Self] >= e.amount
                          /\ balance[e.token][Self] >= fee
                          /\ Transfer(balance, e.token, Self, Treasury, fee)
                                 [e.token][Self] >= e.amount - fee
    BY DEF PayoutsCovered
  <2> DEFINE e == escrows[id]
             fee == Fee(e.amount, feeBps)
             afterFee == Transfer(balance, e.token, Self, Treasury, fee)
  <2>1. e.token \in Token /\ e.amount \in Nat
    BY RecordType DEF IsLive
  <2>2. balance[e.token][Self] >= e.amount
    BY LiveIsCovered
  <2>3. balance \in [Token -> [Address -> Nat]] /\ feeBps \in 0..MaxFeeBps
    BY DEF TypeOK, AdminTypeOK
  <2> HIDE DEF e
  <2>4. fee \in Nat /\ 10 * fee <= e.amount
    BY <2>1, <2>3, FeeBound
  <2> HIDE DEF fee
  <2>5. balance[e.token][Self] \in Nat /\ balance[e.token][Self] >= fee
    BY <2>1, <2>2, <2>3, <2>4, EscrowConstants
  <2>6. afterFee \in [Token -> [Address -> Nat]]
    BY <2>1, <2>3, <2>4, <2>5, TransferType, AdminConstants, EscrowConstants
  <2>7. afterFee[e.token][Self] >= balance[e.token][Self] - fee
    BY <2>1, <2>3, <2>4, <2>5, TransferFrom, AdminConstants
  <2>8. afterFee[e.token][Self] \in Nat
    BY <2>1, <2>6, EscrowConstants
  <2>9. afterFee[e.token][Self] >= e.amount - fee
    <3> HIDE DEF afterFee
    <3> QED BY <2>1, <2>2, <2>4, <2>5, <2>7, <2>8
  <2> QED BY <2>2, <2>5, <2>9 DEF e, fee
<1> QED BY <1>1, TypeCorrect, AlwaysSolvent, PTL

(* What get_refund_eligibility calls eligible is what refund accepts, the  *)
(* transfer included: RefundEligibilityExact without ENABLED, which asks   *)
(* besides only that the values refund assigns exist.                      *)
EligibleMeansRefundable ==
    \A id \in EscrowId, a \in Address :
        RefundReason(id, a) = "ok" <=>
            /\ Refundable(id, a)
            /\ balance[escrows[id].token][Self] >= escrows[id].amount

THEOREM RefundEligibilityTrue == Spec => []EligibleMeansRefundable
<1>1. TypeOK /\ Solvency => EligibleMeansRefundable
  <2> SUFFICES ASSUME TypeOK, Solvency, NEW id \in EscrowId, NEW a \in Address
               PROVE  RefundReason(id, a) = "ok" <=>
                          /\ Refundable(id, a)
                          /\ balance[escrows[id].token][Self] >= escrows[id].amount
    BY DEF EligibleMeansRefundable
  <2>1. Exists(id) => escrows[id].status \in EscrowStatus
    BY RecordType DEF EscrowRecord
  <2>2. RefundReason(id, a) = "ok" <=> Refundable(id, a)
    <3>1. CASE ~Exists(id)
      BY <3>1 DEF RefundReason, Refundable, HasStatus
    <3>2. CASE Exists(id) /\ escrows[id].status # "Funded"
      BY <2>1, <3>2 DEF RefundReason, Refundable, HasStatus, EscrowStatus, Live
    <3>3. CASE Exists(id) /\ escrows[id].status = "Funded"
      BY <3>3 DEF RefundReason, Refundable, HasStatus
    <3> QED BY <3>1, <3>2, <3>3
  <2>3. Refundable(id, a) => IsLive(id)
    BY DEF Refundable, HasStatus, IsLive, Live
  <2> QED BY <2>2, <2>3, LiveIsCovered
<1> QED BY <1>1, TypeCorrect, AlwaysSolvent, PTL

-----------------------------------------------------------------------------
(* The contract never changes the terms of an escrow and implements        *)
(* Custody.  Both follow from OneEscrowPerStep: a step touches at most one *)
(* escrow, in one of four ways, and each way is a step of Custody.         *)

(* The terms of an escrow are fixed when it is created.                    *)
THEOREM TermsFixed == Spec => TermsNeverChange
<1> DEFINE Kept(id) ==
             Exists(id) =>
                /\ Exists(id)'
                /\ escrows'[id] = [escrows[id] EXCEPT !.status = escrows'[id].status]
<1>1. EscrowInv /\ [Next]_vars => \A id \in EscrowId : Kept(id)
  <2> SUFFICES ASSUME EscrowInv, [Next]_vars, NEW id \in EscrowId, Exists(id)
               PROVE  Kept(id)
    OBVIOUS
  <2>1. escrows[id] \in EscrowRecord
    BY RecordType DEF EscrowInv
  <2>2. CASE Untouched(id)
    BY <2>1, <2>2 DEF Untouched, Exists, EscrowRecord
  <2>3. CASE EscrowStep(id)
    <3>1. ~Created(id)
      BY DEF Created, EscrowInv, IdsInOrder, TypeOK
    <3>2. \E s \in EscrowStatus : escrows'[id] = [escrows[id] EXCEPT !.status = s]
      BY <2>3, <3>1
         DEF EscrowStep, Contested, PaidToSeller, PaidToBuyer, EscrowStatus, Live
    <3>3. escrows'[id] \in EscrowRecord
      BY <2>1, <3>2 DEF EscrowRecord
    <3> QED BY <2>1, <3>2, <3>3, NoneIsNoRecord DEF Exists, EscrowRecord
  <2> QED BY <2>2, <2>3, OneEscrowPerStep DEF EscrowInv
<1> QED BY <1>1, EscrowInvariant, PTL DEF Spec, TermsNeverChange

-----------------------------------------------------------------------------

HeldIn(id) == IF IsLive(id) THEN escrows[id].amount ELSE 0

(* What Custody sees of an escrow a step leaves alone does not change.     *)
LEMMA UntouchedCustody ==
  ASSUME NEW id \in EscrowId, Untouched(id)
  PROVE  /\ PhaseOf(id)' = PhaseOf(id) /\ HeldIn(id)' = HeldIn(id)
         /\ paid'[id] = paid[id]
  BY DEF Untouched, PhaseOf, HeldIn, IsLive, Exists

(* The four ways a step touches an escrow, as Custody sees them.           *)
LEMMA CreatedCustody ==
  ASSUME EscrowInv, NEW id \in EscrowId, Created(id)
  PROVE  /\ PhaseOf(id) = "empty" /\ PhaseOf(id)' = "held"
         /\ HeldIn(id)' > 0 /\ paid'[id] = paid[id]
<1>1. ~Exists(id)
  BY DEF Created, EscrowInv, IdsInOrder, TypeOK
<1> QED BY <1>1 DEF Created, PhaseOf, HeldIn, IsLive, Live, Exists

LEMMA ContestedCustody ==
  ASSUME EscrowInv, NEW id \in EscrowId, Contested(id)
  PROVE  /\ PhaseOf(id) = "held" /\ PhaseOf(id)' = "contested"
         /\ HeldIn(id)' = HeldIn(id) /\ paid'[id] = paid[id]
<1>1. Exists(id) /\ escrows[id] \in EscrowRecord /\ escrows[id].status = "Funded"
  BY RecordType DEF Contested, HasStatus, EscrowInv
<1>2. /\ escrows'[id] \in EscrowRecord
      /\ escrows'[id].status = "Disputed"
      /\ escrows'[id].amount = escrows[id].amount
  BY <1>1 DEF Contested, EscrowRecord, EscrowStatus, Live
<1>3. escrows'[id] # None
  BY <1>2, NoneIsNoRecord
<1> QED
  BY <1>1, <1>2, <1>3 DEF Contested, PhaseOf, HeldIn, IsLive, Live, Exists

(* An open escrow has paid nothing, so what it pays now is all it paid.    *)
LEMMA OpenPaidNothing ==
  ASSUME EscrowInv, NEW id \in EscrowId, IsLive(id)
  PROVE  /\ escrows[id] \in EscrowRecord /\ HeldIn(id) = escrows[id].amount
         /\ HeldIn(id) \in Nat
         /\ paid[id] = [seller |-> 0, treasury |-> 0, buyer |-> 0]
         /\ PhaseOf(id) \in {"held", "contested"}
<1>1. escrows[id] \in EscrowRecord /\ HeldIn(id) = escrows[id].amount
  BY RecordType DEF EscrowInv, IsLive, HeldIn
<1>2. /\ paid[id].seller = 0 /\ paid[id].treasury = 0 /\ paid[id].buyer = 0
      /\ paid[id] \in Payout
  BY DEF EscrowInv, SettledInFull, Settled, TypeOK
<1>3. PhaseOf(id) \in {"held", "contested"}
  BY DEF PhaseOf, IsLive, Live
<1> QED BY <1>1, <1>2, <1>3 DEF Payout, EscrowRecord

LEMMA PaidToSellerCustody ==
  ASSUME EscrowInv, NEW id \in EscrowId, PaidToSeller(id)
  PROVE  /\ PhaseOf(id) \in {"held", "contested"} /\ PhaseOf(id)' = "paid"
         /\ HeldIn(id)' = 0
         /\ paid'[id].treasury >= 0 /\ 10 * paid'[id].treasury <= HeldIn(id)
         /\ paid'[id].seller = HeldIn(id) - paid'[id].treasury
         /\ paid'[id].buyer = paid[id].buyer
<1> DEFINE h == HeldIn(id)
<1>1. /\ IsLive(id) /\ escrows[id] \in EscrowRecord /\ h = escrows[id].amount
      /\ h \in Nat /\ paid[id] = [seller |-> 0, treasury |-> 0, buyer |-> 0]
      /\ PhaseOf(id) \in {"held", "contested"}
  BY OpenPaidNothing DEF PaidToSeller
<1>2. escrows'[id] \in EscrowRecord /\ escrows'[id].status = "Released"
  BY <1>1 DEF PaidToSeller, EscrowRecord, EscrowStatus, Live
<1>3. escrows'[id] # None
  BY <1>2, NoneIsNoRecord
<1>4. PhaseOf(id)' = "paid" /\ HeldIn(id)' = 0
  BY <1>2, <1>3 DEF PhaseOf, HeldIn, IsLive, Live, Exists
<1>5. PICK fee \in Nat :
         /\ 10 * fee <= h
         /\ paid'[id] = [paid[id] EXCEPT !.seller = @ + (h - fee),
                                         !.treasury = @ + fee]
  BY <1>1 DEF PaidToSeller
<1> HIDE DEF h
<1>6. /\ paid[id].seller + (h - fee) = h - fee /\ paid[id].treasury + fee = fee
      /\ paid[id] \in Payout
  BY <1>1 DEF Payout
<1>7. /\ paid'[id].treasury = fee /\ paid'[id].seller = h - fee
      /\ paid'[id].buyer = paid[id].buyer
  BY <1>5, <1>6 DEF Payout
<1>8. /\ paid'[id].treasury >= 0 /\ 10 * paid'[id].treasury <= h
      /\ paid'[id].seller = h - paid'[id].treasury
  BY <1>1, <1>5, <1>7
<1> QED BY <1>1, <1>4, <1>7, <1>8 DEF h

LEMMA PaidToBuyerCustody ==
  ASSUME EscrowInv, NEW id \in EscrowId, PaidToBuyer(id)
  PROVE  /\ PhaseOf(id) \in {"held", "contested"} /\ PhaseOf(id)' = "returned"
         /\ HeldIn(id)' = 0 /\ paid'[id].buyer = HeldIn(id)
         /\ paid'[id].seller = paid[id].seller
         /\ paid'[id].treasury = paid[id].treasury
<1>1. /\ IsLive(id) /\ escrows[id] \in EscrowRecord
      /\ HeldIn(id) = escrows[id].amount
      /\ HeldIn(id) \in Nat /\ paid[id] = [seller |-> 0, treasury |-> 0, buyer |-> 0]
      /\ PhaseOf(id) \in {"held", "contested"}
  BY OpenPaidNothing DEF PaidToBuyer
<1>2. escrows'[id] \in EscrowRecord /\ escrows'[id].status = "Refunded"
  BY <1>1 DEF PaidToBuyer, EscrowRecord, EscrowStatus, Live
<1>3. escrows'[id] # None
  BY <1>2, NoneIsNoRecord
<1>4. PhaseOf(id)' = "returned" /\ HeldIn(id)' = 0
  BY <1>2, <1>3 DEF PhaseOf, HeldIn, IsLive, Live, Exists
<1>5. /\ paid'[id].buyer = HeldIn(id) /\ paid'[id].seller = paid[id].seller
      /\ paid'[id].treasury = paid[id].treasury
  BY <1>1 DEF PaidToBuyer
<1> QED BY <1>1, <1>4, <1>5

(* Every step of the contract is a step of Custody or leaves its variables *)
(* as they are.                                                            *)
LEMMA StepImplementsCustody ==
  ASSUME EscrowInv, [Next]_vars
  PROVE  [C!Next]_(C!custodyVars)
<1> USE DEF C!custodyVars, HeldIn
<1>1. CASE \A id \in EscrowId : Untouched(id)
  BY <1>1, UntouchedCustody
<1>2. ASSUME NEW id \in EscrowId, EscrowStep(id),
             \A other \in EscrowId \ {id} : Untouched(other)
      PROVE  C!Next
  <2>1. \A other \in EscrowId \ {id} :
           /\ PhaseOf(other)' = PhaseOf(other) /\ HeldIn(other)' = HeldIn(other)
           /\ paid'[other] = paid[other]
    BY <1>2, UntouchedCustody
  <2>2. CASE Created(id)
    <3>1. C!Fund(id)
      BY <2>1, <2>2, CreatedCustody DEF C!Fund
    <3> QED BY <3>1 DEF C!Next
  <2>3. CASE Contested(id)
    <3>1. C!Contest(id)
      BY <2>1, <2>3, ContestedCustody DEF C!Contest
    <3> QED BY <3>1 DEF C!Next
  <2>4. CASE PaidToSeller(id)
    <3>1. C!PaySeller(id)
      BY <2>1, <2>4, PaidToSellerCustody DEF C!PaySeller, C!Open
    <3> QED BY <3>1 DEF C!Next
  <2>5. CASE PaidToBuyer(id)
    <3>1. C!ReturnToBuyer(id)
      BY <2>1, <2>5, PaidToBuyerCustody DEF C!ReturnToBuyer, C!Open
    <3> QED BY <3>1 DEF C!Next
  <2> QED BY <1>2, <2>2, <2>3, <2>4, <2>5 DEF EscrowStep
<1> QED BY <1>1, <1>2, OneEscrowPerStep DEF EscrowInv

(* The contract keeps the promise of Custody: every amount deposited       *)
(* leaves exactly once, to the buyer or, less a tenth at most, the seller. *)
THEOREM CustodyImplemented == Spec => ImplementsCustody
<1>1. Init => C!Init
  BY DEF Init, C!Init, PhaseOf, Exists, IsLive
<1>2. EscrowInv /\ [Next]_vars => [C!Next]_(C!custodyVars)
  BY StepImplementsCustody
<1> QED BY <1>1, <1>2, EscrowInvariant, PTL DEF Spec, ImplementsCustody, C!Spec
=============================================================================

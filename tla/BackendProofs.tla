---------------------------- MODULE BackendProofs ----------------------------
(***************************************************************************)
(* Proofs about the services of the backend, for any numbers of requests,  *)
(* deliveries, arbiters and browsers.  Each component has an invariant of  *)
(* its own; a step of the backend is a step of one component at most.      *)
(***************************************************************************)
EXTENDS Backend, FiniteSetTheorems, TLAPS

(* A step of the backend is a step or a stutter of every component.        *)
LEMMA ComponentStep ==
  ASSUME [BackendNext]_backendVars
  PROVE  /\ [VaultNext]_vaultVars /\ [KeyVersionsNext]_keyVersionVars
         /\ [BalanceNext]_balanceVars
         /\ [SessionsNext]_sessionVars /\ [DelegationsNext]_delegationVars
         /\ [RateNext]_rateVars
         /\ [PaymentsNext]_paymentVars /\ [ArbitersNext]_arbiterVars
         /\ [OrdersNext]_orderVars /\ [MachineNext]_machineVars
         /\ [ContractEventsNext]_eventVars /\ [DispatchNext]_dispatchVars
<1>1. CASE WalletStep
  BY <1>1, Zenon DEF WalletStep, gatewayVars, paymentsVars, orchestratorVars, consumerVars
<1>2. CASE GatewayStep
  BY <1>2, Zenon DEF GatewayStep, walletVars, paymentsVars, orchestratorVars, consumerVars
<1>3. CASE PaymentsStep
  BY <1>3, Zenon DEF PaymentsStep, walletVars, gatewayVars, orchestratorVars, consumerVars
<1>4. CASE OrchestratorStep
  BY <1>4, Zenon DEF OrchestratorStep, walletVars, gatewayVars, paymentsVars, consumerVars
<1>5. CASE ConsumerStep
  BY <1>5, Zenon DEF ConsumerStep, walletVars, gatewayVars, paymentsVars, orchestratorVars
<1>6. CASE UNCHANGED backendVars
  BY <1>6, Zenon DEF backendVars, walletVars, gatewayVars, paymentsVars, orchestratorVars, consumerVars
<1> QED BY <1>1, <1>2, <1>3, <1>4, <1>5, <1>6 DEF BackendNext

(* What a set with at most one element has as its cardinality.             *)
LEMMA AtMostOne ==
  ASSUME NEW S, \A a, b \in S : a = b
  PROVE  Cardinality(S) =< 1
<1>1. CASE S = {}
  BY <1>1, FS_EmptySet
<1>2. CASE S # {}
  <2>1. PICK x : S = {x}
    BY <1>2
  <2> QED BY <2>1, FS_Singleton
<1> QED BY <1>1, <1>2

-----------------------------------------------------------------------------
(* Dispatch: a channel was used once for every key that was set for it.    *)

Channel == {"email", "push"}
DispatchInv ==
    /\ sends \in [Channel -> Nat]
    /\ dispatchKeys \subseteq Channel
    /\ \A channel \in Channel :
        sends[channel] =< (IF channel \in dispatchKeys THEN 1 ELSE 0)
                          + (IF channel \in expired THEN 1 ELSE 0)

LEMMA DispatchInitInv == DispatchInit => DispatchInv
BY DEF DispatchInit, DispatchInv, Channel

LEMMA SendOnceInv ==
  ASSUME DispatchInv, NEW c, NEW channel \in Channel, SendOnce(c, channel), UNCHANGED expired
  PROVE  DispatchInv'
BY DEF DispatchInv, SendOnce, Channel

LEMMA DispatchNextInv ==
  ASSUME DispatchInv, [DispatchNext]_dispatchVars
  PROVE  DispatchInv'
<1>1. CASE UNCHANGED <<dispatchKeys, expired, sends>>
  BY <1>1 DEF DispatchInv
<1>2. ASSUME NEW channel \in DOMAIN sends, DispatchKeyExpires(channel)
      PROVE  DispatchInv'
  BY <1>2 DEF DispatchInv, DispatchKeyExpires
<1>3. ASSUME NEW c \in DispatchCall, DispatchEmail(c) PROVE DispatchInv'
  BY <1>3, SendOnceInv DEF DispatchEmail, Channel
<1>4. ASSUME NEW c \in DispatchCall, NEW b \in Browser, DispatchPush(c, b)
      PROVE  DispatchInv'
  BY <1>4, SendOnceInv DEF DispatchPush, Channel
<1>5. ASSUME DispatchNext PROVE DispatchInv'
  BY <1>1, <1>2, <1>3, <1>4, <1>5, Zenon
     DEF DispatchNext, Subscribe, Unsubscribe, StartDispatch, ReadSubscriptions, EndDispatch
<1> QED BY <1>1, <1>5 DEF dispatchVars

LEMMA DispatchSafe == DispatchInv => SentOncePerKey
BY DEF DispatchInv, SentOncePerKey

-----------------------------------------------------------------------------
(* Events: of the deliveries that were not spoiled one at most got past    *)
(* the check, and the store says so as soon as nobody is at work on it.    *)

Begun(d) == deliveryPc[d] \in {"checked", "handled", "failed", "done"}
EventsInv ==
    /\ deliveryPc \in [EventDelivery -> {"new", "skipped", "checked", "handled", "failed", "done"}]
    /\ claimsFirst \in BOOLEAN /\ processed \in BOOLEAN
    /\ handledBy \subseteq {d \in EventDelivery : Begun(d)}
    /\ claimsFirst => spoiled = {}
    /\ \A d \in EventDelivery :
        /\ deliveryPc[d] = "done" => processed
        /\ claimsFirst /\ Begun(d) => processed
    /\ \A d, e \in EventDelivery :
        Begun(d) /\ Begun(e) /\ d \notin spoiled /\ e \notin spoiled => d = e

LEMMA EventsInitInv == ContractEventsInit => EventsInv
BY DEF ContractEventsInit, EventsInv, Begun

LEMMA EventsNextInv ==
  ASSUME EventsInv, [ContractEventsNext]_eventVars
  PROVE  EventsInv'
<1>1. ASSUME NEW d \in EventDelivery, CheckEvent(d) PROVE EventsInv'
  BY <1>1 DEF EventsInv, CheckEvent, EventGoto, Begun, Unsettled
<1>2. ASSUME NEW d \in EventDelivery, HandleEvent(d) PROVE EventsInv'
  BY <1>2 DEF EventsInv, HandleEvent, EventGoto, Begun
<1>3. ASSUME NEW d \in EventDelivery, EventFails(d) PROVE EventsInv'
  BY <1>3 DEF EventsInv, EventFails, EventGoto, Begun
<1>4. ASSUME NEW d \in EventDelivery, MarkProcessed(d) PROVE EventsInv'
  BY <1>4 DEF EventsInv, MarkProcessed, EventGoto, Begun
<1>5. CASE UNCHANGED eventVars
  BY <1>5 DEF EventsInv, eventVars, Begun
<1> QED BY <1>1, <1>2, <1>3, <1>4, <1>5, Zenon DEF ContractEventsNext

LEMMA EventsSafe == EventsInv => HandledOnce
<1> SUFFICES ASSUME EventsInv PROVE HandledOnce
  OBVIOUS
<1>1. \A d, e \in handledBy \ spoiled : d = e
  BY DEF EventsInv
<1>2. claimsFirst => \A d, e \in handledBy : d = e
  BY DEF EventsInv
<1> QED BY <1>1, <1>2, AtMostOne DEF HandledOnce

-----------------------------------------------------------------------------
(* Arbiters: while a resolution is being submitted nobody can sign; what   *)
(* was submitted last has failed as soon as somebody can.                  *)

Submission == [signers : SUBSET Arbiter, answer : {"none", "ok", "failed"}]
SubmissionsChain ==
    \A i \in 1..Len(submissions) :
        /\ Cardinality(submissions[i].signers) >= Threshold
        /\ i > 1 => /\ submissions[i-1].answer = "failed"
                    /\ submissions[i-1].signers \subseteq submissions[i].signers
                    /\ submissions[i-1].signers # submissions[i].signers
ArbitersInv ==
    /\ disputeSignatures \subseteq Arbiter
    /\ submissions \in Seq(Submission)
    /\ SubmissionsChain
    /\ \A a, b \in submitter : a = b
    /\ disputeStatus = "submitted" => submissions # <<>>
    /\ disputeStatus # "submitted" => submitter = {}
    /\ submissions # <<>> =>
        /\ submissions[Len(submissions)].signers \subseteq disputeSignatures
        /\ disputeStatus \notin {"submitted", "resolved"} =>
               submissions[Len(submissions)].answer = "failed"

LEMMA ArbitersInitInv == ArbitersInit => ArbitersInv
BY DEF ArbitersInit, ArbitersInv, SubmissionsChain

LEMMA CollectInv ==
  ASSUME ArbitersInv, NEW arbiter \in Arbiter, CollectArbiterSignature(arbiter)
  PROVE  ArbitersInv'
<1> DEFINE signed == disputeSignatures \cup {arbiter}
           made == [signers |-> signed, answer |-> "none"]
<1>1. /\ submitter = {} /\ signed \subseteq Arbiter /\ disputeSignatures' = signed
      /\ arbiter \notin disputeSignatures
      /\ disputeStatus \notin {"submitted", "resolved"}
  BY DEF ArbitersInv, CollectArbiterSignature, MaySign
<1>2. CASE Cardinality(signed) >= Threshold
  <2>1. /\ disputeStatus' = "submitted" /\ submitter' = {arbiter}
        /\ submissions' = Append(submissions, made)
    BY <1>1, <1>2 DEF CollectArbiterSignature
  <2>2. made \in Submission /\ submissions \in Seq(Submission)
    BY <1>1 DEF Submission, ArbitersInv
  <2>3. /\ submissions' \in Seq(Submission)
        /\ Len(submissions') = Len(submissions) + 1 /\ Len(submissions) \in Nat
        /\ submissions'[Len(submissions')] = made
        /\ \A i \in 1..Len(submissions) : submissions'[i] = submissions[i]
    BY <2>1, <2>2
  <2>4. submissions # <<>> =>
            /\ Len(submissions) >= 1
            /\ submissions[Len(submissions)].answer = "failed"
            /\ submissions[Len(submissions)].signers \subseteq disputeSignatures
    BY <1>1, <2>2 DEF ArbitersInv
  <2>5. SubmissionsChain'
    <3> SUFFICES ASSUME NEW i \in 1..Len(submissions')
                 PROVE  /\ Cardinality(submissions'[i].signers) >= Threshold
                        /\ i > 1 =>
                            /\ submissions'[i-1].answer = "failed"
                            /\ submissions'[i-1].signers \subseteq submissions'[i].signers
                            /\ submissions'[i-1].signers # submissions'[i].signers
      BY DEF SubmissionsChain
    <3>1. CASE i \in 1..Len(submissions)
      <4>1. submissions'[i] = submissions[i]
        BY <2>3, <3>1
      <4>2. i > 1 => submissions'[i-1] = submissions[i-1]
        BY <2>3, <3>1
      <4> QED BY <3>1, <4>1, <4>2 DEF ArbitersInv, SubmissionsChain
    <3>2. CASE i = Len(submissions) + 1
      <4>1. submissions'[i].signers = signed
        BY <2>3, <3>2
      <4>2. i > 1 => /\ submissions # <<>>
                     /\ submissions'[i-1] = submissions[Len(submissions)]
        BY <2>2, <2>3, <3>2
      <4> QED BY <1>1, <1>2, <2>4, <4>1, <4>2
    <3> QED BY <2>3, <3>1, <3>2
  <2> QED BY <1>1, <2>1, <2>3, <2>5 DEF ArbitersInv
<1>3. CASE ~(Cardinality(signed) >= Threshold)
  <2>1. disputeStatus' = "collecting" /\ UNCHANGED <<submitter, submissions>>
    BY <1>3 DEF CollectArbiterSignature
  <2> QED BY <1>1, <2>1 DEF ArbitersInv, SubmissionsChain
<1> QED BY <1>2, <1>3

LEMMA AnsweredInv ==
  ASSUME ArbitersInv, NEW arbiter \in Arbiter, NEW answer \in {"ok", "failed"},
         SubmissionAnswered(arbiter, answer)
  PROVE  ArbitersInv'
<1> DEFINE last == Len(submissions)
<1>1. /\ disputeStatus = "submitted" /\ submissions # <<>> /\ submitter' = {}
      /\ disputeStatus' = IF answer = "ok" THEN "resolved" ELSE "threshold_met"
      /\ submissions' = [submissions EXCEPT ![last].answer = answer]
      /\ UNCHANGED disputeSignatures
      /\ submissions \in Seq(Submission)
  BY DEF ArbitersInv, SubmissionAnswered
<1>2. last \in Nat /\ last >= 1 /\ DOMAIN submissions = 1..last
  BY <1>1
<1>3. submissions[last] \in Submission
  BY <1>1, <1>2
<1>4. [submissions[last] EXCEPT !.answer = answer] \in Submission
  BY <1>3 DEF Submission
<1>5. /\ submissions' \in Seq(Submission) /\ Len(submissions') = last
      /\ submissions'[last] = [submissions[last] EXCEPT !.answer = answer]
      /\ \A i \in 1..last : i # last => submissions'[i] = submissions[i]
  BY <1>1, <1>2, <1>4
<1>6. /\ submissions'[last].answer = answer
      /\ submissions'[last].signers = submissions[last].signers
  BY <1>3, <1>5 DEF Submission
<1>7. SubmissionsChain'
  <2> SUFFICES ASSUME NEW i \in 1..last
               PROVE  /\ Cardinality(submissions'[i].signers) >= Threshold
                      /\ i > 1 =>
                          /\ submissions'[i-1].answer = "failed"
                          /\ submissions'[i-1].signers \subseteq submissions'[i].signers
                          /\ submissions'[i-1].signers # submissions'[i].signers
    BY <1>5 DEF SubmissionsChain
  <2>1. submissions'[i].signers = submissions[i].signers
    BY <1>5, <1>6
  <2>2. i > 1 => submissions'[i-1] = submissions[i-1]
    BY <1>2, <1>5
  <2> QED BY <2>1, <2>2 DEF ArbitersInv, SubmissionsChain
<1>8. /\ submissions' # <<>>
      /\ submissions'[Len(submissions')].signers \subseteq disputeSignatures'
      /\ disputeStatus' # "resolved" => submissions'[Len(submissions')].answer = "failed"
  BY <1>1, <1>2, <1>5, <1>6 DEF ArbitersInv
<1> QED BY <1>1, <1>5, <1>7, <1>8 DEF ArbitersInv

LEMMA ArbitersNextInv ==
  ASSUME ArbitersInv, [ArbitersNext]_arbiterVars
  PROVE  ArbitersInv'
<1>1. CASE UNCHANGED arbiterVars
  BY <1>1 DEF ArbitersInv, SubmissionsChain, arbiterVars
<1> QED BY <1>1, CollectInv, AnsweredInv DEF ArbitersNext

LEMMA ArbitersSafe == ArbitersInv => ResolvedOnce
<1> SUFFICES ASSUME ArbitersInv PROVE ResolvedOnce
  OBVIOUS
<1>1. Cardinality(submitter) =< 1
  BY AtMostOne DEF ArbitersInv
<1> QED BY <1>1 DEF ArbitersInv, SubmissionsChain, ResolvedOnce

-----------------------------------------------------------------------------
(* What is kept from happening twice does not happen twice, however many   *)
(* arbiters sign, deliveries arrive and dispatches run at the same time:   *)
(* a resolution of a dispute is not submitted again unless it failed, an   *)
(* event is handled once and a notification sent once per key.             *)
THEOREM NothingHappensTwice == BackendSpec => []NothingTwice
<1> DEFINE Inv == DispatchInv /\ EventsInv /\ ArbitersInv
<1>1. BackendInit => Inv
  BY DispatchInitInv, EventsInitInv, ArbitersInitInv DEF BackendInit
<1>2. Inv /\ [BackendNext]_backendVars => Inv'
  BY ComponentStep, DispatchNextInv, EventsNextInv, ArbitersNextInv
<1>3. Inv => NothingTwice
  BY DispatchSafe, EventsSafe, ArbitersSafe DEF NothingTwice
<1> QED BY <1>1, <1>2, <1>3, PTL DEF BackendSpec

-----------------------------------------------------------------------------
(* Orders: every row that is or will be written is backed by the ledger,   *)
(* the reconciler was told the truth if it was told anything, and every    *)
(* transition under way when the order has ended was so when it ended.     *)

Row == [state : DOMAIN Transitions \cup {"none"}, escrowId : BOOLEAN,
        error : {"none", "reported", "checkout_timeout", "escrow_refunded_on_chain"}]
Backed(row) ==
    /\ row.state \in {"ESCROW_FUNDED", "PURCHASED", "DELIVERING", "DELIVERED", "COMPLETED"}
         => row.escrowId /\ orderEscrow # "none"
    /\ row.state \in {"DELIVERED", "COMPLETED"} => orderEscrow = "released"
    /\ row.error = "escrow_refunded_on_chain" => orderEscrow = "refunded"
EndKnown == Ended(orderRow) => \A c \in Caller : Transitioning(c) => c \in inFlightAtEnd
FindingTrue ==
    /\ finding \in [state : DOMAIN Transitions \cup {"none"}, escrowId : BOOLEAN,
                    status : {"none", "not_found", "funded", "released", "refunded"}]
    /\ finding.status \in {"released", "refunded"} => orderEscrow = finding.status
OrdersInv ==
    /\ orderEscrow \in {"none", "funded", "released", "refunded"}
    /\ orderRow \in Row /\ Backed(orderRow)
    /\ orderCall \in [Caller -> Row]
    /\ \A c \in Caller : Backed(orderCall[c])
    /\ FindingTrue
    /\ EndKnown

LEMMA NoRowBacked == NoRow \in Row /\ Backed(NoRow)
BY DEF NoRow, Row, Backed

(* Which events lead where.                                                *)
LEMMA TransitionTable ==
  ASSUME NEW s \in DOMAIN Transitions, NEW e \in DOMAIN Transitions[s]
  PROVE  /\ Transitions[s][e] \in DOMAIN Transitions
         /\ s \notin {"COMPLETED", "CANCELLED", "FAILED"}
         /\ Transitions[s][e] = "ESCROW_FUNDED" => e = "ESCROW_FUNDED"
         /\ Transitions[s][e] \in {"PURCHASED", "DELIVERING"} =>
                s \in {"ESCROW_FUNDED", "PURCHASED"}
         /\ Transitions[s][e] \in {"DELIVERED", "COMPLETED"} =>
                e = "SETTLE" /\ s \in {"DELIVERING", "DELIVERED"}
BY DEF Transitions

(* What applyEvent makes of a row is as well backed as what the caller     *)
(* knows of the escrow.                                                    *)
LEMMA LoadInv ==
  ASSUME OrdersInv, NEW c \in Caller, NEW event,
         NEW reason \in {"reported", "checkout_timeout", "escrow_refunded_on_chain"},
         LoadOrder(c, event, reason), Known(event) \/ event = "CANCEL",
         reason = "escrow_refunded_on_chain" => orderEscrow = "refunded" \/ event = "SETTLE"
  PROVE  /\ orderCall' \in [Caller -> Row]
         /\ \A d \in Caller : Backed(orderCall'[d])
         /\ ~Ended(orderRow)
<1> DEFINE row == ApplyEvent(orderRow, event, reason)
<1>1. /\ orderRow.state \in DOMAIN Transitions
      /\ event \in DOMAIN Transitions[orderRow.state]
      /\ orderCall' = [orderCall EXCEPT ![c] = row]
      /\ orderRow \in Row /\ Backed(orderRow) /\ orderCall \in [Caller -> Row]
  BY DEF LoadOrder, Accepts, OrdersInv
<1>2. /\ Transitions[orderRow.state][event] \in DOMAIN Transitions
      /\ orderRow.state \notin {"COMPLETED", "CANCELLED", "FAILED"}
      /\ row.state = "ESCROW_FUNDED" => event = "ESCROW_FUNDED"
      /\ row.state \in {"PURCHASED", "DELIVERING"} =>
             orderRow.state \in {"ESCROW_FUNDED", "PURCHASED"}
      /\ row.state \in {"DELIVERED", "COMPLETED"} =>
             event = "SETTLE" /\ orderRow.state \in {"DELIVERING", "DELIVERED"}
  BY <1>1, TransitionTable DEF ApplyEvent
<1>3. row \in Row
  BY <1>1, <1>2 DEF ApplyEvent, Row
<1>4. Backed(row)
  <2>1. row.error = "escrow_refunded_on_chain" => orderEscrow = "refunded"
    BY <1>1 DEF ApplyEvent, Backed
  <2>2. row.escrowId <=> orderRow.escrowId \/ event = "ESCROW_FUNDED"
    BY <1>1 DEF ApplyEvent, Row
  <2>3. row.state \in {"ESCROW_FUNDED", "PURCHASED", "DELIVERING", "DELIVERED", "COMPLETED"}
         => row.escrowId /\ orderEscrow # "none"
    BY <1>1, <1>2, <2>2 DEF Backed, Known
  <2>4. row.state \in {"DELIVERED", "COMPLETED"} => orderEscrow = "released"
    BY <1>2 DEF Known
  <2> QED BY <2>1, <2>3, <2>4 DEF Backed
<1> HIDE DEF row
<1>5. \A d \in Caller : orderCall'[d] = IF d = c THEN row ELSE orderCall[d]
  BY <1>1
<1> QED BY <1>1, <1>2, <1>3, <1>4, <1>5 DEF OrdersInv, Ended

(* A caller writes what it has computed, or gives up.                      *)
LEMMA PersistInv ==
  ASSUME OrdersInv, NEW c \in Caller, PersistOrder(c) \/ DropOrder(c)
  PROVE  /\ orderRow' \in Row /\ Backed(orderRow')
         /\ orderCall' \in [Caller -> Row]
         /\ \A d \in Caller : Backed(orderCall'[d])
         /\ EndKnown'
<1>1. orderCall' = [orderCall EXCEPT ![c] = NoRow] /\ orderRow' \in {orderCall[c], orderRow}
  BY DEF PersistOrder, DropOrder
<1>2. \A d \in Caller : orderCall'[d] = IF d = c THEN NoRow ELSE orderCall[d]
  BY <1>1 DEF OrdersInv
<1>3. /\ orderRow' \in Row /\ Backed(orderRow')
      /\ orderCall' \in [Caller -> Row]
      /\ \A d \in Caller : Backed(orderCall'[d])
  BY <1>1, <1>2, NoRowBacked DEF OrdersInv
<1>4. EndKnown'
  <2>1. CASE PersistOrder(c)
    <3>1. CASE Ended(orderRow)
      BY <1>2, <2>1, <3>1 DEF PersistOrder, OrdersInv, EndKnown, Transitioning, Ended
    <3>2. CASE ~Ended(orderRow)
      BY <1>2, <2>1, <3>2 DEF PersistOrder, EndKnown, Transitioning, Ended
    <3> QED BY <3>1, <3>2
  <2>2. CASE DropOrder(c)
    BY <1>2, <2>2 DEF DropOrder, OrdersInv, EndKnown, Transitioning, Ended
  <2> QED BY <2>1, <2>2
<1> QED BY <1>3, <1>4

(* What a step of the orders leaves as it was, in the terms of OrdersInv.  *)
LEMMA OrdersParts ==
  ASSUME orderEscrow' = orderEscrow, OrdersInv,
         orderRow' \in Row, Backed(orderRow'), orderCall' \in [Caller -> Row],
         \A c \in Caller : Backed(orderCall'[c]), FindingTrue', EndKnown'
  PROVE  OrdersInv'
BY DEF OrdersInv, Backed

(* A transition that is loaded leaves the row alone.                       *)
LEMMA LoadOnlyInv ==
  ASSUME OrdersInv, NEW c \in Caller, NEW event,
         NEW reason \in {"reported", "checkout_timeout", "escrow_refunded_on_chain"},
         LoadOrder(c, event, reason), Known(event) \/ event = "CANCEL",
         reason = "escrow_refunded_on_chain" => orderEscrow = "refunded" \/ event = "SETTLE",
         UNCHANGED <<orderRow, orderEscrow, finding>>
  PROVE  OrdersInv'
<1>1. /\ orderCall' \in [Caller -> Row]
      /\ \A d \in Caller : Backed(orderCall'[d])
      /\ ~Ended(orderRow)
  BY LoadInv
<1>2. EndKnown' /\ FindingTrue' /\ orderRow' \in Row /\ Backed(orderRow')
  BY <1>1 DEF EndKnown, Ended, OrdersInv, FindingTrue
<1> QED BY <1>1, <1>2, OrdersParts

(* The escrow moves on, to where every row that relies on it is content.   *)
LEMMA LedgerInv == ASSUME OrdersInv, LedgerMoves PROVE OrdersInv'
<1>1. \/ orderEscrow = "none" /\ orderEscrow' = "funded"
      \/ orderEscrow = "funded" /\ orderEscrow' \in {"released", "refunded"}
  BY DEF LedgerMoves
<1>2. UNCHANGED <<orderRow, orderCall, finding, inFlightAtEnd>>
  BY DEF LedgerMoves
<1>3. FindingTrue' /\ EndKnown'
  BY <1>1, <1>2 DEF OrdersInv, FindingTrue, EndKnown, Transitioning, Ended
<1>4. orderEscrow' \in {"none", "funded", "released", "refunded"}
  BY <1>1
<1>5. Backed(orderRow)'
  BY <1>1, <1>2 DEF OrdersInv, Backed
<1>6. \A c \in Caller : Backed(orderCall[c])'
  BY <1>1, <1>2 DEF OrdersInv, Backed
<1> QED BY <1>2, <1>3, <1>4, <1>5, <1>6 DEF OrdersInv

LEMMA OrdersNextInv ==
  ASSUME OrdersInv, [OrdersNext]_orderVars
  PROVE  OrdersInv'
<1> USE DEF Caller
<1>1. CASE CreateWorkflow
  <2>1. /\ orderRow' = [NoRow EXCEPT !.state = "INITIATED"]
        /\ UNCHANGED <<orderCall, orderEscrow, finding, inFlightAtEnd>>
    BY <1>1 DEF CreateWorkflow
  <2>2. orderRow' \in Row /\ Backed(orderRow') /\ ~Ended(orderRow)'
    BY <2>1 DEF NoRow, Row, Backed, Ended, Transitions
  <2>3. FindingTrue' /\ EndKnown'
    BY <2>1, <2>2 DEF OrdersInv, FindingTrue, EndKnown
  <2> QED BY <2>1, <2>2, <2>3, OrdersParts DEF OrdersInv
<1>2. CASE UNCHANGED <<orderRow, orderCall, orderEscrow, finding, inFlightAtEnd>>
  BY <1>2 DEF OrdersInv, Backed, FindingTrue, EndKnown, Transitioning, Ended
<1>3. CASE ScheduleTimeout \/ CancelTimeout
  BY <1>2, <1>3 DEF ScheduleTimeout, CancelTimeout
<1>4. CASE TimeoutFires
  <2>1. CASE LoadOrder("timeout", "CANCEL", "checkout_timeout")
    BY <1>4, <2>1, LoadOnlyInv DEF TimeoutFires
  <2>2. CASE UNCHANGED orderCall
    BY <1>2, <1>4, <2>2 DEF TimeoutFires
  <2> QED BY <1>4, <2>1, <2>2 DEF TimeoutFires
<1>5. CASE TimeoutWrites
  <2>1. /\ PersistOrder("timeout") \/ DropOrder("timeout")
        /\ UNCHANGED <<orderEscrow, finding>>
    BY <1>5 DEF TimeoutWrites
  <2>2. FindingTrue'
    BY <2>1 DEF OrdersInv, FindingTrue
  <2> QED BY <2>1, <2>2, PersistInv, OrdersParts
<1>6. CASE ListOrder
  <2>1. /\ finding' = [state |-> orderRow.state, escrowId |-> orderRow.escrowId,
                       status |-> "none"]
        /\ UNCHANGED <<orderRow, orderCall, orderEscrow, inFlightAtEnd>>
    BY <1>6 DEF ListOrder
  <2>2. FindingTrue' /\ EndKnown'
    BY <2>1 DEF OrdersInv, FindingTrue, Row, EndKnown, Transitioning, Ended
  <2> QED BY <2>1, <2>2, OrdersParts DEF OrdersInv
<1>7. CASE FetchStatus
  <2>1. /\ \E status \in {"not_found", orderEscrow} :
               finding' = [finding EXCEPT !.status = status]
        /\ UNCHANGED <<orderRow, orderCall, orderEscrow, inFlightAtEnd>>
    BY <1>7 DEF FetchStatus
  <2>2. FindingTrue' /\ EndKnown'
    BY <2>1 DEF OrdersInv, FindingTrue, EndKnown, Transitioning, Ended
  <2> QED BY <2>1, <2>2, OrdersParts DEF OrdersInv
<1>8. CASE Remediate
  <2>1. UNCHANGED <<orderRow, orderEscrow, inFlightAtEnd>>
    BY <1>8 DEF Remediate
  <2>2. CASE UNCHANGED orderCall /\ finding' = NoFinding
    <3>1. FindingTrue' /\ EndKnown'
      BY <2>1, <2>2 DEF NoFinding, OrdersInv, FindingTrue, EndKnown, Transitioning, Ended
    <3> QED BY <2>1, <2>2, <3>1, OrdersParts DEF OrdersInv
  <2>3. CASE /\ Recommends # "noop" /\ UNCHANGED finding
             /\ LoadOrder("reconciler", Remedy[Recommends], "escrow_refunded_on_chain")
    <3>1. \/ Remedy[Recommends] = "SETTLE" /\ orderEscrow = "released"
          \/ Remedy[Recommends] = "CANCEL" /\ orderEscrow = "refunded"
      BY <2>3 DEF Recommends, Remedy, OrdersInv, FindingTrue
    <3>2. Known(Remedy[Recommends])
      BY <3>1 DEF Known
    <3> QED BY <2>1, <2>3, <3>1, <3>2, LoadOnlyInv
  <2> QED BY <1>8, <2>2, <2>3 DEF Remediate
<1>9. CASE RemediationWrites
  <2>1. /\ PersistOrder("reconciler") \/ DropOrder("reconciler")
        /\ UNCHANGED orderEscrow /\ finding' = NoFinding
    BY <1>9 DEF RemediationWrites
  <2>2. FindingTrue'
    BY <2>1 DEF FindingTrue, NoFinding
  <2> QED BY <2>1, <2>2, PersistInv, OrdersParts
<1>10. CASE LedgerMoves
  BY <1>10, LedgerInv
<1>11. ASSUME NEW c \in OrderService, ServiceWrites(c) PROVE OrdersInv'
  <2>1. /\ PersistOrder(c) \/ DropOrder(c)
        /\ UNCHANGED <<orderEscrow, finding>>
    BY <1>11 DEF ServiceWrites
  <2>2. FindingTrue'
    BY <2>1 DEF OrdersInv, FindingTrue
  <2> QED BY <2>1, <2>2, PersistInv, OrdersParts
<1>12. ASSUME NEW c \in OrderService, NEW e \in EventType, ServiceAsks(c, e)
       PROVE  OrdersInv'
  BY <1>12, LoadOnlyInv DEF ServiceAsks
<1>13. CASE UNCHANGED orderVars
  BY <1>2, <1>13 DEF orderVars
<1> QED BY <1>1, <1>3, <1>4, <1>5, <1>6, <1>7, <1>8, <1>9, <1>10, <1>11, <1>12, <1>13
        DEF OrdersNext

LEMMA OrdersInitInv == OrdersInit => OrdersInv
<1> SUFFICES ASSUME OrdersInit PROVE OrdersInv
  OBVIOUS
<1>1. /\ orderRow = NoRow /\ orderEscrow = "none" /\ finding = NoFinding
      /\ orderCall = [c \in Caller |-> NoRow]
  BY DEF OrdersInit
<1>2. FindingTrue /\ EndKnown
  BY <1>1 DEF FindingTrue, NoFinding, EndKnown, Ended, NoRow
<1> QED BY <1>1, <1>2, NoRowBacked DEF OrdersInv

(* The step that EndedUnlessOverlapped is about.                           *)
EndedStep ==
    Ended(orderRow) /\ orderRow' # orderRow =>
        \E c \in inFlightAtEnd : orderRow' = orderCall[c]

LEMMA PersistEnded ==
  ASSUME OrdersInv, NEW c \in Caller, PersistOrder(c) \/ DropOrder(c)
  PROVE  EndedStep
BY DEF OrdersInv, EndKnown, PersistOrder, DropOrder, EndedStep

LEMMA OrdersNextEnded ==
  ASSUME OrdersInv, [OrdersNext]_orderVars
  PROVE  [EndedStep]_orderVars
<1>1. CASE UNCHANGED orderRow
  BY <1>1 DEF EndedStep
<1>2. CASE CreateWorkflow
  BY <1>2 DEF CreateWorkflow, NoRow, EndedStep, Ended
<1>3. CASE \E c \in Caller : PersistOrder(c) \/ DropOrder(c)
  BY <1>3, PersistEnded
<1> QED BY <1>1, <1>2, <1>3
        DEF OrdersNext, orderVars, Caller, ScheduleTimeout, CancelTimeout, TimeoutFires,
            TimeoutWrites, ListOrder, FetchStatus, Remediate, RemediationWrites,
            LedgerMoves, ServiceWrites, ServiceAsks

-----------------------------------------------------------------------------
(* The purchase machine: what it hands to the hook are transitions of its  *)
(* table, one after the other.                                             *)

MachineEvent == UNION {DOMAIN MachineTransitions[s] : s \in MachineStates}
MachineRecord == [from : MachineStates, to : MachineStates, event : MachineEvent]
MachineInv ==
    /\ machineState \in MachineStates \cup {"gone"}
    /\ handed \in Seq(MachineRecord)
    /\ RecordsFormAPath

LEMMA MachineTable ==
  ASSUME NEW s \in MachineStates, NEW e \in DOMAIN MachineTransitions[s]
  PROVE  MachineTransitions[s][e] \in MachineStates
BY DEF MachineStates, MachineTransitions

LEMMA GoneIsNoState == "gone" \notin MachineStates
BY DEF MachineStates, MachineTransitions

LEMMA MachineInitInv == MachineInit => MachineInv
BY DEF MachineInit, MachineInv, RecordsFormAPath, MachineStates, MachineTransitions

LEMMA SendInv == ASSUME MachineInv, NEW event, Send(event) PROVE MachineInv'
<1> DEFINE to == MachineTransitions[machineState][event]
           sent == [from |-> machineState, to |-> to, event |-> event]
<1>1. /\ machineState \in MachineStates /\ machineState' = to
      /\ event \in DOMAIN MachineTransitions[machineState]
      /\ handed' = Append(handed, sent) /\ UNCHANGED bornIn
  BY DEF Send
<1>2. to \in MachineStates /\ sent \in MachineRecord
  BY <1>1, MachineTable DEF MachineRecord, MachineEvent
<1>3. /\ handed' \in Seq(MachineRecord) /\ handed \in Seq(MachineRecord)
      /\ Len(handed') = Len(handed) + 1 /\ Len(handed) \in Nat
      /\ handed'[Len(handed')] = sent
      /\ \A i \in 1..Len(handed) : handed'[i] = handed[i]
  BY <1>1, <1>2 DEF MachineInv
<1> DEFINE At(i) == IF i = 0 THEN bornIn ELSE handed[i].to
<1>4. /\ \A i \in 1..Len(handed) : handed[i].from = At(i - 1)
      /\ machineState = At(Len(handed))
  BY <1>1, GoneIsNoState DEF MachineInv, RecordsFormAPath
<1>5. \A i \in 0..Len(handed) : At(i)' = At(i)
  BY <1>1, <1>3
<1>6. \A i \in 1..Len(handed') : handed'[i].from = At(i - 1)'
  <2> SUFFICES ASSUME NEW i \in 1..Len(handed') PROVE handed'[i].from = At(i - 1)'
    OBVIOUS
  <2>1. At(i - 1)' = At(i - 1)
    BY <1>3, <1>5
  <2>2. CASE i \in 1..Len(handed)
    BY <1>3, <1>4, <2>1, <2>2
  <2>3. CASE i = Len(handed) + 1
    <3>1. handed'[i].from = machineState /\ i - 1 = Len(handed)
      BY <1>3, <2>3
    <3> QED BY <1>4, <2>1, <3>1
  <2> QED BY <1>3, <2>2, <2>3
<1>7. RecordsFormAPath'
  BY <1>1, <1>3, <1>6 DEF RecordsFormAPath
<1> QED BY <1>1, <1>2, <1>3, <1>7 DEF MachineInv

LEMMA MachineNextInv ==
  ASSUME MachineInv, [MachineNext]_machineVars
  PROVE  MachineInv'
<1>1. CASE UNCHANGED <<machineState, handed, bornIn>>
  BY <1>1 DEF MachineInv, RecordsFormAPath
<1>2. CASE \E i \in inHook : HookFinishes(i)
  BY <1>1, <1>2 DEF HookFinishes
<1>3. CASE MachineCrash
  BY <1>3 DEF MachineCrash, MachineInv, RecordsFormAPath
<1>4. CASE RestoreMachine
  BY <1>4 DEF RestoreMachine, MachineInv, RecordsFormAPath
<1>5. CASE SnapshotDamaged
  BY <1>1, <1>5 DEF SnapshotDamaged
<1>6. CASE UNCHANGED machineVars
  BY <1>1, <1>6 DEF machineVars
<1> QED BY <1>2, <1>3, <1>4, <1>5, <1>6, SendInv DEF MachineNext

-----------------------------------------------------------------------------
(* Orders claim nothing the ledger does not hold, however transitions,     *)
(* timeouts and remedies of the reconciler overlap, and the records of a   *)
(* purchase machine form a path, however its sends overlap.                *)
THEOREM OrdersAlwaysHold == BackendSpec => []OrdersHold
<1> DEFINE Inv == OrdersInv /\ MachineInv
<1>1. BackendInit => Inv
  BY OrdersInitInv, MachineInitInv DEF BackendInit
<1>2. Inv /\ [BackendNext]_backendVars => Inv'
  BY ComponentStep, OrdersNextInv, MachineNextInv
<1>3. Inv => OrdersHold
  BY DEF OrdersInv, Backed, MachineInv, OrdersHold, LedgerBacksOrder
<1> QED BY <1>1, <1>2, <1>3, PTL DEF BackendSpec

(* An order that ended is only changed by a transition that had loaded it  *)
(* before it ended, whoever made that transition and however late.         *)
THEOREM EndedOrdersStay == BackendSpec => EndedUnlessOverlapped
<1>1. BackendInit => OrdersInv
  BY OrdersInitInv DEF BackendInit
<1>2. OrdersInv /\ [BackendNext]_backendVars => OrdersInv'
  BY ComponentStep, OrdersNextInv
<1>3. OrdersInv /\ [BackendNext]_backendVars => [EndedStep]_orderVars
  BY ComponentStep, OrdersNextEnded
<1> QED BY <1>1, <1>2, <1>3, PTL DEF BackendSpec, EndedUnlessOverlapped, EndedStep

-----------------------------------------------------------------------------
(* Sessions: a family begins with the token of its first request, so none  *)
(* of its tokens is there before that one; a request past the lookup has   *)
(* presented a token that is there.                                        *)

TokenRow == [familyId : AuthRequest, revoked : BOOLEAN]
HasRow(t) == tokenRows[t] # NoToken
SessionsTyped ==
    /\ tokenRows \in [AuthRequest -> TokenRow \cup {NoToken}]
    /\ authPc \in [AuthRequest -> {"new", "registering", "beginning", "using", "reused",
                                   "renewing", "answered", "refused", "caught", "left"}]
    /\ presented \in [AuthRequest -> AuthRequest \cup {NoToken}]
TokensMade ==
    /\ \A r \in AuthRequest : authPc[r] = "answered" <=> HasRow(r)
    /\ \A r \in AuthRequest : HasRow(r) => HasRow(FamilyOf(r))
    /\ \A r \in AuthRequest : authPc[r] \in {"using", "reused", "renewing"} =>
           presented[r] \in AuthRequest /\ HasRow(presented[r])
    /\ \A family \in revokedFamilies : family \in AuthRequest /\ HasRow(family)
SessionsInv == SessionsTyped /\ TokensMade /\ SessionNeverForks /\ FamilyClosed

LEMMA TokenRowNotNoToken == NoToken \notin TokenRow /\ NoToken \notin AuthRequest
BY SessionsConstants DEF TokenRow

LEMMA SessionsInitInv == SessionsInit => SessionsInv
<1> SUFFICES ASSUME SessionsInit PROVE SessionsInv
  OBVIOUS
<1>1. /\ tokenRows = [t \in AuthRequest |-> NoToken]
      /\ authPc = [r \in AuthRequest |-> "new"]
      /\ presented = [r \in AuthRequest |-> NoToken]
      /\ revokedFamilies = {}
  BY DEF SessionsInit
<1>2. SessionsTyped /\ TokensMade
  BY <1>1 DEF SessionsTyped, TokensMade, HasRow
<1>3. \A r, family \in AuthRequest : ~Continues(r, family)
  BY <1>1 DEF Continues, Live, Renewing
<1> QED BY <1>1, <1>2, <1>3 DEF SessionsInv, SessionNeverForks, FamilyClosed

(* What keeps a session from forking, and a closed family closed, is that  *)
(* a step lets at most one request continue a family, one that was free to *)
(* begin or in the place of another that continued it.                     *)
LEMMA ContinuesInv ==
  ASSUME SessionsInv, NEW r \in AuthRequest, NEW f \in AuthRequest,
         \A s, g \in AuthRequest : Continues(s, g)' =>
             \/ Continues(s, g) /\ ~(g = f /\ s # r)
             \/ s = r /\ g = f,
         \A g \in revokedFamilies' \ raced' : g \in revokedFamilies \ raced,
         f \notin revokedFamilies \ raced
  PROVE  SessionNeverForks' /\ FamilyClosed'
<1>1. SessionNeverForks'
  <2> SUFFICES ASSUME NEW g \in AuthRequest, NEW s \in AuthRequest, NEW t \in AuthRequest,
                      Continues(s, g)', Continues(t, g)'
               PROVE  s = t
    BY Zenon DEF SessionNeverForks, Continues, Live, FamilyOf, Renewing
  <2>1. CASE g = f
    BY <2>1, Zenon
  <2>2. CASE g # f
    BY <2>2, Zenon DEF SessionsInv, SessionNeverForks
  <2> QED BY <2>1, <2>2
<1>2. FamilyClosed'
  <2> SUFFICES ASSUME NEW s \in AuthRequest, NEW g \in revokedFamilies' \ raced',
                      Continues(s, g)'
               PROVE  FALSE
    BY Zenon DEF FamilyClosed, Continues, Live, FamilyOf, Renewing
  <2>1. g \in revokedFamilies \ raced /\ g \in AuthRequest
    BY Zenon DEF SessionsInv, TokensMade
  <2> QED BY <2>1, Zenon DEF SessionsInv, FamilyClosed
<1> QED BY <1>1, <1>2

LEMMA FewerContinue ==
  ASSUME SessionsInv,
         \A s, g \in AuthRequest : Continues(s, g)' => Continues(s, g),
         \A g \in revokedFamilies' \ raced' :
             g \in AuthRequest /\ (g \in revokedFamilies \ raced
                                   \/ \A s \in AuthRequest : ~Continues(s, g)')
  PROVE  SessionNeverForks' /\ FamilyClosed'
<1>1. SessionNeverForks'
  <2> SUFFICES ASSUME NEW g \in AuthRequest, NEW s \in AuthRequest, NEW t \in AuthRequest,
                      Continues(s, g)', Continues(t, g)'
               PROVE  s = t
    BY Zenon DEF SessionNeverForks, Continues, Live, FamilyOf, Renewing
  <2> QED BY Zenon DEF SessionsInv, SessionNeverForks
<1>2. FamilyClosed'
  <2> SUFFICES ASSUME NEW s \in AuthRequest, NEW g \in revokedFamilies' \ raced',
                      Continues(s, g)'
               PROVE  FALSE
    BY Zenon DEF FamilyClosed, Continues, Live, FamilyOf, Renewing
  <2> QED BY Zenon DEF SessionsInv, FamilyClosed
<1> QED BY <1>1, <1>2

(* A request moves on, and no token changes.                               *)
LEMMA MoveInv ==
  ASSUME SessionsInv, NEW r \in AuthRequest,
         NEW place \in {"registering", "beginning", "using", "reused", "refused", "left"},
         AuthGoto(r, place), authPc[r] # "answered",
         UNCHANGED <<tokenRows, revokedFamilies, raced>>,
         \/ place \in {"using", "reused"} /\ \E t \in AuthRequest :
                HasRow(t) /\ presented' = [presented EXCEPT ![r] = t]
         \/ place \notin {"using", "reused"} /\ \E t \in AuthRequest \cup {NoToken} :
                presented' = [presented EXCEPT ![r] = t]
         \/ place \notin {"using", "reused"} /\ UNCHANGED presented
  PROVE  SessionsInv'
<1>1. \A s \in AuthRequest : s # r => authPc'[s] = authPc[s] /\ presented'[s] = presented[s]
  BY DEF SessionsInv, SessionsTyped, AuthGoto
<1>2. authPc'[r] = place /\ (place \in {"using", "reused"} =>
                                 presented'[r] \in AuthRequest /\ HasRow(presented'[r]))
  BY DEF SessionsInv, SessionsTyped, AuthGoto
<1>3. SessionsTyped'
  BY DEF SessionsInv, SessionsTyped, AuthGoto
<1>4. TokensMade'
  <2>1. \A t : HasRow(t)' <=> HasRow(t)
    BY DEF HasRow
  <2>2. ~HasRow(r)
    BY DEF SessionsInv, TokensMade
  <2>3. \A s \in AuthRequest : authPc'[s] = "answered" <=> HasRow(s)
    BY <1>1, <1>2, <2>2 DEF SessionsInv, TokensMade
  <2>4. \A s \in AuthRequest : HasRow(s) => HasRow(FamilyOf(s))
    BY DEF SessionsInv, TokensMade
  <2>5. \A s \in AuthRequest : authPc'[s] \in {"using", "reused", "renewing"} =>
            presented'[s] \in AuthRequest /\ HasRow(presented'[s])
    BY <1>1, <1>2 DEF SessionsInv, TokensMade
  <2>6. \A family \in revokedFamilies' : family \in AuthRequest /\ HasRow(family)
    BY DEF SessionsInv, TokensMade
  <2> QED BY <2>3, <2>4, <2>5, <2>6 DEF TokensMade, HasRow, FamilyOf
<1>5. \A s, g \in AuthRequest : Continues(s, g)' => Continues(s, g)
  BY <1>1, <1>2 DEF Continues, Live, FamilyOf, Renewing
<1>6. SessionNeverForks' /\ FamilyClosed'
  BY <1>5, FewerContinue DEF SessionsInv, TokensMade
<1> QED BY <1>3, <1>4, <1>6 DEF SessionsInv

LEMMA BeginInv == ASSUME SessionsInv, NEW r \in AuthRequest, BeginFamily(r) PROVE SessionsInv'
<1> DEFINE row == [familyId |-> r, revoked |-> FALSE]
<1>1. /\ tokenRows' = [tokenRows EXCEPT ![r] = row] /\ row \in TokenRow
      /\ authPc' = [authPc EXCEPT ![r] = "answered"] /\ authPc[r] = "beginning"
      /\ UNCHANGED <<presented, revokedFamilies, raced>>
  BY DEF BeginFamily, AuthGoto, TokenRow
<1>2. row.familyId = r /\ row # NoToken
  BY <1>1, TokenRowNotNoToken
<1> HIDE DEF row
<1>3. /\ ~HasRow(r) /\ tokenRows'[r] = row /\ authPc'[r] = "answered"
      /\ \A s \in AuthRequest : s # r => tokenRows'[s] = tokenRows[s] /\ authPc'[s] = authPc[s]
  BY <1>1 DEF SessionsInv, SessionsTyped, TokensMade
<1>4. \A t \in AuthRequest : /\ HasRow(t)' <=> HasRow(t) \/ t = r
                             /\ HasRow(t) => FamilyOf(t)' = FamilyOf(t)
                             /\ HasRow(t) => FamilyOf(t) \in AuthRequest
  BY <1>2, <1>3 DEF HasRow, FamilyOf, SessionsInv, SessionsTyped, TokenRow
<1>5. SessionsTyped'
  BY <1>1 DEF SessionsInv, SessionsTyped
<1>6. TokensMade'
  <2>1. FamilyOf(r)' = r
    BY <1>2, <1>3 DEF FamilyOf
  <2>2. \A s \in AuthRequest : HasRow(s)' => HasRow(FamilyOf(s))'
    BY <1>4, <2>1 DEF SessionsInv, TokensMade, HasRow, FamilyOf
  <2>3. \A s \in AuthRequest : authPc'[s] = "answered" <=> HasRow(s)'
    BY <1>3, <1>4 DEF SessionsInv, TokensMade
  <2>4. \A s \in AuthRequest : authPc'[s] \in {"using", "reused", "renewing"} =>
            presented'[s] \in AuthRequest /\ HasRow(presented[s])'
    BY <1>1, <1>3, <1>4 DEF SessionsInv, TokensMade
  <2>5. \A family \in revokedFamilies' : family \in AuthRequest /\ HasRow(family)'
    BY <1>1, <1>4 DEF SessionsInv, TokensMade
  <2> QED BY <1>1, <2>2, <2>3, <2>4, <2>5 DEF TokensMade, HasRow, FamilyOf
<1>7. \A s, g \in AuthRequest : Continues(s, g)' =>
          \/ Continues(s, g) /\ ~(g = r /\ s # r)
          \/ s = r /\ g = r
  <2> SUFFICES ASSUME NEW s \in AuthRequest, NEW g \in AuthRequest, Continues(s, g)'
               PROVE  \/ Continues(s, g) /\ ~(g = r /\ s # r)
                      \/ s = r /\ g = r
    OBVIOUS
  <2>1. CASE s = r
    BY <1>2, <1>3, <2>1 DEF Continues, Live, FamilyOf, Renewing
  <2>2. CASE s # r
    <3>1. Continues(s, g)
      BY <1>1, <1>3, <1>4, <2>2 DEF Continues, Live, FamilyOf, Renewing, SessionsInv, TokensMade
    <3>2. HasRow(g)
      BY <3>1 DEF Continues, Live, HasRow, Renewing, SessionsInv, TokensMade
    <3> QED BY <1>3, <3>1, <3>2
  <2> QED BY <2>1, <2>2
<1>8. r \notin revokedFamilies
  BY <1>3 DEF SessionsInv, TokensMade
<1>9. SessionNeverForks' /\ FamilyClosed'
  BY <1>1, <1>7, <1>8, ContinuesInv
<1> QED BY <1>5, <1>6, <1>9 DEF SessionsInv

LEMMA RenewInv == ASSUME SessionsInv, NEW r \in AuthRequest, RenewToken(r) PROVE SessionsInv'
<1> DEFINE f == FamilyOf(presented[r])
           row == [familyId |-> f, revoked |-> FALSE]
<1>1. /\ tokenRows' = [tokenRows EXCEPT ![r] = row]
      /\ authPc' = [authPc EXCEPT ![r] = "answered"] /\ authPc[r] = "renewing"
      /\ UNCHANGED <<presented, revokedFamilies, raced>>
  BY DEF RenewToken, AuthGoto, Renewing
<1>2. presented[r] \in AuthRequest /\ HasRow(presented[r]) /\ ~HasRow(r)
  BY <1>1 DEF SessionsInv, TokensMade
<1>3. f \in AuthRequest /\ HasRow(f) /\ row \in TokenRow
  BY <1>2 DEF SessionsInv, SessionsTyped, TokensMade, HasRow, FamilyOf, TokenRow
<1>4. row.familyId = f /\ row # NoToken
  BY <1>3, TokenRowNotNoToken
<1>5. Continues(r, f)
  BY <1>1 DEF Continues, Renewing
<1> HIDE DEF row, f
<1>6. /\ tokenRows'[r] = row /\ authPc'[r] = "answered"
      /\ \A s \in AuthRequest : s # r => tokenRows'[s] = tokenRows[s] /\ authPc'[s] = authPc[s]
  BY <1>1 DEF SessionsInv, SessionsTyped
<1>7. \A t \in AuthRequest : /\ HasRow(t)' <=> HasRow(t) \/ t = r
                             /\ HasRow(t) => FamilyOf(t)' = FamilyOf(t)
                             /\ HasRow(t) => FamilyOf(t) \in AuthRequest
  BY <1>2, <1>4, <1>6 DEF HasRow, FamilyOf, SessionsInv, SessionsTyped, TokenRow
<1>8. SessionsTyped'
  BY <1>1, <1>3 DEF SessionsInv, SessionsTyped
<1>9. TokensMade'
  <2>1. FamilyOf(r)' = f
    BY <1>4, <1>6 DEF FamilyOf
  <2>2. \A s \in AuthRequest : HasRow(s)' => HasRow(FamilyOf(s))'
    BY <1>3, <1>7, <2>1 DEF SessionsInv, TokensMade, HasRow, FamilyOf
  <2>3. \A s \in AuthRequest : authPc'[s] = "answered" <=> HasRow(s)'
    BY <1>6, <1>7 DEF SessionsInv, TokensMade
  <2>4. \A s \in AuthRequest : authPc'[s] \in {"using", "reused", "renewing"} =>
            presented'[s] \in AuthRequest /\ HasRow(presented[s])'
    BY <1>1, <1>6, <1>7 DEF SessionsInv, TokensMade
  <2>5. \A family \in revokedFamilies' : family \in AuthRequest /\ HasRow(family)'
    BY <1>1, <1>7 DEF SessionsInv, TokensMade
  <2> QED BY <1>1, <2>2, <2>3, <2>4, <2>5 DEF TokensMade, HasRow, FamilyOf
<1>10. \A s, g \in AuthRequest : Continues(s, g)' =>
          \/ Continues(s, g) /\ ~(g = f /\ s # r)
          \/ s = r /\ g = f
  <2> SUFFICES ASSUME NEW s \in AuthRequest, NEW g \in AuthRequest, Continues(s, g)'
               PROVE  \/ Continues(s, g) /\ ~(g = f /\ s # r)
                      \/ s = r /\ g = f
    OBVIOUS
  <2>1. CASE s = r
    BY <1>4, <1>6, <2>1 DEF Continues, Live, FamilyOf, Renewing
  <2>2. CASE s # r
    <3>1. Continues(s, g)
      BY <1>1, <1>6, <1>7, <2>2 DEF Continues, Live, FamilyOf, Renewing, SessionsInv, TokensMade
    <3>2. g = f => s = r
      BY <1>3, <1>5, <3>1 DEF SessionsInv, SessionNeverForks
    <3> QED BY <2>2, <3>1, <3>2
  <2> QED BY <2>1, <2>2
<1>11. f \notin revokedFamilies \ raced
  BY <1>5 DEF SessionsInv, FamilyClosed
<1>12. SessionNeverForks' /\ FamilyClosed'
  BY <1>1, <1>3, <1>10, <1>11, ContinuesInv
<1> QED BY <1>8, <1>9, <1>12 DEF SessionsInv

(* The one refresh that uses a live token takes its place in the family.   *)
LEMMA UseInv == ASSUME SessionsInv, NEW r \in AuthRequest, UseToken(r) PROVE SessionsInv'
<1> DEFINE t == presented[r]
           f == FamilyOf(t)
           place == IF tokenRows[t].revoked THEN "reused" ELSE "renewing"
<1>1. /\ tokenRows' = [tokenRows EXCEPT ![t].revoked = TRUE]
      /\ authPc' = [authPc EXCEPT ![r] = place] /\ authPc[r] = "using"
      /\ UNCHANGED <<presented, revokedFamilies, raced>>
  BY DEF UseToken, AuthGoto
<1>2. t \in AuthRequest /\ HasRow(t) /\ ~HasRow(r)
  BY <1>1 DEF SessionsInv, TokensMade
<1>3. tokenRows[t] \in TokenRow /\ f \in AuthRequest
  BY <1>2 DEF SessionsInv, SessionsTyped, HasRow, FamilyOf, TokenRow
<1>4. /\ tokenRows'[t] = [tokenRows[t] EXCEPT !.revoked = TRUE]
      /\ \A s \in AuthRequest : s # t => tokenRows'[s] = tokenRows[s]
      /\ authPc'[r] = place
      /\ \A s \in AuthRequest : s # r => authPc'[s] = authPc[s]
  BY <1>1, <1>2 DEF SessionsInv, SessionsTyped
<1>5. /\ tokenRows'[t] \in TokenRow /\ tokenRows'[t] # NoToken
      /\ tokenRows'[t].familyId = f /\ tokenRows'[t].revoked
  BY <1>3, <1>4, TokenRowNotNoToken DEF TokenRow, FamilyOf
<1> HIDE DEF t, f
<1>6. \A s \in AuthRequest : (HasRow(s)' <=> HasRow(s)) /\ FamilyOf(s)' = FamilyOf(s)
  BY <1>2, <1>4, <1>5 DEF HasRow, FamilyOf, f
<1>7. SessionsTyped'
  BY <1>1, <1>4, <1>5 DEF SessionsInv, SessionsTyped
<1>8. TokensMade'
  <2>1. \A s \in AuthRequest : HasRow(s) => FamilyOf(s) \in AuthRequest
    BY DEF SessionsInv, SessionsTyped, HasRow, FamilyOf, TokenRow
  <2>2. \A s \in AuthRequest : HasRow(s)' => HasRow(FamilyOf(s))'
    BY <1>6, <2>1 DEF SessionsInv, TokensMade, HasRow, FamilyOf
  <2>3. \A s \in AuthRequest : authPc'[s] = "answered" <=> HasRow(s)'
    BY <1>2, <1>4, <1>6 DEF SessionsInv, TokensMade
  <2>4. \A s \in AuthRequest : authPc'[s] \in {"using", "reused", "renewing"} =>
            presented'[s] \in AuthRequest /\ HasRow(presented[s])'
    BY <1>1, <1>4, <1>6 DEF SessionsInv, TokensMade
  <2>5. \A family \in revokedFamilies' : family \in AuthRequest /\ HasRow(family)'
    BY <1>1, <1>6 DEF SessionsInv, TokensMade
  <2> QED BY <1>1, <2>2, <2>3, <2>4, <2>5 DEF TokensMade, HasRow, FamilyOf
<1>9. \A s, g \in AuthRequest : Continues(s, g)' /\ s # r => Continues(s, g) /\ s # t
  <2> SUFFICES ASSUME NEW s \in AuthRequest, NEW g \in AuthRequest, Continues(s, g)', s # r
               PROVE  Continues(s, g) /\ s # t
    OBVIOUS
  <2>1. CASE Live(s)' /\ FamilyOf(s)' = g
    BY <1>4, <1>5, <2>1 DEF Continues, Live, FamilyOf
  <2>2. CASE Renewing(s)' /\ FamilyOf(presented[s])' = g
    <3>1. Renewing(s)
      BY <1>4, <2>2 DEF Renewing
    <3>2. s # t /\ presented[s] \in AuthRequest
      BY <1>2, <3>1 DEF Renewing, SessionsInv, TokensMade
    <3>3. FamilyOf(presented[s]) = g
      BY <1>1, <1>6, <2>2, <3>2 DEF FamilyOf
    <3> QED BY <3>1, <3>2, <3>3 DEF Continues
  <2> QED BY <1>1, <2>1, <2>2 DEF Continues, FamilyOf, Live, Renewing
<1>10. \A g \in AuthRequest : Continues(r, g)' =>
          g = f /\ ~tokenRows[t].revoked
  BY <1>1, <1>2, <1>4, <1>5, <1>6 DEF Continues, Live, HasRow, FamilyOf, Renewing, f, t
<1>11. CASE tokenRows[t].revoked
  <2>1. \A s, g \in AuthRequest : Continues(s, g)' => Continues(s, g)
    BY <1>9, <1>10, <1>11
  <2>2. SessionNeverForks' /\ FamilyClosed'
    BY <1>1, <2>1, FewerContinue DEF SessionsInv, TokensMade
  <2> QED BY <1>7, <1>8, <2>2 DEF SessionsInv
<1>12. CASE ~tokenRows[t].revoked
  <2>1. Continues(t, f)
    BY <1>2, <1>12 DEF Continues, Live, HasRow, f
  <2>2. \A s \in AuthRequest : Continues(s, f) => s = t
    BY <1>2, <1>3, <2>1 DEF SessionsInv, SessionNeverForks, f
  <2>3. \A s, g \in AuthRequest : Continues(s, g)' =>
            \/ Continues(s, g) /\ ~(g = f /\ s # r)
            \/ s = r /\ g = f
    BY <1>9, <1>10, <2>2
  <2>4. f \notin revokedFamilies \ raced
    BY <1>2, <2>1 DEF SessionsInv, FamilyClosed
  <2>5. SessionNeverForks' /\ FamilyClosed'
    BY <1>1, <1>3, <2>3, <2>4, ContinuesInv DEF f
  <2> QED BY <1>7, <1>8, <2>5 DEF SessionsInv
<1> QED BY <1>11, <1>12

(* A family is revoked: the tokens that are there die, and a refresh that  *)
(* has yet to make one is noticed.                                         *)
LEMMA RevokeInv ==
  ASSUME SessionsInv, NEW r \in AuthRequest, NEW t \in AuthRequest, HasRow(t),
         RevokeTokenFamily(FamilyOf(t)), authPc[r] \in {"new", "reused"},
         NEW place \in {"caught", "left"}, AuthGoto(r, place),
         \E u \in AuthRequest \cup {NoToken} : presented' = [presented EXCEPT ![r] = u]
  PROVE  SessionsInv'
<1> DEFINE f == FamilyOf(t)
<1>1. tokenRows' = [s \in AuthRequest |->
                        IF HasRow(s) /\ FamilyOf(s) = f
                        THEN [tokenRows[s] EXCEPT !.revoked = TRUE] ELSE tokenRows[s]]
  BY DEF RevokeTokenFamily, HasRow
<1>2. /\ revokedFamilies' = revokedFamilies \cup {f} /\ raced \subseteq raced'
      /\ (\E s \in AuthRequest : Renewing(s) /\ FamilyOf(presented[s]) = f) => f \in raced'
  BY DEF RevokeTokenFamily
<1>3. f \in AuthRequest /\ HasRow(f)
  BY DEF SessionsInv, SessionsTyped, TokensMade, HasRow, FamilyOf, TokenRow
<1>4. \A s \in AuthRequest : HasRow(s) =>
          /\ tokenRows'[s] \in TokenRow /\ tokenRows'[s] # NoToken
          /\ tokenRows'[s].familyId = FamilyOf(s)
          /\ ~tokenRows'[s].revoked => ~tokenRows[s].revoked /\ FamilyOf(s) # f
  BY <1>1, TokenRowNotNoToken DEF SessionsInv, SessionsTyped, HasRow, FamilyOf, TokenRow
<1>5. \A s \in AuthRequest : ~HasRow(s) => tokenRows'[s] = NoToken
  BY <1>1 DEF HasRow
<1> HIDE DEF f
<1>6. \A s \in AuthRequest : /\ HasRow(s)' <=> HasRow(s)
                             /\ HasRow(s) => FamilyOf(s)' = FamilyOf(s)
                             /\ HasRow(s) => FamilyOf(s) \in AuthRequest
  BY <1>4, <1>5 DEF HasRow, FamilyOf, SessionsInv, SessionsTyped, TokenRow
<1>7. /\ authPc'[r] = place
      /\ \A s \in AuthRequest : s # r => authPc'[s] = authPc[s]
      /\ authPc' \in [AuthRequest -> {"new", "registering", "beginning", "using", "reused",
                                      "renewing", "answered", "refused", "caught", "left"}]
      /\ \A s \in AuthRequest : s # r => presented'[s] = presented[s]
      /\ presented' \in [AuthRequest -> AuthRequest \cup {NoToken}]
  BY DEF SessionsInv, SessionsTyped, AuthGoto
<1>8. SessionsTyped'
  <2>1. tokenRows' \in [AuthRequest -> TokenRow \cup {NoToken}]
    <3>1. \A s \in AuthRequest : tokenRows'[s] \in TokenRow \cup {NoToken}
      BY <1>4, <1>5
    <3> QED BY <1>1, <3>1
  <2> QED BY <1>7, <2>1 DEF SessionsInv, SessionsTyped
<1>9. TokensMade'
  <2>1. \A s \in AuthRequest : HasRow(s)' => HasRow(FamilyOf(s))'
    BY <1>6 DEF SessionsInv, TokensMade, HasRow, FamilyOf
  <2>2. \A s \in AuthRequest : authPc'[s] = "answered" <=> HasRow(s)'
    BY <1>6, <1>7 DEF SessionsInv, TokensMade
  <2>3. \A s \in AuthRequest : authPc'[s] \in {"using", "reused", "renewing"} =>
            presented'[s] \in AuthRequest /\ HasRow(presented[s])'
    BY <1>6, <1>7 DEF SessionsInv, TokensMade
  <2>4. \A family \in revokedFamilies' : family \in AuthRequest /\ HasRow(family)'
    BY <1>2, <1>3, <1>6 DEF SessionsInv, TokensMade
  <2> QED BY <2>1, <2>2, <2>3, <2>4 DEF TokensMade, HasRow, FamilyOf
<1>10. \A s, g \in AuthRequest : Continues(s, g)' => Continues(s, g) /\ (g = f => g \in raced')
  <2> SUFFICES ASSUME NEW s \in AuthRequest, NEW g \in AuthRequest, Continues(s, g)'
               PROVE  Continues(s, g) /\ (g = f => g \in raced')
    OBVIOUS
  <2>1. CASE Live(s)' /\ FamilyOf(s)' = g
    <3>1. HasRow(s)
      BY <1>6, <2>1 DEF Live, HasRow
    <3>2. Live(s) /\ FamilyOf(s) = g /\ g # f
      BY <1>4, <1>6, <2>1, <3>1 DEF Live, HasRow
    <3> QED BY <3>2 DEF Continues
  <2>2. CASE Renewing(s)' /\ FamilyOf(presented[s])' = g
    <3>1. Renewing(s) /\ presented'[s] = presented[s]
      BY <1>7, <2>2 DEF Renewing
    <3>2. FamilyOf(presented[s]) = g
      BY <1>6, <2>2, <3>1 DEF SessionsInv, TokensMade, Renewing, FamilyOf
    <3> QED BY <1>2, <3>1, <3>2 DEF Continues
  <2> QED BY <2>1, <2>2 DEF Continues, FamilyOf, Live, Renewing
<1>11. \A g \in revokedFamilies' \ raced' :
           g \in AuthRequest /\ (g \in revokedFamilies \ raced
                                 \/ \A s \in AuthRequest : ~Continues(s, g)')
  BY <1>2, <1>3, <1>10 DEF SessionsInv, TokensMade
<1>12. SessionNeverForks' /\ FamilyClosed'
  BY <1>10, <1>11, FewerContinue
<1> QED BY <1>8, <1>9, <1>12 DEF SessionsInv

LEMMA SessionsNextInv ==
  ASSUME SessionsInv, [SessionsNext]_sessionVars
  PROVE  SessionsInv'
<1>1. CASE UNCHANGED <<tokenRows, authPc, presented, revokedFamilies, raced>>
  <2>1. SessionsTyped' /\ TokensMade'
    BY <1>1 DEF SessionsInv, SessionsTyped, TokensMade, HasRow, FamilyOf
  <2>2. \A s, g \in AuthRequest : Continues(s, g)' => Continues(s, g)
    BY <1>1 DEF Continues, Live, FamilyOf, Renewing
  <2>3. SessionNeverForks' /\ FamilyClosed'
    BY <1>1, <2>2, FewerContinue DEF SessionsInv, TokensMade
  <2> QED BY <2>1, <2>3 DEF SessionsInv
<1>2. ASSUME NEW r \in AuthRequest, LookUpAddress(r) \/ CreateUser(r) \/ Login(r) \/ AuthFails(r)
      PROVE  SessionsInv'
  <2>1. /\ \E place \in {"registering", "beginning", "refused"} : AuthGoto(r, place)
        /\ authPc[r] # "answered"
        /\ UNCHANGED <<tokenRows, presented, revokedFamilies, raced>>
    BY <1>2 DEF LookUpAddress, CreateUser, Login, AuthFails
  <2> QED BY <2>1, MoveInv
<1>3. ASSUME NEW r \in AuthRequest, NEW t \in AuthRequest, FindToken(r, t)
      PROVE  SessionsInv'
  <2>1. /\ \E place \in {"using", "reused", "refused"} : AuthGoto(r, place)
        /\ authPc[r] # "answered"
        /\ presented' = [presented EXCEPT ![r] = t]
        /\ UNCHANGED <<tokenRows, revokedFamilies, raced>>
    BY <1>3 DEF FindToken
  <2>2. HasRow(t)
    BY <1>3 DEF FindToken, SessionsInv, TokensMade
  <2> QED BY <2>1, <2>2, MoveInv
<1>4. ASSUME NEW r \in AuthRequest, NEW t \in AuthRequest, Logout(r, t)
      PROVE  SessionsInv'
  <2>1. HasRow(t) /\ authPc[r] = "new" /\ AuthGoto(r, "left")
        /\ presented' = [presented EXCEPT ![r] = t]
    BY <1>4 DEF Logout, SessionsInv, TokensMade
  <2>2. CASE RevokeTokenFamily(FamilyOf(t))
    BY <2>1, <2>2, RevokeInv
  <2>3. CASE UNCHANGED <<tokenRows, revokedFamilies, raced>>
    BY <2>1, <2>3, MoveInv
  <2> QED BY <1>4, <2>2, <2>3 DEF Logout
<1>5. ASSUME NEW r \in AuthRequest, AnswerReuse(r) PROVE SessionsInv'
  <2>1. presented[r] \in AuthRequest /\ HasRow(presented[r])
    BY <1>5 DEF AnswerReuse, SessionsInv, TokensMade
  <2>2. presented' = [presented EXCEPT ![r] = presented[r]]
    BY <1>5 DEF AnswerReuse, SessionsInv, SessionsTyped
  <2> QED BY <1>5, <2>1, <2>2, RevokeInv DEF AnswerReuse
<1>6. CASE UNCHANGED sessionVars
  BY <1>1, <1>6 DEF sessionVars
<1> QED BY <1>2, <1>3, <1>4, <1>5, <1>6, BeginInv, RenewInv, UseInv DEF SessionsNext

-----------------------------------------------------------------------------
(* Rate limits: requests that count in one window got different counts,    *)
(* none of them beyond the counter while it lasts, which is longer than    *)
(* the window.                                                             *)

LimitedPlace == {"new", "counting", "expiring", "counted", "error", "allowed", "refused"}
Counted(c) ==
    /\ c \notin unavailable /\ c \notin late
    /\ limitedPc[c] \in {"expiring", "counted", "allowed", "refused"}
RateTyping ==
    /\ window \in 0..LastWindow
    /\ counters \in [0..LastWindow -> Nat]
    /\ expiry \in [0..LastWindow -> 0..LastWindow]
    /\ limitedPc \in [LimitedCall -> LimitedPlace]
    /\ keyOf \in [LimitedCall -> 0..LastWindow]
    /\ countOf \in [LimitedCall -> Nat]
CountersOutlast ==
    /\ \A c \in LimitedCall : limitedPc[c] # "new" => keyOf[c] =< window
    /\ \A w \in 0..LastWindow : expiry[w] >= w
    /\ gone \subseteq 0..LastWindow /\ \A w \in gone : w < window
CountsDistinct ==
    /\ \A c \in LimitedCall : limitedPc[c] \in {"new", "counting"} => c \notin unavailable \cup late
    /\ \A c \in LimitedCall : Counted(c) =>
        /\ countOf[c] >= 1 /\ (keyOf[c] \notin gone => countOf[c] =< counters[keyOf[c]])
        /\ limitedPc[c] = "allowed" => countOf[c] =< MaxRequests
    /\ \A c, d \in LimitedCall :
        Counted(c) /\ Counted(d) /\ keyOf[c] = keyOf[d] /\ countOf[c] = countOf[d] => c = d
RateInv == RateTyping /\ CountersOutlast /\ CountsDistinct

LEMMA RateInitInv == RateInit => RateInv
BY RateLimiterConstants
DEF RateInit, RateInv, RateTyping, CountersOutlast, CountsDistinct, Counted, Never, LimitedPlace

LEMMA IncrementInv ==
  ASSUME RateInv, NEW c \in LimitedCall, Increment(c)
  PROVE  RateInv'
<1> DEFINE k == keyOf[c]
           count == counters[k] + 1
           place == IF count = 1 THEN "expiring" ELSE "counted"
<1>1. /\ k \in 0..LastWindow /\ count \in Nat /\ limitedPc[c] = "counting" /\ k =< window
      /\ counters' = [counters EXCEPT ![k] = count]
      /\ countOf' = [countOf EXCEPT ![c] = count]
      /\ limitedPc' = [limitedPc EXCEPT ![c] = place]
      /\ late' = IF window > k /\ k \in gone THEN late \cup {c} ELSE late
      /\ UNCHANGED <<window, expiry, keyOf, gone, unavailable>>
  BY DEF RateInv, RateTyping, CountersOutlast, Increment, LimitedGoto
<1>2. place \in {"expiring", "counted"} /\ count >= 1 /\ count > counters[k]
  BY <1>1 DEF RateInv, RateTyping
<1> HIDE DEF place, count
<1>3. /\ counters'[k] = count /\ countOf'[c] = count /\ limitedPc'[c] = place
      /\ \A w \in 0..LastWindow : w # k => counters'[w] = counters[w]
      /\ \A d \in LimitedCall : d # c =>
             countOf'[d] = countOf[d] /\ limitedPc'[d] = limitedPc[d]
  BY <1>1 DEF RateInv, RateTyping
<1>4. k \in gone => c \in late'
  BY <1>1 DEF RateInv, CountersOutlast, RateTyping
<1>5. \A d \in LimitedCall : d # c => (Counted(d)' <=> Counted(d))
  BY <1>1, <1>3 DEF Counted
<1>6. \A d \in LimitedCall : d # c /\ Counted(d) /\ keyOf[d] = k /\ k \notin gone =>
          countOf[d] < count
  BY <1>1, <1>2 DEF RateInv, RateTyping, CountsDistinct
<1>7. RateTyping'
  BY <1>1, <1>2 DEF RateInv, RateTyping, LimitedPlace
<1>8. CountersOutlast'
  BY <1>1, <1>3 DEF RateInv, CountersOutlast
<1>9. \A d \in LimitedCall : limitedPc'[d] \in {"new", "counting"} => d \notin unavailable' \cup late'
  BY <1>1, <1>2, <1>3 DEF RateInv, CountsDistinct
<1>10. \A d \in LimitedCall : Counted(d)' =>
          /\ countOf'[d] >= 1 /\ (keyOf'[d] \notin gone' => countOf'[d] =< counters'[keyOf'[d]])
          /\ limitedPc'[d] = "allowed" => countOf'[d] =< MaxRequests
  <2> SUFFICES ASSUME NEW d \in LimitedCall, Counted(d)'
               PROVE  /\ countOf'[d] >= 1
                      /\ keyOf'[d] \notin gone' => countOf'[d] =< counters'[keyOf'[d]]
                      /\ limitedPc'[d] = "allowed" => countOf'[d] =< MaxRequests
    OBVIOUS
  <2>1. CASE d = c
    BY <1>1, <1>2, <1>3, <2>1
  <2>2. CASE d # c
    <3>1. Counted(d) /\ countOf'[d] = countOf[d] /\ limitedPc'[d] = limitedPc[d]
          /\ keyOf'[d] = keyOf[d] /\ gone' = gone /\ keyOf[d] \in 0..LastWindow
      BY <1>1, <1>3, <1>5, <2>2 DEF RateInv, RateTyping
    <3>2. keyOf[d] = k /\ k \notin gone => countOf[d] =< count
      BY <1>1, <1>6, <2>2, <3>1 DEF RateInv, RateTyping
    <3> QED BY <1>1, <1>3, <3>1, <3>2 DEF RateInv, CountsDistinct
  <2> QED BY <2>1, <2>2
<1>11. \A d, e \in LimitedCall :
          Counted(d)' /\ Counted(e)' /\ keyOf'[d] = keyOf'[e] /\ countOf'[d] = countOf'[e]
            => d = e
  <2>1. \A d \in LimitedCall : d # c /\ Counted(d)' /\ Counted(c)' /\ keyOf[d] = k =>
            countOf'[d] < count
    BY <1>3, <1>4, <1>5, <1>6 DEF Counted
  <2>2. \A d \in LimitedCall : countOf[d] \in Nat
    BY DEF RateInv, RateTyping
  <2>3. \A d, e \in LimitedCall : d # c /\ e # c /\
          Counted(d)' /\ Counted(e)' /\ keyOf'[d] = keyOf'[e] /\ countOf'[d] = countOf'[e]
            => d = e
    BY <1>1, <1>3, <1>5 DEF RateInv, CountsDistinct
  <2> QED BY <1>1, <1>3, <2>1, <2>2, <2>3
<1>12. CountsDistinct'
  BY <1>9, <1>10, <1>11 DEF CountsDistinct
<1> QED BY <1>7, <1>8, <1>12 DEF RateInv

LEMMA IncrementFailsInv ==
  ASSUME RateInv, NEW c \in LimitedCall, IncrementFails(c)
  PROVE  RateInv'
<1>1. limitedPc[c] = "counting" /\ UNCHANGED <<window, expiry, keyOf, gone, late>>
  BY DEF IncrementFails
<1>2. /\ counters' \in [0..LastWindow -> Nat]
      /\ \A w \in 0..LastWindow : counters'[w] >= counters[w]
  <2>1. counters \in [0..LastWindow -> Nat] /\ keyOf[c] \in 0..LastWindow
    BY DEF RateInv, RateTyping
  <2>2. CASE counters' = [counters EXCEPT ![keyOf[c]] = @ + 1]
    BY <2>1, <2>2
  <2>3. CASE UNCHANGED counters
    BY <2>1, <2>3
  <2> QED BY <2>2, <2>3 DEF IncrementFails
<1>3. /\ limitedPc' \in [LimitedCall -> LimitedPlace]
      /\ limitedPc'[c] \in {"expiring", "error"}
      /\ \A d \in LimitedCall : d # c => limitedPc'[d] = limitedPc[d]
  BY DEF IncrementFails, LimitedGoto, RateInv, RateTyping, LimitedPlace
<1>4. /\ countOf' \in [LimitedCall -> Nat]
      /\ \A d \in LimitedCall : d # c => countOf'[d] = countOf[d]
  BY DEF IncrementFails, RateInv, RateTyping
<1>5. /\ unavailable \subseteq unavailable' /\ unavailable' \subseteq unavailable \cup {c}
      /\ limitedPc'[c] = "expiring" => c \in unavailable'
  BY <1>3 DEF IncrementFails, LimitedGoto, RateInv, RateTyping
<1>6. \A d \in LimitedCall : Counted(d)' => d # c /\ Counted(d)
  BY <1>1, <1>3, <1>5 DEF Counted
<1>7. RateTyping' /\ CountersOutlast'
  BY <1>1, <1>2, <1>3, <1>4 DEF RateInv, RateTyping, CountersOutlast
<1>8. \A d \in LimitedCall : limitedPc'[d] \in {"new", "counting"} => d \notin unavailable' \cup late'
  BY <1>1, <1>3, <1>5 DEF RateInv, CountsDistinct
<1>9. \A d \in LimitedCall : Counted(d)' =>
          /\ countOf'[d] >= 1 /\ (keyOf'[d] \notin gone' => countOf'[d] =< counters'[keyOf'[d]])
          /\ limitedPc'[d] = "allowed" => countOf'[d] =< MaxRequests
  <2> SUFFICES ASSUME NEW d \in LimitedCall, Counted(d)'
               PROVE  /\ countOf'[d] >= 1
                      /\ keyOf'[d] \notin gone' => countOf'[d] =< counters'[keyOf'[d]]
                      /\ limitedPc'[d] = "allowed" => countOf'[d] =< MaxRequests
    OBVIOUS
  <2>1. /\ Counted(d) /\ countOf'[d] = countOf[d] /\ limitedPc'[d] = limitedPc[d]
        /\ countOf[d] \in Nat /\ keyOf[d] \in 0..LastWindow /\ counters[keyOf[d]] \in Nat
        /\ counters'[keyOf[d]] \in Nat /\ counters'[keyOf[d]] >= counters[keyOf[d]]
    BY <1>2, <1>3, <1>4, <1>6 DEF RateInv, RateTyping
  <2>2. keyOf[d] \notin gone => countOf[d] =< counters[keyOf[d]]
    BY <2>1 DEF RateInv, CountsDistinct
  <2> QED BY <1>1, <2>1, <2>2 DEF RateInv, CountsDistinct
<1>10. \A d, e \in LimitedCall :
          Counted(d)' /\ Counted(e)' /\ keyOf'[d] = keyOf'[e] /\ countOf'[d] = countOf'[e]
            => d = e
  BY <1>1, <1>4, <1>6 DEF RateInv, CountsDistinct
<1> QED BY <1>7, <1>8, <1>9, <1>10 DEF RateInv, CountsDistinct

LEMMA RateNextInv ==
  ASSUME RateInv, [RateNext]_rateVars
  PROVE  RateInv'
<1>1. ASSUME NEW c \in LimitedCall, BuildKey(c) PROVE RateInv'
  <2>1. RateTyping' /\ CountersOutlast'
    <3>1. keyOf' = [keyOf EXCEPT ![c] = window] /\ window \in 0..LastWindow
          /\ limitedPc' = [limitedPc EXCEPT ![c] = "counting"]
          /\ UNCHANGED <<window, counters, expiry, countOf, gone, unavailable, late>>
      BY <1>1 DEF RateInv, RateTyping, BuildKey, LimitedGoto
    <3>2. RateTyping'
      BY <3>1 DEF RateInv, RateTyping, LimitedPlace
    <3>3. \A d \in LimitedCall : limitedPc'[d] # "new" => keyOf'[d] =< window'
      BY <3>1 DEF RateInv, RateTyping, CountersOutlast
    <3> QED BY <3>1, <3>2, <3>3 DEF RateInv, CountersOutlast
  <2>2. \A d \in LimitedCall : Counted(d)' => Counted(d) /\ keyOf'[d] = keyOf[d]
    BY <1>1 DEF RateInv, RateTyping, Counted, BuildKey, LimitedGoto
  <2>3. CountsDistinct'
    BY <1>1, <2>2 DEF RateInv, RateTyping, CountsDistinct, BuildKey, LimitedGoto
  <2> QED BY <2>1, <2>3 DEF RateInv
<1>2. ASSUME NEW c \in LimitedCall, ExpireKey(c) PROVE RateInv'
  <2>1. RateTyping'
    BY <1>2 DEF RateInv, RateTyping, ExpireKey, LimitedGoto, LimitedPlace
  <2>2. CountersOutlast'
    BY <1>2 DEF RateInv, RateTyping, CountersOutlast, ExpireKey, LimitedGoto
  <2>3. \A d \in LimitedCall : Counted(d)' => Counted(d)
    BY <1>2 DEF RateInv, RateTyping, Counted, ExpireKey, LimitedGoto
  <2>4. CountsDistinct'
    BY <1>2, <2>3 DEF RateInv, RateTyping, CountsDistinct, ExpireKey, LimitedGoto
  <2> QED BY <2>1, <2>2, <2>4 DEF RateInv
<1>3. ASSUME NEW c \in LimitedCall, Decide(c) PROVE RateInv'
  <2>1. RateTyping' /\ CountersOutlast'
    BY <1>3 DEF RateInv, RateTyping, CountersOutlast, Decide, LimitedGoto, LimitedPlace
  <2>2. \A d \in LimitedCall : Counted(d)' => Counted(d)
    BY <1>3 DEF RateInv, RateTyping, Counted, Decide, LimitedGoto
  <2>3. CountsDistinct'
    BY <1>3, <2>2 DEF RateInv, RateTyping, CountsDistinct, Decide, LimitedGoto
  <2> QED BY <2>1, <2>3 DEF RateInv
<1>4. CASE NextWindow
  <2>1. window' = window + 1 /\ window \in 0..LastWindow /\ window' \in 0..LastWindow
        /\ UNCHANGED <<counters, expiry, limitedPc, keyOf, countOf, gone, unavailable, late>>
    BY <1>4, RateLimiterConstants DEF NextWindow, RateInv, RateTyping
  <2>2. RateTyping'
    BY <2>1 DEF RateInv, RateTyping
  <2>3. gone \subseteq Nat
    BY DEF RateInv, RateTyping, CountersOutlast
  <2>4. CountersOutlast'
    BY <2>1, <2>3 DEF RateInv, RateTyping, CountersOutlast
  <2>5. CountsDistinct'
    BY <2>1 DEF RateInv, CountsDistinct, Counted
  <2> QED BY <2>2, <2>4, <2>5 DEF RateInv
<1>5. ASSUME NEW w \in 0..LastWindow, CounterExpires(w) PROVE RateInv'
  <2>1. /\ window > expiry[w] /\ expiry[w] >= w /\ w < window
        /\ counters' = [counters EXCEPT ![w] = 0]
        /\ expiry' = [expiry EXCEPT ![w] = LastWindow]
        /\ gone' = gone \cup {w} /\ LastWindow \in 0..LastWindow
        /\ UNCHANGED <<window, limitedPc, keyOf, countOf, unavailable, late>>
    BY <1>5, RateLimiterConstants DEF RateInv, RateTyping, CountersOutlast, CounterExpires, Never
  <2>2. RateTyping'
    BY <2>1 DEF RateInv, RateTyping
  <2>3. CountersOutlast'
    BY <2>1 DEF RateInv, RateTyping, CountersOutlast
  <2>4. \A d \in LimitedCall : Counted(d)' <=> Counted(d)
    BY <2>1 DEF Counted
  <2>5. \A d \in LimitedCall : keyOf[d] \notin gone' =>
            keyOf[d] \notin gone /\ counters'[keyOf[d]] = counters[keyOf[d]]
    BY <2>1 DEF RateInv, RateTyping
  <2>6. CountsDistinct'
    BY <2>1, <2>4, <2>5 DEF RateInv, CountsDistinct
  <2> QED BY <2>2, <2>3, <2>6 DEF RateInv
<1>6. CASE UNCHANGED rateVars
  BY <1>6 DEF RateInv, RateTyping, CountersOutlast, CountsDistinct, Counted, rateVars
<1> QED BY <1>1, <1>2, <1>3, <1>4, <1>5, <1>6, IncrementInv, IncrementFailsInv DEF RateNext

LEMMA RateSafe == RateInv => RateHonoured
<1> SUFFICES ASSUME RateInv, NEW w \in 0..window
             PROVE  Cardinality({c \in LimitedCall \ (unavailable \cup late) :
                        limitedPc[c] = "allowed" /\ keyOf[c] = w}) =< MaxRequests
  BY DEF RateHonoured
<1> DEFINE S == {c \in LimitedCall \ (unavailable \cup late) :
                    limitedPc[c] = "allowed" /\ keyOf[c] = w}
           f == [c \in S |-> countOf[c]]
<1>1. \A c \in S : countOf[c] \in 1..MaxRequests
  BY RateLimiterConstants DEF RateInv, RateTyping, CountsDistinct, Counted
<1>2. \A c, d \in S : countOf[c] = countOf[d] => c = d
  BY DEF RateInv, RateTyping, CountsDistinct, Counted
<1>3. f \in Injection(S, 1..MaxRequests)
  BY <1>1, <1>2 DEF Injection, IsInjective
<1>4. IsFiniteSet(1..MaxRequests) /\ Cardinality(1..MaxRequests) = MaxRequests
  BY RateLimiterConstants, FS_Interval
<1>5. Cardinality(S) =< Cardinality(1..MaxRequests)
  BY <1>3, <1>4, FS_Injection, Zenon
<1> QED BY <1>4, <1>5

-----------------------------------------------------------------------------
(* A session never forks, a family once closed stays closed, and no window *)
(* lets more requests through than its limit, however many requests reach  *)
(* the gateway and whatever order their statements run in.                 *)
THEOREM GatewayAlwaysHolds == BackendSpec => []GatewayHolds
<1> DEFINE Inv == SessionsInv /\ RateInv
<1>1. BackendInit => Inv
  BY SessionsInitInv, RateInitInv DEF BackendInit
<1>2. Inv /\ [BackendNext]_backendVars => Inv'
  BY ComponentStep, SessionsNextInv, RateNextInv
<1>3. Inv => GatewayHolds
  BY RateSafe DEF SessionsInv, GatewayHolds
<1> QED BY <1>1, <1>2, <1>3, PTL DEF BackendSpec

-----------------------------------------------------------------------------
(* Balances: a copy does not live longer than its age allows, a request    *)
(* at work is not older than Patience, and what it loaded is not older.    *)

BalanceInv ==
    /\ tick \in Nat
    /\ balanceCache \in [balance : Nat, expires : Nat]
    /\ balanceCache.expires =< balanceCache.balance + CacheTtl + Patience
    /\ balancePc \in [BalanceReader -> {"new", "loading", "caching", "answered", "NOT_FOUND",
                                        "SERVICE_UNAVAILABLE", "INTERNAL_ERROR"}]
    /\ balanceSeen \in [BalanceReader -> Nat] /\ balanceStart \in [BalanceReader -> Nat]
    /\ \A r \in BalanceReader :
        /\ balancePc[r] \in {"loading", "caching"} => tick =< balanceStart[r] + Patience
        /\ balancePc[r] \in {"loading", "caching"} => balanceStart[r] =< tick
        /\ balancePc[r] = "caching" => balanceStart[r] =< balanceSeen[r]
    /\ BalanceRecent

LEMMA BalanceInitInv == BalanceInit => BalanceInv
BY BalanceConstants DEF BalanceInit, BalanceInv, BalanceRecent

LEMMA BalanceNextInv ==
  ASSUME BalanceInv, [BalanceNext]_balanceVars
  PROVE  BalanceInv'
<1>1. ASSUME NEW r \in BalanceReader, CacheHit(r) PROVE BalanceInv'
  <2>1. balanceCache.balance \in Nat /\ balanceCache.expires > tick
    BY <1>1 DEF CacheHit, Cached, BalanceInv
  <2>2. balanceCache.balance + CacheTtl + Patience > tick
    BY <2>1, BalanceConstants DEF BalanceInv
  <2> QED BY <1>1, <2>1, <2>2 DEF CacheHit, BalanceGoto, BalanceInv, BalanceRecent
<1>2. ASSUME NEW r \in BalanceReader, CacheMiss(r) PROVE BalanceInv'
  BY <1>2, BalanceConstants DEF CacheMiss, BalanceGoto, BalanceInv, BalanceRecent
<1>3. ASSUME NEW r \in BalanceReader, LoadAccount(r) PROVE BalanceInv'
  BY <1>3, BalanceConstants DEF LoadAccount, BalanceGoto, BalanceInv, BalanceRecent
<1>4. ASSUME NEW r \in BalanceReader, CacheAndAnswer(r) PROVE BalanceInv'
  <2>1. /\ balancePc' = [balancePc EXCEPT ![r] = "answered"] /\ balancePc[r] = "caching"
        /\ UNCHANGED <<tick, balanceSeen, balanceStart>>
        /\ balanceCache' \in {[balance |-> balanceSeen[r], expires |-> tick + CacheTtl],
                              balanceCache}
    BY <1>4 DEF CacheAndAnswer, BalanceGoto
  <2>2. /\ tick =< balanceSeen[r] + Patience
        /\ balanceSeen[r] + CacheTtl + Patience > balanceStart[r]
    BY <2>1, BalanceConstants DEF BalanceInv
  <2>3. /\ balanceCache' \in [balance : Nat, expires : Nat]
        /\ balanceCache'.expires =< balanceCache'.balance + CacheTtl + Patience
    BY <2>1, <2>2, BalanceConstants DEF BalanceInv
  <2> QED BY <2>1, <2>2, <2>3 DEF BalanceInv, BalanceRecent
<1>5. CASE BalanceTick
  BY <1>5, BalanceConstants DEF BalanceTick, BalanceInv, BalanceRecent
<1>6. CASE UNCHANGED balanceVars
  BY <1>6 DEF balanceVars, BalanceInv, BalanceRecent
<1> QED BY <1>1, <1>2, <1>3, <1>4, <1>5, <1>6 DEF BalanceNext

(* No balance is given out that was out of date for longer than a copy     *)
(* lives and a request takes, whichever request overwrites whose copy.     *)
THEOREM BalancesAreRecent == BackendSpec => []BalanceRecent
<1>1. BackendInit => BalanceInv
  BY BalanceInitInv DEF BackendInit
<1>2. BalanceInv /\ [BackendNext]_backendVars => BalanceInv'
  BY ComponentStep, BalanceNextInv
<1>3. BalanceInv => BalanceRecent
  BY DEF BalanceInv
<1> QED BY <1>1, <1>2, <1>3, PTL DEF BackendSpec

-----------------------------------------------------------------------------
(* Seeds: a version that was not misused still has the secret its seeds    *)
(* were encrypted under, and the last row of a wallet is that of its seed. *)

SeedKept(w) ==
    LET v == seed[w].keyVersion
    IN  IF ownSecret[v] # Unset THEN seed[w].under = ownSecret[v]
        ELSE v = "v1" /\ seed[w].under = BaseSecret
LastRowNames(w) ==
    \E last \in DOMAIN versionRows :
        /\ versionRows[last].walletId = w
        /\ versionRows[last].keyVersion = seed[w].keyVersion
        /\ \A i \in DOMAIN versionRows : versionRows[i].walletId = w => i <= last
KeyVersionsInv ==
    /\ ownSecret \in [Version -> Secret \cup {Unset}]
    /\ DOMAIN seed = SeedWallet
    /\ versionRows \in Seq([walletId : SeedWallet, keyVersion : Version])
    /\ \A w \in SeedWallet : seed[w] # Unset =>
        /\ seed[w].keyVersion \in Version
        /\ seed[w].keyVersion \notin misused => SeedKept(w)
        /\ LastRowNames(w)

LEMMA KeyVersionsInitInv == KeyVersionsInit => KeyVersionsInv
BY DEF KeyVersionsInit, KeyVersionsInv

LEMMA EncryptInv ==
  ASSUME KeyVersionsInv, NEW wallet \in SeedWallet, NEW version \in Version,
         EncryptAndRecordSeedPhrase(wallet, version)
  PROVE  KeyVersionsInv'
<1> DEFINE key == MasterKeyForVersion(version)
           kept == [keyVersion |-> version, under |-> key]
           row == [walletId |-> wallet, keyVersion |-> version]
<1>1. /\ key # Unset /\ seed' = [seed EXCEPT ![wallet] = kept]
      /\ versionRows' = Append(versionRows, row)
      /\ misused \subseteq misused'
      /\ key = BaseSecret /\ version # "v1" => version \in misused'
      /\ UNCHANGED ownSecret
  BY DEF EncryptAndRecordSeedPhrase
<1>2. /\ seed'[wallet] = kept /\ DOMAIN seed' = SeedWallet
      /\ \A w \in SeedWallet : w # wallet => seed'[w] = seed[w]
  BY <1>1 DEF KeyVersionsInv
<1>3. version \notin misused' => SeedKept(wallet)'
  BY <1>1, <1>2 DEF SeedKept, MasterKeyForVersion
<1>4. /\ versionRows' \in Seq([walletId : SeedWallet, keyVersion : Version])
      /\ DOMAIN versionRows = 1..Len(versionRows) /\ Len(versionRows) \in Nat
      /\ DOMAIN versionRows' = 1..(Len(versionRows) + 1)
      /\ versionRows'[Len(versionRows) + 1] = row
      /\ \A i \in 1..Len(versionRows) : versionRows'[i] = versionRows[i]
  BY <1>1 DEF KeyVersionsInv
<1> HIDE DEF key
<1>5. LastRowNames(wallet)'
  BY <1>2, <1>4 DEF LastRowNames
<1>6. \A w \in SeedWallet : w # wallet /\ seed[w] # Unset => LastRowNames(w)'
  BY <1>2, <1>4 DEF LastRowNames, KeyVersionsInv
<1>7. \A w \in SeedWallet : w # wallet /\ SeedKept(w) => SeedKept(w)'
  BY <1>1, <1>2 DEF SeedKept
<1>8. ASSUME NEW w \in SeedWallet, seed'[w] # Unset
      PROVE  /\ seed'[w].keyVersion \in Version
             /\ seed'[w].keyVersion \notin misused' => SeedKept(w)'
             /\ LastRowNames(w)'
  <2>1. CASE w = wallet
    BY <1>2, <1>3, <1>5, <2>1
  <2>2. CASE w # wallet
    BY <1>1, <1>2, <1>6, <1>7, <1>8, <2>2 DEF KeyVersionsInv
  <2> QED BY <2>1, <2>2
<1> QED BY <1>1, <1>2, <1>4, <1>8 DEF KeyVersionsInv

LEMMA SetSecretInv ==
  ASSUME KeyVersionsInv, NEW version \in Version, NEW secret \in Secret,
         SetSecret(version, secret)
  PROVE  KeyVersionsInv'
<1>1. /\ ownSecret' = [ownSecret EXCEPT ![version] = secret]
      /\ misused \subseteq misused'
      /\ version \in UsedVersions => version \in misused'
      /\ UNCHANGED <<seed, versionRows>>
  BY DEF SetSecret
<1>2. /\ ownSecret' \in [Version -> Secret \cup {Unset}]
      /\ \A v \in Version : v # version => ownSecret'[v] = ownSecret[v]
  BY <1>1 DEF KeyVersionsInv
<1>3. ASSUME NEW w \in SeedWallet, seed[w] # Unset, seed[w].keyVersion \notin misused'
      PROVE  SeedKept(w)'
  <2>1. seed[w].keyVersion \in UsedVersions
    BY <1>3 DEF UsedVersions
  <2>2. /\ seed[w].keyVersion \in Version
        /\ seed[w].keyVersion \notin misused => SeedKept(w)
    BY <1>3 DEF KeyVersionsInv
  <2>3. SeedKept(w)
    BY <1>1, <1>3, <2>2
  <2>4. seed[w].keyVersion # version
    BY <1>1, <1>3, <2>1
  <2>5. ownSecret'[seed[w].keyVersion] = ownSecret[seed[w].keyVersion]
    BY <1>2, <2>2, <2>4
  <2> QED BY <1>1, <2>3, <2>5 DEF SeedKept
<1> QED BY <1>1, <1>2, <1>3 DEF KeyVersionsInv, LastRowNames

LEMMA KeyVersionsNextInv ==
  ASSUME KeyVersionsInv, [KeyVersionsNext]_keyVersionVars
  PROVE  KeyVersionsInv'
<1>1. CASE UNCHANGED <<ownSecret, seed, versionRows, misused>>
  BY <1>1 DEF KeyVersionsInv, SeedKept, LastRowNames
<1> QED BY <1>1, EncryptInv, SetSecretInv DEF KeyVersionsNext, ActivateVersion, keyVersionVars

LEMMA SeedsSafe == KeyVersionsInv => SeedsReadable
<1> SUFFICES ASSUME KeyVersionsInv, NEW w \in SeedWallet, seed[w] # Unset
             PROVE  /\ seed[w].keyVersion \notin misused => Decrypts(seed[w])
                    /\ \E last \in SigningKeyVersions(w) :
                        /\ \A i \in SigningKeyVersions(w) : i <= last
                        /\ versionRows[last].keyVersion = seed[w].keyVersion
  BY DEF SeedsReadable
<1>1. seed[w].keyVersion \notin misused => Decrypts(seed[w])
  BY DEF KeyVersionsInv, SeedKept, Decrypts, MasterKeyForVersion
<1>2. LastRowNames(w)
  BY DEF KeyVersionsInv
<1> QED BY <1>1, <1>2 DEF LastRowNames, SigningKeyVersions

-----------------------------------------------------------------------------
(* Vault: while a key is being stored undisturbed it has the vault for     *)
(* itself, and every copy of the vault in use holds the keys stored so.    *)

VaultPlace == {"new", "parsed", "deriving", "saving", "opening", "writing",
               "stored", "created", "unfunded", "read", "failed"}
SafeKeys == managed \ disturbed
VaultTyping ==
    /\ vaultPc \in [VaultRequest -> VaultPlace]
    /\ DOMAIN vaultBuffer = VaultRequest
    /\ \A r \in VaultRequest :
        vaultPc[r] \in {"deriving", "saving", "opening", "writing"} => r \in Key
UndisturbedAlone ==
    \A k \in Key : AtWork(k) /\ k \notin disturbed =>
        \A r \in VaultRequest : r # k => ~AtWork(r)
CopiesHoldSafeKeys ==
    /\ vaultFile.valid => SafeKeys \subseteq vaultFile.keys
    /\ \A r \in VaultRequest :
        /\ vaultPc[r] \in {"parsed", "opening", "writing"} => SafeKeys \subseteq vaultBuffer[r]
        /\ vaultPc[r] \in {"deriving", "saving"} => SafeKeys \subseteq vaultData
OwnEntryKept ==
    \A k \in Key : k \notin disturbed =>
        /\ vaultPc[k] = "saving" => k \in vaultData
        /\ vaultPc[k] \in {"opening", "writing"} => k \in vaultBuffer[k]
VaultInv ==
    VaultTyping /\ UndisturbedAlone /\ CopiesHoldSafeKeys /\ OwnEntryKept /\ FileReadable

LEMMA VaultInitInv == VaultInit => VaultInv
<1> SUFFICES ASSUME VaultInit PROVE VaultInv
  OBVIOUS
<1>1. /\ \A r \in VaultRequest : vaultPc[r] = "new"
      /\ VaultTyping
  BY DEF VaultInit, VaultTyping, VaultPlace
<1>2. \A r \in VaultRequest : ~AtWork(r)
  BY <1>1 DEF AtWork, AtRest
<1>3. CopiesHoldSafeKeys
  BY <1>1 DEF VaultInit, CopiesHoldSafeKeys, SafeKeys
<1>4. FileReadable
  BY DEF VaultInit, FileReadable, FileHolding
<1> QED BY <1>1, <1>2, <1>3, <1>4 DEF VaultInv, UndisturbedAlone, OwnEntryKept, VaultRequest

\* The file stays readable, or about to be, while nobody touches it.
LEMMA UntouchedFile ==
  ASSUME FileReadable, UNCHANGED <<vaultFile, mixed, cut>>,
         \A k \in Key : vaultPc[k] = "writing" => vaultPc'[k] = "writing"
  PROVE  FileReadable'
  BY DEF FileReadable, Writing

LEMMA ReadVaultInv ==
  ASSUME VaultInv, NEW r \in VaultRequest, ReadVault(r)
  PROVE  VaultInv'
<1>1. /\ VaultTyping /\ UndisturbedAlone /\ CopiesHoldSafeKeys /\ OwnEntryKept
      /\ vaultPc[r] = "new"
      /\ UNCHANGED <<vaultFile, vaultData, managed>>
      /\ disturbed \subseteq disturbed'
      /\ \A k \in Key : k # r /\ AtWork(k) => k \in disturbed'
      /\ r \in Key /\ (\E s \in VaultRequest : s # r /\ AtWork(s)) => r \in disturbed'
  BY DEF VaultInv, ReadVault, Disturbs
<1>2. /\ vaultPc' = [vaultPc EXCEPT ![r] = vaultPc'[r]] /\ DOMAIN vaultBuffer' = VaultRequest
      /\ \A s \in VaultRequest : s # r => vaultBuffer'[s] = vaultBuffer[s]
      /\ vaultPc'[r] \in {"parsed", "failed"}
      /\ vaultPc'[r] = "parsed" => vaultFile.valid /\ vaultBuffer'[r] = vaultFile.keys
  BY <1>1 DEF ReadVault, VaultGoto, VaultTyping
<1>3. /\ VaultTyping' /\ \A s \in VaultRequest : s # r => vaultPc'[s] = vaultPc[s]
  BY <1>1, <1>2 DEF VaultTyping, VaultPlace
<1>4. ASSUME NEW k \in Key, AtWork(k)', k \notin disturbed', NEW s \in VaultRequest, s # k
      PROVE  ~AtWork(s)'
  <2>1. CASE k = r
    BY <1>1, <1>3, <1>4, <2>1 DEF AtWork, AtRest
  <2>2. CASE k # r
    <3>1. k \in VaultRequest
      BY DEF VaultRequest
    <3> QED BY <1>1, <1>3, <1>4, <2>2, <3>1 DEF AtWork, AtRest
  <2> QED BY <2>1, <2>2
<1>5. SafeKeys' \subseteq SafeKeys
  BY <1>1 DEF SafeKeys
<1>6. CopiesHoldSafeKeys'
  BY <1>1, <1>2, <1>3, <1>5 DEF CopiesHoldSafeKeys
<1>7. OwnEntryKept'
  BY <1>1, <1>2, <1>3 DEF OwnEntryKept, VaultRequest
<1>8. UndisturbedAlone'
  BY <1>4 DEF UndisturbedAlone
<1>9. FileReadable'
  <2>1. \A k \in Key : vaultPc[k] = "writing" => vaultPc'[k] = "writing"
    BY <1>1, <1>3 DEF VaultRequest
  <2> QED BY <2>1, UntouchedFile DEF VaultInv, ReadVault
<1> QED BY <1>3, <1>6, <1>7, <1>8, <1>9 DEF VaultInv

LEMMA AssignVaultDataInv ==
  ASSUME VaultInv, NEW r \in VaultRequest, AssignVaultData(r)
  PROVE  VaultInv'
<1>1. /\ VaultTyping /\ UndisturbedAlone /\ CopiesHoldSafeKeys /\ OwnEntryKept
      /\ vaultPc[r] = "parsed"
      /\ vaultData' = vaultBuffer[r]
      /\ UNCHANGED <<vaultFile, managed, disturbed>>
      /\ \A s \in VaultRequest : s # r => vaultBuffer'[s] = vaultBuffer[s]
      /\ DOMAIN vaultBuffer' = VaultRequest
  BY DEF VaultInv, AssignVaultData, VaultTyping
<1>2. /\ VaultTyping' /\ \A s \in VaultRequest : s # r => vaultPc'[s] = vaultPc[s]
      /\ vaultPc'[r] = IF r \in Key THEN "deriving" ELSE "read"
  BY <1>1 DEF AssignVaultData, VaultGoto, VaultTyping, VaultPlace
<1>3. AtWork(r) /\ \A s \in VaultRequest : AtWork(s)' => AtWork(s)
  BY <1>1, <1>2 DEF AtWork, AtRest
<1>4. UndisturbedAlone'
  BY <1>1, <1>3 DEF UndisturbedAlone, VaultRequest
<1>5. CopiesHoldSafeKeys'
  BY <1>1, <1>2 DEF CopiesHoldSafeKeys, SafeKeys
<1>6. \A k \in Key : k # r /\ vaultPc[k] \in {"saving", "opening", "writing"} => k \in disturbed
  BY <1>1, <1>3 DEF UndisturbedAlone, VaultRequest, AtWork, AtRest
<1>7. OwnEntryKept'
  BY <1>1, <1>2, <1>6 DEF OwnEntryKept, VaultRequest
<1>8. FileReadable'
  <2>1. \A k \in Key : vaultPc[k] = "writing" => vaultPc'[k] = "writing"
    BY <1>1, <1>2 DEF VaultRequest
  <2> QED BY <2>1, UntouchedFile DEF VaultInv, AssignVaultData
<1> QED BY <1>2, <1>4, <1>5, <1>7, <1>8 DEF VaultInv

LEMMA StoreKeyInv ==
  ASSUME VaultInv, NEW k \in Key,
         AddEntry(k) \/ Serialise(k) \/ OpenFile(k) \/ StoreFails(k) \/ Fund(k)
  PROVE  VaultInv'
<1>1. /\ VaultTyping /\ UndisturbedAlone /\ CopiesHoldSafeKeys /\ OwnEntryKept
      /\ k \in VaultRequest
      /\ UNCHANGED <<managed, disturbed>>
  BY DEF VaultInv, AddEntry, Serialise, OpenFile, StoreFails, Fund, VaultRequest
<1>2. /\ VaultTyping' /\ \A s \in VaultRequest : s # k => vaultPc'[s] = vaultPc[s]
      /\ \A s \in VaultRequest : s # k => vaultBuffer'[s] = vaultBuffer[s]
  BY <1>1 DEF AddEntry, Serialise, OpenFile, StoreFails, Fund, VaultGoto, VaultTyping, VaultPlace
<1>3. \A s \in VaultRequest : AtWork(s)' => AtWork(s)
  BY <1>1, <1>2 DEF AddEntry, Serialise, OpenFile, StoreFails, Fund, VaultGoto, VaultTyping,
                    AtWork, AtRest
<1>4. UndisturbedAlone'
  BY <1>1, <1>3 DEF UndisturbedAlone, VaultRequest
<1>5. CopiesHoldSafeKeys' /\ OwnEntryKept' /\ FileReadable'
  <2>1. CASE AddEntry(k)
    <3>1. /\ vaultPc[k] = "deriving" /\ vaultPc'[k] = "saving"
          /\ vaultData' = vaultData \cup {k} /\ UNCHANGED <<vaultFile, vaultBuffer, mixed, cut>>
      BY <1>1, <2>1 DEF AddEntry, VaultGoto, VaultTyping
    <3>2. CopiesHoldSafeKeys' /\ OwnEntryKept'
      BY <1>1, <1>2, <3>1 DEF CopiesHoldSafeKeys, OwnEntryKept, SafeKeys, VaultRequest
    <3>3. FileReadable'
      BY <1>2, <3>1, UntouchedFile DEF VaultInv, VaultRequest
    <3> QED BY <3>2, <3>3
  <2>2. CASE Serialise(k)
    <3>1. /\ vaultPc[k] = "saving" /\ vaultPc'[k] = "opening"
          /\ vaultBuffer'[k] = vaultData /\ UNCHANGED <<vaultData, vaultFile, mixed, cut>>
      BY <1>1, <2>2 DEF Serialise, VaultGoto, VaultTyping
    <3>2. CopiesHoldSafeKeys' /\ OwnEntryKept'
      BY <1>1, <1>2, <3>1 DEF CopiesHoldSafeKeys, OwnEntryKept, SafeKeys, VaultRequest
    <3>3. FileReadable'
      BY <1>2, <3>1, UntouchedFile DEF VaultInv, VaultRequest
    <3> QED BY <3>2, <3>3
  <2>3. CASE OpenFile(k)
    <3>1. /\ vaultPc[k] = "opening" /\ vaultPc'[k] = "writing"
          /\ ~vaultFile'.valid /\ UNCHANGED <<vaultData, vaultBuffer>>
      BY <1>1, <2>3 DEF OpenFile, VaultGoto, VaultTyping, TornFile
    <3>2. CopiesHoldSafeKeys' /\ OwnEntryKept'
      BY <1>1, <1>2, <3>1 DEF CopiesHoldSafeKeys, OwnEntryKept, SafeKeys, VaultRequest
    <3>3. FileReadable'
      BY <3>1 DEF FileReadable, Writing
    <3> QED BY <3>2, <3>3
  <2>4. CASE StoreFails(k)
    <3>1. /\ vaultPc'[k] = "failed" /\ UNCHANGED <<vaultData, mixed>>
          /\ \/ vaultPc[k] # "writing" /\ UNCHANGED <<vaultFile, cut>>
             \/ ~vaultFile'.valid /\ cut'
      BY <1>1, <2>4 DEF StoreFails, VaultGoto, VaultTyping, TornFile
    <3>2. CopiesHoldSafeKeys' /\ OwnEntryKept'
      BY <1>1, <1>2, <3>1 DEF CopiesHoldSafeKeys, OwnEntryKept, SafeKeys, VaultRequest
    <3>3. FileReadable'
      <4>1. CASE cut'
        BY <4>1 DEF FileReadable
      <4>2. CASE vaultPc[k] # "writing" /\ UNCHANGED <<vaultFile, cut>>
        BY <1>2, <3>1, <4>2, UntouchedFile DEF VaultInv, VaultRequest
      <4> QED BY <3>1, <4>1, <4>2
    <3> QED BY <3>2, <3>3
  <2>5. CASE Fund(k)
    <3>1. /\ vaultPc'[k] \in {"created", "unfunded"} /\ vaultPc[k] = "stored"
          /\ UNCHANGED <<vaultFile, vaultBuffer, vaultData, mixed, cut>>
      BY <1>1, <2>5 DEF Fund, VaultGoto, VaultTyping
    <3>2. CopiesHoldSafeKeys' /\ OwnEntryKept'
      BY <1>1, <1>2, <3>1 DEF CopiesHoldSafeKeys, OwnEntryKept, SafeKeys, VaultRequest
    <3>3. FileReadable'
      BY <1>2, <3>1, UntouchedFile DEF VaultInv, VaultRequest
    <3> QED BY <3>2, <3>3
  <2> QED BY <2>1, <2>2, <2>3, <2>4, <2>5
<1> QED BY <1>2, <1>4, <1>5 DEF VaultInv

LEMMA WriteFileInv ==
  ASSUME VaultInv, NEW k \in Key, WriteFile(k)
  PROVE  VaultInv'
<1>1. /\ VaultTyping /\ UndisturbedAlone /\ CopiesHoldSafeKeys /\ OwnEntryKept
      /\ k \in VaultRequest /\ vaultPc[k] = "writing"
      /\ vaultFile' = FileHolding(vaultBuffer[k]) \/ (vaultFile' = TornFile /\ k \in mixed')
      /\ managed' = managed \cup {k}
      /\ UNCHANGED <<vaultData, disturbed>>
  BY DEF VaultInv, WriteFile, VaultRequest
<1>2. /\ VaultTyping' /\ \A s \in VaultRequest : s # k => vaultPc'[s] = vaultPc[s]
      /\ vaultPc'[k] = "stored"
      /\ \A s \in VaultRequest : s # k => vaultBuffer'[s] = vaultBuffer[s]
  BY <1>1 DEF WriteFile, VaultGoto, VaultTyping, VaultPlace
<1>3. AtWork(k) /\ ~AtWork(k)' /\ \A s \in VaultRequest : AtWork(s)' => AtWork(s)
  BY <1>1, <1>2 DEF AtWork, AtRest
<1>4. UndisturbedAlone'
  BY <1>1, <1>3 DEF UndisturbedAlone, VaultRequest
<1>5. OwnEntryKept'
  BY <1>1, <1>2 DEF OwnEntryKept, VaultRequest
<1>6. FileReadable'
  BY <1>1 DEF FileReadable, FileHolding
<1>7. vaultFile'.valid => vaultFile'.keys = vaultBuffer[k]
  BY <1>1 DEF FileHolding, TornFile
<1>8. CASE k \in disturbed
  <2>1. SafeKeys' = SafeKeys
    BY <1>1, <1>8 DEF SafeKeys
  <2>2. CopiesHoldSafeKeys'
    BY <1>1, <1>2, <1>7, <2>1 DEF CopiesHoldSafeKeys
  <2> QED BY <1>2, <1>4, <1>5, <1>6, <2>2 DEF VaultInv
<1>9. CASE k \notin disturbed
  <2>1. \A s \in VaultRequest : ~AtWork(s)'
    BY <1>1, <1>2, <1>3, <1>9 DEF UndisturbedAlone
  <2>2. \A s \in VaultRequest :
            vaultPc'[s] \notin {"parsed", "opening", "writing", "deriving", "saving"}
    BY <2>1 DEF AtWork, AtRest
  <2>3. k \in vaultBuffer[k] /\ SafeKeys \subseteq vaultBuffer[k]
    BY <1>1, <1>9 DEF OwnEntryKept, CopiesHoldSafeKeys
  <2>4. CopiesHoldSafeKeys'
    BY <1>1, <1>7, <2>2, <2>3 DEF CopiesHoldSafeKeys, SafeKeys
  <2> QED BY <1>2, <1>4, <1>5, <1>6, <2>4 DEF VaultInv
<1> QED BY <1>8, <1>9

\* After a crash nobody is at work, and the file is what somebody wrote, or torn.
LEMMA VaultCrashInv ==
  ASSUME VaultInv, VaultCrash
  PROVE  VaultInv'
<1>1. /\ VaultTyping /\ CopiesHoldSafeKeys /\ FileReadable
      /\ UNCHANGED <<mixed, managed, disturbed>> /\ DOMAIN vaultBuffer' = VaultRequest
  BY DEF VaultInv, VaultCrash
<1>2. VaultTyping' /\ \A r \in VaultRequest : vaultPc'[r] \in AtRest
  BY <1>1 DEF VaultCrash, VaultTyping, VaultPlace, AtRest, AtWork
<1>3. \A r \in VaultRequest : ~AtWork(r)'
  BY <1>2 DEF AtWork
<1>4. vaultFile'.valid => SafeKeys' \subseteq vaultFile'.keys
  BY <1>1 DEF VaultCrash, CopiesHoldSafeKeys, SafeKeys, TornFile, FileHolding, VaultRequest
<1>5. FileReadable'
  <2>1. CASE cut'
    BY <2>1 DEF FileReadable
  <2>2. CASE ~cut'
    <3>1. /\ ~cut /\ UNCHANGED vaultFile
          /\ \A k \in Key : vaultPc[k] # "writing"
      BY <2>2 DEF VaultCrash
    <3> QED BY <1>1, <3>1 DEF FileReadable, Writing
  <2> QED BY <2>1, <2>2
<1> QED BY <1>1, <1>2, <1>3, <1>4, <1>5 DEF VaultInv, UndisturbedAlone, CopiesHoldSafeKeys,
        OwnEntryKept, VaultRequest, AtRest

LEMMA VaultNextInv ==
  ASSUME VaultInv, [VaultNext]_vaultVars
  PROVE  VaultInv'
<1>1. CASE UNCHANGED vaultVars
  BY <1>1 DEF vaultVars, VaultInv, VaultTyping, UndisturbedAlone, CopiesHoldSafeKeys,
              OwnEntryKept, SafeKeys, AtWork, FileReadable, Writing
<1> QED BY <1>1, VaultCrashInv, ReadVaultInv, AssignVaultDataInv, StoreKeyInv, WriteFileInv
        DEF VaultNext

LEMMA VaultSafe == VaultInv => UndisturbedKeysKept /\ FileReadable
BY DEF VaultInv, UndisturbedKeysKept, CopiesHoldSafeKeys, SafeKeys, FileOutcomes, VaultRequest

(* The wallet can still read the keys that were stored undisturbed as long *)
(* as the vault can be read, the vault as long as its writes were neither  *)
(* mixed nor cut, and the seeds of the versions that were not misused.     *)
THEOREM KeysStayReadable == BackendSpec => []KeysReadable
<1>1. BackendInit => VaultInv /\ KeyVersionsInv
  BY VaultInitInv, KeyVersionsInitInv DEF BackendInit
<1>2. VaultInv /\ KeyVersionsInv /\ [BackendNext]_backendVars => (VaultInv /\ KeyVersionsInv)'
  BY ComponentStep, VaultNextInv, KeyVersionsNextInv
<1>3. VaultInv /\ KeyVersionsInv => KeysReadable
  BY VaultSafe, SeedsSafe DEF KeysReadable
<1> QED BY <1>1, <1>2, <1>3, PTL DEF BackendSpec

-----------------------------------------------------------------------------
(* Delegations: as long as no request naming a field has committed since   *)
(* an update read it, the update knows the field as it is.                 *)

DelegationRow == [Field -> FieldValue]
DelegationsTyping ==
    /\ DOMAIN delegationPc = DelegationCall
    /\ DOMAIN readRow = DelegationCall
    /\ DOMAIN askedFor = DelegationCall
    /\ DOMAIN passed = DelegationCall
    /\ \A c \in DelegationCall : Updating(c) =>
        /\ delegation # Absent
        /\ askedFor[c] \in DelegationRow
        /\ readRow[c] \in DelegationRow
    /\ delegation # Absent => delegation \in DelegationRow
KnowsRow(c) ==
    \A f \in Field : f # "maxTotal" /\ f \notin passed[c] => readRow[c][f] = delegation[f]
DelegationsInv ==
    /\ DelegationsTyping
    /\ \A c \in DelegationCall : Updating(c) => KnowsRow(c)
    /\ LastRequestWins
    /\ delegation = Absent => requested = Absent /\ overtaken = {}
    /\ \A c \in DelegationCall : ~Updating(c) => passed[c] = {}

LEMMA RowNotAbsent == Absent \notin DelegationRow
BY DelegationRowsConstants DEF DelegationRow

LEMMA BodyIsRow == \A body \in Bodies : body \in DelegationRow
BY DelegationRowsConstants DEF DelegationRow

LEMMA DelegationsInitInv == DelegationsInit => DelegationsInv
BY DEF DelegationsInit, DelegationsInv, DelegationsTyping, Updating, LastRequestWins

LEMMA CreateDelegationInv ==
  ASSUME DelegationsInv, NEW c \in DelegationCall, CreateDelegation(c)
  PROVE  DelegationsInv'
<1>1. PICK body \in Bodies : delegation' = [body EXCEPT !["status"] = "active"]
  BY DEF CreateDelegation
<1>2. delegation' \in DelegationRow /\ delegation' # Absent
  BY <1>1, BodyIsRow, RowNotAbsent DEF DelegationRow, FieldValue, Field
<1>3. \A d \in DelegationCall : ~Updating(d)' /\ ~Updating(d)
  BY DEF CreateDelegation, DelegationGoto, Updating, DelegationsInv, DelegationsTyping
<1>4. /\ requested' = delegation' /\ UNCHANGED <<rowLock, readRow, askedFor, passed, overtaken>>
      /\ DOMAIN delegationPc' = DelegationCall
  BY DEF CreateDelegation, DelegationGoto, DelegationsInv, DelegationsTyping
<1>5. DelegationsTyping'
  BY <1>2, <1>3, <1>4 DEF DelegationsInv, DelegationsTyping
<1> QED BY <1>2, <1>3, <1>4, <1>5 DEF DelegationsInv, LastRequestWins

LEMMA ReadRowInv ==
  ASSUME DelegationsInv, NEW c \in DelegationCall, NEW body \in DelegationRow,
         ReadForUpdate(c, body)
  PROVE  DelegationsInv'
<1>1. /\ delegation # Absent /\ ~Updating(c) /\ passed[c] = {}
      /\ UNCHANGED <<delegation, requested, passed, overtaken>>
      /\ readRow'[c] = delegation /\ askedFor'[c] = body /\ Updating(c)'
      /\ \A d \in DelegationCall : d # c =>
            /\ readRow'[d] = readRow[d] /\ askedFor'[d] = askedFor[d]
            /\ Updating(d)' <=> Updating(d)
      /\ DOMAIN delegationPc' = DelegationCall /\ DOMAIN readRow' = DelegationCall
      /\ DOMAIN askedFor' = DelegationCall
  BY DEF ReadForUpdate, DelegationGoto, Updating, DelegationsInv, DelegationsTyping
<1>2. DelegationsTyping'
  BY <1>1 DEF DelegationsInv, DelegationsTyping
<1>3. \A d \in DelegationCall : Updating(d)' => KnowsRow(d)'
  BY <1>1 DEF DelegationsInv, KnowsRow
<1> QED BY <1>1, <1>2, <1>3 DEF DelegationsInv, LastRequestWins

LEMMA ReadMerchantsInv ==
  ASSUME DelegationsInv, NEW c \in DelegationCall, ReadMerchants(c)
  PROVE  DelegationsInv'
<1>1. /\ delegation # Absent /\ Updating(c) /\ readRow[c] \in DelegationRow
      /\ delegation \in DelegationRow /\ "merchants" \in Field /\ KnowsRow(c)
      /\ readRow' = [readRow EXCEPT ![c]["merchants"] = delegation["merchants"]]
      /\ passed' = [passed EXCEPT ![c] = @ \ {"merchants"}]
      /\ UNCHANGED <<delegation, askedFor, requested, overtaken>>
      /\ \A d \in DelegationCall : Updating(d)' <=> Updating(d)
      /\ DOMAIN delegationPc' = DelegationCall /\ DOMAIN passed = DelegationCall
      /\ DOMAIN readRow = DelegationCall
  BY DEF ReadMerchants, DelegationGoto, Updating, DelegationsInv, DelegationsTyping, Field
<1>2. /\ readRow'[c] = [readRow[c] EXCEPT !["merchants"] = delegation["merchants"]]
      /\ passed'[c] = passed[c] \ {"merchants"}
      /\ \A d \in DelegationCall : d # c => readRow'[d] = readRow[d] /\ passed'[d] = passed[d]
      /\ DOMAIN readRow' = DelegationCall /\ DOMAIN passed' = DelegationCall
  BY <1>1
<1>3. readRow'[c] \in DelegationRow
  BY <1>1, <1>2 DEF DelegationRow
<1>4. DelegationsTyping'
  BY <1>1, <1>2, <1>3 DEF DelegationsInv, DelegationsTyping
<1>5. KnowsRow(c)'
  BY <1>1, <1>2 DEF KnowsRow, DelegationRow
<1>6. \A d \in DelegationCall : Updating(d)' => KnowsRow(d)'
  BY <1>1, <1>2, <1>5 DEF DelegationsInv, KnowsRow
<1>7. \A d \in DelegationCall : ~Updating(d)' => passed'[d] = {}
  BY <1>1, <1>2 DEF DelegationsInv
<1> QED BY <1>1, <1>4, <1>6, <1>7 DEF DelegationsInv, LastRequestWins

LEMMA CommitUpdateInv ==
  ASSUME DelegationsInv, NEW c \in DelegationCall, CommitUpdate(c)
  PROVE  DelegationsInv'
<1>1. /\ Updating(c) /\ delegation # Absent /\ askedFor[c] \in DelegationRow
      /\ readRow[c] \in DelegationRow /\ delegation \in DelegationRow /\ KnowsRow(c)
  BY DEF CommitUpdate, Updating, DelegationsInv, DelegationsTyping
<1>2. /\ delegation' = [f \in Field |-> IF Writes(c, f) THEN askedFor[c][f] ELSE delegation[f]]
      /\ requested' = [f \in Field |-> IF f \in Named(c) THEN askedFor[c][f] ELSE requested[f]]
      /\ passed' = [d \in DelegationCall |->
              IF d # c /\ Updating(d) THEN passed[d] \cup Named(c) ELSE {}]
      /\ overtaken' = (overtaken \ Named(c)) \cup (Named(c) \cap passed[c])
  BY DEF CommitUpdate
<1>3. /\ \A d \in DelegationCall : Updating(d)' => d # c /\ Updating(d)
      /\ \A d \in DelegationCall : d # c /\ Updating(d) => Updating(d)'
      /\ \A d \in DelegationCall : d # c =>
            readRow'[d] = readRow[d] /\ askedFor'[d] = askedFor[d]
      /\ DOMAIN delegationPc' = DelegationCall /\ DOMAIN readRow' = DelegationCall
      /\ DOMAIN askedFor' = DelegationCall /\ DOMAIN passed' = DelegationCall
  BY <1>2 DEF CommitUpdate, EndTransaction, DelegationGoto, Updating,
              DelegationsInv, DelegationsTyping
<1>4. delegation' \in DelegationRow /\ delegation' # Absent
  BY <1>1, <1>2, RowNotAbsent DEF DelegationRow
<1>5. DelegationsTyping'
  BY <1>3, <1>4 DEF DelegationsInv, DelegationsTyping
<1>6. \A f \in Field : f \notin Named(c) =>
          delegation'[f] = delegation[f] /\ requested'[f] = requested[f]
  BY <1>2 DEF Writes
<1>7. \A f \in Named(c) : f \in Field /\ requested'[f] = askedFor[c][f]
  BY <1>2 DEF Named
<1>8. \A f \in Named(c) : f = "maxTotal" \/ f \notin passed[c] =>
          delegation'[f] = askedFor[c][f]
  BY <1>1, <1>2, <1>7 DEF Writes, KnowsRow
<1>9. LastRequestWins'
  <2> SUFFICES ASSUME NEW f \in Field, f = "maxTotal" \/ f \notin overtaken'
               PROVE  delegation'[f] = requested'[f]
    BY DEF LastRequestWins
  <2>1. CASE f \in Named(c)
    BY <1>2, <1>7, <1>8, <2>1
  <2>2. CASE f \notin Named(c)
    BY <1>1, <1>2, <1>6, <2>2 DEF DelegationsInv, LastRequestWins
  <2> QED BY <2>1, <2>2
<1>10. \A d \in DelegationCall : Updating(d)' => KnowsRow(d)'
  <2> SUFFICES ASSUME NEW d \in DelegationCall, Updating(d)', NEW f \in Field,
                      f # "maxTotal", f \notin passed'[d]
               PROVE  readRow'[d][f] = delegation'[f]
    BY DEF KnowsRow
  <2>1. d # c /\ Updating(d) /\ f \notin passed[d] /\ f \notin Named(c)
    BY <1>2, <1>3
  <2>2. readRow[d][f] = delegation[f]
    BY <2>1 DEF DelegationsInv, KnowsRow
  <2> QED BY <1>3, <1>6, <2>1, <2>2
<1>11. \A d \in DelegationCall : ~Updating(d)' => passed'[d] = {}
  BY <1>2, <1>3
<1> QED BY <1>4, <1>5, <1>9, <1>10, <1>11 DEF DelegationsInv

LEMMA DelegationsNextInv ==
  ASSUME DelegationsInv, [DelegationsNext]_delegationVars
  PROVE  DelegationsInv'
<1>1. ASSUME NEW c \in DelegationCall,
             RefuseDelegationCall(c) \/ RollBackUpdate(c) \/ WriteRow(c)
      PROVE  DelegationsInv'
  <2>1. /\ UNCHANGED <<delegation, requested, overtaken>>
        /\ \A d \in DelegationCall :
              /\ Updating(d)' => /\ Updating(d) /\ readRow'[d] = readRow[d]
                                 /\ askedFor'[d] = askedFor[d]
              /\ passed'[d] = IF Updating(d)' THEN passed[d] ELSE {}
        /\ DOMAIN delegationPc' = DelegationCall /\ DOMAIN readRow' = DelegationCall
        /\ DOMAIN askedFor' = DelegationCall /\ DOMAIN passed' = DelegationCall
    BY <1>1 DEF RefuseDelegationCall, RollBackUpdate, WriteRow, EndTransaction, DelegationGoto,
                Updating, DelegationsInv, DelegationsTyping
  <2>2. DelegationsTyping'
    BY <2>1 DEF DelegationsInv, DelegationsTyping
  <2>3. \A d \in DelegationCall : Updating(d)' => KnowsRow(d)'
    BY <2>1 DEF DelegationsInv, KnowsRow
  <2> QED BY <2>1, <2>2, <2>3 DEF DelegationsInv, LastRequestWins
<1>2. ASSUME NEW c \in DelegationCall, ReadForRevoke(c) PROVE DelegationsInv'
  <2>1. [f \in Field |-> IF f = "status" THEN "revoked" ELSE Absent] \in DelegationRow
    BY DEF DelegationRow, FieldValue
  <2> QED BY <1>2, <2>1, ReadRowInv DEF ReadForRevoke
<1>3. CASE UNCHANGED delegationVars
  BY <1>3 DEF delegationVars, DelegationsInv, DelegationsTyping, KnowsRow, LastRequestWins, Updating
<1> QED BY <1>1, <1>2, <1>3, CreateDelegationInv, ReadRowInv, ReadMerchantsInv, BodyIsRow,
           CommitUpdateInv DEF DelegationsNext

(* Each field of a delegation is as the last request that named it wanted  *)
(* it, unless that request was passed by another that named it too.        *)
THEOREM LastRequestAlwaysWins == BackendSpec => []LastRequestWins
<1>1. BackendInit => DelegationsInv
  BY DelegationsInitInv DEF BackendInit
<1>2. DelegationsInv /\ [BackendNext]_backendVars => DelegationsInv'
  BY ComponentStep, DelegationsNextInv
<1>3. DelegationsInv => LastRequestWins
  BY DEF DelegationsInv
<1> QED BY <1>1, <1>2, <1>3, PTL DEF BackendSpec

-----------------------------------------------------------------------------
(* Payments: what the wallet holds or the ledger has belongs to a call     *)
(* that reached the wallet, and a failed call the wallet may still send is *)
(* one whose fate was not learned.                                         *)

PaymentPlace == {"new", "estimating", "calling", "waiting", "done", "failed"}
PaymentsTyping ==
    /\ paymentPc \in [PaymentCall -> PaymentPlace]
    /\ DOMAIN paymentRequest = PaymentCall
    /\ DOMAIN ledger = PaymentCall
    /\ publishing \in [PaymentCall -> {"nothing", "transaction", "error"}]
Submitted(c) == ledger[c] = "succeeded" \/ c \in walletHolds
SubmittedCalls ==
    /\ walletHolds \subseteq PaymentCall
    /\ \A c \in PaymentCall : Submitted(c) =>
        /\ paymentPc[c] \in {"waiting", "done", "failed"}
        /\ paymentPc[c] = "failed" => c \in unseen
Told(c, payload) == paymentPc[c] = IF payload = "transaction" THEN "done" ELSE "failed"
PublishingTrue == \A c \in PaymentCall : publishing[c] # "nothing" => Told(c, publishing[c])
StreamTrue == \A e \in stream : e.call \in PaymentCall /\ Told(e.call, e.payload)
PaymentsInv == PaymentsTyping /\ SubmittedCalls /\ PublishingTrue /\ StreamTrue

LEMMA PaymentsInitInv == PaymentsInit => PaymentsInv
BY DEF PaymentsInit, PaymentsInv, PaymentsTyping, SubmittedCalls, PublishingTrue, StreamTrue,
       PaymentPlace, Submitted

(* A call moves on, tells what it publishes, and hands itself to the       *)
(* wallet or takes itself back; all the others stay where they are.        *)
LEMMA MoveCallInv ==
  ASSUME PaymentsInv, NEW c \in PaymentCall, paymentPc[c] \notin {"done", "failed"},
         NEW place \in PaymentPlace \ {"new"}, paymentPc' = [paymentPc EXCEPT ![c] = place],
         NEW payload \in {"nothing", "transaction", "error"},
         publishing' = [publishing EXCEPT ![c] = payload],
         payload # "nothing" => place = IF payload = "transaction" THEN "done" ELSE "failed",
         walletHolds' \subseteq walletHolds \cup {c}, unseen \subseteq unseen',
         \A d \in PaymentCall : d # c => (d \in walletHolds' <=> d \in walletHolds),
         ledger[c] = "succeeded" \/ c \in walletHolds' =>
            place \in {"waiting", "done", "failed"} /\ (place = "failed" => c \in unseen'),
         DOMAIN paymentRequest' = PaymentCall, UNCHANGED <<ledger, stream>>
  PROVE  PaymentsInv'
<1>1. /\ paymentPc' \in [PaymentCall -> PaymentPlace] /\ paymentPc'[c] = place
      /\ publishing'[c] = payload
      /\ publishing' \in [PaymentCall -> {"nothing", "transaction", "error"}]
      /\ \A d \in PaymentCall : d # c =>
            paymentPc'[d] = paymentPc[d] /\ publishing'[d] = publishing[d]
  BY DEF PaymentsInv, PaymentsTyping
<1>2. PaymentsTyping'
  BY <1>1 DEF PaymentsInv, PaymentsTyping
<1>3. SubmittedCalls'
  <2>1. walletHolds' \subseteq PaymentCall
    BY DEF PaymentsInv, SubmittedCalls
  <2>2. ASSUME NEW d \in PaymentCall, Submitted(d)'
        PROVE  /\ paymentPc'[d] \in {"waiting", "done", "failed"}
               /\ paymentPc'[d] = "failed" => d \in unseen'
    BY <1>1, <2>2 DEF PaymentsInv, SubmittedCalls, Submitted
  <2> QED BY <2>1, <2>2 DEF SubmittedCalls
<1>4. PublishingTrue'
  BY <1>1 DEF PaymentsInv, PublishingTrue, Told
<1>5. StreamTrue'
  BY <1>1 DEF PaymentsInv, StreamTrue, Told
<1> QED BY <1>2, <1>3, <1>4, <1>5 DEF PaymentsInv

LEMMA ReceiveInv ==
  ASSUME PaymentsInv, NEW c \in PaymentCall, NEW r \in PaymentRequests, Receive(c, r)
  PROVE  PaymentsInv'
<1>1. /\ paymentPc[c] = "new" /\ UNCHANGED <<walletHolds, ledger, stream, unseen>>
      /\ DOMAIN paymentRequest' = PaymentCall /\ publishing[c] \in {"nothing", "transaction", "error"}
      /\ publishing' = [publishing EXCEPT ![c] = publishing[c]]
            \/ publishing' = [publishing EXCEPT ![c] = "error"]
  BY DEF Receive, walletService, PaymentsInv, PaymentsTyping
<1>2. publishing[c] = "nothing"
  BY <1>1 DEF PaymentsInv, PublishingTrue, Told
<1>3. \/ /\ paymentPc' = [paymentPc EXCEPT ![c] = "estimating"]
         /\ publishing' = [publishing EXCEPT ![c] = "nothing"]
      \/ /\ paymentPc' = [paymentPc EXCEPT ![c] = "failed"]
         /\ \/ publishing' = [publishing EXCEPT ![c] = "nothing"]
            \/ publishing' = [publishing EXCEPT ![c] = "error"]
  BY <1>1, <1>2 DEF Receive, AnswersWith
<1>4. ~Submitted(c)
  BY <1>1 DEF PaymentsInv, SubmittedCalls
<1> QED BY <1>1, <1>3, <1>4, MoveCallInv DEF Submitted, PaymentPlace

LEMMA WalletSendsInv ==
  ASSUME PaymentsInv, NEW c \in PaymentCall, WalletSends(c)
  PROVE  PaymentsInv'
<1>1. /\ c \in walletHolds /\ DOMAIN ledger' = PaymentCall
      /\ \A d \in PaymentCall : d # c => ledger'[d] = ledger[d]
      /\ UNCHANGED <<paymentPc, paymentRequest, walletHolds, publishing, stream, unseen>>
  BY DEF WalletSends, PaymentsInv, PaymentsTyping
<1>2. \A d \in PaymentCall : Submitted(d)' => Submitted(d)
  BY <1>1 DEF Submitted
<1> QED BY <1>1, <1>2 DEF PaymentsInv, PaymentsTyping, SubmittedCalls, PublishingTrue, StreamTrue, Told

LEMMA WalletReceivesInv ==
  ASSUME PaymentsInv, NEW c \in PaymentCall, EstimateFee(c) \/ WalletReceives(c)
  PROVE  PaymentsInv'
<1>1. /\ paymentPc[c] \in {"estimating", "calling"}
      /\ \/ paymentPc' = [paymentPc EXCEPT ![c] = "calling"] /\ UNCHANGED walletHolds
         \/ paymentPc' = [paymentPc EXCEPT ![c] = "waiting"] /\ walletHolds' = walletHolds \cup {c}
      /\ UNCHANGED <<paymentRequest, publishing, ledger, stream, unseen>>
  BY DEF EstimateFee, WalletReceives, walletService
<1>2. publishing[c] = "nothing" /\ publishing' = [publishing EXCEPT ![c] = "nothing"]
  BY <1>1 DEF PaymentsInv, PaymentsTyping, PublishingTrue, Told
<1>3. ~Submitted(c) /\ DOMAIN paymentRequest' = PaymentCall
  BY <1>1 DEF PaymentsInv, PaymentsTyping, SubmittedCalls
<1> QED BY <1>1, <1>2, <1>3, MoveCallInv DEF Submitted, PaymentPlace

LEMMA WalletAnswersInv ==
  ASSUME PaymentsInv, NEW c \in PaymentCall, WalletAnswers(c)
  PROVE  PaymentsInv'
<1>1. /\ paymentPc[c] = "waiting" /\ paymentPc' = [paymentPc EXCEPT ![c] = "done"]
      /\ walletHolds' = walletHolds \ {c} /\ UNCHANGED <<paymentRequest, ledger, stream, unseen>>
      /\ \/ UNCHANGED publishing
         \/ publishing' = [publishing EXCEPT ![c] = "transaction"]
  BY DEF WalletAnswers, AnswersWith
<1>2. publishing[c] = "nothing" /\ DOMAIN paymentRequest' = PaymentCall
  BY <1>1 DEF PaymentsInv, PaymentsTyping, PublishingTrue, Told
<1>3. \/ publishing' = [publishing EXCEPT ![c] = "nothing"]
      \/ publishing' = [publishing EXCEPT ![c] = "transaction"]
  BY <1>1, <1>2 DEF PaymentsInv, PaymentsTyping
<1> QED BY <1>1, <1>2, <1>3, MoveCallInv DEF PaymentPlace

LEMMA SubmissionFailsInv ==
  ASSUME PaymentsInv, NEW c \in PaymentCall, SubmissionFails(c)
  PROVE  PaymentsInv'
<1>1. /\ paymentPc[c] \in {"calling", "waiting"}
      /\ paymentPc' = [paymentPc EXCEPT ![c] = "failed"]
      /\ \/ UNCHANGED publishing
         \/ publishing' = [publishing EXCEPT ![c] = "error"]
      /\ \/ ledger[c] # "succeeded" /\ walletHolds' = walletHolds \ {c} /\ UNCHANGED unseen
         \/ unseen' = unseen \cup {c} /\ UNCHANGED walletHolds
      /\ UNCHANGED <<paymentRequest, ledger, stream>>
  BY DEF SubmissionFails, AnswersWith
<1>2. publishing[c] = "nothing" /\ DOMAIN paymentRequest' = PaymentCall
  BY <1>1 DEF PaymentsInv, PaymentsTyping, PublishingTrue, Told
<1>3. \/ publishing' = [publishing EXCEPT ![c] = "nothing"]
      \/ publishing' = [publishing EXCEPT ![c] = "error"]
  BY <1>1, <1>2 DEF PaymentsInv, PaymentsTyping
<1> QED BY <1>1, <1>2, <1>3, MoveCallInv DEF PaymentPlace

LEMMA PublishPaymentEventInv ==
  ASSUME PaymentsInv, NEW c \in PaymentCall, PublishPaymentEvent(c)
  PROVE  PaymentsInv'
<1>1. /\ publishing[c] # "nothing"
      /\ stream' \in {stream, stream \cup {EventOf(c)}}
      /\ publishing' = [publishing EXCEPT ![c] = "nothing"]
      /\ UNCHANGED <<paymentPc, paymentRequest, walletHolds, ledger, unseen>>
  BY DEF PublishPaymentEvent, walletService
<1>2. PaymentsTyping' /\ SubmittedCalls'
  BY <1>1 DEF PaymentsInv, PaymentsTyping, SubmittedCalls, Submitted
<1>3. PublishingTrue'
  BY <1>1 DEF PaymentsInv, PaymentsTyping, PublishingTrue, Told
<1>4. EventOf(c).call = c /\ EventOf(c).payload = publishing[c] /\ Told(c, publishing[c])
  BY <1>1 DEF PaymentsInv, PublishingTrue, EventOf
<1>5. StreamTrue'
  BY <1>1, <1>4 DEF PaymentsInv, StreamTrue, Told
<1> QED BY <1>2, <1>3, <1>5 DEF PaymentsInv

LEMMA PaymentsNextInv ==
  ASSUME PaymentsInv, [PaymentsNext]_paymentVars
  PROVE  PaymentsInv'
<1>1. CASE FeeEstimateExpires \/ UNCHANGED paymentVars
  <2>1. UNCHANGED <<paymentPc, paymentRequest, walletHolds, ledger, publishing, stream, unseen>>
    BY <1>1 DEF FeeEstimateExpires, paymentVars, walletService
  <2> QED BY <2>1 DEF PaymentsInv, PaymentsTyping, SubmittedCalls, Submitted,
                      PublishingTrue, StreamTrue, Told
<1> QED BY <1>1, ReceiveInv, WalletSendsInv, WalletReceivesInv, WalletAnswersInv,
           SubmissionFailsInv, PublishPaymentEventInv DEF PaymentsNext, Proceed

LEMMA PaymentsSafe == PaymentsInv => SettlementEventsTrue
BY DEF PaymentsInv, SettlementEventsTrue, SubmittedCalls, Submitted, StreamTrue, Told

(* A settlement tells its caller and the stream the same, and neither of   *)
(* them that it failed once the wallet has answered it, whatever becomes   *)
(* of its event and of any number of calls at the wallet.                  *)
THEOREM EventsAreTrue == BackendSpec => []SettlementEventsTrue
<1>1. BackendInit => PaymentsInv
  BY PaymentsInitInv DEF BackendInit
<1>2. PaymentsInv /\ [BackendNext]_backendVars => PaymentsInv'
  BY ComponentStep, PaymentsNextInv
<1>3. PaymentsInv => SettlementEventsTrue
  BY PaymentsSafe
<1> QED BY <1>1, <1>2, <1>3, PTL DEF BackendSpec
=============================================================================

------------------------------- MODULE Payments -------------------------------
(***************************************************************************)
(* The payments service: its HTTP routes, settlement, the calls both make  *)
(* to the wallet service, and the events settlement publishes              *)
(* (payments/src/routes.ts, validation.ts, escrow/, settlement/, events/). *)
(*                                                                         *)
(* The wallet service is that of this repository (wallet/src/routes.ts,    *)
(* queue/txQueue.ts), seen from outside: a call it has taken may be sent   *)
(* to the ledger later, and more than once, whatever became of the answer. *)
(* Whether a transaction of a call succeeds on the ledger depends on the   *)
(* contract and on others who call it, and is left open; none is sent for  *)
(* an entry point the contract does not have.                              *)
(***************************************************************************)
EXTENDS Integers, Sequences

CONSTANTS
    PaymentCall,        \* calls of the routes and of coordinateSettlement
    PaymentRequests,    \* requests tried: [op, key, json] and the fields they have
    EntryPoints,        \* external: what the contract has, as <<method, arguments>>
    FeeStats,           \* fees Horizon may report, in stroops
    FallbackFee         \* DEFAULT_FALLBACK_FEE

ASSUME PaymentsConstants ==
    /\ FeeStats \subseteq Nat /\ FallbackFee \in Nat \ {0}
    /\ \A r \in PaymentRequests : r.op \in {"initialize", "deposit", "release", "refund", "settle"}

VARIABLES
    paymentConfig,      \* the environment: [contract, settlementSource]
    paymentPc,          \* where each call is
    paymentRequest,     \* what it asks for
    paymentAnswer,      \* its error code, or "ok"
    feeCache,           \* the cached estimate, 0 if none
    walletHolds,        \* calls the wallet service may yet send to the ledger
    ledger,             \* external: what became there of each call
    publishing,         \* what the event each settlement is publishing carries
    stream,             \* payments:events, as [call, type, payload]
    unseen              \* observation only: calls whose fate was not learned

paymentVars == <<paymentConfig, paymentPc, paymentRequest, paymentAnswer, feeCache,
                 walletHolds, ledger, publishing, stream, unseen>>
walletService == <<walletHolds, ledger>>

NoRequest == [op |-> "none"]

PaymentsInit ==
    /\ paymentConfig \in [contract : BOOLEAN, settlementSource : BOOLEAN]
    /\ paymentPc = [c \in PaymentCall |-> "new"]
    /\ paymentRequest = [c \in PaymentCall |-> NoRequest]
    /\ paymentAnswer = [c \in PaymentCall |-> "none"]
    /\ feeCache = 0
    /\ walletHolds = {} /\ ledger = [c \in PaymentCall |-> "nothing"]
    /\ publishing = [c \in PaymentCall |-> "nothing"]
    /\ stream = {} /\ unseen = {}

-----------------------------------------------------------------------------
(* Validation.  A field is "ok", "missing" or "invalid".                   *)

\* validateIdempotencyKey
KeyError(key) ==
    CASE key = "missing"                     -> "MISSING_IDEMPOTENCY_KEY"
      [] key \in {"short", "long", "garbled"} -> "VALIDATION_ERROR"
      [] OTHER                               -> "ok"

\* The fields of each request, in the order they are looked at.
RequiredFields(op) ==
    CASE op = "initialize"          -> <<"sourceAddress", "adminAddress">>
      [] op = "deposit"             -> <<"sourceAddress", "buyerAddress", "sellerAddress">>
      [] op \in {"release", "refund"} -> <<"sourceAddress", "escrowId">>

\* The first field that is missing or invalid, if any; orderId is optional.
FieldAtFault(request) ==
    LET wrong == SelectSeq(RequiredFields(request.op), LAMBDA f : request[f] # "ok")
    IN  CASE wrong # <<>> -> Head(wrong)
          [] wrong = <<>> /\ request.op = "deposit" /\ request.orderId = "invalid" -> "orderId"
          [] OTHER -> "none"

\* A route answers the first error of these, or goes on.
RouteError(request) ==
    IF request.op # "initialize" /\ KeyError(request.key) # "ok" THEN KeyError(request.key)
    ELSE IF ~request.json \/ FieldAtFault(request) # "none" THEN "VALIDATION_ERROR"
    ELSE IF ~paymentConfig.contract THEN "CONFIG_ERROR"
    ELSE "ok"

\* coordinateSettlement: the escrow id is the order id, which escrowService.release
\* parses as a number; SETTLEMENT_SOURCE_ADDRESS and the contract must be set.
SettlementError(request) ==
    IF paymentConfig.settlementSource /\ paymentConfig.contract /\ request.escrowId = "ok"
    THEN "ok" ELSE "SETTLEMENT_FAILED"

-----------------------------------------------------------------------------
(* A call.                                                                 *)

Settles(c) == paymentRequest[c].op = "settle"
AnswersWith(c, place, code) ==
    /\ paymentPc' = [paymentPc EXCEPT ![c] = place]
    /\ paymentAnswer' = [paymentAnswer EXCEPT ![c] = code]

\* A request is refused, or its fee is estimated next.  A settlement that fails
\* publishes a failure.
Receive(c, request) ==
    LET error == IF request.op = "settle" THEN SettlementError(request)
                 ELSE RouteError(request)
    IN  /\ paymentPc[c] = "new"
        /\ paymentRequest' = [paymentRequest EXCEPT ![c] = request]
        /\ IF error = "ok" THEN AnswersWith(c, "estimating", "none")
                           ELSE AnswersWith(c, "failed", error)
        /\ publishing' = IF error # "ok" /\ request.op = "settle"
                         THEN [publishing EXCEPT ![c] = "error"] ELSE publishing
        /\ UNCHANGED <<paymentConfig, feeCache, walletService, stream, unseen>>

\* estimateTransactionFee: the cached estimate, a new one that is never below the
\* fallback, or the fallback itself when Horizon fails or answers nonsense.  Then
\* the wallet service is called.
EstimateFee(c) ==
    /\ paymentPc[c] = "estimating"
    /\ paymentPc' = [paymentPc EXCEPT ![c] = "calling"]
    /\ \/ feeCache # 0 /\ UNCHANGED feeCache
       \/ /\ feeCache = 0
          /\ feeCache' \in {0} \cup {IF fee < FallbackFee THEN FallbackFee ELSE fee : fee \in FeeStats}
    /\ UNCHANGED <<paymentConfig, paymentRequest, paymentAnswer, walletService, publishing,
                   stream, unseen>>

FeeEstimateExpires ==
    /\ feeCache # 0 /\ feeCache' = 0
    /\ UNCHANGED <<paymentConfig, paymentPc, paymentRequest, paymentAnswer, walletService,
                   publishing, stream, unseen>>

\* The method and the number of arguments escrowService calls the contract with.
CallMade(op) ==
    CASE op = "initialize"            -> <<"initialize", 1>>
      [] op = "deposit"               -> <<"create_escrow", 2>>
      [] op \in {"release", "settle"} -> <<"release", 1>>
      [] op = "refund"                -> <<"refund", 1>>

\* The request arrives at the wallet service, which puts it in its queue.
WalletReceives(c) ==
    /\ paymentPc[c] = "calling"
    /\ paymentPc' = [paymentPc EXCEPT ![c] = "waiting"]
    /\ walletHolds' = walletHolds \cup {c}
    /\ UNCHANGED <<paymentConfig, paymentRequest, paymentAnswer, feeCache, ledger,
                   publishing, stream, unseen>>

\* executeTxJob: a transaction that could be simulated is sent, and succeeds or fails
\* on the ledger; the queue may send another for a call of which one failed.
WalletSends(c) ==
    /\ c \in walletHolds /\ CallMade(paymentRequest[c].op) \in EntryPoints
    /\ ledger[c] # "succeeded"
    /\ \E outcome \in {"succeeded", "failed"} : ledger' = [ledger EXCEPT ![c] = outcome]
    /\ UNCHANGED <<paymentConfig, paymentPc, paymentRequest, paymentAnswer, feeCache,
                   walletHolds, publishing, stream, unseen>>

\* The wallet service answers with a transaction that succeeded; or with one that is
\* on the ledger, when it had to ask Horizon, although it failed there.  Nobody looks
\* at its success.  A settlement is complete and publishes its event without waiting.
WalletAnswers(c) ==
    /\ paymentPc[c] = "waiting" /\ ledger[c] # "nothing"
    /\ AnswersWith(c, "done", "ok")
    /\ walletHolds' = walletHolds \ {c}
    /\ publishing' = IF Settles(c) THEN [publishing EXCEPT ![c] = "transaction"] ELSE publishing
    /\ UNCHANGED <<paymentConfig, paymentRequest, feeCache, ledger, stream, unseen>>

\* submitContractCall throws: the wallet could not be reached, refused the call or saw
\* it fail; or it is not known what will become of it (no answer, an answer that is
\* no JSON or has no data, a transaction the wallet gave up waiting for).
SubmissionFails(c) ==
    /\ paymentPc[c] \in {"calling", "waiting"}
    /\ AnswersWith(c, "failed", "OPERATION_FAILED")
    /\ publishing' = IF Settles(c) THEN [publishing EXCEPT ![c] = "error"] ELSE publishing
    /\ \/ /\ ledger[c] # "succeeded"
          /\ walletHolds' = walletHolds \ {c}
          /\ UNCHANGED unseen
       \/ /\ paymentPc[c] = "waiting"
          /\ unseen' = unseen \cup {c}
          /\ UNCHANGED walletHolds
    /\ UNCHANGED <<paymentConfig, paymentRequest, feeCache, ledger, stream>>

\* A settlement has one type of event for what it did and for its failure.
EventOf(c) == [call |-> c, type |-> "settlement_complete", payload |-> publishing[c]]

\* Faulty variant: an event that cannot be published fails the settlement, which
\* then announces a failure.
PublishOrFail(c) ==
    /\ publishing[c] # "nothing"
    /\ \/ /\ stream' = stream \cup {EventOf(c)}
          /\ publishing' = [publishing EXCEPT ![c] = "nothing"]
          /\ UNCHANGED <<paymentPc, paymentAnswer>>
       \/ /\ AnswersWith(c, "failed", "OPERATION_FAILED")
          /\ publishing' = [publishing EXCEPT ![c] =
                                IF @ = "transaction" THEN "error" ELSE "nothing"]
          /\ UNCHANGED stream
    /\ UNCHANGED <<paymentConfig, paymentRequest, feeCache, walletService, unseen>>

\* publishPaymentEvent; a failure is logged.
PublishPaymentEvent(c) ==
    /\ publishing[c] # "nothing"
    /\ stream' \in {stream, stream \cup {EventOf(c)}}
    /\ publishing' = [publishing EXCEPT ![c] = "nothing"]
    /\ UNCHANGED <<paymentConfig, paymentPc, paymentRequest, paymentAnswer, feeCache,
                   walletService, unseen>>

\* The steps of a call that was received.
Proceed(c) ==
    \/ EstimateFee(c) \/ WalletReceives(c) \/ WalletSends(c) \/ WalletAnswers(c)
    \/ SubmissionFails(c) \/ PublishPaymentEvent(c)

PaymentsNext ==
    \/ \E c \in PaymentCall : Proceed(c) \/ \E r \in PaymentRequests : Receive(c, r)
    \/ FeeEstimateExpires

PaymentsSpec == PaymentsInit /\ [][PaymentsNext]_paymentVars

\* A settlement tells its caller and the readers of the stream the same, and neither
\* of them that it failed once the wallet has answered it, whatever becomes of the
\* event: whoever reads of a failure may release again (coordinateSettlement).  Only a
\* settlement whose answer was lost may have failed for both and released.
SettlementEventsTrue ==
    \A c \in PaymentCall : Settles(c) =>
        /\ \A e \in stream :
            e.call = c => paymentPc[c] = IF e.payload = "transaction" THEN "done" ELSE "failed"
        /\ paymentPc[c] = "failed" /\ ledger[c] = "succeeded" => c \in unseen

\* What the comment on the publication says: a settlement publishes its transaction
\* when the funds have moved (coordinateSettlement).
FundsHaveMoved ==
    \A e \in stream : e.payload = "transaction" => ledger[e.call] = "succeeded"

\* What the comment on the failure event says: it is published when the release
\* itself failed (coordinateSettlement).  It does not hold: the answer may be lost
\* after a release.
FailureMeansNotReleased ==
    \A e \in stream : e.payload = "error" => ledger[e.call] # "succeeded"

\* What the contract is said to offer: a call the routes let through and the wallet
\* took is of an entry point the contract has (escrowService).  It does not hold for
\* the contract of this repository.
CallsHaveEntryPoints ==
    \A c \in walletHolds : CallMade(paymentRequest[c].op) \in EntryPoints
================================================================================

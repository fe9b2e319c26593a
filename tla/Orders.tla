-------------------------------- MODULE Orders --------------------------------
(***************************************************************************)
(* One order in the purchase_workflows table: the transitions services ask *)
(* for, the checkout timeout, and the reconciler that compares the order   *)
(* with its escrow (orchestrator/workflows/purchase/index.ts,              *)
(* workflows/checkout/index.ts, src/index.ts).                             *)
(*                                                                         *)
(* transitionWorkflow loads the row, computes the next one and writes it   *)
(* with an upsert that compares nothing; every await of it is a step here. *)
(* The escrow is external: it is funded at most once, whatever the order   *)
(* has become by then, and then released or refunded, for good.  Services  *)
(* report to the order only what became of the escrow, which is assumed of *)
(* callers that are not in the repository; a deposit they take for failed  *)
(* may be there.                                                           *)
(***************************************************************************)
CONSTANTS OrderService  \* calls of transitionWorkflow by other services

VARIABLES
    orderRow,       \* the row: [state, escrowId, error], NoRow before createWorkflow
    orderCall,      \* each caller's transition: the row it will write, or NoRow
    orderEscrow,    \* external: the escrow on the ledger
    timeoutJob,     \* "none", "scheduled", "active" or "failed", in BullMQ
    finding,        \* the row the reconciler looks at: [state, escrowId, status]
    reconciled,     \* what it made of it
    inFlightAtEnd   \* observation only: transitions under way when the order ended

orderVars == <<orderRow, orderCall, orderEscrow, timeoutJob, finding, reconciled,
               inFlightAtEnd>>

NoRow == [state |-> "none", escrowId |-> FALSE, error |-> "none"]
NoFinding == [state |-> "none", escrowId |-> FALSE, status |-> "none"]
Caller == OrderService \cup {"timeout", "reconciler"}

OrdersInit ==
    /\ orderRow = NoRow
    /\ orderCall = [c \in Caller |-> NoRow]
    /\ orderEscrow = "none" /\ timeoutJob = "none"
    /\ finding = NoFinding /\ reconciled = "none" /\ inFlightAtEnd = {}

-----------------------------------------------------------------------------
(* The state machine.                                                      *)

\* TRANSITIONS
Transitions ==
    [INITIATED     |-> [SEARCH |-> "SEARCHING", CANCEL |-> "CANCELLED"],
     SEARCHING     |-> [PRODUCTS_FOUND |-> "FOUND", CANCEL |-> "CANCELLED",
                        TIMEOUT |-> "CANCELLED", FAIL |-> "FAILED"],
     FOUND         |-> [APPROVE |-> "APPROVED", REJECT |-> "CANCELLED",
                        CANCEL |-> "CANCELLED"],
     APPROVED      |-> [ESCROW_FUNDED |-> "ESCROW_FUNDED",
                        ESCROW_FAILED |-> "CANCELLED", CANCEL |-> "CANCELLED"],
     ESCROW_FUNDED |-> [PURCHASE_CONFIRMED |-> "PURCHASED", CANCEL |-> "CANCELLED",
                        FAIL |-> "FAILED"],
     PURCHASED     |-> [DELIVERY_CONFIRMED |-> "DELIVERING", CANCEL |-> "CANCELLED",
                        FAIL |-> "FAILED"],
     DELIVERING    |-> [SETTLE |-> "DELIVERED", FAIL |-> "FAILED"],
     DELIVERED     |-> [SETTLE |-> "COMPLETED"],
     COMPLETED     |-> <<>>, CANCELLED |-> <<>>, FAILED |-> <<>>]

EventType == UNION {DOMAIN Transitions[s] : s \in DOMAIN Transitions}
Ended(row) == row.state \in {"COMPLETED", "CANCELLED", "FAILED"}
Accepts(row, event) ==
    row.state \in DOMAIN Transitions /\ event \in DOMAIN Transitions[row.state]

\* applyEvent, for an event with this reason.
ApplyEvent(row, event, reason) ==
    [state    |-> Transitions[row.state][event],
     escrowId |-> row.escrowId \/ event = "ESCROW_FUNDED",
     error    |-> IF event \in {"ESCROW_FAILED", "CANCEL", "FAIL"} THEN reason ELSE row.error]

-----------------------------------------------------------------------------
(* transitionWorkflow, in two steps.                                       *)

Transitioning(c) == orderCall[c] # NoRow

\* loadWorkflow and applyEvent.
LoadOrder(c, event, reason) ==
    /\ ~Transitioning(c) /\ Accepts(orderRow, event)
    /\ orderCall' = [orderCall EXCEPT ![c] = ApplyEvent(orderRow, event, reason)]

\* Faulty variant: a write whose answer was lost is made again.
PersistOrderAgain(c) ==
    /\ Transitioning(c)
    /\ orderRow' = orderCall[c]
    /\ orderCall' = [orderCall EXCEPT ![c] = NoRow] \/ UNCHANGED orderCall
    /\ inFlightAtEnd' = IF Ended(orderCall[c]) /\ ~Ended(orderRow)
                        THEN {d \in Caller \ {c} : Transitioning(d)}
                        ELSE inFlightAtEnd \ {c}

\* persistWorkflow; publishEvent never fails and changes no state of the order.
PersistOrder(c) ==
    /\ Transitioning(c)
    /\ orderRow' = orderCall[c]
    /\ orderCall' = [orderCall EXCEPT ![c] = NoRow]
    /\ inFlightAtEnd' = IF Ended(orderCall[c]) /\ ~Ended(orderRow)
                        THEN {d \in Caller \ {c} : Transitioning(d)}
                        ELSE inFlightAtEnd \ {c}

\* The database refuses the write, or the process dies before it.
DropOrder(c) ==
    /\ Transitioning(c)
    /\ orderCall' = [orderCall EXCEPT ![c] = NoRow]
    /\ inFlightAtEnd' = inFlightAtEnd \ {c}
    /\ UNCHANGED orderRow

-----------------------------------------------------------------------------
(* Services.                                                               *)

CreateWorkflow ==
    /\ orderRow = NoRow
    /\ orderRow' = [NoRow EXCEPT !.state = "INITIATED"]
    /\ UNCHANGED <<orderCall, orderEscrow, timeoutJob, finding, reconciled, inFlightAtEnd>>

\* Services say that the escrow is funded, or settled, once it is.
Known(event) ==
    /\ event = "ESCROW_FUNDED" => orderEscrow # "none"
    /\ event = "SETTLE" => orderEscrow = "released"

ServiceAsks(c, event) ==
    /\ c \in OrderService /\ Known(event)
    /\ LoadOrder(c, event, "reported")
    /\ UNCHANGED <<orderRow, orderEscrow, timeoutJob, finding, reconciled, inFlightAtEnd>>

ServiceWrites(c) ==
    /\ c \in OrderService
    /\ PersistOrder(c) \/ DropOrder(c)
    /\ UNCHANGED <<orderEscrow, timeoutJob, finding, reconciled>>

-----------------------------------------------------------------------------
(* The checkout timeout.                                                   *)

\* scheduleTimeout: BullMQ ignores the job when one with its id is there, a failed
\* one included.
ScheduleTimeout ==
    /\ orderRow # NoRow /\ timeoutJob = "none" /\ timeoutJob' = "scheduled"
    /\ UNCHANGED <<orderRow, orderCall, orderEscrow, finding, reconciled, inFlightAtEnd>>

\* cancelTimeout: a job that is being worked on is locked and stays.
CancelTimeout ==
    /\ timeoutJob \in {"scheduled", "failed"} /\ timeoutJob' = "none"
    /\ UNCHANGED <<orderRow, orderCall, orderEscrow, finding, reconciled, inFlightAtEnd>>

\* handleTimeout: an order that does not accept CANCEL is left alone; a read that
\* fails fails the job.
TimeoutFires ==
    /\ timeoutJob = "scheduled"
    /\ \/ LoadOrder("timeout", "CANCEL", "checkout_timeout") /\ timeoutJob' = "active"
       \/ ~Accepts(orderRow, "CANCEL") /\ timeoutJob' = "none" /\ UNCHANGED orderCall
       \/ timeoutJob' = "failed" /\ UNCHANGED orderCall
    /\ UNCHANGED <<orderRow, orderEscrow, finding, reconciled, inFlightAtEnd>>

\* A refused write fails the job; a worker that died, before the write or after it,
\* leaves a stalled job that BullMQ gives to the next one.
TimeoutWrites ==
    /\ \/ PersistOrder("timeout") /\ timeoutJob' \in {"none", "scheduled"}
       \/ DropOrder("timeout") /\ timeoutJob' \in {"failed", "scheduled"}
    /\ UNCHANGED <<orderEscrow, finding, reconciled>>

-----------------------------------------------------------------------------
(* The reconciler.                                                         *)

\* reconcileWorkflows selects the orders that have not ended.
ListOrder ==
    /\ finding = NoFinding /\ orderRow # NoRow /\ ~Ended(orderRow)
    /\ finding' = [state |-> orderRow.state, escrowId |-> orderRow.escrowId, status |-> "none"]
    /\ reconciled' = "none"
    /\ UNCHANGED <<orderRow, orderCall, orderEscrow, timeoutJob, inFlightAtEnd>>

\* fetchOnChainEscrowStatus: any failure is "not_found".
FetchStatus ==
    /\ finding # NoFinding /\ finding.status = "none"
    /\ \E status \in {"not_found"} \cup
                     (IF finding.escrowId THEN {orderEscrow} ELSE {}) :
        finding' = [finding EXCEPT !.status = status]
    /\ UNCHANGED <<orderRow, orderCall, orderEscrow, timeoutJob, reconciled, inFlightAtEnd>>

\* Faulty variant: an escrow that cannot be found counts as refunded.
RecommendsOnSilence ==
    CASE finding.state = "ESCROW_FUNDED" /\ finding.status = "released" -> "settle"
      [] finding.state = "ESCROW_FUNDED" /\ finding.status \in {"refunded", "not_found"} -> "refund"
      [] OTHER -> "noop"

\* recommend; the reports it asks an operator to act on change nothing.
Recommends ==
    CASE finding.state = "ESCROW_FUNDED" /\ finding.status = "released" -> "settle"
      [] finding.state = "ESCROW_FUNDED" /\ finding.status = "refunded" -> "refund"
      [] OTHER -> "noop"

Remedy == [settle |-> "SETTLE", refund |-> "CANCEL"]

\* The remediation loads the order again, whatever it is by now.
Remediate ==
    /\ finding.status # "none"
    /\ IF Recommends = "noop"
       THEN finding' = NoFinding /\ UNCHANGED <<orderCall, reconciled>>
       ELSE \/ /\ LoadOrder("reconciler", Remedy[Recommends], "escrow_refunded_on_chain")
               /\ UNCHANGED <<finding, reconciled>>
            \/ /\ ~Accepts(orderRow, Remedy[Recommends])
               /\ reconciled' = "gave_up" /\ finding' = NoFinding
               /\ UNCHANGED orderCall
    /\ UNCHANGED <<orderRow, orderEscrow, timeoutJob, inFlightAtEnd>>

RemediationWrites ==
    /\ \/ PersistOrder("reconciler") /\ reconciled' = "done"
       \/ DropOrder("reconciler") /\ reconciled' = "failed"
    /\ finding' = NoFinding
    /\ UNCHANGED <<orderEscrow, timeoutJob>>

-----------------------------------------------------------------------------
\* The deposit, which may land when the order has left APPROVED already, the release
\* and the refund.
LedgerMoves ==
    /\ \/ orderEscrow = "none" /\ orderRow # NoRow /\ orderEscrow' = "funded"
       \/ orderEscrow = "funded" /\ orderEscrow' \in {"released", "refunded"}
    /\ UNCHANGED <<orderRow, orderCall, timeoutJob, finding, reconciled, inFlightAtEnd>>

OrdersNext ==
    \/ CreateWorkflow \/ ScheduleTimeout \/ CancelTimeout \/ TimeoutFires \/ TimeoutWrites
    \/ ListOrder \/ FetchStatus \/ Remediate \/ RemediationWrites \/ LedgerMoves
    \/ \E c \in OrderService : ServiceWrites(c) \/ \E e \in EventType : ServiceAsks(c, e)

OrdersSpec == OrdersInit /\ [][OrdersNext]_orderVars

-----------------------------------------------------------------------------
\* Whatever overlaps and whatever the reconciler could not see, the order never
\* claims more than the ledger holds: one past APPROVED knows its escrow, a
\* settled one was released, and one cancelled as refunded was refunded.
LedgerBacksOrder ==
    /\ orderRow.state \in {"ESCROW_FUNDED", "PURCHASED", "DELIVERING", "DELIVERED", "COMPLETED"}
         => orderRow.escrowId /\ orderEscrow # "none"
    /\ orderRow.state \in {"DELIVERED", "COMPLETED"} => orderEscrow = "released"
    /\ orderRow.error = "escrow_refunded_on_chain" => orderEscrow = "refunded"

\* An order that ended changes again only by a transition that had loaded it
\* before it ended (persistWorkflow overwrites it blindly).
EndedUnlessOverlapped ==
    [][Ended(orderRow) /\ orderRow' # orderRow =>
         \E c \in inFlightAtEnd : orderRow' = orderCall[c]]_orderVars

\* src/index.ts says of an order that waits as ESCROW_FUNDED while its escrow is
\* released: "Escrow already released on-chain; advance to COMPLETED".  The
\* reconciler must not give up on it while that is what it finds.
ReleasedOrderAdvances ==
    reconciled = "gave_up" /\ orderEscrow = "released" => orderRow.state # "ESCROW_FUNDED"
================================================================================

---------------------------- MODULE ContractEvents ----------------------------
(***************************************************************************)
(* Deliveries of one contract event, or of one message, to workers that    *)
(* keep duplicates out in one of two ways.  The payments service looks the *)
(* event up, awaits the handler and marks it processed afterwards          *)
(* (payments/events/dedup-store.ts); a consumer of the orchestrator claims *)
(* the message before it handles it (src/messaging/processed-messages.ts). *)
(* Handlers are external, and may fail.                                    *)
(***************************************************************************)
EXTENDS Integers, FiniteSets

CONSTANTS EventDelivery \* deliveries, redeliveries included

VARIABLES
    claimsFirst,    \* which of the two ways the workers use
    processed,      \* the event is in the store
    deliveryPc,     \* where each delivery is
    handledBy,      \* deliveries whose handler ran to its end
    spoiled         \* observation only: deliveries that overlapped another's handling,
                    \* or came after one that failed

eventVars == <<claimsFirst, processed, deliveryPc, handledBy, spoiled>>

ContractEventsInit ==
    /\ claimsFirst \in BOOLEAN /\ processed = FALSE
    /\ deliveryPc = [d \in EventDelivery |-> "new"]
    /\ handledBy = {} /\ spoiled = {}

EventGoto(d, place) == deliveryPc' = [deliveryPc EXCEPT ![d] = place]

\* Under way or given up after it began: what such a delivery did is not in the
\* store, or need not be.
Unsettled(d) == deliveryPc[d] \in {"checked", "handled", "failed"}

\* Faulty variant: the claim is looked up and not made.
CheckWithoutClaim(d) ==
    /\ deliveryPc[d] = "new"
    /\ EventGoto(d, IF processed THEN "skipped" ELSE "checked")
    /\ spoiled' = IF ~claimsFirst /\ \E e \in EventDelivery : Unsettled(e)
                  THEN spoiled \cup {d} ELSE spoiled
    /\ UNCHANGED <<claimsFirst, processed, handledBy>>

\* checkAndMark, or store.has.
CheckEvent(d) ==
    /\ deliveryPc[d] = "new"
    /\ EventGoto(d, IF processed THEN "skipped" ELSE "checked")
    /\ processed' = (processed \/ claimsFirst)
    /\ spoiled' = IF ~claimsFirst /\ \E e \in EventDelivery : Unsettled(e)
                  THEN spoiled \cup {d} ELSE spoiled
    /\ UNCHANGED <<claimsFirst, handledBy>>

HandleEvent(d) ==
    /\ deliveryPc[d] = "checked"
    /\ EventGoto(d, "handled")
    /\ handledBy' = handledBy \cup {d}
    /\ UNCHANGED <<claimsFirst, processed, spoiled>>

\* The handler fails, or the worker dies before it or before the mark.
EventFails(d) ==
    /\ deliveryPc[d] \in {"checked", "handled"}
    /\ EventGoto(d, "failed")
    /\ UNCHANGED <<claimsFirst, processed, handledBy, spoiled>>

\* store.markProcessed
MarkProcessed(d) ==
    /\ deliveryPc[d] = "handled"
    /\ EventGoto(d, "done")
    /\ processed' = TRUE
    /\ UNCHANGED <<claimsFirst, handledBy, spoiled>>

ContractEventsNext ==
    \E d \in EventDelivery : CheckEvent(d) \/ HandleEvent(d) \/ EventFails(d) \/ MarkProcessed(d)

ContractEventsSpec == ContractEventsInit /\ [][ContractEventsNext]_eventVars

\* Workers that claim first handle an event at most once.  Those that mark it
\* afterwards do not (EventProcessedOnce): this is the part that is left of it for
\* them, that an event is handled again only by a delivery that was checked while
\* another was under way or after one that failed.
HandledOnce ==
    /\ claimsFirst => Cardinality(handledBy) =< 1
    /\ Cardinality(handledBy \ spoiled) =< 1

\* events/dedup-store.ts says of processEscrowContractEvent: "Processes an escrow
\* contract event once. Duplicate deliveries are skipped using the
\* processed_contract_events store".  Whichever deliveries overlap and whichever
\* fail, the handler must run to its end for one of them at most.
EventProcessedOnce == ~claimsFirst => Cardinality(handledBy) =< 1
================================================================================

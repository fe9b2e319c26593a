-------------------------------- MODULE Dispatch --------------------------------
(***************************************************************************)
(* Dispatching the approval request for one transaction of one user, by    *)
(* e-mail and to every browser the user has subscribed                     *)
(* (notifications/src/dispatcher.ts, idempotency.ts, index.ts).            *)
(*                                                                         *)
(* A dispatch that knows the event it is about claims it in Redis, with    *)
(* SET NX, once per channel and not per browser, so it pushes to one       *)
(* browser only.  The HTTP route passes no event and claims nothing.       *)
(***************************************************************************)
EXTENDS Integers

CONSTANTS
    DispatchCall,   \* dispatches and their redeliveries
    Browser         \* endpoints a subscription may have

VARIABLES
    subscriptions,  \* push:subscriptions of the user
    dispatchKeys,   \* channels whose key is in Redis
    expired,        \* observation only: channels whose key ran out after 24 hours
    dispatchPc,     \* where each dispatch is
    keyed,          \* dispatches that know their event
    pushTo,         \* browsers each dispatch has still to look at
    sends           \* observation only: sends of dispatches that know their event

dispatchVars == <<subscriptions, dispatchKeys, expired, dispatchPc, keyed, pushTo, sends>>

DispatchInit ==
    /\ subscriptions = {} /\ dispatchKeys = {} /\ expired = {}
    /\ dispatchPc = [c \in DispatchCall |-> "new"]
    /\ keyed = {} /\ pushTo = [c \in DispatchCall |-> {}]
    /\ sends = [email |-> 0, push |-> 0]

DispatchGoto(c, place) == dispatchPc' = [dispatchPc EXCEPT ![c] = place]

\* savePushSubscription and removePushSubscription
Subscribe(browser) ==
    /\ browser \notin subscriptions /\ subscriptions' = subscriptions \cup {browser}
    /\ UNCHANGED <<dispatchKeys, expired, dispatchPc, keyed, pushTo, sends>>
Unsubscribe(browser) ==
    /\ browser \in subscriptions /\ subscriptions' = subscriptions \ {browser}
    /\ UNCHANGED <<dispatchKeys, expired, dispatchPc, keyed, pushTo, sends>>

\* Faulty variant: the key is set whether or not it is there.
SendAlways(c, channel) ==
    /\ dispatchKeys' = IF c \in keyed THEN dispatchKeys \cup {channel} ELSE dispatchKeys
    /\ sends' = IF c \in keyed THEN [sends EXCEPT ![channel] = @ + 1] ELSE sends

\* checkAndMarkDispatched, and the send when it may proceed; a send that fails is
\* logged and keeps its claim.
SendOnce(c, channel) ==
    /\ dispatchKeys' = IF c \in keyed THEN dispatchKeys \cup {channel} ELSE dispatchKeys
    /\ sends' = IF c \in keyed /\ channel \notin dispatchKeys
                THEN [sends EXCEPT ![channel] = @ + 1] ELSE sends

\* dispatchTransactionApproval, with an event or without, sends the e-mail first if
\* there is an address.  A request that lacks a field is answered 400.
StartDispatch(c, knowsEvent, hasEmail) ==
    /\ dispatchPc[c] = "new" /\ DispatchGoto(c, IF hasEmail THEN "email" ELSE "subscriptions")
    /\ keyed' = IF knowsEvent THEN keyed \cup {c} ELSE keyed
    /\ UNCHANGED <<subscriptions, dispatchKeys, expired, pushTo, sends>>

DispatchEmail(c) ==
    /\ dispatchPc[c] = "email" /\ DispatchGoto(c, "subscriptions")
    /\ SendOnce(c, "email")
    /\ UNCHANGED <<subscriptions, expired, keyed, pushTo>>

\* getUserSubscriptions
ReadSubscriptions(c) ==
    /\ dispatchPc[c] = "subscriptions" /\ DispatchGoto(c, "push")
    /\ pushTo' = [pushTo EXCEPT ![c] = subscriptions]
    /\ UNCHANGED <<subscriptions, dispatchKeys, expired, keyed, sends>>

DispatchPush(c, browser) ==
    /\ dispatchPc[c] = "push" /\ browser \in pushTo[c]
    /\ pushTo' = [pushTo EXCEPT ![c] = @ \ {browser}]
    /\ SendOnce(c, "push")
    /\ UNCHANGED <<subscriptions, expired, dispatchPc, keyed>>

\* Every send is under way or done; or Redis fails, and so does the dispatch.
EndDispatch(c) ==
    /\ \/ dispatchPc[c] = "push" /\ pushTo[c] = {} /\ DispatchGoto(c, "done")
       \/ dispatchPc[c] \in {"email", "subscriptions", "push"} /\ DispatchGoto(c, "failed")
    /\ pushTo' = [pushTo EXCEPT ![c] = {}]
    /\ UNCHANGED <<subscriptions, dispatchKeys, expired, keyed, sends>>

DispatchKeyExpires(channel) ==
    /\ channel \in dispatchKeys \ expired
    /\ dispatchKeys' = dispatchKeys \ {channel} /\ expired' = expired \cup {channel}
    /\ UNCHANGED <<subscriptions, dispatchPc, keyed, pushTo, sends>>

DispatchNext ==
    \/ \E b \in Browser : Subscribe(b) \/ Unsubscribe(b)
    \/ \E channel \in DOMAIN sends : DispatchKeyExpires(channel)
    \/ \E c \in DispatchCall :
        \/ \E knowsEvent, hasEmail \in BOOLEAN : StartDispatch(c, knowsEvent, hasEmail)
        \/ DispatchEmail(c) \/ ReadSubscriptions(c) \/ EndDispatch(c)
        \/ \E b \in Browser : DispatchPush(c, b)

\* Within the life of its key an event is sent once by e-mail and once by push,
\* however many workers dispatch it at the same time, and whatever they subscribe.
SentOncePerKey ==
    \A channel \in DOMAIN sends :
        sends[channel] =< IF channel \in expired THEN 2 ELSE 1
================================================================================

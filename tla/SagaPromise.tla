----------------------------- MODULE SagaPromise -----------------------------
(***************************************************************************)
(* What the coordinator promises of a saga, with no runners, leases,       *)
(* versions or crashes in it.  A step takes effect only after the step     *)
(* before it did and, unless that one was undone, only while that one      *)
(* counts as done: no effect is built on one that nobody will undo.  A     *)
(* saga that turns back undoes what was done from the last step to the     *)
(* first, and has failed when nothing is left.  A saga that did every step *)
(* is completed.  Neither outcome changes any more.                        *)
(*                                                                         *)
(* A step may take effect again, or without being recorded, and may be     *)
(* undone more than once: that much the coordinator does not prevent.      *)
(***************************************************************************)
EXTENDS Integers

CONSTANT StepCount

VARIABLES
    phase,      \* what becomes of the saga
    done,       \* the steps that count as done: the first ones
    effective,  \* the steps that took effect
    reverted    \* the steps whose compensation took effect

promiseVars == <<phase, done, effective, reverted>>

Step == 1..StepCount

Init ==
    /\ phase = "new" /\ done = 0
    /\ effective = {} /\ reverted = {}

Start ==
    /\ phase = "new"
    /\ phase' = "forward"
    /\ UNCHANGED <<done, effective, reverted>>

TakeEffect(s) ==
    /\ phase # "new"
    /\ s > 1 => s - 1 \in effective
    /\ s - 1 =< done \/ s - 1 \in reverted
    /\ effective' = effective \cup {s}
    /\ UNCHANGED <<phase, done, reverted>>

CountDone ==
    /\ phase = "forward" /\ done + 1 \in effective
    /\ done' = done + 1
    /\ UNCHANGED <<phase, effective, reverted>>

Complete ==
    /\ phase = "forward" /\ done = StepCount
    /\ phase' = "completed"
    /\ UNCHANGED <<done, effective, reverted>>

TurnBack ==
    /\ phase = "forward"
    /\ phase' = "backward"
    /\ UNCHANGED <<done, effective, reverted>>

Revert(s) ==
    /\ phase \in {"backward", "failed"}
    /\ s \in effective /\ s >= done
    /\ reverted' = reverted \cup {s}
    /\ UNCHANGED <<phase, done, effective>>

CountUndone ==
    /\ phase = "backward" /\ done \in reverted
    /\ done' = done - 1
    /\ UNCHANGED <<phase, effective, reverted>>

Fail ==
    /\ phase = "backward" /\ done = 0
    /\ phase' = "failed"
    /\ UNCHANGED <<done, effective, reverted>>

Next ==
    \/ Start \/ CountDone \/ Complete \/ TurnBack \/ CountUndone \/ Fail
    \/ \E s \in Step : TakeEffect(s) \/ Revert(s)

Spec == Init /\ [][Next]_promiseVars
=============================================================================

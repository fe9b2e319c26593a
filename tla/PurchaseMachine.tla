---------------------------- MODULE PurchaseMachine ----------------------------
(***************************************************************************)
(* A PurchaseWorkflowMachine, with the hook that persists its transitions, *)
(* its crashes, and its restoration from the last snapshot that was saved  *)
(* (orchestrator/state/machine.ts, state/snapshot-validator.ts).           *)
(*                                                                         *)
(* send moves the machine in memory and then awaits the hook, so several   *)
(* sends may be in their hooks at once.  The hook and the store behind it  *)
(* are external: a hook may fail, and hooks may finish in any order.       *)
(***************************************************************************)
EXTENDS Integers, Sequences

CONSTANTS MaxLives  \* bound: times the machine is created or restored

VARIABLES
    machineState,   \* currentState, or "gone" after a crash
    lives,          \* times it was created or restored
    bornIn,         \* the state this life began in
    handed,         \* the records of this life, handed to the hook: [from, to, event]
    inHook,         \* indices of records whose hook has not finished
    savedState      \* external: currentState in the snapshot a restart finds

machineVars == <<machineState, lives, bornIn, handed, inHook, savedState>>

\* TRANSITIONS
MachineTransitions ==
    [Discovery            |-> [PRODUCT_FOUND |-> "SpendingCheck"],
     SpendingCheck        |-> [SPEND_APPROVED |-> "UserApprovalPending",
                               SPEND_DENIED |-> "Refunded"],
     UserApprovalPending  |-> [USER_APPROVED |-> "EscrowLocking",
                               USER_REJECTED |-> "Refunded"],
     EscrowLocking        |-> [ESCROW_LOCKED |-> "MerchantFulfillment",
                               ESCROW_FAILED |-> "Refunded"],
     MerchantFulfillment  |-> [FULFILLMENT_CONFIRMED |-> "DeliveryVerification",
                               REFUND_INITIATED |-> "Refunded"],
     DeliveryVerification |-> [DELIVERY_VERIFIED |-> "Completed",
                               REFUND_INITIATED |-> "Refunded"],
     Completed            |-> <<>>,
     Refunded             |-> <<>>]

MachineStates == DOMAIN MachineTransitions

\* The constructor; nothing is saved yet.
MachineInit ==
    /\ machineState = "Discovery" /\ bornIn = "Discovery" /\ lives = 1
    /\ handed = <<>> /\ inHook = {} /\ savedState = "none"

\* send, up to the hook; a terminal state accepts nothing.
Send(event) ==
    /\ machineState \in MachineStates
    /\ event \in DOMAIN MachineTransitions[machineState]
    /\ machineState' = MachineTransitions[machineState][event]
    /\ handed' = Append(handed, [from |-> machineState, to |-> machineState', event |-> event])
    /\ inHook' = inHook \cup {Len(handed')}
    /\ UNCHANGED <<lives, bornIn, savedState>>

\* Faulty variant: a machine whose hook failed goes back to where it came from.
HookFailureRollsBack(i) ==
    /\ i \in inHook /\ inHook' = inHook \ {i}
    /\ \/ savedState' = handed[i].to /\ UNCHANGED machineState
       \/ machineState' = handed[i].from /\ UNCHANGED savedState
    /\ UNCHANGED <<lives, bornIn, handed>>

\* The hook saves its record, or send throws what the hook threw.  Either way the
\* machine stays where send moved it.
HookFinishes(i) ==
    /\ i \in inHook /\ inHook' = inHook \ {i}
    /\ savedState' = handed[i].to \/ UNCHANGED savedState
    /\ UNCHANGED <<machineState, lives, bornIn, handed>>

MachineCrash ==
    /\ machineState # "gone" /\ lives < MaxLives
    /\ machineState' = "gone" /\ inHook' = {}
    /\ UNCHANGED <<lives, bornIn, handed, savedState>>

\* fromSnapshot; a snapshot that assertValidSnapshot refuses stays quarantined.
RestoreMachine ==
    /\ machineState = "gone" /\ savedState \in MachineStates
    /\ machineState' = savedState /\ bornIn' = savedState
    /\ lives' = lives + 1 /\ handed' = <<>>
    /\ UNCHANGED <<inHook, savedState>>

\* The stored snapshot is damaged: validateSnapshot finds no known state in it.
SnapshotDamaged ==
    /\ machineState = "gone" /\ savedState # "damaged" /\ savedState' = "damaged"
    /\ UNCHANGED <<machineState, lives, bornIn, handed, inHook>>

MachineNext ==
    \/ \E event \in UNION {DOMAIN MachineTransitions[s] : s \in MachineStates} : Send(event)
    \/ \E i \in inHook : HookFinishes(i)
    \/ MachineCrash \/ RestoreMachine \/ SnapshotDamaged

MachineSpec == MachineInit /\ [][MachineNext]_machineVars

\* However sends overlap and hooks fail, the records of one life form one path from
\* the state it began in to the state the machine is in, so no state is left twice.
RecordsFormAPath ==
    LET At(i) == IF i = 0 THEN bornIn ELSE handed[i].to
    IN  /\ \A i \in 1..Len(handed) : handed[i].from = At(i - 1)
        /\ machineState # "gone" => machineState = At(Len(handed))
================================================================================

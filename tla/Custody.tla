------------------------------- MODULE Custody -------------------------------
(***************************************************************************)
(* What the escrow contract promises, with no administrators, tokens,      *)
(* ledgers or votes in it.  An agreement holds one amount from the moment  *)
(* it is funded.  The whole amount leaves custody in one step and only     *)
(* once: back to the buyer, or to the seller less a fee of at most one     *)
(* tenth.  A contested agreement stays in custody until it is decided.     *)
(***************************************************************************)
EXTENDS Integers

CONSTANT Id

VARIABLES
    phase,      \* Id -> the phase of the agreement
    held,       \* Id -> the amount in custody
    toSeller,   \* Id -> what the seller was paid
    toTreasury, \* Id -> the fee that was taken
    toBuyer     \* Id -> what the buyer got back

custodyVars == <<phase, held, toSeller, toTreasury, toBuyer>>

Open == {"held", "contested"}

Init ==
    /\ phase = [i \in Id |-> "empty"]
    /\ held = [i \in Id |-> 0]
    /\ toSeller = [i \in Id |-> 0]
    /\ toTreasury = [i \in Id |-> 0]
    /\ toBuyer = [i \in Id |-> 0]

Fund(i) ==
    /\ phase[i] = "empty"
    /\ phase' = [phase EXCEPT ![i] = "held"]
    /\ held'[i] > 0
    /\ held' = [held EXCEPT ![i] = held'[i]]
    /\ UNCHANGED <<toSeller, toTreasury, toBuyer>>

Contest(i) ==
    /\ phase[i] = "held"
    /\ phase' = [phase EXCEPT ![i] = "contested"]
    /\ UNCHANGED <<held, toSeller, toTreasury, toBuyer>>

PaySeller(i) ==
    /\ phase[i] \in Open
    /\ phase' = [phase EXCEPT ![i] = "paid"]
    /\ held' = [held EXCEPT ![i] = 0]
    /\ toTreasury'[i] >= 0 /\ 10 * toTreasury'[i] <= held[i]
    /\ toTreasury' = [toTreasury EXCEPT ![i] = toTreasury'[i]]
    /\ toSeller' = [toSeller EXCEPT ![i] = held[i] - toTreasury'[i]]
    /\ UNCHANGED toBuyer

ReturnToBuyer(i) ==
    /\ phase[i] \in Open
    /\ phase' = [phase EXCEPT ![i] = "returned"]
    /\ held' = [held EXCEPT ![i] = 0]
    /\ toBuyer' = [toBuyer EXCEPT ![i] = held[i]]
    /\ UNCHANGED <<toSeller, toTreasury>>

Next == \E i \in Id : Fund(i) \/ Contest(i) \/ PaySeller(i) \/ ReturnToBuyer(i)

Spec == Init /\ [][Next]_custodyVars
=============================================================================

------------------------------- MODULE MCEscrow -------------------------------
(* Small instances of the escrow contract.  The limits in force let one    *)
(* amount through, with a remainder at 10000; the others are rejected by   *)
(* deposit and give FeeIsExact more to compute.  set_limits must reject    *)
(* the other pairs of limits, and the fees above the maximum.              *)
EXTENDS Escrow

MCFees    == {333, MaxFeeBps, MaxFeeBps + 1}
MCTopFee  == {MaxFeeBps}
MCLimits  == {<<20009, 20009>>, <<20010, 20009>>, <<0, 20009>>}
MCAmounts == {0, 1, 9999, 10001, 20009, 123457}
=============================================================================

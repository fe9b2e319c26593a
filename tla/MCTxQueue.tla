------------------------------- MODULE MCTxQueue -------------------------------
(***************************************************************************)
(* Constants to check TxQueue: limits that a second payment of 2 would     *)
(* exceed, those of the wallet ever, those of the delegation "d" only on   *)
(* the same day; and for the delegation a second row that nothing fits.    *)
(***************************************************************************)
EXTENDS TxQueue, TLC

LimitRow(delegation, wallet, perTransaction, daily, weekly, lifetime) ==
    [delegation |-> delegation, wallet |-> wallet, perTransaction |-> perTransaction,
     daily |-> daily, weekly |-> weekly, lifetime |-> lifetime]

MCLimitTables ==
    { {LimitRow(None, Wallet, None, 3, 3, 3),
       LimitRow("d", Wallet, 2, 3, None, None),
       LimitRow("d", Wallet, None, 1, None, None)} }

Payment(delegation, memoValid) ==
    [amount |-> 2, delegation |-> delegation,
     memoValid |-> memoValid, identified |-> FALSE]

MCRequests == {Payment(None, TRUE), Payment("d", TRUE), Payment(None, FALSE)}

\* Limits do not matter for the answer: a wallet that has none.
MCNoLimits == {{}}
MCUnlimited == {FromRoute(Payment(None, TRUE))}

\* The jobs differ in nothing but their order.
JobSymmetry == Permutations(Job)
============================================================================

------------------------------ MODULE MCPayments ------------------------------
(***************************************************************************)
(* Instances for Payments: the requests that TLC tries, and the entry      *)
(* points of two contracts, the one payments/escrow/index.ts is written    *)
(* for and the one of contracts/escrow/src/lib.rs.                         *)
(***************************************************************************)
EXTENDS Payments

Deposit(key, orderId) ==
    [op |-> "deposit", key |-> key, json |-> TRUE, sourceAddress |-> "ok",
     buyerAddress |-> "ok", sellerAddress |-> "ok", orderId |-> orderId]
Decision(op, escrowId) ==
    [op |-> op, key |-> "ok", json |-> TRUE, sourceAddress |-> "ok", escrowId |-> escrowId]

MCPaymentRequests ==
    {Deposit("ok", "ok"), Deposit("missing", "ok"), Deposit("short", "ok"),
     Deposit("ok", "invalid"), Decision("release", "ok"), Decision("refund", "ok"),
     Decision("refund", "missing"), [op |-> "settle", escrowId |-> "ok"],
     [op |-> "settle", escrowId |-> "invalid"],
     [op |-> "initialize", json |-> TRUE, sourceAddress |-> "ok", adminAddress |-> "ok"]}

ExpectedEntries ==
    {<<"initialize", 1>>, <<"create_escrow", 2>>, <<"release", 1>>, <<"refund", 1>>}
RepositoryEntries ==
    {<<"initialize", 5>>, <<"deposit", 6>>, <<"release", 2>>, <<"refund", 2>>}
================================================================================

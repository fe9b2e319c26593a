-------------------------------- MODULE Backend --------------------------------
(***************************************************************************)
(* The services of the backend side by side: the wallet's vault, key       *)
(* versions and balances, the gateway's sessions, delegations and rate     *)
(* limits, the payments service with its disputes, the orders and the      *)
(* purchase machine of the orchestrator, and the consumers of events.      *)
(*                                                                         *)
(* None of them reads or writes a variable of another: what one service    *)
(* answers to another is an external choice in the module of the caller.   *)
(* Their interleavings therefore say nothing that each of them does not    *)
(* say alone, and a behaviour follows one component, chosen at its start.  *)
(***************************************************************************)
EXTENDS Vault, KeyVersions, Balance, Sessions, DelegationRows, RateLimiter,
        Payments, Arbiters, Orders, PurchaseMachine, ContractEvents, Dispatch

VARIABLE focus  \* the component the behaviour follows

walletVars == <<vaultVars, keyVersionVars, balanceVars>>
gatewayVars == <<sessionVars, delegationVars, rateVars>>
paymentsVars == <<paymentVars, arbiterVars>>
orchestratorVars == <<orderVars, machineVars>>
consumerVars == <<eventVars, dispatchVars>>
backendVars == <<walletVars, gatewayVars, paymentsVars, orchestratorVars, consumerVars, focus>>

Component == {"vault", "keyVersions", "balance", "sessions", "delegations", "rateLimiter",
              "payments", "arbiters", "orders", "machine", "contractEvents", "dispatch"}

\* A component that is not followed begins in one of its initial states, no matter
\* which.
BackendInit ==
    /\ focus \in Component
    /\ VaultInit /\ KeyVersionsInit /\ BalanceInit
    /\ SessionsInit /\ DelegationsInit /\ RateInit
    /\ PaymentsInit /\ ArbitersInit
    /\ OrdersInit /\ MachineInit
    /\ ContractEventsInit /\ DispatchInit
    /\ focus # "payments" => paymentConfig.contract /\ paymentConfig.settlementSource
    /\ focus # "contractEvents" => claimsFirst

WalletStep ==
    /\ \/ focus = "vault" /\ VaultNext /\ UNCHANGED <<keyVersionVars, balanceVars>>
       \/ focus = "keyVersions" /\ KeyVersionsNext /\ UNCHANGED <<vaultVars, balanceVars>>
       \/ focus = "balance" /\ BalanceNext /\ UNCHANGED <<vaultVars, keyVersionVars>>
    /\ UNCHANGED <<gatewayVars, paymentsVars, orchestratorVars, consumerVars, focus>>

GatewayStep ==
    /\ \/ focus = "sessions" /\ SessionsNext /\ UNCHANGED <<delegationVars, rateVars>>
       \/ focus = "delegations" /\ DelegationsNext /\ UNCHANGED <<sessionVars, rateVars>>
       \/ focus = "rateLimiter" /\ RateNext /\ UNCHANGED <<sessionVars, delegationVars>>
    /\ UNCHANGED <<walletVars, paymentsVars, orchestratorVars, consumerVars, focus>>

PaymentsStep ==
    /\ \/ focus = "payments" /\ PaymentsNext /\ UNCHANGED arbiterVars
       \/ focus = "arbiters" /\ ArbitersNext /\ UNCHANGED paymentVars
    /\ UNCHANGED <<walletVars, gatewayVars, orchestratorVars, consumerVars, focus>>

OrchestratorStep ==
    /\ \/ focus = "orders" /\ OrdersNext /\ UNCHANGED machineVars
       \/ focus = "machine" /\ MachineNext /\ UNCHANGED orderVars
    /\ UNCHANGED <<walletVars, gatewayVars, paymentsVars, consumerVars, focus>>

ConsumerStep ==
    /\ \/ focus = "contractEvents" /\ ContractEventsNext /\ UNCHANGED dispatchVars
       \/ focus = "dispatch" /\ DispatchNext /\ UNCHANGED eventVars
    /\ UNCHANGED <<walletVars, gatewayVars, paymentsVars, orchestratorVars, focus>>

BackendNext == WalletStep \/ GatewayStep \/ PaymentsStep \/ OrchestratorStep \/ ConsumerStep

BackendSpec == BackendInit /\ [][BackendNext]_backendVars

-----------------------------------------------------------------------------
\* The wallet can still read what it was given to keep: a private key stored while
\* nothing else was at work, as long as the vault can be read, which it can unless
\* writes of it overlapped or one was cut short (vault.ts, storeKey); and a seed phrase
\* whatever rotations of the master secret followed (decryptSeedPhrase).
KeysReadable == UndisturbedKeysKept /\ FileReadable /\ SeedsReadable

\* A session has one token that works at most, whatever the requests interleave; a
\* family that was closed stays closed, unless the closing of it failed or a refresh
\* was about to add a token to it; and in one life of a counter no caller gets through
\* the rate limiter more often than it allows, except for requests it could not count
\* and requests that count in a window after its end (authService.ts, rateLimiter.ts).
GatewayHolds == SessionNeverForks /\ FamilyClosed /\ RateHonoured

\* Orders claim nothing the ledger does not hold, and the records of a purchase
\* machine form a path (transitionWorkflow, PurchaseWorkflowMachine.send).
OrdersHold == LedgerBacksOrder /\ RecordsFormAPath

\* What is kept from happening twice does not: a resolution of a dispute is not
\* submitted again unless it failed, a message that is claimed first is handled once
\* and a contract event again only when its deliveries overlap or fail, and a
\* notification is sent once in the life of its key (collectArbiterSignature,
\* processEscrowContractEvent, checkAndMarkDispatched).
NothingTwice == ResolvedOnce /\ HandledOnce /\ SentOncePerKey
================================================================================

------------------------------ MODULE MCAuthority ------------------------------
(***************************************************************************)
(* The two contracts that record what an owner lets an agent do, on small  *)
(* instances.  Neither calls the other or reads its storage, so a          *)
(* behaviour follows one of them, chosen at its start.                     *)
(*                                                                         *)
(* Permissions: one owner with a delegate, limits of one and two spends,   *)
(* amounts that are too large or not positive.                             *)
(***************************************************************************)
EXTENDS Permissions, DelegationRegistry

MCGrants     == {<<2, 1>>, <<1, 2>>, <<1, 0>>}
MCSpends     == {-1, 1, 2}
MCDecrements == {-1, 1}
MCMinSpent   == -1
MCLists      == {{}, {CHOOSE m \in Merchants : TRUE}}

VARIABLE contract   \* the contract the behaviour follows

AuthorityInit ==
    /\ Init /\ RegistryInit
    /\ contract \in {"permissions", "delegation_registry"}

AuthorityNext ==
    /\ \/ contract = "permissions" /\ Next /\ UNCHANGED registryVars
       \/ contract = "delegation_registry" /\ RegistryNext /\ UNCHANGED vars
    /\ UNCHANGED contract

AuthoritySpec == AuthorityInit /\ [][AuthorityNext]_<<vars, registryVars, contract>>
================================================================================

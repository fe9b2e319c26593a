-------------------------- MODULE EscrowAdminProofs --------------------------
(***************************************************************************)
(* Proofs about the administrative state of the escrow contract, for any   *)
(* set of addresses and tokens and any arguments.  Every fact is proved of *)
(* a single step of AdminNext first, so that the proofs about the whole    *)
(* contract can cite it.                                                   *)
(***************************************************************************)
EXTENDS EscrowAdmin, TLAPS

(* The types of the administrative state are inductive by themselves.      *)
LEMMA AdminInitTypeOK == AdminInit => AdminTypeOK
<1> SUFFICES ASSUME AdminInit PROVE AdminTypeOK
  OBVIOUS
<1>1. tokenEnabled \in [Token -> BOOLEAN] /\ createPaused \in BOOLEAN
  BY Zenon DEF AdminInit
<1>2. /\ adminList \in [Address -> Nat] /\ whitelist \in [Token -> Nat]
      /\ feeBps \in 0..MaxFeeBps /\ limits \in Int \X Int
  BY DEF AdminInit, MaxFeeBps
<1> QED BY <1>1, <1>2 DEF AdminInit, AdminTypeOK, Initialized

LEMMA AdminStepTypeOK == AdminTypeOK /\ [AdminNext]_adminVars => AdminTypeOK'
<1> SUFFICES ASSUME AdminTypeOK, [AdminNext]_adminVars
             PROVE  AdminTypeOK'
  OBVIOUS
<1> USE AdminConstants DEF AdminTypeOK, Initialized, MaxFeeBps
<1>1. ASSUME NEW a \in Admins, NEW fee \in FeeChoices, NEW l \in LimitChoices,
             Initialize(a, fee, l)
      PROVE  AdminTypeOK'
  BY <1>1 DEF Initialize, ValidLimits
<1>2. ASSUME NEW a \in Address, NEW l \in LimitChoices, SetLimits(a, l)
      PROVE  AdminTypeOK'
  BY <1>2 DEF SetLimits, ValidLimits
<1>3. ASSUME NEW a \in Address, NEW fee \in FeeChoices, UpdateFee(a, fee)
      PROVE  AdminTypeOK'
  BY <1>3 DEF UpdateFee, ValidLimits
<1>4. ASSUME NEW a \in Address, NEW t \in Token, AddToken(a, t)
      PROVE  AdminTypeOK'
  BY <1>4 DEF AddToken, ValidLimits
<1>5. ASSUME NEW a \in Address, NEW t \in Token, RemoveToken(a, t)
      PROVE  AdminTypeOK'
  BY <1>5 DEF RemoveToken, ValidLimits
<1>6. ASSUME NEW a \in Address, NEW p \in BOOLEAN, SetCreatePaused(a, p)
      PROVE  AdminTypeOK'
  BY <1>6 DEF SetCreatePaused, ValidLimits
<1>7. ASSUME NEW a \in Address, NEW b \in Admins, ProposeAdmin(a, b)
      PROVE  AdminTypeOK'
  BY <1>7 DEF ProposeAdmin, ValidLimits
<1>8. ASSUME NEW a \in Address, AcceptAdmin(a)
      PROVE  AdminTypeOK'
  <2>1. /\ adminList' \in [Address -> Nat]
        /\ admin' \in Address /\ pendingAdmin' = None /\ proposer' = None
    BY <1>8 DEF AcceptAdmin
  <2>2. ValidLimits(limits)'
    BY <1>8 DEF AcceptAdmin, ValidLimits
  <2> QED BY <1>8, <2>1, <2>2 DEF AcceptAdmin
<1>9. ASSUME NEW a \in Address, CancelAdminTransfer(a)
      PROVE  AdminTypeOK'
  BY <1>9 DEF CancelAdminTransfer, ValidLimits
<1>10. ASSUME NEW a \in Address, NEW b \in Admins, AddCoAdmin(a, b)
      PROVE  AdminTypeOK'
  BY <1>10 DEF AddCoAdmin, ValidLimits
<1>11. ASSUME NEW a \in Address, NEW b \in Admins, RemoveCoAdmin(a, b)
      PROVE  AdminTypeOK'
  BY <1>11 DEF RemoveCoAdmin, ValidLimits
<1>12. CASE UNCHANGED adminVars
  BY <1>12 DEF adminVars, ValidLimits
<1> QED
  BY <1>1, <1>2, <1>3, <1>4, <1>5, <1>6, <1>7, <1>8, <1>9, <1>10, <1>11, <1>12
     DEF AdminNext

-----------------------------------------------------------------------------
(* One role per address and one listing per co-administrator: AddCoAdmin   *)
(* lists only who is neither primary nor listed, and AcceptAdmin unlists   *)
(* whom it makes primary.                                                  *)
LEMMA AdminStepRoles ==
    AdminTypeOK /\ RolesDisjoint /\ [AdminNext]_adminVars => RolesDisjoint'
<1> SUFFICES ASSUME AdminTypeOK, RolesDisjoint, [AdminNext]_adminVars
             PROVE  RolesDisjoint'
  OBVIOUS
<1> USE AdminConstants DEF AdminTypeOK, RolesDisjoint, Initialized
<1>1. ASSUME NEW a \in Admins, NEW fee \in FeeChoices, NEW l \in LimitChoices,
             Initialize(a, fee, l)
      PROVE  RolesDisjoint'
  BY <1>1 DEF Initialize
<1>2. ASSUME NEW a \in Address, NEW l \in LimitChoices, SetLimits(a, l)
      PROVE  RolesDisjoint'
  BY <1>2 DEF SetLimits
<1>3. ASSUME NEW a \in Address, NEW fee \in FeeChoices, UpdateFee(a, fee)
      PROVE  RolesDisjoint'
  BY <1>3 DEF UpdateFee
<1>4. ASSUME NEW a \in Address, NEW t \in Token, AddToken(a, t)
      PROVE  RolesDisjoint'
  BY <1>4 DEF AddToken
<1>5. ASSUME NEW a \in Address, NEW t \in Token, RemoveToken(a, t)
      PROVE  RolesDisjoint'
  BY <1>5 DEF RemoveToken
<1>6. ASSUME NEW a \in Address, NEW p \in BOOLEAN, SetCreatePaused(a, p)
      PROVE  RolesDisjoint'
  BY <1>6 DEF SetCreatePaused
<1>7. ASSUME NEW a \in Address, NEW b \in Admins, ProposeAdmin(a, b)
      PROVE  RolesDisjoint'
  BY <1>7 DEF ProposeAdmin
<1>8. ASSUME NEW a \in Address, AcceptAdmin(a)
      PROVE  RolesDisjoint'
  BY <1>8 DEF AcceptAdmin
<1>9. ASSUME NEW a \in Address, CancelAdminTransfer(a)
      PROVE  RolesDisjoint'
  BY <1>9 DEF CancelAdminTransfer
<1>10. ASSUME NEW a \in Address, NEW b \in Admins, AddCoAdmin(a, b)
      PROVE  RolesDisjoint'
  BY <1>10 DEF AddCoAdmin
<1>11. ASSUME NEW a \in Address, NEW b \in Admins, RemoveCoAdmin(a, b)
      PROVE  RolesDisjoint'
  BY <1>11 DEF RemoveCoAdmin
<1>12. CASE UNCHANGED adminVars
  BY <1>12 DEF adminVars
<1> QED
  BY <1>1, <1>2, <1>3, <1>4, <1>5, <1>6, <1>7, <1>8, <1>9, <1>10, <1>11, <1>12
     DEF AdminNext

(* A pending proposal is the present primary's: the only step that changes *)
(* the primary after initialization also clears the proposal.              *)
LEMMA AdminStepProposal ==
    AdminTypeOK /\ ProposalIsCurrent /\ [AdminNext]_adminVars
        => ProposalIsCurrent'
<1> SUFFICES ASSUME AdminTypeOK, ProposalIsCurrent, [AdminNext]_adminVars
             PROVE  ProposalIsCurrent'
  OBVIOUS
<1> USE AdminConstants DEF AdminTypeOK, ProposalIsCurrent, Initialized
<1>1. ASSUME NEW a \in Admins, NEW fee \in FeeChoices, NEW l \in LimitChoices,
             Initialize(a, fee, l)
      PROVE  ProposalIsCurrent'
  BY <1>1 DEF Initialize
<1>2. ASSUME NEW a \in Address, NEW l \in LimitChoices, SetLimits(a, l)
      PROVE  ProposalIsCurrent'
  BY <1>2 DEF SetLimits
<1>3. ASSUME NEW a \in Address, NEW fee \in FeeChoices, UpdateFee(a, fee)
      PROVE  ProposalIsCurrent'
  BY <1>3 DEF UpdateFee
<1>4. ASSUME NEW a \in Address, NEW t \in Token, AddToken(a, t)
      PROVE  ProposalIsCurrent'
  BY <1>4 DEF AddToken
<1>5. ASSUME NEW a \in Address, NEW t \in Token, RemoveToken(a, t)
      PROVE  ProposalIsCurrent'
  BY <1>5 DEF RemoveToken
<1>6. ASSUME NEW a \in Address, NEW p \in BOOLEAN, SetCreatePaused(a, p)
      PROVE  ProposalIsCurrent'
  BY <1>6 DEF SetCreatePaused
<1>7. ASSUME NEW a \in Address, NEW b \in Admins, ProposeAdmin(a, b)
      PROVE  ProposalIsCurrent'
  BY <1>7 DEF ProposeAdmin
<1>8. ASSUME NEW a \in Address, AcceptAdmin(a)
      PROVE  ProposalIsCurrent'
  BY <1>8 DEF AcceptAdmin
<1>9. ASSUME NEW a \in Address, CancelAdminTransfer(a)
      PROVE  ProposalIsCurrent'
  BY <1>9 DEF CancelAdminTransfer
<1>10. ASSUME NEW a \in Address, NEW b \in Admins, AddCoAdmin(a, b)
      PROVE  ProposalIsCurrent'
  BY <1>10 DEF AddCoAdmin
<1>11. ASSUME NEW a \in Address, NEW b \in Admins, RemoveCoAdmin(a, b)
      PROVE  ProposalIsCurrent'
  BY <1>11 DEF RemoveCoAdmin
<1>12. CASE UNCHANGED adminVars
  BY <1>12 DEF adminVars
<1> QED
  BY <1>1, <1>2, <1>3, <1>4, <1>5, <1>6, <1>7, <1>8, <1>9, <1>10, <1>11, <1>12
     DEF AdminNext

(* The enabled flag of a token and its listing are written together.       *)
LEMMA AdminStepWhitelist ==
    AdminTypeOK /\ WhitelistMatchesFlags /\ [AdminNext]_adminVars
        => WhitelistMatchesFlags'
<1> SUFFICES ASSUME AdminTypeOK, WhitelistMatchesFlags, [AdminNext]_adminVars
             PROVE  WhitelistMatchesFlags'
  OBVIOUS
<1> USE DEF AdminTypeOK, WhitelistMatchesFlags, IsTokenAllowed
<1>1. ASSUME NEW a \in Admins, NEW fee \in FeeChoices, NEW l \in LimitChoices,
             Initialize(a, fee, l)
      PROVE  WhitelistMatchesFlags'
  BY <1>1 DEF Initialize
<1>2. ASSUME NEW a \in Address, NEW l \in LimitChoices, SetLimits(a, l)
      PROVE  WhitelistMatchesFlags'
  BY <1>2 DEF SetLimits
<1>3. ASSUME NEW a \in Address, NEW fee \in FeeChoices, UpdateFee(a, fee)
      PROVE  WhitelistMatchesFlags'
  BY <1>3 DEF UpdateFee
<1>4. ASSUME NEW a \in Address, NEW t \in Token, AddToken(a, t)
      PROVE  WhitelistMatchesFlags'
  BY <1>4 DEF AddToken
<1>5. ASSUME NEW a \in Address, NEW t \in Token, RemoveToken(a, t)
      PROVE  WhitelistMatchesFlags'
  BY <1>5 DEF RemoveToken
<1>6. ASSUME NEW a \in Address, NEW p \in BOOLEAN, SetCreatePaused(a, p)
      PROVE  WhitelistMatchesFlags'
  BY <1>6 DEF SetCreatePaused
<1>7. ASSUME NEW a \in Address, NEW b \in Admins, ProposeAdmin(a, b)
      PROVE  WhitelistMatchesFlags'
  BY <1>7 DEF ProposeAdmin
<1>8. ASSUME NEW a \in Address, AcceptAdmin(a)
      PROVE  WhitelistMatchesFlags'
  BY <1>8 DEF AcceptAdmin
<1>9. ASSUME NEW a \in Address, CancelAdminTransfer(a)
      PROVE  WhitelistMatchesFlags'
  BY <1>9 DEF CancelAdminTransfer
<1>10. ASSUME NEW a \in Address, NEW b \in Admins, AddCoAdmin(a, b)
      PROVE  WhitelistMatchesFlags'
  BY <1>10 DEF AddCoAdmin
<1>11. ASSUME NEW a \in Address, NEW b \in Admins, RemoveCoAdmin(a, b)
      PROVE  WhitelistMatchesFlags'
  BY <1>11 DEF RemoveCoAdmin
<1>12. CASE UNCHANGED adminVars
  BY <1>12 DEF adminVars
<1> QED
  BY <1>1, <1>2, <1>3, <1>4, <1>5, <1>6, <1>7, <1>8, <1>9, <1>10, <1>11, <1>12
     DEF AdminNext

-----------------------------------------------------------------------------
(* The invariants of the administrative state, as one formula.             *)
AdminInv ==
    AdminTypeOK /\ RolesDisjoint /\ ProposalIsCurrent /\ WhitelistMatchesFlags

LEMMA AdminInitInv == AdminInit => AdminInv
<1> SUFFICES ASSUME AdminInit PROVE AdminInv
  OBVIOUS
<1>1. AdminTypeOK
  BY AdminInitTypeOK
<1>2. RolesDisjoint /\ ProposalIsCurrent /\ WhitelistMatchesFlags
  BY DEF AdminInit, RolesDisjoint, ProposalIsCurrent, WhitelistMatchesFlags,
         Initialized
<1> QED BY <1>1, <1>2 DEF AdminInv

LEMMA AdminStepInv == AdminInv /\ [AdminNext]_adminVars => AdminInv'
  BY AdminStepTypeOK, AdminStepRoles, AdminStepProposal, AdminStepWhitelist
     DEF AdminInv

(* The administrative invariants hold in every reachable state, for any    *)
(* addresses, tokens, fees and limits.                                     *)
THEOREM AdminInvariant == AdminSpec => []AdminInv
<1>1. AdminInit => AdminInv
  BY AdminInitInv
<1>2. AdminInv /\ [AdminNext]_adminVars => AdminInv'
  BY AdminStepInv
<1> QED BY <1>1, <1>2, PTL DEF AdminSpec

-----------------------------------------------------------------------------
(* One step never leaves a role to an address it takes a role from: the    *)
(* address had a single listing (RolesDisjoint) and that one is gone.      *)
LEMMA AdminStepRevokes ==
  ASSUME AdminInv, [AdminNext]_adminVars, NEW c \in Address,
         \/ admin = c /\ admin' # c
         \/ adminList'[c] < adminList[c] /\ admin' # c
  PROVE  ~IsAdmin(c)'
<1> USE AdminConstants
    DEF AdminInv, AdminTypeOK, RolesDisjoint, Initialized, IsAdmin
<1>1. ASSUME NEW a \in Admins, NEW fee \in FeeChoices, NEW l \in LimitChoices,
             Initialize(a, fee, l)
      PROVE  ~IsAdmin(c)'
  BY <1>1 DEF Initialize
<1>2. ASSUME NEW a \in Address, AcceptAdmin(a)
      PROVE  ~IsAdmin(c)'
  BY <1>2 DEF AcceptAdmin
<1>3. ASSUME NEW a \in Address, NEW b \in Admins, AddCoAdmin(a, b)
      PROVE  ~IsAdmin(c)'
  BY <1>3 DEF AddCoAdmin
<1>4. ASSUME NEW a \in Address, NEW b \in Admins, RemoveCoAdmin(a, b)
      PROVE  ~IsAdmin(c)'
  BY <1>4 DEF RemoveCoAdmin
<1>5. CASE UNCHANGED <<admin, adminList>>
  BY <1>5
<1> QED
  BY <1>1, <1>2, <1>3, <1>4, <1>5
     DEF AdminNext, SetLimits, UpdateFee, AddToken, RemoveToken,
         SetCreatePaused, ProposeAdmin, CancelAdminTransfer, adminVars

(* Revoking a role takes effect in the step that revokes it, for any set   *)
(* of addresses and any history of transfers and listings.                 *)
THEOREM AdminRevocation == AdminSpec => RevocationTakesEffect
<1>1. AdminInv /\ [AdminNext]_adminVars =>
        [\A a \in Address :
           \/ admin = a /\ admin' # a
           \/ adminList'[a] < adminList[a] /\ admin' # a
           => ~IsAdmin(a)']_adminVars
  BY AdminStepRevokes
<1> QED BY <1>1, AdminInvariant, PTL DEF AdminSpec, RevocationTakesEffect

-----------------------------------------------------------------------------
(* The parts of the invariant, one by one.                                 *)

(* Types: the fee stays within its cap, the limits stay ordered.           *)
THEOREM AdminTypeCorrect == AdminSpec => []AdminTypeOK
<1>1. AdminInv => AdminTypeOK
  BY DEF AdminInv
<1> QED BY <1>1, AdminInvariant, PTL

(* No address ever has two roles or two listings.                          *)
THEOREM RolesStayDisjoint == AdminSpec => []RolesDisjoint
<1>1. AdminInv => RolesDisjoint
  BY DEF AdminInv
<1> QED BY <1>1, AdminInvariant, PTL

(* No proposal outlives the administrator who made it.                     *)
THEOREM ProposalStaysCurrent == AdminSpec => []ProposalIsCurrent
<1>1. AdminInv => ProposalIsCurrent
  BY DEF AdminInv
<1> QED BY <1>1, AdminInvariant, PTL

(* The token list and the flags deposit reads never disagree.              *)
THEOREM WhitelistStaysExact == AdminSpec => []WhitelistMatchesFlags
<1>1. AdminInv => WhitelistMatchesFlags
  BY DEF AdminInv
<1> QED BY <1>1, AdminInvariant, PTL
=============================================================================

CONSTANTS
    None = None
    Address = {adm, bob, sam, esc}
    Self = esc
    Admins = {adm, bob, sam}
    Treasury = adm
    Buyers = {bob}
    Sellers = {sam}
    Arbiters = {sam}
    Token = {usd}
    FeeChoices <- MCFees
    LimitChoices <- MCLimits
    Amounts <- MCAmounts
    TimeoutChoices = {1}
    Endowment = 40018
    MaxEscrows = 2
    MaxLedger = 2
SPECIFICATION Spec
CHECK_DEADLOCK FALSE
INVARIANT TypeOK
INVARIANT SettledInFull
INVARIANT Solvency
INVARIANT FeeIsExact
INVARIANT RefundEligibilityExact
PROPERTY TermsNeverChange
PROPERTY ImplementsCustody
 
INVARIANT RolesDisjoint
INVARIANT ProposalIsCurrent
INVARIANT WhitelistMatchesFlags
PROPERTY RevocationTakesEffect

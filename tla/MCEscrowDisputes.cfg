CONSTANTS
    None = None
    Address = {adm, bob, sam, ann, esc}
    Self = esc
    Admins = {adm}
    Treasury = adm
    Buyers = {bob}
    Sellers = {sam}
    Arbiters = {adm, sam, ann}
    Token = {usd}
    FeeChoices <- MCTopFee
    LimitChoices <- MCLimits
    Amounts <- MCAmounts
    TimeoutChoices = {1}
    Endowment = 20009
    MaxEscrows = 1
    MaxLedger = 2
SPECIFICATION FairSpec
CHECK_DEADLOCK FALSE
INVARIANT MajorityNeverConflicts
PROPERTY QuorumDecides
PROPERTY FundsComeOut

CONSTANTS
    None = None
    Address = {ann, bot}
    Owners = {ann}
    Delegates = {bot}
    Merchants = {shop, bar}
    MerchantLists <- MCLists
    Grants <- MCGrants
    Ttls = {2}
    Spends <- MCSpends
    Decrements <- MCDecrements
    Policies = {hash}
    TimeLock = 2
    LedgerTimes = {1, 2}
    MaxLedger = 3
    MaxTime = 5
    MinSpent <- MCMinSpent
    MaxLimit = 3
    NoDelegation = NoDelegation
    Principals = {ann, bob}
    Agents = {bot, bat}
    TtlLedgers = {1, 2}
    MaxSequence = 3
    MaxId = 2
    MaxListed = 3
SPECIFICATION AuthoritySpec
CHECK_DEADLOCK FALSE
INVARIANT TypeOK
INVARIANT SpentWithinLimit
INVARIANT IndexExact
PROPERTY NoSpendOnceStopped
PROPERTY KeepsAllowance
PROPERTY AuthorityEndsForGood

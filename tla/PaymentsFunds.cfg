SPECIFICATION PaymentsSpec
CONSTANTS
    PaymentCall = {p1, p2}
    PaymentRequests <- MCPaymentRequests
    EntryPoints <- ExpectedEntries
    FeeStats = {0, 300}
    FallbackFee = 100
INVARIANT FundsHaveMoved
CHECK_DEADLOCK FALSE

SPECIFICATION BackendSpec
CONSTANTS
    Key = {k1, k2, k3}
    Reader = {reader}
    SeedWallet = {w1, w2}
    Version = {"v1", "v2", "v3"}
    Secret = {s1, s2}
    BaseSecret = s0
    Unset = Unset
    BalanceReader = {b1, b2, b3}
    CacheTtl = 2
    Patience = 1
    LastTick = 4
    AuthRequest = {a1, a2, a3, a4}
    NoToken = NoToken
    DelegationCall = {d1, d2, d3, d4}
    Bodies <- MCBodies
    Absent = Absent
    LimitedCall = {l1, l2, l3}
    MaxRequests = 1
    LastWindow = 1
    PaymentCall = {p1, p2}
    PaymentRequests <- MCPaymentRequests
    EntryPoints <- ExpectedEntries
    FeeStats = {0, 300}
    FallbackFee = 100
    Arbiter = {x1, x2, x3, x4}
    Threshold = 2
    OrderService = {o1, o2}
    MaxLives = 3
    EventDelivery = {e1, e2, e3, e4}
    DispatchCall = {n1, n2, n3}
    Browser = {c1, c2}
INVARIANTS
    KeysReadable
    BalanceRecent
    GatewayHolds
    LastRequestWins
    SettlementEventsTrue
    OrdersHold
    NothingTwice
PROPERTIES
    EndedUnlessOverlapped
CHECK_DEADLOCK FALSE

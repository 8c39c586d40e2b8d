\* The account does not exist: a cycle that may be a HOLD, an audit and an operator
\* all start by creating it, overlapping, and any may crash.
SPECIFICATION BootSpec
CONSTANTS
    r1 = r1
    r2 = r2
    r3 = r3
    buyA = buyA
    sellA = sellA
    buyB = buyB
    buyC = buyC
    hold = hold
    A = A
    B = B
    C = C
    None = None
    Requests = {r1}
    Reconcilers = {"audit"}
    Admins = {"operator"}
    AdminCommands = {"kill", "resume"}
    Orders = {buyA, hold}
    Symbols = {A}
    OrderSide <- MCOrderSide
    OrderSymbol <- MCOrderSymbol
    OrderQty <- MCOrderQty
    Tickers <- Steady
    InitialCash = 1000
    MaxInFlight = 3
    MaxClock = 3
    TicksPerDay = 2
    MaxPositionBps = 10000
    MaxDailyLossBps = 1000
    MaxOpenPositions = 2
    MaxSpreadBps = 40
    StaleAfter = 90
    CooldownTicks = 1
    SlippageBps = 1000
    FeeBps = 1000
INVARIANTS
    ServedOnCommittedRows
PROPERTIES
    RiskRowBornOnce
    OnlyEarlyRequestsReset
CHECK_DEADLOCK TRUE

\* Two executions read the same cash and both write it.
SPECIFICATION Spec
CONSTANTS
    r1 = r1
    r2 = r2
    r3 = r3
    buyA = buyA
    sellA = sellA
    buyB = buyB
    buyC = buyC
    hold = hold
    A = A
    B = B
    C = C
    None = None
    Requests = {r1, r2}
    Reconcilers = {}
    Admins = {}
    AdminCommands = {"kill"}
    Orders = {buyA, buyB}
    Symbols = {A, B}
    OrderSide <- MCOrderSide
    OrderSymbol <- MCOrderSymbol
    OrderQty <- MCOrderQty
    Tickers <- Steady
    InitialCash = 1000
    MaxInFlight = 3
    MaxClock = 2
    TicksPerDay = 2
    MaxPositionBps = 5000
    MaxDailyLossBps = 1000
    MaxOpenPositions = 2
    MaxSpreadBps = 40
    StaleAfter = 90
    CooldownTicks = 1
    SlippageBps = 1000
    FeeBps = 1000
SYMMETRY Interchangeable
INVARIANTS
    LedgerExact
CHECK_DEADLOCK TRUE

\* A request that overlaps a kill writes its old copy of the risk row back.
SPECIFICATION Spec
CONSTANTS
    r1 = r1
    r2 = r2
    r3 = r3
    buyA = buyA
    sellA = sellA
    buyB = buyB
    buyC = buyC
    hold = hold
    A = A
    B = B
    C = C
    None = None
    Requests = {r1}
    Reconcilers = {}
    Admins = {"operator"}
    AdminCommands = {"kill"}
    Orders = {buyA}
    Symbols = {A}
    OrderSide <- MCOrderSide
    OrderSymbol <- MCOrderSymbol
    OrderQty <- MCOrderQty
    Tickers <- Steady
    InitialCash = 1000
    MaxInFlight = 3
    MaxClock = 3
    TicksPerDay = 2
    MaxPositionBps = 5000
    MaxDailyLossBps = 1000
    MaxOpenPositions = 1
    MaxSpreadBps = 40
    StaleAfter = 90
    CooldownTicks = 1
    SlippageBps = 1000
    FeeBps = 1000
PROPERTIES
    KillIsSticky
CHECK_DEADLOCK TRUE

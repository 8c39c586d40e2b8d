\* Liveness: two calls for one signal, across midnight, so that a day reset and
\* an execution can wait for each other's rows; the price may move in between, so
\* that the second call conflicts; an audit runs beside them.
SPECIFICATION FairSpec
CONSTANTS
    r1 = r1
    r2 = r2
    r3 = r3
    buyA = buyA
    sellA = sellA
    buyB = buyB
    buyC = buyC
    hold = hold
    A = A
    B = B
    C = C
    None = None
    Requests = {r1, r2}
    Reconcilers = {"audit"}
    Admins = {}
    AdminCommands = {"pause"}
    Orders = {buyA}
    Symbols = {A}
    OrderSide <- MCOrderSide
    OrderSymbol <- MCOrderSymbol
    OrderQty <- MCOrderQty
    Tickers <- TwoPrices
    InitialCash = 1000
    MaxInFlight = 2
    MaxClock = 2
    TicksPerDay = 2
    MaxPositionBps = 5000
    MaxDailyLossBps = 1000
    MaxOpenPositions = 1
    MaxSpreadBps = 40
    StaleAfter = 90
    CooldownTicks = 1
    SlippageBps = 1000
    FeeBps = 1000
PROPERTIES
    EveryRequestEnds
CHECK_DEADLOCK TRUE

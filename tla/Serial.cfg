\* Three calls, one at a time, with crashes and retries, over two days.
SPECIFICATION Spec
CONSTANTS
    r1 = r1
    r2 = r2
    r3 = r3
    buyA = buyA
    sellA = sellA
    buyB = buyB
    buyC = buyC
    hold = hold
    A = A
    B = B
    C = C
    None = None
    Requests = {r1, r2, r3}
    Reconcilers = {}
    Admins = {"op1", "op2"}
    AdminCommands = {"pause", "resume", "kill", "reset"}
    Orders = {buyA, sellA}
    Symbols = {A}
    OrderSide <- MCOrderSide
    OrderSymbol <- MCOrderSymbol
    OrderQty <- MCOrderQty
    Tickers <- Steady
    InitialCash = 1000
    MaxInFlight = 1
    MaxClock = 4
    TicksPerDay = 2
    MaxPositionBps = 10000
    MaxDailyLossBps = 1000
    MaxOpenPositions = 2
    MaxSpreadBps = 40
    StaleAfter = 90
    CooldownTicks = 1
    SlippageBps = 1000
    FeeBps = 1000
SYMMETRY Interchangeable
INVARIANTS
    LedgerExact
    NoFalseAlarm
    DailyPnlExact
    EquityIsCurrent
    OpenPositionsCounted
PROPERTIES
    RefinesLedger
    KillIsSticky
CHECK_DEADLOCK TRUE

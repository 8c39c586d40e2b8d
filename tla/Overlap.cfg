\* Two calls of the cycle, for one signal or for two, overlap with an operator
\* who may kill; any of them may crash.  Quotes may be stamped in the future.
SPECIFICATION Spec
CONSTANTS
    r1 = r1
    r2 = r2
    r3 = r3
    buyA = buyA
    sellA = sellA
    buyB = buyB
    buyC = buyC
    hold = hold
    A = A
    B = B
    C = C
    None = None
    Requests = {r1, r2}
    Reconcilers = {}
    Admins = {"operator"}
    AdminCommands = {"kill"}
    Orders = {buyA, buyB, hold}
    Symbols = {A, B}
    OrderSide <- MCOrderSide
    OrderSymbol <- MCOrderSymbol
    OrderQty <- MCOrderQty
    Tickers <- SteadyOrStale
    InitialCash = 465
    MaxInFlight = 3
    MaxClock = 3
    TicksPerDay = 2
    MaxPositionBps = 10000
    MaxDailyLossBps = 1000
    MaxOpenPositions = 2
    MaxSpreadBps = 40
    StaleAfter = 90
    CooldownTicks = 1
    SlippageBps = 1000
    FeeBps = 1000
SYMMETRY Interchangeable
INVARIANTS
    AtMostOneFill
    AtomicExecution
    ReviewedFill
    TypeOK
    DivergenceReported
PROPERTIES
    IntentIsFinal
    KillStopsPendingExecution
    RetryBooksNothing
CHECK_DEADLOCK TRUE

\* Two calls of one endpoint share a client; each may try three times, two
\* requests fit into a period of three.
SPECIFICATION ClientFairSpec
CONSTANTS
    c1 = c1
    c2 = c2
    ohlc = ohlc
    Tasks = {c1, c2}
    Keys = {ohlc}
    KeyOf <- SameKey
    Limit <- TwoPerPeriod
    Period = 3
    MaxAttempts = 3
    BaseDelay = 1
    MaxDelay = 2
    RetryAfters = {0, 3}
INVARIANTS
    WindowRespected
    RetryAfterHonoured
PROPERTIES
    UsesLimiter
    EveryCallEnds
CHECK_DEADLOCK TRUE

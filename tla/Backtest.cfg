\* Every run over seven candles of three prices, with a capital of ten and one
\* that is too small to buy anything at the higher price.  Prices are tenths.
\* These periods and closes make every average a short decimal, so the fractions
\* of EmaAtr are exactly the code's Decimals, ties and touches included.
SPECIFICATION Spec
CONSTANTS
    FastPeriod = 1
    SlowPeriod = 3
    AtrPeriod = 2
    Closes = {10, 16, 19}
    Opens = {11, 25}
    Length = 7
    Capitals = {1, 100}
    Scale = 10
    FeeNum = 1
    FeeDen = 20
    SlippageBps = 500
INVARIANTS
    PnlExplained
    TradesFollowSignals
    PositionFollowsTrend
    DrawdownIsWorst
CHECK_DEADLOCK TRUE

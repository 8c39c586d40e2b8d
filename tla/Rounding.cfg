\* Three purchases and two sales, in any order, retried, abandoned and resumed.
SPECIFICATION Spec
CONSTANTS
    buy1 = buy1
    buy2 = buy2
    odd = odd
    sell1 = sell1
    sell2 = sell2
    None = None
    Orders <- MCOrders
    Buys <- MCBuys
    OrderQty <- MCOrderQty
    Asked = {400, 440}
    Notionals = {55, 400, 450, 490, 9600}
    Fees = {0, 7, 70, 100}
    Grains = 100
    Significand = 100
    Ulps = {1, 10, 100, 1000}
    InitialCash = 9
INVARIANTS
    TypeOK
    DriftBounded
    PositionExact
CHECK_DEADLOCK TRUE

\* Three discoveries, two at a time; each may fail at any statement.
SPECIFICATION Spec
CONSTANTS
    d1 = d1
    d2 = d2
    d3 = d3
    Discoveries = {d1, d2, d3}
    Symbols = {1, 2}
    MaxInFlight = 2
SYMMETRY Interchangeable
PROPERTIES
    NoFalseDeactivation
    CompleteIsExact
CHECK_DEADLOCK TRUE

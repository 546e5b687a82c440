SPECIFICATION Spec
CONSTANTS
    Bills = {1, 2}
    Forms <- mcDated
    w1 = w1
    w2 = w2
    Workers = {w1}
    Quantities = {2}
    Deltas = {1}
    Counts = {1}
    Strict = TRUE
    MaxSales = 1
    MaxAdjs = 0
    MaxDay = 1
CHECK_DEADLOCK FALSE
INVARIANT
    RoundTripExact

SPECIFICATION Spec
CONSTANTS
    Bills = {1}
    Forms <- mcForms
    w1 = w1
    w2 = w2
    Workers = {w1}
    Quantities = {2}
    Deltas = {1}
    Counts = {}
    Strict = TRUE
    MaxSales = 1
    MaxAdjs = 1
    MaxDay = 1
CHECK_DEADLOCK FALSE
INVARIANT
    CrashIsRepaired

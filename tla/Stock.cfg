SPECIFICATION StockSpec
CONSTANTS
    Bills = {1, 2}
    Forms <- mcForms
    w1 = w1
    w2 = w2
    Workers = {w1, w2}
    Quantities = {2}
    Deltas <- mcDeltas
    Counts = {1}
    Strict = TRUE
    MaxSales = 2
    MaxAdjs = 1
    MaxDay = 2
SYMMETRY stockSymmetry
INVARIANTS
    TypeOK
    QtyFollowsLedger
    ValueReconciles

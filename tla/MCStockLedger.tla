---- MODULE MCStockLedger ----
(* One category, two bills, prices whose averages do not come out even.    *)
EXTENDS StockLedger

CONSTANTS w1, w2

line(q, p) == [qty |-> q, price |-> p]

\* a bill of one line for the first day, and one of two lines without a date
mcForms == {[items |-> <<line(2, 5)>>, date |-> 1],
            [items |-> <<line(1, 4), line(2, 6)>>, date |-> 0]}

\* both bills are dated, for the first day
mcDated == {[items |-> <<line(2, 5)>>, date |-> 1], [items |-> <<line(3, 9)>>, date |-> 1]}

mcDeltas == {-1, 1}

====

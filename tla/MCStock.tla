---- MODULE MCStock ----
(* Two settings in one run: two bills and two sales before one request     *)
(* thread, and two threads with one bill, one sale and an adjustment, all  *)
(* on one day.  A date is changed by hand on the first bill only.          *)
EXTENDS MCStockLedger

VARIABLE part

Busy == {w \in Workers : worker[w] # idle}

Setting ==
    /\ part = "bills" => adjs = <<>> /\ Cardinality(Busy) < 2
    /\ \A w \in Busy : worker[w].at = "patch" => worker[w].bill = 1
    /\ part = "threads" =>
          /\ bills[2].status = "review" /\ ~bills[2].deleted /\ Len(sales) < 2 /\ day = 1
          /\ \A w \in Busy : worker[w].at = "patch" => worker[w].date = 1

StockInit == part \in {"bills", "threads"} /\ Init
StockNext == UNCHANGED part /\ Next /\ Setting'
StockSpec == StockInit /\ [][StockNext]_<<part, vars>>

\* the two threads are interchangeable
stockSymmetry == Permutations({w1, w2})
====

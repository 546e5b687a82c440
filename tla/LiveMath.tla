---- MODULE LiveMath ----
(***************************************************************************)
(* The average-cost trace of "live math" (app/calc_explain.py) beside the  *)
(* engine's own replay (app/profit_engine.py, StockEngine).  Both replay   *)
(* one category's purchases, sales and adjustments; each sorts them and    *)
(* applies them with code of its own.                                      *)
(***************************************************************************)
EXTENDS StockEngine, Sequences, SequencesExt, FiniteSets

CONSTANTS Times, Prices, Quantities, MaxEvents

VARIABLE log    \* the category's rows, in the order of their ids

Kinds == {"purchase", "sale", "adjustment"}
Event == [kind : Kinds, ts : Times, qty : Quantities, price : Prices]

TypeOK == log \in Seq(Event)

Init == log = <<>>

\* a bill line, a sale line (an imported return is negative), a stock adjustment
Record(e) ==
    /\ Len(log) < MaxEvents
    /\ e.kind = "purchase" => e.qty > 0
    /\ e.kind # "purchase" => e.price = 0
    /\ log' = Append(log, e)

Next == \E e \in Event : Record(e)

Spec == Init /\ [][Next]_log

Numbered == {[kind |-> log[i].kind, ts |-> log[i].ts, qty |-> log[i].qty,
              price |-> log[i].price, id |-> i, line |-> 0] : i \in DOMAIN log}
Sorted(S, tie) ==
    SetToSortSeq(S, LAMBDA e, f : \/ e.ts < f.ts
                                  \/ e.ts = f.ts /\ tie[e.kind] < tie[f.kind]
                                  \/ e.ts = f.ts /\ e.kind = f.kind /\ e.id < f.id)

\* the rebuild leaves out lines without a price and returns; adjustments come before sales
EngineReplay ==
    Replay({e \in Numbered : /\ e.kind = "purchase" => e.price > 0
                             /\ e.kind = "sale" => e.qty > 0})

\* Faulty variant: purchases in the order they were entered, not by the bill's date.
LiveOrderEntered ==
    Sorted({[e EXCEPT !.ts = IF e.kind = "purchase" THEN e.id ELSE e.ts] : e \in Numbered},
           [purchase |-> 0, sale |-> 1, adjustment |-> 2])

\* one stable sort by time over purchases, then sales, then adjustments
LiveOrder == Sorted(Numbered, [purchase |-> 0, sale |-> 1, adjustment |-> 2])

\* an adjustment in either direction recomputes the average
LiveEvent(p, e) ==
    IF e.kind = "purchase" THEN ApplyPurchase(p, e.qty, e.price)
    ELSE IF e.kind = "sale" THEN ApplySale(p, e.qty)
    ELSE Averaged(p.qty + e.qty, p.value + e.qty * p.avg)
LiveReplay == FoldLeft(LiveEvent, Empty, LiveOrder)

(***************************************************************************)
(* Agreement.                                                              *)
(***************************************************************************)
LeftOut == \E e \in Numbered : \/ e.kind = "purchase" /\ e.price = 0
                               \/ e.kind = "sale" /\ e.qty < 0
Tie == \E e, f \in Numbered : e.kind = "sale" /\ f.kind = "adjustment" /\ e.ts = f.ts
OutOfStock == \E k \in DOMAIN LiveOrder :
                 /\ LiveOrder[k].kind = "adjustment"
                 /\ FoldLeft(LiveEvent, Empty, SubSeq(LiveOrder, 1, k)).qty <= 0
Lost == \E e \in Numbered : e.kind = "adjustment" /\ e.qty < 0

\* The trace promises to replay "exactly like the engine does" and tells the
\* owner to repair the stock when it ends elsewhere: the quantity is the
\* engine's whenever no line without a price and no return is among the rows,
\* and quantity, value and average all are when, besides, nothing was written
\* off, no adjustment falls on an empty shelf and none on a sale's own instant.
LiveMathMatchesEngine ==
    /\ ~LeftOut => LiveReplay.qty = EngineReplay.qty
    /\ ~LeftOut /\ ~Tie /\ ~Lost /\ ~OutOfStock => LiveReplay = EngineReplay

====

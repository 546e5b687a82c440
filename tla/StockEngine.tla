---- MODULE StockEngine ----
(***************************************************************************)
(* The running weighted-average pool of one category                       *)
(* (app/profit_engine.py).  Quantities are pieces, money is whole paise:   *)
(* round(x, 2) on rupees is rounding to a paisa.  Bag categories, whose    *)
(* pool is derived from the sales table, are not covered.                  *)
(***************************************************************************)
EXTENDS Integers, Folds

Pool(q, v, a) == [qty |-> q, value |-> v, avg |-> a]
Empty == Pool(0, 0, 0)

Rounded(n, d) == (2 * n + d) \div (2 * d)

\* a new average for a pool that has just received pieces
Averaged(q, v) == Pool(q, v, IF q > 0 THEN Rounded(v, q) ELSE 0)

ApplyPurchase(p, q, price) == Averaged(p.qty + q, p.value + q * price)

\* the original price is taken out; an emptied pool loses its value
ReversePurchase(p, q, price) ==
    IF p.qty > q THEN Averaged(p.qty - q, p.value - q * price)
                 ELSE Pool(p.qty - q, 0, 0)

ApplySale(p, q) == Pool(p.qty - q, p.value - q * p.avg, p.avg)

\* Faulty variant: every sale comes back at the current average.
ReverseSaleAtAverage(p, q, cost) == Averaged(p.qty + q, p.value + q * p.avg)

\* a sale without a recorded cost comes back at the current average
ReverseSale(p, q, cost) ==
    Averaged(p.qty + q, p.value + q * (IF cost > 0 THEN cost ELSE p.avg))

ApplyAdjustment(p, delta) ==
    IF delta < 0 THEN Pool(p.qty + delta, p.value + delta * p.avg, p.avg)
                 ELSE Averaged(p.qty + delta, p.value + delta * p.avg)

(***************************************************************************)
(* Replay.  An event has a kind, a quantity, a price and the row it comes  *)
(* from; its time orders it, then its turn and its row.  A replay applies  *)
(* a set of events, the latest last.                                       *)
(***************************************************************************)
Turn(e) == CASE e.kind = "purchase" -> 0 [] e.kind = "adjustment" -> 1 [] e.kind = "sale" -> 2

Before(e, f) ==
    \/ e.ts < f.ts
    \/ e.ts = f.ts /\ \/ Turn(e) < Turn(f)
                      \/ Turn(e) = Turn(f) /\ \/ e.id < f.id
                                              \/ e.id = f.id /\ e.line < f.line

Latest(events) == CHOOSE e \in events : \A f \in events : ~Before(e, f)

\* The replay's own copy of the adjustment keeps the average of an empty pool.
ReplayAdjustment(p, delta) ==
    LET r == ApplyAdjustment(p, delta)
    IN  IF r.qty > 0 THEN r ELSE [r EXCEPT !.avg = p.avg]

ReplayEvent(e, p) ==
    IF e.kind = "purchase" THEN ApplyPurchase(p, e.qty, e.price)
    ELSE IF e.kind = "adjustment" THEN ReplayAdjustment(p, e.qty)
    ELSE ApplySale(p, e.qty)

Replay(events) == MapThenFoldSet(ReplayEvent, Empty, LAMBDA e : e, Latest, events)

\* the cost a replay gives to the sale e
ReplayCost(events, e) == Replay({f \in events : Before(f, e)}).avg

====

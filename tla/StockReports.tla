---- MODULE StockReports ----
(***************************************************************************)
(* The reports drawn from the bills and the stock: the daily stock report  *)
(* and the COGS bridge (app/profit_analytics.py), the inventory and the    *)
(* stock tied up (app/shop.py), the balance sheet (app/pos_extra.py) and   *)
(* the purchase reports (app/reports.py).  The running state of the engine *)
(* is taken at what StockLedger shows it to be: purchases - sold +         *)
(* adjustments, and never below zero for a bag.  A day is a month here.    *)
(***************************************************************************)
EXTENDS Reports

\* Faulty variant: the opening takes the period's own first day in.
BeforeAndOn(m) == {k \in Months : k <= m}
Before(m) == {k \in Months : k < m}
Thru(m) == {k \in Months : k <= m}

QtyOf(l) == l.qty
PriceOf(l) == l.price
In(lines, c) == {l \in lines : l.cat = c}
NotBelow(n, q) == IF q < n THEN n ELSE q

\* Faulty variant: a bill without a date belongs to no period.
ReceivedDated(ms) == {b \in Confirmed : b.dated \in ms}
Received(ms) == {b \in Confirmed : DateOf(b) \in ms}

Purchased(ms, c) == Sum(LAMBDA b : Sum(QtyOf, In(b.lines, c)), Received(ms))
SoldQty(ms, c) == Sum(LAMBDA s : Sum(QtyOf, In(s.lines, c)), SalesIn(ms))
Adjusted(ms, c) == Sum(LAMBDA a : a.delta, {a \in adjustments : a.month \in ms /\ a.cat = c})

\* AVG(price): the plain mean of a category's bill lines, in whole paise
PlainAvg(ms, c) ==
    LET n == Sum(LAMBDA b : Cardinality(In(b.lines, c)), Received(ms))
    IN  IF n = 0 THEN 0 ELSE Sum(LAMBDA b : Sum(PriceOf, In(b.lines, c)), Received(ms)) \div n

(***************************************************************************)
(* Daily stock report.  A bag's purchases absorb what its clamp adds.      *)
(***************************************************************************)
OnHand(ms, c) == Purchased(ms, c) - SoldQty(ms, c) + Adjusted(ms, c)

DailyCategories(m) ==
    {c \in Categories : \/ \E b \in Received(Thru(m)) : In(b.lines, c) # {}
                        \/ \E s \in SalesIn({m}) : In(s.lines, c) # {}
                        \/ \E a \in adjustments : a.month = m /\ a.cat = c}

BagRow(m, c, first, last) ==
    [opening |-> first, sold |-> SoldQty({m}, c), closing |-> last,
     purchased |-> SoldQty({m}, c) + last - first]
CategoryRow(m, c, opening) ==
    [opening |-> opening, sold |-> SoldQty({m}, c), purchased |-> Purchased({m}, c),
     closing |-> opening + Purchased({m}, c) - SoldQty({m}, c) + Adjusted({m}, c)]
DailyRow(m, c) ==
    IF c \in Bags
    THEN BagRow(m, c, NotBelow(0, OnHand(Before(m), c)), NotBelow(0, OnHand(Thru(m), c)))
    ELSE CategoryRow(m, c, OnHand(Before(m), c))

(***************************************************************************)
(* Inventory, stock tied up, balance sheet.                                *)
(***************************************************************************)
StateQty(c) == IF c \in Bags THEN NotBelow(0, OnHand(Months, c)) ELSE OnHand(Months, c)

Inventory(c) ==
    [stock |-> StateQty(c), sold |-> SoldQty(Months, c), adjustments |-> Adjusted(Months, c),
     purchased |-> IF c \in Bags THEN NotBelow(SoldQty(Months, c),
                                               Purchased(Months, c) + Adjusted(Months, c))
                                 ELSE Purchased(Months, c),
     low |-> c \notin Bags /\ StateQty(c) < 10]

Bought(ms) == {c \in Categories : \E b \in Received(ms) : In(b.lines, c) # {}}

Tied == Sum(LAMBDA c : NotBelow(0, OnHand(Months, c)) * PlainAvg(Months, c), Bought(Months))

\* the balance sheet leaves the adjustments out and lets oversold stock count against the rest
Sheet(m) ==
    Sum(LAMBDA c : (Purchased(Thru(m), c) - SoldQty(Thru(m), c)) * PlainAvg(Thru(m), c),
        Bought(Thru(m)))

(***************************************************************************)
(* COGS bridge: opening + purchases - closing.  Adjustments are valued at  *)
(* today's average in every month.                                         *)
(***************************************************************************)
BookValue(ms) ==
    Sum(LineSum, Received(ms)) - Cogs(ms)
    + Sum(LAMBDA c : Adjusted(ms, c) * PlainAvg(Months, c), Categories)

Bridged(m, opening, purchases, closing) ==
    [opening |-> opening, closing |-> closing, purchases |-> purchases,
     cogs |-> opening + purchases - closing,
     operating |-> Revenue({m}) - (opening + purchases - closing) + Extra({m})
                   - Expense({m}, "operating")]
Bridge(m) ==
    Bridged(m, BookValue(Before(m)), Sum(LineSum, Received({m})), BookValue(Thru(m)))

(***************************************************************************)
(* Purchase reports.                                                       *)
(***************************************************************************)
Summary(m) == Sum(HeaderOr, {b \in Confirmed : b.dated = m})
Billwise(m, statuses) ==
    LET listed == {b \in bills : b.status \in statuses /\ DateOf(b) = m}
    IN  [total |-> Sum(HeaderOr, listed), cost |-> Sum(LineSum, listed)]
CategoryCost(ms) == Sum(LineSum, {b \in Confirmed : b.dated \in ms})
CategoryCostEver == Sum(LineSum, Confirmed)
EstimateCost(ms) ==
    Sum(LAMBDA c : Sum(LAMBDA b : Sum(Worth, In(b.lines, c)), {b \in Confirmed : b.dated \in ms}),
        Categories)
Ranking == Sum(Header, Confirmed)

(***************************************************************************)
(* Live math (app/calc_explain.py): the steps shown beside a figure.       *)
(***************************************************************************)
TracePnl(m) ==
    LET r == Pnl(m)  gross == r.revenue - Cogs({m})
    IN  <<gross, gross - Expense({m}, "operating"),
          gross - Expense({m}, "operating") + Extra({m})>>
TraceEarnings(m) ==
    LET gross == Revenue({m}) - Cogs({m})
    IN  <<gross, gross + Extra({m}), gross + Extra({m}) - EarningsExpenses(m)>>
BridgeSteps(b) == <<b.opening + b.purchases, b.opening + b.purchases - b.closing>>
TraceMonthly(m) == BridgeSteps(Bridge(m))
TraceDaily(m) == Sum(LAMBDA c : ItemsRevenue({m}, c), DailyCategories(m))
TracePa(ms) == Sum(LAMBDA c : PaRevenue(ms, c) - ItemsCost(ms, c), Sold(ms))

Dashboard(m) ==
    [qty |-> Sum(StateQty, Categories), daily |-> TraceDaily(m), monthly |-> Bridge(m).operating,
     ytd |-> Ytd(1).profit]

(***************************************************************************)
(* Agreement.                                                              *)
(***************************************************************************)
Undated(ms) == {b \in Confirmed : b.dated = 0 /\ b.entered \in ms}
ZeroTotal(ms) == {b \in Confirmed : b.dated \in ms /\ b.written = 0}

RowAgrees(row, m, c) ==
    /\ c \in Bags => row.opening + row.purchased - row.sold = row.closing
    /\ m + 1 \in Months => DailyRow(m + 1, c).opening = row.closing
    /\ m + 1 \notin Months => row.closing = Inventory(c).stock
    /\ c \notin DailyCategories(m) => row.closing = row.opening

BridgeAgrees(bridge, m) ==
    /\ bridge.cogs = Cogs({m}) - Sum(LAMBDA c : Adjusted({m}, c) * PlainAvg(Months, c), Categories)
    /\ m + 1 \in Months => Bridge(m + 1).opening = bridge.closing
    /\ (\A c \in Categories : Adjusted({m}, c) = 0) => bridge.operating = Pnl(m).net
    /\ TraceMonthly(m)[2] = bridge.cogs

DashboardAgrees(dashboard, m) ==
    /\ dashboard.ytd = Sum(LAMBDA k : Pnl(k).net, Months)
    /\ m + 1 \notin Months => dashboard.qty = Sum(LAMBDA c : DailyRow(m, c).closing, Categories)

\* A category's stock is one figure in every stock report: a day opens where
\* the day before closed, a row balances though a bag's purchases are virtual,
\* the last day closes on the inventory's stock, and a row is missing only for
\* a category that did not move that day.  The bridge
\* finds the sales' own cost, but for the adjustments, and one month's closing
\* is the next one's opening; live math and the dashboard end on the reports' figures.
StockReportsAgree ==
    /\ \A m \in Months, c \in Categories : RowAgrees(DailyRow(m, c), m, c)
    /\ \A m \in Months :
          /\ BridgeAgrees(Bridge(m), m)
          /\ DashboardAgrees(Dashboard(m), m)
          /\ TracePnl(m)[3] = Pnl(m).net
          /\ TraceEarnings(m)[3] = ActualEarnings(m).net
          /\ TracePa({m}) = PaCategories({m}).revenue - PaCategories({m}).cogs
          /\ ~Uncategorised({m}) => TraceDaily(m) = SoldByItem({m})
    /\ \A c \in Bags : Inventory(c).stock = Inventory(c).purchased - Inventory(c).sold
    /\ (adjustments = {} /\ \A c \in Categories : OnHand(Months, c) >= 0) =>
          \A m \in Months : m + 1 \notin Months => Sheet(m) = Tied

\* What was spent on stock is one figure in every purchase report, up to two
\* named differences: bills without a date are in the bridge and the bill-wise
\* list but in no other monthly figure, and a total entered as zero is zero to
\* the P&L and the ranking but falls back on the lines elsewhere.
PurchaseReportsAgree ==
    /\ \A m \in Months :
          /\ Pnl(m).purchases + Sum(LineSum, ZeroTotal({m})) = MonthlyClose(m).spent
          /\ Summary(m) = MonthlyClose(m).spent
          /\ Billwise(m, {"confirmed"}).total = Summary(m) + Sum(HeaderOr, Undated({m}))
          /\ Billwise(m, {"confirmed"}).cost = Bridge(m).purchases
          /\ Bridge(m).purchases = EstimateCost({m}) + Sum(LineSum, Undated({m}))
          /\ CategoryCost({m}) = EstimateCost({m})
    /\ CategoryCostEver = CategoryCost(Months) + Sum(LineSum, Undated(Months))
    /\ Ranking = Sum(LAMBDA m : Pnl(m).purchases, Months) + Sum(Header, Undated(Months))

====

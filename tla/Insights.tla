---- MODULE Insights ----
(***************************************************************************)
(* What the shop reads off its books besides the reports: the insights     *)
(* and their workbook (app/insights.py, app/export.py), the home dashboard *)
(* and the morning briefing (app/routers/insights.py), the supplier        *)
(* comparison (app/category_ops.py), the day's summaries                   *)
(* (app/routers/pos.py, app/shop.py), the cash flow, the cash buckets and  *)
(* the auditor (app/auditor.py).  A bill line's name stands for its        *)
(* category and its supplier is read off what was delivered; paid sales    *)
(* are cash.  Months play the days and the 30-day windows too.             *)
(***************************************************************************)
EXTENDS Exports

LOCAL INSTANCE SequencesExt

CONSTANTS SupplierOf,    \* the supplier of each set of bill lines
          OnCredit,      \* the deliveries bought on credit
          Drawer,        \* what the drawer may hold
          ReserveShare,  \* 10 in the code: per cent of the gross profit kept back
          CoverDays,     \* 15 in the code: days of purchases the drawer should cover
          RefundFloor    \* 10 in the code: sales below which refunds are not judged

Suppliers == {SupplierOf[l] : l \in Contents}
Bill(x) == x[1]
Line(x) == x[2]
LinesBought(c) == {x \in BillLines(Confirmed) : Line(x).cat = c}
AllBought == {c \in Categories : LinesBought(c) # {}}

(***************************************************************************)
(* ABC analysis.  The query groups by name and takes the quantity of some  *)
(* one row of the group; it sorts by what all of them are worth.           *)
(***************************************************************************)
AbcPicks == {f \in [AllBought -> BillLines(Confirmed)] : \A c \in AllBought : f[c] \in LinesBought(c)}
AbcRevenue(pick, c) == Tier[c] * Line(pick[c]).qty
AbcWorth(c) == Sum(LAMBDA x : Tier[c] * Line(x).qty, LinesBought(c))
AbcOrder == SetToSortSeq(AllBought, LAMBDA c, d : AbcWorth(c) > AbcWorth(d))

AbcClass(pick, c) ==
    LET upto == {AbcOrder[i] : i \in {i \in DOMAIN AbcOrder : \E j \in DOMAIN AbcOrder :
                                         i <= j /\ AbcOrder[j] = c}}
        sofar == Sum(LAMBDA d : AbcRevenue(pick, d), upto)
        all == Sum(LAMBDA d : AbcRevenue(pick, d), AllBought)
    IN  IF 100 * sofar <= 80 * all THEN "A" ELSE IF 100 * sofar <= 95 * all THEN "B" ELSE "C"

AbcSummary(pick) ==
    [k \in {"A", "B", "C"} |-> Sum(LAMBDA c : AbcRevenue(pick, c),
                                   {c \in AllBought : AbcClass(pick, c) = k})]

(***************************************************************************)
(* Dead stock: bought before the window only, by the date on the bill.     *)
(***************************************************************************)
LastSeen(c) == LET dates == {Bill(x).dated : x \in LinesBought(c)}
               IN  CHOOSE d \in dates : \A e \in dates : e <= d
DeadStock == {c \in AllBought : LastSeen(c) # 0 /\ LastSeen(c) < Now}
TiedCapital(c) == PlainAvg(Months, c) * Sum(LAMBDA x : Line(x).qty, LinesBought(c))

(***************************************************************************)
(* Prices.                                                                 *)
(***************************************************************************)
BilledPrices(c, s) == {x \in LinesBought(c) : SupplierOf[Bill(x).lines] = s}
SellersOf(c) == {s \in Suppliers : BilledPrices(c, s) # {}}
Prices(c) == {Line(x).price : x \in LinesBought(c)}
LowestOf(S) == CHOOSE p \in S : \A q \in S : p <= q
HighestOf(S) == CHOOSE p \in S : \A q \in S : p >= q

PriceComparison ==
    [c \in {c \in AllBought : Cardinality(SellersOf(c)) >= 2} |->
        [best |-> LowestOf(Prices(c)), worst |-> HighestOf(Prices(c)),
         savings |-> HighestOf(Prices(c)) - LowestOf(Prices(c))]]

\* first and last by the date on the bill, an undated bill first
PriceHistory(c) == SetToSortSeq(LinesBought(c), LAMBDA x, y : Bill(x).dated < Bill(y).dated)
MarginErosion ==
    [c \in {c \in AllBought :
               LET h == PriceHistory(c)  n == Len(h)
                   first == Line(h[1]).price  last == Line(h[n]).price
               IN  n >= 2 /\ first # 0 /\ (100 * (last - first) > 20 * first
                                           \/ 100 * (first - last) > 20 * first)}
        |-> Line(PriceHistory(c)[Len(PriceHistory(c))]).price - Line(PriceHistory(c)[1]).price]

\* category_ops: the suppliers of a category by average price, and the check of a new bill
AvgOf(c, s) ==
    LET own == BilledPrices(c, s)
    IN  [sum |-> Sum(LAMBDA x : Line(x).price, own), n |-> Cardinality(own)]
Cheaper(a, b) == a.sum * b.n <= b.sum * a.n
SupplierComparison(c) ==
    [s \in SellersOf(c) |->
        [avg |-> AvgOf(c, s), min |-> LowestOf({Line(x).price : x \in BilledPrices(c, s)}),
         qty |-> Sum(LAMBDA x : Line(x).qty, BilledPrices(c, s)),
         cheapest |-> \A t \in SellersOf(c) : Cheaper(AvgOf(c, s), AvgOf(c, t))]]
CostWarning(c, price) ==
    /\ price > 0
    /\ SellersOf(c) # {}
    /\ LET s == CHOOSE s \in SellersOf(c) : \A t \in SellersOf(c) : Cheaper(AvgOf(c, s), AvgOf(c, t))
           avg == AvgOf(c, s)
       IN  avg.sum > 0 /\ 100 * (price * avg.n - avg.sum) > 5 * avg.sum

\* a supplier's standing counts the totals written on the bills alone
Reliability(s) ==
    LET own == {b \in Confirmed : SupplierOf[b.lines] = s}
        written(b) == IF b.written > 0 THEN b.written ELSE 0
    IN  [total |-> Sum(written, own), n |-> Cardinality(own),
         outstanding |-> Sum(written, {b \in own : b.lines \in OnCredit})]

(***************************************************************************)
(* Spending: forecast, sparklines, dashboard, the workbook's trends.       *)
(***************************************************************************)
SpendHistory ==
    LET ms == {b.dated : b \in Confirmed} \ {0}
    IN  [i \in 1 .. Cardinality(ms) |->
            Sum(Header, {b \in Confirmed : b.dated = SetToSortSeq(ms, <)[i]})]

\* the smoothed level as a fraction: half the month, half the level so far
Forecast ==
    IF Len(SpendHistory) < 2 THEN <<>>
    ELSE FoldLeft(LAMBDA level, v : <<v * level[2] + level[1], 2 * level[2]>>,
                  <<SpendHistory[1], 1>>, Tail(SpendHistory))

\* the series start at month m; what was owed before it is not carried in
Sparklines(m) ==
    LET days == {k \in Months : k >= m}
    IN  [spend |-> [k \in days |-> Sum(Header, {b \in Confirmed : b.dated = k})],
         bills |-> [k \in days |-> Cardinality({b \in Confirmed : b.dated = k})],
         outstanding |-> [k \in days |-> Sum(Header, {b \in Confirmed : b.dated \in m .. k
                                                                        /\ b.lines \in OnCredit})]]

Kpis ==
    [spent |-> Sum(Header, Confirmed),
     outstanding |-> Sum(Header, {b \in Confirmed : b.lines \in OnCredit}),
     bills |-> Cardinality({b \in bills : b.status # "deleted"}),
     confirmed |-> Cardinality(Confirmed),
     review |-> Cardinality({b \in bills : b.status = "review"}),
     month |-> Sum(Header, {b \in Confirmed : b.dated = Now}),
     last |-> Sum(Header, {b \in Confirmed : b.dated = Now - 1}),
     suppliers |-> [s \in Suppliers |-> Sum(Header, {b \in Confirmed : SupplierOf[b.lines] = s})],
     categories |-> [c \in AllBought |->
                        Sum(LAMBDA x : Worth(Line(x)), {x \in LinesBought(c) : Bill(x).dated = Now})]]

InsightsBook ==
    [abc |-> AllBought, dead |-> DeadStock, prices |-> DOMAIN PriceComparison,
     suppliers |-> Kpis.suppliers,
     trends |-> [p \in {<<b.dated, SupplierOf[b.lines]>> : b \in {b \in Confirmed : b.dated # 0}} |->
                    Sum(Header, {b \in Confirmed : b.dated = p[1] /\ SupplierOf[b.lines] = p[2]})]]

(***************************************************************************)
(* The day: the sales list, its summary, the Z-report, the owner's message *)
(* and the morning briefing.                                               *)
(***************************************************************************)
\* Faulty variant: refunded sales stay in the day's money.
DaySalesAll(m) == {s \in sales : s.month = m}
DaySales(m) == {s \in sales : s.month = m /\ s.status # "refunded"}

DaySummary(m) ==
    LET own == DaySales(m)
    IN  [count |-> Cardinality({s \in sales : s.month = m}), valid |-> Cardinality(own),
         revenue |-> Sum(Total, own),
         cash |-> Sum(Total, {s \in own : s.status = "paid"}),
         credit |-> Sum(Total, {s \in own : s.status = "credit"}),
         cost |-> Sum(CostOf, own),
         items |-> Sum(LAMBDA s : Sum(QtyOf, s.lines), own)]

ZReport(m) ==
    LET refunds == {s \in sales : s.month = m /\ s.status = "refunded"}
    IN  [summary |-> DaySummary(m), refunds |-> Cardinality(refunds),
         refunded |-> Sum(Total, refunds),
         payments |-> [k \in {"paid", "credit"} |->
                          Sum(Total, {s \in sales : s.month = m /\ s.status = k})]]

DailySummary(m) ==
    [sales |-> Revenue({m}), cash |-> Sum(Total, {s \in SalesIn({m}) : s.status = "paid"}),
     credit |-> Sum(Total, {s \in SalesIn({m}) : s.status = "credit"}),
     n |-> Cardinality(SalesIn({m})), extra |-> Extra({m}),
     low |-> Cardinality({c \in Categories : Inventory(c).low})]

\* the message leaves lines out, never the total
SummaryText(m) ==
    LET s == DailySummary(m)
    IN  <<s.sales, s.cash>> \o (IF s.credit > 0 THEN <<s.credit>> ELSE <<>>)

Briefing(m) ==
    [revenue |-> Revenue({m}),
     paid |-> Sum(Total, {s \in sales : s.month = m /\ s.status = "paid"}),
     credit |-> Sum(Total, {s \in sales : s.month = m /\ s.status = "credit"}),
     margin |-> Revenue({m}) - Cogs({m}),
     low |-> {c \in Categories : Inventory(c).low \/ Inventory(c).stock <= 0}]
BriefingActions(m) ==
    (IF Briefing(m).low # {} THEN {"create_po"} ELSE {}) \cup {"open_report"}

\* a page of the sales, the number of the page kept between the first and the last
ClampPage(page, total, size) ==
    LET last == (total + size - 1) \div size
    IN  IF total = 0 \/ page < 1 THEN 1 ELSE IF page > last THEN last ELSE page
SalesPage(m, page, size) ==
    LET listed == SetToSeq({s \in sales : s.month = m})
        at == ClampPage(page, Len(listed), size)
        upto == IF at * size < Len(listed) THEN at * size ELSE Len(listed)
    IN  [page |-> at, total |-> Len(listed),
         sales |-> SubSeq(listed, (at - 1) * size + 1, upto),
         pages |-> (Len(listed) + size - 1) \div size]

(***************************************************************************)
(* Money: the month's expenses and extra sales, the cash flow, the KPIs of *)
(* the stock and its shrinkage.                                            *)
(***************************************************************************)
ExpenseSummary(m) ==
    [operating |-> Expense({m}, "operating"), draws |-> Expense({m}, "owner_draw"),
     last |-> Expense({m - 1}, "operating"),
     total |-> Expense({m}, "operating") + Expense({m}, "owner_draw")]
ExtraSummary(m) == [total |-> Extra({m}), last |-> Extra({m - 1}),
                    n |-> Cardinality(extras \cap {m})]

CashFlow(m) ==
    LET in == Sum(Total, {s \in SalesIn({m}) : s.status = "paid"}) + Extra({m})
        out == Expense({m}, "operating") + Expense({m}, "owner_draw")
    IN  [in |-> in, out |-> out, net |-> in - out,
         purchases |-> Sum(Header, {b \in Confirmed : b.dated = m /\ b.lines \notin OnCredit})]

StockKpis(ms) ==
    [cogs |-> Cogs(ms), gross |-> Revenue(ms) - Cogs(ms),
     sold |-> Sum(LAMBDA c : SoldQty(ms, c), Categories \cup {None}),
     received |-> Sum(LAMBDA x : Line(x).qty, BillLines({b \in Confirmed : b.dated \in ms}))]

\* a loss is valued at the mean price over every bill, deleted and unconfirmed ones too
AnyAvg(c) ==
    LET own == {x \in BillLines(bills) : Line(x).cat = c}
    IN  IF own = {} THEN 0 ELSE Sum(LAMBDA x : Line(x).price, own) \div Cardinality(own)
Shrinkage(ms) ==
    Sum(LAMBDA a : -a.delta * AnyAvg(a.cat), {a \in adjustments : a.month \in ms /\ a.delta < 0})

====

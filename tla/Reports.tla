---- MODULE Reports ----
(***************************************************************************)
(* The shop's books and the profit reports drawn from them: the P&L and    *)
(* actual earnings (app/shop.py), the monthly, year-to-date and margin     *)
(* figures (app/profit_analytics.py), profit analysis and sold stock       *)
(* (app/reports.py), the monthly close (app/insights.py) and the cash      *)
(* buckets (app/profit_cash.py).  Every report is an operator over the     *)
(* same tables, each with the filters and joins of its own queries.  A     *)
(* table is a set of rows; money is whole paise; a month has one day.      *)
(***************************************************************************)
EXTENDS Integers, FiniteSets, FiniteSetsExt

CONSTANTS Months,     \* 1 .. n
          Categories,
          Bags,       \* the categories following the bags rule
          None,       \* no category
          Carts,      \* sets of lines [cat, qty, amount, cost]
          Discounts,
          Contents,   \* sets of bill lines [cat, qty, price]
          MaxRows     \* bound: rows in all tables together

VARIABLES sales, bills, adjustments, expenses, extras

books == <<sales, bills, adjustments, expenses, extras>>

Sum(f(_), S) == MapThenSumSet(f, S)

Rows == Cardinality(sales) + Cardinality(bills) + Cardinality(adjustments)
        + Cardinality(expenses) + Cardinality(extras)

TypeOK ==
    /\ \A s \in sales : s \in [month : Months, lines : Carts, discount : Discounts,
                               status : {"paid", "credit", "refunded"}]
    /\ \A b \in bills : b \in [dated : Months \cup {0}, entered : Months, lines : Contents,
                               written : {-1, 0, 500}, status : {"review", "confirmed", "deleted"}]
    /\ \A a \in adjustments : a \in [month : Months, cat : Categories, delta : {-1, 1}]
    /\ \A e \in expenses : e \in [month : Months, kind : {"operating", "owner_draw"}]
    /\ extras \subseteq Months

Init == sales = {} /\ bills = {} /\ adjustments = {} /\ expenses = {} /\ extras = {}

(***************************************************************************)
(* Entering rows.  A back-dated sale is one an import brought in.          *)
(***************************************************************************)
Sell(m, cart, discount, status) ==
    /\ Rows < MaxRows
    /\ sales' = sales \cup {[month |-> m, lines |-> cart, discount |-> discount,
                             status |-> status]}
    /\ UNCHANGED <<bills, adjustments, expenses, extras>>

Refund(s) ==
    /\ s.status # "refunded"
    /\ sales' = (sales \ {s}) \cup {[s EXCEPT !.status = "refunded"]}
    /\ UNCHANGED <<bills, adjustments, expenses, extras>>

EnterBill(m, dated, lines, written) ==
    /\ Rows < MaxRows
    /\ bills' = bills \cup {[dated |-> IF dated THEN m ELSE 0, entered |-> m, lines |-> lines,
                             written |-> written, status |-> "review"]}
    /\ UNCHANGED <<sales, adjustments, expenses, extras>>

SetBill(b, status) ==
    /\ b.status = "review" \/ (b.status = "confirmed" /\ status = "deleted")
    /\ bills' = (bills \ {b}) \cup {[b EXCEPT !.status = status]}
    /\ UNCHANGED <<sales, adjustments, expenses, extras>>

Adjust(m, cat, delta) ==
    /\ Rows < MaxRows
    /\ adjustments' = adjustments \cup {[month |-> m, cat |-> cat, delta |-> delta]}
    /\ UNCHANGED <<sales, bills, expenses, extras>>

Spend(m, kind) ==
    /\ Rows < MaxRows
    /\ expenses' = expenses \cup {[month |-> m, kind |-> kind]}
    /\ UNCHANGED <<sales, bills, adjustments, extras>>

SellExtra(m) ==
    /\ Rows < MaxRows
    /\ extras' = extras \cup {m}
    /\ UNCHANGED <<sales, bills, adjustments, expenses>>

Next ==
    \/ \E m \in Months, cart \in Carts, d \in Discounts, st \in {"paid", "credit"} :
          Sell(m, cart, d, st)
    \/ \E s \in sales : Refund(s)
    \/ \E m \in Months, dated \in BOOLEAN, lines \in Contents, w \in {-1, 0, 500} :
          EnterBill(m, dated, lines, w)
    \/ \E b \in bills, st \in {"confirmed", "deleted"} : SetBill(b, st)
    \/ \E m \in Months, c \in Categories, d \in {-1, 1} : Adjust(m, c, d)
    \/ \E m \in Months, k \in {"operating", "owner_draw"} : Spend(m, k)
    \/ \E m \in Months : SellExtra(m)

Spec == Init /\ [][Next]_books

(***************************************************************************)
(* What the queries share.                                                 *)
(***************************************************************************)
Valid(s) == s.status \in {"paid", "credit"}
SalesIn(ms) == {s \in sales : Valid(s) /\ s.month \in ms}

Amount(l) == l.amount
LineCost(l) == l.qty * l.cost
Total(s) == Sum(Amount, s.lines) - s.discount
CostOf(s) == Sum(LineCost, s.lines)
DiscountOf(s) == s.discount

Revenue(ms) == Sum(Total, SalesIn(ms))
Cogs(ms) == Sum(CostOf, SalesIn(ms))
Expense(ms, kind) == 100 * Cardinality({e \in expenses : e.month \in ms /\ e.kind = kind})
Extra(ms) == 50 * Cardinality(extras \cap ms)

Confirmed == {b \in bills : b.status = "confirmed"}
Worth(l) == l.qty * l.price
LineSum(b) == Sum(Worth, b.lines)

\* bill_date, or the day the bill was entered when it has none
DateOf(b) == IF b.dated # 0 THEN b.dated ELSE b.entered

\* COALESCE(written_total, computed_total): an entered zero counts
Header(b) == IF b.written # -1 THEN b.written ELSE LineSum(b)

\* written_total or computed_total, in Python: an entered zero does not
HeaderOr(b) == IF b.written > 0 THEN b.written ELSE LineSum(b)

(***************************************************************************)
(* The profit reports.                                                     *)
(***************************************************************************)
Pnl(m) ==
    LET revenue == Revenue({m})  cost == Cogs({m})
    IN  [revenue |-> revenue, gross |-> revenue - cost, draws |-> Expense({m}, "owner_draw"),
         net |-> revenue - cost + Extra({m}) - Expense({m}, "operating"),
         purchases |-> Sum(Header, {b \in Confirmed : b.dated = m})]

EarningsExpenses(m) == Expense({m}, "operating")
LastMonth(m) == Revenue({m - 1}) - Cogs({m - 1}) - EarningsExpenses(m - 1) + Extra({m - 1})
ActualEarnings(m) ==
    [net |-> Revenue({m}) - Cogs({m}) + Extra({m}) - EarningsExpenses(m), last |-> LastMonth(m)]

\* the monthly close: everything that is not an owner's draw is operating
MonthlyClose(m) ==
    LET operating == 100 * Cardinality({e \in expenses : e.month = m /\ e.kind # "owner_draw"})
    IN  [net |-> Revenue({m}) - Cogs({m}) + Extra({m}) - operating,
         spent |-> Sum(HeaderOr, {b \in Confirmed : b.dated = m})]

\* year to date since the opening month; rows for months with a sale or extra income
Since(m) == {k \in Months : k >= m}
\* Faulty variant: totals summed over sales joined with their lines.
YtdSalesJoined(m) == Sum(LAMBDA s : Cardinality(s.lines) * Total(s), SalesIn(Since(m)))
YtdSales(m) == Revenue(Since(m))
Ytd(m) ==
    [sales |-> YtdSales(m),
     profit |-> YtdSales(m) - Cogs(Since(m)) + Extra(Since(m)) - Expense(Since(m), "operating"),
     rows |-> {k \in Since(m) : SalesIn({k}) # {} \/ k \in extras}]

(***************************************************************************)
(* Profit analysis.  By month, a month with a sale or with extra income    *)
(* has a row, one with expenses alone has none.  By category, the sales'   *)
(* totals are spread over the categories in the ratio of their lines.      *)
(***************************************************************************)
PaMonths(ms) == {m \in ms : SalesIn({m}) # {}} \cup (extras \cap ms)
PaRow(m) == [profit |-> Revenue({m}) - Cogs({m}) + Extra({m}) - Expense({m}, "operating")]
PaProfit(ms) == Sum(LAMBDA m : PaRow(m).profit, PaMonths(ms))

LinesOf(s, c) == {l \in s.lines : l.cat = c}
ItemsRevenue(ms, c) == Sum(LAMBDA s : Sum(Amount, LinesOf(s, c)), SalesIn(ms))
ItemsCost(ms, c) == Sum(LAMBDA s : Sum(LineCost, LinesOf(s, c)), SalesIn(ms))
Sold(ms) == {c \in Categories : \E s \in SalesIn(ms) : LinesOf(s, c) # {}}

Nearest(n, d) == (2 * n + d) \div (2 * d)
PaRevenue(ms, c) ==
    LET all == Sum(LAMBDA k : ItemsRevenue(ms, k), Sold(ms))
    IN  IF all > 0 THEN Nearest(ItemsRevenue(ms, c) * Revenue(ms), all) ELSE ItemsRevenue(ms, c)
PaCategories(ms) ==
    [revenue |-> Sum(LAMBDA c : PaRevenue(ms, c), Sold(ms)),
     cogs |-> Sum(LAMBDA c : ItemsCost(ms, c), Sold(ms))]

\* sold stock: what the lines charged; the sales' own discounts are listed beside it
SoldStock(ms) ==
    [revenue |-> Sum(LAMBDA c : ItemsRevenue(ms, c), Sold(ms)),
     discounts |-> Sum(DiscountOf, SalesIn(ms))]
SoldByItem(ms) == Sum(LAMBDA s : Sum(Amount, s.lines), SalesIn(ms))

\* listings of the sales: the tax export, the hours of the day, the average ticket
FbrExport(ms) == Sum(LAMBDA s : Sum(Amount, s.lines) - s.discount, SalesIn(ms))
PeakHours(ms) == Sum(Total, SalesIn(ms))
AtvBasket(ms) == [revenue |-> Revenue(ms), n |-> Cardinality(SalesIn(ms)),
                  items |-> Sum(LAMBDA s : Sum(LAMBDA l : l.qty, s.lines), SalesIn(ms))]
YoyRow(m) == [revenue |-> Revenue({m}), n |-> Cardinality(SalesIn({m}))]
TopItems(ms) == Sum(LAMBDA c : ItemsRevenue(ms, c), Sold(ms) \cup {None})

Margins ==
    [sales |-> Sum(LAMBDA s : Sum(Amount, s.lines), SalesIn(Months)), cogs |-> Cogs(Months)]

(***************************************************************************)
(* Agreement.  The named causes are where two reports differ by design or  *)
(* by omission.                                                            *)
(***************************************************************************)
Uncategorised(ms) == \E s \in SalesIn(ms) : LinesOf(s, None) # {}
ExpensesOnly(ms) == {m \in ms : SalesIn({m}) = {} /\ m \notin extras}

\* The owner reads one profit in many places: for every month the P&L, actual
\* earnings (and the next month's "last month") and the monthly close give the
\* same net figure; year to date and the month view of profit analysis add up
\* to it (as do the tax export and the sales listings), save for months with nothing but expenses, which have no row; the
\* category view spreads exactly what the customers paid, within half a paisa
\* a category, and sold stock less the sales' discounts is the same money,
\* when every line has a category.
ProfitReportsAgree ==
    /\ \A m \in Months :
          /\ ActualEarnings(m).net = Pnl(m).net
          /\ MonthlyClose(m).net = Pnl(m).net
          /\ m + 1 \in Months => ActualEarnings(m + 1).last = Pnl(m).net
          /\ LET ms == Since(m)
             IN  /\ Ytd(m).sales = Sum(LAMBDA k : Pnl(k).revenue, ms)
                 /\ Ytd(m).profit = Sum(LAMBDA k : Pnl(k).net, ms)
                 /\ Ytd(m).rows = PaMonths(ms)
                 /\ FbrExport(ms) = Ytd(m).sales /\ PeakHours(ms) = Ytd(m).sales
                 /\ AtvBasket(ms).revenue = Sum(LAMBDA k : YoyRow(k).revenue, ms)
                 /\ AtvBasket(ms).n = Sum(LAMBDA k : YoyRow(k).n, ms)
                 /\ TopItems(ms) = SoldByItem(ms)
                 /\ PaProfit(ms) - Expense(ExpensesOnly(ms), "operating") = Ytd(m).profit
                 /\ ~Uncategorised(ms) =>
                       /\ 2 * (PaCategories(ms).revenue - Ytd(m).sales)
                             \in -Cardinality(Sold(ms)) .. Cardinality(Sold(ms))
                       /\ PaCategories(ms).cogs = Cogs(ms)
                       /\ SoldStock(ms).revenue - SoldStock(ms).discounts = Revenue(ms)
                       /\ SoldStock(ms).revenue = SoldByItem(ms)
    /\ Margins.sales = SoldByItem(Months)
    /\ Margins.cogs = Cogs(Months)

====

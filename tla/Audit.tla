---- MODULE Audit ----
(***************************************************************************)
(* The cash buckets and the stock reserve (app/profit_cash.py), what the   *)
(* owner may take out, and the auditor's checks over them                  *)
(* (app/auditor.py), with the agreement of everything in Insights with the *)
(* reports.  What the drawer holds and what the owner took out are given.  *)
(***************************************************************************)
EXTENDS Insights

LOCAL INSTANCE SequencesExt

Buckets(m, cash, taken) ==
    LET gross == Revenue({m}) - Cogs({m})
        reserve == Nearest(gross * ReserveShare, 100)
    IN  [stock |-> Cogs({m}), operating |-> Expense({m}, "operating"), reserve |-> reserve,
         owner |-> taken, cash |-> cash,
         available |-> cash - Cogs({m}) - Expense({m}, "operating") - reserve]

\* days of cover, to a tenth; 30 days are one month here
StockReserve(cash) ==
    LET cogs == Cogs({Now})
        tenths == IF cogs > 0 THEN Nearest(300 * cash, cogs) ELSE 0
    IN  [tenths |-> tenths,
         color |-> IF tenths >= 10 * CoverDays THEN "green"
                   ELSE IF 2 * tenths >= 10 * CoverDays THEN "amber" ELSE "red"]

Safe(b) == b.cash - b.stock - b.operating - b.reserve
SafeWithdrawal(b) ==
    LET over == IF Safe(b) > 0 THEN NotBelow(0, b.owner - Safe(b)) ELSE b.owner
    IN  [safe |-> Safe(b), remaining |-> Safe(b) - b.owner, over |-> over, isOver |-> over > 0]

(***************************************************************************)
(* The checks.  Each looks at the month that is running, whatever period   *)
(* the run is filed under.                                                 *)
(***************************************************************************)
Finding(key, severity) == [key |-> key, cat |-> None, severity |-> severity]

CheckEarnings ==
    LET earned == Revenue({Now}) - Cogs({Now}) - Expense({Now}, "operating")
        gross == Revenue({Now}) - Cogs({Now})
        apart == earned - (gross - Expense({Now}, "operating"))
    IN  IF apart > 100 \/ apart < -100 THEN {Finding("earnings", "critical")} ELSE {}
CheckCogsBridge ==
    IF Cogs({Now}) = 0 /\ CategoryCost({Now}) > 0 THEN {Finding("cogs_bridge", "critical")} ELSE {}
CheckOverWithdrawal(b) ==
    IF (b.owner > Safe(b) /\ Safe(b) > 0) \/ (b.owner > 0 /\ Safe(b) <= 0)
    THEN {Finding("over_withdrawal", "critical")} ELSE {}
CheckRestock(cash) ==
    IF Cogs({Now}) > 0 /\ 30 * cash < CoverDays * Cogs({Now})
    THEN {Finding("restock", "warning")} ELSE {}
CheckReserve(cash) ==
    CASE StockReserve(cash).color = "red" -> {Finding("reserve", "critical")}
      [] StockReserve(cash).color = "amber" -> {Finding("reserve", "warning")}
      [] OTHER -> {}
CheckNegativeStock ==
    {[Finding("negative", "critical") EXCEPT !.cat = c] : c \in {c \in Categories : StateQty(c) < 0}}
CheckRefunds ==
    LET n == Cardinality({s \in sales : s.month = Now})
        refunds == Cardinality({s \in sales : s.month = Now /\ s.status = "refunded"})
    IN  IF n > RefundFloor /\ 10 * refunds > n THEN {Finding("refunds", "warning")} ELSE {}
CheckUnconfirmed ==
    IF \E b \in bills : b.status = "review" /\ b.dated # 0 /\ b.dated < Now
    THEN {Finding("unconfirmed", "info")} ELSE {}

Findings(cash, taken) ==
    LET b == Buckets(Now, cash, taken)
    IN  CheckEarnings \cup CheckCogsBridge \cup CheckOverWithdrawal(b) \cup CheckRestock(cash)
        \cup CheckReserve(cash) \cup CheckNegativeStock \cup CheckRefunds \cup CheckUnconfirmed

Filed(period, found) ==
    LET of(severity) == Cardinality({f \in found : f.severity = severity})
    IN  [period |-> period, n |-> Cardinality(found), findings |-> found,
         critical |-> of("critical"), warning |-> of("warning"), info |-> of("info")]
RunAudit(period, cash, taken) == Filed(period, Findings(cash, taken))

CloseWithAudit(m, cash, taken) ==
    [close |-> MonthlyClose(m), audit |-> RunAudit(m, cash, taken)]

(***************************************************************************)
(* Agreement.                                                              *)
(***************************************************************************)
OnceBought == \A c \in AllBought : Cardinality(LinesBought(c)) = 1
Written == \A b \in Confirmed : b.written > 0
Purchases(ms) == Sum(LAMBDA m : Pnl(m).purchases, ms)
OwedBefore(m) == {b \in Confirmed : b.lines \in OnCredit /\ b.dated < m}

\* What was bought: classes that add up to the items, an item alone is in the
\* last class; a dearer last price is a difference between suppliers or one
\* supplier's own; no price ever paid lowest is warned of.
BillInsights ==
    /\ \A pick \in AbcPicks :
          /\ Whole(AbcSummary(pick)) = Sum(LAMBDA c : AbcRevenue(pick, c), AllBought)
          /\ OnceBought => \A c \in AllBought : AbcRevenue(pick, c) = Tier[c] * Purchased(Months, c)
          /\ \A c \in AllBought :
                AllBought = {c} /\ AbcRevenue(pick, c) > 0 => AbcClass(pick, c) = "C"
    /\ \A c \in DeadStock :
          SoldQty(Months, c) = 0 /\ Adjusted(Months, c) = 0 => TiedCapital(c) <= Tied
    /\ \A c \in DOMAIN PriceComparison \cap DOMAIN MarginErosion :
          /\ MarginErosion[c] <= PriceComparison[c].savings
          /\ -MarginErosion[c] <= PriceComparison[c].savings
    /\ \A c \in AllBought :
          /\ Column(SupplierComparison(c), "qty") = Purchased(Months, c)
          /\ \E s \in SellersOf(c) : SupplierComparison(c)[s].cheapest
          /\ c \in DOMAIN PriceComparison =>
                PriceComparison[c].best = LowestOf({SupplierComparison(c)[s].min : s \in SellersOf(c)})
          /\ ~CostWarning(c, LowestOf(Prices(c)))

\* What was spent: dashboard, sparklines, forecast and workbook are the P&L's
\* purchases and the ranking; bills without a date, or before the sparkline
\* begins, are the named difference, and a supplier's standing misses the
\* bills whose total was left empty.
SpendInsights ==
    /\ Kpis.spent = Ranking /\ Whole(Kpis.suppliers) = Ranking
    /\ Kpis.month = Pnl(Now).purchases /\ Kpis.last = Pnl(Now - 1).purchases
    /\ Whole(Kpis.categories) = CategoryCost({Now})
    /\ Kpis.confirmed + Kpis.review = Kpis.bills /\ Kpis.bills = Cardinality(BillsBook.bills)
    /\ \A m \in Months :
          /\ Whole(Sparklines(m).spend) = Purchases({k \in Months : k >= m})
          /\ Sparklines(m).outstanding[Now] = Kpis.outstanding - Sum(Header, OwedBefore(m))
    /\ Sum(LAMBDA i : SpendHistory[i], DOMAIN SpendHistory) = Purchases(Months)
    /\ Forecast # <<>> =>
          \E i, j \in DOMAIN SpendHistory : /\ SpendHistory[i] * Forecast[2] <= Forecast[1]
                                           /\ Forecast[1] <= SpendHistory[j] * Forecast[2]
    /\ Whole(InsightsBook.trends) = Whole(BillsBook.trends)
    /\ \A s \in Suppliers : /\ Written => Reliability(s).total = Kpis.suppliers[s]
                              /\ Reliability(s).outstanding <= Reliability(s).total

DayAgrees(day, z, m) ==
    /\ day.revenue = Pnl(m).revenue /\ day.cost = Cogs({m})
    /\ day.cash + day.credit = day.revenue
    /\ z.refunds + day.valid = day.count /\ Whole(z.payments) = day.revenue
    /\ z.refunded + day.revenue = Sum(Total, {s \in sales : s.month = m})
    /\ day.items = AtvBasket({m}).items /\ day.valid = YoyRow(m).n

\* the owner's message and the briefing
NoticesAgree(daily, text, briefing, day) ==
    /\ daily.sales = day.revenue /\ daily.n = day.valid
    /\ text[1] = Whole(Tail(text))
    /\ briefing.paid + briefing.credit = day.revenue
    /\ briefing.margin = day.revenue - day.cost

PagesAgree(last, m, size) ==
    /\ last.total > 0 => last.page = last.pages /\ last.sales # <<>>
    /\ UNION {ToSet(SalesPage(m, p, size).sales) : p \in 1 .. last.pages}
          = {s \in sales : s.month = m}

\* What was sold: every page of the list together is the day, its money is the
\* P&L's revenue with the refunds beside it.
DayInsights ==
    \A m \in Months :
       /\ DayAgrees(DaySummary(m), ZReport(m), m)
       /\ NoticesAgree(DailySummary(m), SummaryText(m), Briefing(m), DaySummary(m))
       /\ \A size \in {1, 2} : PagesAgree(SalesPage(m, MaxRows + 1, size), m, size)

\* What came in and went out.  The cash flow leaves out what was sold on
\* credit and what the stock cost; a loss is valued over every bill, so it is
\* the bridge's only when none was deleted or is waiting.
MoneyInsights ==
    \A m \in Months :
       /\ ExpenseSummary(m).operating = EarningsExpenses(m)
       /\ ExpenseSummary(m).total = CashFlow(m).out
       /\ m > 1 => ExpenseSummary(m).last = ExpenseSummary(m - 1).operating
                   /\ ExtraSummary(m).last = ExtraSummary(m - 1).total
       /\ CashFlow(m).net = Pnl(m).net + Cogs({m}) - DaySummary(m).credit - Pnl(m).draws
       /\ CashFlow(m).purchases
             = Pnl(m).purchases - Sum(Header, {b \in CloseBills(m) : b.lines \in OnCredit})
       /\ StockKpis({m}).gross = Pnl(m).gross /\ StockKpis({m}).sold = DaySummary(m).items
       /\ StockKpis({m}).received = Column(CloseCategories(m), "pieces")
       /\ ((\A b \in bills : b.status = "confirmed") /\ (\A a \in adjustments : a.delta < 0)) =>
             Bridge(m).cogs = Cogs({m}) + Shrinkage({m})

BucketsAgree(b, withdrawal, keys) ==
    /\ b.available = withdrawal.safe
    /\ ("over_withdrawal" \in keys) = withdrawal.isOver

ReserveAgrees(reserve, keys) ==
    /\ Cogs({Now}) > 0 =>
          /\ reserve.color # "green" => "restock" \in keys
          /\ "restock" \in keys => reserve.tenths <= 10 * CoverDays
    /\ Cogs({Now}) = 0 => reserve.color = "red" /\ "restock" \notin keys

AuditAgrees(audit, keys) ==
    /\ "earnings" \notin keys
    /\ \A c \in Categories :
          (\E f \in audit.findings : f.key = "negative" /\ f.cat = c) = (Inventory(c).stock < 0)
    /\ "refunds" \in keys => 10 * ZReport(Now).refunds > ZReport(Now).summary.count
    /\ "cogs_bridge" \in keys => Pnl(Now).gross = Pnl(Now).revenue
    /\ audit.critical + audit.warning + audit.info = audit.n

FiledAgrees(filed, audit, m) ==
    /\ filed.audit.findings = audit.findings
    /\ filed.close.net = Pnl(m).net

Keys(audit) == {f.key : f \in audit.findings}
AuditsAgree(audit, b, cash, taken) ==
    /\ BucketsAgree(b, SafeWithdrawal(b), Keys(audit))
    /\ ReserveAgrees(StockReserve(cash), Keys(audit))
    /\ AuditAgrees(audit, Keys(audit))
    /\ \A m \in Months : FiledAgrees(CloseWithAudit(m, cash, taken), audit, m)

\* What the owner may take.  The auditor, the buckets and the withdrawal screen
\* say the same of one drawer; the earnings check never finds anything; a shop
\* that sold nothing is told its reserve is critical; a month closed late is
\* filed with the findings of the month that is running.
AuditInsights ==
    \A cash \in Drawer, taken \in {0, 100} :
       AuditsAgree(RunAudit(Now, cash, taken), Buckets(Now, cash, taken), cash, taken)

\* Everything the shop reads off its books says what the reports say, save the
\* named differences of the five parts above.
InsightsMatchReports ==
    BillInsights /\ SpendInsights /\ DayInsights /\ MoneyInsights /\ AuditInsights

====

---- MODULE Exports ----
(***************************************************************************)
(* The files drawn from the reports: the bill workbook by price tier, the  *)
(* monthly close as a PDF, the CSVs of profit analysis and sold stock, the *)
(* generator any report is exported with (app/routers/reports.py) and the  *)
(* bills workbook (app/export.py).  A report reaches the generator as a    *)
(* dictionary of figures, sections of figures and lists of rows; a section *)
(* maps a path of keys to a figure.  Only layout is left out.              *)
(***************************************************************************)
EXTENDS StockReports, Sequences

LOCAL INSTANCE SequencesExt

CONSTANTS Tier,           \* the selling price of each category, and of None: 0
          StandardTiers,  \* the prices with a sheet of their own place
          PdfRows         \* 50 in the code: rows a PDF shows of a table

Now == CHOOSE m \in Months : \A k \in Months : k <= m

(***************************************************************************)
(* Bill workbook: one sheet a selling price, and a summary.                *)
(***************************************************************************)
Chosen(m, statuses, ids) ==
    {b \in bills : b.status \in statuses /\ DateOf(b) = m /\ (ids # <<>> => b \in ids[1])}
BillLines(bs) == UNION {{<<b, l>> : l \in b.lines} : b \in bs}
SheetLines(bs, price) == {x \in BillLines(bs) : Tier[x[2].cat] = price}

\* Faulty variant: only the standard tiers are written.
SheetsStandard(bs) == {p \in StandardTiers : SheetLines(bs, p) # {}}
Sheets(bs) ==
    LET others == {Tier[x[2].cat] : x \in BillLines(bs)} \ StandardTiers
    IN  {p \in StandardTiers \cup others : SheetLines(bs, p) # {}}

SheetTotal(bs, price) ==
    [items |-> Cardinality(SheetLines(bs, price)),
     qty |-> Sum(LAMBDA x : x[2].qty, SheetLines(bs, price)),
     amount |-> Sum(LAMBDA x : Worth(x[2]), SheetLines(bs, price))]

GrandTotal(bs) ==
    [items |-> Sum(LAMBDA p : SheetTotal(bs, p).items, Sheets(bs)),
     amount |-> Sum(LAMBDA p : SheetTotal(bs, p).amount, Sheets(bs))]

\* a sheet's share of the grand total, to a tenth of a per cent
Share(bs, price) ==
    IF GrandTotal(bs).amount > 0
    THEN Nearest(1000 * SheetTotal(bs, price).amount, GrandTotal(bs).amount) ELSE 0

(***************************************************************************)
(* Monthly close: what insights collects and what its own PDF prints.      *)
(***************************************************************************)
CloseBills(m) == {b \in Confirmed : b.dated = m}
CloseCategories(m) ==
    LET of(c) == {x \in BillLines(CloseBills(m)) : x[2].cat = c}
    IN  [c \in {x[2].cat : x \in BillLines(CloseBills(m))} |->
            [pieces |-> Sum(LAMBDA x : x[2].qty, of(c)),
             cost |-> Sum(LAMBDA x : Worth(x[2]), of(c)),
             revenue |-> Sum(LAMBDA x : Tier[c] * x[2].qty, of(c))]]
CloseSales(m) ==
    [c \in {c \in Categories \cup {None} : \E s \in SalesIn({m}) : LinesOf(s, c) # {}} |->
        [revenue |-> ItemsRevenue({m}, c), cost |-> ItemsCost({m}, c)]]

ClosePdf(m) ==
    [income |-> <<Revenue({m}), Extra({m}), Cogs({m}), Expense({m}, "operating"),
                  MonthlyClose(m).net>>,
     extras |-> [k \in extras \cap {m} |-> 50],
     bills |-> [b \in CloseBills(m) |-> HeaderOr(b)],
     categories |-> CloseCategories(m)]

(***************************************************************************)
(* Dictionaries the reports answer with.                                   *)
(***************************************************************************)
TableOf(S, row(_)) == [i \in 1 .. Cardinality(S) |-> row(SetToSeq(S)[i])]

PnlDict(m) ==
    [figures |-> [month |-> m, net_profit |-> Pnl(m).net, purchases |-> Pnl(m).purchases],
     sections |-> <<>>,
     tables |-> [expenses_by_category |->
                    TableOf({k \in {"operating"} : Expense({m}, k) > 0},
                            LAMBDA k : [total |-> Expense({m}, k)])]]

PaDict(ms) ==
    [figures |-> [extra_sales_income |-> Extra(ms)],
     sections |-> [totals |-> <<"revenue">> :> PaCategories(ms).revenue
                              @@ <<"cogs">> :> PaCategories(ms).cogs],
     tables |-> [categories |->
                    TableOf(Sold(ms), LAMBDA c : [revenue |-> PaRevenue(ms, c),
                                                  cogs |-> ItemsCost(ms, c)])]]

SoldDict(ms) ==
    [figures |-> <<>>,
     sections |-> [totals |-> <<"revenue">> :> SoldStock(ms).revenue
                              @@ <<"cogs">> :> Sum(LAMBDA c : ItemsCost(ms, c), Sold(ms))],
     tables |-> [categories |->
                    TableOf(Sold(ms), LAMBDA c : [revenue |-> ItemsRevenue(ms, c),
                                                  cogs |-> ItemsCost(ms, c)])]]

DailyDict(m) ==
    [figures |-> [date |-> m],
     sections |-> [totals |-> <<"closing_qty">> :> Sum(LAMBDA c : DailyRow(m, c).closing,
                                                       DailyCategories(m))],
     tables |-> [rows |-> TableOf(DailyCategories(m),
                                  LAMBDA c : [closing_qty |-> DailyRow(m, c).closing])]]

CloseDict(m) ==
    [figures |-> [month |-> m, net_profit |-> MonthlyClose(m).net,
                  total_spent |-> MonthlyClose(m).spent],
     sections |-> [by_category |->
                      [p \in {<<c, "cost">> : c \in DOMAIN CloseCategories(m)} |->
                          CloseCategories(m)[p[1]].cost]],
     tables |-> [extra_sales |-> TableOf(extras \cap {m}, LAMBDA k : [total |-> 50]),
                 bills |-> TableOf(CloseBills(m), LAMBDA b : [written_total |-> b.written]),
                 sales_by_category |-> TableOf(DOMAIN CloseSales(m),
                                               LAMBDA c : [revenue |-> CloseSales(m)[c].revenue,
                                                           cogs |-> CloseSales(m)[c].cost])]]

ExtraDict(m) ==
    [figures |-> [month |-> m, total_income |-> Extra({m}), last_month_total |-> Extra({m - 1})],
     sections |-> <<>>,
     tables |-> [sales_list |-> TableOf(extras \cap {m}, LAMBDA k : [total |-> 50]),
                 top_items |-> TableOf(extras \cap {m}, LAMBDA k : [total |-> 50])]]

SheetDict(m) == [figures |-> [as_of |-> m], tables |-> <<>>,
                 sections |-> [assets |-> <<"inventory_value">> :> Sheet(m)]]
YtdDict == [figures |-> [ytd_profit |-> Ytd(1).profit], sections |-> <<>>,
            tables |-> [monthly |-> TableOf(Ytd(1).rows, LAMBDA m : [revenue |-> Revenue({m})])]]

(***************************************************************************)
(* The generator.                                                          *)
(***************************************************************************)
MetaKeys == {"month", "date", "as_of"}
MaxDepth == 3

\* the titles a reader sees; unknown keys are title-cased
Titles == [revenue |-> "Revenue", cogs |-> "COGS", total |-> "Total", net_profit |-> "Net Profit",
           purchases |-> "Purchases", closing_qty |-> "Closing Qty", totals |-> "Totals",
           total_spent |-> "Total Spent", written_total |-> "Written Total", cost |-> "Cost",
           extra_sales_income |-> "Extra Sales Income (Non-POS)", assets |-> "Assets",
           total_income |-> "Total Income", last_month_total |-> "Last Month Total",
           ytd_profit |-> "Ytd Profit", inventory_value |-> "Inventory Value",
           by_category |-> "By Category"]
KpiLabel(key) == IF key \in DOMAIN Titles THEN Titles[key] ELSE key

Renamed(row) == [t \in {KpiLabel(k) : k \in DOMAIN row} |->
                    row[CHOOSE k \in DOMAIN row : KpiLabel(k) = t]]

FlattenDict(section) ==
    LET kept == {p \in DOMAIN section : Len(p) <= MaxDepth}
        label(p) == [i \in DOMAIN p |-> KpiLabel(p[i])]
    IN  [t \in {label(p) : p \in kept} |-> section[CHOOSE p \in kept : label(p) = t]]

KpiGroups(d) ==
    LET plain == [k \in DOMAIN d.figures \ MetaKeys |-> d.figures[k]]
    IN  [t \in (IF plain = <<>> THEN {} ELSE {"Summary"}) \cup {KpiLabel(s) : s \in DOMAIN d.sections}
            |-> IF t = "Summary" THEN Renamed(plain)
                ELSE FlattenDict(d.sections[CHOOSE s \in DOMAIN d.sections : KpiLabel(s) = t])]

AllTables(d) ==
    [t \in {t \in DOMAIN d.tables : d.tables[t] # <<>>} |->
        [i \in DOMAIN d.tables[t] |-> Renamed(d.tables[t][i])]]

Excel(d) == [groups |-> KpiGroups(d), records |-> [t \in DOMAIN AllTables(d) |-> Len(AllTables(d)[t])],
             tables |-> AllTables(d)]
Csv(d) == [groups |-> KpiGroups(d), records |-> [t \in DOMAIN AllTables(d) |-> Len(AllTables(d)[t])],
           tables |-> AllTables(d)]
Pdf(d) == [groups |-> KpiGroups(d), records |-> [t \in DOMAIN AllTables(d) |-> Len(AllTables(d)[t])],
           tables |-> [t \in DOMAIN AllTables(d) |->
                          SubSeq(AllTables(d)[t], 1, IF Len(AllTables(d)[t]) > PdfRows
                                                     THEN PdfRows ELSE Len(AllTables(d)[t]))]]

Formats == {"pdf", "excel", "csv"}
File(d, format) == IF format = "pdf" THEN Pdf(d) ELSE IF format = "csv" THEN Csv(d) ELSE Excel(d)

(***************************************************************************)
(* The route.  A report called with an argument it does not take raises a  *)
(* TypeError and is called again with none.                                *)
(***************************************************************************)
Monthly == {"pnl", "extra-sales", "balance-sheet", "ytd"}
Dated == {"daily-stock"}
Ranged == {"profit-analysis", "sold-stock"}
Named == Monthly \cup Dated \cup Ranged \cup {"monthly-close", "billwise"}

\* month 0: not given.  The month goes to the balance sheet as its day, and
\* the days of that month all come after the month's name
Answer(name, month) ==
    LET m == IF month = 0 THEN Now ELSE month
    IN  CASE name = "pnl" -> PnlDict(m)
          [] name = "extra-sales" -> ExtraDict(m)
          [] name = "balance-sheet" -> SheetDict(IF month = 0 THEN Now ELSE month - 1)
          [] name = "ytd" -> YtdDict
          [] name = "daily-stock" -> DailyDict(m)
          [] name = "profit-analysis" -> PaDict({m})
          [] name = "sold-stock" -> SoldDict({m})
          [] name = "monthly-close" -> CloseDict(m)

\* 404 for an unknown name; the bill-wise report needs a range and is called without
Export(name, format, month) ==
    IF name \notin Named THEN <<404>>
    ELSE IF name = "billwise" THEN <<500>>
    ELSE <<200, File(Answer(name, month), format)>>

(***************************************************************************)
(* The CSVs of profit analysis and sold stock, with their own layout.      *)
(***************************************************************************)
PaCsv(ms, monthly) ==
    IF monthly THEN [rows |-> [m \in PaMonths(ms) |-> PaRow(m).profit], total |-> PaProfit(ms)]
    ELSE [rows |-> [c \in Sold(ms) |-> PaRevenue(ms, c)], total |-> PaCategories(ms).revenue]
SoldCsv(ms) == [rows |-> [c \in Sold(ms) |-> ItemsRevenue(ms, c)], total |-> SoldStock(ms).revenue]

(***************************************************************************)
(* The bills workbook and the flat list of lines: every bill not deleted.  *)
(***************************************************************************)
Kept == {b \in bills : b.status # "deleted"}
BillsBook ==
    [bills |-> Kept, items |-> BillLines(Kept), suppliers |-> Sum(Header, Confirmed),
     trends |-> [m \in {b.dated : b \in Confirmed} \ {0} |->
                    Sum(Header, {b \in Confirmed : b.dated = m})]]
FlatLines == BillLines(Kept)

(***************************************************************************)
(* Agreement.                                                              *)
(***************************************************************************)
Column(f, col) == Sum(LAMBDA x : f[x][col], DOMAIN f)
Whole(f) == Sum(LAMBDA x : f[x], DOMAIN f)

\* the bill workbook: every line in one sheet, the sheets are the bill-wise cost
WorkbookAgrees(bs, m) ==
    /\ GrandTotal(bs).amount = Billwise(m, {"confirmed"}).cost
    /\ GrandTotal(bs).items = Cardinality(BillLines(bs))
    /\ GrandTotal(bs).amount > 0 =>
          2 * (Sum(LAMBDA p : Share(bs, p), Sheets(bs)) - 1000)
             \in -Cardinality(Sheets(bs)) .. Cardinality(Sheets(bs))
    /\ \A b \in bs : Chosen(m, {"confirmed"}, <<{b}>>) = {b}

\* the monthly PDF: its rows are the figures above them
ClosePdfAgrees(pdf, m) ==
    /\ Whole(pdf.bills) = Pnl(m).purchases + Sum(LineSum, ZeroTotal({m}))
    /\ Whole(pdf.extras) = pdf.income[2]
    /\ pdf.income[5] = Pnl(m).net
    /\ Column(pdf.categories, "cost") = Bridge(m).purchases - Sum(LineSum, Undated({m}))
    /\ Column(CloseSales(m), "revenue") = SoldByItem({m})
    /\ Column(CloseSales(m), "cost") = Cogs({m})

\* a report's file: the month's figures, rows that add up, and what a PDF leaves out counted
FileAgrees(file, name, format, m) ==
    /\ \A t \in DOMAIN file.tables :
          \/ Len(file.tables[t]) = file.records[t]
          \/ format = "pdf" /\ file.records[t] > PdfRows
    /\ name = "pnl" => file.groups["Summary"]["Net Profit"] = ActualEarnings(m).net
    /\ name = "monthly-close" => file.groups["Summary"]["Net Profit"] = Pnl(m).net
    /\ name = "extra-sales" => file.groups["Summary"]["Total Income"] = Extra({m})
    /\ name = "balance-sheet" => file.groups["Assets"][<<"Inventory Value">>] = Sheet(m - 1)
    /\ name = "ytd" =>
          file.groups["Summary"]["Ytd Profit"] = Sum(LAMBDA k : Pnl(k).net, Months)
    /\ (name \in Ranged /\ format # "pdf" /\ Sold({m}) # {}) =>
          /\ Column(file.tables["categories"], "Revenue") = file.groups["Totals"][<<"Revenue">>]
          /\ Column(file.tables["categories"], "COGS") = file.groups["Totals"][<<"COGS">>]
    /\ (name = "daily-stock" /\ format = "csv" /\ DailyCategories(m) # {}) =>
          Column(file.tables["rows"], "Closing Qty") = file.groups["Totals"][<<"Closing Qty">>]

ResponseAgrees(response, name, format, m) ==
    IF name = "billwise" THEN response = <<500>>
    ELSE response[1] = 200 /\ FileAgrees(response[2], name, format, m)

CsvAgrees(csv) == Whole(csv.rows) = csv.total

\* A file says what the screen says: the bill workbook shows every line in one
\* sheet, its grand total is the bill-wise cost and the shares leave out no
\* more than rounding; the monthly PDF's rows add up to the figures above
\* them; a file of any report in any format names the figures of the month
\* asked for, its rows add up to its totals, and a PDF that leaves rows out
\* says how many there are.  Named: the balance sheet of a month is that of
\* the month before, and the bill-wise list cannot be exported by this route.
ExportsMatchReports ==
    /\ \A m \in Months :
          /\ WorkbookAgrees(Chosen(m, {"confirmed"}, <<>>), m)
          /\ ClosePdfAgrees(ClosePdf(m), m)
          /\ \A monthly \in BOOLEAN : CsvAgrees(PaCsv({m}, monthly))
          /\ CsvAgrees(SoldCsv({m}))
    /\ \A name \in Named, format \in Formats, m \in Months :
          ResponseAgrees(Export(name, format, m), name, format, m)
    /\ BillsBook.items = FlatLines
    /\ BillsBook.suppliers = Whole(BillsBook.trends) + Sum(Header, Undated(Months))

====

---- MODULE PosLedger ----
(***************************************************************************)
(* Sales and the books they move (app/routers/pos.py, app/shop.py): the    *)
(* running stock, the customer's points, credit and spending, loyalty      *)
(* redemptions, commissions and the cash drawer.  Handlers that run in     *)
(* write_tx are single steps (Checkout shows that they may be); a customer *)
(* payment runs on autocommit connections and is one step per statement.   *)
(* Amounts are whole rupees, one loyalty point is one rupee.               *)
(***************************************************************************)
EXTENDS Integers, Sequences, FiniteSetsExt

CONSTANTS Customers, NoCust,  \* NoCust: walk-in
          Known,              \* customers that have a row at the start
          Payloads,           \* the SaleIn requests clients may send
          Limit,              \* customers.credit_limit, 0 = none
          PerRs,              \* setting loyalty_points_per_rs
          OpeningPoints,      \* loyalty_points at the start; no row, no points
          InitStock,          \* pieces on hand, one category
          Strict,             \* stock_strategy = strict
          Edits,              \* <<method, status>> pairs of the edit dialog
          Instalments,        \* layaway payments
          PayAttempts,        \* requests that settle credit
          PayKey, PayAmount,  \* client_uuid and amount of an attempt
          PayCust,            \* the customer who pays
          MaxSales            \* bound on sales rows

Methods == {"cash", "card", "credit", "split"}
Statuses == {"paid", "credit", "partial", "refunded"}

ASSUME PosAssumption ==
    /\ NoCust \notin Customers
    /\ \A p \in Payloads : /\ p.cust \in Customers \cup {NoCust}
                           /\ p.method \in Methods
                           /\ {p.net, p.cash, p.other, p.pts, p.qty} \subseteq Nat
                           /\ p.emp \in BOOLEAN
    /\ Limit \in [Customers -> Nat]
    /\ PerRs \in Nat \ {0}
    /\ Known \subseteq Customers
    /\ OpeningPoints \in [Customers -> Nat]
    /\ \A c \in Customers \ Known : OpeningPoints[c] = 0
    /\ InitStock \in Nat /\ MaxSales \in Nat
    /\ Strict \in BOOLEAN
    /\ Edits \subseteq Methods \X Statuses
    /\ Instalments \subseteq Nat
    /\ PayAmount \in [PayAttempts -> Nat]
    /\ DOMAIN PayKey = PayAttempts
    /\ PayCust \in Customers

VARIABLES sales,    \* sequence of sales rows; the index is the id
          stock,    \* category_stock_state.current_qty
          cust,     \* customers rows
          redeem,   \* loyalty_redemptions rows; sale 0 stands for NULL
          drawer,   \* cash_drawer rows
          payRows,  \* client_uuids in customer_payments
          pay,      \* where each payment attempt stands
          orphaned  \* history: customers whose points a 409 answer took

vars == <<sales, stock, cust, redeem, drawer, payRows, pay, orphaned>>

Init == /\ sales = <<>>
        /\ stock = InitStock
        /\ cust = [c \in Customers |->
                     [row |-> IF c \in Known THEN "live" ELSE "none",
                      points |-> OpeningPoints[c], credit |-> 0,
                      spent |-> 0, redeemed |-> 0]]
        /\ redeem = <<>>
        /\ drawer = <<>>
        /\ payRows = {}
        /\ pay = [a \in PayAttempts |-> "idle"]
        /\ orphaned = {}

Least(m, n) == IF m <= n THEN m ELSE n
Positive(n) == IF n > 0 THEN n ELSE 0

(***************************************************************************)
(* create_sale.                                                            *)
(***************************************************************************)
Points(p) ==
    IF p.cust = NoCust THEN 0 ELSE Least(cust[p.cust].points, p.pts)

Total(p) == Positive(p.net - Points(p))

Paid(p) == p.cash + p.other

Status(p) ==
    CASE p.method = "credit" -> "credit"
      [] p.method = "split" -> IF Paid(p) >= Total(p) THEN "paid"
                               ELSE IF Paid(p) > 0 THEN "partial" ELSE "credit"
      [] OTHER -> "paid"

NewSale(p) ==
    [uuid |-> p.uuid, cust |-> p.cust, method |-> p.method, status |-> Status(p),
     total |-> Total(p), cash |-> p.cash, paid |-> Paid(p), used |-> Points(p),
     qty |-> p.qty, balance |-> 0, edited |-> FALSE,
     commission |-> IF p.emp /\ Total(p) > 0 THEN "due" ELSE "none"]

Fresh(p) == \A s \in DOMAIN sales : sales[s].uuid # p.uuid

\* only a sale booked wholly on credit is held against the limit
WithinLimit(p) ==
    (Status(p) = "credit" /\ p.cust # NoCust /\ Limit[p.cust] > 0)
        => cust[p.cust].credit + Total(p) <= Limit[p.cust]

\* what steps 2 and 3 have done to the customer when the guard runs
Redeemed(p) ==
    [cust EXCEPT ![p.cust].row = IF @ = "none" THEN "live" ELSE @,
                 ![p.cust].points = @ - Points(p),
                 ![p.cust].redeemed = @ + Points(p)]

RedemptionRow(c, s, n) ==
    IF n > 0 THEN <<[cust |-> c, sale |-> s, pts |-> n, reversed |-> FALSE]>> ELSE <<>>

\* what a sale adds to credit, to spending and to points
Owes(s) == IF s.status = "credit" THEN s.total
           ELSE IF s.status = "partial" THEN Positive(s.total - s.paid) ELSE 0
Spends(s) == IF s.status = "credit" THEN 0
             ELSE IF s.status = "partial" THEN s.paid ELSE s.total
Awards(s) == (IF s.status = "partial" THEN s.paid ELSE s.total) \div PerRs

DrawerCash(s) == IF s.method = "cash" THEN s.total
                 ELSE IF s.method = "split" THEN s.cash ELSE 0

\* Faulty variant: redemptions are linked to the id after the sale's.
LinkedToNext(rows, c, id) ==
    [i \in DOMAIN rows |-> IF rows[i].cust = c /\ rows[i].sale = 0
                           THEN [rows[i] EXCEPT !.sale = id + 1] ELSE rows[i]]

\* linking takes every redemption of the customer that has no sale yet
Linked(rows, c, id) ==
    [i \in DOMAIN rows |-> IF rows[i].cust = c /\ rows[i].sale = 0
                           THEN [rows[i] EXCEPT !.sale = id] ELSE rows[i]]

CreateSale(p, pin) ==
    LET s == NewSale(p)
        id == Len(sales) + 1
        rows == redeem \o RedemptionRow(p.cust, 0, s.used)
    IN  /\ Len(sales) < MaxSales
        /\ Fresh(p)
        /\ WithinLimit(p) \/ pin
        /\ Strict => stock >= p.qty
        /\ sales' = Append(sales, s)
        /\ stock' = stock - p.qty
        /\ drawer' = IF s.method = "cash" \/ DrawerCash(s) > 0
                     THEN Append(drawer, [type |-> "sale", amount |-> DrawerCash(s), ref |-> id])
                     ELSE drawer
        /\ cust' = IF p.cust = NoCust THEN cust
                   ELSE [Redeemed(p) EXCEPT ![p.cust].credit = @ + Owes(s),
                                            ![p.cust].spent = @ + Spends(s),
                                            ![p.cust].points = @ + Awards(s)]
        /\ redeem' = IF s.used > 0 THEN Linked(rows, p.cust, id) ELSE redeem
        /\ UNCHANGED <<payRows, pay, orphaned>>

\* The 409 answer: return inside write_tx commits steps 2 and 3.  Bound:
\* MaxSales + 1 redemption rows.
BlockSale(p, pin) ==
    /\ Len(sales) < MaxSales
    /\ Fresh(p)
    /\ WithinLimit(p) \/ pin
    /\ Strict /\ stock < p.qty
    /\ p.cust # NoCust
    /\ Len(redeem) < MaxSales + 1
    /\ cust' = Redeemed(p)
    /\ redeem' = redeem \o RedemptionRow(p.cust, 0, Points(p))
    /\ orphaned' = IF Points(p) > 0 THEN orphaned \cup {p.cust} ELSE orphaned
    /\ UNCHANGED <<sales, stock, drawer, payRows, pay>>

(***************************************************************************)
(* refund_sale and void_sale (through _reverse_sale_core).  They differ in *)
(* who may call them and in the text they log.                             *)
(***************************************************************************)
\* Faulty variants of Restored: a partial payment counted as a full debt,
\* points awarded but not points used, and points without a floor.
RestoredWhole(s) ==
    [cust EXCEPT ![s.cust].credit =
                    Positive(@ - (IF s.status \in {"credit", "partial"} THEN s.total ELSE 0)),
                 ![s.cust].spent = Positive(@ - Spends(s)),
                 ![s.cust].points = Positive(@ - Awards(s)) + s.used,
                 ![s.cust].redeemed = Positive(@ - s.used)]

RestoredAwards(s) ==
    [cust EXCEPT ![s.cust].credit = Positive(@ - Owes(s)),
                 ![s.cust].spent = Positive(@ - Spends(s)),
                 ![s.cust].points = Positive(@ - Awards(s)),
                 ![s.cust].redeemed = Positive(@ - s.used)]

RestoredNoFloor(s) ==
    [cust EXCEPT ![s.cust].credit = Positive(@ - Owes(s)),
                 ![s.cust].spent = Positive(@ - Spends(s)),
                 ![s.cust].points = @ - Awards(s) + s.used,
                 ![s.cust].redeemed = Positive(@ - s.used)]

Restored(s) ==
    [cust EXCEPT ![s.cust].credit = Positive(@ - Owes(s)),
                 ![s.cust].spent = Positive(@ - Spends(s)),
                 ![s.cust].points = Positive(@ - Awards(s)) + s.used,
                 ![s.cust].redeemed = Positive(@ - s.used)]

\* Faulty variant: a refunded sale can be refunded again.
AlwaysReversible(s) == TRUE

Reversible(s) == s.status # "refunded"

\* Faulty variant: a split refund takes the whole total from the drawer.
RefundRowOfTotal(s, id) ==
    IF DrawerCash(s) > 0
    THEN <<[type |-> "refund", amount |-> -s.total, ref |-> id]>> ELSE <<>>

RefundRow(s, id) ==
    IF DrawerCash(s) > 0
    THEN <<[type |-> "refund", amount |-> -DrawerCash(s), ref |-> id]>> ELSE <<>>

Reverse(id) ==
    LET s == sales[id]
    IN  /\ Reversible(s)
        /\ sales' = [sales EXCEPT
                       ![id].status = "refunded",
                       ![id].commission = IF @ = "due" THEN "reversed" ELSE @]
        /\ drawer' = drawer \o RefundRow(s, id)
        /\ stock' = stock + s.qty
        /\ cust' = IF s.cust = NoCust THEN cust ELSE Restored(s)
        /\ redeem' = IF s.cust # NoCust /\ s.used > 0
                     THEN [i \in DOMAIN redeem |->
                             IF redeem[i].sale = id THEN [redeem[i] EXCEPT !.reversed = TRUE]
                             ELSE redeem[i]]
                     ELSE redeem
        /\ UNCHANGED <<payRows, pay, orphaned>>

RefundSale(id) == Reverse(id)
VoidSale(id) == Reverse(id)

(***************************************************************************)
(* edit_sale and update_layaway write the row and nothing else.  Bound:    *)
(* one of them per sale.                                                   *)
(***************************************************************************)
EditSale(id, method, status) ==
    /\ ~sales[id].edited
    /\ sales' = [sales EXCEPT ![id].method = method,
                              ![id].status = status,
                              ![id].edited = TRUE]
    /\ UNCHANGED <<stock, cust, redeem, drawer, payRows, pay, orphaned>>

UpdateLayaway(id, amount) ==
    LET s == sales[id]
        left == (IF s.balance = 0 THEN s.total ELSE s.balance) - amount
    IN  /\ ~s.edited
        /\ sales' = [sales EXCEPT ![id].status = IF left <= 0 THEN "paid" ELSE "layaway",
                                  ![id].balance = Positive(left),
                                  ![id].edited = TRUE]
        /\ UNCHANGED <<stock, cust, redeem, drawer, payRows, pay, orphaned>>

\* A row is only marked; sales still find it by phone or name.  The check
\* and the mark are two statements, with the same outcomes as one.
DeleteCustomer(c) ==
    /\ cust[c].row = "live"
    /\ cust[c].credit = 0
    /\ cust' = [cust EXCEPT ![c].row = "deleted"]
    /\ UNCHANGED <<sales, stock, redeem, drawer, payRows, pay, orphaned>>

(***************************************************************************)
(* add_customer_payment_route and add_customer_payment, cash.              *)
(***************************************************************************)
Goes(a, from, to) == pay[a] = from /\ pay' = [pay EXCEPT ![a] = to]
Books == <<sales, stock, redeem, orphaned>>

PayCheck(a) ==
    /\ cust[PayCust].row # "none"
    /\ Goes(a, "idle", IF PayKey[a] \in payRows THEN "acked" ELSE "checked")
    /\ UNCHANGED <<Books, cust, drawer, payRows>>

\* Faulty variant: no UNIQUE index, the check alone decides.
PayInsertUnchecked(a) ==
    /\ Goes(a, "checked", "inserted")
    /\ payRows' = payRows \cup {PayKey[a]}
    /\ UNCHANGED <<Books, cust, drawer>>

\* the UNIQUE index turns the loser of the race into a repeat
PayInsert(a) ==
    /\ Goes(a, "checked", IF PayKey[a] \in payRows THEN "acked" ELSE "inserted")
    /\ payRows' = payRows \cup {PayKey[a]}
    /\ UNCHANGED <<Books, cust, drawer>>

PayCredit(a) ==
    /\ Goes(a, "inserted", "settled")
    /\ cust' = [cust EXCEPT ![PayCust].credit = Positive(@ - PayAmount[a])]
    /\ UNCHANGED <<Books, drawer, payRows>>

PayDrawer(a) ==
    /\ Goes(a, "settled", "acked")
    /\ drawer' = Append(drawer, [type |-> "payment_in", amount |-> PayAmount[a],
                                 ref |-> PayKey[a]])
    /\ UNCHANGED <<Books, cust, payRows>>

\* the process dies between two autocommitted statements
PayLost(a) ==
    /\ pay[a] \in {"checked", "inserted", "settled"}
    /\ pay' = [pay EXCEPT ![a] = "lost"]
    /\ UNCHANGED <<Books, cust, drawer, payRows>>

Next ==
    \/ \E p \in Payloads, pin \in BOOLEAN : CreateSale(p, pin) \/ BlockSale(p, pin)
    \/ \E id \in DOMAIN sales :
          \/ RefundSale(id) \/ VoidSale(id)
          \/ \E e \in Edits : EditSale(id, e[1], e[2])
          \/ \E n \in Instalments : UpdateLayaway(id, n)
    \/ \E c \in Customers : DeleteCustomer(c)
    \/ \E a \in PayAttempts :
          PayCheck(a) \/ PayInsert(a) \/ PayCredit(a) \/ PayDrawer(a) \/ PayLost(a)

Spec == Init /\ [][Next]_vars

-----------------------------------------------------------------------------
SaleRow ==
    [uuid : {p.uuid : p \in Payloads}, cust : Customers \cup {NoCust},
     method : Methods, status : Statuses \cup {"layaway"},
     total : Nat, cash : Nat, paid : Nat, used : Nat, qty : Nat, balance : Nat,
     edited : BOOLEAN, commission : {"none", "due", "reversed"}]

Keys == {PayKey[a] : a \in PayAttempts}

TypeOK ==
    /\ sales \in Seq(SaleRow)
    /\ stock \in Int
    /\ cust \in [Customers -> [row : {"none", "live", "deleted"}, points : Int,
                               credit : Int, spent : Int, redeemed : Int]]
    /\ redeem \in Seq([cust : Customers, sale : 0 .. Len(sales), pts : Nat, reversed : BOOLEAN])
    /\ drawer \in Seq([type : {"sale", "refund", "payment_in"}, amount : Int,
                       ref : DOMAIN sales \cup Keys])
    /\ payRows \subseteq Keys
    /\ pay \in [PayAttempts -> {"idle", "checked", "inserted", "settled", "acked", "lost"}]
    /\ orphaned \subseteq Customers

Refunded(id) == sales[id].status = "refunded"
Standing == {id \in DOMAIN sales : ~Refunded(id)}
OpenSales(c) == {id \in Standing : sales[id].cust = c}
Untouched(c) == \A id \in DOMAIN sales : sales[id].cust = c => ~sales[id].edited

(***************************************************************************)
(* For every sale that nobody edited, the drawer rows that name it add up  *)
(* to the cash it brought in, and to nothing once it is refunded or voided *)
(* (refund_sale: "only reverse the amount that actually went INTO the cash *)
(* drawer").                                                               *)
(***************************************************************************)
SaleRows(id) == {i \in DOMAIN drawer : drawer[i].type # "payment_in" /\ drawer[i].ref = id}

DrawerFollowsSales ==
    \A id \in DOMAIN sales : ~sales[id].edited =>
        SumFunctionOnSet([i \in DOMAIN drawer |-> drawer[i].amount], SaleRows(id))
            = (IF Refunded(id) THEN 0 ELSE DrawerCash(sales[id]))

(***************************************************************************)
(* A customer's credit is never more than the unpaid part of the standing  *)
(* sales, and never less than that part minus the recorded payments, in    *)
(* whatever order sales, refunds, repeated and lost payments come.         *)
(***************************************************************************)
Amounts == [k \in Keys |-> PayAmount[CHOOSE a \in PayAttempts : PayKey[a] = k]]
PaidIn(c) == IF c = PayCust THEN SumFunctionOnSet(Amounts, payRows) ELSE 0
Owed(c) == SumFunctionOnSet([id \in DOMAIN sales |-> Owes(sales[id])], OpenSales(c))

CreditFollowsSales ==
    \A c \in Customers : Untouched(c) => cust[c].credit \in (Owed(c) - PaidIn(c)) .. Owed(c)

(***************************************************************************)
(* Points are never short of what the standing sales awarded less what     *)
(* they used, and every sale's redemption rows carry exactly the points it *)
(* used and are reversed exactly when it is refunded.  Customers who were  *)
(* once answered 409 are left out.                                         *)
(***************************************************************************)
RowsOf(id) == {i \in DOMAIN redeem : redeem[i].sale = id}
UsedBy(id) == SumFunctionOnSet([i \in DOMAIN redeem |-> redeem[i].pts], RowsOf(id))
Earned(c) ==
    SumFunctionOnSet([id \in DOMAIN sales |-> Awards(sales[id]) - sales[id].used], OpenSales(c))

PointsFollowSales ==
    \A c \in Customers \ orphaned : Untouched(c) =>
        /\ cust[c].points >= OpeningPoints[c] + Earned(c)
        /\ \A id \in DOMAIN sales : sales[id].cust = c =>
             /\ sales[id].used = UsedBy(id)
             /\ \A i \in RowsOf(id) : redeem[i].reversed <=> Refunded(id)

(***************************************************************************)
(* Stock is the opening stock less the standing sales, so a refund and a   *)
(* void return what the sale took, once.                                   *)
(***************************************************************************)
StockFollowsSales ==
    (\A id \in DOMAIN sales : ~sales[id].edited) =>
        stock = InitStock - SumFunctionOnSet([id \in DOMAIN sales |-> sales[id].qty], Standing)

(***************************************************************************)
(* No customer balance goes below zero, whatever is edited, refunded       *)
(* twice, blocked or deleted on the way.                                   *)
(***************************************************************************)
BalancesNonNegative ==
    \A c \in Customers : /\ cust[c].points >= 0 /\ cust[c].credit >= 0
                         /\ cust[c].spent >= 0 /\ cust[c].redeemed >= 0

(***************************************************************************)
(* Attempts with one client_uuid put one payment into the drawer.          *)
(***************************************************************************)
PaymentOnce ==
    \A i, j \in DOMAIN drawer :
        drawer[i].type = "payment_in" /\ drawer[j].type = "payment_in"
            /\ drawer[i].ref = drawer[j].ref => i = j

(***************************************************************************)
(* No points leave a customer without a sale: a redemption row that a      *)
(* finished request left behind names its sale.  create_sale says of the   *)
(* 409 answer that write_tx "will roll back automatically".                *)
(***************************************************************************)
RedemptionHasSale == \A i \in DOMAIN redeem : redeem[i].sale # 0

====

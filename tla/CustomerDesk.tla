---- MODULE CustomerDesk ----
(***************************************************************************)
(* Customers beside the till (app/shop.py, app/routers/customers.py and    *)
(* the desk endpoints of app/routers/pos.py): credit and its payments,     *)
(* loyalty points, referrals, removed customers, parked orders and         *)
(* layaway, with the statement and the ageing drawn from them.  A sale is  *)
(* one write_tx; every other request is a series of autocommitted          *)
(* statements that other requests fall between.  A sale is of 1, a point   *)
(* is earned with each.                                                    *)
(***************************************************************************)
EXTENDS Integers, Sequences, FiniteSets, FiniteSetsExt

CONSTANTS Phones, Keys,     \* phone numbers; client_uuids of payments
          Workers,          \* requests under way at once
          LayawayTotal,
          MaxPeople, MaxSales, MaxOrders, MaxMoves   \* bounds; MaxMoves: requests in all

VARIABLES people,    \* customers, by id
          sales,     \* [who, day, status, left, given]: layaway_balance, and what was given for it
          payments,  \* customer_payments: [who, key]
          drawer,    \* payments' rows in the drawer
          redeemed,  \* loyalty_redemptions: the customer of each row
          orders,    \* held_orders and quotations: [id, kind, ref]
          jobs,      \* requests between two statements
          day, moves,
          awards,    \* points of referrals, per customer
          over,      \* payments made on a balance of zero, per customer
          marks      \* what overlapped, died or was edited

vars == <<people, sales, payments, drawer, redeemed, orders, jobs, day, moves, awards, over, marks>>
rows == <<people, sales, payments, drawer, redeemed, orders, awards, over>>

idle == [op |-> "none"]
Ids == DOMAIN people
Live == {i \in Ids : ~people[i].deleted}
Newcomer(phone) == [phone |-> phone, credit |-> 0, points |-> 0, used |-> 0, referred |-> FALSE,
                    deleted |-> FALSE]
NotBelow(n, m) == IF n < m THEN m ELSE n

Init == /\ people = <<>> /\ sales = <<>> /\ payments = <<>> /\ drawer = 0 /\ redeemed = <<>>
        /\ orders = {} /\ jobs = [w \in Workers |-> idle] /\ day = 1 /\ moves = 0
        /\ awards = [i \in 1 .. MaxPeople |-> 0] /\ over = [i \in 1 .. MaxPeople |-> 0]
        /\ marks = {}

Free(w) == jobs[w] = idle /\ moves < MaxMoves
Takes(w, job) == jobs' = [jobs EXCEPT ![w] = job] /\ moves' = moves + 1 /\ UNCHANGED <<day>>
Goes(w, job) == jobs' = [jobs EXCEPT ![w] = job] /\ UNCHANGED <<day, moves>>
At(w, op) == jobs[w].op = op
\* the kinds of request another worker is in the middle of
Others(w, ops) == \E v \in Workers \ {w} : jobs[v].op \in ops

(***************************************************************************)
(* A sale at the till finds its customer by phone, removed or not.         *)
(***************************************************************************)
Known(phone) == {i \in Ids : people[i].phone = phone}

Sell(phone, status) ==
    /\ Len(sales) < MaxSales /\ moves < MaxMoves
    /\ LET found == Known(phone)
           who == IF found # {} THEN Min(found) ELSE Len(people) + 1
           them == IF found # {} THEN people ELSE Append(people, Newcomer(phone))
       IN  /\ who <= MaxPeople
           /\ people' = [them EXCEPT ![who].credit = @ + (IF status = "credit" THEN 1 ELSE 0),
                                     ![who].points = @ + 1]
           /\ sales' = Append(sales, [who |-> who, day |-> day, status |-> status, left |-> 0, given |-> 0])
           /\ marks' = marks \cup
                 (IF status = "credit" /\ found # {} /\
                        (them[who].deleted \/ \E w \in Workers : jobs[w] = [op |-> "delete", who |-> who])
                  THEN {<<"sold to removed", who>>} ELSE {})
    /\ moves' = moves + 1 /\ UNCHANGED <<payments, drawer, redeemed, orders, jobs, day, awards, over>>

\* PUT /api/sales/{id} writes any status and settles nothing
EditSale(s, status) ==
    /\ moves < MaxMoves /\ sales[s].status # status
    /\ sales' = [sales EXCEPT ![s].status = status]
    /\ marks' = marks \cup {<<"edited", sales[s].who>>, <<"edited by hand", s>>} /\ moves' = moves + 1
    /\ UNCHANGED <<people, payments, drawer, redeemed, orders, jobs, day, awards, over>>

(***************************************************************************)
(* Adding a customer: the desk and the import look the phone up among the  *)
(* live ones, then insert.                                                 *)
(***************************************************************************)
CreateRead(w, phone) ==
    /\ Free(w) /\ Known(phone) \cap Live = {} /\ Len(people) < MaxPeople
    /\ Takes(w, [op |-> "create", phone |-> phone]) /\ UNCHANGED <<rows, marks>>
CreateWrite(w) ==
    /\ At(w, "create")
    /\ LET twin == Known(jobs[w].phone) \cap Live # {}
       IN  /\ people' = IF Len(people) < MaxPeople THEN Append(people, Newcomer(jobs[w].phone))
                                                   ELSE people
           /\ marks' = marks \cup (IF twin THEN {<<"twin", 0>>} ELSE {})
    /\ Goes(w, idle) /\ UNCHANGED <<sales, payments, drawer, redeemed, orders, awards, over>>
\* an edited phone is not looked up at all
EditPhone(i, phone) ==
    /\ moves < MaxMoves /\ people[i].phone # phone
    /\ people' = [people EXCEPT ![i].phone = phone]
    /\ marks' = marks \cup {<<"twin", 0>>} /\ moves' = moves + 1
    /\ UNCHANGED <<sales, payments, drawer, redeemed, orders, jobs, day, awards, over>>

DeleteRead(w, i) ==
    /\ Free(w) /\ ~people[i].deleted /\ people[i].credit = 0
    /\ Takes(w, [op |-> "delete", who |-> i]) /\ UNCHANGED <<rows, marks>>
DeleteWrite(w) ==
    /\ At(w, "delete")
    /\ people' = [people EXCEPT ![jobs[w].who].deleted = TRUE]
    /\ Goes(w, idle) /\ UNCHANGED <<sales, payments, drawer, redeemed, orders, awards, over, marks>>

(***************************************************************************)
(* Paying credit: look the key up, insert (its index refuses a second      *)
(* row), lower the balance, enter the drawer.                              *)
(***************************************************************************)
Paid(key) == \E p \in 1 .. Len(payments) : payments[p].key = key

PayCheck(w, i, key) ==
    /\ Free(w) /\ ~Paid(key)
    /\ Takes(w, [op |-> "pay", who |-> i, key |-> key]) /\ UNCHANGED <<rows, marks>>
\* Faulty variant: without the unique index the first look is all there is.
PayInsertUnchecked(w) ==
    /\ At(w, "pay")
    /\ payments' = Append(payments, [who |-> jobs[w].who, key |-> jobs[w].key])
    /\ Goes(w, [op |-> "credit", who |-> jobs[w].who])
    /\ UNCHANGED <<people, sales, drawer, redeemed, orders, awards, over, marks>>
PayInsert(w) ==
    /\ At(w, "pay")
    /\ IF Paid(jobs[w].key) THEN UNCHANGED payments /\ Goes(w, idle)
       ELSE /\ payments' = Append(payments, [who |-> jobs[w].who, key |-> jobs[w].key])
            /\ Goes(w, [op |-> "credit", who |-> jobs[w].who])
    /\ UNCHANGED <<people, sales, drawer, redeemed, orders, awards, over, marks>>
PayCredit(w) ==
    /\ At(w, "credit")
    /\ LET i == jobs[w].who IN
       /\ people' = [people EXCEPT ![i].credit = NotBelow(@ - 1, 0)]
       /\ over' = [over EXCEPT ![i] = @ + (IF people[i].credit = 0 THEN 1 ELSE 0)]
       /\ Goes(w, [op |-> "drawer", who |-> i])
    /\ UNCHANGED <<sales, payments, drawer, redeemed, orders, awards, marks>>
PayDrawer(w) ==
    /\ At(w, "drawer") /\ drawer' = drawer + 1
    /\ Goes(w, idle) /\ UNCHANGED <<people, sales, payments, redeemed, orders, awards, over, marks>>

(***************************************************************************)
(* Points.                                                                 *)
(***************************************************************************)
RedeemRead(w, i) ==
    /\ Free(w)
    /\ \E use \in 1 .. people[i].points : Takes(w, [op |-> "redeem", who |-> i, use |-> use])
    /\ UNCHANGED <<rows, marks>>
RedeemWrite(w) ==
    /\ At(w, "redeem")
    /\ LET i == jobs[w].who  use == jobs[w].use IN
       /\ people' = [people EXCEPT ![i].points = @ - use, ![i].used = @ + use]
       /\ marks' = marks \cup (IF \E v \in Workers \ {w} : At(v, "redeem") /\ jobs[v].who = i
                               THEN {<<"redeemed at once", i>>} ELSE {})
       /\ Goes(w, [op |-> "row", who |-> i, use |-> use])
    /\ UNCHANGED <<sales, payments, drawer, redeemed, orders, awards, over>>
RedeemRow(w) ==
    /\ At(w, "row")
    /\ redeemed' = Append(redeemed, [who |-> jobs[w].who, use |-> jobs[w].use])
    /\ Goes(w, idle) /\ UNCHANGED <<people, sales, payments, drawer, orders, awards, over, marks>>

ReferRead(w, i, by) ==
    /\ Free(w) /\ i # by /\ ~people[i].referred
    /\ Takes(w, [op |-> "refer", who |-> i, by |-> by]) /\ UNCHANGED <<rows, marks>>
ReferMark(w) ==
    /\ At(w, "refer")
    /\ LET i == jobs[w].who IN
       /\ people' = [people EXCEPT ![i].referred = TRUE]
       /\ marks' = marks \cup (IF people[i].referred THEN {<<"referred at once", i>>} ELSE {})
       /\ Goes(w, [jobs[w] EXCEPT !.op = "award"])
    /\ UNCHANGED <<sales, payments, drawer, redeemed, orders, awards, over>>
ReferAward(w) ==
    /\ At(w, "award")
    /\ LET both == {jobs[w].who, jobs[w].by} IN
       /\ people' = [i \in Ids |-> IF i \in both THEN [people[i] EXCEPT !.points = @ + 1] ELSE people[i]]
       /\ awards' = [i \in DOMAIN awards |-> IF i \in both THEN awards[i] + 1 ELSE awards[i]]
    /\ Goes(w, idle) /\ UNCHANGED <<sales, payments, drawer, redeemed, orders, over, marks>>

(***************************************************************************)
(* Parked orders and quotations are numbered by how many there are.        *)
(***************************************************************************)
NextRef(kind) == Cardinality({o \in orders : o.kind = kind}) + 1

HoldRead(w, kind) ==
    /\ Free(w) /\ Cardinality(orders) < MaxOrders
    /\ Takes(w, [op |-> "hold", kind |-> kind, ref |-> NextRef(kind)]) /\ UNCHANGED <<rows, marks>>
HoldWrite(w) ==
    /\ At(w, "hold")
    /\ orders' = orders \cup {[id |-> 10 * moves + Cardinality(orders), kind |-> jobs[w].kind,
                              ref |-> jobs[w].ref]}
    /\ marks' = marks \cup (IF Others(w, {"hold"}) THEN {<<"held at once", 0>>} ELSE {})
    /\ Goes(w, idle) /\ UNCHANGED <<people, sales, payments, drawer, redeemed, awards, over>>
Unpark(o) ==
    /\ orders' = orders \ {o} /\ moves < MaxMoves /\ moves' = moves + 1
    /\ marks' = marks \cup {<<"held at once", 0>>}
    /\ UNCHANGED <<people, sales, payments, drawer, redeemed, jobs, day, awards, over>>

(***************************************************************************)
(* Layaway: a balance of zero is read as the sale's whole total.           *)
(***************************************************************************)
LayawayRead(w, s) ==
    /\ Free(w)
    /\ LET left == (IF sales[s].left > 0 THEN sales[s].left ELSE LayawayTotal) - 1
       IN  Takes(w, [op |-> "layaway", sale |-> s, left |-> left])
    /\ UNCHANGED <<rows, marks>>
LayawayWrite(w) ==
    /\ At(w, "layaway")
    /\ LET s == jobs[w].sale IN
       /\ sales' = [sales EXCEPT ![s].left = NotBelow(jobs[w].left, 0), ![s].given = @ + 1,
                                 ![s].status = IF jobs[w].left <= 0 THEN "paid" ELSE "layaway"]
       /\ marks' = marks \cup {<<"edited", sales[s].who>>}
                   \cup (IF \E v \in Workers \ {w} : At(v, "layaway") /\ jobs[v].sale = s
                         THEN {<<"layaway at once", s>>} ELSE {})
    /\ Goes(w, idle) /\ UNCHANGED <<people, payments, drawer, redeemed, orders, awards, over>>

Die(w) ==
    /\ jobs[w] # idle
    /\ marks' = marks \cup (IF jobs[w].op \in {"credit", "drawer", "row", "award"}
                            THEN {<<"cut", jobs[w].who>>} ELSE {})
    /\ Goes(w, idle) /\ UNCHANGED rows

NextDay == day < 2 /\ day' = day + 1 /\ UNCHANGED <<rows, jobs, moves, marks>>

Next ==
    \/ \E p \in Phones : \/ \E st \in {"paid", "credit"} : Sell(p, st)
                         \/ \E i \in Live : EditPhone(i, p)
    \/ \E s \in DOMAIN sales, st \in {"paid", "credit"} : EditSale(s, st)
    \/ \E w \in Workers :
          \/ \E p \in Phones : CreateRead(w, p)
          \/ \E i \in Ids : \/ DeleteRead(w, i) \/ RedeemRead(w, i)
                            \/ \E k \in Keys : PayCheck(w, i, k)
                            \/ \E j \in Ids : ReferRead(w, i, j)
          \/ \E s \in DOMAIN sales : LayawayRead(w, s)
          \/ CreateWrite(w) \/ DeleteWrite(w)
          \/ PayInsert(w) \/ PayCredit(w) \/ PayDrawer(w)
          \/ RedeemWrite(w) \/ RedeemRow(w) \/ ReferMark(w) \/ ReferAward(w)
          \/ (\E kind \in {"hold", "quote"} : HoldRead(w, kind)) \/ HoldWrite(w) \/ LayawayWrite(w) \/ Die(w)
    \/ \E o \in orders : Unpark(o)
    \/ NextDay

Spec == Init /\ [][Next]_vars

(***************************************************************************)
(* What is drawn from the tables.                                          *)
(***************************************************************************)
Count(seq, T(_)) == Cardinality({n \in DOMAIN seq : T(seq[n])})
CreditSold(i) == Count(sales, LAMBDA s : s.who = i /\ s.status = "credit")
PaidBy(i) == Count(payments, LAMBDA p : p.who = i)
Statement(i) == Count(sales, LAMBDA s : s.who = i) - PaidBy(i)
\* those who owe, by the day of their first credit sale, paid since or not
Ageing == {i \in Live : people[i].credit > 0 /\ CreditSold(i) > 0}
Oldest(i) == Min({sales[n].day : n \in {n \in DOMAIN sales : sales[n].who = i
                                                            /\ sales[n].status = "credit"}})
UsedInRows(i) ==
    LET use == [n \in DOMAIN redeemed |-> IF redeemed[n].who = i THEN redeemed[n].use ELSE 0]
    IN  SumFunctionOnSet(use, DOMAIN redeemed)
RowsToCome(i) ==
    LET use == [w \in Workers |-> IF At(w, "row") /\ jobs[w].who = i THEN jobs[w].use ELSE 0]
    IN  SumFunctionOnSet(use, Workers)
InWork(ops, i) == Cardinality({w \in Workers : jobs[w].op \in ops /\ jobs[w].who = i})

TypeOK ==
    /\ Len(people) <= MaxPeople /\ Len(sales) <= MaxSales
    /\ \A i \in Ids : people[i].credit \in Nat /\ people[i].used \in Nat
    /\ drawer \in 0 .. Len(payments)
    /\ \A w \in Workers : jobs[w].op \in {"none", "create", "delete", "pay", "credit", "drawer",
                                          "redeem", "row", "refer", "award", "hold", "layaway"}

(***************************************************************************)
(* The desk's books: a payment is taken once per key, however often and    *)
(* at once it is sent, and a customer's credit is the credit sales less    *)
(* the payments that had something to pay, which the ageing shows and the  *)
(* statement ends on, cash sales apart; points are what was earned less    *)
(* what was used, used ones have their rows, and they do not go below zero *)
(* nor is a referral paid twice; a removed customer owes nothing, no two   *)
(* share a phone and no two orders a number, and what is left of a  *)
(* layaway is what was not given.  The causes that break                   *)
(* a part are named in it: requests that overlapped between their read and *)
(* their write, a process that died between two statements, a sale's       *)
(* status or a phone edited by hand, and the till's sales to customers     *)
(* removed before or meanwhile.                                            *)
(***************************************************************************)
DeskKeepsBooks ==
    /\ \A k \in Keys : Count(payments, LAMBDA p : p.key = k) <= 1
    /\ \A i \in Ids : LET p == people[i] IN
          /\ {<<"cut", i>>, <<"edited", i>>} \cap marks = {} =>
                /\ p.credit = CreditSold(i) - (PaidBy(i) - InWork({"credit"}, i)) + over[i]
                /\ p.credit > 0 /\ ~p.deleted => i \in Ageing /\ Oldest(i) <= day
                /\ Statement(i) + over[i] + InWork({"credit"}, i)
                      = p.credit + Count(sales, LAMBDA s : s.who = i /\ s.status = "paid")
          /\ p.points + p.used = Count(sales, LAMBDA s : s.who = i) + awards[i]
          /\ p.points < 0 => <<"redeemed at once", i>> \in marks
          /\ <<"cut", i>> \notin marks =>
                p.used = UsedInRows(i) + RowsToCome(i)
    /\ \A i \in Ids : people[i].deleted /\ people[i].credit > 0 =>
                         <<"sold to removed", i>> \in marks
    /\ <<"twin", 0>> \notin marks =>
          \A i, j \in Live : people[i].phone = people[j].phone => i = j
    /\ (\A i \in Ids : {<<"referred at once", i>>, <<"cut", i>>} \cap marks = {}) =>
          SumFunctionOnSet(awards, Ids) =
             2 * (Cardinality({i \in Ids : people[i].referred})
                  - Cardinality({w \in Workers : At(w, "award")}))
    /\ \A s \in DOMAIN sales :
          sales[s].given \in 1 .. LayawayTotal /\ <<"layaway at once", s>> \notin marks =>
             /\ sales[s].left = LayawayTotal - sales[s].given
             /\ <<"edited by hand", s>> \notin marks =>
                   (sales[s].status = "paid" <=> sales[s].left = 0)
    /\ <<"held at once", 0>> \notin marks => \A o, q \in orders : o.kind = q.kind /\ o.ref = q.ref => o = q

====

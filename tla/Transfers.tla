---- MODULE Transfers ----
(***************************************************************************)
(* Challans between branches (app/routers/transfers.py), central           *)
(* purchases and their distribution (app/routers/central.py).  The pool is *)
(* the category_stock_state of this installation; a challan takes pieces   *)
(* out of it and an acceptance books them in.  A write_tx is one step, and *)
(* so is every statement on an autocommit connection.                      *)
(***************************************************************************)
EXTENDS StockEngine, Sequences, FiniteSets, Functions

CONSTANTS Workers,     \* requests that may run at once
          Categories,
          Stock,       \* pools that confirmed bills have filled
          Carts,       \* lines of transfer and distribution requests
          Purchases,   \* lines of central purchases; a cost of 0 is invalid
          BillCost,    \* average cost of a category on the confirmed bills, 0 for none
          MaxChallans, MaxTries  \* bounds: challans, requests on the purchase

\* A line is of at least a piece.
Line == [cat : Categories, qty : Nat \ {0}, cost : Int]
Distinct(lines) == \A i, j \in DOMAIN lines : lines[i].cat = lines[j].cat => i = j

VARIABLES pool,      \* category_stock_state, per category
          challans,  \* sequence of challans with their items
          purchase,  \* one central purchase: its status and rows of items
          worker,    \* where each request stands
          tries,     \* requests on the purchase so far
          books,     \* history: pieces and value of the first stock and of what was bought
          blurred,   \* history: requests on the purchase overlapped or died
          marks      \* history: what befell the goods of a category

vars == <<pool, challans, purchase, worker, tries, books, blurred, marks>>

idle == [at |-> "idle", todo |-> <<>>, done |-> <<>>, id |-> 0]

Init == /\ pool = Stock
        /\ challans = <<>>
        /\ purchase = [status |-> "none", items |-> <<>>]
        /\ worker = [w \in Workers |-> idle]
        /\ tries = 0
        /\ books = [c \in Categories |-> [qty |-> Stock[c].qty, value |-> Stock[c].value]]
        /\ blurred = FALSE
        /\ marks = {}

\* pieces of a category on lines, and what they are worth
Pieces(lines, c) == SumFunction([i \in DOMAIN lines |-> IF lines[i].cat = c THEN lines[i].qty ELSE 0])
Worth(lines, c) ==
    SumFunction([i \in DOMAIN lines |-> IF lines[i].cat = c THEN lines[i].qty * lines[i].cost ELSE 0])

\* the books with pieces of a category and their worth entered
Entered(c, q, v) == [books EXCEPT ![c] = [qty |-> @.qty + q, value |-> @.value + v]]

\* the marks with one more for each category on lines
Marked(cause, lines) == marks \cup {<<cause, lines[i].cat>> : i \in DOMAIN lines}

\* challans whose goods, by their status, are not in the pool
Away == {k \in DOMAIN challans : challans[k].status /= "accepted"}

Becomes(w, r) == worker' = [worker EXCEPT ![w] = r]

(***************************************************************************)
(* Transfers.                                                              *)
(***************************************************************************)
\* the value leaves at the sender's average, which stays
Shipped(p, lines) == [c \in Categories |-> ApplySale(p[c], Pieces(lines, c))]

\* peek_avg_cost falls back on the confirmed bills
Peeked(p, c) == IF p[c].avg > 0 /\ p[c].qty > 0 THEN p[c].avg ELSE BillCost[c]

\* line by line: a category has a cost, and is not negative after its line
Available(lines) ==
    \A i \in DOMAIN lines :
        LET c == lines[i].cat IN
        /\ Peeked(Shipped(pool, SubSeq(lines, 1, i - 1)), c) > 0
        /\ Shipped(pool, SubSeq(lines, 1, i))[c].qty >= 0

\* the cost on the challan is the average the pieces left at, not the one peeked at
Priced(l) == [l EXCEPT !.cost = pool[l.cat].avg]

CreateTransferOut(lines) ==
    /\ Len(challans) < MaxChallans /\ lines /= <<>>
    /\ Available(lines)
    /\ pool' = Shipped(pool, lines)
    /\ challans' = Append(challans, [status |-> "in_transit", central |-> FALSE,
                                     items |-> [i \in DOMAIN lines |-> Priced(lines[i])]])
    /\ UNCHANGED <<purchase, worker, tries, books, blurred, marks>>

\* each line makes a new average; the last one of a category is that of the totals
BookedIn(p, lines) ==
    [c \in Categories |-> IF \E i \in DOMAIN lines : lines[i].cat = c
                          THEN Averaged(p[c].qty + Pieces(lines, c), p[c].value + Worth(lines, c))
                          ELSE p[c]]

\* Faulty variant: an accepted challan can be accepted again.
AcceptableUnlessRejected(k) == challans[k].status /= "rejected"

\* accepted once, never after a rejection
Acceptable(k) == challans[k].status = "in_transit"

Accept(k) ==
    /\ Acceptable(k)
    /\ pool' = BookedIn(pool, challans[k].items)
    /\ challans' = [challans EXCEPT ![k].status = "accepted"]
    /\ UNCHANGED <<purchase, worker, tries, books, blurred, marks>>

\* reject reads the status on an autocommit connection ...
RejectRead(w, k) ==
    /\ worker[w].at = "idle"
    /\ challans[k].status = "in_transit"
    /\ Becomes(w, [idle EXCEPT !.at = "reject", !.id = k])
    /\ UNCHANGED <<pool, challans, purchase, tries, books, blurred, marks>>

\* ... and writes it whatever it has become
RejectWrite(w) ==
    /\ worker[w].at = "reject"
    /\ LET k == worker[w].id IN
       /\ challans' = [challans EXCEPT ![k].status = "rejected"]
       /\ marks' = IF challans[k].status = "accepted"
                   THEN Marked("overwrote", challans[k].items) ELSE marks
    /\ Becomes(w, idle)
    /\ UNCHANGED <<pool, purchase, tries, books, blurred>>

(***************************************************************************)
(* A central purchase: the pool first, line by line, each in a transaction *)
(* of its own; a bad line ends the request and leaves the lines before it. *)
(***************************************************************************)
Buying == \E w \in Workers : worker[w].at \in {"buy", "buyitems"}

BuyStart(w, lines) ==
    /\ worker[w].at = "idle" /\ purchase.status = "none" /\ ~Buying  \* bound: one purchase
    /\ tries < MaxTries /\ tries' = tries + 1
    /\ Becomes(w, [idle EXCEPT !.at = "buy", !.todo = lines])
    /\ UNCHANGED <<pool, challans, purchase, books, blurred, marks>>

BuyLine(w) ==
    LET l == Head(worker[w].todo) IN
    /\ worker[w].at = "buy" /\ worker[w].todo /= <<>>
    /\ IF l.cost > 0
       THEN /\ pool' = BookedIn(pool, <<l>>)
            /\ books' = Entered(l.cat, l.qty, l.qty * l.cost)
            /\ Becomes(w, [worker[w] EXCEPT !.todo = Tail(@), !.done = Append(@, l)])
       ELSE /\ Becomes(w, idle)
            /\ UNCHANGED <<pool, books>>
    /\ UNCHANGED <<challans, purchase, tries, blurred, marks>>

BuyRow(w) ==
    /\ worker[w].at = "buy" /\ worker[w].todo = <<>>
    /\ purchase' = [purchase EXCEPT !.status = "recorded"]
    /\ Becomes(w, [idle EXCEPT !.at = "buyitems", !.todo = worker[w].done])
    /\ UNCHANGED <<pool, challans, tries, books, blurred, marks>>

BuyItem(w) ==
    LET l == Head(worker[w].todo) IN
    /\ worker[w].at = "buyitems"
    /\ purchase' = [purchase EXCEPT
            !.items = Append(@, [cat |-> l.cat, qty |-> l.qty, remaining |-> l.qty, cost |-> l.cost])]
    /\ Becomes(w, IF Len(worker[w].todo) = 1 THEN idle ELSE [worker[w] EXCEPT !.todo = Tail(@)])
    /\ UNCHANGED <<pool, challans, tries, books, blurred, marks>>

(***************************************************************************)
(* Distribution: read and check, take from the pool line by line, then the *)
(* challan, its items, and what remains of the purchase.                   *)
(***************************************************************************)
OnPurchase == {"buyitems", "ship", "items", "remain", "status"}
Overlaps == \E v \in Workers : worker[v].at \in OnPurchase

\* a purchase may name a category twice: cp_by_cat keeps its last row
RowsOf(c) == {i \in DOMAIN purchase.items : purchase.items[i].cat = c}
LastOf(c) == CHOOSE i \in RowsOf(c) : \A j \in RowsOf(c) : j <= i
LastRow(c) == purchase.items[LastOf(c)]

\* Faulty variant: compared with what was bought.
FitsPurchase(lines) ==
    \A i \in DOMAIN lines :
        RowsOf(lines[i].cat) /= {} /\ lines[i].qty <= LastRow(lines[i].cat).qty

\* every line is compared with what remained, on its own
Fits(lines) ==
    \A i \in DOMAIN lines :
        RowsOf(lines[i].cat) /= {} /\ lines[i].qty <= LastRow(lines[i].cat).remaining

AtCentralCost(l) == [l EXCEPT !.cost = LastRow(l.cat).cost]

DistributeRead(w, lines) ==
    /\ worker[w].at = "idle" /\ tries < MaxTries
    /\ purchase.status /= "none"
    /\ Fits(lines)
    /\ Becomes(w, [idle EXCEPT !.at = "ship",
                               !.todo = [i \in DOMAIN lines |-> AtCentralCost(lines[i])]])
    /\ blurred' = (blurred \/ Overlaps \/ ~Distinct(lines))
    /\ tries' = tries + 1
    /\ UNCHANGED <<pool, challans, purchase, books, marks>>

\* what a request has taken from the pool and not yet written on a challan
InHands(r) == IF r.at = "ship" THEN r.done ELSE IF r.at = "items" THEN r.todo ELSE <<>>

\* a shortage is noticed after the deduction has been committed
DistributeShip(w) ==
    LET r == worker[w]
        l == Head(r.todo)
        \* the pool loses its average, the challan carries the central cost
        revalued == IF l.cost = pool[l.cat].avg THEN marks ELSE Marked("revalued", <<l>>)
    IN
    /\ r.at = "ship" /\ r.todo /= <<>>
    /\ pool' = Shipped(pool, <<l>>)
    /\ IF pool[l.cat].qty < l.qty
       THEN /\ Becomes(w, idle)
            /\ marks' = revalued \cup Marked("short", Append(r.done, l))
            /\ blurred' = TRUE
       ELSE /\ Becomes(w, [r EXCEPT !.todo = Tail(@), !.done = Append(@, l)])
            /\ marks' = revalued
            /\ UNCHANGED blurred
    /\ UNCHANGED <<challans, purchase, tries, books>>

DistributeChallan(w) ==
    /\ worker[w].at = "ship" /\ worker[w].todo = <<>> /\ Len(challans) < MaxChallans
    /\ challans' = Append(challans, [status |-> "in_transit", central |-> TRUE, items |-> <<>>])
    /\ Becomes(w, [worker[w] EXCEPT !.at = IF worker[w].done = <<>> THEN "status" ELSE "items",
                                    !.todo = worker[w].done, !.id = Len(challans) + 1])
    /\ UNCHANGED <<pool, purchase, tries, books, blurred, marks>>

\* an item written to a challan that was accepted meanwhile is never booked in
DistributeItem(w) ==
    LET r == worker[w]  l == Head(r.todo) IN
    /\ r.at = "items"
    /\ challans' = [challans EXCEPT ![r.id].items = Append(@, l)]
    /\ marks' = IF r.id \in Away THEN marks ELSE Marked("late", <<l>>)
    /\ Becomes(w, IF Len(r.todo) = 1 THEN [r EXCEPT !.at = "remain", !.todo = r.done]
                                     ELSE [r EXCEPT !.todo = Tail(@)])
    /\ UNCHANGED <<pool, purchase, tries, books, blurred>>

\* every row of the category goes down
Drawn(rows, l) ==
    [i \in DOMAIN rows |-> IF rows[i].cat = l.cat
                           THEN [rows[i] EXCEPT !.remaining = @ - l.qty] ELSE rows[i]]

DistributeRemain(w) ==
    LET r == worker[w]  l == Head(r.todo) IN
    /\ r.at = "remain"
    /\ purchase' = [purchase EXCEPT !.items = Drawn(@, l)]
    /\ Becomes(w, IF Len(r.todo) = 1 THEN [r EXCEPT !.at = "status"]
                                     ELSE [r EXCEPT !.todo = Tail(@)])
    /\ UNCHANGED <<pool, challans, tries, books, blurred, marks>>

DistributeStatus(w) ==
    /\ worker[w].at = "status"
    /\ purchase' = IF \E i \in DOMAIN purchase.items : purchase.items[i].remaining > 0
                   THEN purchase ELSE [purchase EXCEPT !.status = "distributed"]
    /\ Becomes(w, idle)
    /\ UNCHANGED <<pool, challans, tries, books, blurred, marks>>

\* the request dies between two statements: the store is busy, or the process ends
Die(w) ==
    /\ worker[w].at /= "idle"
    /\ marks' = Marked("died", InHands(worker[w]))
    /\ blurred' = (blurred \/ worker[w].at \in OnPurchase)
    /\ Becomes(w, idle)
    /\ UNCHANGED <<pool, challans, purchase, tries, books>>

\* rebuild_stock_state replays bills, adjustments and sales, none of which is here
Rebuild == /\ pool' = Stock
           /\ UNCHANGED <<challans, purchase, worker, tries, books, blurred, marks>>

Next == \/ \E lines \in Carts : CreateTransferOut(lines)
        \/ \E k \in DOMAIN challans : Accept(k)
        \/ \E w \in Workers :
            \/ \E k \in DOMAIN challans : RejectRead(w, k)
            \/ RejectWrite(w)
            \/ \E lines \in Purchases : BuyStart(w, lines)
            \/ BuyLine(w) \/ BuyRow(w) \/ BuyItem(w)
            \/ \E lines \in Carts : DistributeRead(w, lines)
            \/ DistributeShip(w) \/ DistributeChallan(w) \/ DistributeItem(w)
            \/ DistributeRemain(w) \/ DistributeStatus(w) \/ Die(w)

Spec == Init /\ [][Next]_vars

\* with rebuilds, at boot or on request
RebuildSpec == Init /\ [][Next \/ Rebuild]_vars

(***************************************************************************)
(* Properties.                                                             *)
(***************************************************************************)
\* Variables keep their types; a challan's items are never more than a request's lines.
TypeOK ==
    /\ \A c \in Categories : pool[c].qty \in Int /\ pool[c].value \in Int /\ pool[c].avg \in Int
    /\ \A k \in DOMAIN challans :
        /\ challans[k].status \in {"in_transit", "accepted", "rejected"}
        /\ challans[k].items \in Seq(Line)
    /\ purchase.status \in {"none", "recorded", "distributed"}
    /\ \A w \in Workers :
        /\ worker[w].at \in {"idle", "reject", "buy"} \cup OnPurchase
        /\ worker[w].at \in OnPurchase \ {"status", "ship"} => worker[w].todo /= <<>>

\* what the sum of F over the challans nobody accepted and over the hands of requests is
Outside(F(_)) ==
    SumFunctionOnSet([k \in DOMAIN challans |-> F(challans[k].items)], Away)
      + SumFunction([w \in Workers |-> F(InHands(worker[w]))])

\* what befell a category: goods no challan carries or no pool took in, goods an
\* acceptance booked in and a rejection disowns, and another cost than they left at
Missed(c) == \E cause \in {"died", "short", "late"} : <<cause, c>> \in marks
Doubled(c) == <<"overwrote", c>> \in marks
Revalued(c) == <<"revalued", c>> \in marks

\* What was there at first and what was bought is in the pool, on a challan nobody
\* accepted, or in the hands of a request.  Challans, acceptances, rejections, deaths and
\* distributions in any order never make a piece, except of a category whose acceptance a
\* rejection overwrote; they never lose one, except of a category that a request died or
\* ran short with, or wrote to its challan too late; and a category nothing of this befell,
\* nor the change to the central cost, keeps its value to the paisa (create_transfer_out,
\* accept_transfer, reject_transfer, distribute_central_purchase).
Accounted ==
    \A c \in Categories :
        LET pieces == pool[c].qty + Outside(LAMBDA lines : Pieces(lines, c)) IN
        /\ ~Doubled(c) => pieces <= books[c].qty
        /\ ~Missed(c) => pieces >= books[c].qty
        /\ ~(Doubled(c) \/ Missed(c) \/ Revalued(c)) =>
             books[c].value = pool[c].value + Outside(LAMBDA lines : Worth(lines, c))

SentFrom(c) ==
    SumFunctionOnSet([k \in DOMAIN challans |-> Pieces(challans[k].items, c)],
                     {k \in DOMAIN challans : challans[k].central})

\* Unless two requests worked on the purchase at once, or one died: no more of a category
\* leaves a central purchase than its last row says was bought, and nothing of a category
\* it has no row of; between requests what remains in a row is what was not sent; and the
\* purchase is marked distributed only when no row has more than was sent
\* (distribute_central_purchase).
PurchaseFollowsChallans ==
    ~blurred =>
        /\ \A c \in Categories :
            SentFrom(c) <= IF RowsOf(c) = {} THEN 0 ELSE LastRow(c).qty
        /\ \A i \in DOMAIN purchase.items :
            LET row == purchase.items[i] IN
            /\ ~Overlaps => row.remaining = row.qty - SentFrom(row.cat)
            /\ purchase.status = "distributed" => row.qty <= SentFrom(row.cat)

====

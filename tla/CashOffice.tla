---- MODULE CashOffice ----
(***************************************************************************)
(* The cash drawer of one day (app/shop.py): shifts and their closing      *)
(* counts, expenses, recurring expenses, supplier advances, deposits and   *)
(* settled credit.  Every statement is autocommitted, requests are         *)
(* threaded, and the drawer is a table of signed rows.  The cashier counts *)
(* honestly: what is counted is what the till holds.                       *)
(***************************************************************************)
EXTENDS Integers, Sequences, FiniteSets, Functions

CONSTANTS Workers, Amount,
          Float,       \* cash the till holds when the day starts
          MaxRows,     \* bound: drawer rows of the day
          MaxShifts,   \* bound: rows of shifts
          Moves        \* kinds of drawer rows in use

VARIABLES drawer,    \* cash_drawer rows of the day
          shifts,    \* shifts rows
          closes,    \* the last report of close_cash_drawer: the difference, and the rows it read
          paper,     \* the rows a drawer row goes with, summed by kind
          month,     \* recurring_expenses: rows generated this month, and whether marked
          till,      \* cash the till holds
          worker,
          raced,     \* history: two generations of one month overlapped
          torn,      \* history: a request stopped half way
          removed    \* history: expenses deleted on the Expenses page

vars == <<drawer, shifts, closes, paper, month, till, worker, raced, torn, removed>>

Paid == {"expense", "supplier_advance", "bank_deposit"}
Received == {"payment_in"}
Kinds == Paid \cup Received
\* what the code books in one row; "return" is a sale row of a negative amount, an
\* imported return's, and "salary" a salary_payment or a salary_advance
GivenOut == {"cash_out", "return", "refund", "salary", "owner_withdrawal"}
TakenIn == {"sale", "cash_in", "extra_sale"}
Signed(kind) == IF kind \in Paid \cup GivenOut THEN -Amount ELSE Amount

resting == [at |-> "idle", kind |-> "none", shift |-> 0, sum |-> 0, counted |-> 0, fresh |-> FALSE]

Init == /\ drawer = <<>> /\ shifts = <<>> /\ closes = [difference |-> 0, upto |-> 0, fresh |-> FALSE]
        /\ paper = [k \in Kinds |-> 0]
        /\ month = [rows |-> 0, marked |-> FALSE]
        /\ till = Float
        /\ worker = [w \in Workers |-> resting]
        /\ raced = FALSE /\ torn = FALSE /\ removed = 0

At(w, place) == worker[w].at = place
Goes(w, place) == worker' = [worker EXCEPT ![w].at = place]
Done(w) == worker' = [worker EXCEPT ![w] = resting]
Quiet == \A w \in Workers : At(w, "idle")
Room == Len(drawer) + Cardinality({w \in Workers : ~At(w, "idle")}) < MaxRows

\* rows are named by their places in the table
Sum(rows) == SumFunctionOnSet([i \in DOMAIN drawer |-> drawer[i].amount], rows)
OfType(types) == {i \in DOMAIN drawer : drawer[i].type \in types}
\* no payment has left the till without its row yet
Settled == \A w \in Workers : worker[w].at \notin {"row", "genrow", "opening"}
Row(type, amount) == drawer' = Append(drawer, [type |-> type, amount |-> amount, settled |-> Settled])

\* expected cash by type: what close_cash_drawer and get_cash_drawer_status add up;
\* of the sale rows only those above zero
ByType == Sum(OfType({"opening", "sale", "cash_in", "expense", "cash_out"}))
\* Faulty variant: the rows of the second the shift started in are left out.
SinceAfter(s) == Sum({i \in DOMAIN drawer : i > shifts[s].from})

\* expected cash of a shift: every row since its start
Since(s) == Sum({i \in DOMAIN drawer : i >= shifts[s].from})

----
\* add_expense, add_supplier_advance, record_cash_to_bank_deposit and
\* add_customer_payment: their own row first, the drawer row next
Enter(w, kind) ==
    /\ At(w, "idle") /\ Room
    /\ till' = till + Signed(kind)
    /\ paper' = [paper EXCEPT ![kind] = @ + Signed(kind)]
    /\ worker' = [worker EXCEPT ![w].at = "row", ![w].kind = kind]
    /\ UNCHANGED <<drawer, shifts, closes, month, raced, torn, removed>>

\* Faulty variant: every amount is booked as cash that came in.
RowUnsigned(w) ==
    /\ At(w, "row") /\ Done(w)
    /\ Row(worker[w].kind, Amount)
    /\ UNCHANGED <<shifts, closes, paper, month, till, raced, torn, removed>>

DrawerRow(w) ==
    /\ At(w, "row") /\ Done(w)
    /\ Row(worker[w].kind, Signed(worker[w].kind))
    /\ UNCHANGED <<shifts, closes, paper, month, till, raced, torn, removed>>

\* one row, whatever wrote it
Move(type) ==
    /\ Room
    /\ till' = till + Signed(type)
    /\ Row(type, Signed(type))
    /\ UNCHANGED <<shifts, closes, paper, month, worker, raced, torn, removed>>

\* the Expenses page removes the expense, not its drawer row
DeleteExpense ==
    /\ paper["expense"] < 0
    /\ paper' = [paper EXCEPT !["expense"] = @ + Amount]
    /\ removed' = removed + Amount
    /\ UNCHANGED <<drawer, shifts, closes, month, till, worker, raced, torn>>

\* generate_recurring_expenses, at boot and before every listing: a due bill is
\* read unmarked, posted and marked; the bill itself is paid once
GenerateRead(w) ==
    /\ At(w, "idle") /\ Room /\ ~month.marked
    /\ Goes(w, "post")
    /\ raced' = (raced \/ \E o \in Workers : worker[o].at \in {"post", "genrow", "mark"})
    /\ UNCHANGED <<drawer, shifts, closes, paper, month, till, torn, removed>>

GenerateInsert(w) ==
    /\ At(w, "post") /\ Goes(w, "genrow")
    /\ till' = IF month.rows = 0 THEN till - Amount ELSE till
    /\ month' = [month EXCEPT !.rows = @ + 1]
    /\ paper' = [paper EXCEPT !["expense"] = @ - Amount]
    /\ UNCHANGED <<drawer, shifts, closes, raced, torn, removed>>

GenerateRow(w) ==
    /\ At(w, "genrow") /\ Goes(w, "mark") /\ Row("expense", -Amount)
    /\ UNCHANGED <<shifts, closes, paper, month, till, raced, torn, removed>>

GenerateMark(w) ==
    /\ At(w, "mark") /\ Done(w)
    /\ month' = [month EXCEPT !.marked = TRUE]
    /\ UNCHANGED <<drawer, shifts, closes, paper, till, raced, torn, removed>>

----
\* a shift starts at the second its row is written in, and counts rows from there on
Shift(by) == shifts' = Append(shifts, [from |-> Len(drawer) + 1, open |-> TRUE, by |-> by,
                                       variance |-> 0, fresh |-> FALSE])

StartShift(w) == /\ At(w, "idle") /\ Room /\ Len(shifts) + 1 < MaxShifts
                 /\ Shift("start") /\ Goes(w, "opening")
                 /\ UNCHANGED <<drawer, closes, paper, month, till, raced, torn, removed>>

\* open_cash_drawer books the opening cash, and opens a second shift
OpenDrawer(w) == /\ At(w, "opening")
                 /\ drawer' = Append(drawer, [type |-> "opening", amount |-> till,
                                              settled |-> \A o \in Workers : worker[o].at \notin {"row", "genrow"}])
                 /\ worker' = [worker EXCEPT ![w].at = "second", ![w].sum = Len(drawer)]
                 /\ UNCHANGED <<shifts, closes, paper, month, till, raced, torn, removed>>

SecondShift(w) == /\ At(w, "second") /\ Done(w)
                  /\ \E from \in {worker[w].sum + 1, Len(drawer) + 1} :
                         shifts' = Append(shifts, [from |-> from, open |-> TRUE, by |-> "drawer",
                                                   variance |-> 0, fresh |-> FALSE])
                  /\ UNCHANGED <<drawer, closes, paper, month, till, raced, torn, removed>>

Newest == CHOOSE s \in {i \in DOMAIN shifts : shifts[i].open} :
              \A o \in DOMAIN shifts : shifts[o].open => o <= s

\* its window starts with the one opening of the day's cash and no count was taken in it
Fresh(s) == /\ shifts[s].from \in {i \in OfType({"opening"}) : drawer[i].settled}
            /\ \A i \in OfType({"opening", "closing"}) : i <= shifts[s].from
            /\ Settled

\* end_shift_with_denominations: the newest open shift and the sum of its rows ...
EndShiftRead(w) ==
    /\ At(w, "idle") /\ Room /\ \E s \in DOMAIN shifts : shifts[s].open
    /\ worker' = [worker EXCEPT ![w] = [resting EXCEPT !.at = "closing", !.shift = Newest, !.sum = Since(Newest),
                                                       !.counted = till, !.fresh = Fresh(Newest)]]
    /\ UNCHANGED <<drawer, shifts, closes, paper, month, till, raced, torn, removed>>

\* ... then the shift is closed, whether or not another request has closed it
EndShiftWrite(w) ==
    /\ At(w, "closing") /\ Goes(w, "close")
    /\ shifts' = [shifts EXCEPT ![worker[w].shift].open = FALSE,
                                ![worker[w].shift].variance = worker[w].counted - worker[w].sum,
                                ![worker[w].shift].fresh = worker[w].fresh]
    /\ UNCHANGED <<drawer, closes, paper, month, till, raced, torn, removed>>

\* /api/cash-drawer/close
StartClose(w) == /\ At(w, "idle") /\ Room /\ drawer /= <<>>
                 /\ worker' = [worker EXCEPT ![w].at = "close", ![w].counted = till]
                 /\ UNCHANGED <<drawer, shifts, closes, paper, month, till, raced, torn, removed>>

\* close_cash_drawer: the day's rows are read, the closing row is written
CloseRead(w) ==
    /\ At(w, "close") /\ Goes(w, "closed")
    /\ closes' = [difference |-> worker[w].counted - ByType, upto |-> Len(drawer),
                                 fresh |-> worker[w].counted = till /\ Settled]
    /\ UNCHANGED <<drawer, shifts, paper, month, till, raced, torn, removed>>

CloseWrite(w) == /\ At(w, "closed") /\ Done(w) /\ Row("closing", worker[w].counted)
                 /\ UNCHANGED <<shifts, closes, paper, month, till, raced, torn, removed>>

\* bound: once
Die == /\ ~Quiet /\ ~torn /\ torn' = TRUE
       /\ worker' = [w \in Workers |-> resting]
       /\ UNCHANGED <<drawer, shifts, closes, paper, month, till, raced, removed>>

Next == \/ \E w \in Workers :
              \/ \E kind \in Moves \cap Kinds : Enter(w, kind)
              \/ DrawerRow(w) \/ GenerateRead(w) \/ GenerateInsert(w) \/ GenerateRow(w) \/ GenerateMark(w)
              \/ StartShift(w) \/ OpenDrawer(w) \/ SecondShift(w) \/ EndShiftRead(w) \/ EndShiftWrite(w)
              \/ StartClose(w) \/ CloseRead(w) \/ CloseWrite(w)
        \/ \E type \in Moves \ Kinds : Move(type)
        \/ DeleteExpense \/ Die

Spec == Init /\ [][Next]_vars

\* Rows hold whole amounts, and a shift starts at a row of the day.
TypeOK ==
    /\ \A i \in DOMAIN drawer : drawer[i].amount \in Int
    /\ \A s \in DOMAIN shifts : shifts[s].from \in 1..MaxRows + 1
    /\ till \in Int /\ month.rows \in Nat /\ Len(drawer) <= MaxRows + 3

\* Each kind's drawer rows add up to the rows they were booked for, and a month's
\* bill is posted once, unless two generations overlapped or a request stopped half way; an
\* expense deleted by hand keeps its drawer row.
BooksReconcile ==
    Quiet /\ ~torn => /\ \A k \in Kinds : Sum(OfType({k})) = paper[k] - (IF k = "expense" THEN removed ELSE 0)
                      /\ ~raced => month.rows <= 1

\* An honest count shows no variance when the shift's rows begin with its own
\* opening and hold no other opening or count; and the difference the day's close
\* reports is exactly the rows of the types its formula leaves out.
HonestCountBalances ==
    ~torn /\ ~raced =>
        /\ \A s \in DOMAIN shifts : shifts[s].fresh => shifts[s].variance = 0
        /\ LET ignored == OfType({"return", "refund", "salary", "owner_withdrawal", "extra_sale",
                                  "supplier_advance", "bank_deposit", "payment_in"})
               openings == {i \in OfType({"opening"}) : i <= closes.upto}
           IN  closes.fresh /\ openings = {1} /\ drawer[1].settled
               => closes.difference = Sum({i \in ignored : i <= closes.upto})
====

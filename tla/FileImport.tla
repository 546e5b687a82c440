---- MODULE FileImport ----
(***************************************************************************)
(* The two other importers of sales: mapped rows of a CSV, JSON or Excel   *)
(* file (app/pos_import.py, "IMP-" invoices) and the older reader of the   *)
(* same till backups (app/ezi_import.py, "EZI-" invoices).  Every          *)
(* statement is autocommitted, and neither an invoice number in the sales  *)
(* table nor a name among the customers is unique.  All invoices belong to *)
(* one named customer.                                                     *)
(***************************************************************************)
EXTENDS Integers, FiniteSets

CONSTANTS Invoices, Workers,
          MaxFiles     \* bound: files imported

VARIABLES sales,      \* <<importer, invoice>> -> rows written for it
          customers,  \* customers rows of that name
          worker, files,
          raced,      \* history: two imports worked on one invoice at once, or one
                      \* missed the customer that another was about to insert
          torn        \* history: a sale was left without all its rows

vars == <<sales, customers, worker, files, raced, torn>>

Importers == {"IMP", "EZI"}
Readers == Importers \cup {"summary"}   \* files of whole sales, without items, are IMP too
NoRows == [head |-> 0, items |-> 0, drawer |-> 0]
resting == [by |-> "none", at |-> "rows", todo |-> {}, inv |-> {}]

Init == /\ sales = [b \in Importers \X Invoices |-> NoRows]
        /\ customers = 0
        /\ worker = [w \in Workers |-> resting]
        /\ files = 0 /\ raced = FALSE /\ torn = FALSE

Busy(w) == worker[w].by /= "none"
Quiet == \A w \in Workers : ~Busy(w)
Key(w, i) == <<IF worker[w].by = "EZI" THEN "EZI" ELSE "IMP", i>>
At(w, place) == Busy(w) /\ worker[w].at = place
Goes(w, place) == worker' = [worker EXCEPT ![w].at = place]

\* /run is threaded, so two files may be imported at once; the reader of backups
\* is a coroutine that never awaits, so nothing starts while it runs
RunImport(w, file, by) ==
    /\ ~Busy(w) /\ files < MaxFiles
    /\ \A o \in Workers : worker[o].by /= "EZI"
    /\ files' = files + 1
    /\ worker' = [worker EXCEPT ![w] = [by |-> by, at |-> IF by = "EZI" THEN "debtors" ELSE "rows",
                                        todo |-> file, inv |-> {}]]
    /\ UNCHANGED <<sales, customers, raced, torn>>

\* one that found no customer inserts him next
Asks(w) == worker[w].at \in {"debtor", "customer"}
Overtakes(w) == \E o \in Workers \ {w} : Asks(o)

\* a backup may list the customer, whom the reader looks up by name ...
FindDebtor(w) == /\ At(w, "debtors") /\ customers = 0 /\ Goes(w, "debtor")
                 /\ raced' = (raced \/ Overtakes(w))
                 /\ UNCHANGED <<sales, customers, files, torn>>

\* ... and inserts, unless it does not list him, he is there or a statement failed
EndDebtors(w) == /\ (At(w, "debtors") \/ At(w, "debtor")) /\ Goes(w, "rows")
                 /\ UNCHANGED <<sales, customers, files, raced, torn>>

Known(w, i) == sales[Key(w, i)].head > 0

\* skip an invoice that is there already, whole or not
SkipRow(w, i) ==
    /\ At(w, "rows") /\ i \in worker[w].todo /\ Known(w, i)
    /\ worker' = [worker EXCEPT ![w].todo = @ \ {i}]
    /\ UNCHANGED <<sales, customers, files, raced, torn>>

Meets(w, i) ==
    \E o \in Workers \ {w} : worker[o].by = worker[w].by /\ worker[o].inv = {i}
                             /\ worker[w].by /= "summary"

\* the mapped rows name a customer, who is looked up first
Takes(w, i) ==
    /\ worker' = [worker EXCEPT ![w].todo = @ \ {i}, ![w].inv = {i},
                                ![w].at = IF worker[w].by = "EZI" THEN "sale" ELSE "lookup"]
    /\ raced' = (raced \/ Meets(w, i))
    /\ UNCHANGED <<sales, customers, files, torn>>

\* Faulty variant: the check for an imported invoice is missing.
TakeAnyRow(w, i) == At(w, "rows") /\ i \in worker[w].todo /\ Takes(w, i)

TakeRow(w, i) == At(w, "rows") /\ i \in worker[w].todo /\ ~Known(w, i) /\ Takes(w, i)

LookUp(w) == /\ At(w, "lookup") /\ Goes(w, IF customers = 0 THEN "customer" ELSE "sale")
             /\ raced' = (raced \/ (customers = 0 /\ Overtakes(w)))
             /\ UNCHANGED <<sales, customers, files, torn>>

NewCustomer(w) == /\ \/ At(w, "customer") /\ Goes(w, "sale")
                     \/ At(w, "debtor") /\ Goes(w, "rows")
                  /\ customers' = customers + 1
                  /\ UNCHANGED <<sales, files, raced, torn>>

Write(w, what) == \E i \in worker[w].inv :
    sales' = [sales EXCEPT ![Key(w, i)][what] = @ + 1]

\* for a sale without items the statement names ten columns and nine values, so that it
\* always fails
InsertSale(w) == /\ At(w, "sale") /\ worker[w].by /= "summary"
                 /\ Goes(w, "items") /\ Write(w, "head")
                 /\ UNCHANGED <<customers, files, raced, torn>>

NextRow(w) == worker' = [worker EXCEPT ![w].at = "rows", ![w].inv = {}]

\* the reader of backups has no drawer row to write
InsertItems(w) ==
    /\ At(w, "items") /\ Write(w, "items")
    /\ IF worker[w].by = "IMP" THEN Goes(w, "drawer") ELSE NextRow(w)
    /\ UNCHANGED <<customers, files, raced, torn>>

InsertDrawer(w) == /\ At(w, "drawer") /\ NextRow(w) /\ Write(w, "drawer")
                   /\ UNCHANGED <<customers, files, raced, torn>>

EndImport(w) == /\ At(w, "rows") /\ worker[w].todo = {}
                /\ worker' = [worker EXCEPT ![w] = resting]
                /\ UNCHANGED <<sales, customers, files, raced, torn>>

\* the first statements leave nothing of a sale behind
Half(w) == worker[w].at \in {"items", "drawer"}

\* a failed statement skips the row and goes on with the next one; in the reader
\* of backups it ends the sales
RowFails(w) ==
    /\ worker[w].inv /= {}
    /\ worker' = [worker EXCEPT ![w].at = "rows", ![w].inv = {},
                                ![w].todo = IF worker[w].by = "EZI" THEN {} ELSE @]
    /\ torn' = (torn \/ Half(w))
    /\ UNCHANGED <<sales, customers, files, raced>>

ProcessDies == /\ ~Quiet
               /\ worker' = [w \in Workers |-> resting]
               /\ torn' = (torn \/ \E w \in Workers : Half(w))
               /\ UNCHANGED <<sales, customers, files, raced>>

Next == \/ \E w \in Workers, f \in SUBSET Invoices, by \in Readers : f /= {} /\ RunImport(w, f, by)
        \/ \E w \in Workers, i \in Invoices : SkipRow(w, i) \/ TakeRow(w, i)
        \/ \E w \in Workers : \/ FindDebtor(w) \/ EndDebtors(w) \/ LookUp(w) \/ NewCustomer(w)
                              \/ InsertSale(w) \/ InsertItems(w) \/ InsertDrawer(w)
                              \/ EndImport(w) \/ RowFails(w)
        \/ ProcessDies

Spec == Init /\ [][Next]_vars

\* Rows are counted, and a worker is somewhere in a file.
TypeOK ==
    /\ sales \in [Importers \X Invoices -> [head : Nat, items : Nat, drawer : Nat]]
    /\ customers \in Nat /\ files \in 0..MaxFiles
    /\ worker \in [Workers -> [by : Readers \cup {"none"}, todo : SUBSET Invoices,
                               at : {"rows", "debtors", "debtor", "lookup", "customer",
                                     "sale", "items", "drawer"},
                               inv : {{}} \cup {{i} : i \in Invoices}]]

\* However often overlapping files are imported, an importer holds every invoice
\* once, with its items and drawer row, and there is one customer, unless two imports
\* met on an invoice, one looked for the customer while another was about to insert him,
\* or a sale was cut off between its statements, for which the next import never makes up.
ImportedOnceAndWhole ==
    Quiet /\ ~raced /\ ~torn =>
        /\ customers <= 1
        /\ \A b \in Importers \X Invoices :
               /\ sales[b].head <= 1 /\ sales[b].items = sales[b].head
               /\ sales[b].drawer = IF b[1] = "IMP" THEN sales[b].head ELSE 0
====

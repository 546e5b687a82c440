---- MODULE PosImport ----
(***************************************************************************)
(* The import of a shop's old till (app/pos_import_sync.py): cumulative    *)
(* backups are uploaded, their invoices become sales, an import run can be *)
(* deleted again, and sales that vanished from the old till are reversed.  *)
(* An invoice is one line of one stock category at one rupee a piece.      *)
(***************************************************************************)
EXTENDS Integers, Sequences, FiniteSets, Functions

CONSTANTS Invoices,   \* invoice -> pieces sold; negative for a posted return
          Unpaid,     \* invoices the old till holds as credit
          Diary,      \* diary entry (an expense) -> amount
          Deleters,   \* delete requests that may run at once
          MaxRuns     \* bound: uploads

VARIABLES till,      \* external: invoices the old till still has, and its diary
          sale,      \* sales and ezi_pos_imports, per invoice
          stock,     \* category_stock_state: pieces relative to no import
          cash,      \* cash_drawer rows per invoice, summed
          expense,   \* expenses, pos_expense_imports and drawer rows, per entry
          runs,      \* status of each import run
          importer,  \* the upload being imported
          deleter,   \* where each delete request stands
          dryrun,    \* the deleted sales an operator was shown
          drift,     \* history: a named cause puts the stock off until a boot
          leak,      \* history: a named cause puts the drawer off
          vanished   \* history: invoices the old till has deleted

vars == <<till, sale, stock, cash, expense, runs, importer, deleter, dryrun, drift, leak, vanished>>
money == <<cash, leak>>

Bills == DOMAIN Invoices
Entries == DOMAIN Diary
NoSale == [status |-> "none", items |-> FALSE, run |-> 0, synced |-> FALSE]
NoExpense == [rows |-> 0, run |-> 0, drawer |-> 0]
quiet == [run |-> 0, todo |-> {}, at |-> "idle", entry |-> {}]
resting == [at |-> "idle", run |-> 0, sales |-> {}, todo |-> {}, entries |-> {}]

Init == /\ till = {}
        /\ sale = [i \in Bills |-> NoSale]
        /\ stock = 0
        /\ cash = [i \in Bills |-> 0]
        /\ expense = [e \in Entries |-> NoExpense]
        /\ runs = <<>> /\ importer = quiet
        /\ deleter = [d \in Deleters |-> resting]
        /\ dryrun = {} /\ drift = FALSE /\ leak = FALSE /\ vanished = {}

Exists(i) == sale[i].status /= "none"
Live(i) == sale[i].status \in {"paid", "credit"}

\* the upload handler is a coroutine that never awaits: nothing starts beside it
LoopFree == importer = quiet

(***************************************************************************)
(* The old till, outside this program.                                     *)
(***************************************************************************)
TillSells(i) == /\ LoopFree /\ i \notin till \cup vanished
                /\ till' = till \cup {i}
                /\ UNCHANGED <<sale, stock, expense, runs, importer, deleter, dryrun, drift, vanished, money>>

TillNotes(e) == /\ LoopFree /\ e \notin till
                /\ till' = till \cup {e}
                /\ UNCHANGED <<sale, stock, expense, runs, importer, deleter, dryrun, drift, vanished, money>>

TillDeletes(i) == /\ LoopFree /\ i \in till
                  /\ till' = till \ {i} /\ vanished' = vanished \cup {i}
                  /\ UNCHANGED <<sale, stock, expense, runs, importer, deleter, dryrun, drift, money>>

(***************************************************************************)
(* Importing a backup.                                                     *)
(***************************************************************************)
Upload ==
    /\ LoopFree /\ Len(runs) < MaxRuns
    /\ runs' = Append(runs, "importing")
    /\ importer' = [run |-> Len(runs) + 1, at |-> "sales", entry |-> till \cap Entries,
                    todo |-> {i \in till \cap Bills : sale[i].run = 0 /\ ~Exists(i)}]
    /\ UNCHANGED <<till, sale, stock, expense, deleter, dryrun, drift, vanished, money>>

\* a quantity that is not positive is ignored by apply_sale_to_state
Sold(q) == IF q > 0 THEN stock - q ELSE stock

InDrawer(i) == IF i \in Unpaid THEN 0 ELSE Invoices[i]

\* one write_tx per invoice: sale, items, drawer row, dedup row and stock
ImportSale(i) ==
    /\ importer.at = "sales" /\ i \in importer.todo
    /\ sale' = [sale EXCEPT ![i] = [status |-> IF i \in Unpaid THEN "credit" ELSE "paid",
                                    items |-> TRUE, run |-> importer.run, synced |-> FALSE]]
    /\ stock' = Sold(Invoices[i]) /\ cash' = [cash EXCEPT ![i] = InDrawer(i)]
    /\ drift' = (drift \/ Invoices[i] < 0)
    /\ importer' = [importer EXCEPT !.todo = @ \ {i}]
    /\ UNCHANGED <<till, expense, runs, deleter, dryrun, leak, vanished>>

\* the diary comes after the sales; each entry takes three autocommitted writes
ExpenseRow(e) ==
    /\ importer.at = "sales" /\ importer.todo = {} /\ e \in importer.entry
    /\ IF expense[e].run = 0
       THEN /\ expense' = [expense EXCEPT ![e].rows = @ + 1]
            /\ importer' = [importer EXCEPT !.at = "listing", !.todo = {e}]
       ELSE /\ importer' = [importer EXCEPT !.entry = @ \ {e}]
            /\ UNCHANGED expense
    /\ UNCHANGED <<till, sale, stock, runs, deleter, dryrun, drift, vanished, money>>

ExpenseListed ==
    /\ importer.at = "listing"
    /\ \E e \in importer.todo : expense' = [expense EXCEPT ![e].run = importer.run]
    /\ importer' = [importer EXCEPT !.at = "paying"]
    /\ UNCHANGED <<till, sale, stock, runs, deleter, dryrun, drift, vanished, money>>

ExpensePaid ==
    /\ importer.at = "paying"
    /\ \E e \in importer.todo : expense' = [expense EXCEPT ![e].drawer = @ + 1]
    /\ importer' = [importer EXCEPT !.at = "sales", !.entry = @ \ importer.todo, !.todo = {}]
    /\ UNCHANGED <<till, sale, stock, runs, deleter, dryrun, drift, vanished, money>>

Finalize ==
    /\ importer.at = "sales" /\ importer.todo = {} /\ importer.entry = {}
    /\ runs' = [runs EXCEPT ![importer.run] = "imported"]
    /\ importer' = quiet
    /\ UNCHANGED <<till, sale, stock, expense, deleter, dryrun, drift, vanished, money>>

(***************************************************************************)
(* Undoing sales: by the till, and by the sync of deleted sales.           *)
(***************************************************************************)
BeingDeleted(i) == \E d \in Deleters : deleter[d].at /= "idle" /\ i \in deleter[d].sales

\* drawer rows go by the payment method, which is cash for a credit import too;
\* a line that is not positive is not put back
ReverseCore(i) ==
    /\ stock' = IF Invoices[i] > 0 /\ sale[i].items THEN stock + Invoices[i] ELSE stock
    /\ cash' = [cash EXCEPT ![i] = IF Invoices[i] > 0 THEN @ - Invoices[i] ELSE @]
    /\ leak' = (leak \/ BeingDeleted(i) \/ i \in Unpaid \/ Invoices[i] < 0)
    /\ drift' = (drift \/ BeingDeleted(i) \/ Invoices[i] < 0)

Refund(i) ==
    /\ LoopFree /\ Live(i)
    /\ ReverseCore(i)
    /\ sale' = [sale EXCEPT ![i].status = "refunded"]
    /\ UNCHANGED <<till, expense, runs, importer, deleter, dryrun, vanished>>

\* the endpoint has no backup to compare with: it takes the run's own invoices
OfRun(r) == {i \in Bills : sale[i].run = r}
Listed(i) == Exists(i) /\ sale[i].run /= 0 /\ ~sale[i].synced

DetectDeletions(r) ==
    /\ LoopFree /\ OfRun(r) /= {}
    /\ dryrun' = {i \in Bills : Listed(i) /\ i \notin OfRun(r)}
    /\ UNCHANGED <<till, sale, stock, expense, runs, importer, deleter, drift, vanished, money>>

\* Faulty variant: the sale is marked first, so the reversal finds it refunded.
ApplyDeletionMarked(i) ==
    /\ LoopFree /\ i \in dryrun
    /\ dryrun' = dryrun \ {i}
    /\ sale' = IF Live(i) THEN [sale EXCEPT ![i].status = "refunded", ![i].synced = TRUE]
               ELSE [sale EXCEPT ![i].synced = Exists(i)]
    /\ UNCHANGED <<till, stock, expense, runs, importer, deleter, drift, vanished, money>>

\* a sale that is gone raises inside its own write_tx and is skipped
ApplyDeletion(i) ==
    /\ LoopFree /\ i \in dryrun
    /\ dryrun' = dryrun \ {i}
    /\ IF Live(i)
       THEN /\ ReverseCore(i)
            /\ sale' = [sale EXCEPT ![i].status = "refunded", ![i].synced = TRUE]
       ELSE /\ sale' = [sale EXCEPT ![i].synced = Exists(i)]
            /\ UNCHANGED <<stock, drift, money>>
    /\ UNCHANGED <<till, expense, runs, importer, deleter, vanished>>

(***************************************************************************)
(* Deleting a run: what to undo is read first, then the stock goes back    *)
(* line by line, then the rows go, statement by statement, autocommitted.  *)
(***************************************************************************)
Undoing(places) == \E d \in Deleters : deleter[d].at \in places
At(d, place) == deleter[d].at = place
Goes(d, place) == deleter' = [deleter EXCEPT ![d].at = place]
Doomed(d, i) == i \in deleter[d].sales /\ sale[i].run = deleter[d].run

DeleteCollect(d, r) ==
    /\ LoopFree /\ At(d, "idle") /\ runs[r] /= "deleted"
    /\ LET mine == {i \in OfRun(r) : Exists(i)} IN
       deleter' = [deleter EXCEPT ![d] =
           [at |-> "stock", run |-> r, sales |-> mine, todo |-> {i \in mine : sale[i].items},
            entries |-> {e \in Entries : expense[e].run = r}]]
    /\ drift' = (drift \/ (\E o \in Deleters : deleter[o].run = r))
    /\ UNCHANGED <<till, sale, stock, expense, runs, importer, dryrun, vanished, money>>

\* refunded or not, every line goes back, returns as a deduction
DeleteStock(d, i) ==
    /\ At(d, "stock") /\ i \in deleter[d].todo
    /\ stock' = stock + Invoices[i]
    /\ drift' = (drift \/ ~Live(i))
    /\ deleter' = [deleter EXCEPT ![d].todo = @ \ {i}]
    /\ UNCHANGED <<till, sale, expense, runs, importer, dryrun, vanished, money>>

DeleteItems(d) ==
    /\ At(d, "stock") /\ deleter[d].todo = {} /\ Goes(d, "cash")
    /\ sale' = [i \in Bills |-> IF Doomed(d, i) THEN [sale[i] EXCEPT !.items = FALSE] ELSE sale[i]]
    /\ UNCHANGED <<till, stock, expense, runs, importer, dryrun, drift, vanished, money>>

DeleteCash(d) ==
    /\ At(d, "cash") /\ Goes(d, "sales")
    /\ cash' = [i \in Bills |-> IF Doomed(d, i) THEN 0 ELSE cash[i]]
    /\ UNCHANGED <<till, sale, stock, expense, runs, importer, dryrun, drift, leak, vanished>>

DeleteSales(d) ==
    /\ At(d, "sales") /\ Goes(d, "entries")
    /\ sale' = [i \in Bills |-> IF Doomed(d, i) THEN [sale[i] EXCEPT !.status = "none"] ELSE sale[i]]
    /\ UNCHANGED <<till, stock, expense, runs, importer, dryrun, drift, vanished, money>>

Lookalikes(e) == {f \in Entries : Diary[f] = Diary[e]}

\* Faulty variant: the drawer rows of imported expenses stay.
DeleteEntryOnly(d, e) ==
    /\ At(d, "entries") /\ e \in deleter[d].entries
    /\ expense' = [expense EXCEPT ![e].rows = 0]
    /\ deleter' = [deleter EXCEPT ![d].entries = @ \ {e}]
    /\ UNCHANGED <<till, sale, stock, runs, importer, dryrun, drift, vanished, money>>

\* the drawer row is found by its day and amount; the diary here is of one day
DeleteEntry(d, e) ==
    /\ At(d, "entries") /\ e \in deleter[d].entries
    /\ expense' = [f \in Entries |-> [expense[f] EXCEPT
                       !.rows = IF f = e THEN 0 ELSE @, !.drawer = IF f \in Lookalikes(e) THEN 0 ELSE @]]
    /\ leak' = (leak \/ expense[e].run /= deleter[d].run
                     \/ \E f \in Lookalikes(e) \ {e} : expense[f].drawer > 0)
    /\ deleter' = [deleter EXCEPT ![d].entries = @ \ {e}]
    /\ UNCHANGED <<till, sale, stock, cash, runs, importer, dryrun, drift, vanished>>

DeleteLists(d) ==
    /\ At(d, "entries") /\ deleter[d].entries = {} /\ Goes(d, "mark")
    /\ sale' = [i \in Bills |-> IF sale[i].run = deleter[d].run
                                 THEN [sale[i] EXCEPT !.run = 0, !.synced = FALSE] ELSE sale[i]]
    /\ expense' = [e \in Entries |-> IF expense[e].run = deleter[d].run
                                      THEN [expense[e] EXCEPT !.run = 0] ELSE expense[e]]
    /\ UNCHANGED <<till, stock, runs, importer, dryrun, drift, vanished, money>>

DeleteMark(d) ==
    /\ At(d, "mark")
    /\ runs' = [runs EXCEPT ![deleter[d].run] = "deleted"]
    /\ deleter' = [deleter EXCEPT ![d] = resting]
    /\ UNCHANGED <<till, sale, stock, expense, importer, dryrun, drift, vanished, money>>

(***************************************************************************)
(* A crash leaves the dirty flag, so the next boot replays every sale.     *)
(***************************************************************************)
Delicate == {"cash", "sales", "entries", "mark"}
Replayed == {i \in Bills : Live(i) /\ sale[i].items}
Expected == 0 - SumFunctionOnSet(Invoices, Replayed)

CrashAndBoot ==
    /\ importer' = quiet /\ deleter' = [d \in Deleters |-> resting]
    /\ stock' = Expected /\ drift' = FALSE
    /\ leak' = (leak \/ importer.at \in {"listing", "paying"} \/ Undoing(Delicate))
    /\ UNCHANGED <<till, sale, cash, expense, runs, dryrun, vanished>>

Next ==
    \/ \E i \in Bills : TillSells(i) \/ TillDeletes(i) \/ ImportSale(i) \/ Refund(i) \/ ApplyDeletion(i)
    \/ Upload \/ ExpenseListed \/ ExpensePaid \/ Finalize \/ CrashAndBoot
    \/ \E e \in Entries : TillNotes(e) \/ ExpenseRow(e)
    \/ \E r \in DOMAIN runs : DetectDeletions(r) \/ \E d \in Deleters : DeleteCollect(d, r)
    \/ \E d \in Deleters : DeleteItems(d) \/ DeleteCash(d) \/ DeleteSales(d) \/ DeleteLists(d) \/ DeleteMark(d)
    \/ \E d \in Deleters, i \in Bills : DeleteStock(d, i)
    \/ \E d \in Deleters, e \in Entries : DeleteEntry(d, e)

Spec == Init /\ [][Next]_vars

(***************************************************************************)
(* Properties.                                                             *)
(***************************************************************************)
\* Rows, runs and requests stay within what the tables and threads can hold.
TypeOK ==
    /\ sale \in [Bills -> [status : {"none", "paid", "credit", "refunded"}, items : BOOLEAN,
                            run : 0..Len(runs), synced : BOOLEAN]]
    /\ stock \in Int /\ cash \in [Bills -> Int] /\ dryrun \subseteq Bills
    /\ expense \in [Entries -> [rows : Nat, run : 0..Len(runs), drawer : Nat]]

\* The stock is what the imported sales leave of it, through uploads, refunds,
\* syncs and deleted runs in any order, unless a return was imported, a refunded
\* sale was deleted or a run was deleted twice at once, and no boot came since.
StockFollowsImports ==
    ~drift /\ ~Undoing({"stock"}) => stock = Expected

\* The drawer holds the cash of the paid sales that stand and has paid each
\* imported expense once, unless a credit sale or a return was reversed, a
\* sale was refunded while its run was being deleted, an expense of the same day
\* and amount or one imported again was deleted, or a request died midway.
DrawerFollowsImports ==
    ~leak /\ ~Undoing({"sales", "entries"}) /\ importer.at \notin {"listing", "paying"} =>
        /\ \A i \in Bills : cash[i] = IF Live(i) THEN InDrawer(i) ELSE 0
        /\ \A e \in Entries : expense[e].rows = expense[e].drawer /\ expense[e].rows <= 1

\* The sync reverses only sales that the old till has deleted.
SyncReversesOnlyDeleted == \A i \in Bills : sale[i].synced => i \in vanished
====

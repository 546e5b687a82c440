# BillBook: models and proofs

BillBook is a shop's back office: a FastAPI server (`src/app`) over one SQLite
file, used by several tills and browsers at once. It books supplier bills into
stock, sells stock at the till, keeps customers' credit and points, a cash
drawer, salaries and a running weighted-average cost, draws reports from all of
it, and talks to a head office, to an older till and to AI providers. This
directory models it in TLA+, checks the models with TLC and proves with TLAPS that
the core of it (checkout, sales and their books, the stock ledger, and thirteen of the
back-office modules) is right for instances of any size.

    AtomicCheckout.tla   what a checkout promises
    Checkout.tla         checkouts, write-offs and the store's lock, statement by statement
    CheckoutProofs.tla   theorems about Checkout: no oversell, atomicity, conservation
    PosLedger.tla        sales and the books they move: drawer, credit, points, stock
    PosLedgerProofs.tla  theorems about PosLedger: every property of its run
    StockEngine.tla      the weighted-average pool: arithmetic and replay
    StockLedger.tla      bills, sales, adjustments, rebuilds, crash and boot
    StockLedgerProofs.tla  theorems about StockLedger: types, quantity, value
    CustomerDesk.tla     credit, payments, points, referrals, parked orders, layaway
    CashOffice.tla       shifts, counts, expenses and everything that moves the drawer
    Salary.tla           salary records, advances, payments
    Transfers.tla        challans between branches, central purchases
    SyncOutbox.tla       pairing, the outbox of a branch and head office
    PricePush.tla        prices pushed to a branch
    PosImport.tla        the import of an older till's backups, and its undoing
    FileImport.tla       the two other importers
    Extraction.tla       AI providers, their retries and merge; validation of a bill
    Intake.tla           a bill from its pictures to the stock (extends Extraction)
    JobStream.tla        a job's event stream and the browser that follows it
    Reports.tla          the shop's books and the profit reports drawn from them
    StockReports.tla     stock and purchase reports (extends Reports)
    Exports.tla          files drawn from the reports (extends StockReports)
    Insights.tla         dashboards, summaries, forecasts (extends Exports)
    Audit.tla            cash buckets and the auditor (extends Insights)
    LiveMath.tla         the average-cost trace beside the engine's replay
    Assistant.tla        the approval queue
    Vault.tla            backups, restores and the license
    Migration.tla        the boot over a database of any age
    BackOfficeProofs.tla theorems about MCBackOffice, drawn from the next three, and
                         invariants of PricePush and JobStream
    ExchangeProofs.tla   invariants of SyncOutbox, FileImport, Intake, PosImport, Transfers
    OfficeProofs.tla     invariants of Salary, Assistant, CashOffice, Vault, Migration
    DeskProofs.tla       invariants of CustomerDesk
    SumTheorems.tla      lemmas on sums over finite sets
    MCBackOffice.tla     sixteen instances in one run; MCParts, MCExchange, MCOffice and
                         MCDesk hold those that are proved about, with their constants
    MC*.tla, *.cfg       small instances for TLC

`PROJECT.json` lists the components, runs, mutants, findings, hazards and
theorems, and maps every definition to the lines it translates.

## The system

| Part | State | Operations | Correct when |
|---|---|---|---|
| Store (`db.py`) | the SQLite file, the write lock | `write_tx` (BEGIN IMMEDIATE .. COMMIT or ROLLBACK), `conn` (every statement commits alone), `init` | a transaction happens whole or not at all; a waiting writer is answered; a boot completes what an earlier one began |
| Checkout (`routers/pos.py`) | sales, sale items, stock pool | `create_sale` | strict stock never goes negative; a request takes effect once |
| Write-offs (`profit_cash.py`) | write-off and adjustment rows, pool | `add_stock_writeoff` | rows and pool agree |
| Sales and customers (`routers/pos.py`, `routers/customers.py`, `shop.py`) | sales, customers, redemptions, commissions, drawer, payments, orders | create, refund, void, return, edit, layaway, hold, quote, payment, redemption, referral, deletion | drawer, credit, points and stock are those of the standing sales |
| Stock engine (`profit_engine.py`) | `category_stock_state`: qty, value, average | apply and reverse purchases, sales, adjustments, transfers; full and scoped replay | the pool is what the rows say |
| Bills (`routers/bills.py`) | bills, bill items, pages | confirm, delete, restore, patch; upload and added pages as jobs | as above, through every change of a bill |
| Extraction (`extract.py`, `validate.py`, `jobs.py`) | background jobs and their events | read, retry, merge, validate, stream | a line shows its picture; a watcher learns the end |
| Inventory (`routers/inventory.py`) | adjustments, counts | adjust, count, write-off, rebuild | rows and pool agree |
| Cash (`shop.py`) | drawer, shifts, expenses, deposits | open, count, close, spend, deposit, settle | every drawer row has its paper; an honest count balances |
| Salaries (`salary.py`) | records, advances, expenses | upsert, advance, pay, delete | a month's pay is counted once |
| Branches (`routers/transfers.py`, `central.py`, `hq.py`, `sync.py`) | challans, purchases, codes, tokens, outbox, summaries, prices | create, accept, reject, distribute; pair, flush, push | no piece is lost between branches; what is marked sent has arrived |
| Importers (`pos_import_sync.py`, `pos_import.py`, `ezi_import.py`) | import runs, imported sales | import, delete, detect and apply deletions | an invoice counts once and can be taken out again |
| Reports (`reports.py`, `profit_analytics.py`, `insights.py`, `auditor.py`, `export.py`, ..) | none of their own | some hundred queries | one figure is the same wherever it is shown |
| Approval queue (`routers/extensions.py`) | pending actions | propose, approve, edit, reject, expire | carried out once, after a yes |
| Backups (`routers/bills.py`, `routers/maintenance.py`, `licensing.py`) | files in `backups/`, license rows | back up, upload, prune, restore | a restore loses nothing and keeps the license |
| Boot and shutdown (`main.py`) | setting `stock_state_dirty` | boot, clean shutdown, crash | a crash is repaired at the next boot |

The parts meet in the database. Handlers call each other as functions; nothing
is sent between them but rows. The one background concern is the thread pool:
nearly every handler is a plain `def`, so FastAPI runs requests in parallel
threads, each with connections of its own. The exceptions run on the event loop:
the jobs of an upload and their event streams (Intake, JobStream), and the upload
of an older till's backup (PosImport has one import at a time).

Three mechanisms make this hard, and the modules are cut along them:

* **What is inside a transaction and what is not.** `write_tx` serialises its
  body. `conn()` is opened with `isolation_level=None`: each statement commits
  alone, and a `with db.conn()` block is no transaction. Checkout and reversal of
  a sale, confirming, deleting and restoring a bill, creating and accepting a
  challan, one sale of an import run, every single step of the stock engine and
  the write of a rebuild are transactions. Nearly everything else is a chain of
  statements that other requests fall between and a crash may cut.
* **Two records of one fact.** The pool and its replay; the drawer and the
  papers behind it; a figure and the other reports that show it; the outbox and
  head office; a database and its backup.
* **Reversal.** Refunds, re-confirmations, deletions, restorations, deleted
  import runs and rejected challans undo earlier effects from what the row says
  now.

### How the invariants are stated

Many handlers are not safe when they overlap. An invariant that simply failed
would say that once and nothing more, so the invariants of those modules are
stated up to *named causes*: history variables (`blurred`, `raced`, `torn`,
`drift`, `trust`, `marks`, `mishap`, ..) that are set by exactly the steps known
to break the book (two requests that overlapped between read and write, a
process that died between two statements). They show that nothing else breaks
it, and the mutants show that the rest is not empty. History variables are
written by actions and read by nothing but invariants.

Disagreements between the code and one of its own comments are violated runs
(see Findings); disagreements without a run are listed at the end.

Bags are special in the code (their on-hand number is derived from the sales
table). They appear in the reports; the stock modules are about the other
categories.

## Checkout.tla

One action per statement of `create_sale` that touches stock. `pc[t]` is where
request `t` stands:

| Action | Code |
|---|---|
| `PreFlight` | validation; `stock_strategy` is read on a connection of its own, before the lock |
| `BeginImmediate`, `BusyTimeout` | BEGIN IMMEDIATE gets the lock, or gives up after `busy_timeout` |
| `GuardPass`, `GuardBlock` | `_sale_stock_guard`; the 409 answer returns from inside the with-block, so `write_tx` commits |
| `ApplyLine`, `ApplyLineDrift` | one line's deduction; or the engine raises and the drift is only logged |
| `Commit`, `Rollback` | the end of `write_tx` |
| `WriteoffRead`, `WriteoffRows`, `WriteoffSave`, `WriteoffTimeout` | the stages of `add_stock_writeoff`, each of them committed alone |
| `SetStrategy` | `set_setting("stock_strategy", ..)` |
| `Crash` | the process dies: the open transaction is gone, autocommitted statements stay |

`stock` is the committed pool, `work` the lock holder's private image, `seen`
what a write-off read. Lines are chosen in any order, which covers the order of
the cart. The two inserts of a write-off are one action: nobody reads one
without the other. A write-off needs no `max(0, ..)`: it stops unless its
quantity is covered by what it read. `StockConserved` speaks of states in which no
write-off is between its rows and its store, or was cut off there: the run
`checkout_writeoff` is about the sale that a write-off overwrites, not about a torn one.

`AtomicCheckout.tla` is the promise: a request is open, then done, blocked or
failed; a sale takes all its pieces in one step; under `strict` only if all fit.
`AtomicSpec` states that `Checkout` implements it, with `stock` mapped to itself
and `outcome` to the answers that have been given.

`FairSpec` adds weak fairness of each request's own next step (getting the lock
or timing out included): the operating system schedules a runnable thread, and
SQLite's `busy_timeout` bounds every wait. Nothing is assumed of clients,
write-offs, strategy changes or crashes.

## PosLedger.tla

A handler in `write_tx` is one action (this is what `AtomicSpec` licenses for
stock). `CreateSale` is the whole of `create_sale`: idempotency by client_uuid,
find or create the customer, redeem points, status, credit limit or manager PIN,
guard, row, items, drawer, pool, customer, linking of redemptions, commission.
`BlockSale` is its 409 answer, which keeps what steps 2 and 3 did. Refund, void
and return go through `_reverse_sale_core` (`Reverse`). `EditSale` and
`UpdateLayaway` write the row and nothing else, as in the code. A customer
payment is four statements on autocommit connections (`PayCheck`, `PayInsert`,
`PayCredit`, `PayDrawer`), any of which a crash may follow (`PayLost`).

Amounts are whole rupees, a point is worth one rupee, taxes and discounts are in
the `net` of a request. One category: Checkout has the interplay of several.
`orphaned` is a history variable: the customers whose points a 409 answer took.
`update_layaway` fails on a request without a due date (a `sqlite3.Row` has no
`get`), so the modelled requests carry one.

Books are compared with sales only for sales nobody edited: `edit_sale` changes
method and status without any effect, so a later refund reverses something the
sale never did. What must hold even then is that no balance goes below zero
(`BalancesNonNegative`). `CreditFollowsSales` allows a payment whose credit
update a crash took (the row is there, the debt too): credit lies between the
open debts less the recorded payments, and the open debts.
`PointsFollowSales` is one-sided because the floor `MAX(0, ..)` of a refund can
leave a customer with more points than the standing sales awarded.

## StockEngine.tla and StockLedger.tla

`StockEngine` is the arithmetic of the pool (quantity, value, average) in pieces
and whole paise, `round(x, 2)` being rounding to a paisa (halves up). It has
the step-by-step operations and the replay, which is written separately in the
code and differs in places: it keeps the average of an emptied pool, and it
orders events by date, kind and id (`Before`); a replay folds a set of events in
that order, the latest outermost. Cost prices sent by the client are left out.

`StockLedger` has one category and the rows that feed it. Request threads
(`worker`) carry what a handler does outside its transaction: the look at
crossed sales after a confirm, the flag after a delete, a re-dated bill's update
and rebuild, an adjustment's application, the three stages of a rebuild (read,
write, clear the flag). Everything else may happen in between.

* `Confirm` re-confirms when the bill is confirmed already. The version check
  reads and increments in one transaction, so it never refuses.
* `DeleteBill` and `RestoreBill`: the incremental reversal is overwritten by the
  scoped replay in the same transaction, so only the replay is modelled; the
  rows it runs on are the new ones.
* A bill sorts at midnight of its date. Date 0 is an empty date, which sorts
  before all others and is never looked at for crossed sales.
* The three SELECTs of a rebuild are one step. A row that arrives between them
  is like one that arrives just before or after, and the window between read
  and write is there.
* `CleanShutdown` waits for the threads, as the server's graceful stop does.
* Transfers between branches and central purchases change the pool without rows
  that the replay knows; they have a module of their own, and no part here.

`trust` is a history variable that names the causes of drift, so that the
invariants can say that there are no others. It is `none` after a stock count
(rows nobody applies), after a crash with an adjustment half applied, after a
replay that counted an adjustment not yet applied, and after a rebuild written
from rows that had changed since they were read. It is `qty` while recorded
costs and the pool's value need a full rebuild to come together (after a
re-confirmation, a scoped replay, a sale priced by `peek_avg_cost`'s fallback, or
the refund of a sale whose cost is not recorded unless the average is that cost). A rebuild from unchanged rows makes it `full`.

## CustomerDesk.tla

What happens to customers beside the till: a sale is one action (PosLedger has
its inside), every other request is a chain of autocommitted statements kept in
`jobs[w]`. Payments check the key, insert, reduce the credit and write the
drawer row; redemption reads the points and deducts them; a referral looks for
an earlier award and then awards; deletion looks at the credit and then stamps
`deleted_at`; a parked order or quote counts the rows for its number. `Statement`
and `Ageing` are operators over the same rows.

`DeskKeepsBooks` states credit, points, statement, ageing, orders, layaway and
referral together, because the same requests move them. `marks` names what
overlapped, died or was edited by hand, `over` the payments made when nothing
was owed (`MAX(0, ..)` swallows them).

## CashOffice.tla

The drawer is a table of signed rows. `paper[k]` sums the rows of the other table
(expense, advance, deposit, ..) of kind k. `till` is what a
person would count; the cashier counts honestly, so a variance is the program's.
`StartShift`, `EndShiftRead`, `OpenDrawer` and `CloseRead` compute their figures
from the drawer rows of the types their SQL names. `HonestCountBalances` is
stated for shifts whose rows hold one opening, their own: `start_shift` opens a
second shift without looking, and the rows of both then count for each. It also
says what the day's close reports when it is wrong: exactly the rows of the types
its formula leaves out. The closing formulas count a sale row only when it is above zero; a
"return" of the model is the negative sale row of an imported return, and "salary"
stands for salary payments and advances.

## Salary.tla

One employee and month: `record` is the row, `expense` its posted expense,
`advances`, `cash` and `handed` the money that left. Save, pay, advance and their
deletions are chains of statements. `PayrollCountedOnce` says that a record posts
one expense of its full cost, and that once it is paid, advances and payment add
up to it. Named: overlapping requests of one employee, a request cut half way, an
expense deleted by hand, a paid record changed afterwards (`upsert` recomputes paid
records too). Salaries are multiples of the 30 days they are divided by.

## Transfers.tla

Challans and central purchases over the pool of `StockEngine`. Creating and
accepting a challan are one action each; `reject` is two, buying and distributing
one per statement, and `Die` ends a request anywhere. A line may leave on the average of
the confirmed bills when the pool has none (`Peeked`); the challan then still carries the
pool's average. `books` is the first stock and what was bought, and no other
step touches it. `Accounted` compares it with the pool, the open challans and the hands of
running requests: pieces are never more, except of a category whose acceptance a
rejection overwrote; never fewer, except of a category that a request died or ran short
with, or wrote to a challan that was accepted meanwhile; and the value is the same unless
one of these, or the change to the central cost, befell the category (`marks`). Several lines
of a category book in like their total, since the last average is that of the totals. A
distribution of no lines is accepted by the code and writes a challan without items.

A purchase may name a category twice. The code keeps one row per line, compares a
distribution with the last of them (`LastRow`) and takes what is sent from all
(`Drawn`), so a purchase of 1 and then 2 pieces is marked distributed when 2 have been
sent, and one of 2 and then 1 never is. `PurchaseFollowsChallans` says what that leaves
true: no more is sent than the last row has, each row is short by what was sent, and
the mark means that no row has more than was sent, unless two requests on the purchase
overlapped, one named a category twice (each line is compared with what remains on its
own), died or ran short. `RebuildSpec` adds the full
rebuild, which replays no challan; `Accounted` does not hold of it (see the list at
the end).

## SyncOutbox.tla and PricePush.tla

Branch and head office exchange messages over a network that loses requests and
replies: `FlushPost` may deliver and lose the answer, deliver nothing, or succeed.
Queueing the figures of a day is a SELECT and an UPDATE or INSERT, each alone
(`QueueRead`, `QueueWrite`): the payload of a pending entry is replaced, and two
calls that both found none leave two pending entries of one day. A figure is a version
number, so that "head office has the newest" can be said. `SentIsDelivered` holds for
every day that was not queued again while its old figures were on the wire, which marks
the newer ones sent unseen, or while another call was queueing it.
`OneTokenPerCode` names registrations that read the code before either used it.
In this commit only tests call `queue_sync_outbox`; it is an action here.

A branch records a price push first and sets the price after, so `NewestPriceWins`
names late, overtaking and interrupted deliveries. Redelivery of everything in
any order is there; rows already applied are recognised.

## PosImport.tla and FileImport.tla

`till` is the old till's own list of invoices (external), which only shrinks or
grows; uploads are cumulative backups of it. An import run books each new invoice
as a sale in a transaction of its own, then the diary's expenses statement by
statement. Deleting a run, the dry run of deletions, its application (which works
from the list shown, not from the till) and refunds at the counter come in any
order and overlap. `drift` and `leak` name what puts stock and drawer off: an
imported return (its negative line is applied as a sale, and its reversal
clamps), a refunded sale whose run is deleted, two deletions of one run at once, a
request that died. A boot replays, which clears `drift`.

FileImport is the two other importers, whose statements are all autocommitted.
An invoice number they have seen is skipped for ever, so a row that failed after
its first statement stays half. All invoices belong to one named customer: the importer
of mapped rows looks him up before each sale and inserts him if he is missing, also for
a row that is a whole sale, whose INSERT always fails after that (see the list at the end);
the reader of backups inserts him from the list of debtors before any sale. His
name is not unique, so two imports at once can insert him twice (`raced`).

## Extraction.tla, Intake.tla and JobStream.tla

`Extraction` holds pure operators: how a provider's tries end, when a chunk goes
to the next provider, how chunks are merged and renumbered, and which verdict
`validate` gives. A reply is an input: how each try ends, the lines read, the
total read. `Intake` is one bill over it: jobs number their pages from the
highest there is, store pages, lines and the verdict in separate statements, while
the user edits in a form loaded earlier, confirms, deletes and restores. Lines
carry the picture they were read from, so `ItemsShowTheirPage` can compare it with
the page number stored. `StockFollowsBill` is about the bill's pieces in the pool;
`astray` names a job that stores lines in a confirmed bill, sets it back to review
(the next confirmation then counts its pieces again), or gives it the status
`confirmed` itself.

`JobStream` is one job and one browser: `watcher` stands where the coroutine of
the stream waits. `NoWatcherStranded` is the safety form of "the page learns how
the job ended": no state waits for an ended job with an empty queue. It needs no
fairness, and it covers the queue that drops events when full.

## Reports.tla, StockReports.tla, Exports.tla, Insights.tla, Audit.tla

The books are sets of rows (`sales`, `bills`, `adjustments`, `expenses`, `extras`),
filled by actions that stand for the modules above. Every report is an operator
with the joins and filters of its own queries: which statuses count, which date
is used, what a missing category or total becomes, what is rounded where. A month
has one day, so a day report is a month report; money is whole paise.

The properties compare reports with each other for every set of books, and name
the differences that are there: months with nothing but expenses have no row in
profit analysis; undated bills are in some purchase figures only; a total of zero
is zero to one report and missing to another; adjustments enter the bridge; bags
clamp. The agreement of `Exports` goes through the generator of files: titles,
flattened sections, the 50 rows a PDF shows (`PdfRows`). The one of `Audit` has
five parts, by what they are about.

Helper predicates take a computed report as a parameter (`FileAgrees(file, ..)`),
so that TLC computes it once.

## LiveMath.tla

`calc_explain` replays a category with code of its own, and tells the owner to
repair the stock when its result differs from the engine's. Both replays run over
every log of up to `MaxEvents` rows. They agree but for four named kinds of rows.

## Assistant.tla

The queue of pending actions: proposals by the agent, the auditor (one open per
check) and the season planner (one open per season, in order), approval (find the
pending row, execute, mark), edit (check, then write), rejection and expiry. `carried[i]` is what the executions of an action did. `ApprovedOnce` relates
it to the row, except for actions two requests worked on at once (`lapped`): two
approvals do execute twice. Executions are those the owner's yes leads to: a price,
an expense with its drawer row, a note.

## Vault.tla

A backup is a value: the committed writes it holds and whose license. `disk` lags
behind `live` until a checkpoint, which is what a plain file copy sees; the SQLite
backup API sees `live`. Restores take a safety copy, overwrite, put the license
back; each is an action, the shop goes on writing, requests overlap, and the
process dies. A safety copy is named by its second, so a restore of the same second
writes over the copy of another, or removes it when its own fails (`SafetyCopyAgain`,
`SafetyFails`). `RestoreLosesNothing` says where every committed write is, and whose
license the database carries, up to `mishap`, which names the step that failed,
lagged, was cut off, overlapped or took another's copy.

## Migration.tla

`init()` is a list of statements (create, add a column, index, seed, repair), and
the model runs that list over databases of five ages (none yet, the first tills,
the first assistant, before import runs, today's), with deaths between any two. Columns that are only added stand together under one name.
`BootLeavesWhole` includes the boot that fails: a `pending_actions` table without
`expires_at` is indexed on that column before it is added.

## Runs

| Run | Shows | States |
|---|---|---|
| `checkout` | type; stock is negative only after a permitted sale, with write-offs, a changing strategy, engine failures, timeouts and crashes | 0.6 million |
| `checkout_atomic` | stock conserved, atomicity (refinement of AtomicCheckout), every waiting request answered and the lock released | 3,432 |
| `pos_ledger` | drawer, credit, points and stock follow the sales; no negative balance; one drawer row per payment | 0.9 million |
| `stock` | quantity and value follow the rows through all changes of two bills, crashes and boots; quantity and value also with two threads, adjustments and counts | 2.3 million |
| `back_office` | all modules from CustomerDesk on, each on its own instance | 2.0 million |
| `checkout_twice` | **violated**: two lines of one category pass the strict guard | |
| `checkout_writeoff` | **violated**: a write-off undoes a sale that committed between its read and its store | |
| `pos_blocked` | **violated**: the 409 answer keeps the redeemed points | |
| `stock_crash` | **violated**: a rebuild at run time disarms the repair at boot | |
| `stock_round_trip` | **violated**: a bill dated today is booked after, and replayed before, today's sales | |
| `pos_sync` | **violated**: the sync of deletions reverses a sale the old till still has | |
| `backup_kept` | **violated**: a manual backup removes itself and answers ok | |

`back_office` is one run of twenty parts: `part` says which module is awake
and the modules use `v1` .. `v12` as their variables. In these models the parts
share no variable (each abstracts what it needs of the others), so one run explores
the sum, not the product, of their states. Parts that differ only in their bounds
share an instance (Vault, PosImport), and `Next` bounds each. `stock` explores two settings of one instance the same way (`Setting` in MCStock).

### Bounds, and why they are enough

* Checkout: two categories, three requests, of which each category is wanted by
  two and one request wants both; two write-offs on one category (one in
  `checkout_writeoff`); stock such
  that any one request fits and two do not. This gives every pairwise race, a
  partial application, and a third party in between. Carts name a category once
  in the passing runs (`DistinctLines`); `checkout_twice` drops that.
* PosLedger: two customers (one with a limit and no row yet), cash, split with a
  rest, and credit sales with and without redemption; two sales (`MaxSales`),
  one edit or layaway payment per sale, two deliveries of one payment, `MaxSales + 1`
  redemption rows from blocked sales. Points are scarce enough for the floor to
  bite. With three sales (15 million states) the same properties held.
* StockLedger: bills of one and of two lines at prices whose averages do not
  come out even, dated or not; `MaxDay` days, `MaxSales` sales, `MaxAdjs`
  adjustments; `DayLength` is long enough for all rows of a day. One thread has
  two bills, two sales and two days; two threads (interchangeable, hence the
  symmetry) have one bill, one sale and one adjustment or count, on one day. A date
  is changed by hand on the first bill only: the rebuild that follows treats all
  alike. With both bills re-dated, and with two days for two threads (4.7 million
  states), the same properties held; the theorems have no such bounds.
* Requests at once (`Workers`, `Requests`, `Flushers`, `Deleters`): two everywhere
  but where said, since every race found in the code is between two. Nothing tells one from
  another (`requestSymmetry`). The part `pruning` has one at a time.
* CustomerDesk: one phone number, so that a removed customer meets his successor,
  two people, two sales, two orders, four requests (`MaxMoves`).
* CashOffice: three drawer rows (`MaxCashRows`) and two shifts: an opening, a move and a
  count, or two openings; moves (`CashMoves`) are a sale, an imported return, which the day's
  close ignores, and an expense. One amount and one float; the theorems leave all of these open. Salary: one employee-month, three requests, two advances.
* Transfers: two categories, two challans, a request of two lines and an empty one,
  three requests on a purchase, which comes with two good lines, with an invalid one, or
  with two lines of one category. SyncOutbox: one branch, one day with two
  versions, one code, two calls that queue; a second branch or day only repeats it, since rows are keyed
  by both. PricePush: three pushes, one of them of a missing category.
* PosImport: a sale and a return over two uploads, with one deletion at a time; and a sale,
  a credit sale and two diary entries of the same day and amount in one upload, with two
  deletions. `AtTill` bounds what the till comes to hold by `TillLimits`, a constant that the
  theorems leave open. FileImport: two invoices, two files.
* Intake: two jobs on one bill, one of them with two files, pictures shared out
  between a provider that reads and one that fails. Providers, pictures, batches and replies
  are constants (`Groups`, `Batches`, `Replies`), open in the theorems. JobStream: five events over a
  queue of two (100 in the code), enough to fill it and drop.
* Reports: two months, a stock category, a bag and lines without a category; books of
  up to two rows a table (`MaxRows`), two discounts. A PDF shows one row where the
  code shows 50, refunds are judged from one sale where the code waits for ten.
* LiveMath: three rows at two instants, three prices (one of them missing), returns.
* Assistant: two parts, one for what answers may do to one action, one for proposals.
  Kinds, values and the number of actions (`AskedKinds`, `AskedValues`, `MaxAsked`) are
  open in the theorem.
* Vault: `KeptBackups` is 1 where the code keeps ten (2 in `backup_kept`); one or two
  writes, up to three entries, in four parts (`Within`: overlap, without files to
  restore; two restores in one second; pruning, one request at a time; snapshots). The
  limits are the constant `VaultLimits`, which the theorem leaves open.
* Migration: three boots (`MaxBootRuns`), tables of two default rows (`SeedRows`), two rows
  of the drawer (`MaxBootCash`). The theorem leaves these open.

Deadlock is checked except where the system comes to rest by design of the
instance: when all requests are answered and the bounds are used up.

Every property of a passing run has a mutant in `PROJECT.json`: a faulty variant
of one definition (marked "Faulty variant" in the module) under which TLC finds
the property violated.

### Fairness

`Checkout!FairSpec` is the one specification with fairness (see there). Elsewhere
what must happen is stated as the absence of a stuck state (JobStream), or it
depends on a person, a retry or a scheduler outside this code, and no liveness is
claimed.

## Findings

Each is a violated run; `PROJECT.json` quotes the line it disagrees with.

1. A cart with two lines of one category oversells under `strict`.
2. A write-off is not the "single transaction" its docstring promises.
3. The 409 answer commits the redemption of loyalty points.
4. A rebuild while the shop is open clears the flag that repairs a crash.
5. Deleting and restoring a bill does not return to the state before.
6. The deletion sync takes one run for the whole backup and reverses live sales.
7. The limit of ten backups can remove the backup just made.

## Proofs

The theorems hold for all values of the constants that satisfy the assumptions of
the modules (`CheckoutAssumption`, `PosAssumption`, `LedgerAssumption`,
`PartsAssumption`, `ExchangeAssumption`, `IntakeAssumption`, `TransfersAssumption`,
`OfficeAssumption`, `DeskAssumption`), and for the hypotheses named below. The bounds (`MaxSales`,
`MaxVersions`, ..) are constants too, so what is proved has no bound. None of the
invariants is inductive as it stands; each section says what had to be added.

**Checkout** (`CheckoutProofs`). `TypeCorrect`; `NoOversell` (stock below zero is
the work of a sale that had read `permit_negative`), with write-offs, engine failures
and crashes; `StockIsConserved`; `CheckoutIsAtomic` (the refinement of
`AtomicCheckout`).

* `StockInv`, for `NoOversell`: at most one request is inside its transaction, and it
  holds the lock (`LockOwned`); before its first deduction the holder's image is the
  committed stock (`ImageFresh`); a strict holder's remaining lines still fit its image,
  which is nowhere negative unless somebody had permission (`RestFits`); what a
  write-off will store is not negative (`WriteoffCovered`).
* `AtomicInv` adds `ImageTracks`: image plus the lines still to do is the committed
  stock. A commit then is exactly `Sell`, a block `Block`, a timeout, rollback or crash
  `Fail`; all other steps leave `stock` and `outcome` alone.
* `SumInv`, for conservation, says the same as a sum over the lines, so carts may name
  a category twice.
* Hypotheses: `DistinctLines` for no oversell and atomicity (`checkout_twice` violates
  it without); no write-offs and no engine failures for conservation and atomicity
  (`checkout_writeoff`).

**Sales and their books** (`PosLedgerProofs`). All seven properties of the run, for
any customers, requests, amounts and payments.

* `Base` has the types and the floors together: a negative balance would make a
  negative redemption, and that a wrong type. A row's ids point into tables that only grow.
* `CashInv` (drawer) needs that every drawer row that is not a payment names a sale that
  exists, so a new sale finds no row under its id.
* `RowsInv` (points) needs that a redemption row without a sale belongs to a customer who
  was answered 409, and that a sale without points has no row.
* `KeysInv` (payments): the key is taken at the insert, so at most one attempt per key is
  past it, and what it puts into the drawer it leaves behind.
* `CreditInv`: an attempt between its insert and its credit update is still owed its
  amount; only the other recorded payments may have lowered the credit. `CreditAddsUp`
  assumes `RetriesRepeat`: deliveries under one `client_uuid` carry one amount.

**Stock ledger** (`StockLedgerProofs`). `TypeCorrect`;
`QuantityAddsUp` and `MoneyAddsUp`, for any bills, lines, prices, threads, crashes and boots.

* `QtyInv`: the pool's quantity plus what threads have written down and not applied yet
  (`Pending`) is what the rows add up to, while `trust` is not `none`. A rebuild or a
  scoped replay re-establishes it from the rows: `ReplayQty` says that a replay ends on
  the sum of the quantities of its events, whatever their order.
* `ValueInv`: without adjustments, and while trust is `full`, value plus the recorded costs
  of the standing sales is what the live confirmed bills cost. Each sale is charged the
  average of the replay of the events before it (`ReplayCost`), so the replay of a set that
  is closed under `Before` keeps the sum (`ReplayValue`); halves that rounding moves from
  the pool to a cost cancel. `RowFirst` says why an adjustment under way does not count:
  its row is written before the pool is touched.

**Back office** (`BackOfficeProofs`, from `ExchangeProofs`, `OfficeProofs` and
`DeskProofs`). `part` never changes, so a step of
MCBackOffice is a step of the instance that is awake, and each theorem has an invariant of
the form `part = .. => ..`. What the steps of an instance keep is proved where only few
instances are in sight (`MCExchange`, `MCOffice`, `MCDesk`), since every leaf pays for all definitions
it can see; `BackOfficeProofs` puts it together for the run's `Spec`.

* `NewestPrice`: between a delivery's row and its price the branch still sells at the
  newest of the other rows, and that delivery, the only one there, is the newest
  (`PricesInv`).
* `WatcherIsTold`: `NoWatcherStranded` is nearly inductive; a queue with room for one event
  is enough (`QueueCap # 0`).
* `OneToken`: a code nobody overtook is held by at most one registration, which has marked
  it used before it writes, and holds no token yet (`GivenOnce`).
* `SummariesArrive`: `OutboxOk` says what is promised while entries are under way: a
  pending entry, the only one of its day, carries the last figures; so does every copy of it
  on the wire, unless the day is marked late; a copy that was answered has been stored;
  an id on the wire is that of an entry of its day; and a call that is the only one to
  queue a day knows the day's pending entry, if there is one.
* `FilesAreWhole`: `KeyInv` says which rows of an invoice its one importer has written at
  each of its statements, and `OneCustomer` that whoever found no customer is alone in
  that, and there is none yet.
* `BillInStock`: `IntakeInv` adds that a bill has finitely many lines of whole pieces, for
  a sum over them to be one, and that every line a job holds or stores came from a reply.
  Groups of providers, batches and replies are free: nothing is used of them but that
  quantities are integers (`QuantitiesRead`) and a priority group has a first
  (`GroupsHaveOne`).
* `PagesAreShown` (`ItemsShowTheirPage`): the pages a job has still to number are ahead of
  every number given while it is the only one that numbers (`OneNumbers`, `Ahead`); what it
  read, carries in memory or stored shows its picture (`JobShows`, `AllShow`), and so does
  what a form loaded earlier will write. Chunks, retries and merges hand every line of a picture on under that
  picture's number (`ShareFrom`, `GroupFrom`); `crowded` ends the promise for good.
* `PaidOnce`: the property speaks of employees whom no request is busy with. `PayInv` says
  in `Fits` what the record, its expense and the money handed out are at each statement of
  the one request that is; an employee with two at once is `raced` and promises nothing
  any more. Employees, salaries, days off, advances and the number of requests are free.
* `CarriedOutOnce` (`ApprovedOnce`): an action nobody lapped is in the hands of at most
  one request, and what its executions did is what the statement says at which that request
  stands, or, with no request, what the row says. An auditor's or a planner's row under
  way has made room for itself. Kinds, values and the number of actions are free.
* `CashReconciles` (`BooksReconcile`): the drawer rows of a kind, with the row that a request
  has still to write, add up to the rows of the other table; so a request holds at most
  one promise, and a month's recurring bill is in at most one pair of hands while nothing is `raced`.
* `HonestCount` (`HonestCountBalances`): after every opening that was counted with nothing
  on its way, the till is that count plus the rows since, other openings and counts
  aside, plus what is on its way into a row; and a request that closes a shift carries
  to its last statement what the rows gave when it read them. Both theorems
  share `DeskInv`; amount, float, moves, rows, shifts and requests are free.
* `NothingLost` (`RestoreLosesNothing`): `VaultInv` adds that a restore about to overwrite
  has all that is in the database in a copy already (`WritesOk`), and that from its first
  look on it holds the license it will put back (`LicenseOk`), whatever other restores,
  backups, writes and deaths come between. Requests, the
  number of backups kept and the limits of a part (`VaultLimits`) are free.
* `ImportsInStock` and `ImportsInDrawer` share `TillInv`. A deletion has in hand every sale
  of its run that exists, and no import touches its run (`UndoOk`, `RunsOk`). The stock is
  then always what the sales that stand took, less those a deletion has put back already
  (`Standing`), for deletions of different runs have different sales in hand (`UndoApart`);
  and the drawer holds what is due for each sale, which is nothing once the
  deletion of its run has passed the drawer rows (`CashDue`, `Settled`). A boot replays what stands.
  Invoices, diary, requests and the limits of a part (`TillLimits`) are free.
* `NothingGoesAstray` and `PurchaseAddsUp` (`Accounted`, `PurchaseFollowsChallans`) share
  `TransInv`. The first is inductive once rows are typed and a request holds what its next
  statement needs (`Ready`). The second is not: between two statements of a distribution its challan
  is ahead of what the purchase says remains by `Lead`, and what it will still take from
  that, its `Pledge`, must fit (`Fitting`), with at most one request at the purchase while
  nothing is `blurred` (`OneServes`). Amounts of lines are taken apart by their first or
  last line (`Additive`), so that one argument serves pieces and worth. Goods, shelf,
  lines, challans and requests are free (`TransfersAssumption`).
* `BootsWhole` (`BootLeavesWhole`): each statement that a boot has passed is done and stays
  done (`Walked`, `Lasting`), so a boot that reaches the end leaves a whole database. That
  no boot stops on the way needs the order of the list: each index comes after the
  `ALTER TABLE` that gives its table the column, but the one on `pending_actions.expires_at`
  (`Fed`, `ProgramIsFed`), piece by piece and not by running it. Default rows and boots are free.
* `DeskInOrder` (`DeskKeepsBooks`): `DeskBooks` has a part per book. What a customer owes
  counts a payment from its balance update on, not from its row (`CreditOk`); a redemption
  under way uses no more than there are points, until two overlap (`PointsOk`); one about
  to be removed owes nothing (`RemovedOk`); and no two live customers share a phone
  (`TwinsOk`), until a look-up is overtaken by an insert. The actions come down to few effects on the tables
  (`DeskStep`), so that each book looks only at the effects it knows. Customers, keys, sales,
  orders, moves and requests are free.

**Lemmas.** The library's induction theorems take an operator as a parameter, which the
installed provers cannot instantiate. `SumTheorems` does without: inclusion of finite
sets is well founded, so a claim that fails for some subset fails for a smallest one
(`SmallestSubset`), and a step from there refutes it. What sums (removal, addition, union,
renaming, one term changed, a multiple, a bound) do is proved once that way and cited
everywhere. `StockLedgerProofs` does the same for its three folds, lines added to a pool,
lines taken out and the replay: one lemma for none, one for the last step (`FoldStep`).

Only model-checked:

* liveness (`EveryCheckoutEnds`): fairness and ENABLED are beyond the prover;
* the agreements of reports (`ProfitReportsAgree` to `InsightsMatchReports`,
  `LiveMathMatchesEngine`): every query is a sum of its own over rows that the instance
  enumerates; what they compare is finite case analysis;
* the types of the back office (`TypeOK` of MCBackOffice): see the plan.

## Not modelled

* Sessions, PINs and the pairing of devices (`routers/auth.py`, `security.py`):
  counters of single requests on which no stock or money depends. Encryption of
  settings and signatures of licenses: pure functions.
* The AI agent's conversation, market intelligence, messaging and FBR posting:
  outbound HTTP with best-effort results. What the agent proposes arrives at the
  approval queue. FBR posting cannot run in this commit (see below).
* Charts, trends, printing, settings pages, price labels, the merging and renaming
  of categories, bank accounts and supplier pages: single statements over rows no
  other part reads.
* The browser code, the desktop and mobile shells and the scripts: seen as repeated
  requests, boots, shutdowns and crashes.
* Image handling and what a provider reads: inputs.

`PROJECT.json` gives a reason for each, and for what is left out of the parts that
are modelled.

## Noticed while reading, without a run

Named causes of the models, or code that a model would only repeat:

* Stock: a full rebuild replays no challan, so it puts pieces in transit back
  (`Transfers!RebuildSpec`). Return lines of imports are counted by reports and
  never replayed by the engine. `validate()` may give a bill the status `confirmed`
  without its stock, and a job of added pages sets a confirmed bill back to review,
  so that the next confirmation counts it twice.
* Cash: `start_shift` opens two shifts and the end closes the newer; `list_shifts`
  overwrites the stored variance; closing the drawer ignores deposits, supplier
  advances and credit payments; `get_expected_cash_for_shift` (unused) adds the
  opening twice.
* Customers: the till finds removed customers by phone; linking redemptions to a sale
  stamps every unlinked one; `edit_sale` settles nothing; `customer_statement` debits
  every sale and the ageing keeps the oldest sale ever; `update_layaway` fails on a
  request without a due date (`sale.get` on a `sqlite3.Row`); parked orders and
  quotes are numbered by counting.
* Salaries and suppliers: a paid record is recomputed by a later save or advance;
  `get_supplier_advance_balance` says it sums open advances and sums all.
* Importers: rows that are summaries name ten columns and nine values
  (`pos_import.py:354`), so none is ever imported; detecting deleted expenses always
  raises; the three importers number invoices differently, so one sale can come in
  three times.
* Reports: "cumulative share <= 0.80" makes the only item class C; the universal
  export passes a month as a date, calls again without arguments on a TypeError, and
  answers 500 for the bill-wise list; PDF tables stop at 50 rows; the auditor's
  earnings check compares a formula with itself, and an audit filed under another
  period looks at the current month; supplier reliability counts written totals only;
  shrinkage averages deleted and unconfirmed bills; the sparkline of debts ignores
  older bills; the balance sheet leaves out adjustments; the daily report leaves out
  categories that only sold before; months with expenses alone are missing from
  profit analysis; sales by customer drops removed customers; the totals of the cash flow
  leave out purchases and extra sales not paid in cash; the briefing is cached for the day.
* Extraction: chunked reading tries three times where a comment says once more; the
  merge of several providers drops their partial errors; the AI budget does not count
  extraction; refusing an upload leaves its empty bill behind.
* Approval: a PIN is checked by its presence only; two approvals execute twice; a
  `confirm_bill` action sets the status without stock; audit actions never expire.
* Boot: an index on `pending_actions.expires_at` is created before the column
  (`db.py:1629`), so a database from before v7.2 fails every boot;
  `automation_config` levels are reset at each boot; `write_tx` looks for swallowed
  exceptions by `sys.exc_info()` after the `except` block has ended, when it is
  already cleared; `idx_sales_client_uuid` is created first not unique, so the unique
  one never comes into being (the check inside the transaction suffices).
* Backups: `/api/backup` and the safety copy of a restore copy the main file and miss
  pages still in the WAL; directory backups carry the license although
  `maintenance.py` says that backups must never; a failed restore copies its safety
  file beside a live WAL; a restore whose source is pruned meanwhile opens an empty
  database; two overlapping restores can put a foreign license back; the README's
  daily backup is scheduled by nothing.
* FBR posting joins a table `categories` that does not exist and uses `.get` on a
  `sqlite3.Row`, so it fails once configured.

## Plan

1. Proofs of the types of the back-office instances, of which the invariants hold most
   already.
2. An abstract specification of a transfer ("a piece is with the sender, on the way
   or with the receiver") and of the outbox ("figures are replaced, then delivered"),
   with refinements; `OutboxOk` is most of the second one's proof.
3. Payment fields and supplier upsert of a bill, category merging, bulk imports of
   customers: the operations that the partly modelled components still lack.

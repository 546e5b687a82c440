---- MODULE StockLedger ----
(***************************************************************************)
(* Supplier bills, sales and adjustments of one category, the running pool *)
(* they move, and the rebuild that recomputes the pool from them           *)
(* (app/routers/bills.py, app/routers/inventory.py, app/profit_engine.py,  *)
(* the boot code of app/main.py).  A write_tx is one step; what a handler  *)
(* does after its transaction, or on autocommit connections, is a step per *)
(* statement, and other requests run in between.                           *)
(***************************************************************************)
EXTENDS StockEngine, Sequences, SequencesExt, FiniteSetsExt

CONSTANTS Bills,      \* ids of uploaded bills, a set of naturals
          Forms,      \* confirm payloads [items, date]; date 0 = left empty
          Workers,    \* request threads with a tail to run
          Quantities, \* pieces one sale sells
          Deltas,     \* manual adjustments
          Counts,     \* counted quantities
          Strict,     \* stock_strategy = strict
          MaxSales, MaxAdjs, MaxDay  \* bounds

Line == [qty : Nat \ {0}, price : Nat \ {0}]

ASSUME LedgerAssumption ==
    /\ Bills \subseteq Nat /\ IsFiniteSet(Bills) /\ IsFiniteSet(Workers)
    /\ \A f \in Forms : f.date \in 0 .. MaxDay /\ f.items \in Seq(Line)
    /\ Quantities \subseteq Nat \ {0}
    /\ Deltas \subseteq Int \ {0}
    /\ Counts \subseteq Nat
    /\ Strict \in BOOLEAN
    /\ MaxSales \in Nat /\ MaxAdjs \in Nat /\ MaxDay \in Nat \ {0}

VARIABLES bills,   \* bills and their bill_items
          sales,   \* sequence of sales [qty, ts, cost, valid]
          adjs,    \* sequence of stock_adjustments [delta, ts]
          pool,    \* the category_stock_state row
          day,     \* today
          dirty,   \* setting stock_state_dirty
          app,     \* "up", or how it stopped
          worker,  \* what each thread still has to do
          trust    \* history: what the pool can be relied on for

rows == <<bills, sales, adjs>>
vars == <<rows, pool, day, dirty, app, worker, trust>>

idle == [at |-> "idle"]

Init == /\ bills = [b \in Bills |-> [status |-> "review", deleted |-> FALSE,
                                     date |-> 0, items |-> <<>>]]
        /\ sales = <<>>
        /\ adjs = <<>>
        /\ pool = Empty
        /\ day = 1
        /\ dirty = TRUE
        /\ app = "up"
        /\ worker = [w \in Workers |-> idle]
        /\ trust = "full"

(***************************************************************************)
(* Events of the replay.  A bill sorts at the midnight that opens its day, *)
(* the rows of a day in the order they were written.                       *)
(***************************************************************************)
DayLength == MaxSales + MaxAdjs + 2
Midnight(d) == DayLength * d
Now == Midnight(day) + Len(sales) + Len(adjs) + 1

Counted(B, b) == B[b].status = "confirmed" /\ ~B[b].deleted

PurchaseEvents(B) ==
    UNION {{[kind |-> "purchase", ts |-> Midnight(B[b].date), id |-> b, line |-> i,
             qty |-> B[b].items[i].qty, price |-> B[b].items[i].price] :
                i \in DOMAIN B[b].items} : b \in {x \in Bills : Counted(B, x)}}

AdjustEvents ==
    {[kind |-> "adjustment", ts |-> adjs[i].ts, id |-> i, line |-> 0,
      qty |-> adjs[i].delta, price |-> 0] : i \in DOMAIN adjs}

SaleEvents ==
    {[kind |-> "sale", ts |-> sales[i].ts, id |-> i, line |-> 0,
      qty |-> sales[i].qty, price |-> 0] : i \in {j \in DOMAIN sales : sales[j].valid}}

Events(B) == PurchaseEvents(B) \cup AdjustEvents \cup SaleEvents

-----------------------------------------------------------------------------
(* What the history variable trust says: "none" when the pool may miss or  *)
(* repeat a row, "qty" when only a full rebuild can bring value and sale   *)
(* costs back together, "full" otherwise.                                  *)
HalfApplied == \E w \in Workers : worker[w].at = "adjust"
AtMostQty == IF trust = "full" THEN "qty" ELSE trust
Realigned(level) == IF HalfApplied THEN "none" ELSE level

Start(w, next) ==
    /\ app = "up"
    /\ worker[w] = idle
    /\ worker' = [worker EXCEPT ![w] = next]

Continue(w, from, next) ==
    /\ worker[w].at = from
    /\ worker' = [worker EXCEPT ![w] = next]

AddItem(p, it) == ApplyPurchase(p, it.qty, it.price)

\* Faulty variant: confirming again does not take the old lines out.
KeepItem(p, it) == p

TakeItem(p, it) == ReversePurchase(p, it.qty, it.price)

(***************************************************************************)
(* confirm: one write_tx, then a look at the sales it crossed.  The        *)
(* version check reads and bumps under the same lock and always succeeds.  *)
(***************************************************************************)
Confirm(w, b, f) ==
    LET again == bills[b].status = "confirmed"
        base == IF again THEN FoldLeft(TakeItem, pool, bills[b].items) ELSE pool
    IN  /\ bills[b].status # "gone"
        /\ ~bills[b].deleted
        /\ Start(w, IF again THEN [at |-> "snapshot"] ELSE [at |-> "crossed", date |-> f.date])
        /\ bills' = [bills EXCEPT ![b] = [status |-> "confirmed", deleted |-> FALSE,
                                          date |-> f.date, items |-> f.items]]
        /\ pool' = FoldLeft(AddItem, base, f.items)
        /\ trust' = IF again THEN AtMostQty ELSE trust
        /\ UNCHANGED <<sales, adjs, day, dirty, app>>

CrossedSales(date) == {i \in DOMAIN sales : sales[i].valid /\ sales[i].ts >= Midnight(date)}

CheckCrossed(w) ==
    /\ worker[w].at = "crossed"
    /\ LET d == worker[w].date
       IN  Continue(w, "crossed", IF d # 0 /\ d < day /\ CrossedSales(d) # {}
                                  THEN [at |-> "snapshot"] ELSE idle)
    /\ UNCHANGED <<rows, pool, day, dirty, app, trust>>

(***************************************************************************)
(* delete_bill and restore_bill.  The scoped replay in the transaction has *)
(* the last word on the pool; the flag is set after the commit.            *)
(***************************************************************************)
\* Faulty variant: the replay runs before the deletion is written.
ScopedReplayTooEarly(b, B) ==
    IF bills[b].status = "confirmed" /\ bills[b].items # <<>>
    THEN pool' = Replay(Events(bills)) /\ trust' = Realigned("qty")
    ELSE UNCHANGED <<pool, trust>>

ScopedReplay(b, B) ==
    IF bills[b].status = "confirmed" /\ bills[b].items # <<>>
    THEN pool' = Replay(Events(B)) /\ trust' = Realigned("qty")
    ELSE UNCHANGED <<pool, trust>>

Marking(b) ==
    IF bills[b].status = "confirmed" /\ bills[b].items # <<>> THEN [at |-> "mark"] ELSE idle

DeleteBill(w, b, permanent) ==
    LET B == [bills EXCEPT ![b].deleted = TRUE,
                           ![b].status = IF permanent THEN "gone" ELSE @]
    IN  /\ bills[b].status # "gone"
        /\ bills[b].deleted => permanent
        /\ bills' = B
        /\ IF bills[b].deleted THEN Start(w, idle) /\ UNCHANGED <<pool, trust>>
                               ELSE Start(w, Marking(b)) /\ ScopedReplay(b, B)
        /\ UNCHANGED <<sales, adjs, day, dirty, app>>

RestoreBill(w, b) ==
    LET B == [bills EXCEPT ![b].deleted = FALSE]
    IN  /\ bills[b].status # "gone"
        /\ bills[b].deleted
        /\ bills' = B
        /\ Start(w, Marking(b))
        /\ ScopedReplay(b, B)
        /\ UNCHANGED <<sales, adjs, day, dirty, app>>

MarkDirty(w) ==
    /\ Continue(w, "mark", idle)
    /\ dirty' = TRUE
    /\ UNCHANGED <<rows, pool, day, app, trust>>

(***************************************************************************)
(* patch_bill with a new date: read, update and rebuild are apart.         *)
(***************************************************************************)
PatchRead(w, b, date) ==
    /\ bills[b].status # "gone"
    /\ bills[b].date # date
    /\ Start(w, [at |-> "patch", bill |-> b, date |-> date, status |-> bills[b].status])
    /\ UNCHANGED <<rows, pool, day, dirty, app, trust>>

\* Faulty variant: the time of the day's beginning is stored for the date.
PatchWriteStamp(w) ==
    /\ worker[w].at = "patch"
    /\ bills' = [bills EXCEPT ![worker[w].bill].date = Midnight(worker[w].date)]
    /\ Continue(w, "patch", IF worker[w].status = "confirmed" THEN [at |-> "snapshot"] ELSE idle)
    /\ UNCHANGED <<sales, adjs, pool, day, dirty, app, trust>>

PatchWrite(w) ==
    /\ worker[w].at = "patch"
    /\ bills' = [bills EXCEPT ![worker[w].bill].date = worker[w].date]
    /\ Continue(w, "patch", IF worker[w].status = "confirmed" THEN [at |-> "snapshot"] ELSE idle)
    /\ UNCHANGED <<sales, adjs, pool, day, dirty, app, trust>>

(***************************************************************************)
(* Sales and refunds, as far as they touch the pool.                       *)
(***************************************************************************)
\* peek_avg_cost: the average, or what confirmed bills cost on the whole
BillItems == UNION {{<<b, i>> : i \in DOMAIN bills[b].items} :
                       b \in {x \in Bills : Counted(bills, x)}}
Item(k) == bills[k[1]].items[k[2]]
Bought == SumFunction([k \in BillItems |-> Item(k).qty])
BoughtFor == SumFunction([k \in BillItems |-> Item(k).qty * Item(k).price])
PeekAvgCost ==
    IF pool.avg > 0 /\ pool.qty > 0 THEN pool.avg
    ELSE IF Bought > 0 THEN Rounded(BoughtFor, Bought) ELSE 0

CreateSale(n) ==
    /\ app = "up"
    /\ Len(sales) < MaxSales
    /\ Strict => pool.qty >= n
    /\ sales' = Append(sales, [qty |-> n, ts |-> Now, cost |-> PeekAvgCost, valid |-> TRUE])
    /\ pool' = ApplySale(pool, n)
    /\ trust' = IF PeekAvgCost = pool.avg THEN trust ELSE AtMostQty
    /\ UNCHANGED <<bills, adjs, day, dirty, app, worker>>

RefundSale(i) ==
    /\ app = "up"
    /\ sales[i].valid
    /\ sales' = [sales EXCEPT ![i].valid = FALSE]
    /\ pool' = ReverseSale(pool, sales[i].qty, sales[i].cost)
    /\ trust' = IF sales[i].cost > 0 \/ pool.avg = sales[i].cost THEN trust ELSE AtMostQty
    /\ UNCHANGED <<bills, adjs, day, dirty, app, worker>>

(***************************************************************************)
(* create_adjustment stores the row, then applies it in its own write_tx.  *)
(* create_stock_count stores the row only.                                 *)
(***************************************************************************)
AddRow(delta) == adjs' = Append(adjs, [delta |-> delta, ts |-> Now])

AdjustRow(w, delta) ==
    /\ Len(adjs) < MaxAdjs
    /\ Start(w, [at |-> "adjust", delta |-> delta])
    /\ AddRow(delta)
    /\ UNCHANGED <<bills, sales, pool, day, dirty, app, trust>>

AdjustApply(w) ==
    /\ worker[w].at = "adjust"
    /\ pool' = ApplyAdjustment(pool, worker[w].delta)
    /\ Continue(w, "adjust", idle)
    /\ UNCHANGED <<rows, day, dirty, app, trust>>

StockCount(counted) ==
    /\ app = "up"
    /\ Len(adjs) < MaxAdjs
    /\ counted # pool.qty
    /\ AddRow(counted - pool.qty)
    /\ trust' = "none"
    /\ UNCHANGED <<bills, sales, pool, day, dirty, app, worker>>

(***************************************************************************)
(* rebuild_stock_state: reads on an autocommit connection, one write_tx,   *)
(* one write to the flag.  The three SELECTs are one step here; rows that  *)
(* arrive between them arrive between read and write as well.              *)
(***************************************************************************)
RebuildRoute(w) ==
    /\ Start(w, [at |-> "snapshot"])
    /\ UNCHANGED <<rows, pool, day, dirty, app, trust>>

Costs == [i \in DOMAIN sales |-> sales[i].cost]

RebuildRead(w) ==
    /\ Continue(w, "snapshot", [at |-> "write", events |-> Events(bills), costs |-> Costs])
    /\ UNCHANGED <<rows, pool, day, dirty, app, trust>>

\* a cost is stored when it differs from what the rebuild had read
Restated(events, costs) ==
    [i \in DOMAIN sales |->
        LET mine == {e \in events : e.kind = "sale" /\ e.id = i}
            new == ReplayCost(events, CHOOSE e \in mine : TRUE)
        IN  IF mine # {} /\ new # costs[i] THEN [sales[i] EXCEPT !.cost = new] ELSE sales[i]]

RebuildWrite(w) ==
    /\ worker[w].at = "write"
    /\ LET events == worker[w].events
           costs == worker[w].costs
       IN  /\ pool' = Replay(events)
           /\ sales' = Restated(events, costs)
           /\ trust' = IF events # Events(bills) THEN "none"
                       ELSE Realigned(IF costs = Costs THEN "full" ELSE "qty")
    /\ Continue(w, "write", [at |-> "clear"])
    /\ UNCHANGED <<bills, adjs, day, dirty, app>>

RebuildClear(w) ==
    /\ Continue(w, "clear", idle)
    /\ dirty' = FALSE
    /\ UNCHANGED <<rows, pool, day, app, trust>>

(***************************************************************************)
(* The process.  A crash leaves the store as it is and forgets the         *)
(* threads; a clean shutdown waits for them and clears the flag; the boot  *)
(* code runs before any request.                                           *)
(***************************************************************************)
Crash ==
    /\ app = "up"
    /\ app' = "crashed"
    /\ worker' = [w \in Workers |-> idle]
    /\ trust' = Realigned(trust)
    /\ UNCHANGED <<rows, pool, day, dirty>>

CleanShutdown ==
    /\ app = "up"
    /\ \A w \in Workers : worker[w] = idle
    /\ app' = "stopped"
    /\ dirty' = FALSE
    /\ UNCHANGED <<rows, pool, day, worker, trust>>

Boot ==
    /\ app # "up"
    /\ app' = "up"
    /\ IF dirty THEN /\ pool' = Replay(Events(bills))
                     /\ sales' = Restated(Events(bills), Costs)
                     /\ trust' = "full"
                ELSE UNCHANGED <<pool, sales, trust>>
    /\ dirty' = TRUE
    /\ UNCHANGED <<bills, adjs, day, worker>>

NextDay ==
    /\ day < MaxDay
    /\ day' = day + 1
    /\ UNCHANGED <<rows, pool, dirty, app, worker, trust>>

Next ==
    \/ \E w \in Workers :
          \/ \E b \in Bills :
                \/ \E f \in Forms : Confirm(w, b, f)
                \/ \E permanent \in BOOLEAN : DeleteBill(w, b, permanent)
                \/ RestoreBill(w, b)
                \/ \E d \in 1 .. MaxDay : PatchRead(w, b, d)
          \/ CheckCrossed(w) \/ MarkDirty(w) \/ PatchWrite(w)
          \/ \E d \in Deltas : AdjustRow(w, d)
          \/ AdjustApply(w)
          \/ RebuildRoute(w) \/ RebuildRead(w) \/ RebuildWrite(w) \/ RebuildClear(w)
    \/ \E n \in Quantities : CreateSale(n)
    \/ \E i \in DOMAIN sales : RefundSale(i)
    \/ \E n \in Counts : StockCount(n)
    \/ Crash \/ CleanShutdown \/ Boot \/ NextDay

Spec == Init /\ [][Next]_vars

-----------------------------------------------------------------------------
Pools == [qty : Int, value : Int, avg : Int]
Statuses == {"review", "confirmed", "gone"}
BillRow == [status : Statuses, deleted : BOOLEAN, date : 0 .. MaxDay, items : Seq(Line)]
SaleRow == [qty : Quantities, ts : Nat, cost : Int, valid : BOOLEAN]
AdjRow == [delta : Int \ {0}, ts : Nat]
Event == [kind : {"purchase", "adjustment", "sale"}, ts : Nat, id : Nat, line : Nat,
          qty : Int, price : Nat]

\* what a thread still has to do
Tasks == [at : {"idle", "snapshot", "mark", "clear"}]
         \cup [at : {"crossed"}, date : 0 .. MaxDay]
         \cup [at : {"patch"}, bill : Bills, date : 1 .. MaxDay, status : Statuses]
         \cup [at : {"adjust"}, delta : Int \ {0}]
         \cup [at : {"write"}, events : {S \in SUBSET Event : IsFiniteSet(S)}, costs : Seq(Int)]

TypeOK ==
    /\ bills \in [Bills -> BillRow]
    /\ sales \in Seq(SaleRow)
    /\ adjs \in Seq(AdjRow)
    /\ pool \in Pools
    /\ day \in 1 .. MaxDay
    /\ dirty \in BOOLEAN
    /\ app \in {"up", "stopped", "crashed"}
    /\ worker \in [Workers -> Tasks]
    /\ trust \in {"none", "qty", "full"}

Standing == {i \in DOMAIN sales : sales[i].valid}
Sold == SumFunction([i \in Standing |-> sales[i].qty])
SoldAt == SumFunction([i \in Standing |-> sales[i].qty * sales[i].cost])
Adjusted == SumFunction([i \in DOMAIN adjs |-> adjs[i].delta])

(***************************************************************************)
(* The running quantity is what live confirmed bills brought, plus the     *)
(* adjustments, less the standing sales, through re-confirmed, deleted,    *)
(* restored and re-dated bills, refunds, rebuilds, crashes and boots.  It  *)
(* may differ only while an adjustment is half applied and after the three *)
(* causes trust names: a row nobody applies (stock count, crash), a row    *)
(* that a replay had counted before it was applied, a rebuild written from *)
(* rows that had changed since they were read.                             *)
(***************************************************************************)
QtyFollowsLedger ==
    trust # "none" /\ ~HalfApplied => pool.qty = Bought + Adjusted - Sold

(***************************************************************************)
(* Money is neither made nor lost: without adjustments, the value of the   *)
(* pool and the recorded cost of the standing sales add up, to the paisa,  *)
(* to what the live confirmed bills cost.                                  *)
(***************************************************************************)
ValueReconciles ==
    trust = "full" /\ adjs = <<>> => pool.value + SoldAt = BoughtFor

(***************************************************************************)
(* app/main.py: "If the app crashes, the flag stays set -> next boot       *)
(* rebuilds (crash recovery)": a crashed store whose pool misses rows is   *)
(* marked for a rebuild.                                                   *)
(***************************************************************************)
CrashIsRepaired == app = "crashed" /\ trust = "none" => dirty

(***************************************************************************)
(* app/profit_engine.py: a "delete -> restore round trip returns to the    *)
(* exact pre-delete state".  Both steps replay, so the trip ends in the    *)
(* replay of the rows there are: the pool must already be that replay      *)
(* whenever a confirmed bill can be deleted and nothing is under way.      *)
(***************************************************************************)
RoundTripExact ==
    /\ app = "up" /\ trust = "full"
    /\ \A w \in Workers : worker[w] = idle
    /\ \E b \in Bills : Counted(bills, b)
    => pool = Replay(Events(bills))

====

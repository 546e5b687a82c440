---- MODULE Migration ----
(***************************************************************************)
(* The boot of the program over a database of any age (app/db.py, init).   *)
(* Every statement is committed alone and the process may die between any  *)
(* two; each boot starts again at the first statement.  Tables, columns    *)
(* and indexes are names; columns that are only added stand together.      *)
(***************************************************************************)
EXTENDS Integers, Sequences, SequencesExt, FiniteSets

CONSTANTS Defaults,   \* rows of a seeded table (4 prices, 4 ways to pay, 8 kinds of expense)
          MaxBoots,   \* bound: boots
          MaxCash     \* bound: rows of the drawer, and the summary's total

VARIABLES has,      \* tables, columns and indexes the database has
          seeded,   \* default rows per seeded table
          actions,  \* pending_actions: how many wait, and how many of them can expire
          imported, \* sales imported before v8.4 as "POS-": status and lines
          drawer,   \* cash_drawer: number of rows, and cash_summary's total
          at,       \* the statement the boot has reached
          proc,     \* "off", "boot", "serving", "failed"
          boots, cut, dropped

vars == <<has, seeded, actions, imported, drawer, at, proc, boots, cut, dropped>>
data == <<has, seeded, actions, imported, drawer>>

SeedTables == {"price_categories", "payment_methods", "expense_categories"}

-----------------------------------------------------------------------------
(* The statements of init, in its order.                                   *)
S(op, on, what) == [op |-> op, on |-> on, what |-> what]
Create(t) == S("create", "none", t)
Add(t, c) == S("add", t, c)        \* ALTER TABLE when the column is missing
Index(t, c) == S("index", t, c)    \* fails when the column is missing
Tried(t, c) == S("tried", t, c)    \* an index whose failure is swallowed
Seed(t) == S("seed", "none", t)    \* default rows for an empty table, one by one

BillTables == <<Create("suppliers"), Create("bills"), Create("bill_items"),
                Create("price_categories"), Create("activity_log")>>
SaleTables == <<Create("sales"), Create("sale_items"), Create("payment_methods"),
                Create("customers")>>
CashTables == <<Create("expenses"), Create("cash_drawer"), Create("employees"), Create("shifts")>>
DeskTables == <<Create("held_orders"), Create("customer_payments"), Create("purchase_orders"),
                Create("pos_imports")>>
Base == <<Add("bills", "deleted_at"), Add("bill_items", "page_no"), Add("sales", "till columns"),
          Add("customers", "loyalty_redeemed"), Add("employees", "pin_hash"),
          Add("cash_drawer", "shift_id"), Add("sales", "client_uuid")>>
Prices == <<Seed("price_categories"), Add("price_categories", "code"),
            S("codes", "none", "price_categories")>>
PaymentMethods == <<Seed("payment_methods")>>
PosRepairs == <<S("paid", "none", "imported"), S("lines", "none", "imported")>>
MoneyColumns == <<Add("sales", "manually_overridden"), Add("customers", "deleted_at"),
                  Add("price_categories", "sell_wholesale"), Add("suppliers", "deleted_at"),
                  Add("bill_items", "lot_no")>>
StockCounts == <<Create("stock_counts"), Add("sales", "refunded_at"), Add("bills", "version")>>
InvoiceSeq == <<Create("invoice_seq"), Create("stock_count_items")>>
Expenses == <<Create("expense_categories"), Add("expenses", "category_id"),
              Seed("expense_categories")>>
Controls == <<Add("shifts", "variance")>>
MoneyTables == <<Create("supplier_advances"), Create("commissions"), Add("commissions", "reversed")>>
StockTables == <<Create("category_stock_state"), Create("owner_withdrawals"),
                 Create("stock_writeoffs"), Create("login_attempts")>>
Devices == <<Create("pairing_codes"), Add("pairing_codes", "failure_count")>>
PosTables == <<Create("lost_sales"), Add("customers", "group_name"), Add("sale_items", "discount_pct"),
               Add("sale_items", "cost_recalc_at")>>
ReturnLines == <<S("returns", "none", "imported")>>
Agent == <<Create("ai_usage"), Create("pending_actions"), Index("pending_actions", "expires_at"),
           Create("automation_config")>>
Settings == <<Add("activity_log", "actor_employee_id")>>
Expiry == <<Add("pending_actions", "expires_at"), S("expire", "none", "pending_actions"),
            Index("pending_actions", "expires_at")>>
Branch == <<Create("branch_pairing_codes"), Add("branch_pairing_codes", "failure_count")>>
Hub == <<Create("sync_outbox"), Create("transfer_challans"), Create("bill_intelligence")>>
\* Faulty variant: the index of the imports is created before its column.
ImportsIndexFirst == <<Create("ezi_pos_imports"), Index("ezi_pos_imports", "import_run_id"),
                       Add("ezi_pos_imports", "import_run_id")>>
Imports == <<Create("ezi_pos_imports"), Add("ezi_pos_imports", "import_run_id"),
             Index("ezi_pos_imports", "import_run_id"), Add("pos_imports", "sale_count")>>
Indexes == <<Tried("sales", "client_uuid"), Tried("customers", "deleted_at")>>
Summary == <<Create("cash_summary"), S("backfill", "none", "cash_summary"), Create("trigger")>>

Program == BillTables \o SaleTables \o CashTables \o DeskTables
           \o Base \o Prices \o PaymentMethods \o PosRepairs \o MoneyColumns \o StockCounts
           \o InvoiceSeq \o Expenses \o Controls \o MoneyTables \o StockTables \o Devices
           \o PosTables \o ReturnLines \o Agent \o Settings \o Expiry \o Branch \o Hub
           \o Imports \o Indexes \o Summary

-----------------------------------------------------------------------------
(* Databases of earlier versions.  A table that init creates today has all *)
(* its columns, one that an earlier version created may lack some.         *)
Columns(t) == {s.what : s \in {s \in Range(Program) : s.op = "add" /\ s.on = t}}
Created == {s.what : s \in {s \in Range(Program) : s.op = "create"}}
Whole == {<<t, "table">> : t \in Created}
         \cup UNION {{<<t, c>> : c \in Columns(t)} : t \in Created}
Indexed == {<<s.on, s.what, "index">> : s \in {s \in Range(Program) : s.op \in {"index", "tried"}}}

First == {s.what : s \in Range(BillTables \o SaleTables \o CashTables \o DeskTables)}
Ages == [none    |-> {},
         till    |-> {<<t, "table">> : t \in First},
         agent   |-> {x \in Whole : x[1] \in First \cup {"pending_actions", "commissions"}}
                     \ {<<"pending_actions", "expires_at">>, <<"commissions", "reversed">>},
         imports |-> Whole \ {<<"ezi_pos_imports", "import_run_id">>, <<"cash_summary", "table">>,
                              <<"trigger", "table">>, <<"branch_pairing_codes", "failure_count">>},
         now     |-> Whole \cup Indexed]

Init ==
    /\ \E age \in DOMAIN Ages :
          /\ has = Ages[age]
          /\ seeded = [t \in SeedTables |-> IF age = "none" THEN 0 ELSE Defaults]
          /\ actions = IF age = "agent" THEN [wait |-> 1, dated |-> 0] ELSE [wait |-> 0, dated |-> 0]
          /\ imported \in IF age \in {"till", "agent"} THEN [paid : BOOLEAN, lines : BOOLEAN]
                                                      ELSE {[paid |-> TRUE, lines |-> TRUE]}
          /\ drawer \in IF age \in {"none", "now"} THEN {[rows |-> 0, total |-> 0]}
                                                  ELSE {[rows |-> 1, total |-> 0]}
    /\ at = 1 /\ proc = "off" /\ boots = 0 /\ cut = {} /\ dropped = FALSE

Boot == /\ proc \in {"off", "failed"} /\ boots < MaxBoots
        /\ proc' = "boot" /\ at' = 1 /\ boots' = boots + 1
        /\ UNCHANGED <<data, cut, dropped>>

Reached == proc = "boot" /\ at <= Len(Program)
Onward == at' = at + 1 /\ UNCHANGED <<proc, boots, cut, dropped>>
Fits(s) == <<s.on, s.what>> \in has

\* a table comes with all its columns, unless it is already there
CreateTable ==
    /\ Reached /\ Program[at].op = "create"
    /\ LET t == Program[at].what IN
       has' = IF <<t, "table">> \in has THEN has
              ELSE has \cup {<<t, "table">>} \cup {<<t, c>> : c \in Columns(t)}
    /\ Onward /\ UNCHANGED <<seeded, actions, imported, drawer>>

\* actions that waited when their table got the column are dated by the next
\* statement, which runs only then
AddColumn ==
    /\ Reached /\ Program[at].op = "add"
    /\ has' = has \cup {<<Program[at].on, Program[at].what>>}
    /\ IF Program[at].on = "pending_actions" /\ ~Fits(Program[at])
       THEN at' = at /\ proc' = "date" /\ UNCHANGED <<boots, cut, dropped>>
       ELSE Onward
    /\ UNCHANGED <<seeded, actions, imported, drawer>>

DateActions ==
    /\ proc = "date"
    /\ actions' = [actions EXCEPT !.dated = actions.wait]
    /\ proc' = "boot" /\ at' = at + 1
    /\ UNCHANGED <<has, seeded, imported, drawer, boots, cut, dropped>>

CreateIndex ==
    /\ Reached /\ Program[at].op \in {"index", "tried"}
    /\ IF Fits(Program[at])
       THEN /\ has' = has \cup {<<Program[at].on, Program[at].what, "index">>}
            /\ Onward
       ELSE IF Program[at].op = "tried" THEN Onward /\ UNCHANGED has
       ELSE proc' = "failed" /\ UNCHANGED <<has, at, boots, cut, dropped>>
    /\ UNCHANGED <<seeded, actions, imported, drawer>>

\* the number of rows is asked once, before the first row goes in
SeedRow ==
    /\ proc \in {"boot", "seed"} /\ at <= Len(Program) /\ Program[at].op = "seed"
    /\ LET t == Program[at].what
           go == proc = "seed" \/ seeded[t] = 0
           n == IF go THEN seeded[t] + 1 ELSE seeded[t] IN
       /\ seeded' = [seeded EXCEPT ![t] = n]
       /\ proc' = IF go /\ n < Defaults THEN "seed" ELSE "boot"
       /\ at' = IF proc' = "seed" THEN at ELSE at + 1
    /\ UNCHANGED <<has, actions, imported, drawer, boots, cut, dropped>>

\* statements that mend rows of earlier versions, at every boot
Mend ==
    /\ Reached /\ Program[at].op \in {"codes", "paid", "lines", "returns"}
    /\ imported' = CASE Program[at].op = "paid" -> [imported EXCEPT !.paid = TRUE]
                     [] Program[at].op = "lines" -> [imported EXCEPT !.lines = TRUE]
                     [] OTHER -> imported
    /\ Onward /\ UNCHANGED <<has, seeded, actions, drawer>>

\* those that can expire do so when their week is over
Expire ==
    /\ Reached /\ Program[at].op = "expire"
    /\ \E gone \in 0 .. actions.dated :
          actions' = [wait |-> actions.wait - gone, dated |-> actions.dated - gone]
    /\ Onward /\ UNCHANGED <<has, seeded, imported, drawer>>

\* only a total of zero is filled in
Backfill ==
    /\ Reached /\ Program[at].op = "backfill"
    /\ drawer' = IF drawer.total = 0 THEN [drawer EXCEPT !.total = drawer.rows] ELSE drawer
    /\ Onward /\ UNCHANGED <<has, seeded, actions, imported>>

Serve == /\ proc = "boot" /\ at > Len(Program)
         /\ proc' = "serving"
         /\ UNCHANGED <<data, at, boots, cut, dropped>>

\* the trigger follows inserted rows; deleted rows have none
TakeCash == /\ proc = "serving" /\ drawer.rows < MaxCash /\ drawer.total < MaxCash
            /\ drawer' = [rows |-> drawer.rows + 1,
                          total |-> IF <<"trigger", "table">> \in has THEN drawer.total + 1
                                                                      ELSE drawer.total]
            /\ UNCHANGED <<has, seeded, actions, imported, at, proc, boots, cut, dropped>>
DropCash == /\ proc = "serving" /\ drawer.rows > 0
            /\ drawer' = [drawer EXCEPT !.rows = @ - 1] /\ dropped' = TRUE
            /\ UNCHANGED <<has, seeded, actions, imported, at, proc, boots, cut>>

\* a process that dies while it seeds or dates leaves that for good
Die == /\ proc # "off"
       /\ proc' = "off" /\ at' = 1
       /\ cut' = cut \cup CASE proc = "seed" -> {Program[at].what}
                            [] proc = "date" -> {"dates"}
                            [] OTHER -> {}
       /\ UNCHANGED <<data, boots, dropped>>

Next == \/ Boot \/ CreateTable \/ AddColumn \/ DateActions \/ CreateIndex \/ SeedRow
        \/ Mend \/ Expire \/ Backfill \/ Serve \/ TakeCash \/ DropCash \/ Die

Spec == Init /\ [][Next]_vars

-----------------------------------------------------------------------------
TypeOK ==
    /\ seeded \in [SeedTables -> 0 .. Defaults]
    /\ actions.dated \in 0 .. actions.wait
    /\ at \in 1 .. Len(Program) + 1
    /\ proc \in {"off", "boot", "seed", "date", "serving", "failed"}

\* pending_actions as it was before its rows could expire
TooOld == <<"pending_actions", "table">> \in has /\ <<"pending_actions", "expires_at">> \notin has

(***************************************************************************)
(* Whatever version left the database and wherever earlier boots died, a   *)
(* boot fails only over a pending_actions table without expires_at, and    *)
(* what serves has every table, column and index, the imported sales       *)
(* mended, the default rows and the dates of waiting actions complete      *)
(* unless a boot died in the middle of writing just them, and a summary of *)
(* the drawer that is right until a drawer row is deleted.                 *)
(***************************************************************************)
BootLeavesWhole ==
    /\ proc = "failed" => TooOld
    /\ proc = "serving" =>
          /\ Whole \cup Indexed \subseteq has
          /\ imported.paid /\ imported.lines
          /\ \A t \in SeedTables \ cut : seeded[t] = Defaults
          /\ "dates" \notin cut => actions.dated = actions.wait
          /\ ~dropped => drawer.total = drawer.rows

====

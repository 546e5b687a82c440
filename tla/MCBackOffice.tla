---- MODULE MCBackOffice ----
(***************************************************************************)
(* The parts of the back office that share no variable in these models,    *)
(* each on a small instance of its own, checked in one run: the instances  *)
(* of MCExchange, MCOffice and MCDesk, and those below.                    *)
(***************************************************************************)
EXTENDS MCExchange, MCOffice, MCDesk, TLC

CONSTANTS TillLimits, VaultLimits  \* bounds of each part with imports, and with backups

\* Transfers: three pieces of "a" on the shelf and one of "b" without a cost, one cart and
\* none, a purchase with an invalid twin, and one that names a category twice
Item(c, q, p) == [cat |-> c, qty |-> q, cost |-> p]
OnShelf == [a |-> [qty |-> 3, value |-> 10, avg |-> 3], b |-> [qty |-> 1, value |-> 0, avg |-> 0]]
OnBills == [a |-> 3, b |-> 4]
Sent == {<<>>, <<Item("a", 2, 0), Item("b", 1, 0)>>}
Bought == {<<Item("a", 2, 5), Item("b", 1, 4)>>, <<Item("a", 2, 5), Item("b", 1, 0)>>,
           <<Item("a", 1, 5), Item("a", 2, 4)>>}

\* Intake: two jobs on one bill, a provider that reads and one that fails
InTurn == << <<"gemini", "groq">> >>
Shot(pic, file) == [pic |-> pic, file |-> file]
Scans == << <<Shot("p", 1), Shot("q", 1), Shot("r", 2)>>, <<Shot("s", 1)>> >>
OneLine == <<[qty |-> 1, price |-> 500, sure |-> TRUE]>>
Replied == {[tries |-> <<"ok">>, lines |-> OneLine, total |-> 500],
            [tries |-> <<"error", "busy", "busy">>, lines |-> OneLine, total |-> 0]}

\* PosImport: a sale and a return, or a sale, one on account and two diary entries
SoldAtTill == ("s" :> 2) @@ ("r" :> -1) @@ ("c" :> 1)
NotedAtTill == ("e" :> 5) @@ ("f" :> 5)

\* Reports
Baskets == { {[cat |-> "a", qty |-> 2, amount |-> 301, cost |-> 70]},
             {[cat |-> "a", qty |-> 1, amount |-> 200, cost |-> 70],
              [cat |-> "bag", qty |-> 1, amount |-> 100, cost |-> 0]},
             {[cat |-> "none", qty |-> 1, amount |-> 90, cost |-> 0]} }
First == {[cat |-> "a", qty |-> 3, price |-> 70]}
Deliveries == { First, {[cat |-> "a", qty |-> 1, price |-> 90],
                        [cat |-> "bag", qty |-> 2, price |-> 10]} }
SupplierOf == [l \in Deliveries |-> IF l = First THEN "s" ELSE "t"]
Tier == [a |-> 250, bag |-> 20, none |-> 0]

Books == INSTANCE Audit WITH
    Months <- {1, 2}, Categories <- {"a", "bag"}, Bags <- {"bag"}, None <- "none",
    Carts <- Baskets, Discounts <- {0, 25}, Contents <- Deliveries, MaxRows <- 2,
    StandardTiers <- {250, 500}, PdfRows <- 1, OnCredit <- Deliveries \ {First},
    Drawer <- {0, 300}, ReserveShare <- 10, CoverDays <- 15, RefundFloor <- 1, sales <- v1,
    bills <- v2, adjustments <- v3, expenses <- v4, extras <- v5

Live == INSTANCE LiveMath WITH
    Times <- {1, 2}, Prices <- {0, 70, 101}, Quantities <- {-1, 1, 2}, MaxEvents <- 3,
    log <- v1

\* nothing tells one request, or one flush, from another
requestSymmetry == Permutations(Workers) \cup Permutations(Flushers)

\* One deletion, or one request on backups, at a time
OneAtATime == Cardinality({w \in Workers : v8'[w].at /= "idle"}) <= 1

\* A part with imports stays in its bounds: what the till holds, uploads
AtTill == LET l == TillLimits[part] IN
    /\ v1' \subseteq l.things /\ Len(v6') <= l.uploads
    /\ l.alone => OneAtATime

\* a restore takes over, or removes, the safety copy of another
OneSecond == \E w \in Workers :
    /\ v8[w].at = "safety" /\ v8'[w].at /= "safety" /\ Len(v3') = Len(v3)
    /\ v8'[w].at = "overwrite" \/ v3' /= v3

\* A part with backups stays in its bounds: writes, entries, snapshots in the folder,
\* without which no file is restored, and whether two restores may fall in one second
Within == LET l == VaultLimits[part] IN
    /\ v6' <= l.writes /\ Len(v3') <= l.entries /\ Len(v4') <= l.snapshots
    /\ l.snapshots = 0 => \A w \in Workers : v8'[w].at /= "license"
    /\ l.alone => OneAtATime
    /\ OneSecond => l.again

AtTills == [imports |-> [things |-> {"s", "r"}, uploads |-> 2, alone |-> TRUE],
            diary   |-> [things |-> {"s", "c", "e", "f"}, uploads |-> 1, alone |-> FALSE]]
AtVaults == [vault     |-> [writes |-> 2, entries |-> 2, snapshots |-> 0, alone |-> FALSE,
                           again |-> FALSE],
             second    |-> [writes |-> 1, entries |-> 2, snapshots |-> 0, alone |-> FALSE,
                           again |-> TRUE],
             pruning   |-> [writes |-> 1, entries |-> 3, snapshots |-> 0, alone |-> TRUE,
                           again |-> FALSE],
             snapshots |-> [writes |-> 1, entries |-> 1, snapshots |-> 1, alone |-> FALSE,
                           again |-> FALSE]]

Free1 == <<v2, v3, v4, v5, v6, v7, v8, v9, v10, v11, v12>>
Free5 == <<v6, v7, v8, v9, v10, v11, v12>>
Free6 == <<v7, v8, v9, v10, v11, v12>>
Free7 == <<v8, v9, v10, v11, v12>>
Free8 == <<v9, v10, v11, v12>>
Free9 == <<v10, v11, v12>>
Free10 == <<v11, v12>>

Init ==
    \/ part = "transfers" /\ Challans!Init /\ v9 = 0 /\ v10 = 0 /\ v11 = 0 /\ v12 = 0
    \/ part = "outbox" /\ Outbox!Init /\ v12 = 0
    \/ part = "prices" /\ Pushes!Init
       /\ v6 = 0 /\ v7 = 0 /\ v8 = 0 /\ v9 = 0 /\ v10 = 0 /\ v11 = 0 /\ v12 = 0
    \/ part \in {"imports", "diary"} /\ TillImport!Init
    \/ part = "files" /\ FilesIn!Init
       /\ v7 = 0 /\ v8 = 0 /\ v9 = 0 /\ v10 = 0 /\ v11 = 0 /\ v12 = 0
    \/ part = "payroll" /\ Payroll!Init
    \/ part = "cash" /\ CashDesk!Init /\ v11 = 0 /\ v12 = 0
    \/ part = "reports" /\ Books!Init
       /\ v6 = 0 /\ v7 = 0 /\ v8 = 0 /\ v9 = 0 /\ v10 = 0 /\ v11 = 0 /\ v12 = 0
    \/ part = "livemath" /\ Live!Init
       /\ v2 = 0 /\ v3 = 0 /\ v4 = 0 /\ v5 = 0 /\ v6 = 0 /\ v7 = 0 /\ v8 = 0 /\ v9 = 0 /\ v10 = 0
          /\ v11 = 0 /\ v12 = 0
    \/ part = "intake" /\ Upload!Init /\ v8 = 0 /\ v9 = 0 /\ v10 = 0 /\ v11 = 0 /\ v12 = 0
    \/ part = "stream" /\ Stream!Init
       /\ v6 = 0 /\ v7 = 0 /\ v8 = 0 /\ v9 = 0 /\ v10 = 0 /\ v11 = 0 /\ v12 = 0
    \/ part = "boots" /\ Boots!Init /\ v11 = 0 /\ v12 = 0
    \/ part = "desk" /\ Desk!Init
    \/ part = "answers" /\ Answers!Init /\ v10 = 0 /\ v11 = 0 /\ v12 = 0
    \/ part = "proposals" /\ Proposals!Init /\ v10 = 0 /\ v11 = 0 /\ v12 = 0
    \/ part \in {"vault", "second", "pruning", "snapshots"} /\ Backups!Init /\ v11 = 0 /\ v12 = 0

Next ==
    /\ UNCHANGED part
    /\ \/ part = "transfers" /\ Challans!Next /\ UNCHANGED Free8
       \/ part = "outbox" /\ Outbox!Next /\ UNCHANGED v12
       \/ part = "prices" /\ Pushes!Next /\ UNCHANGED Free5
       \/ part \in {"imports", "diary"} /\ TillImport!Next /\ AtTill
       \/ part = "files" /\ FilesIn!Next /\ UNCHANGED Free6
       \/ part = "payroll" /\ Payroll!Next
       \/ part = "cash" /\ CashDesk!Next /\ UNCHANGED Free10
       \/ part = "reports" /\ Books!Next /\ UNCHANGED Free5
       \/ part = "livemath" /\ Live!Next /\ UNCHANGED Free1
       \/ part = "intake" /\ Upload!Next /\ UNCHANGED Free7
       \/ part = "stream" /\ Stream!Next /\ UNCHANGED Free5
       \/ part = "boots" /\ Boots!Next /\ UNCHANGED Free10
       \/ part = "desk" /\ Desk!Next
       \/ part = "answers" /\ Answers!Next /\ UNCHANGED Free9
       \/ part = "proposals" /\ Proposals!Next /\ UNCHANGED Free9
       \/ /\ part \in {"vault", "second", "pruning", "snapshots"}
          /\ Backups!Next /\ Within /\ UNCHANGED Free10

Spec == Init /\ [][Next]_allVars

\* Every part that is awake is of its type.
TypeOK ==
    /\ part = "transfers" => Challans!TypeOK
    /\ part = "outbox" => Outbox!TypeOK
    /\ part = "prices" => Pushes!TypeOK
    /\ part \in {"imports", "diary"} => TillImport!TypeOK
    /\ part = "files" => FilesIn!TypeOK
    /\ part = "payroll" => Payroll!TypeOK
    /\ part = "cash" => CashDesk!TypeOK
    /\ part = "reports" => Books!TypeOK
    /\ part = "livemath" => Live!TypeOK
    /\ part = "intake" => Upload!TypeOK
    /\ part = "stream" => Stream!TypeOK
    /\ part = "boots" => Boots!TypeOK
    /\ part = "desk" => Desk!TypeOK
    /\ part = "answers" => Answers!TypeOK
    /\ part = "proposals" => Proposals!TypeOK
    /\ part \in {"vault", "second", "pruning", "snapshots"} => Backups!TypeOK

\* A piece that leaves the shop is on a challan, at a branch or in the central purchase.
\* See Transfers.
Accounted == part = "transfers" => Challans!Accounted

\* What is left of a central purchase is what its challans did not take. See Transfers.
PurchaseFollowsChallans == part = "transfers" => Challans!PurchaseFollowsChallans

\* A pairing code gives one branch one token. See SyncOutbox.
OneTokenPerCode == part = "outbox" => Outbox!OneTokenPerCode

\* Figures marked sent are the figures head office holds. See SyncOutbox.
SentIsDelivered == part = "outbox" => Outbox!SentIsDelivered

\* A branch ends on the newest price head office pushed. See PricePush.
NewestPriceWins == part = "prices" => Pushes!NewestPriceWins

\* Stock is off by what the live imported sales moved. See PosImport.
StockFollowsImports == part \in {"imports", "diary"} => TillImport!StockFollowsImports

\* The drawer holds what the imported sales and diary entries moved. See PosImport.
DrawerFollowsImports == part \in {"imports", "diary"} => TillImport!DrawerFollowsImports

\* An invoice of a file is imported once, with every line. See FileImport.
ImportedOnceAndWhole == part = "files" => FilesIn!ImportedOnceAndWhole

\* A month's pay is in the expenses and the drawer once. See Salary.
PayrollCountedOnce == part = "payroll" => Payroll!PayrollCountedOnce

\* Every drawer row has its paper and every paper its row. See CashOffice.
BooksReconcile == part = "cash" => CashDesk!BooksReconcile

\* A shift counted honestly balances. See CashOffice.
HonestCountBalances == part = "cash" => CashDesk!HonestCountBalances

\* A month's profit is one figure in every report. See Audit.
ProfitReportsAgree == part = "reports" => Books!ProfitReportsAgree

\* A category's stock is one figure in every report. See Audit.
StockReportsAgree == part = "reports" => Books!StockReportsAgree

\* A month's purchases are one figure in every report. See Audit.
PurchaseReportsAgree == part = "reports" => Books!PurchaseReportsAgree

\* A file says what the screen says. See Audit.
ExportsMatchReports == part = "reports" => Books!ExportsMatchReports

\* Dashboards, summaries and the auditor say what the reports say. See Audit.
InsightsMatchReports == part = "reports" => Books!InsightsMatchReports

\* The replay shown to the owner is the engine's. See LiveMath.
LiveMathMatchesEngine == part = "livemath" => Live!LiveMathMatchesEngine

\* A bill line points at the picture it was read from. See Intake.
ItemsShowTheirPage == part = "intake" => Upload!ItemsShowTheirPage

\* A bill's pieces are in the stock exactly while it is confirmed. See Intake.
StockFollowsBill == part = "intake" => Upload!StockFollowsBill

\* A page waiting on a job is told how it ended. See JobStream.
NoWatcherStranded == part = "stream" => Stream!NoWatcherStranded

\* A boot that serves leaves every table, column, row and total in place. See Migration.
BootLeavesWhole == part = "boots" => Boots!BootLeavesWhole

\* Credit, points, layaways and orders survive overlapping requests. See CustomerDesk.
DeskKeepsBooks == part = "desk" => Desk!DeskKeepsBooks

\* An action of the assistant is carried out once, and only after a yes. See Assistant.
ApprovedOnce ==
    /\ part = "answers" => Answers!ApprovedOnce
    /\ part = "proposals" => Proposals!ApprovedOnce

\* A restore keeps what it replaces, and this machine's license. See Vault.
RestoreLosesNothing ==
    part \in {"vault", "second", "pruning", "snapshots"} => Backups!RestoreLosesNothing

====

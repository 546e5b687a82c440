---- MODULE MCExchange ----
(***************************************************************************)
(* Small instances of the parts that exchange goods, figures, prices,      *)
(* files and pictures with somebody outside the shop.                      *)
(***************************************************************************)
EXTENDS MCParts

CONSTANTS Missing, MaxPushes,         \* PricePush
          Branches, Flushers, Days, BatchSize, MaxCodes, MaxVersions,  \* SyncOutbox
          QueueCap, StreamEvents,     \* JobStream
          FileInvoices, MaxFiles,     \* FileImport
          TillSales, TillCredit, TillDiary, MaxImports, \* PosImport
          Goods, Shelf, Outgoing, Incoming, BilledAt, MaxChallans, MaxTries,  \* Transfers
          ProviderNames, Pictures, Groups, Batches, Replies   \* Intake

ASSUME ExchangeAssumption ==
    /\ MaxPushes \in Nat
    /\ QueueCap \in Nat \ {0}
    /\ BatchSize \in Nat
    /\ IsFiniteSet(DOMAIN TillSales) /\ TillSales \in [DOMAIN TillSales -> Int]

\* what a provider makes of a picture
Reply == [tries : Seq({"ok", "busy", "error"}) \ {<<>>},
          lines : Seq([qty : Int, price : Int, sure : BOOLEAN]), total : Int]

ASSUME IntakeAssumption ==
    /\ Groups \in Seq(Seq(ProviderNames) \ {<<>>})
    /\ \A j \in DOMAIN Batches : Batches[j] \in Seq([pic : Pictures, file : Nat])
    /\ Replies \subseteq Reply

Outbox == INSTANCE SyncOutbox WITH
    Requests <- Workers, Queuers <- Workers, codes <- v1, registry <- v2, held <- v3,
    issued <- v4, register <- v5, summaries <- v6, outbox <- v7, figures <- v8,
    flush <- v9, blurred <- v10, queue <- v11

Pushes == INSTANCE PricePush WITH
    pushed <- v1, recorded <- v2, price <- v3, apply <- v4, blurred <- v5

FilesIn == INSTANCE FileImport WITH
    Invoices <- FileInvoices, sales <- v1, customers <- v2, worker <- v3,
    files <- v4, raced <- v5, torn <- v6

TillImport == INSTANCE PosImport WITH
    Invoices <- TillSales, Unpaid <- TillCredit, Diary <- TillDiary, Deleters <- Workers,
    MaxRuns <- MaxImports, till <- v1, sale <- v2, stock <- v3, cash <- v4, expense <- v5,
    runs <- v6, importer <- v7, deleter <- v8, dryrun <- v9, drift <- v10, leak <- v11,
    vanished <- v12

Challans == INSTANCE Transfers WITH
    Categories <- Goods, Stock <- Shelf, Carts <- Outgoing, Purchases <- Incoming,
    BillCost <- BilledAt,
    pool <- v1, challans <- v2, purchase <- v3, worker <- v4, tries <- v5, books <- v6,
    blurred <- v7, marks <- v8

ASSUME TransfersAssumption ==
    /\ Shelf \in [Goods -> [qty : Int, value : Int, avg : Int]]
    /\ Outgoing \subseteq Seq(Challans!Line)
    /\ Incoming \subseteq {lines \in Seq(Challans!Line) : lines /= <<>>}
    /\ BilledAt \in [Goods -> Int]

Upload == INSTANCE Intake WITH
    bill <- v1, job <- v2, form <- v3, stock <- v4, realign <- v5, astray <- v6,
    crowded <- v7

Stream == INSTANCE JobStream WITH
    MaxEvents <- StreamEvents, status <- v1, emitted <- v2, watcher <- v3, seen <- v4,
    queue <- v5

====

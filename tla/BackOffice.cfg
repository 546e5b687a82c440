SPECIFICATION Spec
CONSTANTS
    Workers = {w1, w2}
    Missing = {2}
    MaxPushes = 3
    Branches = {"east"}
    Flushers = {f1, f2}
    Days = {1}
    BatchSize = 2
    MaxCodes = 1
    MaxVersions = 2
    QueueCap = 2
    StreamEvents = 5
    FileInvoices = {"a", "b"}
    MaxFiles = 2
    TillSales <- SoldAtTill
    TillCredit = {"c"}
    TillDiary <- NotedAtTill
    MaxImports = 2
    Goods = {"a", "b"}
    Shelf <- OnShelf
    Outgoing <- Sent
    Incoming <- Bought
    BilledAt <- OnBills
    MaxChallans = 2
    MaxTries = 3
    ProviderNames = {"gemini", "groq"}
    Pictures = {"p", "q", "r", "s"}
    Groups <- InTurn
    Batches <- Scans
    Replies <- Replied
    Employees = {"ali"}
    Salaries = {30, 60}
    OffDays = {3, 5}
    AdvancePay = 10
    MaxAdvances = 2
    MaxRequests = 3
    CashAmount = 1
    TillFloat = 1
    MaxCashRows = 3
    MaxCashShifts = 2
    CashMoves = {"sale", "return", "expense"}
    AskedKinds = {"price", "expense"}
    AskedValues = {5, 7}
    MaxAsked = 1
    KeptBackups = 1
    MaxWrites = 2
    MaxEntries = 3
    MaxInner = 1
    SeedRows = 2
    MaxBootRuns = 3
    MaxBootCash = 2
    Callers = {"p"}
    PaymentKeys = {"k"}
    LayawayDue = 2
    MaxCustomers = 2
    MaxDeskSales = 2
    MaxParked = 2
    MaxDeskMoves = 4
    TillLimits <- AtTills
    VaultLimits <- AtVaults
INVARIANTS
    TypeOK
    Accounted
    PurchaseFollowsChallans
    OneTokenPerCode
    SentIsDelivered
    NewestPriceWins
    StockFollowsImports
    DrawerFollowsImports
    ImportedOnceAndWhole
    PayrollCountedOnce
    BooksReconcile
    HonestCountBalances
    ProfitReportsAgree
    StockReportsAgree
    PurchaseReportsAgree
    ExportsMatchReports
    InsightsMatchReports
    LiveMathMatchesEngine
    ItemsShowTheirPage
    StockFollowsBill
    NoWatcherStranded
    BootLeavesWhole
    DeskKeepsBooks
    ApprovedOnce
    RestoreLosesNothing
SYMMETRY requestSymmetry
CHECK_DEADLOCK FALSE

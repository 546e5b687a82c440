SPECIFICATION Spec
CONSTANTS
    Invoices <- mcInvoices
    Unpaid = {}
    Diary <- mcDiary
    Deleters = {1}
    MaxRuns = 2
INVARIANT
    SyncReversesOnlyDeleted
CHECK_DEADLOCK FALSE

SPECIFICATION Spec
CONSTANTS
    Workers = {1}
    Kept = 2
    MaxWrites = 1
    MaxEntries = 3
    MaxInner = 1
INVARIANT LatestBackupKept
CHECK_DEADLOCK FALSE

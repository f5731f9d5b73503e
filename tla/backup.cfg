SPECIFICATION Spec
CONSTANTS
    Scans = {s}
    Images = {u}
    Tokens = {t1, t2}
    MaxChanges = 2
    MaxExports = 1
    MaxRestores = 1
    MaxTroubles = 1
INVARIANTS TypeOK ServedWhole BackupComplete
PROPERTIES ServerReturns
CHECK_DEADLOCK FALSE

SPECIFICATION Safe
CONSTANTS
    Scans = {s}
    Images = {u}
    Tokens = {t1}
    MaxChanges = 1
    MaxExports = 1
    MaxRestores = 1
    MaxTroubles = 1
PROPERTIES FailedRestoreKeepsRows
CHECK_DEADLOCK FALSE

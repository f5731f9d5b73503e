SPECIFICATION LiveSpec
CONSTANTS
    Components = {vulnerability_db, java_db}
    Scans = {s1}
    Maint = maintenance
    MaxJobs = 3
    MaxHalts = 1
    MaxErrors = 1
INVARIANT TypeOK
INVARIANT OneActiveJob
INVARIANT NothingForgotten
INVARIANT DownloadAlone
PROPERTY TerminalIsFinal
PROPERTY ProgressNeverFalls
PROPERTY JobsSettle
CHECK_DEADLOCK FALSE

SPECIFICATION FairSpec
CONSTANTS
    DialCap = 2
    DialTime = {1, 2}
    Window = 1
    MaxBytes = 2
    MaxConn = 4
INVARIANTS TypeOK NothingTakenIsLost BooksFollowBytes DialStatsAreLatest
PROPERTIES RelayEnds
CHECK_DEADLOCK FALSE

SPECIFICATION FairSpec
CONSTANTS
    MaxThreads = 2
    MaxReports = 1
    PauseLimit = 0
PROPERTY OnlyItsOwnEnd
CHECK_DEADLOCK FALSE

SPECIFICATION FairSpec
CONSTANTS
    MaxThreads = 2
    MaxReports = 1
    PauseLimit = 0
PROPERTY ParkedIsReaped
CHECK_DEADLOCK FALSE

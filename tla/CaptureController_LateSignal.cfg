SPECIFICATION FairSpec
CONSTANTS
    MaxThreads = 2
    MaxReports = 1
    PauseLimit = 0
INVARIANT ActiveMeansRunning
CHECK_DEADLOCK FALSE

SPECIFICATION FairSpec
CONSTANTS
    MaxThreads = 2
    MaxReports = 1
    PauseLimit = 0
INVARIANTS
    NoRunningThreadDropped
    PumpOutlivesThread
    SessionAnnouncedComplete
PROPERTIES
    StopReachesTheCapture
    ParkedEndIsReaped
\* The window may be closed, and nothing happens after that.
CHECK_DEADLOCK FALSE

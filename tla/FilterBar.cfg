SPECIFICATION Spec
CONSTANTS
    Levels <- MCLevels
    Processes <- MCProcesses
    Searches <- MCSearches
    Names <- MCNames
    Messages <- MCMessages
    RecentKept = 2
    OldRecent <- MCOldRecent
    OldSaved <- MCOldSaved
    MaxEdits = 4
INVARIANTS BarIsTrue StoredIsHeld WashIsExact
CHECK_DEADLOCK FALSE

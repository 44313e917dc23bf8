SPECIFICATION Spec
CONSTANTS
    MaxTemplates = 2
    ExcerptBefore = 1
    ExcerptAfter = 1
    WindowBefore = 1
    WindowAfter = 1
    MaxWindows = 2
    MaxWindowRecords = 4
    Captures <- MCCaptures
    Live <- MCLive
    Formats = {"agent-bundle", "jsonl", "markdown", "trace", "ai-report"}
    Forms = {TRUE, FALSE}
    Destinations = {"beside", "session", "spool"}
    Budgets = {NoLimit, 9}
    NoLimit = NoLimit
    HeadSize = 1
    Reserve = 2
    ProcessRows = 1
    GapRows = 1
    PatternRows = 1
    MaxExports = 1
PROPERTY CaptureIsKept
CHECK_DEADLOCK FALSE

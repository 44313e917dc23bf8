SPECIFICATION Spec
CONSTANTS
    BucketRows = 2
    Height = 7
    Capture <- MCCapture
    Wanted <- MCFilters
    Jumps <- MCJumps
    RowCap = 2
    TrimAt = 2
    Page = 2
    MaxBatch = 2
    MaxActs = 3
INVARIANTS WindowReadsTrue
PROPERTIES SelectionHolds PlaceIsTheReaders TailIsReached
CHECK_DEADLOCK FALSE

SPECIFICATION Spec
CONSTANTS
    RowCap = 2
    TrimAt = 3
    BucketRows = 2
    Texts = {"plain", "error"}
    Errors = {"error"}
    Filters = {{"plain", "error"}, {"error"}}
    Highlights = {{}, {"plain", "even"}}
    NoFilter = {"plain", "error"}
    MaxItems = 5
    MaxBatch = 2
    MaxMarks = 1
    MaxLoads = 1
INVARIANT HeadSaysEvicted
CHECK_DEADLOCK FALSE

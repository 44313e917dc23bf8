SPECIFICATION Spec
CONSTANTS
    Window = 2
    Backlog = 2
    MaxRetries = 1
    ReconnectEnabled = TRUE
    StopPoints <- StopOutsideHandshake
    Devices <- MovingOnly
    MaxRecords = 4
    MaxConnections = 4
INVARIANTS
    NothingTwice

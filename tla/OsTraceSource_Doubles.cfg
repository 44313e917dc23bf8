SPECIFICATION Spec
CONSTANTS
    Window = 2
    Backlog = 2
    MaxRetries = 1
    ReconnectEnabled = TRUE
    StopPoints <- StopOutsideHandshake
    Devices <- DoublesOnly
    MaxRecords = 4
    MaxConnections = 4
INVARIANTS
    NothingNewSuppressed

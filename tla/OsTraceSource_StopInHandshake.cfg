SPECIFICATION FairSpec
CONSTANTS
    Window = 2
    Backlog = 2
    MaxRetries = 1
    ReconnectEnabled = TRUE
    StopPoints <- StopInHandshake
    Devices <- AnyDevice
    MaxRecords = 4
    MaxConnections = 4
INVARIANTS
    ReleasedHoldsNothing

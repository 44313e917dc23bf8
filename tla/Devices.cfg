SPECIFICATION Spec
CONSTANTS
    Order <- MCOrder
    Network = {"wifi"}
    Nobody = Nobody
    AtStart = {{"wifi", "cable"}}
    MaxPlugs = 1
    MaxScans = 2
    MaxCaptures = 1
    MaxChecks = 1
    MaxDrops = 1
INVARIANTS ChosenIsLeftAlone BusyIsReleased
PROPERTIES ScanSettles
CHECK_DEADLOCK FALSE

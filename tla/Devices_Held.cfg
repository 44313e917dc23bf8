SPECIFICATION Spec
CONSTANTS
    Order <- MCOrder
    Network = {"wifi"}
    Nobody = Nobody
    AtStart = {{"wifi", "cable"}}
    MaxPlugs = 1
    MaxScans = 2
    MaxCaptures = 1
    MaxChecks = 0
    MaxDrops = 1
INVARIANT HeldIsLeftAlone
CHECK_DEADLOCK FALSE

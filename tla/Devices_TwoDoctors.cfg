SPECIFICATION Spec
CONSTANTS
    Order <- MCOrder
    Network = {"wifi"}
    Nobody = Nobody
    AtStart = {{"wifi", "cable"}}
    MaxPlugs = 1
    MaxScans = 2
    MaxCaptures = 1
    MaxChecks = 2
    MaxDrops = 1
INVARIANT OneDiagnosis
CHECK_DEADLOCK FALSE

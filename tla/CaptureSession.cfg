SPECIFICATION FairSpec
CONSTANTS
    FlushEvery = 3
    MaxRecords = 3
    Duration = TRUE
    Times <- StreamTimes
    MaxItems = 3
    MaxCaptures = 2
INVARIANTS
    ReadsAPrefix
    GapsAreDurable
    LossIsBounded
    EndedMeansComplete
    StoppedMeansStored
    DeviceReleased
PROPERTIES
    DurationEnds

SPECIFICATION FairSpec
CONSTANTS
    MaxEvents = 3
    MaxStarts = 3
INVARIANT StoppedInLowPower
INVARIANT AccessedOnlyInD0
INVARIANT EnginesHaveRings
PROPERTY LastQueueStartsChip
PROPERTY TeardownEnds
CHECK_DEADLOCK FALSE

SPECIFICATION FairSpec
CONSTANTS
    Versions <- EveryVersion
    Raced = {256, 712, 1345, 1545, 1610}
INVARIANT ReadyWhenRunning
INVARIANT ConfigGuarded
INVARIANT ProgrammedWhenUp
INVARIANT QuietAsleep
PROPERTY ResetReturns
CHECK_DEADLOCK FALSE

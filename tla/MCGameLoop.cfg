SPECIFICATION FairSpec
CONSTANTS
    FixedDelta = 5
    DtScales = {0, 1, 2, 4, 8, 16}
    FrameCost = 2
    StepCost = 1
    MaxIssued = 3
INVARIANTS
    ExactlyOnceInOrder
    NoSpiralOfDeath
PROPERTIES
    PausedRunsNothing
    CommandsRun

SPECIFICATION FairSpec
CONSTANTS
    Ids = {1, 2, 3, 4}
    MaxEntities = 4
    IndexRange = 8
INVARIANTS
    DrawsLongestSurvivingPrefix
PROPERTIES
    LoopEnds

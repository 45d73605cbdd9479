SPECIFICATION Spec
CONSTANTS
    EnemyTypes = {"grunt"}
    MaxHealth <- TargetingMaxHealth
    GoldReward <- TargetingGoldReward
    TowerTypes = {"gun"}
    Cost <- TargetingCost
    ShotInterval <- TargetingShotInterval
    Damage <- TargetingDamage
    Splashing = {}
    LastWaypoint = 2
    BuildableTiles = {"t1"}
    GoldAmounts = {}
    StartingGold = 3
    UnsetGold <- Uninitialised
    FixedDelta = 2
    MaxObjectId = 5
    MaxCommands = 1
    MaxIncome = 0
INVARIANTS
    WaypointInBounds
    
    TargetsNeverConfused
    SurvivorsDrawn
    LaunchHidesProjectiles
PROPERTIES
    DirectHitsStrikeTarget

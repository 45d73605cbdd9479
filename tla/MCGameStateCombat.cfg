SPECIFICATION FairSpec
CONSTANTS
    EnemyTypes = {"grunt"}
    MaxHealth <- CombatMaxHealth
    GoldReward <- CombatGoldReward
    TowerTypes = {"mortar"}
    Cost <- CombatCost
    ShotInterval <- CombatShotInterval
    Damage <- CombatDamage
    Splashing = {"mortar"}
    LastWaypoint = 1
    BuildableTiles = {"t1"}
    GoldAmounts = {}
    StartingGold = 3
    UnsetGold <- Uninitialised
    FixedDelta = 3
    MaxObjectId = 6
    MaxCommands = 1
    MaxIncome = 0
INVARIANTS
    TypeOK
    DeadIffPaid
    NobodyVanishes
    EventsTellTheStep
PROPERTIES
    StepTerminates

SPECIFICATION Spec
CONSTANTS
    EnemyTypes = {"tank"}
    MaxHealth <- EconomyMaxHealth
    GoldReward <- EconomyGoldReward
    TowerTypes = {"gun", "mortar"}
    Cost <- EconomyCost
    ShotInterval <- EconomyShotInterval
    Damage <- EconomyDamage
    Splashing = {"mortar"}
    LastWaypoint = 1
    BuildableTiles = {"t1"}
    GoldAmounts = {2}
    StartingGold = 3
    UnsetGold <- Uninitialised
    FixedDelta = 2
    MaxObjectId = 4
    MaxCommands = 2
    MaxIncome = 2
INVARIANTS
    TowersKept
    GoldLedger
PROPERTIES
    ImplementsBattlefield

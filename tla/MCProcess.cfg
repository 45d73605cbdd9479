SPECIFICATION Spec
CONSTANTS
    Maps <- MCMaps
    TileSize = 3
INVARIANTS
    OwnersOutliveUsers
    CompleteWhenRunning
    OnlyUiLeftBehind
    TilesAsAuthored
    LayersAsAuthored
    PathAsDrawn
    OwnProjectile

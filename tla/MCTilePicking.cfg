SPECIFICATION Spec
CONSTANTS
    Width = 3
    Height = 2
    BuildingAllowed <- MCBuildingAllowed
    WindowX = 7
    WindowY = 4
    PixelsPerUnit <- MCPixelsPerUnit
    InitialScale = 1
    CoordRange = 65536
    Grain = 2
    MaxWheel = 2
    MaxMove = 2
    MaxPosition = 4
    Overshoot = 2
INVARIANTS
    OrdersUnderCursor
    NoDeadSpots

SPECIFICATION RaySpec
CONSTANTS
    Width = 1
    Height = 1
    BuildingAllowed <- MCBuildingAllowed
    WindowX = 3
    WindowY = 2
    PixelsPerUnit <- MCPixelsPerUnit
    InitialScale = 0
    CoordRange = 65536
    Grain = 2
    MaxWheel = 1
    MaxMove = 1
    MaxPosition = 1
    Overshoot = 1
INVARIANTS
    RayFromCursor

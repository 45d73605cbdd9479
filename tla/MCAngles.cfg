SPECIFICATION Spec
CONSTANTS
    Radius = 5
    Frames = 6
PROPERTIES
    TurnsSteadily

SPECIFICATION Spec
CONSTANTS
    Radius = 5
    Frames = 4
INVARIANTS
    NeverTurnsAway

SPECIFICATION FairSpec
CONSTANTS
    Keys = {"lalt", "p", "f13"}
    Buttons = {"left", "x1"}
    KeyCodes = {"alt", "p", "lmb"}
    Mapped <- SmallMapped
    Alt = "alt"
    P = "p"
    LeftMouse = "lmb"
    MaxArrivals = 4
INVARIANTS
    NoStickyKeys
    ClickBuildsOnce
PROPERTIES
    QuitHonoured
    ClicksReachGame

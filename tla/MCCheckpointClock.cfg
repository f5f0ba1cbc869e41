SPECIFICATION Spec
CONSTANTS
    None = None
    Procs = {c1}
    Sessions = {x1}
    MaxBoots = 2
    MaxTime = 3
    ClockMayGoBack = TRUE

PROPERTY PlacementSticks
CHECK_DEADLOCK FALSE

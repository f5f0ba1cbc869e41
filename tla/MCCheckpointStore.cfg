SPECIFICATION Spec
CONSTANTS
    None = None
    Procs = {c1, c2}
    Sessions = {x1}
    MaxBoots = 3
    MaxTime = 4
    ClockMayGoBack = FALSE
INVARIANTS NeverTorn AckedSurvives
PROPERTIES PruneKeepsSelection PlacementSticks
SYMMETRY Processes
CHECK_DEADLOCK FALSE

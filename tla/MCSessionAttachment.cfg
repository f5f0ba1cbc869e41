SPECIFICATION Spec
CONSTANTS
    None = None
    Bodies <- MCBodies
    MaxFrames = 2
    MaxMishaps = 1
    ReadSizes <- MCReadSizes
    MaxQueue = 1
    MaxMarker = 7
INVARIANTS EvidenceIsTrue OutcomeArrives MarkersSplitAnywhere
PROPERTY ChildBehaves
CHECK_DEADLOCK FALSE

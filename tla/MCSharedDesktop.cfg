SPECIFICATION FairSpec
CONSTANTS
    None = None
    Elsewhere = Elsewhere
    s1 = s1
    s2 = s2
    w1 = w1
    w2 = w2
    left1 = left1
    right1 = right1
    p1 = p1
    Sessions = {s1, s2}
    Profile = p1
    Snapshots <- MCSnapshots
    Shapes <- MCShapes
    Pins <- MCPins
    ByHand = {s1, Elsewhere, None}
    UserSteps = 2
    MaxPerPoll = 2
    MaxTotal = 2
    Evenings <- MCEvenings
CONSTRAINT Restraint
INVARIANTS OneProjectionEach LaunchesBounded PinWholeAndHeld
PROPERTIES EffectsUnderLock OnlyOwnWindowsMoved QuitEnds
CHECK_DEADLOCK FALSE

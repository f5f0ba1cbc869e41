SPECIFICATION Spec
CONSTANTS
    p1 = p1
    p2 = p2
    p3 = p3
    Clients = {p1, p2, p3}
    Tokens = {p1, p2, p3}
    Sessions = {p1, p2, p3}
    Mortal = {p2}
    Attempts = {a1}
    Times = {1, 2}
    Identities <- MCIdentities
    None = None
    FailureCap = 0
    Lease = 1
    ProbeFloor = 1
    ProbePeriod = 1
CONSTRAINTS ThirdOrMortal StampedEarly
INVARIANTS EndedOnlyIfGone UnknownMemberIsProbed PendingBound Bookkeeping AdmitFollowsLoop
PROPERTY ExpiredStaysExpired
CHECK_DEADLOCK FALSE

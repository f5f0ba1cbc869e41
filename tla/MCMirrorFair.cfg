SPECIFICATION FairSpec
CONSTANTS
    Clients = {p1}
    Sessions = {p1}
    SessionOf <- Own
    Mortal = {p1}
    None = None
    Slots = 2
    MaxAttempts = 1
    Times = {1, 2}
    FailureCap = 0
    Lease = 1
    ProbeFloor = 1
    ProbePeriod = 1
    MaxStarts = 1
CONSTRAINT EndTold
INVARIANT EndIsTrue
PROPERTY ReservationEnds
CHECK_DEADLOCK FALSE

SPECIFICATION Spec
CONSTANTS
    Clients = {p1}
    Sessions = {p1}
    SessionOf <- Own
    Mortal = {}
    None = None
    Slots = 2
    MaxAttempts = 2
    Times = {1, 2}
    FailureCap = 0
    Lease = 1
    ProbeFloor = 1
    ProbePeriod = 1
    MaxStarts = 2
INVARIANTS ChildAccounted Releasable ReadyNotRevoked
PROPERTY ReservedUntilReaped
CHECK_DEADLOCK FALSE

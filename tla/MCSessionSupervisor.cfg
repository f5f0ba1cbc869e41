SPECIFICATION PeerSpec
CONSTANTS
    None = None
    MaxAttempts = 3
    MaxQueue = 1
    MaxOpens = 1
INVARIANTS InputOnlyToProved SlotCoversChild PasteReachesOrigin AttemptsAsked
PROPERTIES ImplementsProtocol EnterReconnects
CHECK_DEADLOCK FALSE

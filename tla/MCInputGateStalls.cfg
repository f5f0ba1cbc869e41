SPECIFICATION Spec
CONSTANTS
    MaxTyped = 4
    MaxOpens = 2
    MaxQueue = 1
    Stalls = TRUE
INVARIANT PasteStaysHome
CHECK_DEADLOCK FALSE

SPECIFICATION Spec
CONSTANTS
    MaxTyped = 4
    MaxOpens = 2
    MaxQueue = 1
    Stalls = FALSE
INVARIANTS EveryKeyOnce PasteNeverTyped
CHECK_DEADLOCK FALSE

SPECIFICATION Spec
CONSTANTS
    Last = 4
    MaxSessions = 2
    MaxCrashes = 1
    MaxFaults = 0
    Faults = {}
    UndoIsArgv = TRUE
INVARIANTS OutstandingIsComplete
CHECK_DEADLOCK FALSE

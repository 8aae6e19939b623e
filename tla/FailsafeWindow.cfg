SPECIFICATION Spec
CONSTANTS
    Last = 4
    MaxSessions = 2
    MaxCrashes = 1
    MaxFaults = 0
    Faults = {}
    UndoIsArgv = FALSE
INVARIANTS CrashLeavesNothing
CHECK_DEADLOCK FALSE

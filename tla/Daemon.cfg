SPECIFICATION DaemonSpec
CONSTANTS
    Last = 4
    MaxSessions = 2
    MaxCrashes = 2
    MaxFaults = 2
    Faults = {"apply", "undo", "persist"}
    UndoIsArgv = FALSE
INVARIANTS TypeOK HostIsCovered StartIsHonest Restored OverlayIsPrefix
  OnlineIsCovered NothingLeaks
PROPERTIES CrashIsRepaired KeepsTrying RequestsAreHeard
CHECK_DEADLOCK FALSE

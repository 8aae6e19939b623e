SPECIFICATION FairSpec
CONSTANTS
    Cap = 4
    Timeout = 1
    Writes = 1
    Writers = {"ini"}
    KeepAlives = {"ini"}
    Padders = {"ini"}
    Daemons = {"ini"}
    Closers = {"ini"}
    MayVanish = {"rsp"}
    Prompt = TRUE
INVARIANTS TypeOK NoFalseAlarm
PROPERTY VanishedIsNoticed
PROPERTY ConnectReturns
CHECK_DEADLOCK FALSE

SPECIFICATION FairSpec
CONSTANTS
    Cap = 1
    Timeout = 1
    Writes = 1
    Writers = {"ini"}
    KeepAlives = {"ini"}
    Padders = {}
    Daemons = {}
    Closers = {}
    MayVanish = {"rsp"}
    Prompt = FALSE
PROPERTY VanishedIsNoticed
CHECK_DEADLOCK FALSE

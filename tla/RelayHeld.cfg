\* A flow that does not begin with a request head and is shorter than maxHeadHold.
SPECIFICATION FairSpec
CONSTANTS
    f1 = f1
    Flows = {f1}
    Units <- OneUnit
    Window = 1
    MaxDials = 1
    MaxStreams = 1
    Sanitize = TRUE
    Http = {}
    HeadLen = 1
    MaxHold = 2
    FlowsAtDeath = 0
PROPERTY NothingHeldForever
CHECK_DEADLOCK FALSE

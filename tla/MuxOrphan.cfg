SPECIFICATION Spec
CONSTANTS
    MaxStreams = 1
    InitialWindow = 2
    MaxFrame = 2
    AcceptDepth = 1
    Targets <- Good
    Openers <- IniOnly
    WriteLimit <- WriteOneEach
    StreamClosers <- Both
    SessionClosers <- RspOnly
    KeepAlives <- Nobody
    LateWrites = FALSE
    LinkMayFail = FALSE
INVARIANTS CloseWakesAllStreams
CHECK_DEADLOCK FALSE

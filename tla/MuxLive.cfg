\* A session that dies at either end, closed by the application at one and by
\* keepAliveLoop at the other, or whose connection breaks, while a stream is
\* opened, used and closed, and may be written to after its Close.
SPECIFICATION FairSpec
CONSTANTS
    MaxStreams = 1
    InitialWindow = 1
    MaxFrame = 2
    AcceptDepth = 1
    Targets <- Good
    Openers <- IniOnly
    WriteLimit <- WriteIni
    StreamClosers <- IniOnly
    SessionClosers <- IniOnly
    KeepAlives <- RspOnly
    LateWrites = TRUE
    LinkMayFail = TRUE
INVARIANTS OpenedIsWoken AcceptedIsWoken
PROPERTIES HalfCloseIsSeen CreditComesBack DeathReachesReaders
CHECK_DEADLOCK FALSE

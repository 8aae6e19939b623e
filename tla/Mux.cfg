\* Two streams opened one after the other, each of which may be rejected: the
\* first carries data both ways.
SPECIFICATION Spec
CONSTANTS
    MaxStreams = 2
    InitialWindow = 2
    MaxFrame = 2
    AcceptDepth = 1
    Targets <- AnyOne
    Openers <- IniOnly
    WriteLimit <- WriteThreeOne
    StreamClosers <- Both
    SessionClosers <- Nobody
    KeepAlives <- Nobody
    LateWrites = FALSE
    LinkMayFail = FALSE
INVARIANTS
    TypeOK NoOverrun NoUnitLost EofIsComplete FinishedIsRetired
    RegisteredIsReachable
PROPERTIES FlowImplemented
CHECK_DEADLOCK FALSE

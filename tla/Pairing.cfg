\* Two machines pair, restart, crash and are wiped; their sessions exchange
\* frames cut into records.
SPECIFICATION Spec
CONSTANTS
    None = None
    Torn = Torn
    Keys = {k1, k2, k3}
    Frames <- FewFrames
    MaxFrame <- SameLimit
    MaxRecord = 2
    Joined = {"rsp"}
    MaxStarts = 2
    MaxCrashes = 1
    MaxWipes = 1
INVARIANTS TypeOK FramesInOrder NothingRefused PairingHolds
PROPERTIES HandshakeEnds RefusalIsSeen FramesArrive
CHECK_DEADLOCK FALSE

\* A UDP port and a TCP connection ask for names again and again, servers
\* fail or stay silent, the engine stops.
SPECIFICATION Spec
CONSTANTS
    Ports = {p1, c1}
    Tcp = {c1}
    Servers <- NameThenAddress
    MaxAsks = 3
INVARIANT OneServerIsEnough
PROPERTY QueryIsServed
CHECK_DEADLOCK FALSE

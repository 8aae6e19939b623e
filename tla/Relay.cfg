\* A flow with a request head in two pieces and an answer of two, whose hops
\* fill up, whose application and server close, fail or stop reading, under a
\* session that ends and an engine that stops.
SPECIFICATION FairSpec
CONSTANTS
    f1 = f1
    Flows = {f1}
    Units <- TwoUnits
    Window = 1
    MaxDials = 1
    MaxStreams = 1
    Sanitize = TRUE
    Http = {f1}
    HeadLen = 2
    MaxHold = 2
    FlowsAtDeath = 1
INVARIANTS TypeOK SlotsMatch EofIsComplete
  
CHECK_DEADLOCK FALSE

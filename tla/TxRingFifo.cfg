SPECIFICATION Spec
CONSTANTS
    MaxNumBufs = 3
    Lens = {0, 2}
    Data = {d1, d2}
    Torn = torn
    Policies <- MCPolicies
    Mtp2Flags = {TRUE, FALSE}
    FramerFlags = {TRUE, FALSE}
    Ops <- RingOps
INVARIANTS
    TypeOK
    RingSound
PROPERTY
    ImplementsFrameQueue

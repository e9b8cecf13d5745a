SPECIFICATION FairSpec
CONSTANTS
    MaxNumBufs = 4
    Lens = {2}
    Data = {d1}
    Torn = torn
    Policies <- MCPolicies
    Mtp2Flags = {TRUE, FALSE}
    FramerFlags = {TRUE, FALSE}
    Ops <- ServiceOps
PROPERTIES
    FramesGather
    SleepersWoken

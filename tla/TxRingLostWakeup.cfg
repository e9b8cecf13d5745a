SPECIFICATION FairSpec
CONSTANTS
    MaxNumBufs = 2
    Lens = {1}
    Data = {d1}
    Torn = torn
    Policies <- MCImmediate
    Mtp2Flags = {FALSE}
    FramerFlags = {FALSE}
    Ops <- NoOps
PROPERTY
    BlockedWriterReturns
CHECK_DEADLOCK FALSE

SPECIFICATION FairSpec
CONSTANTS
    MaxNumBufs = 3
    BlockSize = 2
    Data = {z, d}
    Zero = z
    MaxFrame = 3
    Modes = {"audio", "fcs", "mtp2", "hard"}
    Sizes <- MCSizes
    Ops <- MCOps
INVARIANTS
    TypeOK
    HeadStaysPut
PROPERTIES
    ImplementsFrameReceiver
    AcceptsOnlyNew
    SleepingReaderWoken

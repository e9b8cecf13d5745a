SPECIFICATION FairSpec
CONSTANTS
    Slots = 2
    MaxRetries = 1
    Function <- MCOne
    Supervisor <- MCSupervisor
    Frames = {f1, f2}
    Command = command
    None = none
PROPERTY
    SenderReturns
CHECK_DEADLOCK FALSE

SPECIFICATION FairSpec
CONSTANTS
    Slots = 1
    MaxRetries = 1
    Function <- MCFunction
    Supervisor <- MCSupervisor
    Frames = {f1}
    Command = command
    None = none
INVARIANTS
    DteTypeOK
    NothingLost
    FinishedIsReleased
PROPERTIES
    AnswersTakenOnce
    WaitingEnds
CHECK_DEADLOCK FALSE

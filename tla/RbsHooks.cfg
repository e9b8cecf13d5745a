SPECIFICATION FairSpec
CONSTANTS
    Sigs = {"EM", "FXSLS", "FXSGS", "FXSKS", "FXOLS", "FXOGS", "FXOKS"}
    Digits = {1, 2}
    MaxDigits = 2
    MaxPulses = 2
INVARIANTS
    SigTypeOK
    LineMatchesState
    NothingStalls
PROPERTIES
    ReportsTrue
    OffHookHeard
    Settles

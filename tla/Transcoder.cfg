SPECIFICATION FairSpec
CONSTANTS
    Files = {a, b, c}
    Indices <- MCOnePair
    Formats = {g729, g723}
    Threshold = 1
    MaxDrift = 0
    None = none
INVARIANTS
    TcTypeOK
    OneUser
    PairTogether
    OpenCount
PROPERTY
    CallsReturn
CHECK_DEADLOCK FALSE

SPECIFICATION Spec
CONSTANTS
    Files = {a, b}
    Indices <- MCOnePair
    Formats = {g729, g723}
    Threshold = 1
    MaxDrift = 0
    None = none
INVARIANT
    SupportsFormats
CHECK_DEADLOCK FALSE

SPECIFICATION MixSpec
CONSTANTS
    MaxConf = 3
    Reals = {1, 3}
    Pseudos = {2}
    InitiallyOpen = {1, 3}
    Numbers = {1}
    ConfModes <- MCModes
    LinkSlots = 2
    MaxSpoken = 1
    MaxCalls = 4
INVARIANTS
    MixTypeOK
    AccumulatorsApart
    HearsRight
PROPERTY
    FreedWithLastMember

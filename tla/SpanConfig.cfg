SPECIFICATION FilesSpec
CONSTANTS
    s1 = s1
    s2 = s2
    Spans = {s1, s2}
    NoSpan = NoSpan
    MAX_SPANS = 3
    Size <- MCSize
    Busy = {"report", "configure", "zones", "echo"}
    Files = {f1, f2}
    Units = {1, 2}
    Zones = {1, 2}
    Factories = {e1}
    Callers = {t1, t2}
    MaxLost = 1
    None = none
SYMMETRY MCSymmetry
INVARIANTS
    FilesTypeOK
    NoDeadMaster
    ChainsEnd
    SlaveLists
    OneFile
    UsedIsKept
PROPERTY
    HealthyMaster

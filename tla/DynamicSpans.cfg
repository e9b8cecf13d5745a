SPECIFICATION FairSpec
CONSTANTS
    s1 = s1
    s2 = s2
    s3 = s3
    Spans <- MCTwo
    Timing <- MCSources
    None = none
INVARIANTS
    DynTypeOK
    MasterElected
PROPERTIES
    SpansServed

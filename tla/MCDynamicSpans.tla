--------------------------- MODULE MCDynamicSpans ---------------------------
\* Instances of DynamicSpans for TLC.
EXTENDS DynamicSpans, TLC

CONSTANTS s1, s2, s3

MCTwo    == {s1, s2}
MCThree  == {s1, s2, s3}
MCSources == s1 :> 1 @@ s2 :> 2
MCEquals  == s1 :> 1 @@ s2 :> 1 @@ s3 :> 0
=============================================================================

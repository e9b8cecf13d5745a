------------------------------ MODULE MCRxRing ------------------------------
\* Instances of RxRing for TLC.
EXTENDS RxRing

\* Nothing resets the rings of HDLC with its check sequence in software, anything
\* may happen to the others.
ReadOps   == {"event", "signal"}
WakingOps == {"flush", "hangup", "bufinfo", "event"}
MCOps     == [m \in Modes |-> IF m \in {"fcs", "mtp2"} THEN ReadOps ELSE WakingOps]
MCSizes   == [m \in Modes |-> IF m \in {"mtp2", "hard"} THEN {2} ELSE {2, 3}]
=============================================================================

------------------------------ MODULE MCTxRing ------------------------------
\* Instances of TxRing for TLC.
EXTENDS TxRing

MCPolicies  == {Immediate, WhenFull, HalfFull}
MCImmediate == {Immediate}

\* Whatever may meet a write or the interrupt; of the waits, only the one that
\* changes the ring (IOMUX for an empty ring enables the transmitter).
RingOps    == {"flush", "hangup", "bufinfo", "empty"}
\* The operations that neither reset the ring nor override its policy.
ServiceOps == {"event", "signal", "sync", "room"}
NoOps      == {}
=============================================================================

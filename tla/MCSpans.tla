------------------------------ MODULE MCSpans ------------------------------
(* Instances of the spans and their channels for TLC *)
EXTENDS ChannelFiles, TLC
CONSTANTS s1, s2
MCSize == (s1 :> 3) @@ (s2 :> 1)
MCSymmetry == Permutations(Files) \cup Permutations(Factories) \cup Permutations(Callers)
=============================================================================

--------------------------- MODULE MCConferences ---------------------------
(* Instances of the conferences for TLC *)
EXTENDS ConferenceMixing
MCModes == {Mode("monitor", {}), Mode("conf", {"talk", "listen"}),
            Mode("confann", {"talk", "listen"}), Mode("realandpseudo", Flags)}
ConfModesOnly == {Mode("conf", {"talk", "listen"})}
=============================================================================

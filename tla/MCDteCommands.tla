---------------------------- MODULE MCDteCommands ----------------------------
\* Instances of DteCommands for TLC.
EXTENDS DteCommands, TLC

\* The beginning of wctc4xxp_create_channel_pair: two channels are created by
\* the supervisor, then one of them is set up.
MCFunction   == <<"create", "create">>
MCOne        == <<"create">>
MCSupervisor == {"create"}
MCSymmetry   == Permutations(Frames)
=============================================================================

---------------------------- MODULE MCTranscoder ----------------------------
\* Instances of Transcoder for TLC.
EXTENDS Transcoder, TLC

MCOnePair  == {0}
MCTwoPairs == {0, 1}
=============================================================================

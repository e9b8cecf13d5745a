----------------------------- MODULE FrameQueue -----------------------------
(***************************************************************************)
(* What a channel's transmit ring promises its users: a bounded queue of   *)
(* frames.  A write appends a frame when there is room; the line takes the *)
(* head frame apart one chunk at a time, from its first chunk to its last, *)
(* and only then goes to the next one.  A flush empties the queue.         *)
(*                                                                         *)
(* On an MTP2 channel the last frame stays in the queue and is sent again  *)
(* from its first chunk until another frame has been written.              *)
(***************************************************************************)
EXTENDS Naturals, Sequences

CONSTANTS
    Data,     \* what a frame carries
    Lens,     \* the lengths a frame can have, in chunks
    MaxCap    \* the most frames a queue can be configured for

VARIABLES
    queue,    \* the frames written and not yet completely sent
    pos,      \* how many chunks of the head frame are on the line
    cap,      \* how many frames the queue holds
    line,     \* the data last put on the line
    mtp2      \* the last frame is repeated rather than removed

vars == <<queue, pos, cap, line, mtp2>>

Frame == [data : Data, len : Lens]

Init ==
    /\ queue = <<>>
    /\ pos = 0
    /\ cap \in 2 .. MaxCap
    /\ line \in Data
    /\ mtp2 \in BOOLEAN

Put ==
    /\ Len(queue) < cap
    /\ \E f \in Frame : queue' = Append(queue, f)
    /\ UNCHANGED <<pos, cap, line, mtp2>>

SendChunk ==
    /\ queue # <<>>
    /\ pos + 1 < Head(queue).len
    /\ pos' = pos + 1
    /\ line' = Head(queue).data
    /\ UNCHANGED <<queue, cap, mtp2>>

\* The last chunk of a frame; a frame of length 0 has none.
FinishFrame ==
    /\ queue # <<>>
    /\ pos + 1 >= Head(queue).len
    /\ pos' = 0
    /\ line' = IF Head(queue).len = 0 THEN line ELSE Head(queue).data
    /\ queue' = IF mtp2 /\ Len(queue) = 1 THEN queue ELSE Tail(queue)
    /\ UNCHANGED <<cap, mtp2>>

Clear ==
    /\ queue' = <<>>
    /\ pos' = 0
    /\ cap' \in 2 .. MaxCap
    /\ UNCHANGED <<line, mtp2>>

Next == Put \/ SendChunk \/ FinishFrame \/ Clear

Spec == Init /\ [][Next]_vars
=============================================================================

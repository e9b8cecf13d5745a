---------------------------- MODULE FrameReceiver ---------------------------
(***************************************************************************)
(* What the receive ring of an HDLC channel promises: the frames a reader  *)
(* gets are frames of the line, whole, in their order.  Frames may be lost *)
(* (the ring is full, the line is bad, the frame is too long), but none is *)
(* delivered in part, twice or mixed with another.                         *)
(***************************************************************************)
EXTENDS Naturals, Sequences

CONSTANTS
    Data,     \* what a byte can be
    MaxCap    \* the most frames a ring can be configured for

VARIABLES
    sent,     \* the frame on the line, as far as it has come
    queue,    \* the frames received and not yet read
    cap

vars == <<sent, queue, cap>>

Init == sent = <<>> /\ queue = <<>> /\ cap \in 2 .. MaxCap

LineByte ==
    /\ \E d \in Data : sent' = Append(sent, d)
    /\ UNCHANGED <<queue, cap>>

Receive ==
    /\ sent # <<>>
    /\ Len(queue) < cap
    /\ queue' = Append(queue, sent)
    /\ sent' = <<>>
    /\ UNCHANGED cap

Lose == sent' = <<>> /\ UNCHANGED <<queue, cap>>

Take ==
    /\ queue # <<>>
    /\ queue' = Tail(queue)
    /\ UNCHANGED <<sent, cap>>

Clear ==
    /\ queue' = <<>>
    /\ cap' \in 2 .. MaxCap
    /\ UNCHANGED sent

Next == LineByte \/ Receive \/ Lose \/ Take \/ Clear

Spec == Init /\ [][Next]_vars
=============================================================================

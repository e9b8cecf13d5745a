------------------------------- MODULE RxRing -------------------------------
(***************************************************************************)
(* The receive ring of one channel (struct dahdi_chan of dahdi-base.c):    *)
(* the interrupt that collects what the line sends, the user's read(), and *)
(* the operations that reset the ring.                                     *)
(*                                                                         *)
(* A channel is in one of four modes:                                     *)
(*   "audio"  the bytes are cut in blocks of blocksize                     *)
(*            (__putbuf_chunk without DAHDI_FLAG_HDLC);                    *)
(*   "fcs"    HDLC in software with its check sequence (__putbuf_chunk     *)
(*            with DAHDI_FLAG_HDLC and DAHDI_FLAG_FCS);                    *)
(*   "mtp2"   the same with DAHDI_FLAG_MTP2: the repeated messages of an   *)
(*            SS7 link are dropped;                                        *)
(*   "hard"   HDLC in the framer chip, whose driver calls                  *)
(*            dahdi_hdlc_putbuf, dahdi_hdlc_finish and dahdi_hdlc_abort.   *)
(*                                                                         *)
(* rxbufpolicy is DAHDI_POLICY_IMMEDIATE in every state (initialize_channel*)
(* sets it and DAHDI_SET_BUFINFO does not), so rxdisable stays 0.  What is *)
(* done under chan->lock is one step; read() copies without the lock.      *)
(***************************************************************************)
EXTENDS Integers, Sequences

CONSTANTS
    MaxNumBufs,   \* DAHDI_MAX_NUM_BUFS
    Sizes,        \* of a channel in each mode: the numbers of buffers users choose
    BlockSize,    \* bytes in a buffer
    Data, Zero,   \* the bytes, and the one kzalloc() fills buffers with
    MaxFrame,     \* bound: the longest frame of the line
    Modes,        \* the modes of channels
    Ops           \* of a channel in each mode: the other operations allowed

AllOps == {"flush", "hangup", "bufinfo", "event", "signal"}

ASSUME ModeAssumption  == /\ Modes \subseteq {"audio", "fcs", "mtp2", "hard"}
                          /\ Ops \in [Modes -> SUBSET AllOps]
ASSUME SizesAssumption == /\ MaxNumBufs \in 2 .. 32
                          /\ Sizes \in [Modes -> SUBSET (2 .. MaxNumBufs)]
ASSUME BlockAssumption == BlockSize \in Nat \ {0} /\ MaxFrame \in Nat
ASSUME DataAssumption  == Zero \in Data

Slots == 0 .. MaxNumBufs - 1
None  == -1               \* in: the ring is full; out: it is empty

VARIABLES
    inreadbuf,    \* the buffer the interrupt fills, or None
    outreadbuf,   \* the buffer the next read takes, or None
    readn,        \* length of the frame in each buffer
    readidx,      \* how much of a buffer has been filled
    readbuf,      \* its bytes
    numbufs,
    mode,         \* what the flags of the channel make of it
    infcs,        \* what the check sequence has seen: nothing, the frame, or other bytes
    searching,    \* rxhdlc.state: no flag seen since the receiver lost the frame
    sent,         \* the frame on the line, as far as it has come
    last,         \* history: the last frame put into the ring
    eventq,       \* eventinidx # eventoutidx
    pc,           \* where the reader stands
    res           \* its local copy of outreadbuf

index  == <<inreadbuf, outreadbuf, numbufs, mode>>
buffers == <<readn, readidx, readbuf>>
deframer == <<infcs, searching>>
reader == <<pc, res>>
vars   == <<index, buffers, deframer, sent, last, eventq, reader>>

Following_NoWrap(i) == i + 1
Following(i) == (i + 1) % numbufs

Filled ==
    IF outreadbuf = None THEN 0
    ELSE IF inreadbuf = None THEN numbufs
    ELSE IF outreadbuf <= inreadbuf THEN inreadbuf - outreadbuf
    ELSE numbufs - outreadbuf + inreadbuf

\* The first n bytes of buffer i.
Bytes(i, n) == [k \in 1 .. n |-> readbuf[i][k - 1]]

-----------------------------------------------------------------------------
(* The interrupt: what its paths have in common.                           *)

Woken_Never == pc
Woken == IF pc = "asleep" THEN "check" ELSE pc

\* __qevent(), unless the span is in alarm: the event wakes the reader too.
Report ==
    \/ eventq' = TRUE /\ pc' = Woken
    \/ UNCHANGED <<eventq, pc>>

\* Whoops, we're full: nowhere to store into at the moment.
NextIn_Overwrites(in) == Following(in)
NextIn(in) == IF Following(in) = outreadbuf THEN None ELSE Following(in)

\* Finished with this buffer: try another, start the out buffer if not already.
Rotate(in, n) ==
    /\ readn' = [readn EXCEPT ![in] = n]
    /\ inreadbuf' = NextIn(in)
    /\ outreadbuf' = IF outreadbuf = None THEN in ELSE outreadbuf
    /\ pc' = Woken

Store(in, d) ==
    /\ readbuf' = [readbuf EXCEPT ![in][readidx[in]] = d]
    /\ readidx' = [readidx EXCEPT ![in] = @ + 1]

\* Start over reading the frame.
StartOver(in) ==
    /\ readidx' = [readidx EXCEPT ![in] = 0]
    /\ Report

-----------------------------------------------------------------------------
(* __putbuf_chunk() without DAHDI_FLAG_HDLC, a byte of the chunk at a time.*)

\* A buffer that a read racing a flush has left full is passed on as it is.  What
\* the bytes are makes no difference.
AudioByte ==
    /\ mode = "audio"
    /\ inreadbuf # None
    /\ \/ /\ readidx[inreadbuf] + 1 < BlockSize
          /\ Store(inreadbuf, Zero)
          /\ UNCHANGED <<readn, inreadbuf, outreadbuf, pc>>
       \/ /\ readidx[inreadbuf] + 1 = BlockSize
          /\ Store(inreadbuf, Zero)
          /\ Rotate(inreadbuf, BlockSize)
       \/ /\ readidx[inreadbuf] = BlockSize
          /\ Rotate(inreadbuf, BlockSize)
          /\ UNCHANGED <<readidx, readbuf>>
    /\ UNCHANGED <<numbufs, mode, deframer, sent, last, eventq, res>>

-----------------------------------------------------------------------------
(* __putbuf_chunk() with DAHDI_FLAG_HDLC and DAHDI_FLAG_FCS.  While there  *)
(* is no buffer the line goes on unseen: the deframer is not run at all.   *)

Checked   == mode \in {"fcs", "mtp2"}
Deframing == Checked /\ inreadbuf # None /\ ~searching

\* PPP_FCS() over one more byte of the frame on the line.
FcsSeen   == IF infcs = "init" /\ sent # <<>> THEN "other"
             ELSE IF infcs = "init" THEN "frame" ELSE infcs
\* A byte that PPP_FCS() does not see.
FcsMissed == IF infcs = "frame" THEN "other" ELSE infcs
\* Another frame begins and infcs is not reset.
FcsKept   == IF infcs = "init" THEN "init" ELSE "other"

DataByte(d) ==
    /\ Deframing
    /\ readidx[inreadbuf] + 1 < BlockSize
    /\ Store(inreadbuf, d)
    /\ infcs' = FcsSeen
    /\ UNCHANGED <<index, readn, searching, last, eventq, reader>>

\* The possibility of an overrun: back to frame-search mode.
OverrunByte(d) ==
    /\ Deframing
    /\ readidx[inreadbuf] + 1 >= BlockSize
    /\ readbuf' = [readbuf EXCEPT ![inreadbuf][readidx[inreadbuf]] = d]
    /\ StartOver(inreadbuf)
    /\ infcs' = "init"
    /\ searching' = TRUE
    /\ UNCHANGED <<index, readn, last, res>>

UnseenByte ==
    /\ Checked /\ ~Deframing
    /\ infcs' = FcsMissed
    /\ UNCHANGED <<index, buffers, searching, last, eventq, reader>>

LineByte(d) ==
    /\ Len(sent) < MaxFrame
    /\ sent' = Append(sent, d)
    /\ DataByte(d) \/ OverrunByte(d) \/ UnseenByte

\* (inreadbuf - 1) & (numbufs - 1); numbufs is 32 at most
Bit(x, p) == (x \div p) % 2
And(x, y) == Bit(x, 1) * Bit(y, 1) + 2 * Bit(x, 2) * Bit(y, 2) + 4 * Bit(x, 4) * Bit(y, 4)
             + 8 * Bit(x, 8) * Bit(y, 8) + 16 * Bit(x, 16) * Bit(y, 16)

CompareMessage(in) == And(in - 1, numbufs - 1)

\* memcmp() over the length of the new message.
Repeated_WholeBuffer(in) == mode = "mtp2" /\ readbuf[CompareMessage(in)] = readbuf[in]
Repeated(in) ==
    mode = "mtp2" /\ Bytes(CompareMessage(in), readidx[in]) = Bytes(in, readidx[in])

Good_AnyFcs(ok) == ok
Good(ok) == ok /\ infcs = "frame"

\* A flag ends a frame; ok: the line has not spoilt it.  (An abort sequence and
\* the flag with which the next frame opens do what a bad frame does.)
GoodFrame(ok) ==
    /\ Deframing
    /\ readidx[inreadbuf] > 0
    /\ Good(ok)
    /\ infcs' = "init"
    /\ IF Repeated(inreadbuf)
       THEN /\ readn' = [readn EXCEPT ![inreadbuf] = 0]
            /\ readidx' = [readidx EXCEPT ![inreadbuf] = 0]
            /\ UNCHANGED <<inreadbuf, outreadbuf, pc, last>>
       ELSE /\ Rotate(inreadbuf, readidx[inreadbuf])
            /\ last' = Bytes(inreadbuf, readidx[inreadbuf])
            /\ UNCHANGED readidx
    /\ UNCHANGED <<readbuf, numbufs, mode, searching, eventq, res>>

BadFrame(ok) ==
    /\ Deframing
    /\ readidx[inreadbuf] > 0
    /\ ~Good(ok)
    /\ infcs' = "init"
    /\ StartOver(inreadbuf)
    /\ UNCHANGED <<index, readn, readbuf, searching, last, res>>

\* Nothing collected (infcs stays as it is), or the flag the search was for.
EmptyFrame ==
    /\ Checked /\ inreadbuf # None
    /\ searching \/ readidx[inreadbuf] = 0
    /\ infcs' = FcsKept
    /\ searching' = FALSE
    /\ UNCHANGED <<index, buffers, last, eventq, reader>>

UnseenFlag ==
    /\ Checked /\ inreadbuf = None
    /\ infcs' = FcsKept
    /\ UNCHANGED <<index, buffers, searching, last, eventq, reader>>

LineFlag(ok) ==
    /\ sent' = <<>>
    /\ GoodFrame(ok) \/ BadFrame(ok) \/ EmptyFrame \/ UnseenFlag

-----------------------------------------------------------------------------
(* The drivers of framer chips: dahdi_hdlc_putbuf() (here of one unit of   *)
(* data), dahdi_hdlc_finish() at the end of a good frame, and              *)
(* dahdi_hdlc_abort() of any other.                                        *)

HdlcPutbuf(d) ==
    /\ mode = "hard"
    /\ Len(sent) < MaxFrame
    /\ sent' = Append(sent, d)
    /\ \/ inreadbuf = None /\ UNCHANGED <<buffers, eventq, pc>>
       \/ /\ inreadbuf # None
          /\ readidx[inreadbuf] < BlockSize
          /\ Store(inreadbuf, d)
          /\ UNCHANGED <<readn, eventq, pc>>
       \/ /\ inreadbuf # None
          /\ readidx[inreadbuf] >= BlockSize
          /\ StartOver(inreadbuf)
          /\ UNCHANGED <<readn, readbuf>>
    /\ UNCHANGED <<index, deframer, last, res>>

HdlcFinish ==
    /\ mode = "hard"
    /\ sent # <<>>
    /\ sent' = <<>>
    /\ IF inreadbuf # None /\ readidx[inreadbuf] > 0
       THEN Rotate(inreadbuf, readidx[inreadbuf])
       ELSE UNCHANGED <<readn, inreadbuf, outreadbuf, pc>>
    /\ UNCHANGED <<readidx, readbuf, numbufs, mode, deframer, last, eventq, res>>

HdlcAbort ==
    /\ mode = "hard"
    /\ sent' = <<>>
    /\ readidx' = IF inreadbuf = None THEN readidx ELSE [readidx EXCEPT ![inreadbuf] = 0]
    /\ Report
    /\ UNCHANGED <<index, readn, readbuf, deframer, last, res>>

-----------------------------------------------------------------------------
(* read(): dahdi_chan_read().                                              *)

Sleep ==
    /\ pc = "gap"
    /\ pc' = "asleep"
    /\ UNCHANGED <<index, buffers, deframer, sent, last, eventq, res>>

Signal ==
    /\ "signal" \in Ops[mode]
    /\ pc \in {"gap", "asleep"}
    /\ pc' = "idle"
    /\ UNCHANGED <<index, buffers, deframer, sent, last, eventq, res>>

BeginRead ==
    /\ pc = "idle"
    /\ pc' = "check"
    /\ UNCHANGED <<index, buffers, deframer, sent, last, eventq, res>>

\* An event is pending: -ELAST.
ReadEvent ==
    /\ pc = "check" /\ eventq
    /\ pc' = "idle"
    /\ UNCHANGED <<index, buffers, deframer, sent, last, eventq, res>>

\* Nothing to read: -EAGAIN with O_NONBLOCK, else to sleep.
ReadEmpty ==
    /\ pc = "check" /\ ~eventq
    /\ outreadbuf = None
    /\ pc' \in {"idle", "gap"}
    /\ UNCHANGED <<index, buffers, deframer, sent, last, eventq, res>>

\* A buffer: remember it, let go of the lock and copy it to the user.
ReadStart ==
    /\ pc = "check" /\ ~eventq
    /\ outreadbuf # None
    /\ res' = outreadbuf
    /\ pc' = "copy"
    /\ UNCHANGED <<index, buffers, deframer, sent, last, eventq>>

\* copy_to_user() fails: -EFAULT, the frame stays.
ReadFault ==
    /\ pc = "copy"
    /\ pc' = "idle"
    /\ UNCHANGED <<index, buffers, deframer, sent, last, eventq, res>>

\* Give the buffer back; if the interrupt had none, it gets this one.
Release_StillFull(i) == inreadbuf
Release(i) == IF inreadbuf = None THEN i ELSE inreadbuf

Emptied_KeepsIndex(i) == readidx
Emptied(i) == [readidx EXCEPT ![i] = 0]

ReadDone ==
    /\ pc = "copy"
    /\ readidx' = Emptied(res)
    /\ readn' = [readn EXCEPT ![res] = 0]
    /\ outreadbuf' = IF Following(res) = inreadbuf THEN None ELSE Following(res)
    /\ inreadbuf' = Release(res)
    /\ pc' = "idle"
    /\ UNCHANGED <<readbuf, numbufs, mode, deframer, sent, last, eventq, res>>

-----------------------------------------------------------------------------
(* Everything else that touches the ring.                                  *)

Reset ==
    /\ inreadbuf' = 0
    /\ outreadbuf' = None
    /\ readn' = [i \in Slots |-> IF i < numbufs' THEN 0 ELSE readn[i]]
    /\ readidx' = [i \in Slots |-> IF i < numbufs' THEN 0 ELSE readidx[i]]

\* DAHDI_FLUSH with DAHDI_FLUSH_READ: infcs and rxhdlc stay as they are.
Flush ==
    /\ "flush" \in Ops[mode]
    /\ UNCHANGED <<numbufs, mode>>
    /\ Reset
    /\ pc' = Woken
    /\ UNCHANGED <<readbuf, deframer, sent, last, eventq, res>>

\* DAHDI_HOOK with DAHDI_ONHOOK: dahdi_hangup() empties the ring, wakes nobody.
\* It refuses a channel with DAHDI_FLAG_CLEAR, as those of HDLC are.
Hangup ==
    /\ "hangup" \in Ops[mode]
    /\ mode = "audio"
    /\ UNCHANGED <<numbufs, mode>>
    /\ Reset
    /\ UNCHANGED <<readbuf, deframer, sent, last, eventq, reader>>

\* DAHDI_SET_BUFINFO, by the thread that reads: dahdi_reallocbufs().
Realloc(n) ==
    /\ "bufinfo" \in Ops[mode]
    /\ pc = "idle"
    /\ numbufs' = n
    /\ Reset
    /\ readbuf' = [i \in Slots |-> IF i < n THEN [k \in 0 .. BlockSize - 1 |-> Zero]
                                            ELSE readbuf[i]]
    /\ UNCHANGED <<mode, deframer, sent, last, eventq, reader>>

QEvent ==
    /\ "event" \in Ops[mode]
    /\ eventq' = TRUE
    /\ pc' = Woken
    /\ UNCHANGED <<index, buffers, deframer, sent, last, res>>

\* DAHDI_GETEVENT takes the last event, or DAHDI_FLUSH drops them all.
DrainEvents ==
    /\ eventq
    /\ eventq' = FALSE
    /\ UNCHANGED <<index, buffers, deframer, sent, last, reader>>

-----------------------------------------------------------------------------

\* initialize_channel(): a channel that has just been opened, or whose user has
\* set another number of buffers since.
Init ==
    /\ inreadbuf = 0
    /\ outreadbuf = None
    /\ readn = [i \in Slots |-> 0]
    /\ readidx = [i \in Slots |-> 0]
    /\ readbuf = [i \in Slots |-> [k \in 0 .. BlockSize - 1 |-> Zero]]
    /\ mode \in Modes
    /\ numbufs \in Sizes[mode]
    /\ infcs = "init"
    /\ searching = TRUE
    /\ sent = <<>>
    /\ last = <<>>
    /\ eventq = FALSE
    /\ pc = "idle"
    /\ res = 0

Line ==
    \/ AudioByte
    \/ \E d \in Data : LineByte(d) \/ HdlcPutbuf(d)
    \/ \E ok \in BOOLEAN : LineFlag(ok)
    \/ HdlcFinish
    \/ HdlcAbort

ReaderStep == ReadEvent \/ ReadEmpty \/ ReadStart \/ ReadFault \/ ReadDone \/ Sleep

Next ==
    \/ Line
    \/ BeginRead
    \/ ReaderStep
    \/ Signal
    \/ Flush
    \/ Hangup
    \/ \E n \in Sizes[mode] : Realloc(n)
    \/ QEvent
    \/ DrainEvents

\* The line of an "audio" channel never stops, whatever it carries; nothing makes
\* frames arrive, nor a user call again.
Fairness == /\ WF_vars(AudioByte)
            /\ WF_vars(ReaderStep)

Spec     == Init /\ [][Next]_vars
FairSpec == Spec /\ Fairness

-----------------------------------------------------------------------------
(* Properties.                                                             *)

\* Every variable has its type: the indices stay within the buffers in use, a
\* buffer is never filled beyond blocksize.
TypeOK ==
    /\ mode \in Modes
    /\ numbufs \in Sizes[mode]
    /\ inreadbuf \in {None} \cup 0 .. numbufs - 1
    /\ outreadbuf \in {None} \cup 0 .. numbufs - 1
    /\ readn \in [Slots -> 0 .. BlockSize]
    /\ readidx \in [Slots -> 0 .. BlockSize]
    /\ readbuf \in [Slots -> [0 .. BlockSize - 1 -> Data]]
    /\ infcs \in {"init", "frame", "other"}
    /\ searching \in BOOLEAN
    /\ sent \in Seq(Data)
    /\ last \in Seq(Data)
    /\ eventq \in BOOLEAN
    /\ pc \in {"idle", "check", "gap", "asleep", "copy"}
    /\ res \in Slots

\* While nobody resets the ring the unlocked copy of read() is safe: the buffer it
\* copies stays the head of the ring, so that the interrupt does not fill it and the
\* index that read() derives from it afterwards is still right.
Resets == Ops[mode] \cap {"flush", "hangup"} # {}
HeadStaysPut == pc = "copy" /\ ~Resets => res = outreadbuf /\ res # inreadbuf

\* The frames of the ring in the order in which they will be read.
Contents ==
    [k \in 1 .. Filled |-> LET i == (outreadbuf + k - 1) % numbufs IN Bytes(i, readn[i])]

FR == INSTANCE FrameReceiver
        WITH MaxCap <- MaxNumBufs, cap <- numbufs,
             sent  <- IF Checked THEN sent ELSE <<>>,
             queue <- IF Checked THEN Contents ELSE <<>>

\* With the check sequence in software the ring implements FrameReceiver: every
\* frame a reader gets is a frame of the line, whole, in order and once.
ImplementsFrameReceiver == FR!Spec

\* With MTP2 a message that comes twice in a row is put into the ring once, if the
\* number of buffers is a power of two (the mask of CompareMessage is right only
\* then; DAHDI_SET_BUFINFO takes any number).
PowersOfTwo == {2, 4, 8, 16, 32}
AcceptsOnlyNew ==
    [][mode = "mtp2" /\ numbufs \in PowersOfTwo /\ GoodFrame(TRUE) /\ ~Repeated(inreadbuf)
          => Bytes(inreadbuf, readidx[inreadbuf]) # last]_vars

\* "Our messages are the same, so discard": a message is dropped as a repetition
\* only if it is the one received before it.
DiscardsOnlyRepeats ==
    [][GoodFrame(TRUE) /\ Repeated(inreadbuf)
          => Bytes(inreadbuf, readidx[inreadbuf]) = last]_vars

\* A reader that sleeps on the empty ring of an "audio" channel, whose line never
\* stops, is woken by the next buffer the interrupt fills, unless someone hangs up
\* over and over.
SleepingReaderWoken ==
    <>[][~Hangup]_vars
        => (mode = "audio" /\ pc = "asleep" /\ outreadbuf = None) ~> pc # "asleep"
=============================================================================

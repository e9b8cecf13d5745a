------------------------------- MODULE TxRing -------------------------------
(***************************************************************************)
(* The transmit ring of one channel (struct dahdi_chan of                  *)
(* dahdi-base.c): the user's write(), the interrupt that takes the frames  *)
(* apart chunk by chunk, the ioctls that wait for the ring to drain, and   *)
(* the operations that reset it.                                           *)
(*                                                                         *)
(* Two user threads: "writer" calls write() and DAHDI_SET_BUFINFO, "waiter"*)
(* calls DAHDI_SYNC or DAHDI_IOMUX.  FLUSH, ONHOOK, GETEVENT and the       *)
(* events of the line come at any moment.  Sections of code under          *)
(* chan->lock are one step; the copy from user space and the gap between   *)
(* the test of a condition and the sleep on its wait queue are not.        *)
(*                                                                         *)
(* Lengths count chunks of DAHDI_CHUNKSIZE bytes.  __dahdi_getbuf_chunk    *)
(* goes round its loop until a chunk is filled: a round is one step here.  *)
(* A framer chip takes what it can hold with dahdi_hdlc_getbuf(), without  *)
(* the two bytes that stand for the check sequence; its users write no     *)
(* frame shorter than those.                                               *)
(***************************************************************************)
EXTENDS Integers

CONSTANTS
    MaxNumBufs,   \* DAHDI_MAX_NUM_BUFS
    Lens,         \* the lengths of the frames users write, in chunks
    Data,         \* what the frames carry
    Torn,         \* a buffer that copy_from_user has only partly filled
    Policies,     \* the policies users choose
    Mtp2Flags,    \* whether channels have DAHDI_FLAG_MTP2
    FramerFlags,  \* whether channels are served by a framer chip
    Ops           \* the other operations this instance allows

Immediate == "immediate"    \* DAHDI_POLICY_IMMEDIATE
WhenFull  == "when_full"    \* DAHDI_POLICY_WHEN_FULL
HalfFull  == "half_full"    \* DAHDI_POLICY_HALF_FULL

AllOps == {"flush", "hangup", "bufinfo", "event", "signal", "sync", "room", "empty"}

ASSUME NumBufsAssumption == MaxNumBufs \in Nat /\ MaxNumBufs >= 2
ASSUME LensAssumption    == Lens \subseteq Nat
ASSUME DataAssumption    == Data # {} /\ Torn \notin Data
ASSUME PolicyAssumption  == /\ Policies \subseteq {Immediate, WhenFull, HalfFull}
                            /\ Immediate \in Policies
ASSUME ModeAssumption    == /\ Mtp2Flags \subseteq BOOLEAN /\ FramerFlags \subseteq BOOLEAN
                            /\ Ops \subseteq AllOps

Threads == {"writer", "waiter"}
Slots   == 0 .. MaxNumBufs - 1
None    == -1               \* in: the ring is full; out: it is empty

VARIABLES
    inwritebuf,   \* the buffer the next write fills, or None
    outwritebuf,  \* the buffer the interrupt sends, or None
    writen,       \* length of the frame in each buffer
    writeidx,     \* how much of it has been sent
    writebuf,     \* its data
    numbufs,
    txbufpolicy,
    txdisable,
    mtp2,         \* flags & DAHDI_FLAG_MTP2
    framer,       \* flags & DAHDI_FLAG_NOSTDTXRX
    eventq,       \* eventinidx # eventoutidx
    pc,           \* where each thread stands
    goal,         \* what the waiter waits for
    res,          \* the writer's local copy of inwritebuf
    amnt,         \* the length of the frame it is writing
    line          \* the data last sent to the line

ring   == <<inwritebuf, outwritebuf, writen, writeidx, writebuf, numbufs>>
policy == <<txbufpolicy, txdisable>>
flags  == <<mtp2, framer, eventq>>
local  == <<goal, res, amnt>>
vars   == <<ring, policy, flags, pc, local, line>>

Goals   == {"sync", "room", "empty"}
Playing == {WhenFull, HalfFull}     \* policies that hold the transmitter back

Following_NoWrap(i) == i + 1
Following(i) == (i + 1) % numbufs

num_filled_bufs(in, out) ==
    IF in = None THEN numbufs
    ELSE IF out = None THEN 0
    ELSE IF out <= in THEN in - out ELSE numbufs - out + in

Filled == num_filled_bufs(inwritebuf, outwritebuf)

\* Where the next write goes once the buffer i has been filled: nowhere if that
\* would stomp on the transmitter.
NextIn_Stomp(i) == Following(i)
NextIn(i) == IF Following(i) = outwritebuf THEN None ELSE Following(i)

\* The ring is filled as far as the policy asks before frames are sent.
Enough_Early(in, out) ==
    in = None \/ (txbufpolicy = HalfFull /\ num_filled_bufs(in, out) + 1 >= numbufs \div 2)
Enough_HalfOnly(in, out) ==
    txbufpolicy = HalfFull /\ num_filled_bufs(in, out) >= numbufs \div 2
Enough(in, out) ==
    in = None \/ (txbufpolicy = HalfFull /\ num_filled_bufs(in, out) >= numbufs \div 2)

-----------------------------------------------------------------------------
(* Sleeping: wake_up_interruptible() and schluffen().  A thread that has   *)
(* found its condition false stands at "gap"; only once it is on the wait  *)
(* queue ("asleep") does a wake-up reach it.                               *)

WriteQueue == {"writer"} \cup {t \in {"waiter"} : goal = "sync"}   \* writebufq
EventQueue(goals) == {t \in {"waiter"} : goal \in goals}           \* eventbufq

Woken(ts) == [t \in Threads |-> IF t \in ts /\ pc[t] = "asleep" THEN "check" ELSE pc[t]]

Sleep(t) ==
    /\ pc[t] = "gap"
    /\ pc' = [pc EXCEPT ![t] = "asleep"]
    /\ UNCHANGED <<ring, policy, flags, local, line>>

\* Whom the interrupt wakes at the end of a buffer.
RotationWakes_NotWriters(drained) == EventQueue({"room", "empty"})
RotationWakes_WhenFull(drained) ==
    IF inwritebuf = None THEN WriteQueue \cup EventQueue({"room"}) ELSE {}
RotationWakes(drained) ==
    WriteQueue \cup EventQueue(IF drained THEN {"room", "empty"} ELSE {"room"})

\* signal_pending(): schluffen() returns -ERESTARTSYS and so does the call.
Signal(t) ==
    /\ "signal" \in Ops
    /\ pc[t] \in {"gap", "asleep"}
    /\ pc' = [pc EXCEPT ![t] = "idle"]
    /\ UNCHANGED <<ring, policy, flags, local, line>>

-----------------------------------------------------------------------------
(* write(): dahdi_chan_write().                                            *)

BeginWrite(n) ==
    /\ pc["writer"] = "idle"
    /\ pc' = [pc EXCEPT !["writer"] = "check"]
    /\ amnt' = n
    /\ UNCHANGED <<ring, policy, flags, goal, res, line>>

\* An event is pending: -ELAST.
WriteEvent ==
    /\ pc["writer"] = "check"
    /\ eventq
    /\ pc' = [pc EXCEPT !["writer"] = "idle"]
    /\ UNCHANGED <<ring, policy, flags, local, line>>

\* No buffer: -EAGAIN with O_NONBLOCK, else to sleep.
WriteFull ==
    /\ pc["writer"] = "check"
    /\ ~eventq
    /\ inwritebuf = None
    /\ \E next \in {"idle", "gap"} : pc' = [pc EXCEPT !["writer"] = next]
    /\ UNCHANGED <<ring, policy, flags, local, line>>

\* A buffer: remember it, let go of the lock and start to copy.
WriteStart ==
    /\ pc["writer"] = "check"
    /\ ~eventq
    /\ inwritebuf # None
    /\ res' = inwritebuf
    /\ writebuf' = [writebuf EXCEPT ![inwritebuf] = Torn]
    /\ pc' = [pc EXCEPT !["writer"] = "copy"]
    /\ UNCHANGED <<inwritebuf, outwritebuf, writen, writeidx, numbufs,
                   policy, flags, goal, amnt, line>>

WriteFault_Commits ==
    /\ pc["writer"] = "copy"
    /\ pc' = [pc EXCEPT !["writer"] = "commit"]
    /\ UNCHANGED <<ring, policy, flags, local, line>>

\* copy_from_user() fails: -EFAULT, the buffer stays behind half written.
WriteFault ==
    /\ pc["writer"] = "copy"
    /\ pc' = [pc EXCEPT !["writer"] = "idle"]
    /\ UNCHANGED <<ring, policy, flags, local, line>>

WriteCopied(d) ==
    /\ pc["writer"] = "copy"
    /\ writebuf' = [writebuf EXCEPT ![res] = d]
    /\ writen' = [writen EXCEPT ![res] = amnt]
    /\ writeidx' = [writeidx EXCEPT ![res] = 0]
    /\ pc' = [pc EXCEPT !["writer"] = "commit"]
    /\ UNCHANGED <<inwritebuf, outwritebuf, numbufs, policy, flags, local, line>>

\* The lock again: hand the buffer over to the interrupt.
WriteCommit ==
    /\ pc["writer"] = "commit"
    /\ inwritebuf' = NextIn(res)
    /\ outwritebuf' = IF outwritebuf = None THEN res ELSE outwritebuf
    /\ txdisable' = IF Enough(inwritebuf', outwritebuf') THEN FALSE ELSE txdisable
    /\ pc' = [pc EXCEPT !["writer"] = "idle"]
    /\ UNCHANGED <<writen, writeidx, writebuf, numbufs, txbufpolicy, flags, local, line>>

-----------------------------------------------------------------------------
(* The interrupt: one round of the loop of __dahdi_getbuf_chunk(), or one  *)
(* call of dahdi_hdlc_getbuf(), which does not look at txdisable.          *)

Transmitting == outwritebuf # None /\ (framer \/ ~txdisable)

SendChunk ==
    /\ Transmitting
    /\ writeidx[outwritebuf] + 1 < writen[outwritebuf]
    /\ writeidx' = [writeidx EXCEPT ![outwritebuf] = @ + 1]
    /\ line' = writebuf[outwritebuf]
    /\ UNCHANGED <<inwritebuf, outwritebuf, writen, writebuf, numbufs,
                   policy, flags, pc, local>>

\* The last frame of the ring: an MTP2 channel sends it over and over.
Drains(old) == Following(old) = inwritebuf

NextOut(old) ==
    IF ~Drains(old) THEN Following(old) ELSE IF mtp2 THEN old ELSE None

\* A writer without a buffer gets the one just emptied.
Room(old) == IF inwritebuf = None THEN old ELSE inwritebuf

Rearmed_WhenFull(drained) == IF drained /\ txbufpolicy = WhenFull THEN TRUE ELSE txdisable
Rearmed(drained) == IF drained /\ txbufpolicy \in Playing THEN TRUE ELSE txdisable

\* The end of a buffer: rotate, and wake those who wait for room.
FinishBuffer ==
    /\ Transmitting
    /\ writeidx[outwritebuf] + 1 >= writen[outwritebuf]
    /\ line' = IF writen[outwritebuf] = 0 THEN line ELSE writebuf[outwritebuf]
    /\ LET old == outwritebuf IN
       /\ writeidx' = [writeidx EXCEPT ![old] = 0]
       /\ writen' = IF mtp2 THEN writen ELSE [writen EXCEPT ![old] = 0]
       /\ outwritebuf' = NextOut(old)
       /\ inwritebuf' = Room(old)
       /\ txdisable' = Rearmed(Drains(old))
       /\ pc' = Woken(RotationWakes(Drains(old)))
    /\ UNCHANGED <<writebuf, numbufs, txbufpolicy, flags, local>>

GetbufChunk == ~framer /\ (SendChunk \/ FinishBuffer)
HdlcGetbuf  == framer /\ (SendChunk \/ FinishBuffer)

-----------------------------------------------------------------------------
(* The waiter: DAHDI_SYNC waits on writebufq for the ring to drain,        *)
(* DAHDI_IOMUX on eventbufq for room to write or for an empty ring.        *)

BeginWait(g) ==
    /\ g \in Ops
    /\ pc["waiter"] = "idle"
    /\ pc' = [pc EXCEPT !["waiter"] = "check"]
    /\ goal' = g
    /\ UNCHANGED <<ring, policy, flags, res, amnt, line>>

GoalMet == IF goal = "room" THEN inwritebuf # None ELSE outwritebuf = None

WaitCheck ==
    /\ pc["waiter"] = "check"
    /\ txdisable' = IF goal = "empty" THEN FALSE ELSE txdisable
    /\ pc' = [pc EXCEPT !["waiter"] = IF GoalMet THEN "idle" ELSE "gap"]
    /\ UNCHANGED <<ring, txbufpolicy, flags, local, line>>

-----------------------------------------------------------------------------
(* Everything else that touches the ring.                                  *)

Emptied ==
    /\ inwritebuf' = 0
    /\ outwritebuf' = None
    /\ writen' = [i \in Slots |-> IF i < numbufs' THEN 0 ELSE writen[i]]
    /\ writeidx' = [i \in Slots |-> IF i < numbufs' THEN 0 ELSE writeidx[i]]

\* DAHDI_FLUSH with DAHDI_FLUSH_WRITE: wakes both queues, leaves txdisable alone.
Flush ==
    /\ "flush" \in Ops
    /\ UNCHANGED numbufs
    /\ Emptied
    /\ pc' = Woken(WriteQueue \cup EventQueue({"empty"}))
    /\ UNCHANGED <<writebuf, policy, flags, local, line>>

\* DAHDI_HOOK with DAHDI_ONHOOK: dahdi_hangup() empties the ring, wakes nobody.
\* It refuses channels with DAHDI_FLAG_CLEAR, as those of MTP2 are, and framers.
Hangup ==
    /\ "hangup" \in Ops
    /\ ~mtp2 /\ ~framer
    /\ UNCHANGED numbufs
    /\ Emptied
    /\ UNCHANGED <<writebuf, policy, flags, pc, local, line>>

\* DAHDI_SET_BUFINFO sets the policy before dahdi_reallocbufs() takes the lock.
SetPolicy(p) ==
    /\ "bufinfo" \in Ops
    /\ pc["writer"] = "idle"
    /\ txbufpolicy' = p
    /\ pc' = [pc EXCEPT !["writer"] = "realloc"]
    /\ UNCHANGED <<ring, txdisable, flags, local, line>>

\* No memory: -ENOMEM, the ring stays and the policy too.
ReallocFails ==
    /\ pc["writer"] = "realloc"
    /\ pc' = [pc EXCEPT !["writer"] = "idle"]
    /\ UNCHANGED <<ring, policy, flags, local, line>>

Realloc(n) ==
    /\ pc["writer"] = "realloc"
    /\ numbufs' = n
    /\ Emptied
    /\ writebuf' = [i \in Slots |-> IF i < n THEN Torn ELSE writebuf[i]]
    /\ txdisable' = (txbufpolicy \in Playing)
    /\ pc' = [pc EXCEPT !["writer"] = "idle"]
    /\ UNCHANGED <<txbufpolicy, flags, local, line>>

\* __qevent() on the channel: wakes readers, writers and, with SIGEVENT, IOMUX.
QEvent ==
    /\ "event" \in Ops
    /\ eventq' = TRUE
    /\ pc' = Woken(WriteQueue)
    /\ UNCHANGED <<ring, policy, mtp2, framer, local, line>>

\* DAHDI_GETEVENT takes the last event, or DAHDI_FLUSH drops them all.
DrainEvents ==
    /\ "event" \in Ops
    /\ eventq
    /\ eventq' = FALSE
    /\ UNCHANGED <<ring, policy, mtp2, framer, pc, local, line>>

-----------------------------------------------------------------------------

\* initialize_channel(): the ring of a channel that has just been opened, or of
\* one whose user has set another policy and number of buffers since.
Init ==
    /\ inwritebuf = 0
    /\ outwritebuf = None
    /\ writen = [i \in Slots |-> 0]
    /\ writeidx = [i \in Slots |-> 0]
    /\ writebuf = [i \in Slots |-> Torn]
    /\ numbufs \in 2 .. MaxNumBufs
    /\ txbufpolicy \in Policies
    /\ txdisable = (txbufpolicy \in Playing)
    /\ mtp2 \in Mtp2Flags
    /\ framer \in FramerFlags /\ ~(framer /\ mtp2)    \* signalling MTP2 or HARDHDLC
    /\ eventq = FALSE
    /\ pc = [t \in Threads |-> "idle"]
    /\ goal = "sync"
    /\ res = 0
    /\ amnt \in Lens
    /\ line \in Data

WriterStep ==
    \/ WriteEvent \/ WriteFull \/ WriteStart \/ WriteFault \/ WriteCommit
    \/ \E d \in Data : WriteCopied(d)
    \/ Sleep("writer")

WaiterStep == WaitCheck \/ Sleep("waiter")

Interrupt == GetbufChunk \/ HdlcGetbuf

Next ==
    \/ \E n \in Lens : BeginWrite(n)
    \/ WriterStep
    \/ \E g \in Goals : BeginWait(g)
    \/ WaiterStep
    \/ Interrupt
    \/ \E t \in Threads : Signal(t)
    \/ Flush
    \/ Hangup
    \/ \E p \in Policies : SetPolicy(p)
    \/ ReallocFails
    \/ \E n \in 2 .. MaxNumBufs : Realloc(n)
    \/ QEvent
    \/ DrainEvents

\* The line clocks the interrupt and the scheduler runs the threads; nothing
\* makes a user call again, press a hook or send a signal.
Fairness == WF_vars(Interrupt) /\ WF_vars(WriterStep) /\ WF_vars(WaiterStep)

Spec     == Init /\ [][Next]_vars
FairSpec == Spec /\ Fairness

-----------------------------------------------------------------------------
(* Properties.                                                             *)

PCs == {"idle", "check", "gap", "asleep", "copy", "commit", "realloc"}

\* Every variable has its type: the indices stay within the buffers in use and
\* each thread within the code it can run.
TypeOK ==
    /\ numbufs \in 2 .. MaxNumBufs
    /\ inwritebuf \in {None} \cup 0 .. numbufs - 1
    /\ outwritebuf \in {None} \cup 0 .. numbufs - 1
    /\ writen \in [Slots -> Lens \cup {0}]
    /\ writeidx \in [Slots -> Nat]
    /\ writebuf \in [Slots -> Data \cup {Torn}]
    /\ txbufpolicy \in Policies
    /\ txdisable \in BOOLEAN
    /\ mtp2 \in BOOLEAN
    /\ framer \in BOOLEAN
    /\ eventq \in BOOLEAN
    /\ pc \in [Threads -> PCs]
    /\ pc["waiter"] \in {"idle", "check", "gap", "asleep"}
    /\ goal \in Goals
    /\ res \in Slots
    /\ amnt \in Lens
    /\ line \in Data

\* The two sentinels never meet: a full ring has a buffer to send and a running
\* transmitter, so a writer that waits for room (dahdi_chan_write) waits for an
\* interrupt that has something to do.  With WHEN_FULL and HALF_FULL this rests
\* on the write that fills the ring, and on no other path disabling it again.
FullRingRuns == inwritebuf = None => outwritebuf # None /\ ~txdisable

\* The buffers that hold frames: numbufs of them at most, from outwritebuf on.
Occupied ==
    {i \in 0 .. numbufs - 1 :
        /\ outwritebuf # None
        /\ IF inwritebuf = None THEN TRUE
           ELSE IF outwritebuf < inwritebuf THEN outwritebuf <= i /\ i < inwritebuf
           ELSE outwritebuf <= i \/ i < inwritebuf}

\* "Don't stomp on the transmitter": write() copies without the lock, yet never
\* into a buffer the interrupt may send, whatever rotated or reset the ring
\* between its two looks at inwritebuf.
NoStomp == pc["writer"] \in {"copy", "commit"} => res \notin Occupied

\* A buffer that copy_from_user left half filled (-EFAULT) is never among those
\* to be sent, and only the head frame has been sent in part.
WholeFrames ==
    \A i \in Occupied : writebuf[i] # Torn /\ (i # outwritebuf => writeidx[i] = 0)

\* What write() and the interrupt, which share the ring, rest on between them.
RingSound == FullRingRuns /\ NoStomp /\ WholeFrames

\* A policy that starts "when full" (or half full) leaves an empty ring with its
\* transmitter disabled, so that the next frames gather before they are sent.
HeldBack == outwritebuf = None /\ txbufpolicy \in Playing => txdisable

EnoughFilled ==
    CASE txbufpolicy = WhenFull  -> inwritebuf = None
      [] txbufpolicy = HalfFull  -> Filled >= numbufs \div 2
      [] txbufpolicy = Immediate -> TRUE

\* The frames of WHEN_FULL and HALF_FULL gather before they are sent, always: an
\* empty ring holds back, and the transmitter is enabled by the write that fills
\* the ring as far as the policy asks, and by nothing short of it.
FramesGather ==
    [][HeldBack' /\ (txdisable /\ ~txdisable' => EnoughFilled')]_vars

\* The frames in the ring, in the order in which they will be sent, are the
\* queue of FrameQueue: no frame is lost, repeated, torn or reordered.
Contents ==
    [k \in 1 .. Filled |-> LET i == (outwritebuf + k - 1) % numbufs
                           IN [data |-> writebuf[i], len |-> writen[i]]]

FQ == INSTANCE FrameQueue
        WITH MaxCap <- MaxNumBufs,
             Lens   <- Lens \cup {0},
             queue  <- Contents,
             pos    <- IF outwritebuf = None THEN 0 ELSE writeidx[outwritebuf],
             cap    <- numbufs

\* The ring implements the queue: see FrameQueue.
ImplementsFrameQueue == FQ!Spec

\* The interrupt wakes the sleepers of writebufq every time it empties a buffer:
\* a writer on the queue of a full ring is woken.
SleepingWriterWoken ==
    (pc["writer"] = "asleep" /\ inwritebuf = None) ~> pc["writer"] # "asleep"

\* A thread in DAHDI_SYNC or DAHDI_IOMUX that is asleep while frames go out is
\* woken: at the end of the next buffer, or, if it waits for an empty ring, at the
\* end of the last one unless another frame is written before that.
SleepingWaiterWoken ==
    (pc["waiter"] = "asleep" /\ Transmitting)
        ~> (pc["waiter"] # "asleep" \/ (goal = "empty" /\ pc["writer"] = "commit"))

\* A full ring gets room again: the interrupt gives the writer the buffer it has
\* emptied, in inwritebuf.
RoomAgain == inwritebuf = None ~> inwritebuf # None

\* Nobody sleeps on while what it waits for goes on, and a writer waits for
\* something that comes.
SleepersWoken == SleepingWriterWoken /\ SleepingWaiterWoken /\ RoomAgain

\* What the comment in __dahdi_getbuf_chunk says of a write that blocks: it is
\* woken every time a buffer is emptied, so that it cannot miss the wake-up.
BlockedWriterReturns == pc["writer"] = "gap" ~> pc["writer"] = "idle"
=============================================================================

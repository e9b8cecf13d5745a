---------------------------- MODULE RxRingProofs ----------------------------
(***************************************************************************)
(* Proofs about the receive ring, for every number of buffers, every       *)
(* length of the frames and every mode of the channel: its types, the      *)
(* unlocked copy of read(), and that the ring of an HDLC channel           *)
(* implements FrameReceiver.                                               *)
(***************************************************************************)
EXTENDS RxRing, SequenceTheorems, TLAPS

\* The two indices never meet: a ring that is full or empty says so with None.
IndicesDiffer == inreadbuf # outreadbuf

ReaderInRing == pc = "copy" => res \in 0 .. numbufs - 1

\* What DAHDI_FLUSH, dahdi_hangup() and DAHDI_SET_BUFINFO do, as the code lets them.
Kept ==
    /\ "flush" \notin Ops[mode]
    /\ mode = "audio" => "hangup" \notin Ops[mode]

HeadKept == pc = "copy" /\ Kept => res = outreadbuf /\ res # inreadbuf

\* The mode of a channel never changes, so this is a property of the channel: its
\* ring is never reset while the check sequence is followed in software.
Unbroken == Checked /\ Ops[mode] \cap {"flush", "bufinfo"} = {}

\* The slots between the two indices hold what was received.
Holds(i) ==
    /\ outreadbuf # None
    /\ \/ inreadbuf = None
       \/ outreadbuf < inreadbuf /\ outreadbuf <= i /\ i < inreadbuf
       \/ inreadbuf < outreadbuf /\ (outreadbuf <= i \/ i < inreadbuf)

\* A buffer that was read is empty when the interrupt comes to it.
FreeClean ==
    \A i \in 0 .. numbufs - 1 : ~Holds(i) /\ i # inreadbuf => readidx[i] = 0

\* Between frames the buffer is empty.
Fresh == inreadbuf # None /\ (searching \/ infcs = "init") => readidx[inreadbuf] = 0

\* If the check sequence was run over the whole frame, and only over it, then the
\* buffer holds it.
Whole ==
    infcs = "frame" => /\ inreadbuf # None
                       /\ sent = Bytes(inreadbuf, readidx[inreadbuf])

\* The last frame is in the slot before the one that is filled now, read or not.
Front == IF inreadbuf = None THEN outreadbuf ELSE inreadbuf
Before(i) == IF i = 0 THEN numbufs - 1 ELSE i - 1
LastBehind ==
    last # <<>> => /\ Len(last) \in 1 .. BlockSize
                   /\ Bytes(Before(Front), Len(last)) = last

\* The inductive invariant.
RingInv  == TypeOK /\ IndicesDiffer /\ ReaderInRing /\ HeadKept
FrameInv == Unbroken => FreeClean /\ Fresh /\ Whole
LastInv  == Unbroken => LastBehind
IInv     == RingInv /\ FrameInv /\ LastInv

-----------------------------------------------------------------------------
(* Operators.                                                              *)

LEMMA NumBufsType ==
    ASSUME numbufs \in Sizes[mode], mode \in Modes
    PROVE  numbufs \in 2 .. MaxNumBufs /\ MaxNumBufs \in 2 .. 32
BY SizesAssumption

LEMMA ModValue ==
    ASSUME NEW n \in Nat, n >= 2, NEW x \in 0 .. 2 * n - 1
    PROVE  x % n = IF x < n THEN x ELSE x - n
<1>1. CASE x < n
  BY <1>1, SMT
<1>2. CASE x >= n
  <2>1. x = 1 * n + (x - n)
    BY SMT
  <2> QED BY <1>2, <2>1, SMT
<1> QED BY <1>1, <1>2

\* The successor of an index without the modulus.
LEMMA FollowingValue ==
    ASSUME numbufs \in Nat, numbufs >= 2, NEW i \in 0 .. numbufs - 1
    PROVE  /\ Following(i) = IF i + 1 = numbufs THEN 0 ELSE i + 1
           /\ Following(i) \in 0 .. numbufs - 1
           /\ Following(i) # i
<1>1. (i + 1) % numbufs = IF i + 1 < numbufs THEN i + 1 ELSE i + 1 - numbufs
  <2>1. i + 1 \in 0 .. 2 * numbufs - 1
    OBVIOUS
  <2> QED BY <2>1, ModValue
<1> QED BY <1>1 DEF Following

LEMMA BytesType ==
    ASSUME TypeOK, NEW i \in Slots, NEW n \in 0 .. BlockSize
    PROVE  Bytes(i, n) \in Seq(Data) /\ Len(Bytes(i, n)) = n
<1>1. \A k \in 1 .. n : readbuf[i][k - 1] \in Data
  <2> SUFFICES ASSUME NEW k \in 1 .. n PROVE readbuf[i][k - 1] \in Data
    OBVIOUS
  <2>1. k - 1 \in 0 .. BlockSize - 1
    BY BlockAssumption
  <2>2. readbuf[i] \in [0 .. BlockSize - 1 -> Data]
    BY DEF TypeOK
  <2> QED BY <2>1, <2>2
<1>2. n \in Nat
  BY BlockAssumption
<1> QED BY <1>1, <1>2 DEF Bytes

LEMMA WokenType ==
    ASSUME TypeOK
    PROVE  /\ Woken \in {"idle", "check", "gap", "asleep", "copy"}
           /\ Woken = "copy" => pc = "copy"
BY DEF Woken, TypeOK

\* Report changes the reader's place only by waking it.
LEMMA ReportType ==
    ASSUME TypeOK, Report
    PROVE  /\ eventq' \in BOOLEAN
           /\ pc' \in {"idle", "check", "gap", "asleep", "copy"}
           /\ pc' = "copy" => pc = "copy"
BY WokenType DEF Report, TypeOK

\* The index the interrupt takes next is never the one that is read next.
LEMMA NextInType ==
    ASSUME TypeOK, NEW in \in 0 .. numbufs - 1
    PROVE  /\ NextIn(in) \in {None} \cup 0 .. numbufs - 1
           /\ NextIn(in) # in
           /\ outreadbuf # None => NextIn(in) # outreadbuf
<1>1. numbufs \in Nat /\ numbufs >= 2
  BY NumBufsType DEF TypeOK
<1> QED BY <1>1, FollowingValue DEF NextIn, None

LEMMA StoreType ==
    ASSUME TypeOK, NEW in \in Slots, NEW d \in Data, Store(in, d), readidx[in] < BlockSize
    PROVE  /\ readbuf' \in [Slots -> [0 .. BlockSize - 1 -> Data]]
           /\ readidx' \in [Slots -> 0 .. BlockSize]
<1>1. readidx[in] \in 0 .. BlockSize - 1 /\ readidx[in] + 1 \in 0 .. BlockSize
  BY BlockAssumption DEF TypeOK
<1>2. readbuf[in] \in [0 .. BlockSize - 1 -> Data]
  BY DEF TypeOK
<1> DEFINE b == [readbuf[in] EXCEPT ![readidx[in]] = d]
<1>3. b \in [0 .. BlockSize - 1 -> Data]
  BY <1>1, <1>2
<1>4. readbuf' = [readbuf EXCEPT ![in] = b]
  BY DEF Store
<1> HIDE DEF b
<1> QED BY <1>1, <1>3, <1>4 DEF TypeOK, Store

-----------------------------------------------------------------------------
(* Types and the shape of the ring.                                        *)

Places == {"idle", "check", "gap", "asleep", "copy"}

\* What keeps the indices, and starts no copy, keeps the shape of the ring.
LEMMA QuietShape ==
    ASSUME RingInv, UNCHANGED <<index, res>>, pc' = "copy" => pc = "copy"
    PROVE  IndicesDiffer' /\ ReaderInRing' /\ HeadKept'
BY DEF RingInv, index, IndicesDiffer, ReaderInRing, HeadKept, Kept

\* The interrupt's buffer, if there is one.
LEMMA FrontType ==
    ASSUME TypeOK
    PROVE  /\ numbufs \in 2 .. MaxNumBufs /\ MaxNumBufs \in 2 .. 32
           /\ numbufs \in Nat /\ numbufs >= 2
           /\ \A i \in 0 .. numbufs - 1 : i \in Slots
           /\ inreadbuf # None => /\ inreadbuf \in 0 .. numbufs - 1 /\ inreadbuf \in Slots
                                  /\ readidx[inreadbuf] \in 0 .. BlockSize
           /\ outreadbuf # None => outreadbuf \in 0 .. numbufs - 1 /\ outreadbuf \in Slots
           /\ BlockSize \in Nat \ {0}
<1>1. numbufs \in 2 .. MaxNumBufs /\ MaxNumBufs \in 2 .. 32
  BY NumBufsType DEF TypeOK
<1>2. \A i \in 0 .. numbufs - 1 : i \in Slots
  BY <1>1 DEF Slots
<1>3. inreadbuf # None => inreadbuf \in 0 .. numbufs - 1
  BY DEF TypeOK
<1>4. outreadbuf # None => outreadbuf \in 0 .. numbufs - 1
  BY DEF TypeOK
<1>5. inreadbuf # None => readidx[inreadbuf] \in 0 .. BlockSize
  BY <1>2, <1>3 DEF TypeOK
<1> QED BY <1>1, <1>2, <1>3, <1>4, <1>5, BlockAssumption

LEMMA RotateStep ==
    ASSUME RingInv, inreadbuf # None, NEW n \in 0 .. BlockSize,
           Rotate(inreadbuf, n), UNCHANGED <<numbufs, mode, res>>
    PROVE  /\ readn' \in [Slots -> 0 .. BlockSize]
           /\ inreadbuf' \in {None} \cup 0 .. numbufs - 1
           /\ outreadbuf' \in {None} \cup 0 .. numbufs - 1
           /\ pc' \in Places
           /\ IndicesDiffer' /\ ReaderInRing' /\ HeadKept'
<1>1. /\ TypeOK /\ numbufs \in 2 .. MaxNumBufs /\ MaxNumBufs \in 2 .. 32
      /\ inreadbuf \in 0 .. numbufs - 1 /\ inreadbuf \in Slots
  BY FrontType DEF RingInv
<1>2. /\ NextIn(inreadbuf) \in {None} \cup 0 .. numbufs - 1
      /\ NextIn(inreadbuf) # inreadbuf
      /\ outreadbuf # None => NextIn(inreadbuf) # outreadbuf
  BY <1>1, NextInType
<1>3. /\ readn' = [readn EXCEPT ![inreadbuf] = n]
      /\ inreadbuf' = NextIn(inreadbuf)
      /\ outreadbuf' = IF outreadbuf = None THEN inreadbuf ELSE outreadbuf
      /\ pc' = Woken
  BY DEF Rotate
<1>4. readn' \in [Slots -> 0 .. BlockSize]
  BY <1>1, <1>3 DEF TypeOK
<1>5. pc' \in Places /\ (pc' = "copy" => pc = "copy")
  BY <1>1, <1>3, WokenType DEF Places
<1>6. outreadbuf' \in {None} \cup 0 .. numbufs - 1 /\ IndicesDiffer'
  BY <1>1, <1>2, <1>3 DEF IndicesDiffer, TypeOK
<1>7. ReaderInRing'
  BY <1>5 DEF RingInv, ReaderInRing
<1>8. HeadKept'
  <2> SUFFICES ASSUME pc' = "copy", Kept' PROVE (res = outreadbuf /\ res # inreadbuf)'
    BY DEF HeadKept
  <2>1. pc = "copy" /\ Kept
    BY <1>5 DEF Kept
  <2>2. res = outreadbuf /\ res # None
    BY <2>1, <1>1 DEF RingInv, HeadKept, ReaderInRing, None
  <2> QED BY <2>2, <1>2, <1>3
<1> QED BY <1>2, <1>3, <1>4, <1>5, <1>6, <1>7, <1>8

LEMMA FirstIndex ==
    ASSUME NEW n \in Nat, n >= 2
    PROVE  0 \in 0 .. n - 1
OBVIOUS

LEMMA ResetType ==
    ASSUME TypeOK, Reset, numbufs' \in 2 .. MaxNumBufs
    PROVE  /\ inreadbuf' \in {None} \cup 0 .. numbufs' - 1
           /\ outreadbuf' \in {None} \cup 0 .. numbufs' - 1
           /\ readn' \in [Slots -> 0 .. BlockSize]
           /\ readidx' \in [Slots -> 0 .. BlockSize]
           /\ IndicesDiffer'
<1>1. MaxNumBufs \in 2 .. 32
  BY SizesAssumption
<1>2. /\ inreadbuf' \in {None} \cup 0 .. numbufs' - 1
      /\ outreadbuf' \in {None} \cup 0 .. numbufs' - 1
      /\ IndicesDiffer'
  <2>1. inreadbuf' = 0 /\ outreadbuf' = None
    BY DEF Reset
  <2>2. numbufs' \in Nat /\ numbufs' >= 2
    BY <1>1
  <2>3. 0 \in 0 .. numbufs' - 1
    BY <2>2, FirstIndex
  <2>4. IndicesDiffer'
    BY <2>1 DEF None, IndicesDiffer
  <2> QED BY <2>1, <2>3, <2>4
<1>3. 0 \in 0 .. BlockSize
  BY BlockAssumption
<1> QED BY <1>2, <1>3 DEF Reset, TypeOK

\* Types of what a step leaves alone: the cases below say what it changes.
LEMMA AudioByteShape == RingInv /\ AudioByte => RingInv'
<1> SUFFICES ASSUME RingInv, AudioByte PROVE RingInv'
  OBVIOUS
<1>1. /\ TypeOK /\ numbufs \in 2 .. MaxNumBufs /\ MaxNumBufs \in 2 .. 32
      /\ inreadbuf # None /\ inreadbuf \in 0 .. numbufs - 1 /\ inreadbuf \in Slots
      /\ UNCHANGED <<numbufs, mode, infcs, searching, sent, last, eventq, res>>
      /\ readidx[inreadbuf] \in 0 .. BlockSize
      /\ BlockSize \in Nat /\ Zero \in Data
  BY FrontType, DataAssumption DEF RingInv, AudioByte, deframer
<1>2. CASE /\ readidx[inreadbuf] + 1 < BlockSize
           /\ Store(inreadbuf, Zero)
           /\ UNCHANGED <<readn, inreadbuf, outreadbuf, pc>>
  <2>1. /\ readbuf' \in [Slots -> [0 .. BlockSize - 1 -> Data]]
        /\ readidx' \in [Slots -> 0 .. BlockSize]
    BY <1>1, <1>2, StoreType
  <2>2. IndicesDiffer' /\ ReaderInRing' /\ HeadKept'
    BY <1>1, <1>2, QuietShape DEF index
  <2> QED BY <1>1, <1>2, <2>1, <2>2 DEF RingInv, TypeOK
<1>3. CASE /\ readidx[inreadbuf] + 1 = BlockSize
           /\ Store(inreadbuf, Zero)
           /\ Rotate(inreadbuf, BlockSize)
  <2>1. /\ readbuf' \in [Slots -> [0 .. BlockSize - 1 -> Data]]
        /\ readidx' \in [Slots -> 0 .. BlockSize]
    BY <1>1, <1>3, StoreType
  <2>2. BlockSize \in 0 .. BlockSize
    BY <1>1
  <2> QED BY <1>1, <1>3, <2>1, <2>2, RotateStep DEF RingInv, TypeOK, Places
<1>4. CASE /\ readidx[inreadbuf] = BlockSize
           /\ Rotate(inreadbuf, BlockSize)
           /\ UNCHANGED <<readidx, readbuf>>
  <2>2. BlockSize \in 0 .. BlockSize
    BY <1>1
  <2> QED BY <1>1, <1>4, <2>2, RotateStep DEF RingInv, TypeOK, Places
<1> QED BY <1>2, <1>3, <1>4 DEF AudioByte

LEMMA LineByteShape ==
    ASSUME RingInv, NEW d \in Data, LineByte(d)
    PROVE  RingInv'
<1>1. /\ TypeOK /\ numbufs \in 2 .. MaxNumBufs /\ MaxNumBufs \in 2 .. 32
      /\ BlockSize \in Nat
      /\ sent' \in Seq(Data)
  BY NumBufsType, BlockAssumption DEF RingInv, TypeOK, LineByte
<1>2. inreadbuf # None => inreadbuf \in 0 .. numbufs - 1 /\ inreadbuf \in Slots
                          /\ readidx[inreadbuf] \in 0 .. BlockSize
  BY <1>1, FrontType
<1>3. CASE DataByte(d)
  <2>1. /\ readbuf' \in [Slots -> [0 .. BlockSize - 1 -> Data]]
        /\ readidx' \in [Slots -> 0 .. BlockSize]
    BY <1>1, <1>2, <1>3, StoreType DEF DataByte, Deframing
  <2>2. IndicesDiffer' /\ ReaderInRing' /\ HeadKept'
    BY <1>3, QuietShape DEF DataByte, reader
  <2>3. infcs' \in {"init", "frame", "other"}
    BY <1>1, <1>3 DEF DataByte, FcsSeen, TypeOK
  <2> QED BY <1>1, <1>3, <2>1, <2>2, <2>3 DEF DataByte, RingInv, TypeOK, index, reader
<1>4. CASE OverrunByte(d)
  <2>1. inreadbuf \in Slots /\ 0 \in 0 .. BlockSize
    BY <1>1, <1>2, <1>4 DEF OverrunByte, Deframing
  <2>2. readbuf' \in [Slots -> [0 .. BlockSize - 1 -> Data]]
    <3> DEFINE b == [readbuf[inreadbuf] EXCEPT ![readidx[inreadbuf]] = d]
    <3>1. b \in [0 .. BlockSize - 1 -> Data]
      BY <1>1, <2>1 DEF TypeOK
    <3>2. readbuf' = [readbuf EXCEPT ![inreadbuf] = b]
      BY <1>4 DEF OverrunByte
    <3> HIDE DEF b
    <3> QED BY <1>1, <2>1, <3>1, <3>2 DEF TypeOK
  <2>3. readidx' \in [Slots -> 0 .. BlockSize]
    BY <1>1, <2>1, <1>4 DEF OverrunByte, StartOver, TypeOK
  <2>4. /\ eventq' \in BOOLEAN /\ pc' \in Places
        /\ pc' = "copy" => pc = "copy"
    BY <1>1, <1>4, ReportType DEF OverrunByte, StartOver, Places
  <2>5. IndicesDiffer' /\ ReaderInRing' /\ HeadKept'
    BY <1>4, <2>4, QuietShape DEF OverrunByte
  <2> QED BY <1>1, <1>4, <2>2, <2>3, <2>4, <2>5
          DEF OverrunByte, RingInv, TypeOK, index, Places
<1>5. CASE UnseenByte
  <2>1. IndicesDiffer' /\ ReaderInRing' /\ HeadKept'
    BY <1>5, QuietShape DEF UnseenByte, reader
  <2>2. infcs' \in {"init", "frame", "other"}
    BY <1>1, <1>5 DEF UnseenByte, FcsMissed, TypeOK
  <2> QED BY <1>1, <1>5, <2>1, <2>2 DEF UnseenByte, RingInv, TypeOK, index, buffers, reader
<1> QED BY <1>3, <1>4, <1>5 DEF LineByte

LEMMA LineFlagShape ==
    ASSUME RingInv, NEW ok \in BOOLEAN, LineFlag(ok)
    PROVE  RingInv'
<1>1. /\ TypeOK /\ numbufs \in 2 .. MaxNumBufs /\ MaxNumBufs \in 2 .. 32
      /\ BlockSize \in Nat /\ 0 \in 0 .. BlockSize
      /\ sent' \in Seq(Data)
  BY NumBufsType, BlockAssumption DEF RingInv, TypeOK, LineFlag
<1>2. inreadbuf # None => inreadbuf \in 0 .. numbufs - 1 /\ inreadbuf \in Slots
                          /\ readidx[inreadbuf] \in 0 .. BlockSize
  BY <1>1, FrontType
<1>3. CASE GoodFrame(ok)
  <2>1. /\ inreadbuf # None /\ infcs' = "init"
        /\ UNCHANGED <<readbuf, numbufs, mode, searching, eventq, res>>
    BY <1>3 DEF GoodFrame, Deframing
  <2>2. CASE Repeated(inreadbuf)
    <3>1. /\ readn' = [readn EXCEPT ![inreadbuf] = 0]
          /\ readidx' = [readidx EXCEPT ![inreadbuf] = 0]
          /\ UNCHANGED <<inreadbuf, outreadbuf, pc, last>>
      BY <1>3, <2>2 DEF GoodFrame
    <3>2. IndicesDiffer' /\ ReaderInRing' /\ HeadKept'
      BY <2>1, <3>1, QuietShape DEF index
    <3> QED BY <1>1, <1>2, <2>1, <3>1, <3>2 DEF RingInv, TypeOK
  <2>3. CASE ~Repeated(inreadbuf)
    <3>1. /\ Rotate(inreadbuf, readidx[inreadbuf])
          /\ last' = Bytes(inreadbuf, readidx[inreadbuf])
          /\ UNCHANGED readidx
      BY <1>3, <2>3 DEF GoodFrame
    <3>2. last' \in Seq(Data)
      BY <1>1, <1>2, <2>1, <3>1, BytesType
    <3>3. /\ readn' \in [Slots -> 0 .. BlockSize]
          /\ inreadbuf' \in {None} \cup 0 .. numbufs - 1
          /\ outreadbuf' \in {None} \cup 0 .. numbufs - 1
          /\ pc' \in Places
          /\ IndicesDiffer' /\ ReaderInRing' /\ HeadKept'
      BY <1>2, <2>1, <3>1, RotateStep
    <3> QED BY <1>1, <2>1, <3>1, <3>2, <3>3 DEF RingInv, TypeOK, Places
  <2> QED BY <2>2, <2>3
<1>4. CASE BadFrame(ok)
  <2>1. /\ inreadbuf # None /\ infcs' = "init"
        /\ StartOver(inreadbuf)
        /\ UNCHANGED <<index, readn, readbuf, searching, last, res>>
    BY <1>4 DEF BadFrame, Deframing
  <2>2. readidx' \in [Slots -> 0 .. BlockSize]
    BY <1>1, <1>2, <2>1 DEF StartOver, TypeOK
  <2>3. /\ eventq' \in BOOLEAN /\ pc' \in Places
        /\ pc' = "copy" => pc = "copy"
    BY <1>1, <2>1, ReportType DEF StartOver, Places
  <2>4. IndicesDiffer' /\ ReaderInRing' /\ HeadKept'
    BY <2>1, <2>3, QuietShape
  <2> QED BY <1>1, <2>1, <2>2, <2>3, <2>4 DEF RingInv, TypeOK, Places, index
<1>5. CASE EmptyFrame \/ UnseenFlag
  <2>1. /\ infcs' = FcsKept /\ searching' \in {FALSE, searching}
        /\ UNCHANGED <<index, buffers, last, eventq, reader>>
    BY <1>5 DEF EmptyFrame, UnseenFlag
  <2>2. IndicesDiffer' /\ ReaderInRing' /\ HeadKept'
    BY <2>1, QuietShape DEF reader
  <2>3. infcs' \in {"init", "frame", "other"} /\ searching' \in BOOLEAN
    BY <1>1, <2>1 DEF FcsKept, TypeOK
  <2> QED BY <1>1, <2>1, <2>2, <2>3 DEF RingInv, TypeOK, index, buffers, reader
<1> QED BY <1>3, <1>4, <1>5 DEF LineFlag

LEMMA HdlcPutbufShape ==
    ASSUME RingInv, NEW d \in Data, HdlcPutbuf(d)
    PROVE  RingInv'
<1>1. /\ TypeOK /\ 0 \in 0 .. BlockSize
      /\ sent' \in Seq(Data)
      /\ UNCHANGED <<index, infcs, searching, last, res>>
  BY FrontType DEF RingInv, TypeOK, HdlcPutbuf, deframer
<1>2. CASE inreadbuf = None /\ UNCHANGED <<buffers, eventq, pc>>
  <2>1. IndicesDiffer' /\ ReaderInRing' /\ HeadKept'
    BY <1>1, <1>2, QuietShape
  <2> QED BY <1>1, <1>2, <2>1 DEF RingInv, TypeOK, index, buffers
<1>3. CASE /\ inreadbuf # None
           /\ readidx[inreadbuf] < BlockSize
           /\ Store(inreadbuf, d)
           /\ UNCHANGED <<readn, eventq, pc>>
  <2>1. /\ readbuf' \in [Slots -> [0 .. BlockSize - 1 -> Data]]
        /\ readidx' \in [Slots -> 0 .. BlockSize]
    BY <1>1, <1>3, FrontType, StoreType
  <2>2. IndicesDiffer' /\ ReaderInRing' /\ HeadKept'
    BY <1>1, <1>3, QuietShape
  <2> QED BY <1>1, <1>3, <2>1, <2>2 DEF RingInv, TypeOK, index
<1>4. CASE /\ inreadbuf # None
           /\ readidx[inreadbuf] >= BlockSize
           /\ StartOver(inreadbuf)
           /\ UNCHANGED <<readn, readbuf>>
  <2>1. readidx' \in [Slots -> 0 .. BlockSize]
    BY <1>1, <1>4, FrontType DEF StartOver, TypeOK
  <2>2. /\ eventq' \in BOOLEAN /\ pc' \in Places
        /\ pc' = "copy" => pc = "copy"
    BY <1>1, <1>4, ReportType DEF StartOver, Places
  <2>3. IndicesDiffer' /\ ReaderInRing' /\ HeadKept'
    BY <1>1, <2>2, QuietShape
  <2> QED BY <1>1, <1>4, <2>1, <2>2, <2>3 DEF RingInv, TypeOK, Places, index
<1> QED BY <1>2, <1>3, <1>4 DEF HdlcPutbuf

LEMMA HdlcFinishShape == RingInv /\ HdlcFinish => RingInv'
<1> SUFFICES ASSUME RingInv, HdlcFinish PROVE RingInv'
  OBVIOUS
<1>1. /\ TypeOK /\ sent' \in Seq(Data)
      /\ UNCHANGED <<readidx, readbuf, numbufs, mode, infcs, searching, last, eventq, res>>
  BY DEF RingInv, HdlcFinish, deframer
<1>2. CASE inreadbuf # None /\ readidx[inreadbuf] > 0
  <2>1. Rotate(inreadbuf, readidx[inreadbuf]) /\ readidx[inreadbuf] \in 0 .. BlockSize
    BY <1>1, <1>2, FrontType DEF HdlcFinish
  <2>2. /\ readn' \in [Slots -> 0 .. BlockSize]
        /\ inreadbuf' \in {None} \cup 0 .. numbufs - 1
        /\ outreadbuf' \in {None} \cup 0 .. numbufs - 1
        /\ pc' \in Places
        /\ IndicesDiffer' /\ ReaderInRing' /\ HeadKept'
    BY <1>1, <1>2, <2>1, RotateStep
  <2> QED BY <1>1, <2>2 DEF RingInv, TypeOK, Places
<1>3. CASE ~(inreadbuf # None /\ readidx[inreadbuf] > 0)
  <2>1. UNCHANGED <<readn, inreadbuf, outreadbuf, pc>>
    BY <1>3 DEF HdlcFinish
  <2>2. IndicesDiffer' /\ ReaderInRing' /\ HeadKept'
    BY <1>1, <2>1, QuietShape DEF index
  <2> QED BY <1>1, <2>1, <2>2 DEF RingInv, TypeOK
<1> QED BY <1>2, <1>3

LEMMA HdlcAbortShape == RingInv /\ HdlcAbort => RingInv'
<1> SUFFICES ASSUME RingInv, HdlcAbort PROVE RingInv'
  OBVIOUS
<1>1. /\ TypeOK /\ sent' \in Seq(Data) /\ 0 \in 0 .. BlockSize
      /\ UNCHANGED <<index, readn, readbuf, infcs, searching, last, res>>
      /\ Report
      /\ readidx' = IF inreadbuf = None THEN readidx ELSE [readidx EXCEPT ![inreadbuf] = 0]
  BY FrontType DEF RingInv, HdlcAbort, deframer
<1>2. readidx' \in [Slots -> 0 .. BlockSize]
  BY <1>1 DEF TypeOK
<1>3. /\ eventq' \in BOOLEAN /\ pc' \in Places
      /\ pc' = "copy" => pc = "copy"
  BY <1>1, ReportType DEF Places
<1>4. IndicesDiffer' /\ ReaderInRing' /\ HeadKept'
  BY <1>1, <1>3, QuietShape
<1> QED BY <1>1, <1>2, <1>3, <1>4 DEF RingInv, TypeOK, Places, index

\* What read() does under the lock, but for the return of a buffer.
LEMMA ReaderShape ==
    ASSUME RingInv,
           \/ BeginRead \/ ReadEvent \/ ReadEmpty \/ ReadStart \/ ReadFault \/ Sleep \/ Signal
    PROVE  RingInv'
<1>1. /\ TypeOK /\ pc' \in Places
      /\ UNCHANGED <<index, buffers, deframer, sent, last, eventq>>
  BY DEF RingInv, BeginRead, ReadEvent, ReadEmpty, ReadStart, ReadFault, Sleep, Signal, Places
<1>2. CASE ReadStart
  <2>1. outreadbuf # None /\ res' = outreadbuf /\ outreadbuf \in Slots
        /\ outreadbuf \in 0 .. numbufs - 1
    BY <1>1, <1>2, FrontType DEF ReadStart
  <2>2. IndicesDiffer' /\ ReaderInRing' /\ HeadKept'
    BY <1>1, <2>1 DEF RingInv, IndicesDiffer, ReaderInRing, HeadKept, index
  <2> QED BY <1>1, <2>1, <2>2 DEF RingInv, TypeOK, Places, index, buffers, deframer
<1>3. CASE ~ReadStart
  <2>1. UNCHANGED res /\ pc' # "copy"
    BY <1>3 DEF BeginRead, ReadEvent, ReadEmpty, ReadStart, ReadFault, Sleep, Signal
  <2>2. IndicesDiffer' /\ ReaderInRing' /\ HeadKept'
    BY <1>1, <2>1, QuietShape
  <2> QED BY <1>1, <2>1, <2>2 DEF RingInv, TypeOK, Places, index, buffers, deframer
<1> QED BY <1>2, <1>3

LEMMA ReadDoneShape == RingInv /\ ReadDone => RingInv'
<1> SUFFICES ASSUME RingInv, ReadDone PROVE RingInv'
  OBVIOUS
<1>1. /\ TypeOK /\ 0 \in 0 .. BlockSize
      /\ numbufs \in 2 .. MaxNumBufs /\ MaxNumBufs \in 2 .. 32
      /\ res \in 0 .. numbufs - 1 /\ res \in Slots
  BY FrontType DEF RingInv, ReadDone, ReaderInRing, TypeOK
<1>2. /\ readidx' = [readidx EXCEPT ![res] = 0]
      /\ readn' = [readn EXCEPT ![res] = 0]
      /\ outreadbuf' = IF Following(res) = inreadbuf THEN None ELSE Following(res)
      /\ inreadbuf' = IF inreadbuf = None THEN res ELSE inreadbuf
      /\ pc' = "idle"
      /\ UNCHANGED <<readbuf, numbufs, mode, infcs, searching, sent, last, eventq, res>>
  BY DEF ReadDone, Emptied, Release, deframer
<1>3. Following(res) \in 0 .. numbufs - 1 /\ Following(res) # res
  BY <1>1, FollowingValue
<1>4. /\ readn' \in [Slots -> 0 .. BlockSize]
      /\ readidx' \in [Slots -> 0 .. BlockSize]
  BY <1>1, <1>2 DEF TypeOK
<1>5. /\ inreadbuf' \in {None} \cup 0 .. numbufs - 1
      /\ outreadbuf' \in {None} \cup 0 .. numbufs - 1
      /\ inreadbuf' # outreadbuf'
  BY <1>1, <1>2, <1>3 DEF TypeOK, None
<1>6. IndicesDiffer' /\ ReaderInRing' /\ HeadKept'
  BY <1>2, <1>5 DEF IndicesDiffer, ReaderInRing, HeadKept
<1> QED BY <1>1, <1>2, <1>4, <1>5, <1>6 DEF RingInv, TypeOK

LEMMA ResetShape ==
    ASSUME RingInv, Flush \/ Hangup \/ \E n \in Sizes[mode] : Realloc(n)
    PROVE  RingInv'
<1>1. /\ TypeOK /\ Reset /\ UNCHANGED <<mode, infcs, searching, sent, last, eventq, res>>
      /\ numbufs' \in Sizes[mode] /\ numbufs' \in 2 .. MaxNumBufs
      /\ pc' \in Places /\ (pc' = "copy" => pc = "copy")
      /\ ~Kept \/ pc = "idle"
  <2>1. CASE Flush
    BY <2>1, FrontType, WokenType DEF RingInv, TypeOK, Flush, Places, Kept, deframer
  <2>2. CASE Hangup
    BY <2>2, FrontType DEF RingInv, TypeOK, Hangup, Places, Kept, deframer, reader
  <2>3. ASSUME NEW n \in Sizes[mode], Realloc(n)
        PROVE  /\ TypeOK /\ Reset
               /\ UNCHANGED <<mode, infcs, searching, sent, last, eventq, res>>
               /\ numbufs' \in Sizes[mode] /\ numbufs' \in 2 .. MaxNumBufs
               /\ pc' \in Places /\ (pc' = "copy" => pc = "copy")
               /\ ~Kept \/ pc = "idle"
    BY <2>3, SizesAssumption DEF RingInv, TypeOK, Realloc, Places, Kept, deframer, reader
  <2> QED BY <2>1, <2>2, <2>3
<1>2. /\ inreadbuf' \in {None} \cup 0 .. numbufs' - 1
      /\ outreadbuf' \in {None} \cup 0 .. numbufs' - 1
      /\ readn' \in [Slots -> 0 .. BlockSize]
      /\ readidx' \in [Slots -> 0 .. BlockSize]
      /\ IndicesDiffer'
  BY <1>1, ResetType
<1>3. readbuf' \in [Slots -> [0 .. BlockSize - 1 -> Data]]
  <2>1. UNCHANGED readbuf
        \/ \E n : readbuf' = [i \in Slots |-> IF i < n THEN [k \in 0 .. BlockSize - 1 |-> Zero]
                                                       ELSE readbuf[i]]
    BY DEF Flush, Hangup, Realloc
  <2> QED BY <1>1, <2>1, DataAssumption DEF TypeOK
<1>4. ReaderInRing'
  <2>1. pc' = "copy" => UNCHANGED numbufs
    BY DEF Flush, Hangup, Realloc, reader
  <2> QED BY <1>1, <2>1 DEF RingInv, ReaderInRing
<1>5. HeadKept'
  BY <1>1 DEF HeadKept, Kept
<1> QED BY <1>1, <1>2, <1>3, <1>4, <1>5 DEF RingInv, TypeOK, Places

LEMMA EventShape == RingInv /\ (QEvent \/ DrainEvents) => RingInv'
<1> SUFFICES ASSUME RingInv, QEvent \/ DrainEvents PROVE RingInv'
  OBVIOUS
<1>1. /\ TypeOK /\ UNCHANGED <<index, buffers, deframer, sent, last, res>>
      /\ eventq' \in BOOLEAN
      /\ pc' \in Places /\ (pc' = "copy" => pc = "copy")
  BY WokenType DEF RingInv, TypeOK, QEvent, DrainEvents, Places, reader
<1>2. IndicesDiffer' /\ ReaderInRing' /\ HeadKept'
  BY <1>1, QuietShape
<1> QED BY <1>1, <1>2 DEF RingInv, TypeOK, Places, index, buffers, deframer

LEMMA NextRingInv == RingInv /\ [Next]_vars => RingInv'
<1> SUFFICES ASSUME RingInv, [Next]_vars PROVE RingInv'
  OBVIOUS
<1>1. CASE AudioByte
  BY <1>1, AudioByteShape
<1>2. ASSUME NEW d \in Data, LineByte(d) PROVE RingInv'
  BY <1>2, LineByteShape
<1>3. ASSUME NEW d \in Data, HdlcPutbuf(d) PROVE RingInv'
  BY <1>3, HdlcPutbufShape
<1>4. ASSUME NEW ok \in BOOLEAN, LineFlag(ok) PROVE RingInv'
  BY <1>4, LineFlagShape
<1>5. CASE HdlcFinish \/ HdlcAbort
  BY <1>5, HdlcFinishShape, HdlcAbortShape
<1>6. CASE BeginRead \/ ReadEvent \/ ReadEmpty \/ ReadStart \/ ReadFault \/ Sleep \/ Signal
  BY <1>6, ReaderShape
<1>7. CASE ReadDone
  BY <1>7, ReadDoneShape
<1>8. CASE Flush \/ Hangup \/ \E n \in Sizes[mode] : Realloc(n)
  BY <1>8, ResetShape
<1>9. CASE QEvent \/ DrainEvents
  BY <1>9, EventShape
<1>10. CASE UNCHANGED vars
  <2>1. UNCHANGED <<index, buffers, deframer, sent, last, eventq, pc, res>>
    BY <1>10 DEF vars, reader
  <2>2. IndicesDiffer' /\ ReaderInRing' /\ HeadKept'
    BY <2>1, QuietShape
  <2> QED BY <2>1, <2>2 DEF RingInv, TypeOK, index, buffers, deframer
<1> QED BY <1>1, <1>2, <1>3, <1>4, <1>5, <1>6, <1>7, <1>8, <1>9, <1>10
        DEF Next, Line, ReaderStep

LEMMA InitRingInv == Init => RingInv
<1> SUFFICES ASSUME Init PROVE RingInv
  OBVIOUS
<1>1. numbufs \in 2 .. MaxNumBufs /\ MaxNumBufs \in 2 .. 32
  BY NumBufsType DEF Init
<1>2. 0 \in 0 .. numbufs - 1 /\ 0 \in Slots /\ 0 \in 0 .. BlockSize /\ Zero \in Data
  BY <1>1, BlockAssumption, DataAssumption DEF Slots
<1>3. TypeOK
  <2>1. /\ readn \in [Slots -> 0 .. BlockSize]
        /\ readidx \in [Slots -> 0 .. BlockSize]
        /\ readbuf \in [Slots -> [0 .. BlockSize - 1 -> Data]]
    BY <1>2 DEF Init
  <2>2. sent \in Seq(Data) /\ last \in Seq(Data)
    BY DEF Init
  <2> QED BY <1>2, <2>1, <2>2 DEF Init, TypeOK
<1> QED BY <1>3 DEF Init, RingInv, IndicesDiffer, ReaderInRing, HeadKept, None

LEMMA RingInvariant == Spec => []RingInv
BY InitRingInv, NextRingInv, PTL DEF Spec

\* Every variable has its type: the indices stay within the buffers in use, and no
\* frame is longer than a buffer, whatever resets the ring.
THEOREM TypeCorrect == Spec => []TypeOK
<1>1. RingInv => TypeOK
  BY DEF RingInv
<1> QED BY RingInvariant, <1>1, PTL

\* The buffer that read() copies without chan->lock is never the one the interrupt
\* fills, and it is still the head of the ring when the copy is over, unless the
\* channel is flushed or hung up.
THEOREM CopyIsSafe == Spec => []HeadStaysPut
<1>1. RingInv => HeadStaysPut
  BY DEF RingInv, HeadKept, HeadStaysPut, Resets, Kept
<1> QED BY RingInvariant, <1>1, PTL

-----------------------------------------------------------------------------
(* What the buffers hold, while nothing resets the ring.                   *)

\* The first n bytes of a buffer, and the frames of m slots of a ring of n.
Cut(b, n) == [k \in 1 .. n |-> b[k - 1]]
Frames(o, n, m, len, buf) ==
    [k \in 1 .. m |-> Cut(buf[(o + k - 1) % n], len[(o + k - 1) % n])]

LEMMA ContentsAreFrames ==
    Contents = Frames(outreadbuf, numbufs, Filled, readn, readbuf)
BY DEF Contents, Frames, Cut, Bytes

LEMMA CutType ==
    ASSUME NEW n \in Nat, NEW b
    PROVE  /\ Len(Cut(b, n)) = n
           /\ DOMAIN Cut(b, n) = 1 .. n
           /\ n > 0 => Cut(b, n) # <<>>
           /\ n = 0 => Cut(b, n) = <<>>
BY DEF Cut

LEMMA CutStore ==
    ASSUME NEW n \in Nat, NEW m \in Nat, n < m, NEW d \in Data,
           NEW b \in [0 .. m - 1 -> Data]
    PROVE  Cut([b EXCEPT ![n] = d], n + 1) = Append(Cut(b, n), d)
<1> DEFINE c == [b EXCEPT ![n] = d]
<1>1. n \in 0 .. m - 1 /\ \A k \in 0 .. n - 1 : k \in 0 .. m - 1 /\ k # n
  OBVIOUS
<1>2. c[n] = d /\ \A k \in 0 .. n - 1 : c[k] = b[k]
  BY <1>1
<1> HIDE DEF c
<1>3. Cut(b, n) \in Seq(Data) /\ Len(Cut(b, n)) = n
  <2>1. \A k \in 1 .. n : b[k - 1] \in Data
    OBVIOUS
  <2> QED BY <2>1 DEF Cut
<1>4. \A k \in 1 .. n + 1 : Append(Cut(b, n), d)[k] = c[k - 1]
  <2> SUFFICES ASSUME NEW k \in 1 .. n + 1 PROVE Append(Cut(b, n), d)[k] = c[k - 1]
    OBVIOUS
  <2>1. CASE k = n + 1
    BY <1>2, <1>3, <2>1
  <2>2. CASE k # n + 1
    <3>1. k \in 1 .. n /\ k - 1 \in 0 .. n - 1
      BY <2>2
    <3>2. Append(Cut(b, n), d)[k] = Cut(b, n)[k]
      BY <1>3, <3>1
    <3>3. Cut(b, n)[k] = b[k - 1]
      BY <3>1 DEF Cut
    <3> QED BY <1>2, <3>1, <3>2, <3>3
  <2> QED BY <2>1, <2>2
<1>5. Cut(c, n + 1) \in Seq(Data) /\ Len(Cut(c, n + 1)) = n + 1
  <2>1. \A k \in 1 .. n + 1 : c[k - 1] \in Data
    <3>1. \A k \in 0 .. n : c[k] \in Data
      BY <1>1, <1>2
    <3>2. \A k \in 1 .. n + 1 : k - 1 \in 0 .. n
      OBVIOUS
    <3> QED BY <3>1, <3>2
  <2> QED BY <2>1 DEF Cut
<1>6. Append(Cut(b, n), d) \in Seq(Data) /\ Len(Append(Cut(b, n), d)) = n + 1
  BY <1>3
<1>7. \A k \in 1 .. n + 1 : Cut(c, n + 1)[k] = Append(Cut(b, n), d)[k]
  BY <1>4 DEF Cut
<1>8. Cut(c, n + 1) = Append(Cut(b, n), d)
  BY <1>5, <1>6, <1>7, SeqEqual, Zenon
<1> QED BY <1>8 DEF c

\* The slots of the ring, without the modulus.
LEMMA SlotValue ==
    ASSUME NEW n \in Nat, n >= 2, NEW o \in 0 .. n - 1, NEW k \in 1 .. n
    PROVE  /\ (o + k - 1) % n = IF o + k - 1 < n THEN o + k - 1 ELSE o + k - 1 - n
           /\ (o + k - 1) % n \in 0 .. n - 1
<1>1. o + k - 1 \in 0 .. 2 * n - 1
  OBVIOUS
<1>2. (o + k - 1) % n = IF o + k - 1 < n THEN o + k - 1 ELSE o + k - 1 - n
  BY <1>1, ModValue
<1> QED BY <1>1, <1>2

LEMMA FilledSlots ==
    ASSUME RingInv
    PROVE  /\ Filled \in 0 .. numbufs
           /\ inreadbuf # None => Filled < numbufs
           /\ outreadbuf # None => Filled > 0
           /\ \A k \in 1 .. Filled :
                 /\ (outreadbuf + k - 1) % numbufs \in 0 .. numbufs - 1
                 /\ Holds((outreadbuf + k - 1) % numbufs)
<1>1. /\ numbufs \in Nat /\ numbufs >= 2 /\ inreadbuf # outreadbuf
      /\ inreadbuf # None => inreadbuf \in 0 .. numbufs - 1
      /\ outreadbuf # None => outreadbuf \in 0 .. numbufs - 1
  BY FrontType DEF RingInv, IndicesDiffer
<1>2. /\ Filled \in 0 .. numbufs
      /\ inreadbuf # None => Filled < numbufs
      /\ outreadbuf # None => Filled > 0
  BY <1>1 DEF Filled, None
<1>3. ASSUME NEW k \in 1 .. Filled
      PROVE  /\ (outreadbuf + k - 1) % numbufs \in 0 .. numbufs - 1
             /\ Holds((outreadbuf + k - 1) % numbufs)
  <2>1. outreadbuf # None /\ outreadbuf \in 0 .. numbufs - 1 /\ k \in 1 .. numbufs
    BY <1>1, <1>2, <1>3 DEF Filled
  <2>2. /\ (outreadbuf + k - 1) % numbufs =
             IF outreadbuf + k - 1 < numbufs THEN outreadbuf + k - 1
             ELSE outreadbuf + k - 1 - numbufs
        /\ (outreadbuf + k - 1) % numbufs \in 0 .. numbufs - 1
    BY <1>1, <2>1, SlotValue
  <2> DEFINE i == (outreadbuf + k - 1) % numbufs
  <2> HIDE DEF i
  <2>3. i = IF outreadbuf + k - 1 < numbufs THEN outreadbuf + k - 1
            ELSE outreadbuf + k - 1 - numbufs
    BY <2>2 DEF i
  <2>4. Holds(i)
    BY <1>1, <2>1, <2>3, <1>3 DEF Holds, Filled, None
  <2> QED BY <2>2, <2>4 DEF i
<1> QED BY <1>2, <1>3

\* The interrupt's slot holds nothing yet, and passing it on makes it hold a frame.
LEMMA FrontIsFree ==
    ASSUME RingInv, inreadbuf # None
    PROVE  ~Holds(inreadbuf)
BY DEF RingInv, TypeOK, IndicesDiffer, Holds, None

\* The same of two indices and a number of buffers that need not be those of a state.
Within(in, out, i) ==
    /\ out # None
    /\ \/ in = None
       \/ out < in /\ out <= i /\ i < in
       \/ in < out /\ (out <= i \/ i < in)
Count(in, out, n) ==
    IF out = None THEN 0 ELSE IF in = None THEN n
    ELSE IF out <= in THEN in - out ELSE n - out + in
Previous(n, i) == IF i = 0 THEN n - 1 ELSE i - 1
NextOf(n, i)   == IF i + 1 = n THEN 0 ELSE i + 1

LEMMA OfTheState ==
    /\ \A i : Holds(i) <=> Within(inreadbuf, outreadbuf, i)
    /\ Filled = Count(inreadbuf, outreadbuf, numbufs)
    /\ \A i : Before(i) = Previous(numbufs, i)
BY Zenon DEF Holds, Within, Filled, Count, Before, Previous

\* What the rotation and the return of a buffer make of them.
Rotated(n, in, out, in2, out2) ==
    /\ \A i \in 0 .. n - 1 : Within(in2, out2, i) <=> Within(in, out, i) \/ i = in
    /\ in2 # None => in2 \in 0 .. n - 1 /\ ~Within(in, out, in2) /\ in2 # in
    /\ Count(in2, out2, n) = Count(in, out, n) + 1
    /\ (out2 + Count(in, out, n)) % n = in
    /\ out2 \in 0 .. n - 1
    /\ Previous(n, IF in2 = None THEN out2 ELSE in2) = in
Released(n, in, out, in2, out2) ==
    /\ \A i \in 0 .. n - 1 : Within(in2, out2, i) <=> Within(in, out, i) /\ i # out
    /\ Count(in2, out2, n) = Count(in, out, n) - 1
    /\ in2 \in 0 .. n - 1
    /\ out2 # None => out2 = NextOf(n, out)

LEMMA RotateWithin ==
    ASSUME NEW n \in Nat, n >= 2, NEW in \in 0 .. n - 1,
           NEW out \in {None} \cup 0 .. n - 1, in # out,
           NEW in2, in2 = (IF NextOf(n, in) = out THEN None ELSE NextOf(n, in)),
           NEW out2, out2 = (IF out = None THEN in ELSE out)
    PROVE  Rotated(n, in, out, in2, out2)
<1> DEFINE nx == NextOf(n, in)
<1>1. nx = IF in + 1 = n THEN 0 ELSE in + 1
  BY DEF NextOf
<1>2. in2 = IF nx = out THEN None ELSE nx
  OBVIOUS
<1> HIDE DEF nx
<1>3. nx \in 0 .. n - 1 /\ nx # in
  BY <1>1
<1>4. \A i \in 0 .. n - 1 : Within(in2, out2, i) <=> Within(in, out, i) \/ i = in
  BY <1>1, <1>2, <1>3 DEF Within, None
<1>5. in2 # None => in2 \in 0 .. n - 1 /\ ~Within(in, out, in2) /\ in2 # in
  BY <1>1, <1>2, <1>3 DEF Within, None
<1>6. Count(in2, out2, n) = Count(in, out, n) + 1
  BY <1>1, <1>2, <1>3 DEF Count, None
<1>7. out2 \in 0 .. n - 1
  OBVIOUS
<1>8. (out2 + Count(in, out, n)) % n = in
  <2> DEFINE c == Count(in, out, n)
  <2>1. /\ c \in 0 .. n - 1
        /\ in = IF out2 + c < n THEN out2 + c ELSE out2 + c - n
    BY <1>7 DEF Count, None
  <2> HIDE DEF c
  <2>2. out2 + c \in 0 .. 2 * n - 1
    BY <1>7, <2>1
  <2>3. PICK x \in 0 .. 2 * n - 1 : x = out2 + c
    BY <2>2
  <2>4. x % n = IF x < n THEN x ELSE x - n
    BY ModValue
  <2> QED BY <2>1, <2>3, <2>4 DEF c
<1>9. Previous(n, IF in2 = None THEN out2 ELSE in2) = in
  BY <1>1, <1>2, <1>3 DEF Previous, None
<1> QED BY <1>4, <1>5, <1>6, <1>7, <1>8, <1>9 DEF Rotated

LEMMA RotateHolds ==
    ASSUME RingInv, inreadbuf # None, NEW n, Rotate(inreadbuf, n), UNCHANGED numbufs
    PROVE  /\ \A i \in 0 .. numbufs - 1 : Holds(i)' <=> Holds(i) \/ i = inreadbuf
           /\ inreadbuf' # None => /\ inreadbuf' \in 0 .. numbufs - 1
                                   /\ ~Holds(inreadbuf') /\ inreadbuf' # inreadbuf
           /\ Filled' = Filled + 1
           /\ (outreadbuf' + Filled) % numbufs = inreadbuf
           /\ outreadbuf' \in 0 .. numbufs - 1
           /\ Before(Front)' = inreadbuf
<1>1. /\ numbufs \in Nat /\ numbufs >= 2 /\ inreadbuf # outreadbuf
      /\ inreadbuf \in 0 .. numbufs - 1
      /\ outreadbuf \in {None} \cup 0 .. numbufs - 1
  BY FrontType DEF RingInv, IndicesDiffer
<1>2. Following(inreadbuf) = NextOf(numbufs, inreadbuf)
  BY <1>1, FollowingValue DEF NextOf
<1>3. PICK in2, out2 : in2 = inreadbuf' /\ out2 = outreadbuf'
  OBVIOUS
<1>4. /\ in2 = (IF NextOf(numbufs, inreadbuf) = outreadbuf THEN None
                ELSE NextOf(numbufs, inreadbuf))
      /\ out2 = (IF outreadbuf = None THEN inreadbuf ELSE outreadbuf)
  BY <1>2, <1>3 DEF Rotate, NextIn
<1>5. Rotated(numbufs, inreadbuf, outreadbuf, in2, out2)
  BY <1>1, <1>4, RotateWithin
<1>6. /\ \A i : Holds(i)' <=> Within(in2, out2, i)
      /\ Filled' = Count(in2, out2, numbufs)
      /\ Before(Front)' = Previous(numbufs, IF in2 = None THEN out2 ELSE in2)
  BY <1>3, Zenon DEF Holds, Within, Filled, Count, Before, Front, Previous
<1> QED BY <1>3, <1>5, <1>6, OfTheState DEF Rotated

\* Giving the head of the ring back leaves the other slots as they are.
LEMMA ReleaseWithin ==
    ASSUME NEW n \in Nat, n >= 2, NEW out \in 0 .. n - 1,
           NEW in \in {None} \cup 0 .. n - 1, in # out,
           NEW in2, in2 = (IF in = None THEN out ELSE in),
           NEW out2, out2 = (IF NextOf(n, out) = in2 THEN None ELSE NextOf(n, out))
    PROVE  Released(n, in, out, in2, out2)
<1> DEFINE nx == NextOf(n, out)
<1>1. nx = IF out + 1 = n THEN 0 ELSE out + 1
  BY DEF NextOf
<1>2. out2 = IF nx = in2 THEN None ELSE nx
  OBVIOUS
<1> HIDE DEF nx
<1>3. nx \in 0 .. n - 1 /\ nx # out
  BY <1>1
<1>4. \A i \in 0 .. n - 1 : Within(in2, out2, i) <=> Within(in, out, i) /\ i # out
  BY <1>1, <1>2, <1>3 DEF Within, None
<1>5. Count(in2, out2, n) = Count(in, out, n) - 1
  BY <1>1, <1>2, <1>3 DEF Count, None
<1>6. in2 \in 0 .. n - 1 /\ out2 \in {None} \cup 0 .. n - 1
  BY <1>2, <1>3
<1>7. out2 # None => out2 = NextOf(n, out)
  BY <1>2 DEF nx
<1> QED BY <1>4, <1>5, <1>6, <1>7 DEF Released

\* A read that ends while nothing resets the ring takes the head.
LEMMA ReleaseHolds ==
    ASSUME RingInv, Unbroken, ReadDone
    PROVE  /\ res = outreadbuf /\ res \in 0 .. numbufs - 1 /\ res \in Slots
           /\ res # inreadbuf /\ outreadbuf # None
           /\ \A i \in 0 .. numbufs - 1 : Holds(i)' <=> Holds(i) /\ i # res
           /\ Filled' = Filled - 1
           /\ inreadbuf' = (IF inreadbuf = None THEN res ELSE inreadbuf)
           /\ outreadbuf' # None => outreadbuf' = NextOf(numbufs, res)
           /\ Front' = Front /\ UNCHANGED numbufs
<1>1. /\ res = outreadbuf /\ res # inreadbuf /\ res \in 0 .. numbufs - 1
      /\ numbufs \in Nat /\ numbufs >= 2 /\ res \in Slots
      /\ inreadbuf \in {None} \cup 0 .. numbufs - 1
      /\ UNCHANGED numbufs
  BY FrontType DEF RingInv, HeadKept, ReaderInRing, ReadDone, Kept, Unbroken, Checked
<1>2. Following(res) = NextOf(numbufs, res)
  BY <1>1, FollowingValue DEF NextOf
<1>3. PICK in2, out2 : in2 = inreadbuf' /\ out2 = outreadbuf'
  OBVIOUS
<1>4. /\ in2 = (IF inreadbuf = None THEN res ELSE inreadbuf)
      /\ out2 = (IF NextOf(numbufs, res) = inreadbuf THEN None ELSE NextOf(numbufs, res))
  BY <1>2, <1>3 DEF ReadDone, Release
<1>5. NextOf(numbufs, res) = inreadbuf <=> NextOf(numbufs, res) = in2
  BY <1>1, <1>4 DEF NextOf, None
<1>6. out2 = (IF NextOf(numbufs, res) = in2 THEN None ELSE NextOf(numbufs, res))
  BY <1>4, <1>5
<1>7. Released(numbufs, inreadbuf, res, in2, out2)
  BY <1>1, <1>4, <1>6, ReleaseWithin
<1>8. /\ \A i : Holds(i)' <=> Within(in2, out2, i)
      /\ Filled' = Count(in2, out2, numbufs)
  BY <1>1, <1>3, Zenon DEF Holds, Within, Filled, Count
<1>9. Front' = Front
  BY <1>1, <1>3, <1>4 DEF Front, None
<1>10. outreadbuf # None
  BY <1>1 DEF None
<1> QED BY <1>1, <1>3, <1>4, <1>7, <1>8, <1>9, <1>10, OfTheState DEF Released

LEMMA BeforeType ==
    ASSUME TypeOK, IndicesDiffer
    PROVE  /\ Front \in 0 .. numbufs - 1 /\ Before(Front) \in 0 .. numbufs - 1
           /\ Before(Front) \in Slots /\ Before(Front) # Front
           /\ Before(Front) # inreadbuf
<1>1. /\ numbufs \in Nat /\ numbufs >= 2 /\ Front \in 0 .. numbufs - 1
      /\ \A i \in 0 .. numbufs - 1 : i \in Slots
  BY FrontType DEF Front, IndicesDiffer
<1>2. Before(Front) \in 0 .. numbufs - 1 /\ Before(Front) # Front
  BY <1>1 DEF Before
<1>3. Before(Front) # inreadbuf
  BY <1>2 DEF Front, None
<1> QED BY <1>1, <1>2, <1>3

\* A step that changes the bytes and the filling of the interrupt's buffer only.
LEMMA FrontOnlyStep ==
    ASSUME RingInv, FreeClean, LastBehind, UNCHANGED <<index, last>>,
           \A i \in Slots : i # inreadbuf => UNCHANGED <<readidx[i], readbuf[i]>>
    PROVE  FreeClean' /\ LastBehind'
<1>1. /\ TypeOK /\ UNCHANGED <<inreadbuf, outreadbuf, numbufs, last>>
      /\ \A i \in 0 .. numbufs - 1 : i \in Slots
  BY FrontType DEF index, RingInv
<1>2. \A i : Holds(i)' <=> Holds(i)
  BY <1>1, Zenon DEF Holds
<1>3. FreeClean'
  BY <1>1, <1>2 DEF FreeClean
<1>4. LastBehind'
  <2>1. Before(Front)' = Before(Front)
    BY <1>1, Zenon DEF Before, Front
  <2>2. readbuf'[Before(Front)] = readbuf[Before(Front)]
    BY <1>1, BeforeType DEF RingInv
  <2> QED BY <1>1, <2>1, <2>2, Zenon DEF LastBehind, Bytes
<1> QED BY <1>3, <1>4

LEMMA DataByteFrames ==
    ASSUME RingInv, Unbroken, FreeClean, Fresh, Whole, LastBehind,
           NEW d \in Data, sent' = Append(sent, d), DataByte(d)
    PROVE  FreeClean' /\ Fresh' /\ Whole' /\ LastBehind'
<1> DEFINE in == inreadbuf
           n  == readidx[in]
<1>1. /\ TypeOK /\ in # None /\ in \in Slots /\ n \in Nat /\ n + 1 < BlockSize
      /\ readbuf[in] \in [0 .. BlockSize - 1 -> Data] /\ BlockSize \in Nat
      /\ readbuf' = [readbuf EXCEPT ![in][n] = d]
      /\ readidx' = [readidx EXCEPT ![in] = n + 1]
      /\ infcs' = FcsSeen /\ ~searching
      /\ UNCHANGED <<index, inreadbuf, searching, last>>
  <2>1. TypeOK /\ in # None /\ in \in Slots /\ n \in 0 .. BlockSize /\ BlockSize \in Nat \ {0}
    BY FrontType DEF RingInv, DataByte, Deframing
  <2>2. readbuf[in] \in [0 .. BlockSize - 1 -> Data]
    BY <2>1 DEF TypeOK
  <2> QED BY <2>1, <2>2 DEF DataByte, Deframing, Store, index
<1> HIDE DEF n
<1>2. /\ readbuf'[in] = [readbuf[in] EXCEPT ![n] = d] /\ readidx'[in] = n + 1
      /\ \A i \in Slots : i # in => readbuf'[i] = readbuf[i] /\ readidx'[i] = readidx[i]
  BY <1>1 DEF TypeOK
<1>3. FreeClean' /\ LastBehind'
  BY <1>1, <1>2, FrontOnlyStep
<1>4. infcs' # "init" /\ ~searching'
  BY <1>1 DEF FcsSeen
<1>5. Fresh'
  BY <1>4 DEF Fresh
<1>6. Whole'
  <2> SUFFICES ASSUME infcs' = "frame"
               PROVE  (inreadbuf # None /\ sent = Bytes(inreadbuf, readidx[inreadbuf]))'
    BY DEF Whole
  <2>1. sent = Cut(readbuf[in], n)
    <3>1. CASE infcs = "frame"
      BY <3>1 DEF Whole, Bytes, Cut, n
    <3>2. CASE infcs # "frame"
      <4>1. infcs = "init" /\ sent = <<>>
        BY <1>1, <3>2 DEF FcsSeen
      <4>2. n = 0
        BY <1>1, <4>1 DEF Fresh, n
      <4> QED BY <4>1, <4>2, CutType
    <3> QED BY <3>1, <3>2
  <2>2. n < BlockSize
    BY <1>1
  <2>3. Cut([readbuf[in] EXCEPT ![n] = d], n + 1) = Append(Cut(readbuf[in], n), d)
    BY <1>1, <2>2, CutStore
  <2>4. sent' = Cut(readbuf'[in], readidx'[in])
    BY <1>2, <2>1, <2>3
  <2>5. Bytes(inreadbuf, readidx[inreadbuf])' = Cut(readbuf[inreadbuf], readidx[inreadbuf])'
    BY Zenon DEF Bytes, Cut
  <2>6. inreadbuf' = in
    BY <1>1
  <2> QED BY <1>1, <2>4, <2>5, <2>6
<1> QED BY <1>3, <1>5, <1>6

LEMMA LineByteFrames ==
    ASSUME RingInv, Unbroken, FreeClean, Fresh, Whole, LastBehind,
           NEW d \in Data, LineByte(d)
    PROVE  FreeClean' /\ Fresh' /\ Whole' /\ LastBehind'
<1>0. TypeOK
  BY DEF RingInv
<1>1. CASE DataByte(d)
  BY <1>1, DataByteFrames DEF LineByte
<1>2. CASE OverrunByte(d)
  <2>1. /\ inreadbuf # None /\ inreadbuf \in Slots
        /\ readbuf' = [readbuf EXCEPT ![inreadbuf][readidx[inreadbuf]] = d]
        /\ readidx' = [readidx EXCEPT ![inreadbuf] = 0]
        /\ infcs' = "init" /\ UNCHANGED <<index, inreadbuf, last>>
    BY <1>0, <1>2, FrontType DEF OverrunByte, Deframing, StartOver, index
  <2>2. /\ readidx'[inreadbuf] = 0
        /\ \A i \in Slots : i # inreadbuf => readbuf'[i] = readbuf[i] /\ readidx'[i] = readidx[i]
    BY <1>0, <2>1 DEF TypeOK
  <2>3. FreeClean' /\ LastBehind'
    BY <2>1, <2>2, FrontOnlyStep
  <2> QED BY <2>1, <2>2, <2>3 DEF Fresh, Whole
<1>3. CASE UnseenByte
  <2>1. UNCHANGED <<index, inreadbuf, buffers, readidx, readbuf, searching, last>>
    BY <1>3 DEF UnseenByte, index, buffers
  <2>2. FreeClean' /\ LastBehind'
    BY <2>1, FrontOnlyStep
  <2>3. infcs' # "frame" /\ (infcs' = "init" => infcs = "init")
    BY <1>3 DEF UnseenByte, FcsMissed
  <2> QED BY <2>1, <2>2, <2>3 DEF Fresh, Whole
<1> QED BY <1>1, <1>2, <1>3 DEF LineByte

LEMMA GoodFrameFrames ==
    ASSUME RingInv, Unbroken, FreeClean, Fresh, Whole, LastBehind,
           NEW ok \in BOOLEAN, sent' = <<>>, GoodFrame(ok)
    PROVE  FreeClean' /\ Fresh' /\ Whole' /\ LastBehind'
<1>1. /\ TypeOK /\ inreadbuf # None /\ inreadbuf \in Slots
      /\ readidx[inreadbuf] \in 1 .. BlockSize /\ ~searching
      /\ infcs' = "init" /\ UNCHANGED <<numbufs, readbuf, searching>>
  <2>1. TypeOK /\ inreadbuf # None
    BY DEF RingInv, GoodFrame, Deframing
  <2>2. readidx[inreadbuf] \in 0 .. BlockSize /\ readidx[inreadbuf] > 0 /\ BlockSize \in Nat
    BY <2>1, FrontType DEF GoodFrame
  <2> QED BY <2>1, <2>2, FrontType DEF GoodFrame, Deframing
<1>2. CASE Repeated(inreadbuf)
  <2>1. /\ readidx' = [readidx EXCEPT ![inreadbuf] = 0]
        /\ UNCHANGED <<index, inreadbuf, last>>
    BY <1>1, <1>2 DEF GoodFrame, index
  <2>2. /\ readidx'[inreadbuf] = 0
        /\ \A i \in Slots : i # inreadbuf => readbuf'[i] = readbuf[i] /\ readidx'[i] = readidx[i]
    BY <1>1, <2>1 DEF TypeOK
  <2>3. FreeClean' /\ LastBehind'
    BY <2>1, <2>2, FrontOnlyStep
  <2> QED BY <1>1, <2>1, <2>2, <2>3 DEF Fresh, Whole
<1>3. CASE ~Repeated(inreadbuf)
  <2>1. /\ Rotate(inreadbuf, readidx[inreadbuf]) /\ UNCHANGED readidx
        /\ last' = Bytes(inreadbuf, readidx[inreadbuf])
    BY <1>3 DEF GoodFrame
  <2>2. /\ \A i \in 0 .. numbufs - 1 : Holds(i)' <=> Holds(i) \/ i = inreadbuf
        /\ inreadbuf' # None => /\ inreadbuf' \in 0 .. numbufs - 1
                                /\ ~Holds(inreadbuf') /\ inreadbuf' # inreadbuf
        /\ Before(Front)' = inreadbuf
    BY <1>1, <2>1, RotateHolds
  <2>3. FreeClean'
    BY <1>1, <2>1, <2>2 DEF FreeClean
  <2>4. Fresh'
    BY <2>1, <2>2 DEF FreeClean, Fresh
  <2>5. Whole'
    BY <1>1 DEF Whole
  <2>6. LastBehind'
    <3>1. Len(last') = readidx[inreadbuf]
      BY <1>1, <2>1, CutType DEF Bytes, Cut
    <3>2. Bytes(Before(Front), Len(last))' = [k \in 1 .. Len(last') |-> readbuf'[Before(Front)'][k - 1]]
      BY Zenon DEF Bytes
    <3>3. Bytes(Before(Front), Len(last))' = last'
      BY <1>1, <2>1, <2>2, <3>1, <3>2 DEF Bytes
    <3> QED BY <1>1, <3>1, <3>3 DEF LastBehind
  <2> QED BY <2>3, <2>4, <2>5, <2>6
<1> QED BY <1>2, <1>3

LEMMA LineFlagFrames ==
    ASSUME RingInv, Unbroken, FreeClean, Fresh, Whole, LastBehind,
           NEW ok \in BOOLEAN, LineFlag(ok)
    PROVE  FreeClean' /\ Fresh' /\ Whole' /\ LastBehind'
<1>0. TypeOK
  BY DEF RingInv
<1>1. CASE GoodFrame(ok)
  BY <1>1, GoodFrameFrames DEF LineFlag
<1>2. CASE BadFrame(ok)
  <2>1. /\ inreadbuf # None /\ inreadbuf \in Slots
        /\ readidx' = [readidx EXCEPT ![inreadbuf] = 0]
        /\ infcs' = "init" /\ UNCHANGED <<index, inreadbuf, readbuf, last>>
    BY <1>0, <1>2, FrontType DEF BadFrame, Deframing, StartOver, index
  <2>2. /\ readidx'[inreadbuf] = 0
        /\ \A i \in Slots : i # inreadbuf => readbuf'[i] = readbuf[i] /\ readidx'[i] = readidx[i]
    BY <1>0, <2>1 DEF TypeOK
  <2>3. FreeClean' /\ LastBehind'
    BY <2>1, <2>2, FrontOnlyStep
  <2> QED BY <2>1, <2>2, <2>3 DEF Fresh, Whole
<1>3. CASE EmptyFrame \/ UnseenFlag
  <2>1. /\ UNCHANGED <<index, inreadbuf, buffers, readidx, readbuf, last>>
        /\ infcs' # "frame" /\ (infcs' = "init" => infcs = "init")
        /\ searching' => searching
    BY <1>3 DEF EmptyFrame, UnseenFlag, FcsKept, index, buffers
  <2>2. FreeClean' /\ LastBehind'
    BY <2>1, FrontOnlyStep
  <2> QED BY <2>1, <2>2 DEF Fresh, Whole
<1> QED BY <1>1, <1>2, <1>3 DEF LineFlag

LEMMA ReadDoneFrames ==
    ASSUME RingInv, Unbroken, FreeClean, Fresh, Whole, LastBehind, ReadDone
    PROVE  FreeClean' /\ Fresh' /\ Whole' /\ LastBehind'
<1>1. /\ TypeOK
      /\ readidx' = [readidx EXCEPT ![res] = 0]
      /\ UNCHANGED <<readbuf, numbufs, infcs, searching, sent, last>>
      /\ \A i \in 0 .. numbufs - 1 : i \in Slots
  BY FrontType DEF RingInv, ReadDone, Emptied, deframer
<1>2. /\ res \in 0 .. numbufs - 1 /\ res \in Slots /\ res # inreadbuf /\ res # None
      /\ \A i \in 0 .. numbufs - 1 : Holds(i)' <=> Holds(i) /\ i # res
      /\ inreadbuf' = (IF inreadbuf = None THEN res ELSE inreadbuf)
      /\ Front' = Front
  BY ReleaseHolds
<1>3. readidx'[res] = 0 /\ \A i \in Slots : i # res => readidx'[i] = readidx[i]
  BY <1>1, <1>2 DEF TypeOK
<1>4. FreeClean'
  <2> SUFFICES ASSUME NEW i \in 0 .. numbufs - 1, ~Holds(i)', i # inreadbuf'
               PROVE  readidx'[i] = 0
    BY <1>1 DEF FreeClean
  <2>1. i # res => ~Holds(i) /\ i # inreadbuf
    BY <1>2 DEF None
  <2> QED BY <1>1, <1>3, <2>1 DEF FreeClean
<1>5. Fresh'
  <2>1. CASE inreadbuf = None
    BY <1>2, <1>3, <2>1 DEF Fresh
  <2>2. CASE inreadbuf # None
    BY <1>1, <1>2, <1>3, <2>2, FrontType DEF Fresh
  <2> QED BY <2>1, <2>2
<1>6. Whole'
  <2> SUFFICES ASSUME infcs = "frame"
               PROVE  (inreadbuf # None /\ sent = Bytes(inreadbuf, readidx[inreadbuf]))'
    BY <1>1 DEF Whole
  <2>1. inreadbuf # None /\ sent = Bytes(inreadbuf, readidx[inreadbuf])
    BY DEF Whole
  <2>2. inreadbuf' = inreadbuf /\ readidx'[inreadbuf] = readidx[inreadbuf]
    BY <1>1, <1>2, <1>3, <2>1, FrontType
  <2>3. Bytes(inreadbuf, readidx[inreadbuf])' = [k \in 1 .. readidx'[inreadbuf'] |-> readbuf'[inreadbuf'][k - 1]]
    BY Zenon DEF Bytes
  <2>4. Bytes(inreadbuf, readidx[inreadbuf])' = Bytes(inreadbuf, readidx[inreadbuf])
    BY <1>1, <2>2, <2>3 DEF Bytes
  <2> QED BY <1>1, <2>1, <2>2, <2>4
<1>7. LastBehind'
  <2>1. Before(Front)' = Before(Front)
    BY <1>1, <1>2, Zenon DEF Before
  <2> QED BY <1>1, <2>1, Zenon DEF LastBehind, Bytes
<1> QED BY <1>4, <1>5, <1>6, <1>7

LEMMA QuietFrames ==
    ASSUME RingInv, FreeClean, Fresh, Whole, LastBehind,
           UNCHANGED <<index, buffers, deframer, sent, last>>
    PROVE  FreeClean' /\ Fresh' /\ Whole' /\ LastBehind'
<1>1. UNCHANGED <<inreadbuf, outreadbuf, numbufs, readidx, readbuf, infcs, searching, sent, last>>
  BY DEF index, buffers, deframer
<1>2. FreeClean' /\ LastBehind'
  BY <1>1, FrontOnlyStep
<1>3. Fresh'
  BY <1>1 DEF Fresh
<1>4. Bytes(inreadbuf, readidx[inreadbuf])' = Bytes(inreadbuf, readidx[inreadbuf])
  BY <1>1, Zenon DEF Bytes
<1>5. Whole'
  BY <1>1, <1>4 DEF Whole
<1> QED BY <1>2, <1>3, <1>5

\* While nothing resets the ring only these steps change it.
LEMMA UnbrokenSteps ==
    ASSUME RingInv, Unbroken, [Next]_vars
    PROVE  \/ \E d \in Data : LineByte(d)
           \/ \E ok \in BOOLEAN : LineFlag(ok)
           \/ ReadDone
           \/ UNCHANGED <<index, buffers, deframer, sent, last>>
<1>1. mode # "audio" /\ mode # "hard" /\ "flush" \notin Ops[mode] /\ "bufinfo" \notin Ops[mode]
  BY DEF Unbroken, Checked
<1>2. CASE Line
  BY <1>1, <1>2 DEF Line, AudioByte, HdlcPutbuf, HdlcFinish, HdlcAbort
<1>3. CASE BeginRead \/ ReadEvent \/ ReadEmpty \/ ReadStart \/ ReadFault \/ Sleep \/ Signal
  BY <1>3 DEF BeginRead, ReadEvent, ReadEmpty, ReadStart, ReadFault, Sleep, Signal
<1>4. CASE Flush \/ Hangup \/ \E n \in Sizes[mode] : Realloc(n)
  BY <1>1, <1>4 DEF Flush, Hangup, Realloc
<1>5. CASE QEvent \/ DrainEvents
  BY <1>5 DEF QEvent, DrainEvents
<1>6. CASE UNCHANGED vars
  BY <1>6 DEF vars
<1> QED BY <1>2, <1>3, <1>4, <1>5, <1>6 DEF Next, ReaderStep

LEMMA ModeStays ==
    ASSUME [Next]_vars
    PROVE  UNCHANGED mode
BY DEF Next, Line, AudioByte, LineByte, DataByte, OverrunByte, UnseenByte, LineFlag, GoodFrame,
       BadFrame, EmptyFrame, UnseenFlag, HdlcPutbuf, HdlcFinish, HdlcAbort, BeginRead, ReaderStep,
       ReadEvent, ReadEmpty, ReadStart, ReadFault, ReadDone, Sleep, Signal, Flush, Hangup, Realloc,
       QEvent, DrainEvents, index, vars

LEMMA NextIInv == IInv /\ [Next]_vars => IInv'
<1> SUFFICES ASSUME IInv, [Next]_vars PROVE IInv'
  OBVIOUS
<1>1. RingInv'
  BY NextRingInv DEF IInv
<1>2. Unbroken' <=> Unbroken
  BY ModeStays DEF Unbroken, Checked
<1>3. ASSUME Unbroken PROVE FreeClean' /\ Fresh' /\ Whole' /\ LastBehind'
  <2>1. RingInv /\ FreeClean /\ Fresh /\ Whole /\ LastBehind
    BY <1>3 DEF IInv, FrameInv, LastInv
  <2> QED BY <1>3, <2>1, UnbrokenSteps, LineByteFrames, LineFlagFrames, ReadDoneFrames, QuietFrames
<1> QED BY <1>1, <1>2, <1>3 DEF IInv, FrameInv, LastInv

LEMMA InitIInv == Init => IInv
<1> SUFFICES ASSUME Init PROVE IInv
  OBVIOUS
<1>1. RingInv
  BY InitRingInv
<1>2. FreeClean /\ Fresh /\ Whole /\ LastBehind
  <2>1. \A i \in 0 .. numbufs - 1 : i \in Slots
    BY <1>1, FrontType DEF RingInv
  <2>2. 0 \in Slots
    BY SizesAssumption DEF Slots
  <2> QED BY <2>1, <2>2 DEF Init, FreeClean, Fresh, Whole, LastBehind
<1> QED BY <1>1, <1>2 DEF IInv, FrameInv, LastInv

LEMMA InvariantHolds == Spec => []IInv
BY InitIInv, NextIInv, PTL DEF Spec

-----------------------------------------------------------------------------
(* The ring implements FrameReceiver.                                      *)

LEMMA ListType ==
    ASSUME NEW n \in Nat, NEW S, NEW t, t = [k \in 1 .. n |-> t[k]],
           \A k \in 1 .. n : t[k] \in S
    PROVE  t \in Seq(S) /\ Len(t) = n
<1>1. t \in [1 .. n -> S]
  BY Zenon
<1> QED BY <1>1

\* The slots from the j-th to the m-th are the same in both.
Agree(o, n, j, m, len, len2) ==
    \A k \in j .. m : len2[(o + k - 1) % n] = len[(o + k - 1) % n]

LEMMA FramesAppend ==
    ASSUME NEW o \in Nat, NEW n \in Nat, NEW m \in Nat, NEW len, NEW len2, NEW buf, NEW f,
           Agree(o, n, 1, m, len, len2),
           f = Cut(buf[(o + m) % n], len2[(o + m) % n])
    PROVE  Frames(o, n, m + 1, len2, buf) = Append(Frames(o, n, m, len, buf), f)
<1> DEFINE s == Frames(o, n, m, len, buf)
           t == Frames(o, n, m + 1, len2, buf)
           S == {s[k] : k \in 1 .. m} \cup {f}
<1>1. s \in Seq(S) /\ Len(s) = m /\ f \in S
  <2>1. s = [k \in 1 .. m |-> Cut(buf[(o + k - 1) % n], len[(o + k - 1) % n])]
    BY Zenon DEF Frames
  <2>2. \A k \in 1 .. m : s[k] \in S
    OBVIOUS
  <2> HIDE DEF S
  <2>3. \A k \in 1 .. m : Cut(buf[(o + k - 1) % n], len[(o + k - 1) % n]) \in S
    BY <2>1, <2>2
  <2>4. f \in S
    BY DEF S
  <2> HIDE DEF s
  <2> QED BY <2>1, <2>3, <2>4
<1>2. \A k \in 1 .. m : t[k] = s[k]
  <2> SUFFICES ASSUME NEW k \in 1 .. m PROVE t[k] = s[k]
    OBVIOUS
  <2>1. k \in 1 .. m + 1
    OBVIOUS
  <2>2. t[k] = Cut(buf[(o + k - 1) % n], len2[(o + k - 1) % n])
    BY <2>1 DEF Frames
  <2>3. s[k] = Cut(buf[(o + k - 1) % n], len[(o + k - 1) % n])
    BY DEF Frames
  <2> QED BY <2>2, <2>3 DEF Agree
<1>3. t[m + 1] = f
  <2>1. m + 1 \in 1 .. m + 1 /\ o + (m + 1) - 1 = o + m
    BY DEF Frames
  <2> QED BY <2>1 DEF Frames
<1>4. t = [k \in 1 .. m + 1 |-> t[k]]
  BY DEF Frames
<1> HIDE DEF s, t, S
<1> DEFINE a == Append(s, f)
<1>5. /\ a \in Seq(S) /\ Len(a) = m + 1 /\ a[m + 1] = f
      /\ \A k \in 1 .. m : a[k] = s[k]
  BY <1>1, AppendProperties
<1> HIDE DEF a
<1>6. \A k \in 1 .. m + 1 : a[k] = t[k]
  <2> SUFFICES ASSUME NEW k \in 1 .. m + 1 PROVE a[k] = t[k]
    OBVIOUS
  <2>1. k \in 1 .. m \/ k = m + 1
    OBVIOUS
  <2> QED BY <1>2, <1>3, <1>5, <2>1
<1>7. t \in Seq(S) /\ Len(t) = m + 1
  <2>1. \A k \in 1 .. m + 1 : t[k] \in S
    BY <1>5, <1>6, ElementOfSeq
  <2>2. PICK l \in Nat : l = m + 1
    OBVIOUS
  <2> QED BY <1>4, <2>1, <2>2, ListType
<1>8. t = a
  BY <1>5, <1>6, <1>7, SeqEqual, Zenon
<1> QED BY <1>8 DEF a, s, t

LEMMA FramesTail ==
    ASSUME NEW n \in Nat, n >= 2, NEW o \in 0 .. n - 1, NEW m \in 1 .. n,
           NEW l, l = m - 1, NEW o2, m > 1 => o2 = NextOf(n, o),
           NEW len, NEW len2, NEW buf,
           Agree(o, n, 2, m, len, len2)
    PROVE  Frames(o2, n, l, len2, buf) = Tail(Frames(o, n, m, len, buf))
<1> DEFINE s == Frames(o, n, m, len, buf)
           t == Frames(o2, n, l, len2, buf)
           S == {s[k] : k \in 1 .. m}
<1>1. s \in Seq(S) /\ Len(s) = m
  <2>1. s = [k \in 1 .. m |-> Cut(buf[(o + k - 1) % n], len[(o + k - 1) % n])]
    BY Zenon DEF Frames
  <2>2. \A k \in 1 .. m : s[k] \in S
    OBVIOUS
  <2> HIDE DEF S
  <2>3. \A k \in 1 .. m : Cut(buf[(o + k - 1) % n], len[(o + k - 1) % n]) \in S
    BY <2>1, <2>2
  <2> HIDE DEF s
  <2> QED BY <2>1, <2>3
<1>2. \A k \in 1 .. l : t[k] = s[k + 1]
  <2> SUFFICES ASSUME NEW k \in 1 .. l PROVE t[k] = s[k + 1]
    OBVIOUS
  <2>1. PICK j \in 2 .. m : j = k + 1
    OBVIOUS
  <2>2. o2 = (IF o + 1 = n THEN 0 ELSE o + 1) /\ o2 \in 0 .. n - 1
    BY DEF NextOf
  <2>3. (o + j - 1) % n = IF o + j - 1 < n THEN o + j - 1 ELSE o + j - 1 - n
    <3>1. j \in 1 .. n
      OBVIOUS
    <3> QED BY <3>1, SlotValue
  <2>4. (o2 + k - 1) % n = IF o2 + k - 1 < n THEN o2 + k - 1 ELSE o2 + k - 1 - n
    <3>1. k \in 1 .. n
      OBVIOUS
    <3> QED BY <2>2, <3>1, SlotValue
  <2>5. (o2 + k - 1) % n = (o + j - 1) % n
    <3>1. PICK x : x = (o2 + k - 1) % n
      OBVIOUS
    <3>2. PICK y : y = (o + j - 1) % n
      OBVIOUS
    <3>3. x = y
      BY <2>1, <2>2, <2>3, <2>4, <3>1, <3>2
    <3> QED BY <3>1, <3>2, <3>3
  <2>6. t[k] = Cut(buf[(o2 + k - 1) % n], len2[(o2 + k - 1) % n])
    BY DEF Frames
  <2>7. s[j] = Cut(buf[(o + j - 1) % n], len[(o + j - 1) % n])
    BY DEF Frames
  <2> HIDE DEF s, t
  <2>8. len2[(o + j - 1) % n] = len[(o + j - 1) % n]
    BY DEF Agree
  <2> QED BY <2>1, <2>5, <2>6, <2>7, <2>8
<1>3. t = [k \in 1 .. l |-> t[k]]
  BY DEF Frames
<1> HIDE DEF s, t, S
<1> DEFINE a == Tail(s)
<1>4. s # <<>>
  BY <1>1
<1>5. /\ a \in Seq(S) /\ Len(a) = l
      /\ \A k \in 1 .. l : a[k] = s[k + 1]
  BY <1>1, <1>4, HeadTailProperties
<1> HIDE DEF a
<1>6. t \in Seq(S) /\ Len(t) = l
  <2>1. \A k \in 1 .. l : t[k] \in S
    BY <1>2, <1>5, ElementOfSeq
  <2>2. l \in Nat
    OBVIOUS
  <2> QED BY <1>3, <2>1, <2>2, ListType
<1>7. \A k \in 1 .. l : t[k] = a[k]
  BY <1>2, <1>5
<1>8. t = a
  BY <1>5, <1>6, <1>7, SeqEqual, Zenon
<1> QED BY <1>4, <1>8 DEF a, s, t

\* What leaves the received frames alone leaves the queue alone.
LEMMA ContentsStay ==
    ASSUME RingInv, UNCHANGED index,
           \A i \in Slots : i # inreadbuf => UNCHANGED <<readn[i], readbuf[i]>>
    PROVE  Contents' = Contents
<1>1. UNCHANGED <<inreadbuf, outreadbuf, numbufs>>
  BY DEF index
<1>2. Filled' = Filled
  BY <1>1, Zenon DEF Filled
<1>3. Contents' = Frames(outreadbuf', numbufs', Filled', readn', readbuf')
  BY Zenon DEF Contents, Frames, Cut, Bytes
<1>4. ASSUME NEW k \in 1 .. Filled
      PROVE  /\ readn'[(outreadbuf + k - 1) % numbufs] = readn[(outreadbuf + k - 1) % numbufs]
             /\ readbuf'[(outreadbuf + k - 1) % numbufs] = readbuf[(outreadbuf + k - 1) % numbufs]
  <2>1. PICK i \in 0 .. numbufs - 1 : i = (outreadbuf + k - 1) % numbufs /\ Holds(i)
    BY FilledSlots
  <2>2. i \in Slots /\ i # inreadbuf
    BY <2>1, FrontType, FrontIsFree DEF RingInv, None
  <2> QED BY <2>1, <2>2
<1>5. Frames(outreadbuf, numbufs, Filled, readn', readbuf')
        = Frames(outreadbuf, numbufs, Filled, readn, readbuf)
  BY <1>4, Zenon DEF Frames
<1> QED BY <1>1, <1>2, <1>3, <1>5, ContentsAreFrames

LEMMA ContentsGrow ==
    ASSUME RingInv, inreadbuf # None, UNCHANGED <<numbufs, readbuf>>,
           Rotate(inreadbuf, readidx[inreadbuf])
    PROVE  /\ Contents' = Append(Contents, Bytes(inreadbuf, readidx[inreadbuf]))
           /\ Len(Contents) < numbufs
<1> DEFINE in == inreadbuf
           o  == IF outreadbuf = None THEN in ELSE outreadbuf
           m  == Filled
<1>1. /\ m \in Nat /\ m < numbufs /\ numbufs \in Nat /\ in \in Slots
      /\ in \in 0 .. numbufs - 1
  BY FilledSlots, FrontType DEF RingInv
<1>2. /\ outreadbuf' = o /\ o \in 0 .. numbufs - 1 /\ Filled' = m + 1
      /\ (o + m) % numbufs = in
  <2>1. /\ Filled' = Filled + 1 /\ outreadbuf' \in 0 .. numbufs - 1
        /\ (IF outreadbuf = None THEN inreadbuf ELSE outreadbuf) = outreadbuf'
        /\ (outreadbuf' + Filled) % numbufs = inreadbuf
    <3>1. UNCHANGED numbufs
      OBVIOUS
    <3>2. PICK l : Rotate(inreadbuf, l)
      OBVIOUS
    <3>3. Filled' = Filled + 1
      BY <3>1, <3>2, RotateHolds
    <3>4. outreadbuf' \in 0 .. numbufs - 1
      BY <3>1, <3>2, RotateHolds
    <3>5. (IF outreadbuf = None THEN inreadbuf ELSE outreadbuf) = outreadbuf'
      BY DEF Rotate
    <3>6. (outreadbuf' + Filled) % numbufs = inreadbuf
      BY <3>1, <3>2, RotateHolds
    <3> QED BY <3>3, <3>4, <3>5, <3>6
  <2> QED BY <2>1, Zenon
<1>3. readn' = [readn EXCEPT ![in] = readidx[in]]
  BY DEF Rotate
<1>4. Contents' = Frames(outreadbuf', numbufs', Filled', readn', readbuf')
  BY Zenon DEF Contents, Frames, Cut, Bytes
<1>5. Contents' = Frames(o, numbufs, m + 1, readn', readbuf)
  BY <1>2, <1>4
<1>6. Contents = Frames(o, numbufs, m, readn, readbuf)
  <2>1. CASE outreadbuf = None
    <3>1. m = 0
      BY <2>1 DEF Filled
    <3>2. Frames(outreadbuf, numbufs, 0, readn, readbuf) = <<>>
          /\ Frames(o, numbufs, 0, readn, readbuf) = <<>>
      BY DEF Frames
    <3> QED BY <3>1, <3>2, ContentsAreFrames
  <2>2. CASE outreadbuf # None
    BY <2>2, ContentsAreFrames
  <2> QED BY <2>1, <2>2
<1>7. Agree(o, numbufs, 1, m, readn, readn')
  <2> SUFFICES ASSUME NEW k \in 1 .. m
               PROVE  readn'[(o + k - 1) % numbufs] = readn[(o + k - 1) % numbufs]
    BY Zenon DEF Agree
  <2>1. outreadbuf # None
    BY DEF Filled
  <2>2. PICK i \in 0 .. numbufs - 1 : i = (o + k - 1) % numbufs /\ Holds(i)
    BY <2>1, FilledSlots
  <2>3. i # in
    BY <2>2, FrontIsFree
  <2>4. i \in Slots
    BY FrontType DEF RingInv
  <2> QED BY <1>3, <2>2, <2>3, <2>4 DEF RingInv, TypeOK
<1>8. Bytes(in, readidx[in]) = Cut(readbuf[(o + m) % numbufs], readn'[(o + m) % numbufs])
  <2>1. readn'[in] = readidx[in]
    BY <1>1, <1>3 DEF RingInv, TypeOK
  <2> QED BY <1>2, <2>1 DEF Bytes, Cut
<1>9. Contents' = Append(Contents, Bytes(in, readidx[in]))
  <2>1. o \in Nat
    BY <1>1, <1>2
  <2> HIDE DEF o, m
  <2> QED BY <1>1, <1>5, <1>6, <1>7, <1>8, <2>1, FramesAppend
<1>10. Len(Contents) < numbufs
  BY <1>1 DEF Contents
<1> QED BY <1>9, <1>10

LEMMA ContentsShrink ==
    ASSUME RingInv, Unbroken, ReadDone
    PROVE  /\ Contents # <<>>
           /\ Contents' = Tail(Contents)
<1> DEFINE o == outreadbuf
           m == Filled
<1>1. /\ res = o /\ o \in 0 .. numbufs - 1 /\ res \in Slots /\ o # None
      /\ Filled' = m - 1
      /\ outreadbuf' # None => outreadbuf' = NextOf(numbufs, o)
      /\ UNCHANGED <<numbufs, readbuf>>
      /\ readn' = [readn EXCEPT ![res] = 0]
  BY ReleaseHolds DEF ReadDone
<1>2. m \in 1 .. numbufs /\ numbufs \in Nat /\ numbufs >= 2
  BY <1>1, FilledSlots, FrontType DEF RingInv
<1>3. PICK o2 : o2 = outreadbuf'
  OBVIOUS
<1>4. m > 1 => o2 = NextOf(numbufs, o)
  <2>1. outreadbuf' = None => Filled' = 0
    BY DEF Filled
  <2>2. m > 1 => Filled' # 0
    BY <1>1, <1>2
  <2> QED BY <1>1, <1>3, <2>1, <2>2
<1>5. Agree(o, numbufs, 2, m, readn, readn')
  <2> SUFFICES ASSUME NEW k \in 2 .. m
               PROVE  readn'[(o + k - 1) % numbufs] = readn[(o + k - 1) % numbufs]
    BY Zenon DEF Agree
  <2>1. k \in 1 .. numbufs
    BY <1>2
  <2>2. PICK i : i = (o + k - 1) % numbufs
    OBVIOUS
  <2>3. /\ i = IF o + k - 1 < numbufs THEN o + k - 1 ELSE o + k - 1 - numbufs
        /\ i \in 0 .. numbufs - 1
    BY <1>1, <1>2, <2>1, <2>2, SlotValue
  <2>4. i # o
    BY <1>1, <1>2, <2>1, <2>3
  <2>5. i \in Slots
    BY <2>3, FrontType DEF RingInv
  <2> QED BY <1>1, <2>2, <2>4, <2>5 DEF RingInv, TypeOK
<1>6. Contents' = Frames(outreadbuf', numbufs', Filled', readn', readbuf')
  BY Zenon DEF Contents, Frames, Cut, Bytes
<1>10. PICK l \in Nat : l = m - 1
  BY <1>2
<1>7. Contents' = Frames(o2, numbufs, l, readn', readbuf)
  BY <1>1, <1>3, <1>6, <1>10
<1>8. Contents = Frames(o, numbufs, m, readn, readbuf)
  BY ContentsAreFrames
<1> HIDE DEF o, m
<1>9. /\ Frames(o, numbufs, m, readn, readbuf) # <<>>
      /\ Frames(o2, numbufs, l, readn', readbuf) = Tail(Frames(o, numbufs, m, readn, readbuf))
  <2>1. /\ numbufs \in Nat /\ numbufs >= 2 /\ o \in 0 .. numbufs - 1 /\ m \in 1 .. numbufs
        /\ l = m - 1 /\ (m > 1 => o2 = NextOf(numbufs, o))
    BY <1>1, <1>2, <1>4, <1>10
  <2>2. PICK r2 : r2 = readn'
    OBVIOUS
  <2>3. Agree(o, numbufs, 2, m, readn, r2)
    BY <1>5, <2>2
  <2>4. Frames(o, numbufs, m, readn, readbuf) # <<>>
    <3>1. m \in Nat /\ m > 0
      BY <2>1
    <3> QED BY <3>1 DEF Frames
  <2>5. Frames(o2, numbufs, l, r2, readbuf) = Tail(Frames(o, numbufs, m, readn, readbuf))
    BY <2>1, <2>3, FramesTail
  <2> QED BY <2>2, <2>4, <2>5
<1> QED BY <1>7, <1>8, <1>9

\* What the file descriptor of an HDLC channel with its check sequence in software
\* does not see: DAHDI_FLUSH and DAHDI_SET_BUFINFO.
NeverReset == \A m \in Modes \cap {"fcs", "mtp2"} : Ops[m] \cap {"flush", "bufinfo"} = {}

LEMMA CheckedIsUnbroken ==
    ASSUME NeverReset, TypeOK, Checked
    PROVE  Unbroken
BY DEF NeverReset, TypeOK, Checked, Unbroken

\* The step of FrameReceiver that a step of the ring is, while nothing resets it.
LEMMA UnbrokenReceiver ==
    ASSUME IInv, Unbroken, [Next]_vars
    PROVE  \/ (\E d \in Data : sent' = Append(sent, d)) /\ Contents' = Contents
           \/ /\ sent # <<>> /\ Len(Contents) < numbufs
              /\ Contents' = Append(Contents, sent) /\ sent' = <<>>
           \/ sent' = <<>> /\ Contents' = Contents
           \/ Contents # <<>> /\ Contents' = Tail(Contents) /\ UNCHANGED sent
           \/ UNCHANGED <<sent, Contents>>
<1>1. /\ RingInv /\ TypeOK /\ Whole
  BY DEF IInv, FrameInv, RingInv
<1>2. CASE \E d \in Data : LineByte(d)
  <2>1. PICK d \in Data : LineByte(d)
    BY <1>2
  <2>2. sent' = Append(sent, d) /\ UNCHANGED index
    BY <2>1 DEF LineByte, DataByte, OverrunByte, UnseenByte
  <2>3. \A i \in Slots : i # inreadbuf => UNCHANGED <<readn[i], readbuf[i]>>
    BY <1>1, <2>1 DEF LineByte, DataByte, OverrunByte, UnseenByte, Store, buffers, TypeOK
  <2> QED BY <1>1, <2>2, <2>3, ContentsStay
<1>3. CASE \E ok \in BOOLEAN : LineFlag(ok)
  <2>1. PICK ok \in BOOLEAN : LineFlag(ok)
    BY <1>3
  <2>2. sent' = <<>>
    BY <2>1 DEF LineFlag
  <2>3. CASE GoodFrame(ok) /\ ~Repeated(inreadbuf)
    <3>1. /\ infcs = "frame" /\ inreadbuf # None /\ readidx[inreadbuf] > 0
          /\ UNCHANGED <<numbufs, readbuf>> /\ Rotate(inreadbuf, readidx[inreadbuf])
      BY <2>3 DEF GoodFrame, Good, Deframing
    <3>2. sent = Bytes(inreadbuf, readidx[inreadbuf])
      BY <1>1, <3>1 DEF Whole
    <3>3. sent # <<>>
      <4>1. Len(sent) = readidx[inreadbuf]
        BY <1>1, <3>1, <3>2, FrontType, BytesType
      <4> QED BY <3>1, <4>1
    <3>4. Contents' = Append(Contents, Bytes(inreadbuf, readidx[inreadbuf]))
      BY <1>1, <3>1, ContentsGrow
    <3>5. Len(Contents) < numbufs
      BY <1>1, <3>1, ContentsGrow
    <3> QED BY <2>2, <3>2, <3>3, <3>4, <3>5
  <2>4. CASE ~(GoodFrame(ok) /\ ~Repeated(inreadbuf))
    <3>1. UNCHANGED index
      BY <2>1, <2>4 DEF LineFlag, GoodFrame, BadFrame, EmptyFrame, UnseenFlag, index
    <3>2. \A i \in Slots : i # inreadbuf => UNCHANGED <<readn[i], readbuf[i]>>
      BY <1>1, <2>1, <2>4 DEF LineFlag, GoodFrame, BadFrame, EmptyFrame, UnseenFlag, buffers, TypeOK
    <3> QED BY <1>1, <2>2, <3>1, <3>2, ContentsStay
  <2> QED BY <2>3, <2>4
<1>4. CASE ReadDone
  <2>1. UNCHANGED sent
    BY <1>4 DEF ReadDone
  <2> QED BY <1>1, <1>4, <2>1, ContentsShrink
<1>5. CASE UNCHANGED <<index, buffers, deframer, sent, last>>
  <2>1. UNCHANGED index /\ UNCHANGED sent
    BY <1>5
  <2>2. \A i \in Slots : i # inreadbuf => UNCHANGED <<readn[i], readbuf[i]>>
    BY <1>5 DEF buffers
  <2> QED BY <1>1, <2>1, <2>2, ContentsStay
<1> QED BY <1>1, <1>2, <1>3, <1>4, <1>5, UnbrokenSteps

LEMMA NumBufsStep ==
    ASSUME TypeOK, [Next]_vars
    PROVE  numbufs' = numbufs \/ numbufs' \in 2 .. MaxNumBufs
<1>1. CASE \E n \in Sizes[mode] : Realloc(n)
  BY <1>1, SizesAssumption DEF Realloc, TypeOK
<1>2. CASE ~\E n \in Sizes[mode] : Realloc(n)
  BY <1>2 DEF Next, Line, AudioByte, LineByte, DataByte, OverrunByte, UnseenByte, LineFlag,
     GoodFrame, BadFrame, EmptyFrame, UnseenFlag, HdlcPutbuf, HdlcFinish, HdlcAbort, BeginRead,
     ReaderStep, ReadEvent, ReadEmpty, ReadStart, ReadFault, ReadDone, Sleep, Signal, Flush,
     Hangup, QEvent, DrainEvents, index, vars
<1> QED BY <1>1, <1>2

LEMMA NumBufsStays ==
    ASSUME Unbroken, [Next]_vars, RingInv
    PROVE  UNCHANGED numbufs
BY UnbrokenSteps DEF LineByte, DataByte, OverrunByte, UnseenByte, LineFlag, GoodFrame, BadFrame,
   EmptyFrame, UnseenFlag, ReadDone, index

LEMMA ReceiverInit == Init => FR!Init
<1> SUFFICES ASSUME Init PROVE FR!Init
  OBVIOUS
<1>1. numbufs \in 2 .. MaxNumBufs
  BY NumBufsType DEF Init
<1>2. Contents = <<>>
  BY DEF Init, Contents, Filled
<1> QED BY <1>1, <1>2 DEF Init, FR!Init

LEMMA ReceiverNext ==
    ASSUME NeverReset
    PROVE  IInv /\ [Next]_vars => [FR!Next]_FR!vars
<1> SUFFICES ASSUME IInv, [Next]_vars PROVE [FR!Next]_FR!vars
  OBVIOUS
<1>1. TypeOK /\ RingInv
  BY DEF IInv, RingInv
<1>2. Checked' <=> Checked
  BY ModeStays DEF Checked
<1>3. CASE Checked
  <2>1. Unbroken
    BY <1>1, <1>3, CheckedIsUnbroken
  <2>2. UNCHANGED numbufs
    BY <1>1, <2>1, NumBufsStays
  <2> QED BY <1>2, <1>3, <2>1, <2>2, UnbrokenReceiver, Zenon
          DEF FR!Next, FR!vars, FR!LineByte, FR!Receive, FR!Lose, FR!Take
<1>4. CASE ~Checked
  BY <1>1, <1>2, <1>4, NumBufsStep DEF FR!Next, FR!vars, FR!Clear
<1> QED BY <1>3, <1>4

\* A channel whose ring is not reset implements FrameReceiver, whatever the numbers
\* of its buffers and the lengths of its frames: what __putbuf_chunk() puts into the
\* ring and read() takes from it are frames of the line, whole, in order and once.
THEOREM RefinesReceiver ==
    ASSUME NeverReset
    PROVE  Spec => ImplementsFrameReceiver
<1>1. Init => FR!Init
  BY ReceiverInit
<1>2. IInv /\ [Next]_vars => [FR!Next]_FR!vars
  BY ReceiverNext
<1> QED BY <1>1, <1>2, InvariantHolds, PTL DEF Spec, ImplementsFrameReceiver, FR!Spec

-----------------------------------------------------------------------------
(* MTP2: a message that comes twice in a row is put into the ring once.    *)

LEMMA BitType ==
    ASSUME NEW x \in Int
    PROVE  /\ Bit(x, 1) \in 0 .. 1 /\ Bit(x, 2) \in 0 .. 1 /\ Bit(x, 4) \in 0 .. 1
           /\ Bit(x, 8) \in 0 .. 1 /\ Bit(x, 16) \in 0 .. 1
BY DEF Bit

LEMMA MaskOf2 == \A in \in 0 .. 1 : And(in - 1, 2 - 1) = Previous(2, in)
<1> SUFFICES ASSUME NEW in \in 0 .. 1
             PROVE  And(in - 1, 2 - 1) = Previous(2, in)
  OBVIOUS
<1>1. Bit(1, 1) = 1 /\ Bit(1, 2) = 0 /\ Bit(1, 4) = 0 /\ Bit(1, 8) = 0 /\ Bit(1, 16) = 0
  BY DEF Bit
<1>2. PICK y \in -1 .. 0 : y = in - 1
  OBVIOUS
<1>3. And(y, 1) = Bit(y, 1)
  BY <1>1, BitType DEF And
<1>4. And(y, 1) = IF y = -1 THEN 1 ELSE y
  BY <1>3 DEF Bit
<1>5. 2 - 1 = 1
  OBVIOUS
<1> QED BY <1>2, <1>4, <1>5 DEF Previous

LEMMA MaskOf4 == \A in \in 0 .. 3 : And(in - 1, 4 - 1) = Previous(4, in)
<1> SUFFICES ASSUME NEW in \in 0 .. 3
             PROVE  And(in - 1, 4 - 1) = Previous(4, in)
  OBVIOUS
<1>1. Bit(3, 1) = 1 /\ Bit(3, 2) = 1 /\ Bit(3, 4) = 0 /\ Bit(3, 8) = 0 /\ Bit(3, 16) = 0
  BY DEF Bit
<1>2. PICK y \in -1 .. 2 : y = in - 1
  OBVIOUS
<1>3. And(y, 3) = Bit(y, 1) + 2 * Bit(y, 2)
  BY <1>1, BitType DEF And
<1>4. And(y, 3) = IF y = -1 THEN 3 ELSE y
  BY <1>3 DEF Bit
<1>5. 4 - 1 = 3
  OBVIOUS
<1> QED BY <1>2, <1>4, <1>5 DEF Previous

LEMMA MaskOf8 == \A in \in 0 .. 7 : And(in - 1, 8 - 1) = Previous(8, in)
<1> SUFFICES ASSUME NEW in \in 0 .. 7
             PROVE  And(in - 1, 8 - 1) = Previous(8, in)
  OBVIOUS
<1>1. Bit(7, 1) = 1 /\ Bit(7, 2) = 1 /\ Bit(7, 4) = 1 /\ Bit(7, 8) = 0 /\ Bit(7, 16) = 0
  BY DEF Bit
<1>2. PICK y \in -1 .. 6 : y = in - 1
  OBVIOUS
<1>3. And(y, 7) = Bit(y, 1) + 2 * Bit(y, 2) + 4 * Bit(y, 4)
  BY <1>1, BitType DEF And
<1>4. And(y, 7) = IF y = -1 THEN 7 ELSE y
  BY <1>3 DEF Bit
<1>5. 8 - 1 = 7
  OBVIOUS
<1> QED BY <1>2, <1>4, <1>5 DEF Previous

LEMMA MaskOf16 == \A in \in 0 .. 15 : And(in - 1, 16 - 1) = Previous(16, in)
<1> SUFFICES ASSUME NEW in \in 0 .. 15
             PROVE  And(in - 1, 16 - 1) = Previous(16, in)
  OBVIOUS
<1>1. Bit(15, 1) = 1 /\ Bit(15, 2) = 1 /\ Bit(15, 4) = 1 /\ Bit(15, 8) = 1 /\ Bit(15, 16) = 0
  BY DEF Bit
<1>2. PICK y \in -1 .. 14 : y = in - 1
  OBVIOUS
<1>3. And(y, 15) = Bit(y, 1) + 2 * Bit(y, 2) + 4 * Bit(y, 4) + 8 * Bit(y, 8)
  BY <1>1, BitType DEF And
<1>4. And(y, 15) = IF y = -1 THEN 15 ELSE y
  BY <1>3 DEF Bit
<1>5. 16 - 1 = 15
  OBVIOUS
<1> QED BY <1>2, <1>4, <1>5 DEF Previous

LEMMA MaskOf32 == \A in \in 0 .. 31 : And(in - 1, 32 - 1) = Previous(32, in)
<1> SUFFICES ASSUME NEW in \in 0 .. 31
             PROVE  And(in - 1, 32 - 1) = Previous(32, in)
  OBVIOUS
<1>1. Bit(31, 1) = 1 /\ Bit(31, 2) = 1 /\ Bit(31, 4) = 1 /\ Bit(31, 8) = 1 /\ Bit(31, 16) = 1
  BY DEF Bit
<1>2. PICK y \in -1 .. 30 : y = in - 1
  OBVIOUS
<1>3. And(y, 31) = Bit(y, 1) + 2 * Bit(y, 2) + 4 * Bit(y, 4) + 8 * Bit(y, 8) + 16 * Bit(y, 16)
  BY <1>1, BitType DEF And
<1>4. And(y, 31) = IF y = -1 THEN 31 ELSE y
  BY <1>3 DEF Bit
<1>5. 32 - 1 = 31
  OBVIOUS
<1> QED BY <1>2, <1>4, <1>5 DEF Previous

\* The mask finds the buffer before the one that is filled if their number is a power
\* of two.
LEMMA CompareBefore ==
    ASSUME numbufs \in PowersOfTwo, NEW in \in 0 .. numbufs - 1
    PROVE  CompareMessage(in) = Before(in)
<1>1. CASE numbufs = 2
  BY <1>1, MaskOf2 DEF CompareMessage, Before, Previous
<1>2. CASE numbufs = 4
  BY <1>2, MaskOf4 DEF CompareMessage, Before, Previous
<1>3. CASE numbufs = 8
  BY <1>3, MaskOf8 DEF CompareMessage, Before, Previous
<1>4. CASE numbufs = 16
  BY <1>4, MaskOf16 DEF CompareMessage, Before, Previous
<1>5. CASE numbufs = 32
  BY <1>5, MaskOf32 DEF CompareMessage, Before, Previous
<1> QED BY <1>1, <1>2, <1>3, <1>4, <1>5 DEF PowersOfTwo

LEMMA NewMessage ==
    ASSUME IInv, Unbroken, mode = "mtp2", numbufs \in PowersOfTwo, GoodFrame(TRUE),
           ~Repeated(inreadbuf)
    PROVE  Bytes(inreadbuf, readidx[inreadbuf]) # last
<1> SUFFICES ASSUME Bytes(inreadbuf, readidx[inreadbuf]) = last PROVE FALSE
  OBVIOUS
<1>1. /\ TypeOK /\ IndicesDiffer /\ LastBehind
      /\ inreadbuf # None /\ readidx[inreadbuf] > 0
  BY DEF IInv, RingInv, LastInv, GoodFrame, Deframing
<1>2. /\ inreadbuf \in 0 .. numbufs - 1 /\ inreadbuf \in Slots
      /\ readidx[inreadbuf] \in 0 .. BlockSize
  BY <1>1, FrontType
<1>3. Len(last) = readidx[inreadbuf]
  BY <1>1, <1>2, BytesType
<1>4. last # <<>>
  BY <1>1, <1>3
<1>5. CompareMessage(inreadbuf) = Before(Front)
  BY <1>1, <1>2, CompareBefore DEF Front
<1>6. Bytes(CompareMessage(inreadbuf), readidx[inreadbuf]) = last
  BY <1>1, <1>3, <1>4, <1>5 DEF LastBehind
<1> QED BY <1>6 DEF Repeated

\* On an SS7 link whose ring is not reset, with a power of two of buffers, a message
\* that __putbuf_chunk() puts into the ring is another one than the last it put there,
\* even after the reader has taken that one.
THEOREM NoMessageTwice ==
    ASSUME NeverReset
    PROVE  Spec => AcceptsOnlyNew
<1> DEFINE New == mode = "mtp2" /\ numbufs \in PowersOfTwo /\ GoodFrame(TRUE)
                     /\ ~Repeated(inreadbuf)
                  => Bytes(inreadbuf, readidx[inreadbuf]) # last
<1>1. IInv /\ [Next]_vars => [New]_vars
  <2> SUFFICES ASSUME IInv, [Next]_vars, mode = "mtp2", numbufs \in PowersOfTwo,
                      GoodFrame(TRUE), ~Repeated(inreadbuf)
               PROVE  Bytes(inreadbuf, readidx[inreadbuf]) # last
    OBVIOUS
  <2>1. Unbroken
    BY CheckedIsUnbroken DEF IInv, RingInv, Checked
  <2> QED BY <2>1, NewMessage
<1> QED BY <1>1, InvariantHolds, PTL DEF Spec, AcceptsOnlyNew

=============================================================================

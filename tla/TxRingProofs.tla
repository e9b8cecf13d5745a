---------------------------- MODULE TxRingProofs ----------------------------
(***************************************************************************)
(* Proofs about the transmit ring: type correctness, the safety invariants *)
(* of TxRing, that it implements FrameQueue and gathers frames as its      *)
(* policies say, for every number of buffers.                              *)
(***************************************************************************)
EXTENDS TxRing, SequenceTheorems, TLAPS

\* The two indices never meet: a ring that is full or empty says so with None.
IndicesDiffer == inwritebuf # outwritebuf

Copying == {"copy", "commit"}

\* Between the two halves of a write the writer's buffer is still the one that the
\* next write would fill, or something has emptied the ring since.
WriterHolds ==
    pc["writer"] \in Copying => /\ res \in 0 .. numbufs - 1
                                /\ res = inwritebuf \/ outwritebuf = None

\* What a write is about to hand over is a whole frame of which nothing was sent.
ReadyToCommit ==
    pc["writer"] = "commit" => writebuf[res] # Torn /\ writeidx[res] = 0

\* The inductive invariant.
IInv ==
    /\ TypeOK
    /\ FullRingRuns
    /\ IndicesDiffer
    /\ WriterHolds
    /\ ReadyToCommit
    /\ WholeFrames

-----------------------------------------------------------------------------

\* The successor of an index without the modulus.
LEMMA FollowingValue ==
    ASSUME numbufs \in Nat, numbufs >= 2, NEW i \in 0 .. numbufs - 1
    PROVE  Following(i) = IF i + 1 = numbufs THEN 0 ELSE i + 1
<1>1. CASE i + 1 = numbufs
  BY <1>1, SMT DEF Following
<1>2. CASE i + 1 # numbufs
  BY <1>2, SMT DEF Following
<1> QED BY <1>1, <1>2

LEMMA InitIInv == Init => IInv
<1> SUFFICES ASSUME Init PROVE IInv
  OBVIOUS
<1> USE DEF Init
<1>1. TypeOK
  <2>1. /\ numbufs \in 2 .. MaxNumBufs
        /\ inwritebuf \in {None} \cup 0 .. numbufs - 1
        /\ outwritebuf \in {None} \cup 0 .. numbufs - 1
        /\ res \in Slots
    BY NumBufsAssumption DEF None, Slots
  <2>2. /\ writen \in [Slots -> Lens \cup {0}]
        /\ writeidx \in [Slots -> Nat]
        /\ writebuf \in [Slots -> Data \cup {Torn}]
    OBVIOUS
  <2>3. txdisable \in BOOLEAN /\ mtp2 \in BOOLEAN /\ framer \in BOOLEAN /\ eventq \in BOOLEAN
    <3>1. txdisable \in BOOLEAN
      BY SMT
    <3>2. mtp2 \in BOOLEAN
      BY ModeAssumption, Zenon
    <3>3. eventq \in BOOLEAN
      BY Zenon
    <3>4. framer \in BOOLEAN
      BY ModeAssumption, Zenon
    <3> QED BY <3>1, <3>2, <3>3, <3>4
  <2>4. pc \in [Threads -> PCs] /\ pc["waiter"] = "idle"
    BY DEF Threads, PCs
  <2> QED BY <2>1, <2>2, <2>3, <2>4 DEF TypeOK, Goals
<1>2. FullRingRuns /\ IndicesDiffer
  BY DEF FullRingRuns, IndicesDiffer, None
<1>3. WriterHolds /\ ReadyToCommit
  BY DEF WriterHolds, ReadyToCommit, Copying, Threads
<1>4. WholeFrames
  BY DEF WholeFrames, Occupied
<1> QED BY <1>1, <1>2, <1>3, <1>4 DEF IInv

-----------------------------------------------------------------------------
(* A step keeps the types.  It takes the whole invariant: the buffer that a *)
(* commit publishes is in use, and the head frame, which goes to the line,  *)
(* is not Torn.                                                             *)

WaiterPCs == {"idle", "check", "gap", "asleep"}

\* A wake-up moves sleepers to "check" and nobody else.
LEMMA WokenType ==
    ASSUME pc \in [Threads -> PCs], pc["waiter"] \in WaiterPCs, NEW ts
    PROVE  /\ Woken(ts) \in [Threads -> PCs]
           /\ Woken(ts)["waiter"] \in WaiterPCs
           /\ Woken(ts)["writer"] \in Copying => Woken(ts)["writer"] = pc["writer"]
BY DEF Woken, Threads, PCs, WaiterPCs, Copying

LEMMA FirstIndex ==
    ASSUME NEW n \in Nat, n >= 2
    PROVE  0 \in 0 .. n - 1
OBVIOUS

LEMMA EmptiedType ==
    ASSUME TypeOK, numbufs' \in 2 .. MaxNumBufs, Emptied
    PROVE  /\ inwritebuf' \in {None} \cup 0 .. numbufs' - 1
           /\ outwritebuf' \in {None} \cup 0 .. numbufs' - 1
           /\ writen' \in [Slots -> Lens \cup {0}]
           /\ writeidx' \in [Slots -> Nat]
<1>1. \A i \in Slots : writen[i] \in Lens \cup {0} /\ writeidx[i] \in Nat
  BY DEF TypeOK
<1>2. writen' \in [Slots -> Lens \cup {0}] /\ writeidx' \in [Slots -> Nat]
  BY <1>1 DEF Emptied
<1>3. numbufs' \in Nat /\ numbufs' >= 2
  BY NumBufsAssumption
<1>4. inwritebuf' = 0 /\ outwritebuf' = None
  BY DEF Emptied
<1>5. 0 \in 0 .. numbufs' - 1
  BY <1>3, FirstIndex
<1> QED BY <1>2, <1>4, <1>5

\* The frame at the head of the ring is whole.
LEMMA HeadWhole ==
    ASSUME IInv, outwritebuf # None
    PROVE  /\ outwritebuf \in Slots
           /\ outwritebuf \in Occupied
           /\ writebuf[outwritebuf] \in Data
<1>1. outwritebuf \in 0 .. numbufs - 1 /\ outwritebuf \in Slots
  BY NumBufsAssumption DEF IInv, TypeOK, Slots
<1>2. outwritebuf \in Occupied
  BY <1>1 DEF IInv, TypeOK, IndicesDiffer, Occupied, None
<1>3. writebuf[outwritebuf] # Torn
  BY <1>2 DEF IInv, WholeFrames
<1> QED BY <1>1, <1>2, <1>3 DEF IInv, TypeOK

LEMMA TypeStep == IInv /\ [Next]_vars => TypeOK'
<1> SUFFICES ASSUME IInv, [Next]_vars PROVE TypeOK'
  OBVIOUS
<1>0. TypeOK /\ WriterHolds
  BY DEF IInv
<1> USE <1>0
<1> USE DEF ring, policy, flags, local
<1>1. ASSUME NEW n \in Lens, BeginWrite(n) PROVE TypeOK'
  BY <1>1 DEF TypeOK, BeginWrite, Threads, PCs
<1>2. CASE WriteEvent
  BY <1>2 DEF TypeOK, WriteEvent, Threads, PCs
<1>3. CASE WriteFull
  BY <1>3 DEF TypeOK, WriteFull, Threads, PCs
<1>4. CASE WriteStart
  BY <1>4, NumBufsAssumption DEF TypeOK, WriteStart, Threads, PCs, Slots, None
<1>5. CASE WriteFault
  BY <1>5 DEF TypeOK, WriteFault, Threads, PCs
<1>6. ASSUME NEW d \in Data, WriteCopied(d) PROVE TypeOK'
  BY <1>6 DEF TypeOK, WriteCopied, Threads, PCs
<1>7. CASE WriteCommit
  <2>1. res \in 0 .. numbufs - 1
    BY <1>7 DEF WriteCommit, WriterHolds, Copying
  <2>2. NextIn(res) \in {None} \cup 0 .. numbufs - 1
    BY <2>1, FollowingValue DEF TypeOK, NextIn
  <2>3. txdisable' \in BOOLEAN
    BY <1>7 DEF TypeOK, WriteCommit
  <2> QED
    BY <1>7, <2>1, <2>2, <2>3 DEF TypeOK, WriteCommit, Threads, PCs
<1>8. ASSUME NEW t \in Threads, Sleep(t) PROVE TypeOK'
  BY <1>8 DEF TypeOK, Sleep, Threads, PCs
<1>9. ASSUME NEW g \in Goals, BeginWait(g) PROVE TypeOK'
  BY <1>9 DEF TypeOK, BeginWait, Threads, PCs
<1>10. CASE WaitCheck
  BY <1>10 DEF TypeOK, WaitCheck, Threads, PCs
<1>11. CASE SendChunk
  BY <1>11, HeadWhole DEF TypeOK, SendChunk, Transmitting
<1>12. CASE FinishBuffer
  <2>1. outwritebuf \in 0 .. numbufs - 1 /\ outwritebuf \in Slots
    BY <1>12, NumBufsAssumption DEF TypeOK, FinishBuffer, Transmitting, Slots
  <2>2. /\ NextOut(outwritebuf) \in {None} \cup 0 .. numbufs - 1
        /\ Room(outwritebuf) \in {None} \cup 0 .. numbufs - 1
    BY <2>1, FollowingValue DEF TypeOK, NextOut, Room
  <2>3. /\ writeidx' \in [Slots -> Nat]
        /\ writen' \in [Slots -> Lens \cup {0}]
        /\ line' \in Data
    BY <1>12, <2>1, HeadWhole DEF TypeOK, FinishBuffer, Transmitting
  <2>4. txdisable' \in BOOLEAN
    BY <1>12 DEF TypeOK, FinishBuffer, Rearmed
  <2>5. pc' \in [Threads -> PCs] /\ pc'["waiter"] \in WaiterPCs
    BY <1>12, WokenType DEF TypeOK, FinishBuffer, WaiterPCs
  <2> QED
    BY <1>12, <2>2, <2>3, <2>4, <2>5 DEF TypeOK, FinishBuffer, WaiterPCs
<1>13. ASSUME NEW t \in Threads, Signal(t) PROVE TypeOK'
  BY <1>13 DEF TypeOK, Signal, Threads, PCs
<1>14. CASE Flush
  <2>1. pc' \in [Threads -> PCs] /\ pc'["waiter"] \in WaiterPCs
    BY <1>14, WokenType DEF TypeOK, Flush, WaiterPCs
  <2> QED BY <1>14, <2>1, EmptiedType DEF TypeOK, Flush, WaiterPCs
<1>15. CASE Hangup
  BY <1>15, EmptiedType DEF TypeOK, Hangup
<1>16. ASSUME NEW p \in Policies, SetPolicy(p) PROVE TypeOK'
  BY <1>16 DEF TypeOK, SetPolicy, Threads, PCs
<1>17. CASE ReallocFails
  BY <1>17 DEF TypeOK, ReallocFails, Threads, PCs
<1>18. ASSUME NEW n \in 2 .. MaxNumBufs, Realloc(n) PROVE TypeOK'
  <2>1. /\ pc' \in [Threads -> PCs] /\ pc'["waiter"] \in WaiterPCs
        /\ writebuf' \in [Slots -> Data \cup {Torn}]
    BY <1>18 DEF TypeOK, Realloc, Threads, PCs, WaiterPCs
  <2>2. txdisable' \in BOOLEAN
    BY <1>18 DEF Realloc
  <2>3. numbufs' \in 2 .. MaxNumBufs /\ Emptied
    BY <1>18 DEF Realloc
  <2> QED BY <1>18, <2>1, <2>2, <2>3, EmptiedType DEF TypeOK, Realloc, WaiterPCs
<1>19. CASE QEvent
  <2>1. pc' \in [Threads -> PCs] /\ pc'["waiter"] \in WaiterPCs
    BY <1>19, WokenType DEF TypeOK, QEvent, WaiterPCs
  <2> QED BY <1>19, <2>1 DEF TypeOK, QEvent, WaiterPCs
<1>20. CASE DrainEvents
  BY <1>20 DEF TypeOK, DrainEvents
<1>21. CASE UNCHANGED vars
  BY <1>21 DEF TypeOK, vars
<1> QED
  BY <1>1, <1>2, <1>3, <1>4, <1>5, <1>6, <1>7, <1>8, <1>9, <1>10, <1>11, <1>12, <1>13,
     <1>14, <1>15, <1>16, <1>17, <1>18, <1>19, <1>20, <1>21
     DEF Next, WriterStep, WaiterStep, Interrupt, GetbufChunk, HdlcGetbuf, Threads

-----------------------------------------------------------------------------
(* The rest of the invariant.                                              *)

\* The buffer of the next write holds no frame, nor does that of the write that
\* is under way.
LEMMA InvNoStomp ==
    ASSUME IInv
    PROVE  inwritebuf \notin Occupied /\ NoStomp
<1>1. inwritebuf \notin Occupied
  BY DEF IInv, TypeOK, IndicesDiffer, Occupied, None
<1>2. outwritebuf = None => Occupied = {}
  BY DEF Occupied
<1> QED BY <1>1, <1>2 DEF IInv, WriterHolds, NoStomp, Copying

\* Most steps leave the ring alone and do not take a writer into its copy.
LEMMA QuietStep ==
    ASSUME IInv, TypeOK', UNCHANGED <<ring, res>>, txdisable' \in {txdisable, FALSE},
           pc'["writer"] \in Copying => pc'["writer"] = pc["writer"]
    PROVE  IInv'
<1> USE DEF ring
<1>1. FullRingRuns' /\ IndicesDiffer'
  BY DEF IInv, TypeOK, FullRingRuns, IndicesDiffer
<1>2. WriterHolds' /\ ReadyToCommit'
  BY DEF IInv, WriterHolds, ReadyToCommit, Copying
<1>3. Occupied' = Occupied
  BY DEF Occupied
<1>4. WholeFrames'
  BY <1>3 DEF IInv, WholeFrames
<1> QED BY <1>1, <1>2, <1>4 DEF IInv

\* So do the resets, which leave no frame behind.
LEMMA EmptiedStep ==
    ASSUME IInv, TypeOK', Emptied,
           pc'["writer"] \in Copying =>
               pc'["writer"] = pc["writer"] /\ UNCHANGED <<res, writebuf, numbufs>>
    PROVE  IInv'
<1>1. FullRingRuns' /\ IndicesDiffer'
  BY DEF Emptied, FullRingRuns, IndicesDiffer, None
<1>2. WriterHolds'
  BY DEF IInv, WriterHolds, Emptied
<1>3. ReadyToCommit'
  <2> SUFFICES ASSUME pc'["writer"] = "commit"
               PROVE  writebuf'[res'] # Torn /\ writeidx'[res'] = 0
    BY DEF ReadyToCommit
  <2>1. res' = res /\ res \in 0 .. numbufs - 1 /\ res \in Slots /\ writebuf'[res] # Torn
        /\ numbufs' = numbufs
    BY DEF IInv, TypeOK, WriterHolds, ReadyToCommit, Copying
  <2>2. writeidx'[res] = 0
    BY <2>1 DEF Emptied, IInv, TypeOK
  <2> QED BY <2>1, <2>2
<1>4. WholeFrames'
  BY DEF Emptied, WholeFrames, Occupied
<1> QED BY <1>1, <1>2, <1>3, <1>4 DEF IInv

LEMMA WriteStartStep == IInv /\ TypeOK' /\ WriteStart => IInv'
<1> SUFFICES ASSUME IInv, TypeOK', WriteStart PROVE IInv'
  OBVIOUS
<1>1. UNCHANGED <<inwritebuf, outwritebuf, writeidx, numbufs, txdisable>>
  BY DEF WriteStart, policy
<1>2. FullRingRuns' /\ IndicesDiffer'
  BY <1>1 DEF IInv, FullRingRuns, IndicesDiffer
<1>3. WriterHolds' /\ ReadyToCommit'
  BY <1>1 DEF IInv, TypeOK, WriteStart, WriterHolds, ReadyToCommit, Copying, Threads
<1>4. Occupied' = Occupied
  BY <1>1 DEF Occupied
<1>5. \A i \in Occupied : writebuf'[i] = writebuf[i]
  <2>1. Occupied \subseteq Slots
    BY NumBufsAssumption DEF Occupied, Slots, IInv, TypeOK
  <2> QED BY <2>1, InvNoStomp DEF WriteStart, IInv, TypeOK
<1>6. WholeFrames'
  BY <1>1, <1>4, <1>5 DEF IInv, WholeFrames
<1> QED BY <1>2, <1>3, <1>6 DEF IInv

LEMMA WriteCopiedStep ==
    ASSUME IInv, TypeOK', NEW d \in Data, WriteCopied(d)
    PROVE  IInv'
<1>1. UNCHANGED <<inwritebuf, outwritebuf, numbufs, txdisable, res>>
  BY DEF WriteCopied, policy, local
<1>2. FullRingRuns' /\ IndicesDiffer'
  BY <1>1 DEF IInv, FullRingRuns, IndicesDiffer
<1>3. WriterHolds' /\ ReadyToCommit'
  BY <1>1, DataAssumption
     DEF IInv, TypeOK, WriteCopied, WriterHolds, ReadyToCommit, Copying, Threads
<1>4. Occupied' = Occupied
  BY <1>1 DEF Occupied
<1>5. \A i \in Occupied : writebuf'[i] = writebuf[i] /\ writeidx'[i] = writeidx[i]
  <2>1. Occupied \subseteq Slots
    BY NumBufsAssumption DEF Occupied, Slots, IInv, TypeOK
  <2>2. res \notin Occupied
    BY InvNoStomp DEF WriteCopied, NoStomp
  <2> QED BY <2>1, <2>2 DEF WriteCopied, IInv, TypeOK
<1>6. WholeFrames'
  BY <1>1, <1>4, <1>5 DEF IInv, WholeFrames
<1> QED BY <1>2, <1>3, <1>6 DEF IInv

\* A commit adds the writer's buffer to the frames of the ring, and no other.
LEMMA WriteCommitStep == IInv /\ TypeOK' /\ WriteCommit => IInv'
<1> SUFFICES ASSUME IInv, TypeOK', WriteCommit PROVE IInv'
  OBVIOUS
<1>1. /\ res \in 0 .. numbufs - 1 /\ (res = inwritebuf \/ outwritebuf = None)
      /\ writebuf[res] # Torn /\ writeidx[res] = 0
  BY DEF IInv, WriterHolds, ReadyToCommit, WriteCommit, Copying
<1>2. /\ numbufs \in Nat /\ numbufs >= 2
      /\ outwritebuf \in {None} \cup 0 .. numbufs - 1
      /\ inwritebuf # outwritebuf
  BY DEF IInv, TypeOK, IndicesDiffer
<1>3. Following(res) = (IF res + 1 = numbufs THEN 0 ELSE res + 1)
  BY <1>1, <1>2, FollowingValue
<1>4. /\ inwritebuf' = (IF Following(res) = outwritebuf THEN None ELSE Following(res))
      /\ outwritebuf' = (IF outwritebuf = None THEN res ELSE outwritebuf)
      /\ UNCHANGED <<writeidx, writebuf, numbufs>>
  BY DEF WriteCommit, NextIn
<1>5. IndicesDiffer'
  BY <1>1, <1>2, <1>3, <1>4 DEF IndicesDiffer, None
<1>6. FullRingRuns'
  BY <1>1, <1>2, <1>3, <1>4 DEF WriteCommit, Enough, FullRingRuns, None
<1>7. WriterHolds' /\ ReadyToCommit'
  BY DEF WriteCommit, WriterHolds, ReadyToCommit, Copying, IInv, TypeOK, Threads
<1>8. Occupied' \subseteq Occupied \cup {res}
  BY <1>1, <1>2, <1>3, <1>4 DEF Occupied, None
<1>9. outwritebuf = None => Occupied = {}
  BY DEF Occupied
<1>10. WholeFrames'
  BY <1>1, <1>4, <1>8, <1>9 DEF IInv, WholeFrames
<1> QED BY <1>5, <1>6, <1>7, <1>10 DEF IInv

LEMMA SendChunkStep == IInv /\ TypeOK' /\ SendChunk => IInv'
<1> SUFFICES ASSUME IInv, TypeOK', SendChunk PROVE IInv'
  OBVIOUS
<1>1. /\ UNCHANGED <<inwritebuf, outwritebuf, writebuf, numbufs, txdisable, pc, res>>
      /\ outwritebuf # None
      /\ writeidx' = [writeidx EXCEPT ![outwritebuf] = @ + 1]
  BY DEF SendChunk, Transmitting, policy, local
<1>2. FullRingRuns' /\ IndicesDiffer' /\ WriterHolds'
  BY <1>1 DEF IInv, FullRingRuns, IndicesDiffer, WriterHolds
<1>3. ReadyToCommit'
  <2>1. pc["writer"] = "commit" => res # outwritebuf
    BY <1>1 DEF IInv, WriterHolds, IndicesDiffer, Copying
  <2> QED BY <1>1, <2>1 DEF IInv, TypeOK, ReadyToCommit
<1>4. Occupied' = Occupied
  BY <1>1 DEF Occupied
<1>5. \A i \in Occupied : i # outwritebuf => writeidx'[i] = writeidx[i]
  BY <1>1 DEF IInv, TypeOK
<1>6. WholeFrames'
  BY <1>1, <1>4, <1>5 DEF IInv, WholeFrames
<1> QED BY <1>2, <1>3, <1>6 DEF IInv

\* At the end of a frame the interrupt moves on within the frames of the ring.
LEMMA FinishBufferStep == IInv /\ TypeOK' /\ FinishBuffer => IInv'
<1> SUFFICES ASSUME IInv, TypeOK', FinishBuffer PROVE IInv'
  OBVIOUS
<1> DEFINE old == outwritebuf
<1>1. /\ numbufs \in Nat /\ numbufs >= 2
      /\ old \in 0 .. numbufs - 1 /\ old \in Slots
      /\ inwritebuf \in {None} \cup 0 .. numbufs - 1
      /\ inwritebuf # old
  BY NumBufsAssumption
     DEF IInv, TypeOK, IndicesDiffer, FinishBuffer, Transmitting, Slots
<1>2. Following(old) = (IF old + 1 = numbufs THEN 0 ELSE old + 1)
  BY <1>1, FollowingValue
<1>3. /\ outwritebuf' = (IF Following(old) # inwritebuf THEN Following(old)
                         ELSE IF mtp2 THEN old ELSE None)
      /\ inwritebuf' = (IF inwritebuf = None THEN old ELSE inwritebuf)
      /\ writeidx' = [writeidx EXCEPT ![old] = 0]
      /\ UNCHANGED <<writebuf, numbufs, res>>
  BY DEF FinishBuffer, NextOut, Drains, Room, local
<1>4. IndicesDiffer' /\ FullRingRuns'
  BY <1>1, <1>2, <1>3 DEF IndicesDiffer, FullRingRuns, None
<1>5. pc'["writer"] \in Copying => pc'["writer"] = pc["writer"]
  BY WokenType DEF FinishBuffer, IInv, TypeOK, WaiterPCs
<1>6. WriterHolds'
  BY <1>1, <1>3, <1>5 DEF IInv, WriterHolds, None
<1>7. ReadyToCommit'
  BY <1>1, <1>3, <1>5 DEF IInv, TypeOK, ReadyToCommit, Copying
<1>8. Occupied' \subseteq Occupied
  BY <1>1, <1>2, <1>3 DEF Occupied, None
<1>9. \A i \in Occupied : writeidx'[i] = 0
  <2>1. \A i \in Occupied : i # old => writeidx[i] = 0
    BY DEF IInv, WholeFrames
  <2>2. Occupied \subseteq Slots
    BY NumBufsAssumption DEF Occupied, Slots, IInv, TypeOK
  <2> QED BY <1>1, <1>3, <2>1, <2>2 DEF IInv, TypeOK
<1>10. WholeFrames'
  BY <1>3, <1>8, <1>9 DEF IInv, WholeFrames
<1> QED BY <1>4, <1>6, <1>7, <1>10 DEF IInv

-----------------------------------------------------------------------------

LEMMA NextIInv == IInv /\ [Next]_vars => IInv'
<1> SUFFICES ASSUME IInv, [Next]_vars PROVE IInv'
  OBVIOUS
<1>0. TypeOK'
  BY TypeStep
<1> USE <1>0 DEF ring, policy, flags, local
<1>1. ASSUME NEW n \in Lens, BeginWrite(n) PROVE IInv'
  BY <1>1, QuietStep DEF BeginWrite, IInv, TypeOK, Threads, Copying
<1>2. CASE WriteEvent \/ WriteFull \/ WriteFault
  BY <1>2, QuietStep DEF WriteEvent, WriteFull, WriteFault, IInv, TypeOK, Threads, Copying
<1>3. ASSUME NEW t \in Threads, Sleep(t) \/ Signal(t) PROVE IInv'
  BY <1>3, QuietStep DEF Sleep, Signal, IInv, TypeOK, Threads, Copying
<1>4. ASSUME NEW g \in Goals, BeginWait(g) PROVE IInv'
  BY <1>4, QuietStep DEF BeginWait, IInv, TypeOK, Threads, Copying
<1>5. CASE WaitCheck
  BY <1>5, QuietStep DEF WaitCheck, IInv, TypeOK, Threads, Copying
<1>6. ASSUME NEW p \in Policies, SetPolicy(p) PROVE IInv'
  BY <1>6, QuietStep DEF SetPolicy, IInv, TypeOK, Threads, Copying
<1>7. CASE ReallocFails
  BY <1>7, QuietStep DEF ReallocFails, IInv, TypeOK, Threads, Copying
<1>8. CASE QEvent
  BY <1>8, QuietStep, WokenType DEF QEvent, IInv, TypeOK, WaiterPCs
<1>9. CASE DrainEvents
  BY <1>9, QuietStep DEF DrainEvents
<1>10. CASE UNCHANGED vars
  BY <1>10, QuietStep DEF vars
<1>11. CASE Flush
  BY <1>11, EmptiedStep, WokenType DEF Flush, IInv, TypeOK, WaiterPCs
<1>12. CASE Hangup
  BY <1>12, EmptiedStep DEF Hangup
<1>13. ASSUME NEW n \in 2 .. MaxNumBufs, Realloc(n) PROVE IInv'
  BY <1>13, EmptiedStep DEF Realloc, IInv, TypeOK, Threads, Copying
<1>14. ASSUME NEW d \in Data, WriteCopied(d) PROVE IInv'
  BY <1>14, WriteCopiedStep
<1> QED
  BY <1>1, <1>2, <1>3, <1>4, <1>5, <1>6, <1>7, <1>8, <1>9, <1>10, <1>11, <1>12, <1>13,
     <1>14, WriteStartStep, WriteCommitStep, SendChunkStep, FinishBufferStep
     DEF Next, WriterStep, WaiterStep, Interrupt, GetbufChunk, HdlcGetbuf, Threads

LEMMA InvariantHolds == Spec => []IInv
BY InitIInv, NextIInv, PTL DEF Spec

\* Every state of the ring has its type: the indices stay within the buffers in use.
THEOREM TypeCorrect == Spec => []TypeOK
<1>1. IInv => TypeOK
  BY DEF IInv
<1> QED BY InvariantHolds, <1>1, PTL

\* A full ring always has a running transmitter to give a waiting writer room.
THEOREM FullRingAlwaysRuns == Spec => []FullRingRuns
<1>1. IInv => FullRingRuns
  BY DEF IInv
<1> QED BY InvariantHolds, <1>1, PTL

\* write() never copies into a buffer that the interrupt may be sending, although
\* it copies without chan->lock.
THEOREM NeverStomps == Spec => []NoStomp
<1>1. IInv => NoStomp
  BY InvNoStomp
<1> QED BY InvariantHolds, <1>1, PTL

\* The three together: what the two sides of the ring rest on.
THEOREM RingIsSound == Spec => []RingSound
<1>1. IInv => RingSound
  BY InvNoStomp DEF IInv, RingSound
<1> QED BY InvariantHolds, <1>1, PTL

\* Only whole frames are sent, each of them from its first chunk.
THEOREM SendsWholeFrames == Spec => []WholeFrames
<1>1. IInv => WholeFrames
  BY DEF IInv
<1> QED BY InvariantHolds, <1>1, PTL

-----------------------------------------------------------------------------
(* The ring as a queue.                                                    *)

\* The frame in a buffer, and the buffer k frames behind o in a ring of n.
FrameIn(i) == [data |-> writebuf[i], len |-> writen[i]]
Behind(n, o, k) == IF o + k - 1 < n THEN o + k - 1 ELSE o + k - 1 - n
Ahead(n, i) == IF i + 1 = n THEN 0 ELSE i + 1

LEMMA BehindValue ==
    ASSUME NEW n \in Nat, n >= 2, NEW o \in 0 .. n - 1, NEW k \in 1 .. n
    PROVE  /\ (o + k - 1) % n = Behind(n, o, k)
           /\ Behind(n, o, k) \in 0 .. n - 1
<1>1. CASE o + k - 1 < n
  BY <1>1, SMT DEF Behind
<1>2. CASE o + k - 1 >= n
  <2>1. o + k - 1 = 1 * n + (o + k - 1 - n)
    BY SMT
  <2> QED BY <1>2, <2>1, SMT DEF Behind
<1> QED BY <1>1, <1>2

LEMMA BehindSteps ==
    ASSUME NEW n \in Nat, n >= 2, NEW o \in 0 .. n - 1
    PROVE  /\ Behind(n, o, 1) = o
           /\ \A k \in 1 .. n - 1 : /\ Behind(n, Ahead(n, o), k) = Behind(n, o, k + 1)
                                    /\ Behind(n, o, k + 1) # o
BY DEF Behind, Ahead

\* How many frames there are is how far the indices are apart.
LEMMA FilledValue ==
    ASSUME IInv
    PROVE  /\ numbufs \in Nat /\ numbufs >= 2 /\ numbufs \in 2 .. MaxNumBufs
           /\ outwritebuf = None => Filled = 0 /\ inwritebuf \in 0 .. numbufs - 1
           /\ outwritebuf # None => /\ outwritebuf \in 0 .. numbufs - 1
                                    /\ Filled \in 1 .. numbufs
                                    /\ inwritebuf = None => Filled = numbufs
                                    /\ inwritebuf # None =>
                                          /\ Filled < numbufs
                                          /\ inwritebuf = Behind(numbufs, outwritebuf, Filled + 1)
                                    /\ \A k \in 1 .. Filled : Behind(numbufs, outwritebuf, k) \in Occupied
           /\ Filled \in 0 .. numbufs
           /\ Occupied \subseteq Slots
<1>1. /\ numbufs \in Nat /\ numbufs >= 2 /\ numbufs \in 2 .. MaxNumBufs
      /\ inwritebuf \in {None} \cup 0 .. numbufs - 1
      /\ outwritebuf \in {None} \cup 0 .. numbufs - 1
      /\ inwritebuf # outwritebuf
      /\ inwritebuf = None => outwritebuf # None
  BY NumBufsAssumption DEF IInv, TypeOK, IndicesDiffer, FullRingRuns
<1>2. Occupied \subseteq Slots
  BY <1>1, NumBufsAssumption DEF Occupied, Slots
<1>3. outwritebuf = None => Filled = 0 /\ inwritebuf \in 0 .. numbufs - 1
  BY <1>1 DEF Filled, num_filled_bufs, None
<1>4. ASSUME outwritebuf # None
      PROVE  /\ outwritebuf \in 0 .. numbufs - 1 /\ Filled \in 1 .. numbufs
             /\ inwritebuf = None => Filled = numbufs
             /\ inwritebuf # None => /\ Filled < numbufs
                                     /\ inwritebuf = Behind(numbufs, outwritebuf, Filled + 1)
  BY <1>1, <1>4 DEF Filled, num_filled_bufs, None, Behind
<1>5. ASSUME outwritebuf # None, NEW k \in 1 .. Filled
      PROVE  Behind(numbufs, outwritebuf, k) \in Occupied
  BY <1>1, <1>4, <1>5 DEF Filled, num_filled_bufs, None, Behind, Occupied
<1> QED BY <1>1, <1>2, <1>3, <1>4, <1>5

LEMMA ListType ==
    ASSUME NEW n \in Nat, NEW S, NEW t, t = [k \in 1 .. n |-> t[k]],
           \A k \in 1 .. n : t[k] \in S
    PROVE  t \in Seq(S) /\ Len(t) = n
<1>1. t \in [1 .. n -> S]
  BY Zenon
<1> QED BY <1>1

\* The frames in m buffers from o on, in a ring of n.
Frames(o, n, m, buf, len) ==
    [k \in 1 .. m |-> [data |-> buf[(o + k - 1) % n], len |-> len[(o + k - 1) % n]]]

LEMMA ContentsAreFrames ==
    Contents = Frames(outwritebuf, numbufs, Filled, writebuf, writen)
BY DEF Contents, Frames

LEMMA FramesValue ==
    ASSUME NEW n \in Nat, n >= 2, NEW o \in 0 .. n - 1, NEW m \in 0 .. n, NEW buf, NEW len
    PROVE  /\ \A k \in 1 .. m : Frames(o, n, m, buf, len)[k] =
                  [data |-> buf[Behind(n, o, k)], len |-> len[Behind(n, o, k)]]
           /\ Frames(o, n, m, buf, len) = [k \in 1 .. m |-> Frames(o, n, m, buf, len)[k]]
           /\ \E S : Frames(o, n, m, buf, len) \in Seq(S)
           /\ Len(Frames(o, n, m, buf, len)) = m
<1> DEFINE s == Frames(o, n, m, buf, len)
           S == {s[k] : k \in 1 .. m}
<1>1. s = [k \in 1 .. m |-> s[k]]
  BY Zenon DEF Frames
<1>2. ASSUME NEW k \in 1 .. m
      PROVE  s[k] = [data |-> buf[Behind(n, o, k)], len |-> len[Behind(n, o, k)]]
  <2>1. s[k] = [data |-> buf[(o + k - 1) % n], len |-> len[(o + k - 1) % n]]
    BY Zenon DEF Frames
  <2>2. k \in 1 .. n
    OBVIOUS
  <2> QED BY <2>1, <2>2, BehindValue
<1>3. \A k \in 1 .. m : s[k] \in S
  OBVIOUS
<1>4. m \in Nat
  OBVIOUS
<1> HIDE DEF s, S
<1>5. s \in Seq(S) /\ Len(s) = m
  BY <1>1, <1>3, <1>4, ListType
<1> QED BY <1>1, <1>2, <1>5 DEF s

\* The first m frames from o on are the same in two rings of n.
Agree(o, n, m, buf, len, buf2, len2) ==
    /\ n \in Nat /\ n >= 2 /\ o \in 0 .. n - 1 /\ m \in 0 .. n
    /\ \A k \in 1 .. m : /\ buf2[Behind(n, o, k)] = buf[Behind(n, o, k)]
                         /\ len2[Behind(n, o, k)] = len[Behind(n, o, k)]

LEMMA FramesStay ==
    ASSUME NEW n, NEW o, NEW m, NEW buf, NEW len, NEW buf2, NEW len2,
           Agree(o, n, m, buf, len, buf2, len2)
    PROVE  Frames(o, n, m, buf2, len2) = Frames(o, n, m, buf, len)
<1>0. n \in Nat /\ n >= 2 /\ o \in 0 .. n - 1 /\ m \in 0 .. n
  BY DEF Agree
<1> DEFINE s == Frames(o, n, m, buf, len)
           t == Frames(o, n, m, buf2, len2)
<1>1. /\ \A k \in 1 .. m : s[k] = [data |-> buf[Behind(n, o, k)], len |-> len[Behind(n, o, k)]]
      /\ s = [k \in 1 .. m |-> s[k]]
  BY <1>0, FramesValue
<1>2. /\ \A k \in 1 .. m : t[k] = [data |-> buf2[Behind(n, o, k)], len |-> len2[Behind(n, o, k)]]
      /\ t = [k \in 1 .. m |-> t[k]]
  BY <1>0, FramesValue
<1> HIDE DEF s, t
<1>3. \A k \in 1 .. m : s[k] = t[k]
  BY <1>1, <1>2 DEF Agree
<1>4. s = t
  BY <1>1, <1>2, <1>3, Zenon
<1> QED BY <1>4 DEF s, t

LEMMA FramesAppend ==
    ASSUME NEW n, NEW o, NEW m, NEW buf, NEW len, Agree(o, n, m, buf, len, buf, len), m < n,
           NEW i, i = Behind(n, o, m + 1)
    PROVE  Frames(o, n, m + 1, buf, len)
             = Append(Frames(o, n, m, buf, len), [data |-> buf[i], len |-> len[i]])
<1> DEFINE s == Frames(o, n, m, buf, len)
           t == Frames(o, n, m + 1, buf, len)
<1> DEFINE f == [data |-> buf[i], len |-> len[i]]
<1>0. /\ n \in Nat /\ n >= 2 /\ o \in 0 .. n - 1
      /\ m \in 0 .. n /\ m + 1 \in 0 .. n /\ m \in Nat
  BY DEF Agree
<1>1. /\ \A k \in 1 .. m : s[k] = [data |-> buf[Behind(n, o, k)], len |-> len[Behind(n, o, k)]]
      /\ (\E S : s \in Seq(S)) /\ Len(s) = m
  BY <1>0, FramesValue
<1>2. /\ \A k \in 1 .. m + 1 : t[k] = [data |-> buf[Behind(n, o, k)], len |-> len[Behind(n, o, k)]]
      /\ (\E S : t \in Seq(S)) /\ Len(t) = m + 1
  BY <1>0, FramesValue
<1> HIDE DEF s, t
<1>3. \A k \in 1 .. m : t[k] = s[k]
  BY <1>0, <1>1, <1>2
<1>4. t[m + 1] = f
  BY <1>0, <1>2
<1> HIDE DEF f
<1>5. PICK S : s \in Seq(S)
  BY <1>1
<1>6. PICK T : t \in Seq(T)
  BY <1>2
<1> DEFINE U == S \cup T \cup {f}
           a == Append(s, f)
<1>7. s \in Seq(U) /\ t \in Seq(U) /\ f \in U
  BY <1>5, <1>6
<1> HIDE DEF U
<1>8. /\ a \in Seq(U) /\ Len(a) = m + 1 /\ a[m + 1] = f
      /\ \A k \in 1 .. m : a[k] = s[k]
  BY <1>1, <1>7, AppendProperties
<1> HIDE DEF a
<1>9. \A k \in 1 .. m + 1 : t[k] = a[k]
  <2> SUFFICES ASSUME NEW k \in 1 .. m + 1 PROVE t[k] = a[k]
    OBVIOUS
  <2>1. k \in 1 .. m \/ k = m + 1
    BY <1>0
  <2> QED BY <1>3, <1>4, <1>8, <2>1
<1>10. t = a
  BY <1>2, <1>7, <1>8, <1>9, SeqEqual, Zenon
<1> QED BY <1>10 DEF a, s, t, f

\* Two rings of n have the same frames, but that o is the first of m in one of them.
Moved(o, n, m, o2, l, len, len2) ==
    /\ n \in Nat /\ n >= 2 /\ o \in 0 .. n - 1 /\ m \in 1 .. n
    /\ l = m - 1 /\ (m > 1 => o2 = Ahead(n, o))
    /\ \A i \in 0 .. n - 1 : i # o => len2[i] = len[i]

LEMMA FramesTail ==
    ASSUME NEW n, NEW o, NEW m, NEW l, NEW o2, NEW buf, NEW len, NEW len2,
           Moved(o, n, m, o2, l, len, len2)
    PROVE  Frames(o2, n, l, buf, len2) = Tail(Frames(o, n, m, buf, len))
<1> DEFINE s == Frames(o, n, m, buf, len)
           t == Frames(o2, n, l, buf, len2)
<1>0. /\ n \in Nat /\ n >= 2 /\ o \in 0 .. n - 1 /\ m \in 1 .. n
      /\ m \in 0 .. n /\ l \in 0 .. n - 1 /\ l \in Nat
  BY DEF Moved
<1>1. /\ \A k \in 1 .. m : s[k] = [data |-> buf[Behind(n, o, k)], len |-> len[Behind(n, o, k)]]
      /\ (\E S : s \in Seq(S)) /\ Len(s) = m
  BY <1>0, FramesValue
<1>2. CASE m = 1
  <2>1. t = <<>>
    BY <1>2 DEF Frames, Moved
  <2> HIDE DEF s
  <2>2. Tail(s) = <<>>
    <3>1. PICK S : s \in Seq(S)
      BY <1>1
    <3>2. s # <<>>
      BY <1>0, <1>1
    <3>3. Tail(s) \in Seq(S) /\ Len(Tail(s)) = 0
      BY <1>1, <1>2, <3>1, <3>2, HeadTailProperties
    <3> QED BY <3>3, EmptySeq
  <2> QED BY <2>1, <2>2 DEF s
<1>3. CASE m > 1
  <2>1. o2 = Ahead(n, o) /\ o2 \in 0 .. n - 1
    BY <1>0, <1>3 DEF Ahead, Moved
  <2>2. /\ \A k \in 1 .. l : t[k] = [data |-> buf[Behind(n, o2, k)], len |-> len2[Behind(n, o2, k)]]
        /\ (\E S : t \in Seq(S)) /\ Len(t) = l
    <3>1. l \in 0 .. n
      BY <1>0
    <3> QED BY <1>0, <2>1, <3>1, FramesValue
  <2> HIDE DEF s, t
  <2>3. ASSUME NEW k \in 1 .. l PROVE t[k] = s[k + 1]
    <3>1. k \in 1 .. n - 1 /\ k + 1 \in 1 .. m /\ k + 1 \in 1 .. n
      BY <1>0 DEF Moved
    <3>2. Behind(n, o2, k) = Behind(n, o, k + 1) /\ Behind(n, o, k + 1) # o
      BY <1>0, <2>1, <3>1, BehindSteps
    <3>3. Behind(n, o, k + 1) \in 0 .. n - 1
      BY <1>0, <3>1, BehindValue
    <3> QED BY <1>1, <2>2, <3>1, <3>2, <3>3 DEF Moved
  <2>4. PICK S : s \in Seq(S)
    BY <1>1
  <2>5. PICK T : t \in Seq(T)
    BY <2>2
  <2> DEFINE U == S \cup T
             a == Tail(s)
  <2>6. s \in Seq(U) /\ t \in Seq(U)
    BY <2>4, <2>5
  <2> HIDE DEF U
  <2>7. s # <<>>
    BY <1>0, <1>1
  <2>8. a \in Seq(U) /\ Len(a) = l /\ \A k \in 1 .. l : a[k] = s[k + 1]
    <3>1. Len(s) = m /\ l = m - 1
      BY <1>1 DEF Moved
    <3> QED BY <1>0, <3>1, <2>6, <2>7, HeadTailProperties
  <2> HIDE DEF a
  <2>9. t = a
    BY <2>2, <2>3, <2>6, <2>8, SeqEqual, Zenon
  <2> QED BY <2>9 DEF a, s, t
<1> QED BY <1>0, <1>2, <1>3

\* The queue is a list of frames, each in the buffer that its place says.
LEMMA ContentsType ==
    ASSUME IInv
    PROVE  /\ Contents \in Seq(FQ!Frame) /\ Len(Contents) = Filled
           /\ \A k \in 1 .. Filled : /\ Contents[k] = FrameIn(Behind(numbufs, outwritebuf, k))
                                     /\ Contents[k] \in FQ!Frame
<1>1. numbufs \in Nat /\ numbufs >= 2 /\ Filled \in 0 .. numbufs
  BY FilledValue
<1>2. ASSUME NEW k \in 1 .. Filled
      PROVE  /\ Contents[k] = FrameIn(Behind(numbufs, outwritebuf, k))
             /\ Contents[k] \in FQ!Frame
  <2>1. outwritebuf # None /\ outwritebuf \in 0 .. numbufs - 1
    <3>1. Filled # 0
      BY <1>1
    <3> QED BY <3>1, FilledValue
  <2>2. k \in 1 .. numbufs
    BY <1>1
  <2>3. (outwritebuf + k - 1) % numbufs = Behind(numbufs, outwritebuf, k)
    BY <1>1, <2>1, <2>2, BehindValue
  <2>4. Contents[k] = [data |-> writebuf[(outwritebuf + k - 1) % numbufs],
                       len  |-> writen[(outwritebuf + k - 1) % numbufs]]
    BY Zenon DEF Contents
  <2>5. PICK i \in Occupied : i = Behind(numbufs, outwritebuf, k)
    BY <2>1, FilledValue
  <2>6. i \in Slots /\ writebuf[i] \in Data /\ writen[i] \in Lens \cup {0}
    BY <2>5, FilledValue DEF IInv, TypeOK, WholeFrames
  <2> QED BY <2>3, <2>4, <2>5, <2>6 DEF FrameIn, FQ!Frame
<1>3. Contents = [k \in 1 .. Filled |-> Contents[k]]
  BY DEF Contents
<1>4. Filled \in Nat
  BY <1>1
<1> HIDE DEF Contents, Filled
<1> QED BY <1>2, <1>3, <1>4, ListType

\* What leaves the frames in the ring alone leaves the queue alone.
LEMMA ContentsStay ==
    ASSUME IInv, UNCHANGED <<inwritebuf, outwritebuf, numbufs>>,
           \A i \in Occupied : UNCHANGED <<writebuf[i], writen[i]>>
    PROVE  Contents' = Contents
<1>1. Filled' = Filled
  BY Zenon DEF Filled, num_filled_bufs
<1>2. Contents' = Frames(outwritebuf', numbufs', Filled', writebuf', writen')
  BY Zenon DEF Contents, Frames
<1>3. Contents' = Frames(outwritebuf, numbufs, Filled, writebuf', writen')
  BY <1>1, <1>2
<1>4. CASE outwritebuf = None
  <2>1. Filled = 0
    BY <1>4, FilledValue
  <2> QED BY <1>3, <2>1, ContentsAreFrames DEF Frames
<1>5. CASE outwritebuf # None
  <2>1. PICK buf2, len2 : buf2 = writebuf' /\ len2 = writen'
    OBVIOUS
  <2>2. Agree(outwritebuf, numbufs, Filled, writebuf, writen, buf2, len2)
    BY <1>5, <2>1, FilledValue DEF Agree
  <2> HIDE DEF Filled
  <2>3. Frames(outwritebuf, numbufs, Filled, buf2, len2)
          = Frames(outwritebuf, numbufs, Filled, writebuf, writen)
    BY <2>2, FramesStay
  <2> QED BY <1>3, <2>1, <2>3, ContentsAreFrames
<1> QED BY <1>4, <1>5

\* The commit of a write puts its frame behind the others.
LEMMA ContentsGrow ==
    ASSUME IInv, WriteCommit
    PROVE  /\ Len(Contents) < numbufs
           /\ FrameIn(res) \in FQ!Frame
           /\ Contents' = Append(Contents, FrameIn(res))
<1> DEFINE o == IF outwritebuf = None THEN res ELSE outwritebuf
<1>1. /\ res \in 0 .. numbufs - 1 /\ (res = inwritebuf \/ outwritebuf = None)
      /\ writebuf[res] # Torn /\ res \in Slots
  BY DEF IInv, TypeOK, WriterHolds, ReadyToCommit, WriteCommit, Copying
<1>2. FrameIn(res) \in FQ!Frame
  BY <1>1 DEF IInv, TypeOK, FrameIn, FQ!Frame
<1>3. /\ numbufs \in Nat /\ numbufs >= 2 /\ inwritebuf # outwritebuf
      /\ inwritebuf \in {None} \cup 0 .. numbufs - 1
      /\ outwritebuf \in {None} \cup 0 .. numbufs - 1
  BY DEF IInv, TypeOK, IndicesDiffer
<1>4. Following(res) = (IF res + 1 = numbufs THEN 0 ELSE res + 1)
  BY <1>1, <1>3, FollowingValue
<1>5. /\ inwritebuf' = (IF Following(res) = outwritebuf THEN None ELSE Following(res))
      /\ outwritebuf' = o
      /\ UNCHANGED <<writebuf, writen, numbufs>>
  BY DEF WriteCommit, NextIn
<1>6. Filled \in 0 .. numbufs - 1 /\ o \in 0 .. numbufs - 1
  BY <1>1, <1>3, FilledValue DEF None
<1>7. Filled' = Filled + 1
  BY <1>1, <1>3, <1>4, <1>5 DEF Filled, num_filled_bufs, None
<1>8. res = Behind(numbufs, o, Filled + 1)
  <2>1. CASE outwritebuf = None
    BY <1>1, <1>3, <2>1, FilledValue, BehindSteps
  <2>2. CASE outwritebuf # None
    BY <1>1, <2>2, FilledValue DEF None
  <2> QED BY <2>1, <2>2
<1>9. Contents = Frames(o, numbufs, Filled, writebuf, writen)
  <2>1. CASE outwritebuf = None
    <3>1. Filled = 0
      BY <2>1, FilledValue
    <3> QED BY <3>1, ContentsAreFrames DEF Frames
  <2>2. CASE outwritebuf # None
    BY <2>2, ContentsAreFrames
  <2> QED BY <2>1, <2>2
<1>10. Contents' = Frames(outwritebuf', numbufs', Filled', writebuf', writen')
  BY Zenon DEF Contents, Frames
<1>11. Contents' = Frames(o, numbufs, Filled + 1, writebuf, writen)
  BY <1>5, <1>7, <1>10
<1> HIDE DEF o, Filled
<1>12. Agree(o, numbufs, Filled, writebuf, writen, writebuf, writen) /\ Filled < numbufs
  BY <1>3, <1>6 DEF Agree
<1>13. FrameIn(res) = [data |-> writebuf[res], len |-> writen[res]]
  BY DEF FrameIn
<1>14. Frames(o, numbufs, Filled + 1, writebuf, writen)
        = Append(Frames(o, numbufs, Filled, writebuf, writen), FrameIn(res))
  BY <1>8, <1>12, <1>13, FramesAppend
<1>15. Len(Contents) < numbufs
  BY <1>3, <1>6, ContentsType
<1> QED BY <1>2, <1>9, <1>11, <1>14, <1>15

\* The frame at the head of the ring is the head of the queue.
LEMMA ContentsHead ==
    ASSUME IInv, outwritebuf # None
    PROVE  /\ Contents # <<>>
           /\ Head(Contents) = FrameIn(outwritebuf)
           /\ Len(Contents) = Filled /\ Filled \in 1 .. numbufs
<1>1. /\ numbufs \in Nat /\ numbufs >= 2 /\ Filled \in 1 .. numbufs
      /\ outwritebuf \in 0 .. numbufs - 1
  BY FilledValue
<1>2. /\ Contents \in Seq(FQ!Frame) /\ Len(Contents) = Filled
      /\ Contents[1] = FrameIn(Behind(numbufs, outwritebuf, 1))
  BY <1>1, ContentsType
<1>3. Behind(numbufs, outwritebuf, 1) = outwritebuf
  BY <1>1, BehindSteps
<1> HIDE DEF Contents, Filled
<1> QED BY <1>1, <1>2, <1>3

\* The end of a frame takes it out of the ring, unless an MTP2 channel repeats it.
LEMMA ContentsShrink ==
    ASSUME IInv, FinishBuffer
    PROVE  Contents' = IF mtp2 /\ Len(Contents) = 1 THEN Contents ELSE Tail(Contents)
<1> DEFINE old == outwritebuf
<1>1. /\ numbufs \in Nat /\ numbufs >= 2 /\ old \in 0 .. numbufs - 1 /\ old # None
      /\ inwritebuf \in {None} \cup 0 .. numbufs - 1 /\ inwritebuf # old
  BY DEF IInv, TypeOK, IndicesDiffer, FinishBuffer, Transmitting
<1>2. Following(old) = Ahead(numbufs, old)
  BY <1>1, FollowingValue DEF Ahead
<1>3. /\ outwritebuf' = (IF Ahead(numbufs, old) # inwritebuf THEN Ahead(numbufs, old)
                         ELSE IF mtp2 THEN old ELSE None)
      /\ inwritebuf' = (IF inwritebuf = None THEN old ELSE inwritebuf)
      /\ writen' = (IF mtp2 THEN writen ELSE [writen EXCEPT ![old] = 0])
      /\ UNCHANGED <<writebuf, numbufs>>
  BY <1>2 DEF FinishBuffer, NextOut, Drains, Room
<1>4. Len(Contents) = Filled /\ Filled \in 1 .. numbufs
  BY <1>1, ContentsHead
<1>5. Ahead(numbufs, old) = inwritebuf <=> Filled = 1
  BY <1>1 DEF Ahead, Filled, num_filled_bufs, None
<1>6. CASE mtp2 /\ Filled = 1
  <2>1. UNCHANGED <<inwritebuf, outwritebuf, numbufs, writebuf, writen>>
    BY <1>1, <1>3, <1>5, <1>6 DEF None, Ahead
  <2>2. Contents' = Contents
    BY <2>1, ContentsStay
  <2> QED BY <1>4, <1>6, <2>2
<1>7. CASE ~(mtp2 /\ Filled = 1)
  <2>1. Filled' = Filled - 1
    BY <1>1, <1>3, <1>5, <1>7 DEF Ahead, Filled, num_filled_bufs, None
  <2>2. PICK o2, len2 : o2 = outwritebuf' /\ len2 = writen'
    OBVIOUS
  <2>3. Filled > 1 => o2 = Ahead(numbufs, old)
    BY <1>3, <1>5, <2>2
  <2>4. \A i \in 0 .. numbufs - 1 : i # old => len2[i] = writen[i]
    <3>1. ASSUME NEW i \in 0 .. numbufs - 1 PROVE i \in Slots
      BY <1>1, NumBufsAssumption DEF IInv, TypeOK, Slots
    <3> QED BY <1>3, <2>2, <3>1 DEF IInv, TypeOK
  <2>5. PICK l \in Nat : l = Filled - 1
    BY <1>4, <1>1
  <2>6. Contents' = Frames(outwritebuf', numbufs', Filled', writebuf', writen')
    BY Zenon DEF Contents, Frames
  <2>7. Contents' = Frames(o2, numbufs, l, writebuf, len2)
    BY <1>3, <2>1, <2>2, <2>5, <2>6
  <2>8. Moved(old, numbufs, Filled, o2, l, writen, len2)
    BY <1>1, <1>4, <2>3, <2>4, <2>5 DEF Moved
  <2> HIDE DEF Filled
  <2>9. Frames(o2, numbufs, l, writebuf, len2) = Tail(Frames(old, numbufs, Filled, writebuf, writen))
    BY <2>8, FramesTail
  <2> QED BY <1>4, <1>7, <2>7, <2>9, ContentsAreFrames
<1> QED BY <1>6, <1>7

LEMMA QueueInit == Init => FQ!Init
<1> SUFFICES ASSUME Init PROVE FQ!Init
  OBVIOUS
<1>1. mtp2 \in BOOLEAN
  BY ModeAssumption, Zenon DEF Init
<1>2. Contents = <<>>
  BY DEF Init, Contents, Filled, num_filled_bufs, None
<1> QED BY <1>1, <1>2 DEF Init, FQ!Init

\* A step that leaves the ring alone, and one that empties it.
LEMMA QueueQuiet ==
    ASSUME UNCHANGED <<ring, mtp2, line>>
    PROVE  UNCHANGED FQ!vars
BY DEF ring, FQ!vars, Contents, Filled, num_filled_bufs

LEMMA QueueClear ==
    ASSUME Emptied, numbufs' \in 2 .. MaxNumBufs, UNCHANGED <<mtp2, line>>
    PROVE  FQ!Clear
<1>1. outwritebuf' = None /\ inwritebuf' = 0
  BY DEF Emptied
<1>2. Filled' = 0
  BY <1>1 DEF Filled, num_filled_bufs, None
<1>3. Contents' = <<>>
  BY <1>2 DEF Contents
<1> QED BY <1>1, <1>3 DEF FQ!Clear

LEMMA QueueCopy ==
    ASSUME IInv, WriteStart \/ (\E d \in Data : WriteCopied(d))
    PROVE  UNCHANGED FQ!vars
<1>1. /\ UNCHANGED <<inwritebuf, outwritebuf, numbufs, mtp2, line>>
      /\ \A i \in Occupied : UNCHANGED <<writebuf[i], writen[i], writeidx[i]>>
  <2>1. Occupied \subseteq Slots /\ inwritebuf \notin Occupied /\ NoStomp
    BY FilledValue, InvNoStomp
  <2>2. CASE WriteStart
    BY <2>1, <2>2 DEF WriteStart, IInv, TypeOK, flags
  <2>3. CASE \E d \in Data : WriteCopied(d)
    BY <2>1, <2>3 DEF WriteCopied, IInv, TypeOK, NoStomp, flags
  <2> QED BY <2>2, <2>3
<1>2. Contents' = Contents
  BY <1>1, ContentsStay
<1>3. outwritebuf # None => outwritebuf \in Occupied
  BY HeadWhole
<1> QED BY <1>1, <1>2, <1>3 DEF FQ!vars

LEMMA QueuePut ==
    ASSUME IInv, WriteCommit
    PROVE  FQ!Put
<1>1. /\ Len(Contents) < numbufs /\ FrameIn(res) \in FQ!Frame
      /\ Contents' = Append(Contents, FrameIn(res))
  BY ContentsGrow
<1>2. UNCHANGED <<numbufs, line, mtp2, writeidx>> /\ writeidx[res] = 0
      /\ outwritebuf' = (IF outwritebuf = None THEN res ELSE outwritebuf)
      /\ res # None
  BY DEF WriteCommit, flags, IInv, TypeOK, ReadyToCommit, Slots, None
<1> QED BY <1>1, <1>2 DEF FQ!Put

LEMMA QueueSend ==
    ASSUME IInv, SendChunk
    PROVE  FQ!SendChunk
<1>1. /\ UNCHANGED <<inwritebuf, outwritebuf, writebuf, writen, numbufs, mtp2>>
      /\ outwritebuf # None /\ outwritebuf \in Slots
      /\ writeidx[outwritebuf] + 1 < writen[outwritebuf]
      /\ writeidx' = [writeidx EXCEPT ![outwritebuf] = @ + 1]
      /\ line' = writebuf[outwritebuf]
  BY HeadWhole DEF SendChunk, Transmitting, flags
<1>2. Contents # <<>> /\ Head(Contents) = FrameIn(outwritebuf)
  BY <1>1, ContentsHead
<1>3. Contents' = Contents
  BY <1>1, ContentsStay
<1>4. writeidx'[outwritebuf] = writeidx[outwritebuf] + 1
  BY <1>1 DEF IInv, TypeOK
<1> QED BY <1>1, <1>2, <1>3, <1>4 DEF FQ!SendChunk, FrameIn

LEMMA QueueFinish ==
    ASSUME IInv, FinishBuffer
    PROVE  FQ!FinishFrame
<1>1. /\ outwritebuf # None /\ UNCHANGED <<numbufs, mtp2>>
      /\ writeidx[outwritebuf] + 1 >= writen[outwritebuf]
      /\ line' = IF writen[outwritebuf] = 0 THEN line ELSE writebuf[outwritebuf]
  BY DEF FinishBuffer, Transmitting, flags
<1>2. Contents # <<>> /\ Head(Contents) = FrameIn(outwritebuf)
  BY <1>1, ContentsHead
<1>3. Contents' = IF mtp2 /\ Len(Contents) = 1 THEN Contents ELSE Tail(Contents)
  BY ContentsShrink
<1>4. outwritebuf' # None => writeidx'[outwritebuf'] = 0
  <2>1. /\ numbufs \in Nat /\ numbufs >= 2 /\ outwritebuf \in 0 .. numbufs - 1
        /\ inwritebuf \in {None} \cup 0 .. numbufs - 1 /\ inwritebuf # outwritebuf
    BY <1>1 DEF IInv, TypeOK, IndicesDiffer
  <2>2. Following(outwritebuf) = (IF outwritebuf + 1 = numbufs THEN 0 ELSE outwritebuf + 1)
    BY <2>1, FollowingValue
  <2>3. /\ outwritebuf' = (IF Following(outwritebuf) # inwritebuf THEN Following(outwritebuf)
                           ELSE IF mtp2 THEN outwritebuf ELSE None)
        /\ writeidx' = [writeidx EXCEPT ![outwritebuf] = 0]
    BY DEF FinishBuffer, NextOut, Drains
  <2>4. outwritebuf \in Slots /\ Occupied \subseteq Slots
    BY <1>1, HeadWhole, FilledValue
  <2>5. CASE Following(outwritebuf) # inwritebuf
    <3>1. Following(outwritebuf) \in Occupied /\ Following(outwritebuf) # outwritebuf
      BY <1>1, <2>1, <2>2, <2>5 DEF Occupied, None
    <3>2. writeidx[Following(outwritebuf)] = 0
      BY <3>1 DEF IInv, WholeFrames
    <3> QED BY <2>3, <2>4, <2>5, <3>1, <3>2 DEF IInv, TypeOK
  <2>6. CASE Following(outwritebuf) = inwritebuf
    BY <2>3, <2>4, <2>6 DEF IInv, TypeOK
  <2> QED BY <2>5, <2>6
<1> QED BY <1>1, <1>2, <1>3, <1>4 DEF FQ!FinishFrame, FrameIn

LEMMA QueueNext == IInv /\ [Next]_vars => [FQ!Next]_FQ!vars
<1> SUFFICES ASSUME IInv, [Next]_vars PROVE FQ!Next \/ UNCHANGED FQ!vars
  BY Zenon
<1>1. CASE WriteStart \/ (\E d \in Data : WriteCopied(d))
  BY <1>1, QueueCopy
<1>2. CASE WriteCommit
  BY <1>2, QueuePut DEF FQ!Next
<1>3. CASE SendChunk
  BY <1>3, QueueSend DEF FQ!Next
<1>4. CASE FinishBuffer
  BY <1>4, QueueFinish DEF FQ!Next
<1>5. CASE Flush \/ Hangup
  <2>1. Emptied /\ numbufs' \in 2 .. MaxNumBufs /\ UNCHANGED <<mtp2, line>>
    BY <1>5 DEF Flush, Hangup, flags, IInv, TypeOK
  <2> QED BY <2>1, QueueClear DEF FQ!Next
<1>6. ASSUME NEW n \in 2 .. MaxNumBufs, Realloc(n) PROVE FQ!Next
  <2>1. Emptied /\ numbufs' \in 2 .. MaxNumBufs /\ UNCHANGED <<mtp2, line>>
    BY <1>6 DEF Realloc, flags
  <2> QED BY <2>1, QueueClear DEF FQ!Next
<1>7. CASE UNCHANGED <<ring, mtp2, line>>
  BY <1>7, QueueQuiet
<1>8. CASE \/ \E n \in Lens : BeginWrite(n)
           \/ WriteEvent \/ WriteFull \/ WriteFault
           \/ \E t \in Threads : Sleep(t) \/ Signal(t)
           \/ \E g \in Goals : BeginWait(g)
           \/ WaitCheck \/ ReallocFails \/ QEvent \/ DrainEvents
           \/ \E p \in Policies : SetPolicy(p)
  <2>1. UNCHANGED <<ring, mtp2, line>>
    BY <1>8 DEF BeginWrite, WriteEvent, WriteFull, WriteFault, Sleep, Signal, BeginWait,
       WaitCheck, ReallocFails, QEvent, DrainEvents, SetPolicy, flags
  <2> QED BY <2>1, <1>7
<1>9. CASE UNCHANGED vars
  <2>1. UNCHANGED <<ring, mtp2, line>>
    BY <1>9 DEF vars, flags
  <2> QED BY <2>1, <1>7
<1> QED BY <1>1, <1>2, <1>3, <1>4, <1>5, <1>6, <1>8, <1>9, Zenon
        DEF Next, WriterStep, WaiterStep, Interrupt, GetbufChunk, HdlcGetbuf, Threads

\* The ring implements FrameQueue, for any number of buffers, any operations and
\* policies: write() and the interrupt, which share it without a lock while a frame
\* is copied, lose no frame, repeat none (but MTP2 its last), and tear none apart.
THEOREM RefinesQueue == Spec => ImplementsFrameQueue
BY QueueInit, QueueNext, InvariantHolds, PTL DEF Spec, ImplementsFrameQueue, FQ!Spec

-----------------------------------------------------------------------------
(* The policies.                                                           *)

\* No operation empties the ring, changes its policy or overrides it.
PolicyKept == Ops \cap {"flush", "hangup", "bufinfo", "empty"} = {}

\* An empty ring holds back; nobody waits for an empty one or is about to replace it.
PolicyInv ==
    /\ HeldBack
    /\ goal # "empty"
    /\ pc["writer"] # "realloc"

LEMMA InitPolicyInv == Init => PolicyInv
BY DEF Init, PolicyInv, HeldBack, Threads

\* What a step does to that, and who enables the transmitter.
PolicyStep == PolicyInv' /\ (txdisable /\ ~txdisable' => EnoughFilled')

LEMMA NextPolicyInv ==
    ASSUME PolicyKept, IInv, PolicyInv, [Next]_vars
    PROVE  PolicyStep
<1> USE DEF policy, flags, local, ring
<1>1. pc \in [Threads -> PCs] /\ TypeOK /\ TypeOK'
  BY TypeStep DEF IInv, TypeOK
<1>2. ASSUME UNCHANGED <<inwritebuf, outwritebuf, numbufs, policy, goal>>,
             pc'["writer"] = "realloc" => pc["writer"] = "realloc"
      PROVE  PolicyStep
  BY <1>2 DEF PolicyStep, PolicyInv, HeldBack
<1>3. ASSUME NEW n \in Lens, BeginWrite(n) PROVE PolicyStep
  BY <1>1, <1>2, <1>3 DEF BeginWrite, Threads
<1>4. CASE WriteEvent \/ WriteFull \/ WriteStart \/ WriteFault \/ ReallocFails
  BY <1>1, <1>2, <1>4 DEF WriteEvent, WriteFull, WriteStart, WriteFault, ReallocFails, Threads
<1>5. ASSUME NEW d \in Data, WriteCopied(d) PROVE PolicyStep
  BY <1>1, <1>2, <1>5 DEF WriteCopied, Threads
<1>6. ASSUME NEW t \in Threads, Sleep(t) \/ Signal(t) PROVE PolicyStep
  BY <1>1, <1>2, <1>6 DEF Sleep, Signal, Threads
<1>7. ASSUME NEW g \in Goals, BeginWait(g) PROVE PolicyStep
  <2>1. g # "empty"
    BY <1>7 DEF BeginWait, PolicyKept
  <2> QED BY <1>1, <1>7, <2>1 DEF BeginWait, PolicyStep, PolicyInv, HeldBack, Threads
<1>8. CASE WaitCheck
  BY <1>1, <1>2, <1>8 DEF WaitCheck, PolicyInv, Threads
<1>9. CASE SendChunk
  BY <1>2, <1>9 DEF SendChunk
<1>10. CASE QEvent
  BY <1>1, <1>2, <1>10 DEF QEvent, Woken, Threads
<1>11. CASE DrainEvents
  BY <1>2, <1>11 DEF DrainEvents
<1>12. CASE Flush \/ Hangup \/ (\E p \in Policies : SetPolicy(p))
  BY <1>12 DEF Flush, Hangup, SetPolicy, PolicyKept
<1>13. CASE \E n \in 2 .. MaxNumBufs : Realloc(n)
  BY <1>13 DEF Realloc, PolicyInv
<1>14. CASE WriteCommit
  <2>1. /\ res \in 0 .. numbufs - 1 /\ numbufs \in Nat /\ numbufs >= 2
        /\ outwritebuf \in {None} \cup 0 .. numbufs - 1
    BY <1>14 DEF IInv, TypeOK, WriterHolds, WriteCommit, Copying
  <2>2. outwritebuf' # None
    BY <1>14, <2>1 DEF WriteCommit, None
  <2>3. /\ pc' = [pc EXCEPT !["writer"] = "idle"]
        /\ txdisable' = (IF Enough(inwritebuf', outwritebuf') THEN FALSE ELSE txdisable)
        /\ UNCHANGED <<numbufs, txbufpolicy, goal>>
    BY <1>14 DEF WriteCommit
  <2>4. PolicyInv'
    BY <1>1, <2>2, <2>3 DEF PolicyInv, HeldBack, Threads
  <2>5. ASSUME txdisable, ~txdisable' PROVE EnoughFilled'
    <3>1. Enough(inwritebuf', outwritebuf')
      BY <2>3, <2>5
    <3>2. \/ inwritebuf' = None
          \/ txbufpolicy = HalfFull
             /\ num_filled_bufs(inwritebuf', outwritebuf') >= numbufs \div 2
      BY <3>1 DEF Enough
    <3>3. Filled' = num_filled_bufs(inwritebuf', outwritebuf')
      BY <2>3, Zenon DEF Filled, num_filled_bufs
    <3>4. inwritebuf' = None => Filled' = numbufs
      BY <2>3, <3>3 DEF num_filled_bufs
    <3>5. numbufs >= numbufs \div 2
      BY <2>1
    <3>6. txbufpolicy \in {Immediate, WhenFull, HalfFull}
      BY <1>1, PolicyAssumption DEF TypeOK
    <3> HIDE DEF Filled
    <3> QED BY <2>3, <3>2, <3>3, <3>4, <3>5, <3>6 DEF EnoughFilled, Immediate, WhenFull, HalfFull
  <2> QED BY <2>4, <2>5 DEF PolicyStep
<1>15. CASE FinishBuffer
  <2>1. /\ outwritebuf' = NextOut(outwritebuf)
        /\ txdisable' = Rearmed(Drains(outwritebuf))
        /\ pc' = Woken(RotationWakes(Drains(outwritebuf)))
        /\ UNCHANGED <<txbufpolicy, goal>>
        /\ outwritebuf # None
    BY <1>15 DEF FinishBuffer, Transmitting
  <2>2. outwritebuf' = None => Drains(outwritebuf)
    <3>1. /\ numbufs \in Nat /\ numbufs >= 2 /\ outwritebuf \in 0 .. numbufs - 1
      BY <1>1, <2>1 DEF TypeOK
    <3>2. Following(outwritebuf) # None
      BY <3>1, FollowingValue DEF None
    <3> QED BY <2>1, <3>2 DEF NextOut
  <2>3. HeldBack'
    BY <2>1, <2>2 DEF HeldBack, Rearmed
  <2>4. txdisable => txdisable'
    BY <2>1 DEF Rearmed
  <2>5. pc'["writer"] # "realloc"
    <3>1. PICK ts : pc' = Woken(ts)
      BY <2>1
    <3> QED BY <1>1, <3>1 DEF Woken, PolicyInv, Threads
  <2> QED BY <2>1, <2>3, <2>4, <2>5 DEF PolicyStep, PolicyInv
<1>16. CASE UNCHANGED vars
  <2>1. UNCHANGED <<inwritebuf, outwritebuf, numbufs, policy, goal>> /\ UNCHANGED pc
    BY <1>16 DEF vars
  <2> QED BY <1>2, <2>1
<1> QED
  BY <1>3, <1>4, <1>5, <1>6, <1>7, <1>8, <1>9, <1>10, <1>11, <1>12, <1>13, <1>14, <1>15, <1>16
     DEF Next, WriterStep, WaiterStep, Interrupt, GetbufChunk, HdlcGetbuf, Threads

\* As long as nothing resets the ring or overrides its policy, WHEN_FULL and
\* HALF_FULL hold frames back in an empty ring, and the write that fills it far enough
\* is what starts them; the interrupt that drains the ring never fails to hold back.
THEOREM PoliciesGather ==
    ASSUME PolicyKept
    PROVE  Spec => FramesGather
<1>1. Init => PolicyInv
  BY InitPolicyInv
<1>2. IInv /\ PolicyInv /\ [Next]_vars => PolicyInv'
  BY NextPolicyInv DEF PolicyStep
<1>3. IInv /\ PolicyInv /\ [Next]_vars
        => [HeldBack' /\ (txdisable /\ ~txdisable' => EnoughFilled')]_vars
  BY NextPolicyInv DEF PolicyStep, PolicyInv
<1> QED BY <1>1, <1>2, <1>3, InvariantHolds, PTL DEF Spec, FramesGather
=============================================================================

-------------------------- MODULE TranscoderProofs --------------------------
(***************************************************************************)
(* Proofs about module Transcoder, for every set of files, of pairs and of *)
(* formats: a busy channel has one user, the halves of a pair agree        *)
(* whenever nobody is at work on it, and open_channels counts right.       *)
(***************************************************************************)
EXTENDS Transcoder, FiniteSetTheorems, TLAPS

LEMMA ComplementFacts ==
    ASSUME NEW c \in Channels
    PROVE  /\ Complement(c) \in Channels /\ Complement(c) # c
           /\ Complement(Complement(c)) = c
<1>1. PICK h \in Halves, i \in Indices : c = <<h, i>>
  BY DEF Channels
<1>2. i \in Nat
  BY <1>1, TcAssumption
<1>3. (2 * i) \div 2 = i /\ (2 * i + 1) \div 2 = i
  BY <1>2
<1>4. CASE h = "encoder"
  <2>1. Complement(c) = <<"decoder", i>>
    BY <1>1, <1>2, <1>3, <1>4 DEF Complement, Slot
  <2>2. Complement(<<"decoder", i>>) = <<"encoder", i>>
    BY <1>2, <1>3 DEF Complement, Slot
  <2> QED BY <1>1, <1>4, <2>1, <2>2 DEF Channels, Halves
<1>5. CASE h = "decoder"
  <2>1. Complement(c) = <<"encoder", i>>
    BY <1>1, <1>2, <1>3, <1>5 DEF Complement, Slot
  <2>2. Complement(<<"encoder", i>>) = <<"decoder", i>>
    BY <1>2, <1>3 DEF Complement, Slot
  <2> QED BY <1>1, <1>5, <2>1, <2>2 DEF Channels, Halves
<1> QED BY <1>1, <1>4, <1>5 DEF Halves

LEMMA NoneIsNoChannel == None \notin Channels
BY TcAssumption DEF Channels, Halves

(***************************************************************************)
(* Where a thread is says what it holds: nothing to move to while idle or  *)
(* allocating, no old channel when it takes the new one, and the semaphore *)
(* exactly between down and up.                                            *)
(***************************************************************************)
Allocating == {"allocate", "poll", "mask", "look", "down"} \cup Building

PlaceOK(f) ==
    /\ pc[f] \in {"idle"} \cup Allocating => chan[f] = None
    /\ pc[f] = "take" => private_data[f] = None /\ chan[f] # None
    /\ pc[f] \notin {"idle", "take"} => private_data[f] # None

Semaphore == \A f \in Files : pc[f] \in Critical <=> chansem = f

Asked == \A c \in busy : fmts[c] # None

Owned == /\ TcTypeOK /\ OneUser /\ Semaphore /\ Asked
         /\ \A f \in Files : PlaceOK(f)

USE DEF Places, Critical, Building, Releasing, Allocating

LEMMA InitOwned == Init => Owned
<1> SUFFICES ASSUME Init PROVE Owned
  OBVIOUS
<1>1. TcTypeOK
  <2>1. /\ busy \subseteq Channels /\ built \subseteq Channels
        /\ built_fmts \in [Channels -> Formats \cup {None}]
        /\ fmts \in [Channels -> Formats \cup {None}]
    BY DEF Init
  <2>2. chansem \in Files \cup {None} /\ open_channels \in Int
    BY DEF Init
  <2>4. polling \in BOOLEAN /\ interrupts \in BOOLEAN
    BY DEF Init
  <2>5. shutdown \in BOOLEAN /\ registered \in BOOLEAN /\ going \in BOOLEAN
    BY DEF Init
  <2>3. /\ private_data \in [Files -> Channels \cup {None}]
        /\ chan \in [Files -> Channels \cup {None}]
        /\ ref \in [Files -> BOOLEAN] /\ pc \in [Files -> Places]
        /\ ready \subseteq Files
    BY DEF Init
  <2> QED BY <2>1, <2>2, <2>3, <2>4, <2>5 DEF TcTypeOK
<1>2. OneUser /\ Asked
  BY NoneIsNoChannel DEF Init, OneUser, Holds, Asked
<1>3. Semaphore /\ \A f \in Files : PlaceOK(f)
  BY TcAssumption DEF Init, Semaphore, PlaceOK
<1> QED BY <1>1, <1>2, <1>3 DEF Owned

LEMMA KeepsType == Owned /\ [Next]_vars => TcTypeOK'
<1> SUFFICES ASSUME TcTypeOK, \A f \in Files : PlaceOK(f), [Next]_vars PROVE TcTypeOK'
  BY DEF Owned
<1> USE DEF TcTypeOK, pair, file, board, Go
<1>1. ASSUME NEW f \in Files, Call(f) PROVE TcTypeOK'
  <2>1. ASSUME NEW h \in Halves, NEW i \in Indices, NEW m \in Formats,
               GetFreeChannel(f, h, i, m)
        PROVE  TcTypeOK'
    BY <2>1 DEF GetFreeChannel, Claim, Channels
  <2>2. CASE Close(f)
    BY <2>2 DEF Close
  <2> QED BY <1>1, <2>1, <2>2 DEF Call
<1>2. ASSUME NEW f \in Files, Step(f) PROVE TcTypeOK'
  <2>1. CASE Take(f)
    BY <2>1 DEF Take
  <2>2. CASE Allocate(f)
    BY <2>2 DEF Allocate
  <2>3. CASE EnablePolling(f)
    BY <2>3 DEF EnablePolling
  <2>4. CASE LookIfBuilt(f)
    BY <2>4 DEF LookIfBuilt
  <2>5. CASE CreateChannelPair(f)
    BY <2>5 DEF CreateChannelPair, Up
  <2>6. CASE MarkBuilt(f)
    BY <2>6 DEF MarkBuilt, PlaceOK
  <2>7. CASE MarkComplementBuilt(f)
    BY <2>7, ComplementFacts DEF MarkComplementBuilt, PlaceOK
  <2>8. CASE Release(f)
    BY <2>8 DEF Release
  <2>9. CASE DisablePolling(f)
    BY <2>9 DEF DisablePolling
  <2>10. CASE LookAtComplement(f)
    BY <2>10 DEF LookAtComplement
  <2>11. CASE DestroyChannelPair(f)
    BY <2>11 DEF DestroyChannelPair
  <2>12. CASE ClearBuilt(f)
    BY <2>12 DEF ClearBuilt
  <2>13. CASE ClearComplementBuilt(f)
    BY <2>13 DEF ClearComplementBuilt
  <2>14. CASE ClearBusy(f)
    BY <2>14 DEF ClearBusy
  <2> QED
    BY <1>2, <2>1, <2>2, <2>3, <2>4, <2>5, <2>6, <2>7, <2>8, <2>9, <2>10, <2>11,
       <2>12, <2>13, <2>14 DEF Step
<1>3. ASSUME NEW f \in Files, Down(f) PROVE TcTypeOK'
  BY <1>3 DEF Down, DownToBuild, DownToRelease, Uncount
<1>4. CASE Halt \/ Unload \/ RemoveCard
  BY <1>4 DEF Halt, Unload, RemoveCard
<1>5. CASE UNCHANGED vars
  BY <1>5 DEF vars
<1> QED BY <1>1, <1>2, <1>3, <1>4, <1>5 DEF Next

(***************************************************************************)
(* One user: a channel that is claimed was free, and who frees one has no  *)
(* other.                                                                  *)
(***************************************************************************)
Holding == OneUser /\ Asked /\ Semaphore /\ \A f \in Files : PlaceOK(f)

LEMMA CallKeepsHolding ==
    ASSUME Owned, NEW f \in Files, Call(f)
    PROVE  Holding'
<1> USE NoneIsNoChannel DEF Owned, TcTypeOK, Go
<1>1. ASSUME NEW h \in Halves, NEW i \in Indices, NEW m \in Formats,
             GetFreeChannel(f, h, i, m)
      PROVE  Holding'
  <2> DEFINE c == <<h, i>>
  <2>1. c \in Channels /\ c \notin busy
    BY <1>1 DEF GetFreeChannel, FirstFree, FreeFor, Channels
  <2>2. /\ busy' = busy \cup {c} /\ fmts' = [fmts EXCEPT ![c] = m]
        /\ chan' = [chan EXCEPT ![f] = c] /\ private_data' = private_data
        /\ chansem' = chansem
        /\ pc[f] = "idle" /\ pc' = [pc EXCEPT ![f] = IF private_data[f] = None
                                                     THEN "take" ELSE "release"]
    BY <1>1 DEF GetFreeChannel, Claim
  <2> HIDE DEF c
  <2>3. \A g \in Files : ~Holds(g, c)
    BY <2>1 DEF OneUser
  <2>4. chan[f] = None
    BY <2>2 DEF PlaceOK
  <2>5. \A g \in Files : \A d \in Channels :
            Holds(g, d)' <=> Holds(g, d) \/ (g = f /\ d = c)
    BY <2>2, <2>4 DEF Holds
  <2>6. OneUser'
    <3>1. \A d \in Channels : d \in busy' <=> \E g \in Files : Holds(g, d)'
      BY <2>1, <2>2, <2>5 DEF OneUser
    <3>2. \A g, k \in Files : \A d \in Channels : Holds(g, d)' /\ Holds(k, d)' => g = k
      BY <2>3, <2>5 DEF OneUser
    <3>3. \A g \in Files : chan'[g] # None => chan'[g] # private_data'[g]
      BY <2>2, <2>3 DEF OneUser, Holds
    <3> QED BY <3>1, <3>2, <3>3 DEF OneUser
  <2>7. Asked'
    BY <2>1, <2>2, TcAssumption DEF Asked
  <2>8. Semaphore'
    BY <2>2 DEF Semaphore
  <2>9. \A g \in Files : PlaceOK(g)'
    BY <2>1, <2>2 DEF PlaceOK
  <2> QED BY <2>6, <2>7, <2>8, <2>9 DEF Holding
<1>2. CASE Close(f)
  <2>1. /\ UNCHANGED <<busy, fmts, chansem, private_data, chan>>
        /\ pc[f] = "idle" /\ private_data[f] # None
        /\ pc' = [pc EXCEPT ![f] = "release"]
    BY <1>2 DEF Close
  <2>2. OneUser' /\ Asked'
    BY <2>1 DEF OneUser, Asked, Holds
  <2>3. Semaphore' /\ \A g \in Files : PlaceOK(g)'
    BY <2>1 DEF Semaphore, PlaceOK
  <2> QED BY <2>2, <2>3 DEF Holding
<1> QED BY <1>1, <1>2 DEF Call

\* Most steps move a thread, which goes on holding what it holds.
LEMMA StayKeepsHolding ==
    ASSUME Owned, UNCHANGED <<busy, fmts, private_data, chan>>
    PROVE  OneUser' /\ Asked'
BY DEF Owned, OneUser, Asked, Holds

LEMMA MoveKeepsHolding ==
    ASSUME Owned, NEW f \in Files, NEW w \in Places,
           pc' = [pc EXCEPT ![f] = w],
           UNCHANGED <<busy, fmts, private_data, chan>>,
           pc[f] \notin {"idle", "take"}, w # "take",
           w \in {"idle"} \cup Allocating => chan[f] = None,
           \/ chansem' = chansem /\ (w \in Critical <=> pc[f] \in Critical)
           \/ chansem = None /\ chansem' = f /\ w \in Critical
           \/ pc[f] \in Critical /\ chansem' = None /\ w \notin Critical
    PROVE  Holding'
<1>1. \A g \in Files : PlaceOK(g)'
  BY DEF Owned, PlaceOK, TcTypeOK
<1>2. Semaphore'
  BY TcAssumption DEF Owned, Semaphore, TcTypeOK
<1> QED BY <1>1, <1>2, StayKeepsHolding DEF Holding

LEMMA StepKeepsHolding ==
    ASSUME Owned, NEW f \in Files, Step(f) \/ Down(f)
    PROVE  Holding'
<1> USE DEF Go, file, board
<1>0. PlaceOK(f) /\ pc[f] \in Places
  BY DEF Owned, TcTypeOK
<1>1. CASE Take(f)
  <2>1. /\ UNCHANGED <<busy, fmts, chansem>>
        /\ private_data' = [private_data EXCEPT ![f] = chan[f]]
        /\ chan' = [chan EXCEPT ![f] = None]
        /\ pc[f] = "take" /\ private_data[f] = None
        /\ pc' = [pc EXCEPT ![f] = IF ref[f] \/ ~going THEN "allocate" ELSE "idle"]
    BY <1>0, <1>1 DEF Take, PlaceOK
  <2>2. \A g \in Files : \A c \in Channels : Holds(g, c)' <=> Holds(g, c)
    BY <2>1, NoneIsNoChannel DEF Owned, TcTypeOK, Holds
  <2>3. OneUser' /\ Asked'
    <3>1. \A g \in Files : chan'[g] # None => chan'[g] # private_data'[g]
      BY <2>1 DEF Owned, TcTypeOK, OneUser
    <3> QED BY <2>1, <2>2, <3>1 DEF Owned, OneUser, Asked
  <2>4. Semaphore' /\ \A g \in Files : PlaceOK(g)'
    BY <2>1 DEF Owned, TcTypeOK, Semaphore, PlaceOK
  <2> QED BY <2>3, <2>4 DEF Holding
<1>2. CASE ClearBusy(f)
  <2> DEFINE c == private_data[f]
  <2>1. /\ busy' = busy \ {c} /\ fmts' = [fmts EXCEPT ![c] = None]
        /\ private_data' = [private_data EXCEPT ![f] = None]
        /\ UNCHANGED <<chan, chansem>>
        /\ pc[f] = "free" /\ c # None
        /\ pc' = [pc EXCEPT ![f] = IF chan[f] = None THEN "idle" ELSE "take"]
    BY <1>0, <1>2 DEF ClearBusy, PlaceOK
  <2>2. c \in Channels /\ chan[f] # c
    BY <2>1 DEF Owned, TcTypeOK, OneUser
  <2> HIDE DEF c
  <2>3. private_data[f] = c
    BY DEF c
  <2>4. \A g \in Files : \A d \in Channels : Holds(g, d)' <=> Holds(g, d) /\ d # c
    BY <2>1, <2>2, <2>3, NoneIsNoChannel DEF Owned, TcTypeOK, OneUser, Holds
  <2>5. OneUser'
    <3>1. \A g \in Files : chan'[g] # None => chan'[g] # private_data'[g]
      BY <2>1 DEF Owned, TcTypeOK, OneUser
    <3> QED BY <2>1, <2>4, <3>1 DEF Owned, OneUser
  <2>6. Asked'
    BY <2>1 DEF Owned, TcTypeOK, Asked
  <2>7. Semaphore' /\ \A g \in Files : PlaceOK(g)'
    BY <2>1 DEF Owned, TcTypeOK, Semaphore, PlaceOK
  <2> QED BY <2>5, <2>6, <2>7 DEF Holding
<1>3. CASE Allocate(f)
  BY <1>0, <1>3, MoveKeepsHolding DEF Allocate, PlaceOK
<1>4. CASE EnablePolling(f)
  BY <1>0, <1>4, MoveKeepsHolding DEF EnablePolling, PlaceOK
<1>5. CASE LookIfBuilt(f)
  BY <1>0, <1>5, MoveKeepsHolding DEF LookIfBuilt, PlaceOK
<1>6. CASE DownToBuild(f)
  BY <1>0, <1>6, MoveKeepsHolding DEF DownToBuild, PlaceOK
<1>7. CASE CreateChannelPair(f)
  BY <1>0, <1>7, MoveKeepsHolding DEF CreateChannelPair, Up, PlaceOK
<1>8. CASE MarkBuilt(f)
  BY <1>0, <1>8, MoveKeepsHolding DEF MarkBuilt, PlaceOK
<1>9. CASE MarkComplementBuilt(f)
  BY <1>0, <1>9, MoveKeepsHolding DEF MarkComplementBuilt, PlaceOK
<1>10. CASE Release(f)
  BY <1>0, <1>10, MoveKeepsHolding DEF Release, PlaceOK
<1>11. CASE DownToRelease(f)
  BY <1>0, <1>11, MoveKeepsHolding DEF DownToRelease, PlaceOK
<1>12. CASE DisablePolling(f)
  BY <1>0, <1>12, MoveKeepsHolding DEF DisablePolling, PlaceOK
<1>13. CASE LookAtComplement(f)
  BY <1>0, <1>13, MoveKeepsHolding DEF LookAtComplement, PlaceOK
<1>14. CASE DestroyChannelPair(f)
  BY <1>0, <1>14, MoveKeepsHolding DEF DestroyChannelPair, PlaceOK
<1>15. CASE ClearBuilt(f)
  BY <1>0, <1>15, MoveKeepsHolding DEF ClearBuilt, PlaceOK
<1>16. CASE ClearComplementBuilt(f)
  BY <1>0, <1>16, MoveKeepsHolding DEF ClearComplementBuilt, PlaceOK
<1> QED
  BY <1>1, <1>2, <1>3, <1>4, <1>5, <1>6, <1>7, <1>8, <1>9, <1>10, <1>11, <1>12,
     <1>13, <1>14, <1>15, <1>16 DEF Step, Down

LEMMA KeepsOwned == Owned /\ [Next]_vars => Owned'
<1> SUFFICES ASSUME Owned, [Next]_vars PROVE Holding'
  BY KeepsType DEF Owned, Holding
<1>1. CASE \E f \in Files : Call(f) \/ Step(f) \/ Down(f)
  BY <1>1, CallKeepsHolding, StepKeepsHolding
<1>2. CASE Halt \/ Unload \/ RemoveCard \/ UNCHANGED vars
  <2>1. UNCHANGED <<busy, fmts, private_data, chan, chansem, pc>>
    BY <1>2 DEF Halt, Unload, RemoveCard, vars, file
  <2>2. Semaphore' /\ \A f \in Files : PlaceOK(f)'
    BY <2>1 DEF Owned, Semaphore, PlaceOK
  <2> QED BY <2>1, <2>2, StayKeepsHolding DEF Holding
<1> QED BY <1>1, <1>2 DEF Next

LEMMA AlwaysOwned == Spec => []Owned
<1> QED BY InitOwned, KeepsOwned, PTL DEF Spec

\* The type invariant.
THEOREM TcTypeCorrect == Spec => []TcTypeOK
<1>1. Owned => TcTypeOK
  BY DEF Owned
<1> QED BY <1>1, AlwaysOwned, PTL

\* A busy channel is held by one file and a free one by none (translock in
\* get_free_channel, dtc_release and dahdi_tc_clear_busy).
THEOREM ChannelHasOneUser == Spec => []OneUser
<1>1. Owned => OneUser
  BY DEF Owned
<1> QED BY <1>1, AlwaysOwned, PTL

(***************************************************************************)
(* The halves of a pair.  They differ only while the holder of the         *)
(* semaphore is between the two marks of its own pair; what it found       *)
(* before it slept in the commands still holds when it comes to the marks. *)
(***************************************************************************)
Whole(c) == /\ c \in built <=> Complement(c) \in built
            /\ built_fmts[c] = built_fmts[Complement(c)]
            /\ c \in built <=> built_fmts[c] # None

Marking == {"complement", "both"}
AtWork(f, c) == pc[f] \in Marking /\ c \in {private_data[f], Complement(private_data[f])}

HalfDone(f) ==
    /\ pc[f] \in {"create", "built"} => private_data[f] \notin built
    /\ pc[f] = "complement" =>
         /\ private_data[f] \in built /\ Complement(private_data[f]) \notin built
         /\ built_fmts[private_data[f]] = fmts[private_data[f]]
    /\ pc[f] = "both" =>
         private_data[f] \notin built /\ built_fmts[private_data[f]] = None

Paired == /\ \A c \in Channels : Whole(c) \/ \E f \in Files : AtWork(f, c)
          /\ \A f \in Files : HalfDone(f)

LEMMA InitPaired == Init => Paired
BY ComplementFacts DEF Init, Paired, Whole, HalfDone

\* A step that marks nothing.
LEMMA QuietKeepsPaired ==
    ASSUME Paired, UNCHANGED pair,
           \A g \in Files : pc[g] \in Marking => pc'[g] = pc[g],
           \A g \in Files : pc'[g] \in {"create", "built"} \cup Marking =>
               /\ \/ pc'[g] = pc[g]
                  \/ pc'[g] \in {"create", "built"} /\ private_data[g] \notin built
               /\ private_data'[g] = private_data[g]
               /\ fmts'[private_data[g]] = fmts[private_data[g]]
    PROVE  Paired'
<1>1. \A c \in Channels : Whole(c)' <=> Whole(c)
  BY DEF Whole, pair
<1>2. \A g \in Files, c \in Channels : AtWork(g, c) => AtWork(g, c)'
  BY DEF AtWork, Marking
<1>3. \A g \in Files : HalfDone(g)'
  BY DEF HalfDone, Paired, Marking, pair
<1> QED BY <1>1, <1>2, <1>3 DEF Paired

\* A step of the holder of the semaphore that marks a half of its pair.
LEMMA MarkKeepsPaired ==
    ASSUME Owned, Paired, NEW f \in Files, NEW p \in Channels,
           p = private_data[f], chansem = f,
           UNCHANGED <<fmts, private_data>>,
           \A g \in Files \ {f} : pc'[g] = pc[g],
           \A c \in Channels \ {p, Complement(p)} :
               (c \in built' <=> c \in built) /\ built_fmts'[c] = built_fmts[c],
           \/ pc'[f] \in Marking
           \/ Whole(p)' /\ Whole(Complement(p))',
           HalfDone(f)'
    PROVE  Paired'
<1>1. \A g \in Files \ {f} : pc[g] \notin Critical
  BY DEF Owned, Semaphore
<1>2. \A c \in Channels \ {p, Complement(p)} : Whole(c)'
  <2> SUFFICES ASSUME NEW c \in Channels, c \notin {p, Complement(p)} PROVE Whole(c)'
    OBVIOUS
  <2>1. Complement(c) \in Channels \ {p, Complement(p)}
    BY ComplementFacts
  <2>2. Whole(c)
    BY <1>1 DEF Paired, AtWork, Marking
  <2> QED BY <2>1, <2>2 DEF Whole
<1>3. \A c \in {p, Complement(p)} : Whole(c)' \/ AtWork(f, c)'
  BY DEF AtWork
<1>4. \A g \in Files : HalfDone(g)'
  BY <1>1 DEF HalfDone
<1> QED BY <1>2, <1>3, <1>4 DEF Paired

LEMMA MarksKeepPaired ==
    ASSUME Owned, Paired, NEW f \in Files,
           \/ MarkBuilt(f) \/ MarkComplementBuilt(f)
           \/ ClearBuilt(f) \/ ClearComplementBuilt(f)
    PROVE  Paired'
<1> USE DEF Go, file, Marking
<1>1. /\ private_data[f] \in Channels /\ chansem = f
      /\ fmts[private_data[f]] # None
  <2>1. pc[f] \in Critical /\ PlaceOK(f)
    BY DEF MarkBuilt, MarkComplementBuilt, ClearBuilt, ClearComplementBuilt, Owned
  <2>2. private_data[f] \in Channels /\ chansem = f
    BY <2>1 DEF PlaceOK, Owned, TcTypeOK, Semaphore
  <2> QED BY <2>2 DEF Owned, OneUser, Holds, Asked
<1> PICK p \in Channels : p = private_data[f]
  BY <1>1
<1>2. /\ Complement(p) \in Channels /\ Complement(p) # p
      /\ Complement(Complement(p)) = p
  BY ComplementFacts
<1>3. pc[f] \notin Marking => Whole(p)
  BY <1>1 DEF Paired, AtWork, Owned, Semaphore
<1>4. HalfDone(f) /\ pc \in [Files -> Places] /\ built_fmts \in [Channels -> Formats \cup {None}]
  BY DEF Paired, Owned, TcTypeOK
<1>5. CASE MarkBuilt(f)
  <2>1. /\ UNCHANGED <<fmts, private_data>> /\ pc' = [pc EXCEPT ![f] = "complement"]
        /\ built' = built \cup {p} /\ built_fmts' = [built_fmts EXCEPT ![p] = fmts[p]]
        /\ pc[f] = "built"
    BY <1>5 DEF MarkBuilt
  <2>2. HalfDone(f)'
    BY <1>1, <1>2, <1>3, <1>4, <2>1 DEF HalfDone, Whole
  <2> QED BY <1>1, <1>2, <1>4, <2>1, <2>2, MarkKeepsPaired
<1>6. CASE MarkComplementBuilt(f)
  <2>1. /\ UNCHANGED <<fmts, private_data>> /\ pc' = [pc EXCEPT ![f] = "idle"]
        /\ built' = built \cup {Complement(p)}
        /\ built_fmts' = [built_fmts EXCEPT ![Complement(p)] = fmts[p]]
        /\ pc[f] = "complement"
    BY <1>6 DEF MarkComplementBuilt
  <2>2. HalfDone(f)' /\ Whole(p)' /\ Whole(Complement(p))'
    BY <1>1, <1>2, <1>4, <2>1 DEF HalfDone, Whole
  <2> QED BY <1>1, <1>2, <1>4, <2>1, <2>2, MarkKeepsPaired
<1>7. CASE ClearBuilt(f)
  <2>1. /\ UNCHANGED <<fmts, private_data>> /\ pc' = [pc EXCEPT ![f] = "both"]
        /\ built' = built \ {p} /\ built_fmts' = [built_fmts EXCEPT ![p] = None]
    BY <1>7 DEF ClearBuilt
  <2>2. HalfDone(f)'
    BY <1>1, <1>2, <1>4, <2>1 DEF HalfDone
  <2> QED BY <1>1, <1>2, <1>4, <2>1, <2>2, MarkKeepsPaired
<1>8. CASE ClearComplementBuilt(f)
  <2>1. /\ UNCHANGED <<fmts, private_data>> /\ pc' = [pc EXCEPT ![f] = "free"]
        /\ built' = built \ {Complement(p)}
        /\ built_fmts' = [built_fmts EXCEPT ![Complement(p)] = None]
        /\ pc[f] = "both"
    BY <1>8 DEF ClearComplementBuilt
  <2>2. HalfDone(f)' /\ Whole(p)' /\ Whole(Complement(p))'
    BY <1>1, <1>2, <1>4, <2>1 DEF HalfDone, Whole
  <2> QED BY <1>1, <1>2, <1>4, <2>1, <2>2, MarkKeepsPaired
<1> QED BY <1>5, <1>6, <1>7, <1>8

\* The formats of a channel that a thread is building are not those of one that
\* is claimed or given up by another.
LEMMA OtherSteps ==
    ASSUME Owned, Paired, NEW f \in Files, Call(f) \/ Step(f) \/ Down(f),
           ~MarkBuilt(f), ~MarkComplementBuilt(f),
           ~ClearBuilt(f), ~ClearComplementBuilt(f)
    PROVE  Paired'
<1> USE DEF Go, file, pair, board, Marking
<1>1. /\ pc \in [Files -> Places] /\ private_data \in [Files -> Channels \cup {None}]
      /\ fmts \in [Channels -> Formats \cup {None}]
  BY DEF Owned, TcTypeOK
<1>2. \A g \in Files : pc[g] \in Critical => private_data[g] \in busy
  BY <1>1 DEF Owned, PlaceOK, OneUser, Holds
<1>3. CASE Call(f)
  <2>1. /\ UNCHANGED <<pair, private_data>> /\ pc[f] = "idle"
        /\ \E w \in {"take", "release"} : pc' = [pc EXCEPT ![f] = w]
        /\ \A c \in busy : fmts'[c] = fmts[c]
    BY <1>1, <1>3 DEF Call, GetFreeChannel, FirstFree, FreeFor, Close, Owned, TcTypeOK
  <2> HIDE DEF pair
  <2> QED BY <1>1, <1>2, <2>1, QuietKeepsPaired
<1>4. CASE Take(f)
  <2>1. /\ UNCHANGED <<pair, fmts>> /\ pc[f] = "take"
        /\ private_data' = [private_data EXCEPT ![f] = chan[f]]
        /\ \E w \in {"allocate", "idle"} : pc' = [pc EXCEPT ![f] = w]
    BY <1>4 DEF Take
  <2> HIDE DEF pair
  <2> QED BY <1>1, <2>1, QuietKeepsPaired
<1>5. CASE ClearBusy(f)
  <2>1. /\ UNCHANGED pair /\ pc[f] = "free"
        /\ private_data' = [private_data EXCEPT ![f] = None]
        /\ fmts' = [fmts EXCEPT ![private_data[f]] = None]
        /\ \E w \in {"take", "idle"} : pc' = [pc EXCEPT ![f] = w]
    BY <1>5 DEF ClearBusy
  <2>2. \A g \in Files \ {f} : pc[g] \in Critical => private_data[g] # private_data[f]
    BY <1>1, <1>2 DEF Owned, TcTypeOK, OneUser, Holds
  <2> HIDE DEF pair
  <2> QED BY <1>1, <2>1, <2>2, QuietKeepsPaired
<1>6. CASE DownToBuild(f)
  <2>1. /\ UNCHANGED <<pair, fmts, private_data>> /\ pc[f] = "down"
        /\ \E w \in {"idle", "create"} :
              /\ pc' = [pc EXCEPT ![f] = w]
              /\ w = "create" => private_data[f] \notin built
    BY <1>6 DEF DownToBuild, BuiltMeanwhile
  <2> HIDE DEF pair
  <2> QED BY <1>1, <2>1, QuietKeepsPaired
<1>7. CASE CreateChannelPair(f)
  <2>1. /\ UNCHANGED <<pair, fmts, private_data>> /\ pc[f] = "create"
        /\ \E w \in {"idle", "built"} : pc' = [pc EXCEPT ![f] = w]
    BY <1>7 DEF CreateChannelPair
  <2>2. private_data[f] \notin built
    BY <2>1 DEF Paired, HalfDone
  <2> HIDE DEF pair
  <2> QED BY <1>1, <2>1, <2>2, QuietKeepsPaired
<1>8. CASE \/ Allocate(f) \/ EnablePolling(f) \/ LookIfBuilt(f) \/ Release(f)
           \/ DownToRelease(f) \/ DisablePolling(f) \/ LookAtComplement(f)
           \/ DestroyChannelPair(f)
  <2>1. UNCHANGED <<pair, fmts, private_data>> /\ pc[f] \notin Marking
    BY <1>8 DEF Allocate, EnablePolling, LookIfBuilt, Release, DownToRelease,
                DisablePolling, LookAtComplement, DestroyChannelPair
  <2>2. \E w \in Places \ ({"create", "built"} \cup Marking) : pc' = [pc EXCEPT ![f] = w]
    BY <1>8 DEF Allocate, EnablePolling, LookIfBuilt, Release, DownToRelease,
                DisablePolling, LookAtComplement, DestroyChannelPair
  <2> HIDE DEF pair
  <2> QED BY <1>1, <2>1, <2>2, QuietKeepsPaired
<1> QED BY <1>3, <1>4, <1>5, <1>6, <1>7, <1>8 DEF Step, Down

LEMMA KeepsPaired == Owned /\ Paired /\ [Next]_vars => Paired'
<1> SUFFICES ASSUME Owned, Paired, [Next]_vars PROVE Paired'
  OBVIOUS
<1>1. CASE \E f \in Files : Call(f) \/ Step(f) \/ Down(f)
  BY <1>1, MarksKeepPaired, OtherSteps
<1>2. CASE Halt \/ Unload \/ RemoveCard \/ UNCHANGED vars
  <2>1. UNCHANGED <<pair, fmts, private_data, pc>>
    BY <1>2 DEF Halt, Unload, RemoveCard, vars, file
  <2> QED BY <2>1, QuietKeepsPaired
<1> QED BY <1>1, <1>2 DEF Next

\* Both halves of a pair are built, for the same formats, or neither is, whenever
\* chansem is free; and nobody builds a pair whose other half is built (the
\* WARN_ON of wctc4xxp_mark_channel_complement_built never fires).
THEOREM HalvesAgree == Spec => []PairTogether
<1>1. Owned /\ Paired => PairTogether
  <2> SUFFICES ASSUME Owned, Paired PROVE PairTogether
    OBVIOUS
  <2>1. ASSUME chansem = None, NEW c \in Channels PROVE Whole(c)
    BY <2>1, TcAssumption DEF Owned, Semaphore, Paired, AtWork, Marking
  <2> QED BY <2>1 DEF PairTogether, Paired, HalfDone, Whole
<1>2. Spec => []Paired
  BY InitPaired, KeepsPaired, AlwaysOwned, PTL DEF Spec
<1> QED BY <1>1, <1>2, AlwaysOwned, PTL

(***************************************************************************)
(* open_channels.  Where a thread is says whether its file is counted; the *)
(* step that counts and the one that counts back each move one file over.  *)
(***************************************************************************)
InUse == {f \in Files : Counted(f)}

\* Nobody is counted but by the steps of a thread on that file.
LEMMA OnlyOneMoves ==
    ASSUME Owned, NEW f \in Files, NEW w \in Places, pc' = [pc EXCEPT ![f] = w],
           \A g \in Files \ {f} : private_data'[g] = private_data[g]
    PROVE  \A g \in Files \ {f} : Counted(g)' <=> Counted(g)
BY DEF Owned, TcTypeOK, Counted

LEMMA InUseFinite == IsFiniteSet(InUse)
BY TcAssumption, FS_Subset DEF InUse

LEMMA InUseKept ==
    ASSUME \A f \in Files : Counted(f)' <=> Counted(f), open_channels' = open_channels,
           shutdown => shutdown', going => going', OpenCount
    PROVE  OpenCount'
<1>1. InUse' = InUse
  BY DEF InUse
<1> QED BY <1>1 DEF OpenCount, InUse

\* A file that is as much in use after a step as it was before.
LEMMA MoveKeepsCount ==
    ASSUME Owned, OpenCount, NEW f \in Files, NEW w \in Places, pc' = [pc EXCEPT ![f] = w],
           UNCHANGED <<private_data, open_channels, shutdown, going>>,
           ~shutdown /\ ~going /\ private_data[f] # None =>
               (w \in {"allocate", "free"} \cup Releasing <=>
                pc[f] \in {"allocate", "free"} \cup Releasing)
    PROVE  OpenCount'
<1>1. CASE shutdown \/ going
  BY <1>1 DEF OpenCount
<1>2. CASE ~shutdown /\ ~going
  <2>1. Counted(f)' <=> Counted(f)
    BY <1>2 DEF Owned, TcTypeOK, Counted
  <2> QED BY <2>1, OnlyOneMoves, InUseKept
<1> QED BY <1>1, <1>2

LEMMA NextOpenCount == Owned /\ OpenCount /\ [Next]_vars => OpenCount'
<1> SUFFICES ASSUME Owned, OpenCount, [Next]_vars, ~shutdown', ~going' PROVE OpenCount'
  BY DEF OpenCount
<1> USE DEF Go, file, board
<1>1. ASSUME NEW f \in Files, Call(f) PROVE OpenCount'
  <2>0. PlaceOK(f)
    BY DEF Owned
  <2>1. CASE Close(f)
    BY <2>0, <2>1, MoveKeepsCount DEF Close
  <2>2. ASSUME NEW h \in Halves, NEW i \in Indices, NEW m \in Formats,
               GetFreeChannel(f, h, i, m)
        PROVE  OpenCount'
    BY <2>0, <2>2, MoveKeepsCount DEF GetFreeChannel
  <2> QED BY <1>1, <2>1, <2>2 DEF Call
<1>2. ASSUME NEW f \in Files, Step(f) \/ Down(f) PROVE OpenCount'
  <2>0. PlaceOK(f) /\ pc[f] \in Places /\ f \in Files
    BY DEF Owned, TcTypeOK
  \* The file gets its channel, and is not counted yet.
  <2>1. CASE Take(f)
    <3>1. /\ pc[f] = "take" /\ private_data[f] = None
          /\ private_data' = [private_data EXCEPT ![f] = chan[f]]
          /\ pc' = [pc EXCEPT ![f] = "allocate"]
          /\ UNCHANGED <<open_channels, shutdown, going>>
      BY <2>0, <2>1 DEF Take, PlaceOK
    <3>2. Counted(f)' <=> Counted(f)
      BY <3>1 DEF Owned, TcTypeOK, Counted
    <3>3. \A g \in Files \ {f} : private_data'[g] = private_data[g]
      BY <3>1 DEF Owned, TcTypeOK
    <3> QED BY <3>1, <3>2, <3>3, OnlyOneMoves, InUseKept
  <2>2. CASE Allocate(f)
    <3>1. PICK w \in {"poll", "look"} : pc' = [pc EXCEPT ![f] = w]
      BY <2>2 DEF Allocate
    <3>2. /\ pc[f] = "allocate" /\ private_data[f] # None
          /\ open_channels' = open_channels + 1 /\ UNCHANGED <<private_data, shutdown, going>>
      BY <2>0, <2>2 DEF Allocate, PlaceOK
    <3>3. ~Counted(f) /\ Counted(f)'
      BY <3>1, <3>2 DEF Owned, TcTypeOK, Counted
    <3>4. InUse' = InUse \cup {f} /\ f \notin InUse
      BY <3>1, <3>2, <3>3, OnlyOneMoves DEF InUse
    <3>5. Cardinality(InUse') = Cardinality(InUse) + 1
      BY <3>4, InUseFinite, FS_AddElement
    <3>6. open_channels = Cardinality(InUse)
      BY <3>2 DEF OpenCount, InUse
    <3> QED BY <3>2, <3>5, <3>6 DEF OpenCount, InUse
  <2>3. CASE EnablePolling(f)
    BY <2>0, <2>3, MoveKeepsCount DEF EnablePolling
  <2>4. CASE LookIfBuilt(f)
    BY <2>0, <2>4, MoveKeepsCount DEF LookIfBuilt
  <2>5. CASE CreateChannelPair(f)
    BY <2>0, <2>5, MoveKeepsCount DEF CreateChannelPair
  <2>6. CASE MarkBuilt(f)
    BY <2>0, <2>6, MoveKeepsCount DEF MarkBuilt
  <2>7. CASE MarkComplementBuilt(f)
    BY <2>0, <2>7, MoveKeepsCount DEF MarkComplementBuilt
  <2>8. CASE Release(f)
    BY <2>0, <2>8, MoveKeepsCount DEF Release
  <2>9. CASE DisablePolling(f)
    BY <2>0, <2>9, MoveKeepsCount DEF DisablePolling
  <2>10. CASE LookAtComplement(f)
    BY <2>0, <2>10, MoveKeepsCount DEF LookAtComplement
  <2>11. CASE DestroyChannelPair(f)
    BY <2>0, <2>11, MoveKeepsCount DEF DestroyChannelPair
  <2>12. CASE ClearBuilt(f)
    BY <2>0, <2>12, MoveKeepsCount DEF ClearBuilt
  <2>13. CASE ClearComplementBuilt(f)
    BY <2>0, <2>13, MoveKeepsCount DEF ClearComplementBuilt
  \* The channel is given back by a file that is not counted any more.
  <2>14. CASE ClearBusy(f)
    <3>1. PICK w \in {"idle", "take"} : pc' = [pc EXCEPT ![f] = w]
      BY <2>14 DEF ClearBusy
    <3>2. /\ pc[f] = "free"
          /\ private_data' = [private_data EXCEPT ![f] = None]
          /\ UNCHANGED <<open_channels, shutdown, going>>
      BY <2>14 DEF ClearBusy
    <3>3. Counted(f)' <=> Counted(f)
      BY <3>1, <3>2 DEF Owned, TcTypeOK, Counted
    <3>4. \A g \in Files \ {f} : private_data'[g] = private_data[g]
      BY <3>2 DEF Owned, TcTypeOK
    <3> QED BY <3>1, <3>2, <3>3, <3>4, OnlyOneMoves, InUseKept
  <2>15. CASE DownToBuild(f)
    BY <2>0, <2>15, MoveKeepsCount DEF DownToBuild
  <2>16. CASE DownToRelease(f)
    <3>1. PICK w \in {"unpoll", "other"} : pc' = [pc EXCEPT ![f] = w]
      BY <2>16 DEF DownToRelease
    <3>2. /\ pc[f] = "close" /\ private_data[f] # None
          /\ open_channels' = open_channels - 1 /\ UNCHANGED <<private_data, shutdown, going>>
      BY <2>0, <2>16 DEF DownToRelease, Uncount, PlaceOK
    <3>3. Counted(f) /\ ~Counted(f)'
      BY <3>1, <3>2 DEF Owned, TcTypeOK, Counted
    <3>4. InUse' = InUse \ {f} /\ f \in InUse
      BY <3>1, <3>2, <3>3, OnlyOneMoves DEF InUse
    <3>5. Cardinality(InUse') = Cardinality(InUse) - 1
      BY <3>4, InUseFinite, FS_RemoveElement
    <3>6. open_channels = Cardinality(InUse)
      BY <3>2 DEF OpenCount, InUse
    <3> QED BY <3>2, <3>5, <3>6 DEF OpenCount, InUse
  <2> QED
    BY <1>2, <2>1, <2>2, <2>3, <2>4, <2>5, <2>6, <2>7, <2>8, <2>9, <2>10, <2>11, <2>12,
       <2>13, <2>14, <2>15, <2>16 DEF Step, Down
<1>3. CASE Halt \/ Unload \/ RemoveCard
  BY <1>3 DEF Halt, Unload, RemoveCard, OpenCount, Counted
<1>4. CASE UNCHANGED vars
  BY <1>4 DEF vars, OpenCount, Counted
<1> QED BY <1>1, <1>2, <1>3, <1>4 DEF Next

\* open_channels, which decides whether the card is polled, is the number of files that
\* have a channel of it, whoever allocates, moves and closes at the same time.
THEOREM CountIsRight == Spec => []OpenCount
<1>1. Init => OpenCount
  <2> SUFFICES ASSUME Init PROVE OpenCount
    OBVIOUS
  <2>1. InUse = {}
    BY DEF Init, InUse, Counted
  <2> QED BY <2>1, FS_EmptySet DEF Init, OpenCount, InUse
<1> QED BY <1>1, NextOpenCount, AlwaysOwned, PTL DEF Spec
=============================================================================

----------------------------- MODULE RbsProofs -----------------------------
(***************************************************************************)
(* Proofs about module RbsSignalling: its invariants, for every set of     *)
(* digits, any number of them, and all seven signalling types.             *)
(***************************************************************************)
EXTENDS RbsSignalling, SequenceTheorems, TLAPS

(* The types, by the groups of variables that steps leave alone together   *)
SetupType == /\ sig \in Sigs /\ opened \in BOOLEAN /\ curzone \in BOOLEAN
             /\ nonblock \in BOOLEAN /\ frozen \in BOOLEAN
NearType  == txstate \in TxStates /\ txhooksig \in TxSigs /\ otimer \in BOOLEAN
FarType   == /\ rxhooksig \in RxSigs(sig) \cup {"INITIAL"}
             /\ itimer \in BOOLEAN /\ gotgs \in BOOLEAN /\ kewlonhook \in BOOLEAN
PulseType == pulsecount \in 0 .. MaxPulses /\ pulsetimer \in BOOLEAN
RingType  == ringdebtimer \in BOOLEAN /\ ringtrailer \in BOOLEAN
DigitType == dialing \in BOOLEAN /\ txdialbuf \in Seq(Digits) /\ pdialcount \in Nat
CallType  == call \in HookOps \cup {"none", "asleep"} /\ hasty \in BOOLEAN

LEMMA Types ==
    SigTypeOK <=> /\ SetupType /\ NearType /\ FarType /\ PulseType /\ RingType
                  /\ DigitType /\ CallType
BY DEF SigTypeOK, SetupType, NearType, FarType, PulseType, RingType, DigitType, CallType
LEMMA TypesNext ==
    SigTypeOK' <=> /\ SetupType' /\ NearType' /\ FarType' /\ PulseType' /\ RingType'
                   /\ DigitType' /\ CallType'
BY DEF SigTypeOK, SetupType, NearType, FarType, PulseType, RingType, DigitType, CallType

LEMMA SameSetup == SetupType /\ UNCHANGED setup => SetupType'
BY DEF SetupType, setup
LEMMA SameNear == NearType /\ UNCHANGED near => NearType'
BY DEF NearType, near
LEMMA SameFar == FarType /\ UNCHANGED <<sig, far>> => FarType'
BY DEF FarType, far, RxSigs
LEMMA SamePulses == PulseType /\ UNCHANGED pulses => PulseType'
BY DEF PulseType, pulses
LEMMA SameRing == RingType /\ UNCHANGED ring => RingType'
BY DEF RingType, ring
LEMMA SameDigits == DigitType /\ UNCHANGED digits => DigitType'
BY DEF DigitType, digits

LEMMA PulseCounts ==
    /\ 0 \in 0 .. MaxPulses
    /\ \A n \in 0 .. MaxPulses : n < MaxPulses => n + 1 \in 0 .. MaxPulses
BY RbsAssumption

(* What the invariants need besides each other: while a user is inside     *)
(* DAHDI_HOOK nothing is being dialled, and nobody is on a closed channel. *)
NothingDialled ==
    /\ call # "none" => ~dialing /\ pdialcount = 0
    /\ ~dialing => txdialbuf = <<>>
    /\ ~opened => call = "none"

Core == /\ LineFollows /\ TransientTimed /\ DialingMoves /\ WinkerWoken /\ RingsInZone
        /\ NothingDialled
IInv == SigTypeOK /\ Core

LEMMA InitIInv == Init => IInv
<1> SUFFICES ASSUME Init PROVE IInv
  OBVIOUS
<1>1. NearType /\ FarType
  BY DEF Init, NearType, FarType, TxStates, TxSigs
<1>6. SetupType
  BY DEF Init, SetupType
<1>7. RingType
  <2>1. ringdebtimer \in BOOLEAN
    BY DEF Init
  <2> QED BY <2>1 DEF Init, RingType
<1>2. PulseType
  BY PulseCounts DEF Init, PulseType
<1>3. DigitType
  <2>1. txdialbuf \in Seq(Digits)
    BY DEF Init
  <2> QED BY <2>1 DEF Init, DigitType
<1>4. CallType
  BY DEF Init, CallType
<1>5. Core
  BY DEF Init, Core, LineFollows, TransientTimed, DialingMoves, WinkerWoken, RingsInZone,
     NothingDialled, Transient, Ringing, Pulsing
<1> QED BY <1>1, <1>2, <1>3, <1>4, <1>5, <1>6, <1>7, Types DEF IInv

-----------------------------------------------------------------------------
(* The far end and its timers                                              *)

LEMMA FarTypes ==
    ASSUME SigTypeOK, FarEnd
    PROVE  FarType' /\ PulseType' /\ RingType'
<1> USE Types DEF Hooksig, OnlyFar, setup, far
<1>1. CASE TrunkOffHook \/ TrunkOnHook
  <2>1. FarType'
    BY <1>1 DEF TrunkOffHook, TrunkOnHook, FarType, RxSigs
  <2> QED BY <1>1, <2>1, SamePulses, SameRing DEF TrunkOffHook, TrunkOnHook
<1>2. CASE OfficeRings \/ OfficeOffHook
  <2>1. FarType'
    BY <1>2 DEF OfficeRings, OfficeOffHook, FarType, RxSigs
  <2> QED BY <1>2, <2>1, SamePulses, SameRing DEF OfficeRings, OfficeOffHook
<1>3. CASE OfficeOnHook
  <2>1. FarType'
    BY <1>3 DEF OfficeOnHook, FarType, RxSigs
  <2>2. RingType'
    BY <1>3 DEF OfficeOnHook, RingType, ring
  <2> QED BY <1>3, <2>1, <2>2, SamePulses DEF OfficeOnHook
<1>4. CASE PhoneStarts \/ PhoneOnHook
  <2>1. FarType'
    BY <1>4 DEF PhoneStarts, PhoneOnHook, FarType, RxSigs
  <2> QED BY <1>4, <2>1, SamePulses, SameRing DEF PhoneStarts, PhoneOnHook
<1>5. CASE PhoneOffHook
  <2>1. FarType'
    BY <1>5 DEF PhoneOffHook, FarType, RxSigs, Forgiven
  <2>2. PulseType'
    <3>1. \/ UNCHANGED pulses
          \/ pulsecount < MaxPulses /\ pulsecount' = pulsecount + 1 /\ pulsetimer' = TRUE
      BY <1>5 DEF PhoneOffHook, pulses
    <3>2. CASE pulsecount < MaxPulses /\ pulsecount' = pulsecount + 1 /\ pulsetimer' = TRUE
      <4>1. pulsecount' \in 0 .. MaxPulses
        BY <3>2, PulseCounts DEF PulseType
      <4> QED BY <3>2, <4>1 DEF PulseType
    <3> QED BY <3>1, <3>2, SamePulses
  <2> QED BY <1>5, <2>1, <2>2, SameRing DEF PhoneOffHook
<1> QED BY <1>1, <1>2, <1>3, <1>4, <1>5 DEF FarEnd

LEMMA RxTimerTypes ==
    ASSUME SigTypeOK, RxTimers
    PROVE  FarType' /\ PulseType' /\ RingType'
<1> USE Types DEF Quiet, setup
<1>1. CASE ItimerExpires
  <2>1. FarType'
    BY <1>1 DEF ItimerExpires, FarType, RxSigs
  <2> QED BY <1>1, <2>1, SamePulses, SameRing DEF ItimerExpires
<1>2. CASE RingDebounced \/ TrailerLoaded \/ TrailerExpires
  <2>1. RingType'
    BY <1>2 DEF RingDebounced, TrailerLoaded, TrailerExpires, RingType
  <2> QED BY <1>2, <2>1, SameFar, SamePulses DEF RingDebounced, TrailerLoaded, TrailerExpires
<1>3. CASE PulseTimeout
  <2>1. PulseType'
    BY <1>3, PulseCounts DEF PulseTimeout, PulseType
  <2> QED BY <1>3, <2>1, SameFar, SameRing DEF PulseTimeout
<1> QED BY <1>1, <1>2, <1>3 DEF RxTimers

LEMMA FarIInv ==
    ASSUME IInv, FarEnd \/ RxTimers
    PROVE  IInv'
<1> USE DEF FarEnd, RxTimers, TrunkOffHook, TrunkOnHook, OfficeRings, OfficeOffHook, OfficeOnHook,
       PhoneStarts, PhoneOffHook, PhoneOnHook, ItimerExpires, RingDebounced, TrailerLoaded,
       TrailerExpires, PulseTimeout, OnlyFar, Quiet
<1>1. UNCHANGED <<setup, digits, call, hasty>>
  OBVIOUS
<1>2. UNCHANGED near \/ (txstate = "START" /\ Sethook("OFFHOOK", "AFTERSTART", TRUE))
  OBVIOUS
<1> HIDE DEF FarEnd, RxTimers
<1>3. FarType' /\ PulseType' /\ RingType'
  BY FarTypes, RxTimerTypes DEF IInv
<1>4. NearType'
  BY <1>2, Types, SameNear DEF IInv, NearType, Sethook, TxStates, TxSigs, Transient
<1>5. SetupType' /\ DigitType' /\ CallType'
  BY <1>1, Types, SameSetup, SameDigits DEF IInv, CallType
<1>6. Core'
  BY <1>1, <1>2 DEF IInv, Core, LineFollows, TransientTimed, DialingMoves, WinkerWoken,
     RingsInZone, NothingDialled, Sethook, Transient, Ringing, Pulsing, setup, near, digits
<1> QED BY <1>3, <1>4, <1>5, <1>6, TypesNext DEF IInv

-----------------------------------------------------------------------------
(* The timer of the near end                                               *)

(* The expiries that leave dialling alone                                  *)
LEMMA OnlyNearIInv ==
    ASSUME IInv, OnlyNear, Wake,
           \/ RingerOn \/ RingerOff \/ Started \/ WinkOn \/ WinkOff \/ FlashOn \/ FlashOff
           \/ StartSettled \/ KewlOff \/ PulseOn
    PROVE  IInv'
<1> USE DEF RingerOn, RingerOff, Started, WinkOn, WinkOff, FlashOn, FlashOff, StartSettled, KewlOff,
            PulseOn, PulseMade, Expired, Sethook
<1>1. NearType'
  BY DEF NearType, TxStates, TxSigs, Transient, Ringing, Pulsing
<1>2. Core'
  BY DEF IInv, Core, LineFollows, TransientTimed, DialingMoves, WinkerWoken, RingsInZone,
     NothingDialled, Transient, Ringing, Pulsing, OnlyNear, Wake, Wakes, setup, digits
<1> HIDE DEF RingerOn, RingerOff, Started, WinkOn, WinkOff, FlashOn, FlashOff, StartSettled,
             KewlOff, PulseOn
<1>3. SetupType' /\ FarType' /\ PulseType' /\ RingType' /\ DigitType'
  BY Types, SameSetup, SameFar, SamePulses, SameRing, SameDigits DEF IInv, OnlyNear, setup
<1>4. CallType'
  BY Types DEF IInv, OnlyNear, Wake, CallType
<1> QED BY <1>1, <1>2, <1>3, <1>4, TypesNext DEF IInv

LEMMA SettledIInv ==
    ASSUME IInv, Debounced \/ KewlSettled
    PROVE  IInv'
<1> USE DEF Debounced, KewlSettled, Expired, Sethook, Relook
<1>1. UNCHANGED <<setup, pulses, ring, digits, hasty>> /\ Wake
  OBVIOUS
<1>2. NearType'
  BY Types DEF IInv, NearType, TxStates, TxSigs
<1>3. FarType'
  BY Types DEF IInv, FarType, RxSigs, setup
<1>4. Core'
  BY DEF IInv, Core, LineFollows, TransientTimed, DialingMoves, WinkerWoken, RingsInZone,
     NothingDialled, Transient, Ringing, Pulsing, Wake, Wakes, setup, digits
<1> HIDE DEF Debounced, KewlSettled
<1>5. SetupType' /\ PulseType' /\ RingType' /\ DigitType' /\ CallType'
  BY <1>1, Types, SameSetup, SamePulses, SameRing, SameDigits DEF IInv, Wake, CallType
<1> QED BY <1>2, <1>3, <1>4, <1>5, TypesNext DEF IInv

(* The pulses left are a number, and none are left if none were.           *)
LEMMA PulsesLeftFact ==
    ASSUME NEW n \in Nat
    PROVE  (IF n > 0 THEN n - 1 ELSE 0) \in Nat
OBVIOUS

LEMMA PulseSentIInv == IInv /\ PulseSent => IInv'
<1> SUFFICES ASSUME IInv, PulseSent PROVE IInv'
  OBVIOUS
<1>0. PulsesLeft \in Nat
  BY PulsesLeftFact, Types DEF IInv, DigitType, PulsesLeft
<1> USE DEF PulseSent, Expired, Sethook
<1>1. NearType'
  BY Types DEF IInv, NearType, TxStates, TxSigs, Transient, Pulsing, AfterTimer
<1>2. DigitType'
  BY <1>0, Types DEF IInv, DigitType
<1>3. Core'
  <2>1. pdialcount' > 0 => PulsesLeft > 0
    OBVIOUS
  <2>2. txhooksig = "OFFHOOK" /\ txstate = "PULSEMAKE"
    BY DEF IInv, Core, LineFollows
  <2>3. call # "asleep" /\ call' = call
    BY DEF IInv, Core, WinkerWoken, Wake
  <2>4. txstate' \in {"PULSEBREAK", "PULSEAFTER"} /\ otimer' = TRUE
    BY DEF AfterTimer
  <2>5. LineFollows' /\ TransientTimed' /\ WinkerWoken' /\ RingsInZone'
    BY <2>2, <2>3, <2>4 DEF LineFollows, TransientTimed, WinkerWoken, RingsInZone, Transient,
       Pulsing, Ringing
  <2>6. DialingMoves'
    BY <2>1, <2>4 DEF DialingMoves, Pulsing
  <2>7. NothingDialled'
    BY <2>3 DEF IInv, Core, NothingDialled, PulsesLeft, setup
  <2> QED BY <2>5, <2>6, <2>7 DEF Core
<1>4. UNCHANGED <<setup, far, pulses, ring, hasty>> /\ (UNCHANGED call \/ Wake)
  OBVIOUS
<1> HIDE DEF PulseSent
<1>5. SetupType' /\ FarType' /\ PulseType' /\ RingType'
  BY <1>4, Types, SameSetup, SameFar, SamePulses, SameRing DEF IInv, setup
<1>6. CallType'
  BY <1>4, Types DEF IInv, Wake, CallType
<1> QED BY <1>1, <1>2, <1>3, <1>5, <1>6, TypesNext DEF IInv

(* A string with digits has a first one, of at least one pulse.            *)
LEMMA FirstDigit ==
    ASSUME NEW s \in Seq(Digits), s # <<>>
    PROVE  Head(s) \in Nat /\ Tail(s) \in Seq(Digits)
<1>1. Head(s) \in Digits /\ Tail(s) \in Seq(Digits)
  BY HeadTailProperties
<1> QED BY <1>1, RbsAssumption

(* What dialling on from a buffer does, at a channel in a state where the  *)
(* line is as the state says                                               *)
LEMMA DialsOn ==
    ASSUME IInv, NEW buf \in Seq(Digits), NEW state \in TxStates, NEW timed \in BOOLEAN,
           DoDtmf(buf, state, timed)
    PROVE  /\ NearType' /\ DigitType'
           /\ \/ /\ txhooksig' = "ONHOOK" /\ txstate' = "PULSEBREAK" /\ otimer' = TRUE
                 /\ dialing' = TRUE
              \/ /\ txhooksig' = txhooksig /\ txstate' = state /\ otimer' = timed
                 /\ dialing' = FALSE /\ txdialbuf' = <<>> /\ pdialcount' = pdialcount
<1> USE DEF DoDtmf, Sethook
<1>1. CASE buf # <<>> /\ txhooksig = "OFFHOOK"
  <2>1. Head(buf) \in Nat /\ Tail(buf) \in Seq(Digits)
    BY <1>1, FirstDigit
  <2> QED BY <1>1, <2>1, Types DEF IInv, NearType, DigitType, TxStates, TxSigs, Transient, Pulsing
<1>2. CASE ~(buf # <<>> /\ txhooksig = "OFFHOOK")
  <2>1. <<>> \in Seq(Digits)
    OBVIOUS
  <2> QED BY <1>2, <2>1, Types DEF IInv, NearType, DigitType
<1> QED BY <1>1, <1>2

LEMMA DigitSentIInv == IInv /\ DigitSent => IInv'
<1> SUFFICES ASSUME IInv, DigitSent PROVE IInv'
  OBVIOUS
<1>1. UNCHANGED <<setup, far, pulses, ring, hasty>> /\ Wake /\ txstate = "PULSEAFTER"
  BY DEF DigitSent, Expired
<1>2. DoDtmf(txdialbuf, "OFFHOOK", FALSE)
  BY DEF DigitSent
<1>3. /\ NearType' /\ DigitType'
      /\ \/ /\ txhooksig' = "ONHOOK" /\ txstate' = "PULSEBREAK" /\ otimer' = TRUE
            /\ dialing' = TRUE
         \/ /\ txhooksig' = txhooksig /\ txstate' = "OFFHOOK" /\ otimer' = FALSE
            /\ dialing' = FALSE /\ txdialbuf' = <<>> /\ pdialcount' = pdialcount
  <2>1. txdialbuf \in Seq(Digits) /\ "OFFHOOK" \in TxStates /\ FALSE \in BOOLEAN
    BY Types DEF IInv, DigitType, TxStates
  <2> QED BY <1>2, <2>1, DialsOn
<1>4. call # "asleep" /\ call' = call
  BY <1>1 DEF IInv, Core, WinkerWoken, Wake
<1>5. txhooksig = "OFFHOOK" /\ pdialcount = 0
  <2>1. pdialcount \in Nat /\ ~(pdialcount > 0)
    BY <1>1, Types DEF IInv, Core, DialingMoves, DigitType
  <2>2. pdialcount = 0
    BY <2>1
  <2> QED BY <1>1, <2>2 DEF IInv, Core, LineFollows
<1>6. LineFollows' /\ TransientTimed' /\ WinkerWoken' /\ RingsInZone'
  BY <1>3, <1>4, <1>5 DEF LineFollows, TransientTimed, WinkerWoken, RingsInZone, Transient,
     Pulsing, Ringing
<1>7. DialingMoves'
  BY <1>3, <1>5 DEF DialingMoves, Pulsing
<1>8. NothingDialled'
  <2>1. call # "none" => txdialbuf = <<>>
    BY DEF IInv, Core, NothingDialled
  <2>2. call # "none" => dialing' = FALSE
    BY <2>1, <1>2 DEF DoDtmf
  <2> QED BY <1>1, <1>3, <1>4, <1>5, <2>2 DEF IInv, Core, NothingDialled, setup
<1>9. SetupType' /\ FarType' /\ PulseType' /\ RingType' /\ CallType'
  BY <1>1, <1>4, Types, SameSetup, SameFar, SamePulses, SameRing DEF IInv, setup, CallType
<1> QED BY <1>3, <1>6, <1>7, <1>8, <1>9, TypesNext DEF IInv, Core

LEMMA OtimerIInv == IInv /\ OtimerExpires => IInv'
<1> SUFFICES ASSUME IInv, OtimerExpires PROVE IInv'
  OBVIOUS
<1>1. CASE \/ RingerOn \/ RingerOff \/ Started \/ WinkOn \/ WinkOff \/ FlashOn \/ FlashOff
           \/ StartSettled \/ KewlOff \/ PulseOn
  <2>1. OnlyNear /\ Wake
    BY <1>1 DEF RingerOn, RingerOff, Started, WinkOn, WinkOff, FlashOn, FlashOff, StartSettled,
       KewlOff, PulseOn
  <2> QED BY <1>1, <2>1, OnlyNearIInv
<1>2. CASE Debounced \/ KewlSettled
  BY <1>2, SettledIInv
<1>3. CASE PulseSent
  BY <1>3, PulseSentIInv
<1>4. CASE DigitSent
  BY <1>4, DigitSentIInv
<1> QED BY <1>1, <1>2, <1>3, <1>4 DEF OtimerExpires

-----------------------------------------------------------------------------
(* Users                                                                   *)

(* dahdi_hangup leaves the channel on hook, or dropping battery, and       *)
(* dialling nothing.                                                       *)
LEMMA HangsUp ==
    ASSUME NEW it \in BOOLEAN, Hangup(it)
    PROVE  /\ NearType' /\ DigitType' /\ kewlonhook' = FALSE
           /\ \/ txhooksig' = "KEWL" /\ txstate' = "KEWL" /\ otimer' = TRUE
              \/ txhooksig' = "ONHOOK" /\ txstate' = "ONHOOK" /\ otimer' = FALSE
           /\ dialing' = FALSE /\ txdialbuf' = <<>> /\ pdialcount' = 0
<1>1. <<>> \in Seq(Digits)
  OBVIOUS
<1> QED BY <1>1 DEF Hangup, Sethook, StopDigits, NearType, DigitType, TxStates, TxSigs, Transient

LEMMA HangupCore ==
    ASSUME NEW it \in BOOLEAN, Hangup(it), call' = "none"
    PROVE  Core'
<1>1. /\ \/ txhooksig' = "KEWL" /\ txstate' = "KEWL" /\ otimer' = TRUE
         \/ txhooksig' = "ONHOOK" /\ txstate' = "ONHOOK" /\ otimer' = FALSE
      /\ dialing' = FALSE /\ txdialbuf' = <<>> /\ pdialcount' = 0
  BY HangsUp
<1>2. LineFollows' /\ TransientTimed' /\ RingsInZone'
  BY <1>1 DEF LineFollows, TransientTimed, RingsInZone, Transient, Ringing, Pulsing
<1>3. DialingMoves' /\ WinkerWoken' /\ NothingDialled'
  BY <1>1 DEF DialingMoves, WinkerWoken, NothingDialled
<1> QED BY <1>2, <1>3 DEF Core

LEMMA HangupIInv ==
    ASSUME IInv, SetOnHook \/ Open \/ Close
    PROVE  IInv'
<1>1. itimer \in BOOLEAN /\ (~opened => call = "none")
  BY Types DEF IInv, FarType, Core, NothingDialled
<1>2. PICK it \in BOOLEAN : Hangup(it)
  BY <1>1 DEF SetOnHook, Open, Close
<1>3. Core'
  <2>1. call' = "none"
    BY <1>1 DEF SetOnHook, Open, Close, Idle
  <2> QED BY <1>2, <2>1, HangupCore
<1>4. NearType' /\ DigitType' /\ kewlonhook' = FALSE
  BY <1>2, HangsUp
<1>5. SetupType'
  BY Types DEF IInv, SetupType, SetOnHook, Open, Close, HookSet, setup
<1>6. FarType'
  BY <1>4, Types DEF IInv, FarType, RxSigs, SetOnHook, Open, Close, HookSet, setup
<1>7. PulseType'
  BY Types, PulseCounts DEF IInv, PulseType, SetOnHook, Open, Close, HookSet, pulses
<1>8. RingType'
  <2>1. ringdebtimer' \in BOOLEAN
    <3>1. CASE SetOnHook
      BY <3>1, Types DEF IInv, RingType, SetOnHook
    <3>2. CASE Open
      BY <3>2 DEF Open
    <3>3. CASE Close
      BY <3>3 DEF Close
    <3> QED BY <3>1, <3>2, <3>3
  <2> QED BY <2>1, Types DEF IInv, RingType, SetOnHook, Open, Close
<1>9. CallType'
  <2>1. hasty' \in BOOLEAN
    BY Types DEF IInv, CallType, SetOnHook, Open, Close, HookSet, Hurry
  <2> QED BY <1>1, <2>1 DEF SetOnHook, Open, Close, Idle, CallType
<1> QED BY <1>3, <1>4, <1>5, <1>6, <1>7, <1>8, <1>9, TypesNext DEF IInv

(* The other operations of DAHDI_HOOK                                      *)
LEMMA HookIInv ==
    ASSUME IInv, SetOffHook \/ SetStart \/ SetWink \/ SetFlash \/ SetRingOff
    PROVE  IInv'
<1> USE DEF SetOffHook, SetStart, SetWink, SetFlash, SetRingOff, Sethook, HookOnly, HookSet, Sleep,
            Startable
<1>1. UNCHANGED <<setup, far, pulses, ring, digits>> /\ Hurry /\ call \notin {"none", "asleep"}
  OBVIOUS
<1>2. NearType'
  BY DEF NearType, TxStates, TxSigs, Transient, Ringing
<1>3. call' \in {"none", "asleep"}
  OBVIOUS
<1>4. LineFollows' /\ TransientTimed'
  BY DEF LineFollows, TransientTimed, Transient, Ringing, Pulsing
<1>5. WinkerWoken' /\ RingsInZone'
  BY <1>1 DEF WinkerWoken, RingsInZone, Ringing, setup
<1>6. opened
  BY <1>1 DEF IInv, Core, NothingDialled
<1> HIDE DEF SetOffHook, SetStart, SetWink, SetFlash, SetRingOff
<1>7. ~dialing /\ pdialcount = 0 /\ txdialbuf = <<>>
  BY <1>1 DEF IInv, Core, NothingDialled
<1>8. DialingMoves' /\ NothingDialled'
  BY <1>1, <1>6, <1>7 DEF DialingMoves, NothingDialled, setup, digits
<1>9. SetupType' /\ FarType' /\ PulseType' /\ RingType' /\ DigitType'
  BY <1>1, Types, SameSetup, SameFar, SamePulses, SameRing, SameDigits DEF IInv, setup
<1>10. CallType'
  <2>1. hasty' \in BOOLEAN
    BY <1>1, Types DEF IInv, CallType, Hurry
  <2> QED BY <1>3, <2>1 DEF CallType
<1> QED BY <1>2, <1>4, <1>5, <1>8, <1>9, <1>10, TypesNext DEF IInv, Core

(* What leaves both hook states alone: entering and leaving DAHDI_HOOK,    *)
(* stopping to dial, and the settings                                      *)
LEMMA CallIInv ==
    ASSUME IInv, \/ \E op \in HookOps : BeginHook(op)
                 \/ RefuseHook \/ Signal \/ StopDialing
    PROVE  IInv'
<1> USE DEF BeginHook, RefuseHook, Signal, StopDialing, StopDigits, Idle
<1>1. UNCHANGED <<setup, near, far, pulses, ring, hasty>>
  OBVIOUS
<1>2. \/ UNCHANGED digits
      \/ dialing' = FALSE /\ txdialbuf' = <<>> /\ pdialcount' = 0
  BY DEF digits
<1>3. \/ call' = "none"
      \/ opened /\ call' \in HookOps /\ dialing' = FALSE /\ txdialbuf' = <<>> /\ pdialcount' = 0
  OBVIOUS
<1>4. (call' = "none" /\ ~dialing') => txdialbuf' = <<>>
  BY <1>2 DEF IInv, Core, NothingDialled, digits
<1> HIDE DEF BeginHook, RefuseHook, Signal, StopDialing
<1>5. "asleep" \notin HookOps
  BY DEF HookOps
<1>6. Core'
  <2>1. LineFollows' /\ TransientTimed' /\ RingsInZone'
    BY <1>1 DEF IInv, Core, LineFollows, TransientTimed, RingsInZone, setup, near
  <2>2. DialingMoves'
    BY <1>1, <1>2 DEF IInv, Core, DialingMoves, near, digits
  <2>3. WinkerWoken' /\ NothingDialled'
    BY <1>1, <1>3, <1>4, <1>5 DEF WinkerWoken, NothingDialled, setup
  <2> QED BY <2>1, <2>2, <2>3 DEF Core
<1>7. DigitType'
  <2>1. CASE UNCHANGED digits
    BY <2>1, Types, SameDigits DEF IInv
  <2>2. CASE dialing' = FALSE /\ txdialbuf' = <<>> /\ pdialcount' = 0
    <3>1. <<>> \in Seq(Digits)
      OBVIOUS
    <3> QED BY <2>2, <3>1 DEF DigitType
  <2> QED BY <1>2, <2>1, <2>2
<1>8. SetupType' /\ NearType' /\ FarType' /\ PulseType' /\ RingType'
  BY <1>1, Types, SameSetup, SameNear, SameFar, SamePulses, SameRing DEF IInv, setup
<1>9. CallType'
  BY <1>1, <1>3, Types DEF IInv, CallType
<1> QED BY <1>6, <1>7, <1>8, <1>9, TypesNext DEF IInv

LEMMA SettingIInv ==
    ASSUME IInv, SetSigFreeze \/ SetToneZone \/ UNCHANGED vars
    PROVE  IInv'
<1> USE DEF SetSigFreeze, SetToneZone, vars, setup
<1>1. UNCHANGED <<sig, opened, near, far, pulses, ring, digits, call, hasty>>
      /\ (curzone => curzone')
  OBVIOUS
<1>2. SetupType'
  BY Types DEF IInv, SetupType
<1> HIDE DEF SetSigFreeze, SetToneZone, vars
<1>3. Core'
  BY <1>1 DEF IInv, Core, LineFollows, TransientTimed, DialingMoves, WinkerWoken, RingsInZone,
     NothingDialled, near, digits
<1>4. NearType' /\ FarType' /\ PulseType' /\ RingType' /\ DigitType' /\ CallType'
  BY <1>1, Types, SameNear, SameFar, SamePulses, SameRing, SameDigits DEF IInv, CallType
<1> QED BY <1>2, <1>3, <1>4, TypesNext DEF IInv

(* A string that is dialled is a sequence of digits.                       *)
LEMMA DialStringsAreSeqs == DialStrings \subseteq Seq(Digits)
<1> SUFFICES ASSUME NEW s \in DialStrings PROVE s \in Seq(Digits)
  OBVIOUS
<1>1. PICK n \in 1 .. MaxDigits : s \in [1 .. n -> Digits]
  BY DEF DialStrings
<1>2. n \in Nat
  BY RbsAssumption
<1> QED BY <1>1, <1>2

LEMMA DialIInv ==
    ASSUME IInv, NEW s \in DialStrings, Replace(s) \/ Appended(s)
    PROVE  IInv'
<1>1. s \in Seq(Digits)
  BY DialStringsAreSeqs
<1>2. UNCHANGED <<setup, far, pulses, ring, call>> /\ Hurry /\ opened /\ call = "none"
  BY DEF Replace, Appended, Idle
<1>3. SetupType' /\ FarType' /\ PulseType' /\ RingType'
  BY <1>2, Types, SameSetup, SameFar, SamePulses, SameRing DEF IInv, setup
<1>4. CallType'
  <2>1. hasty' \in BOOLEAN
    BY <1>2, Types DEF IInv, CallType, Hurry
  <2> QED BY <1>2, <2>1 DEF CallType
<1>5. txdialbuf \o s \in Seq(Digits) /\ txstate \in TxStates /\ otimer \in BOOLEAN
  BY <1>1, Types DEF IInv, DigitType, NearType
<1>6. WinkerWoken' /\ NothingDialled' /\ (near' = near => RingsInZone')
  <2>1. call' = "none" /\ opened'
    BY <1>2 DEF setup
  <2>2. ~dialing' => txdialbuf' = <<>>
    BY DEF Replace, Appended, DoDtmf
  <2> QED BY <1>2, <2>1, <2>2 DEF IInv, Core, WinkerWoken, NothingDialled, RingsInZone, setup, near
<1>7. CASE \E b \in Seq(Digits) : DoDtmf(b, txstate, otimer)
  <2>1. PICK b \in Seq(Digits) : DoDtmf(b, txstate, otimer)
    BY <1>7
  <2>2. /\ NearType' /\ DigitType'
        /\ \/ /\ txhooksig' = "ONHOOK" /\ txstate' = "PULSEBREAK" /\ otimer' = TRUE
              /\ dialing' = TRUE
           \/ /\ txhooksig' = txhooksig /\ txstate' = txstate /\ otimer' = otimer
              /\ dialing' = FALSE /\ txdialbuf' = <<>> /\ pdialcount' = pdialcount
    BY <1>5, <2>1, DialsOn
  <2>3. LineFollows' /\ TransientTimed' /\ RingsInZone'
    BY <1>6, <2>2 DEF IInv, Core, LineFollows, TransientTimed, RingsInZone, Transient, Ringing,
       Pulsing, near
  <2>4. DialingMoves'
    BY <2>2 DEF IInv, Core, DialingMoves, Pulsing
  <2> QED BY <1>3, <1>4, <1>6, <2>2, <2>3, <2>4, TypesNext DEF IInv, Core
<1>8. CASE UNCHANGED <<near, dialing, pdialcount>> /\ txdialbuf' = txdialbuf \o s
  <2>1. NearType' /\ DigitType'
    BY <1>5, <1>8, Types, SameNear DEF IInv, DigitType
  <2>2. LineFollows' /\ TransientTimed' /\ RingsInZone' /\ DialingMoves'
    BY <1>6, <1>8 DEF IInv, Core, LineFollows, TransientTimed, DialingMoves, near
  <2> QED BY <1>3, <1>4, <1>6, <2>1, <2>2, TypesNext DEF IInv, Core
<1> QED BY <1>1, <1>5, <1>7, <1>8 DEF Replace, Appended

-----------------------------------------------------------------------------

LEMMA NextIInv == IInv /\ [Next]_vars => IInv'
<1> SUFFICES ASSUME IInv, [Next]_vars PROVE IInv'
  OBVIOUS
<1>1. CASE OtimerExpires
  BY <1>1, OtimerIInv
<1>2. CASE FarEnd \/ RxTimers
  BY <1>2, FarIInv
<1>3. CASE User
  <2>1. CASE SetOnHook \/ Open \/ Close
    BY <2>1, HangupIInv
  <2>2. CASE SetOffHook \/ SetStart \/ SetWink \/ SetFlash \/ SetRingOff
    BY <2>2, HookIInv
  <2>3. CASE (\E op \in HookOps : BeginHook(op)) \/ RefuseHook \/ Signal \/ StopDialing
    BY <2>3, CallIInv
  <2>4. CASE SetSigFreeze \/ SetToneZone
    BY <2>4, SettingIInv
  <2>5. CASE \E s \in DialStrings : Replace(s) \/ Appended(s)
    BY <2>5, DialIInv
  <2> QED BY <1>3, <2>1, <2>2, <2>3, <2>4, <2>5 DEF User
<1>4. CASE UNCHANGED vars
  BY <1>4, SettingIInv
<1> QED BY <1>1, <1>2, <1>3, <1>4 DEF Next

LEMMA Invariance == Spec => []IInv
<1>1. Init => IInv
  BY InitIInv
<1>2. IInv /\ [Next]_vars => IInv'
  BY NextIInv
<1> QED BY <1>1, <1>2, PTL DEF Spec

(* Every variable of the hook state machine keeps its type.                *)
THEOREM TypeCorrect == Spec => []SigTypeOK
<1>1. IInv => SigTypeOK
  BY DEF IInv
<1> QED BY <1>1, Invariance, PTL

(* In every state of dahdi_rbs_sethook the line shows what the state says, *)
(* whichever of users, timers and the far end changed it last.             *)
THEOREM LineIsTrue == Spec => []LineFollows
<1>1. IInv => LineFollows
  BY DEF IInv, Core
<1> QED BY <1>1, Invariance, PTL

(* otimer runs in exactly those states that __rbs_otimer_expire ends.      *)
THEOREM TimerRuns == Spec => []TransientTimed
<1>1. IInv => TransientTimed
  BY DEF IInv, Core
<1> QED BY <1>1, Invariance, PTL

(* A channel that is dialling is sending pulses, also when DAHDI_HOOK and  *)
(* DAHDI_DIAL stop, replace or append to what is dialled at any moment.    *)
THEOREM DialingNeverStalls == Spec => []DialingMoves
<1>1. IInv => DialingMoves
  BY DEF IInv, Core
<1> QED BY <1>1, Invariance, PTL

(* A thread that sleeps for its WINK or FLASH is not left asleep when the  *)
(* state it waits for has gone.                                            *)
THEOREM SleeperIsWoken == Spec => []WinkerWoken
<1>1. IInv => WinkerWoken
  BY DEF IInv, Core
<1> QED BY <1>1, Invariance, PTL

(* The ringer never runs without the tone zone it takes its cadence from.  *)
THEOREM RingerHasZone == Spec => []RingsInZone
<1>1. IInv => RingsInZone
  BY DEF IInv, Core
<1> QED BY <1>1, Invariance, PTL

(* The two together: the line and the ringer never leave the state behind. *)
THEOREM LineAlwaysMatches == Spec => []LineMatchesState
<1>1. IInv => LineMatchesState
  BY DEF IInv, Core, LineMatchesState
<1> QED BY <1>1, Invariance, PTL

(* The three together: every state, dial string and sleep that is to end   *)
(* has the timer or the wake-up that ends it.                              *)
THEOREM NothingEverStalls == Spec => []NothingStalls
<1>1. IInv => NothingStalls
  BY DEF IInv, Core, NothingStalls
<1> QED BY <1>1, Invariance, PTL

-----------------------------------------------------------------------------
(* What users are told of a phone.  Nothing but time passing makes a       *)
(* report, so the timer must not run, nor a report be owed for the end of  *)
(* a battery drop, while the phone is off hook; and gotgs, which keeps a   *)
(* phone from being reported twice, is set with the phone on hook only     *)
(* while itimer will reset it or a settling time goes on.                  *)
ReportsOwed ==
    sig \in Fxo =>
        /\ itimer => rxhooksig # "OFFHOOK"
        /\ kewlonhook => rxhooksig # "OFFHOOK"
        /\ rxhooksig = "ONHOOK" /\ ~itimer /\ gotgs /\ ~hasty => txstate \in Settling

LEMMA FarReports ==
    ASSUME ReportsOwed, FarEnd \/ RxTimers
    PROVE  ReportsOwed'
<1> USE DEF ReportsOwed, setup, near, far
<1>1. CASE TrunkOffHook \/ TrunkOnHook
  BY <1>1 DEF TrunkOffHook, TrunkOnHook, OnlyFar, Fxo
<1>2. CASE OfficeRings \/ OfficeOffHook \/ OfficeOnHook
  BY <1>2 DEF OfficeRings, OfficeOffHook, OfficeOnHook, OnlyFar, Fxo, Fxs
<1>3. CASE PhoneStarts
  BY <1>3 DEF PhoneStarts, OnlyFar, Hooksig
<1>4. CASE PhoneOffHook
  BY <1>4 DEF PhoneOffHook, Hooksig, Forgiven
<1>5. CASE PhoneOnHook
  BY <1>5 DEF PhoneOnHook, OnlyFar, Hooksig, Settling
<1>6. CASE ItimerExpires
  BY <1>6 DEF ItimerExpires, Quiet
<1>7. CASE RingDebounced \/ TrailerLoaded \/ TrailerExpires \/ PulseTimeout
  BY <1>7 DEF RingDebounced, TrailerLoaded, TrailerExpires, PulseTimeout, Quiet
<1> QED BY <1>1, <1>2, <1>3, <1>4, <1>5, <1>6, <1>7 DEF FarEnd, RxTimers

LEMMA OtimerReports ==
    ASSUME ReportsOwed, OtimerExpires
    PROVE  ReportsOwed'
<1> USE DEF ReportsOwed, setup, near, far, Settling
<1>1. CASE RingerOn \/ RingerOff \/ Started \/ WinkOn \/ WinkOff \/ FlashOn \/ FlashOff
           \/ StartSettled
  BY <1>1 DEF RingerOn, RingerOff, Started, WinkOn, WinkOff, FlashOn, FlashOff, StartSettled,
              Expired, Sethook, OnlyNear
<1>2. CASE Debounced
  BY <1>2 DEF Debounced, Expired, Relook
<1>3. CASE KewlOff
  BY <1>3 DEF KewlOff, Expired, Sethook, OnlyNear
<1>4. CASE KewlSettled
  BY <1>4 DEF KewlSettled
<1>5. CASE PulseOn \/ PulseSent \/ DigitSent
  BY <1>5 DEF PulseOn, PulseSent, DigitSent, Expired, OnlyNear
<1> QED BY <1>1, <1>2, <1>3, <1>4, <1>5 DEF OtimerExpires

LEMMA UserReports ==
    ASSUME ReportsOwed, User
    PROVE  ReportsOwed'
<1> USE DEF ReportsOwed, setup, near, far
\* A user who ends a settling time is hasty.
<1>1. ASSUME UNCHANGED <<sig, rxhooksig, itimer, gotgs>>, kewlonhook' \in {kewlonhook, FALSE},
             Hurry
      PROVE  ReportsOwed'
  BY <1>1 DEF Hurry
<1>2. CASE SetOnHook
  BY <1>1, <1>2 DEF SetOnHook, HookSet, Hangup
<1>3. CASE SetOffHook \/ SetStart \/ SetWink \/ SetFlash \/ SetRingOff
  BY <1>1, <1>3 DEF SetOffHook, SetStart, SetWink, SetFlash, SetRingOff, HookOnly, HookSet
<1>4. CASE \E s \in DialStrings : Replace(s) \/ Appended(s)
  BY <1>1, <1>4 DEF Replace, Appended
<1>5. CASE (\E op \in HookOps : BeginHook(op)) \/ RefuseHook \/ Signal \/ StopDialing
  BY <1>5 DEF BeginHook, RefuseHook, Signal, StopDialing
<1>6. CASE SetSigFreeze \/ SetToneZone
  BY <1>6 DEF SetSigFreeze, SetToneZone
<1>7. CASE Open \/ Close
  BY <1>7 DEF Open, Close, Hangup
<1> QED BY <1>2, <1>3, <1>4, <1>5, <1>6, <1>7 DEF User

LEMMA ReportsInvariance == Spec => []ReportsOwed
<1>1. Init => ReportsOwed
  BY DEF Init, ReportsOwed
<1>2. ReportsOwed /\ [Next]_vars => ReportsOwed'
  <2>1. CASE UNCHANGED vars
    BY <2>1 DEF vars, setup, near, far, ReportsOwed
  <2> QED BY <2>1, FarReports, OtimerReports, UserReports DEF Next
<1> QED BY <1>1, <1>2, PTL DEF Spec

\* What a step reports, by who makes it.
Others == {"RINGERON", "RINGEROFF", "HOOKCOMPLETE", "DIALCOMPLETE", "WINKFLASH", "PULSE_START",
           "PULSEDIGIT"}

LEMMA WhoReports ==
    ASSUME Next, sig \in Fxo
    PROVE  \/ event' = <<>> \/ \E e \in Others : event' = <<e>>
           \/ event' = <<"ONHOOK">> /\ (itimer \/ kewlonhook) /\ rxhooksig' = rxhooksig
           \/ event' = <<"RINGOFFHOOK">> /\ rxhooksig' \in {"START", "OFFHOOK"}
<1> USE DEF setup, near, far, Others
<1>1. CASE FarEnd
  <2>1. CASE TrunkOffHook \/ TrunkOnHook \/ OfficeRings \/ OfficeOffHook \/ OfficeOnHook
    BY <2>1 DEF TrunkOffHook, TrunkOnHook, OfficeRings, OfficeOffHook, OfficeOnHook, Fxo, Fxs
  <2>2. CASE PhoneStarts \/ PhoneOnHook
    BY <2>2 DEF PhoneStarts, PhoneOnHook, Hooksig
  <2>3. CASE PhoneOffHook
    BY <2>3 DEF PhoneOffHook, Hooksig
  <2> QED BY <1>1, <2>1, <2>2, <2>3 DEF FarEnd
<1>2. CASE RxTimers
  BY <1>2 DEF RxTimers, ItimerExpires, RingDebounced, TrailerLoaded, TrailerExpires,
     PulseTimeout, Fxo, Fxs
<1>3. CASE OtimerExpires
  <2>1. CASE KewlSettled
    BY <2>1 DEF KewlSettled
  <2>2. CASE DigitSent
    BY <2>2 DEF DigitSent, DoDtmf
  <2> QED
    BY <1>3, <2>1, <2>2 DEF OtimerExpires, RingerOn, RingerOff, Started, WinkOn, WinkOff,
       FlashOn, FlashOff, StartSettled, Debounced, KewlOff, PulseOn, PulseSent, Complete
<1>4. CASE User
  <2>1. CASE \E s \in DialStrings : Replace(s) \/ Appended(s)
    BY <2>1 DEF Replace, Appended, DoDtmf
  <2>2. CASE SetOnHook \/ SetOffHook \/ SetStart \/ SetWink \/ SetFlash \/ SetRingOff
    BY <2>2 DEF SetOnHook, SetOffHook, SetStart, SetWink, SetFlash, SetRingOff, HookOnly, HookSet
  <2>3. CASE (\E op \in HookOps : BeginHook(op)) \/ RefuseHook \/ Signal \/ StopDialing
    BY <2>3 DEF BeginHook, RefuseHook, Signal, StopDialing
  <2>4. CASE SetSigFreeze \/ SetToneZone \/ Open \/ Close
    BY <2>4 DEF SetSigFreeze, SetToneZone, Open, Close
  <2> QED BY <1>4, <2>1, <2>2, <2>3, <2>4 DEF User
<1> QED BY <1>1, <1>2, <1>3, <1>4 DEF Next

LEMMA ReportedIs ==
    /\ event' = <<>> => \A e : ~Reported(e)
    /\ \A x : event' = <<x>> => \A e : Reported(e) <=> e = x
BY DEF Reported

\* However late a timer makes the report, a phone is not told to be on hook while it is
\* off hook, nor the other way round (rbs_itimer_expire, __dahdi_hooksig_pvt, the end of
\* a battery drop).
THEOREM PhonesAreReportedTrue == Spec => ReportsTrue
<1>1. ReportsOwed /\ [Next]_vars =>
          [ /\ sig \in Fxo /\ Reported("ONHOOK") => rxhooksig' # "OFFHOOK"
            /\ sig \in Fxo /\ Reported("RINGOFFHOOK") => rxhooksig' # "ONHOOK" ]_vars
  <2> SUFFICES ASSUME ReportsOwed, Next, sig \in Fxo
               PROVE  /\ Reported("ONHOOK") => rxhooksig' # "OFFHOOK"
                      /\ Reported("RINGOFFHOOK") => rxhooksig' # "ONHOOK"
    OBVIOUS
  <2>1. CASE event' = <<>> \/ \E e \in Others : event' = <<e>>
    <3>1. ~Reported("ONHOOK") /\ ~Reported("RINGOFFHOOK")
      BY <2>1, ReportedIs DEF Others
    <3> QED BY <3>1
  <2>2. CASE event' = <<"ONHOOK">> /\ (itimer \/ kewlonhook) /\ rxhooksig' = rxhooksig
    <3>1. ~Reported("RINGOFFHOOK")
      BY <2>2, ReportedIs
    <3> QED BY <2>2, <3>1 DEF ReportsOwed
  <2>3. CASE event' = <<"RINGOFFHOOK">> /\ rxhooksig' \in {"START", "OFFHOOK"}
    <3>1. ~Reported("ONHOOK")
      BY <2>3, ReportedIs
    <3> QED BY <2>3, <3>1
  <2> QED BY <2>1, <2>2, <2>3, WhoReports
<1> QED BY <1>1, ReportsInvariance, PTL DEF Spec, ReportsTrue

\* A phone that comes off hook at a port that is idle or rings is told, unless a user
\* has cut a settling time short.
THEOREM PhonesAreHeard == Spec => OffHookHeard
<1>1. ReportsOwed /\ [Next]_vars =>
          [ (/\ sig \in Fxo /\ rxhooksig = "ONHOOK" /\ rxhooksig' = "OFFHOOK" /\ ~itimer
             /\ txstate \in {"ONHOOK"} \cup Ringing /\ ~hasty)
            => Reported("RINGOFFHOOK") ]_vars
  <2> SUFFICES ASSUME ReportsOwed, Next, sig \in Fxo, rxhooksig = "ONHOOK",
                      rxhooksig' = "OFFHOOK", ~itimer, txstate \in {"ONHOOK"} \cup Ringing,
                      ~hasty
               PROVE  Reported("RINGOFFHOOK")
    OBVIOUS
  <2>1. ~gotgs
    BY DEF ReportsOwed, Settling, Ringing
  <2>2. PhoneOffHook
    <3> USE DEF setup, near, far
    <3>1. CASE FarEnd
      BY <3>1 DEF FarEnd, TrunkOffHook, TrunkOnHook, OfficeRings, OfficeOffHook, OfficeOnHook,
         PhoneStarts, PhoneOnHook, Hooksig, Fxo, Fxs
    <3>2. CASE RxTimers
      BY <3>2 DEF RxTimers, ItimerExpires, RingDebounced, TrailerLoaded, TrailerExpires,
         PulseTimeout
    <3>3. CASE OtimerExpires
      BY <3>3 DEF OtimerExpires, RingerOn, RingerOff, Started, WinkOn, WinkOff, FlashOn,
         FlashOff, StartSettled, Debounced, KewlOff, KewlSettled, PulseOn, PulseSent, DigitSent,
         OnlyNear
    <3>4. CASE User
      BY <3>4 DEF User, BeginHook, SetOnHook, SetOffHook, SetStart, SetWink, SetFlash,
         SetRingOff, HookOnly, HookSet, RefuseHook, Signal, Replace, Appended, StopDialing,
         SetSigFreeze, SetToneZone, Open, Close
    <3> QED BY <3>1, <3>2, <3>3, <3>4 DEF Next
  <2>3. event' = <<"RINGOFFHOOK">>
    BY <2>1, <2>2 DEF PhoneOffHook
  <2> QED BY <2>3, ReportedIs
<1> QED BY <1>1, ReportsInvariance, PTL DEF Spec, OffHookHeard
=============================================================================

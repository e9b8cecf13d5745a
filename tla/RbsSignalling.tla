--------------------------- MODULE RbsSignalling ---------------------------
(***************************************************************************)
(* Hook states of a channel with robbed bit signalling, or of an analog    *)
(* port whose driver uses dahdi_hooksig: what the channel shows on its     *)
(* line (txstate, timed by otimer), what it makes of the far end           *)
(* (rxhooksig, timed by itimer), pulse dialling in both directions and the *)
(* events a user is told.                                                  *)
(*                                                                         *)
(* A timer either runs or not: when it expires is left open, so that the   *)
(* model holds for all lengths DAHDI_SET_PARAMS can give it.  Interrupts   *)
(* and the far end act at any moment, also in the middle of DAHDI_HOOK,    *)
(* which takes the lock of the channel twice.                              *)
(*                                                                         *)
(* Bounds: one thread uses the channel; all lengths are at least one chunk *)
(* (a length of 0 stops the state machine for good) and rxflashtime is     *)
(* more than 2, as the end of a debounce asks for; a timer does not run    *)
(* out between the unlock and the add_wait_queue of a WINK or FLASH; the   *)
(* event queue does not fill up; only pulse digits are dialled.            *)
(***************************************************************************)
EXTENDS Integers, Sequences

CONSTANTS
    Sigs,          \* the signalling types, of the channels considered
    Digits,        \* digits to dial, as numbers of pulses
    MaxDigits,     \* bound: digits of one dialling operation
    MaxPulses      \* bound: pulses counted of the far end

ASSUME RbsAssumption ==
    /\ Sigs \subseteq {"EM", "FXSLS", "FXSGS", "FXSKS", "FXOLS", "FXOGS", "FXOKS"}
    /\ Digits \subseteq Nat \ {0} /\ MaxDigits \in Nat /\ MaxPulses \in Nat

VARIABLES
    sig, opened, curzone, nonblock, frozen,     \* set up by users
    txstate, txhooksig, otimer,                 \* the near end
    rxhooksig, itimer, gotgs, kewlonhook,       \* the far end
    pulsecount, pulsetimer,                     \* pulses of the far end
    ringdebtimer, ringtrailer,                  \* ringing of the far end
    dialing, txdialbuf, pdialcount,             \* pulses to the far end
    call,          \* the user in a DAHDI_HOOK
    event,         \* auxiliary: the events queued by the last step
    hasty          \* auxiliary: a user cut a settling time short

setup  == <<sig, opened, curzone, nonblock, frozen>>
near   == <<txstate, txhooksig, otimer>>
far    == <<rxhooksig, itimer, gotgs, kewlonhook>>
pulses == <<pulsecount, pulsetimer>>
ring   == <<ringdebtimer, ringtrailer>>
digits == <<dialing, txdialbuf, pdialcount>>
vars   == <<setup, near, far, pulses, ring, digits, call, event, hasty>>

Fxs == {"FXSLS", "FXSGS", "FXSKS"}      \* __DAHDI_SIG_FXS: a line of an office
Fxo == {"FXOLS", "FXOGS", "FXOKS"}      \* __DAHDI_SIG_FXO: a phone

Ringing == {"RINGON", "RINGOFF"}
Pulsing == {"PULSEBREAK", "PULSEMAKE", "PULSEAFTER"}
Transient == {"START", "PREWINK", "WINK", "PREFLASH", "FLASH", "DEBOUNCE",
              "AFTERSTART", "KEWL", "AFTERKEWL"} \cup Pulsing
TxStates == {"ONHOOK", "OFFHOOK"} \cup Ringing \cup Transient
TxSigs == {"ONHOOK", "OFFHOOK", "START", "KEWL"}
RxSigs(s) == CASE s = "FXOGS" -> {"ONHOOK", "OFFHOOK", "START"}
               [] s = "FXSLS" -> {"OFFHOOK", "RING"}
               [] s \in {"FXSGS", "FXSKS"} -> {"ONHOOK", "OFFHOOK", "RING"}
               [] OTHER -> {"ONHOOK", "OFFHOOK"}
HookOps == {"ONHOOK", "OFFHOOK", "START", "WINK", "FLASH", "RINGOFF"}

SigTypeOK ==
    /\ sig \in Sigs /\ opened \in BOOLEAN /\ curzone \in BOOLEAN
    /\ nonblock \in BOOLEAN /\ frozen \in BOOLEAN
    /\ txstate \in TxStates /\ txhooksig \in TxSigs /\ otimer \in BOOLEAN
    /\ rxhooksig \in RxSigs(sig) \cup {"INITIAL"}
    /\ itimer \in BOOLEAN /\ gotgs \in BOOLEAN /\ kewlonhook \in BOOLEAN
    /\ pulsecount \in 0 .. MaxPulses /\ pulsetimer \in BOOLEAN
    /\ ringdebtimer \in BOOLEAN /\ ringtrailer \in BOOLEAN
    /\ dialing \in BOOLEAN /\ txdialbuf \in Seq(Digits) /\ pdialcount \in Nat
    /\ call \in HookOps \cup {"none", "asleep"}
    /\ hasty \in BOOLEAN

(* After DAHDI_CHANCONFIG                                                  *)
Init ==
    /\ sig \in Sigs /\ opened = FALSE /\ curzone = FALSE /\ nonblock = FALSE /\ frozen = FALSE
    /\ txstate = "ONHOOK" /\ txhooksig = "ONHOOK" /\ otimer = FALSE
    /\ rxhooksig = "INITIAL" /\ itimer = FALSE /\ gotgs = FALSE /\ kewlonhook = FALSE
    /\ pulsecount = 0 /\ pulsetimer = FALSE
    /\ ringdebtimer = (sig \in Fxs) /\ ringtrailer = FALSE
    /\ dialing = FALSE /\ txdialbuf = <<>> /\ pdialcount = 0
    /\ call = "none" /\ event = <<>> /\ hasty = FALSE

-----------------------------------------------------------------------------

(* dahdi_rbs_sethook; timed says whether the state lasts for a time only   *)
Sethook(txsig, state, timed) ==
    /\ txhooksig' = txsig
    /\ txstate'   = state
    /\ otimer'    = timed

StopDigits_NotPulses ==             \* mutant: the digit under way is left
    dialing' = FALSE /\ txdialbuf' = <<>> /\ UNCHANGED pdialcount
StopDigits == dialing' = FALSE /\ txdialbuf' = <<>> /\ pdialcount' = 0

(* dahdi_hangup, with the itimer it finds                                  *)
Kewl(it) == /\ sig = "FXOKS" /\ txstate # "ONHOOK"
            /\ ~ (rxhooksig = "ONHOOK" /\ ~it)
Hangup(it) ==
    /\ kewlonhook' = FALSE
    /\ IF Kewl(it) THEN Sethook("KEWL", "KEWL", TRUE) ELSE Sethook("ONHOOK", "ONHOOK", FALSE)
    /\ StopDigits

(* __do_dtmf: the next digit that can be dialled; without one the channel  *)
(* is in the given state, and the user is told.                            *)
DoDtmf(buf, state, timed) ==
    IF buf # <<>> /\ txhooksig = "OFFHOOK"
    THEN /\ Sethook("ONHOOK", "PULSEBREAK", TRUE)
         /\ dialing' = TRUE /\ txdialbuf' = Tail(buf) /\ pdialcount' = Head(buf)
         /\ event' = <<>>
    ELSE /\ Sethook(txhooksig, state, timed)
         /\ dialing' = FALSE /\ txdialbuf' = <<>> /\ UNCHANGED pdialcount
         /\ event' = <<"DIALCOMPLETE">>

-----------------------------------------------------------------------------
(* __rbs_otimer_expire                                                     *)

(* wake_up_interruptible(&chan->txstateq)                                  *)
Wakes_Wink(from) == from = "WINK"     \* mutant: nobody wakes a FLASH
Wakes(from) == from \in Transient \ {"PREWINK", "PREFLASH", "AFTERKEWL"}
Wake == call' = IF call = "asleep" /\ Wakes(txstate) THEN "none" ELSE call
Complete == IF opened /\ nonblock THEN <<"HOOKCOMPLETE">> ELSE <<>>
Expired(from) == otimer /\ txstate = from
OnlyNear == UNCHANGED <<setup, far, pulses, ring, digits, hasty>>

(* The cadence wraps to its start, or to that of the tone zone.            *)
RingerOn  == /\ Expired("RINGOFF") /\ Sethook("START", "RINGON", TRUE)
             /\ event' = <<"RINGERON">> /\ Wake /\ OnlyNear
RingerOff == /\ Expired("RINGON") /\ Sethook("OFFHOOK", "RINGOFF", TRUE)
             /\ event' = <<"RINGEROFF">> /\ Wake /\ OnlyNear
Started   == /\ Expired("START") /\ Sethook("OFFHOOK", "AFTERSTART", TRUE)
             /\ event' = <<>> /\ Wake /\ OnlyNear
WinkOn    == /\ Expired("PREWINK") /\ Sethook("OFFHOOK", "WINK", TRUE)
             /\ event' = <<>> /\ Wake /\ OnlyNear
WinkOff   == /\ Expired("WINK") /\ Sethook("ONHOOK", "ONHOOK", FALSE)
             /\ event' = Complete /\ Wake /\ OnlyNear
FlashOn   == /\ Expired("PREFLASH") /\ Sethook("ONHOOK", "FLASH", TRUE)
             /\ event' = <<>> /\ Wake /\ OnlyNear
FlashOff  == /\ Expired("FLASH") /\ Sethook("OFFHOOK", "OFFHOOK", FALSE)
             /\ event' = Complete /\ Wake /\ OnlyNear
StartSettled == /\ Expired("AFTERSTART") /\ Sethook("OFFHOOK", "OFFHOOK", FALSE)
                /\ event' = Complete /\ Wake /\ OnlyNear

(* "See if we've gone back on hook"                                        *)
Relook_Never == FALSE       \* mutant: it does not
Relook == rxhooksig = "ONHOOK"
Debounced ==
    /\ Expired("DEBOUNCE") /\ Sethook("OFFHOOK", "OFFHOOK", FALSE)
    /\ itimer' = (itimer \/ Relook)
    /\ event' = <<>> /\ Wake
    /\ UNCHANGED <<setup, rxhooksig, gotgs, kewlonhook, pulses, ring, digits, hasty>>

KewlOff == /\ Expired("KEWL") /\ Sethook("ONHOOK", "AFTERKEWL", TRUE)
           /\ event' = Complete /\ Wake /\ OnlyNear
KewlSettled ==
    /\ Expired("AFTERKEWL") /\ Sethook(txhooksig, "ONHOOK", FALSE)
    /\ gotgs' = FALSE
    /\ event' = IF kewlonhook THEN <<"ONHOOK">> ELSE <<>>
    /\ Wake
    /\ UNCHANGED <<setup, rxhooksig, itimer, kewlonhook, pulses, ring, digits, hasty>>

PulseMade_Shown == "ONHOOK"     \* mutant: the line is not closed
PulseMade == "OFFHOOK"
PulseOn == /\ Expired("PULSEBREAK") /\ Sethook(PulseMade, "PULSEMAKE", TRUE)
           /\ event' = <<>> /\ Wake /\ OnlyNear

PulsesLeft_All == pdialcount         \* mutant: none has been sent
PulsesLeft_Below == pdialcount - 1   \* mutant: below zero after a cancel
PulsesLeft == IF pdialcount > 0 THEN pdialcount - 1 ELSE 0
AfterTimer_None == FALSE             \* mutant: otimer is not set
AfterTimer == TRUE
PulseSent ==
    /\ Expired("PULSEMAKE")
    /\ pdialcount' = PulsesLeft
    /\ IF PulsesLeft > 0 THEN Sethook("ONHOOK", "PULSEBREAK", TRUE) /\ UNCHANGED call
                         ELSE Sethook(txhooksig, "PULSEAFTER", AfterTimer) /\ Wake
    /\ event' = <<>>
    /\ UNCHANGED <<setup, far, pulses, ring, dialing, txdialbuf, hasty>>
DigitSent == /\ Expired("PULSEAFTER") /\ DoDtmf(txdialbuf, "OFFHOOK", FALSE)
             /\ Wake /\ UNCHANGED <<setup, far, pulses, ring, hasty>>

OtimerExpires ==
    \/ RingerOn \/ RingerOff \/ Started \/ WinkOn \/ WinkOff \/ FlashOn \/ FlashOff
    \/ StartSettled \/ Debounced \/ KewlOff \/ KewlSettled
    \/ PulseOn \/ PulseSent \/ DigitSent

-----------------------------------------------------------------------------
(* __dahdi_hooksig_pvt, by the kind of signalling, for a new state r of    *)
(* the far end                                                             *)

Hooksig(r) == r \in RxSigs(sig) \ {rxhooksig} /\ ~frozen /\ rxhooksig' = r
OnlyFar == UNCHANGED <<setup, near, pulses, ring, digits, call, hasty>>

(* E&M: off hook for longer than a wink is told by rbs_itimer_expire       *)
TrunkOffHook == /\ sig = "EM" /\ Hooksig("OFFHOOK")
                /\ itimer' = TRUE
                /\ event' = <<>> /\ UNCHANGED <<gotgs, kewlonhook>> /\ OnlyFar
TrunkOnHook == /\ sig = "EM" /\ Hooksig("ONHOOK")
               /\ IF itimer THEN event' = <<"WINKFLASH">> /\ UNCHANGED gotgs
                            ELSE event' = <<"ONHOOK">> /\ gotgs' = FALSE
               /\ itimer' = FALSE
               /\ UNCHANGED kewlonhook /\ OnlyFar

(* Signals of an office                                                    *)
OfficeRings == /\ sig \in Fxs /\ Hooksig("RING")
               /\ event' = IF ringdebtimer THEN <<>> ELSE <<"RINGBEGIN">>
               /\ UNCHANGED <<itimer, gotgs, kewlonhook>> /\ OnlyFar
OfficeOffHook == /\ sig \in Fxs /\ Hooksig("OFFHOOK")
                 /\ event' = <<>>
                 /\ UNCHANGED <<itimer, gotgs, kewlonhook>> /\ OnlyFar
OfficeOnHook ==
    /\ sig \in Fxs /\ Hooksig("ONHOOK")
    /\ IF sig = "FXSKS" /\ txstate # "OFFHOOK"
       THEN event' = <<>> /\ UNCHANGED <<ring, gotgs>>
       ELSE /\ ringdebtimer' = TRUE /\ ringtrailer' = FALSE
            /\ IF txstate # "DEBOUNCE" THEN event' = <<"ONHOOK">> /\ gotgs' = FALSE
                                       ELSE event' = <<>> /\ UNCHANGED gotgs
    /\ UNCHANGED <<itimer, kewlonhook>>
    /\ UNCHANGED <<setup, near, pulses, digits, call, hasty>>

(* A phone                                                                 *)
PhoneStarts == /\ sig = "FXOGS" /\ Hooksig("START")
               /\ gotgs' = TRUE
               /\ event' = IF gotgs THEN <<>> ELSE <<"RINGOFFHOOK">>
               /\ UNCHANGED <<itimer, kewlonhook>> /\ OnlyFar

Forgiven_Kewl == kewlonhook      \* mutant: back off hook does not count
Forgiven == FALSE
PhoneOffHook ==
    /\ sig \in Fxo /\ Hooksig("OFFHOOK")
    /\ IF txstate = "START" THEN Sethook("OFFHOOK", "AFTERSTART", TRUE) ELSE UNCHANGED near
    /\ kewlonhook' = Forgiven
    /\ \/ /\ itimer                                  \* too short for a pulse
          /\ event' = <<>> /\ UNCHANGED <<gotgs, pulses>>
       \/ /\ itimer /\ pulsecount < MaxPulses        \* a pulse
          /\ pulsecount' = pulsecount + 1 /\ pulsetimer' = TRUE
          /\ event' = IF pulsecount = 0 THEN <<"PULSE_START">> ELSE <<>>
          /\ UNCHANGED gotgs
       \/ /\ itimer                                  \* too long for a pulse
          /\ event' = <<"WINKFLASH">> /\ UNCHANGED <<gotgs, pulses>>
       \/ /\ ~itimer
          /\ event' = IF gotgs THEN <<>> ELSE <<"RINGOFFHOOK">>
          /\ gotgs' = TRUE /\ UNCHANGED pulses
    /\ itimer' = FALSE
    /\ UNCHANGED <<setup, ring, digits, call, hasty>>
PhoneOnHook ==
    /\ sig \in Fxo /\ Hooksig("ONHOOK")
    /\ itimer' = (itimer \/ txstate \notin {"DEBOUNCE", "KEWL", "AFTERKEWL"})
    /\ kewlonhook' = (kewlonhook \/ txstate = "KEWL")
    /\ event' = <<>> /\ UNCHANGED gotgs /\ OnlyFar

FarEnd == \/ TrunkOffHook \/ TrunkOnHook \/ OfficeRings \/ OfficeOffHook \/ OfficeOnHook
          \/ PhoneStarts \/ PhoneOffHook \/ PhoneOnHook

-----------------------------------------------------------------------------
(* The timers of dahdi_receive                                             *)

Quiet == UNCHANGED <<setup, near, digits, call, hasty>>
ItimerExpires ==                                        \* rbs_itimer_expire
    /\ itimer /\ itimer' = FALSE
    /\ IF sig \in Fxo THEN event' = <<"ONHOOK">> /\ gotgs' = FALSE
                      ELSE event' = <<"RINGOFFHOOK">> /\ UNCHANGED gotgs
    /\ UNCHANGED <<rxhooksig, kewlonhook, pulses, ring>> /\ Quiet
RingDebounced == /\ ringdebtimer /\ ringdebtimer' = FALSE
                 /\ event' = <<>> /\ UNCHANGED <<far, pulses, ringtrailer>> /\ Quiet
TrailerLoaded == /\ sig \in Fxs /\ rxhooksig = "RING" /\ ~ringtrailer /\ ringtrailer' = TRUE
                 /\ event' = <<>> /\ UNCHANGED <<far, pulses, ringdebtimer>> /\ Quiet
TrailerExpires ==
    /\ sig \in Fxs /\ rxhooksig # "RING" /\ ringtrailer /\ ringtrailer' = FALSE
    /\ event' = IF ringdebtimer THEN <<>> ELSE <<"RINGOFFHOOK">>
    /\ UNCHANGED <<far, pulses, ringdebtimer>> /\ Quiet
PulseTimeout ==
    /\ pulsetimer /\ pulsetimer' = FALSE /\ pulsecount' = 0
    /\ event' = IF pulsecount \in 1 .. 12 THEN <<"PULSEDIGIT">> ELSE <<>>
    /\ UNCHANGED <<far, ring>> /\ Quiet
RxTimers == ItimerExpires \/ RingDebounced \/ TrailerLoaded \/ TrailerExpires \/ PulseTimeout

-----------------------------------------------------------------------------
(* DAHDI_HOOK: dialling is stopped, and later the hook is set.             *)

Settling == {"DEBOUNCE", "KEWL", "AFTERKEWL"}
Hurry == hasty' = (hasty \/ (txstate \in Settling /\ txstate' \notin Settling))

BeginHook(op) == /\ opened /\ call = "none" /\ call' = op
                 /\ StopDigits /\ event' = <<>>
                 /\ UNCHANGED <<setup, near, far, pulses, ring, hasty>>
HookSet == event' = <<>> /\ Hurry /\ UNCHANGED <<setup, pulses>>
HookOnly == HookSet /\ UNCHANGED <<far, ring, digits>>

SetOnHook == /\ call = "ONHOOK" /\ call' = "none" /\ Hangup(itimer)
             /\ ringdebtimer' = (ringdebtimer \/ sig \in Fxs)
             /\ HookSet /\ UNCHANGED <<rxhooksig, itimer, gotgs, ringtrailer>>
SetOffHook == /\ call = "OFFHOOK" /\ call' = "none" /\ txstate \notin {"KEWL", "AFTERKEWL"}
              /\ Sethook("OFFHOOK", "DEBOUNCE", TRUE) /\ HookOnly
Startable_NoZone == txstate = "ONHOOK"      \* mutant: the zone is not looked at
Startable == curzone /\ txstate = "ONHOOK"  \* else -ENODATA or -EBUSY
SetStart == /\ call = "START" /\ call' = "none" /\ Startable
            /\ Sethook("START", IF sig \in Fxo THEN "RINGON" ELSE "START", TRUE) /\ HookOnly
Sleep == call' = IF nonblock THEN "none" ELSE "asleep"     \* -EINPROGRESS or schluffen
SetWink == /\ call = "WINK" /\ txstate = "ONHOOK"
           /\ Sethook("ONHOOK", "PREWINK", TRUE) /\ Sleep /\ HookOnly
SetFlash == /\ call = "FLASH" /\ txstate = "OFFHOOK"
            /\ Sethook("OFFHOOK", "PREFLASH", TRUE) /\ Sleep /\ HookOnly
SetRingOff == /\ call = "RINGOFF" /\ call' = "none"
              /\ Sethook("ONHOOK", "ONHOOK", FALSE) /\ HookOnly

Refused == \/ call = "OFFHOOK" /\ txstate \in {"KEWL", "AFTERKEWL"}
           \/ call = "START" /\ ~Startable
           \/ call = "WINK" /\ txstate # "ONHOOK"
           \/ call = "FLASH" /\ txstate # "OFFHOOK"
RefuseHook == /\ Refused /\ call' = "none" /\ event' = <<>>
              /\ UNCHANGED <<setup, near, far, pulses, ring, digits, hasty>>
Signal == /\ call = "asleep" /\ call' = "none" /\ event' = <<>>
          /\ UNCHANGED <<setup, near, far, pulses, ring, digits, hasty>>

-----------------------------------------------------------------------------

(* DAHDI_DIAL: replace or append; cancel, DAHDI_SENDTONE and write() stop  *)
Idle == opened /\ call = "none"
DialStrings == UNION {[1 .. n -> Digits] : n \in 1 .. MaxDigits}
Replace(s) == /\ Idle /\ curzone /\ DoDtmf(s, txstate, otimer)
              /\ Hurry /\ UNCHANGED <<setup, far, pulses, ring, call>>
Appended(s) ==
    /\ Idle /\ curzone /\ Len(txdialbuf \o s) <= MaxDigits
    /\ IF dialing THEN /\ txdialbuf' = txdialbuf \o s /\ event' = <<>>
                       /\ UNCHANGED <<near, dialing, pdialcount>>
                  ELSE DoDtmf(txdialbuf \o s, txstate, otimer)
    /\ Hurry /\ UNCHANGED <<setup, far, pulses, ring, call>>
StopDialing == /\ Idle /\ StopDigits /\ event' = <<>>
               /\ UNCHANGED <<setup, near, far, pulses, ring, call, hasty>>

SetSigFreeze == /\ Idle /\ frozen' = ~frozen /\ event' = <<>>
                /\ UNCHANGED <<sig, opened, curzone, nonblock, near, far, pulses, ring, digits,
                               call, hasty>>
SetToneZone == /\ Idle /\ curzone' = TRUE /\ event' = <<>>
               /\ UNCHANGED <<sig, opened, nonblock, frozen, near, far, pulses, ring, digits,
                              call, hasty>>

(* initialize_channel; there may be a default tone zone or not.            *)
Open ==
    /\ ~opened /\ opened' = TRUE /\ nonblock' \in BOOLEAN /\ curzone' \in BOOLEAN
    /\ Hangup(FALSE)
    /\ itimer' = FALSE /\ gotgs' = FALSE
    /\ ringdebtimer' = (sig \in Fxs)
    /\ event' = <<>> /\ hasty' = FALSE
    /\ UNCHANGED <<sig, frozen, rxhooksig, pulses, ringtrailer, call>>

(* close_channel                                                           *)
Close ==
    /\ Idle /\ opened' = FALSE /\ curzone' = FALSE /\ frozen' = FALSE
    /\ Hangup(itimer)
    /\ itimer' = FALSE /\ gotgs' = FALSE
    /\ pulsecount' = 0 /\ pulsetimer' = FALSE /\ ringdebtimer' = FALSE
    /\ event' = <<>> /\ hasty' = FALSE
    /\ UNCHANGED <<sig, nonblock, rxhooksig, ringtrailer, call>>

User ==
    \/ \E op \in HookOps : BeginHook(op)
    \/ SetOnHook \/ SetOffHook \/ SetStart \/ SetWink \/ SetFlash \/ SetRingOff
    \/ RefuseHook \/ Signal
    \/ \E s \in DialStrings : Replace(s) \/ Appended(s)
    \/ StopDialing \/ SetSigFreeze \/ SetToneZone \/ Open \/ Close

Next == OtimerExpires \/ FarEnd \/ RxTimers \/ User
Spec == Init /\ [][Next]_vars
(* The span's interrupt goes on for as long as the board runs.             *)
FairSpec == Spec /\ WF_vars(OtimerExpires)

-----------------------------------------------------------------------------

(* What is on the line is what the state says: no path sets one of the two *)
(* alone and leaves the line open, closed or ringing in a state that is    *)
(* not.                                                                    *)
LineFollows ==
    txhooksig = CASE txstate \in {"START", "RINGON"} -> "START"
                  [] txstate = "KEWL" -> "KEWL"
                  [] txstate \in {"ONHOOK", "PREWINK", "FLASH", "AFTERKEWL", "PULSEBREAK"} -> "ONHOOK"
                  [] OTHER -> "OFFHOOK"

(* A state that is to end has its timer running, and no timer runs in a    *)
(* state that is not.                                                      *)
TransientTimed == otimer <=> txstate \in Transient \cup Ringing

(* If dialling is under way, pulses are being sent: it cannot stand still  *)
(* and swallow what is appended.                                           *)
DialingMoves == /\ dialing => txstate \in Pulsing
                /\ pdialcount > 0 => txstate \in {"PULSEBREAK", "PULSEMAKE"}

(* A thread asleep in WINK or FLASH sleeps no longer than that lasts.      *)
WinkerWoken == call = "asleep" => txstate \in {"PREWINK", "WINK", "PREFLASH", "FLASH"}

(* The ringer, which may go back to the cadence of the tone zone, never    *)
(* runs on a channel without one.                                          *)
RingsInZone == txstate \in Ringing => curzone

(* What the line and the ringer do is what txstate allows.                 *)
LineMatchesState == LineFollows /\ RingsInZone

(* Whatever must not last has something that ends it.                      *)
NothingStalls == TransientTimed /\ DialingMoves /\ WinkerWoken

Reported(e) == \E i \in DOMAIN event' : event'[i] = e

(* A phone is not told to be on hook while it is off hook, nor the other   *)
(* way round, however late a timer makes the report.                       *)
ReportsTrue ==
    [][ /\ sig \in Fxo /\ Reported("ONHOOK") => rxhooksig' # "OFFHOOK"
        /\ sig \in Fxo /\ Reported("RINGOFFHOOK") => rxhooksig' # "ONHOOK"
      ]_vars

(* A phone that comes off hook, and not out of a flash, at a port that is  *)
(* idle or rings is told, unless a user has cut short a debounce or a      *)
(* battery drop before.                                                    *)
OffHookHeard ==
    [][ (/\ sig \in Fxo /\ rxhooksig = "ONHOOK" /\ rxhooksig' = "OFFHOOK" /\ ~itimer
         /\ txstate \in {"ONHOOK"} \cup Ringing /\ ~hasty)
        => Reported("RINGOFFHOOK") ]_vars

(* Once users leave it alone, a channel comes to rest: on hook, off hook   *)
(* or ringing.                                                             *)
Settles == []<><<User>>_vars \/ (txstate \in Transient ~> txstate \notin Transient)
=============================================================================

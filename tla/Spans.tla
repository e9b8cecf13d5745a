------------------------------- MODULE Spans -------------------------------
(***************************************************************************)
(* The spans drivers register, their alarms, and which of them is the      *)
(* master, the one span whose dahdi_receive makes process_masterspan mix   *)
(* conferences and run the timers.                                         *)
(*                                                                         *)
(* Drivers register and unregister, users start, stop and loop spans, and  *)
(* interrupts report alarms.  dahdi_unregister holds no lock ("FIXME:      *)
(* locking"): what it reads of the table and what it writes at its end are *)
(* steps of their own, between which interrupts of other spans report.     *)
(* Bound: no two spans are unregistered, or registered and unregistered,   *)
(* at the same time.                                                       *)
(***************************************************************************)
EXTENDS Integers, FiniteSets

CONSTANTS
    Spans,
    NoSpan,
    MAX_SPANS      \* DAHDI_MAX_SPANS; numbers are 1 .. MAX_SPANS - 1

ASSUME SpanAssumption == /\ IsFiniteSet(Spans) /\ NoSpan \notin Spans
                         /\ MAX_SPANS \in Nat /\ MAX_SPANS >= 2

VARIABLES
    spans,         \* the span of each number, or NoSpan
    maxspans,
    master,
    running,       \* the spans with DAHDI_FLAG_RUNNING
    alarms,        \* of each span: "line" alarms, DAHDI_ALARM_LOOPBACK
    lastalarms,    \* is lastalarms not zero?
    maint,         \* maintstat and mainttimer: "none", "loop", "timed"
    waiting,       \* spans with a MAINT ioctl asleep on maintq
    unplug         \* a dahdi_unregister under way
span_vars == <<spans, maxspans, master, running, alarms, lastalarms, maint, waiting, unplug>>

Numbers == 1 .. MAX_SPANS - 1
Alarms  == {"line", "loopback"}
NoUnplug == [at |-> "idle", span |-> NoSpan, new |-> NoSpan, max |-> 0]

SpanTypeOK ==
    /\ spans \in [Numbers -> Spans \cup {NoSpan}]
    /\ maxspans \in 0 .. MAX_SPANS
    /\ master \in Spans \cup {NoSpan}
    /\ running \in SUBSET Spans
    /\ alarms \in [Spans -> SUBSET Alarms]
    /\ lastalarms \in [Spans -> BOOLEAN]
    /\ maint \in [Spans -> {"none", "loop", "timed"}]
    /\ waiting \in SUBSET Spans
    /\ unplug \in [at   : {"idle", "choose", "commit"}, span : Spans \cup {NoSpan},
                   new  : Spans \cup {NoSpan},          max  : 0 .. MAX_SPANS]

Listed == {n \in Numbers : spans[n] # NoSpan}
Registered == {spans[n] : n \in Listed}

SpanInit ==
    /\ spans = [n \in Numbers |-> NoSpan]
    /\ maxspans = 0
    /\ master  = NoSpan
    /\ running = {}
    /\ alarms  = [s \in Spans |-> {}]
    /\ lastalarms = [s \in Spans |-> FALSE]
    /\ maint   = [s \in Spans |-> "none"]
    /\ waiting = {}
    /\ unplug  = NoUnplug

-----------------------------------------------------------------------------

(* dahdi_register of a span whose structure the driver has zeroed          *)
Register(s, prefmaster) ==
    LET free == {n \in Numbers : spans[n] = NoSpan}
        x    == CHOOSE n \in free : \A k \in free : n <= k
    IN  /\ s \notin Registered /\ unplug = NoUnplug
        /\ free # {}                                     \* else -EBUSY
        /\ spans' = [spans EXCEPT ![x] = s]
        /\ maxspans' = IF maxspans < x + 1 THEN x + 1 ELSE maxspans
        /\ master' = IF master = NoSpan \/ prefmaster THEN s ELSE master
        /\ running' = running \ {s}
        /\ alarms' = [alarms EXCEPT ![s] = {}]
        /\ lastalarms' = [lastalarms EXCEPT ![s] = FALSE]
        /\ maint'  = [maint EXCEPT ![s] = "none"]
        /\ UNCHANGED <<waiting, unplug>>

(* dahdi_unregister: out of the table with its channels, then the new      *)
(* values are chosen, then they are written.                               *)
Unregister(s) ==
    /\ s \in Registered /\ unplug = NoUnplug /\ s \notin waiting
    /\ spans' = [n \in Numbers |-> IF spans[n] = s THEN NoSpan ELSE spans[n]]
    /\ unplug' = [NoUnplug EXCEPT !.at = "choose", !.span = s]
    /\ UNCHANGED <<maxspans, master, running, alarms, lastalarms, maint, waiting>>

Highest_Last(S) ==          \* mutant: new_maxspans = x
    IF S = {} THEN 0 ELSE CHOOSE n \in S : \A k \in S : k <= n
Highest_TooHigh(S) ==       \* mutant: one more
    IF S = {} THEN 0 ELSE 2 + CHOOSE n \in S : \A k \in S : k <= n
Highest(S) == IF S = {} THEN 0 ELSE 1 + CHOOSE n \in S : \A k \in S : k <= n

Successor_Stale(s) == master    \* mutant: the span that goes is not looked for
Successor(s) ==
    IF master # s THEN master
    ELSE IF Listed = {} THEN NoSpan
    ELSE spans[CHOOSE n \in Listed : \A k \in Listed : n <= k]
ChooseMaster ==
    /\ unplug.at = "choose"
    /\ unplug' = [unplug EXCEPT !.at = "commit", !.new = Successor(unplug.span),
                                !.max = Highest(Listed)]
    /\ UNCHANGED <<spans, maxspans, master, running, alarms, lastalarms, maint, waiting>>
CommitMaster ==
    /\ unplug.at = "commit"
    /\ maxspans' = unplug.max
    /\ master'   = unplug.new
    /\ unplug'   = NoUnplug
    /\ UNCHANGED <<spans, running, alarms, lastalarms, maint, waiting>>

(* DAHDI_STARTUP, whose result is 0 even if the driver's startup fails,    *)
(* and DAHDI_SHUTDOWN                                                      *)
Startup(s) ==
    /\ s \in Registered \ running
    /\ running' = running \cup {s}
    /\ UNCHANGED <<spans, maxspans, master, alarms, lastalarms, maint, waiting, unplug>>
Shutdown(s) ==
    /\ s \in Registered \cap running
    /\ running' = running \ {s}
    /\ UNCHANGED <<spans, maxspans, master, alarms, lastalarms, maint, waiting, unplug>>

(* dahdi_alarm_notify(s), where the driver has put down alarms as and the  *)
(* maintenance state is m.                                                 *)
Looped(as, m) == (as \ {"loopback"}) \cup (IF m = "none" THEN {} ELSE {"loopback"})
Healthy(s, al) == al[s] = {} /\ s \in running
Notify(s, as, m) ==
    LET al   == [alarms EXCEPT ![s] = Looped(as, m)]
        fit  == {n \in Listed : n < maxspans /\ Healthy(spans[n], al)}
    IN  /\ alarms' = al
        /\ IF (al[s] = {}) # ~lastalarms[s]
           THEN /\ lastalarms' = [lastalarms EXCEPT ![s] = al[s] # {}]
                /\ master' = IF fit = {} THEN master
                             ELSE spans[CHOOSE n \in fit : \A k \in fit : n <= k]
           ELSE UNCHANGED <<lastalarms, master>>

(* An interrupt finds the line in alarm or out of it.                      *)
ReportAlarm(s) ==
    /\ s \in Registered
    /\ \E line \in {{}, {"line"}} : Notify(s, (alarms[s] \ {"line"}) \cup line, maint[s])
    /\ UNCHANGED <<spans, maxspans, running, maint, waiting, unplug>>

(* DAHDI_MAINT.  The new maintstat stays when the driver fails.            *)
Maint(s, m) ==
    /\ s \in Registered \ waiting
    /\ maint' = [maint EXCEPT ![s] = IF maint[s] = "timed" THEN "timed" ELSE m]
    /\ \/ Notify(s, alarms[s], maint'[s])
       \/ m # maint[s] /\ UNCHANGED <<alarms, lastalarms, master>>
    /\ UNCHANGED <<spans, maxspans, running, waiting, unplug>>

(* DAHDI_MAINT_LOOPUP and LOOPDOWN sleep until dahdi_transmit has counted  *)
(* mainttimer down, then notify; a signal ends the call at once.           *)
MaintTimed(s) ==
    /\ s \in Registered \ waiting
    /\ maint' = [maint EXCEPT ![s] = "timed"]
    /\ waiting' \in {waiting, waiting \cup {s}}
    /\ UNCHANGED <<spans, maxspans, master, running, alarms, lastalarms, unplug>>
MaintExpires(s) ==
    /\ maint[s] = "timed"
    /\ maint' = [maint EXCEPT ![s] = "none"]
    /\ UNCHANGED <<spans, maxspans, master, running, alarms, lastalarms, waiting, unplug>>
MaintReturns(s) ==
    /\ s \in waiting
    /\ waiting' = waiting \ {s}
    /\ \/ maint[s] # "timed" /\ Notify(s, alarms[s], maint[s])
       \/ UNCHANGED <<alarms, lastalarms, master>>
    /\ UNCHANGED <<spans, maxspans, running, maint, unplug>>

=============================================================================

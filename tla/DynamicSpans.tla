---------------------------- MODULE DynamicSpans ----------------------------
(***************************************************************************)
(* Dynamic spans: spans whose frames travel in packets over a network.     *)
(* One of those that may give the timing is the master, and its packets    *)
(* make all the spans run; while there is none they run with the rotation  *)
(* of DAHDI's own master span, the clock.  A span that has heard nothing   *)
(* for a second is in red alarm and cannot be the master.                  *)
(*                                                                         *)
(* The list of spans is guarded by dlock, which __ztdynamic_run gives up   *)
(* while it sends; dahdi_dynamic_receive writes alarms and rxjif without   *)
(* it.  A step is a critical section, or what lies between two.  The scan  *)
(* for red alarms is one step: the receiver only clears what it raises.    *)
(*                                                                         *)
(* Abstractions: silent tells of rxjif what check_for_red_alarm asks of    *)
(* it, is it a second old?  The check runs once a second.  Of the alarms   *)
(* only red is kept; the yellow one matters in that its change calls       *)
(* checkmaster.  Packets with a bad header, which only change err, are     *)
(* left out, and so is usecount, so that destroy may come at any time.     *)
(* The next pointer of a span that was freed keeps its value: its memory   *)
(* is not used again, since each span is created once (bound), and its     *)
(* alarm is forgotten.  The clock is external.  Not modelled:              *)
(* dahdi_dynamic_unregister, which finds no span of the driver, as each    *)
(* holds a reference to its module.                                        *)
(***************************************************************************)
EXTENDS Integers, Sequences, FiniteSets, SequencesExt

CONSTANTS
    Spans,
    Timing,      \* of each span: 0 if it gives no timing, the best is 1
    None

ASSUME DynAssumption ==
    /\ IsFiniteSet(Spans) /\ None \notin Spans
    /\ Timing \in [Spans -> Nat]

VARIABLES
    dspans, after,        \* the list; next of the spans that left it
    status,               \* how far a span is created or destroyed
    red, silent,          \* spans in red alarm; not heard since the last check
    master, hasmaster,
    rx, wasmaster,        \* the receiver of a span, and what it read
    run, cur, pending,    \* the tasklet, the span it is at, taskletpending
    timer                 \* check_for_red_alarm

list   == <<dspans, after, status>>
elect  == <<master, hasmaster>>
recv   == <<rx, wasmaster>>
runner == <<run, cur, pending>>
vars   == <<list, red, silent, elect, recv, runner, timer>>

Init ==
    /\ dspans = <<>> /\ after = [z \in Spans |-> None]
    /\ status = [z \in Spans |-> "new"]
    /\ red = {} /\ silent = Spans
    /\ master = [z \in Spans |-> FALSE] /\ hasmaster = FALSE
    /\ rx = [z \in Spans |-> "idle"] /\ wasmaster = [z \in Spans |-> FALSE]
    /\ run = "idle" /\ cur = None /\ pending = FALSE
    /\ timer = "idle"

Listed == ToSet(dspans)

First == IF dspans = <<>> THEN None ELSE Head(dspans)
Place(z) == CHOOSE i \in DOMAIN dspans : dspans[i] = z
Following(z) ==
    IF z \notin Listed THEN after[z]
    ELSE IF Place(z) = Len(dspans) THEN None ELSE dspans[Place(z) + 1]

(***************************************************************************)
(* checkmaster: the best source that is not in red alarm, the first of     *)
(* equals.                                                                 *)
(***************************************************************************)
Eligible == {i \in DOMAIN dspans : Timing[dspans[i]] > 0 /\ dspans[i] \notin red}

Better(i, j) ==
    \/ Timing[dspans[i]] < Timing[dspans[j]]
    \/ Timing[dspans[i]] = Timing[dspans[j]] /\ i <= j
Best == dspans[CHOOSE i \in Eligible : \A j \in Eligible : Better(i, j)]

Demoted_Not(z) == FALSE              \* mutant: the old master is not reset
Demoted(z) == z \in Listed /\ Timing[z] > 0

CheckMaster ==
    /\ hasmaster' = (Eligible # {})
    /\ master' = [z \in Spans |-> \/ Eligible # {} /\ z = Best
                                  \/ master[z] /\ ~Demoted(z)]

(***************************************************************************)
(* create_dynamic and destroy_dynamic.                                     *)
(***************************************************************************)
Become(z, s) == status' = [status EXCEPT ![z] = s]

\* create_dynamic: the driver knows the span, and DAHDI, before it is listed.
Link(z) ==
    /\ status[z] = "new"
    /\ dspans' = <<z>> \o dspans
    /\ Become(z, "linked")
    /\ UNCHANGED <<after, red, silent, elect, recv, runner, timer>>

CheckCreated(z) ==
    /\ status[z] = "linked"
    /\ CheckMaster
    /\ Become(z, "listed")
    /\ UNCHANGED <<dspans, after, red, silent, recv, runner, timer>>

Without_Kept(z) == dspans            \* mutant: freed, but still on the list
Without(z) == RemoveAt(dspans, Place(z))

Unlink(z) ==
    /\ status[z] = "listed"
    /\ dspans' = Without(z)
    /\ after' = [after EXCEPT ![z] = Following(z)]
    /\ Become(z, "unlinked")
    /\ UNCHANGED <<red, silent, elect, recv, runner, timer>>

\* dynamic_destroy: the span ends in DAHDI and in the driver, and is freed.
CheckFreed(z) ==
    /\ status[z] = "unlinked"
    /\ CheckMaster
    /\ Become(z, "gone")
    /\ red' = red \ {z} /\ silent' = silent \cup {z}
    /\ UNCHANGED <<dspans, after, recv, runner, timer>>

(***************************************************************************)
(* dahdi_dynamic_receive.  The driver knows the span from its creation to  *)
(* its end there.                                                          *)
(***************************************************************************)
Packet(z) ==
    /\ rx[z] = "idle"
    /\ status[z] # "gone"
    /\ wasmaster' = [wasmaster EXCEPT ![z] = master[z]]
    /\ rx' = [rx EXCEPT ![z] = "alarm"]
    /\ UNCHANGED <<list, red, silent, elect, runner, timer>>

ReceiveAlarm(z) ==
    /\ rx[z] = "alarm"
    /\ red' = red \ {z}
    /\ \E yellowchanged \in BOOLEAN :
          rx' = [rx EXCEPT ![z] = IF z \in red \/ yellowchanged THEN "check" ELSE "stamp"]
    /\ UNCHANGED <<list, silent, elect, wasmaster, runner, timer>>

CheckReceived(z) ==
    /\ rx[z] = "check"
    /\ CheckMaster
    /\ rx' = [rx EXCEPT ![z] = "stamp"]
    /\ UNCHANGED <<list, red, silent, wasmaster, runner, timer>>

\* Then the master makes everything run (ztdynamic_run).
Stamp(z) ==
    /\ rx[z] = "stamp"
    /\ silent' = silent \ {z}
    /\ pending' = (pending \/ wasmaster[z])
    /\ wasmaster' = [wasmaster EXCEPT ![z] = FALSE]     \* a local, gone
    /\ rx' = [rx EXCEPT ![z] = "idle"]
    /\ UNCHANGED <<list, red, elect, run, cur, timer>>

\* The rotation calls ztdynamic_ioctl(0).
Tick ==
    /\ ~hasmaster /\ ~pending
    /\ pending' = TRUE
    /\ UNCHANGED <<list, red, silent, elect, recv, run, cur, timer>>

(***************************************************************************)
(* The tasklet, __ztdynamic_run.  It sends the message of cur without a    *)
(* lock and follows its next pointer afterwards.                           *)
(***************************************************************************)
StartRun ==
    /\ pending /\ run = "idle"
    /\ cur' = First
    /\ run' = "send"
    /\ UNCHANGED <<list, red, silent, elect, recv, pending, timer>>

SendMessage ==
    /\ run = "send" /\ cur # None
    /\ cur' = Following(cur)
    /\ UNCHANGED <<list, red, silent, elect, recv, run, pending, timer>>

EndRun ==
    /\ run = "send" /\ cur = None
    /\ run' = "idle" /\ pending' = FALSE
    /\ UNCHANGED <<list, red, silent, elect, recv, cur, timer>>

(***************************************************************************)
(* check_for_red_alarm, once a second: the scan of the list with dlock,    *)
(* then checkmaster if an alarm was raised, then the timer is armed again. *)
(***************************************************************************)
Raised == (Listed \cap silent) \ red

Recheck_Never == FALSE               \* mutant: an alarm elects no new master
Recheck == Raised # {}

Again_Off == "off"                   \* mutant: the timer is not armed again
Again == "idle"

RaiseAlarms ==
    /\ timer = "idle"
    /\ red' = red \cup Raised
    /\ silent' = Spans
    /\ timer' = IF Recheck THEN "check" ELSE Again
    /\ UNCHANGED <<list, elect, recv, runner>>

CheckRaised ==
    /\ timer = "check"
    /\ CheckMaster
    /\ timer' = Again
    /\ UNCHANGED <<list, red, silent, recv, runner>>

Receive(z) == ReceiveAlarm(z) \/ CheckReceived(z) \/ Stamp(z)
Configure(z) == Link(z) \/ CheckCreated(z) \/ CheckFreed(z)
Run == StartRun \/ SendMessage \/ EndRun
CheckForRedAlarm == RaiseAlarms \/ CheckRaised

Next ==
    \/ \E z \in Spans : Unlink(z) \/ Packet(z) \/ Receive(z) \/ Configure(z)
    \/ Tick \/ Run \/ CheckForRedAlarm

Spec == Init /\ [][Next]_vars

\* Some thread goes on, the clock and the timer run.  SF for the clock: it ticks
\* a thousand times while a master comes or goes.  Nobody has to send a packet.
FairSpec ==
    /\ Spec
    /\ WF_vars(\E z \in Spans : Receive(z) \/ Configure(z))
    /\ WF_vars(Run) /\ WF_vars(CheckForRedAlarm)
    /\ SF_vars(Tick)
-----------------------------------------------------------------------------
\* The list holds exactly the spans that were linked and not unlinked, once each.
DynTypeOK ==
    /\ dspans \in Seq(Spans) /\ IsInjective(dspans)
    /\ Listed = {z \in Spans : status[z] \in {"linked", "listed"}}
    /\ after \in [Spans -> Spans \cup {None}] /\ cur \in Spans \cup {None}
    /\ red \subseteq Spans /\ silent \subseteq Spans
    /\ master \in [Spans -> BOOLEAN] /\ wasmaster \in [Spans -> BOOLEAN]
    /\ {hasmaster, pending} \subseteq BOOLEAN

\* Somebody changed the alarms or the list and has yet to call checkmaster.
CheckDue ==
    \/ timer = "check"
    \/ \E z \in Spans : rx[z] = "check" \/ status[z] \in {"linked", "unlinked"}

\* There is never more than one master on the list.  When all those who changed an
\* alarm or the list have called checkmaster, in whatever order, the master is the
\* best span that is not in red alarm, and hasmaster tells whether there is one.
MasterElected ==
    LET masters == {z \in Listed : master[z]} IN
    /\ Cardinality(masters) <= 1
    /\ ~CheckDue => /\ hasmaster <=> Eligible # {}
                    /\ masters = IF Eligible = {} THEN {} ELSE {Best}

\* When the network has fallen silent, whoever was the master then, a span that
\* stays is served again and again: the clock takes over, while other spans come
\* and go around the tasklet.
SpansServed ==
    \A z \in Spans :
        <>[](silent = Spans /\ status[z] = "listed") => []<>(cur = z)
=============================================================================

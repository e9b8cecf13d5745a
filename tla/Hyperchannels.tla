--------------------------- MODULE Hyperchannels ---------------------------
(***************************************************************************)
(* Channels of the spans of module Spans and how DAHDI_CHANCONFIG ties     *)
(* several of them into one: a slave's master pointer names the channel    *)
(* that speaks for it, and from there the nextslave indices make a list    *)
(* within the span that dahdi_receive and dahdi_transmit follow for every  *)
(* byte.                                                                   *)
(*                                                                         *)
(* CHANCONFIG holds the lock of the channel it configures, but relinks the *)
(* list of other channels while interrupts follow it under the master's    *)
(* lock: every assignment to a list is a step.  The ioctls of              *)
(* /dev/dahdi/ctl run under the big kernel lock, one at a time.            *)
(*                                                                         *)
(* Bounds: no span is unregistered during a CHANCONFIG, and in a behaviour *)
(* either spans report and are looped or channels are configured: the two  *)
(* kinds of steps share no state but the table of spans.                   *)
(***************************************************************************)
EXTENDS Spans

CONSTANTS
    Size,      \* number of channels of each span
    Busy       \* bound: what happens in a behaviour: spans "report", users
               \* "configure", or what ChannelFiles adds, "zones" and "echo"

ASSUME SizeAssumption == /\ Size \in [Spans -> Nat]
                         /\ Busy \subseteq {"report", "configure", "zones", "echo"}

Channels == {c \in Spans \X UNION {1 .. Size[s] : s \in Spans} : c[2] <= Size[c[1]]}
SpanOf(c)  == c[1]
chanpos(c) == c[2]

VARIABLES
    chmaster,      \* the master pointer of each channel
    nextslave,     \* index in span->chans, from 0; 0 ends the list
    config,        \* the CHANCONFIG under way
    busy,          \* auxiliary: the element of Busy of this behaviour
    plain          \* auxiliary: slaves were only tied to channels before
                   \* them in their span, and no slave has slaves
hyper_vars == <<chmaster, nextslave, config, busy, plain>>
vars == <<span_vars, hyper_vars>>

ChanAt(s, x) == <<s, x + 1>>       \* span->chans[x]
Present(c)   == SpanOf(c) \in Registered

NoChan == <<NoSpan, 0>>
NoConfig == [at |-> "idle", chan |-> NoChan, new |-> NoChan, ok |-> TRUE,
             head |-> NoChan, x |-> 0, last |-> NoChan]

(* Every pointer leads to a channel and every index into its span; a list  *)
(* being relinked only grows behind the channel it has come to.            *)
HyperTypeOK ==
    /\ SpanTypeOK
    /\ chmaster \in [Channels -> Channels]
    /\ nextslave \in [Channels -> Nat]
    /\ \A c \in Channels : nextslave[c] # 0 => nextslave[c] < Size[SpanOf(c)]
    /\ plain \in BOOLEAN /\ busy \in Busy
    /\ config \in [at : {"idle", "detach", "unlink", "attach", "link"},
                   chan : Channels \cup {NoChan}, new : Channels \cup {NoChan}, ok : BOOLEAN,
                   head : Channels \cup {NoChan}, x : Nat, last : Channels \cup {NoChan}]
    /\ config.at # "idle" => config.chan \in Channels /\ config.new \in Channels
    /\ config.at \in {"unlink", "link"} =>
           /\ config.head \in Channels /\ config.last \in Channels
           /\ SpanOf(config.last) = SpanOf(config.head)
           /\ config.x \in chanpos(config.last) .. Size[SpanOf(config.head)]

HyperInit ==
    /\ SpanInit
    /\ chmaster  = [c \in Channels |-> c]
    /\ nextslave = [c \in Channels |-> 0]
    /\ config = NoConfig
    /\ plain  = TRUE /\ busy \in Busy

-----------------------------------------------------------------------------

(* dahdi_chan_reg and dahdi_chan_unreg of all channels of a span           *)
RegisterSpan(s) ==
    /\ config = NoConfig
    /\ \E prefmaster \in BOOLEAN : Register(s, prefmaster)
    /\ chmaster'  = [c \in Channels |-> IF SpanOf(c) = s THEN c ELSE chmaster[c]]
    /\ nextslave' = [c \in Channels |-> IF SpanOf(c) = s THEN 0 ELSE nextslave[c]]
    /\ UNCHANGED <<config, busy, plain>>

Orphan_Kept(c, s) == SpanOf(c) = s          \* mutant: only its own channels
Orphan(c, s) == SpanOf(chmaster[c]) = s
UnregisterSpan(s) ==
    /\ config = NoConfig
    /\ Unregister(s)
    /\ chmaster' = [c \in Channels |-> IF Orphan(c, s) THEN c ELSE chmaster[c]]
    /\ UNCHANGED <<nextslave, config, busy, plain>>

(* DAHDI_CHANCONFIG of channel c, as a slave of m or, for m = c, on its    *)
(* own; ok says whether the channel is capable of the signalling.          *)
Plain(c, m) == \/ c = m
               \/ /\ SpanOf(m) = SpanOf(c) /\ chanpos(m) < chanpos(c)
                  /\ chmaster[m] = m
                  /\ \A d \in Channels : chmaster[d] = c => d = c
ChanConfig(c, m, ok) ==
    /\ busy = "configure"
    /\ config = NoConfig /\ Present(c) /\ Present(m)
    /\ config' = [NoConfig EXCEPT !.at = "detach", !.chan = c, !.new = m, !.ok = ok]
    /\ plain' = (plain /\ Plain(c, m))
    /\ UNCHANGED <<span_vars, chmaster, nextslave, busy>>

(* recalc_slaves(head): to begin with, the loop has come to the channel    *)
(* after head, which is also the last of the list so far.                  *)
First_FromStart(head) == 0           \* mutant: looks at all channels
First(head) == chanpos(head)
Recalc(at, head) == [config EXCEPT !.at = at, !.head = head, !.x = First(head), !.last = head]

Detach ==
    LET c == config.chan
    IN  /\ config.at = "detach"
        /\ IF chmaster[c] = c
           THEN /\ config' = [config EXCEPT !.at = "attach"]
                /\ UNCHANGED <<chmaster, nextslave>>
           ELSE /\ config' = Recalc("unlink", chmaster[c])
                /\ chmaster'  = [chmaster EXCEPT ![c] = c]
                /\ nextslave' = [nextslave EXCEPT ![c] = 0]
        /\ UNCHANGED <<span_vars, busy, plain>>

Ended_Never(last) == nextslave         \* mutant: the list is not terminated
Ended(last) == [nextslave EXCEPT ![last] = 0]
Finished == IF config.at = "unlink" THEN [config EXCEPT !.at = "attach"] ELSE NoConfig

IsNext_Any(d) == chmaster[d] # d     \* mutant: anybody's slave
IsNext(d) == chmaster[d] = config.head

Relink ==
    LET s == SpanOf(config.head)
        d == ChanAt(s, config.x)
    IN  /\ config.at \in {"unlink", "link"}
        /\ IF config.x < Size[s]
           THEN IF IsNext(d)
                THEN /\ nextslave' = [nextslave EXCEPT ![config.last] = config.x]
                     /\ config' = [config EXCEPT !.x = config.x + 1, !.last = d]
                ELSE /\ config' = [config EXCEPT !.x = config.x + 1]
                     /\ UNCHANGED nextslave
           ELSE /\ nextslave' = Ended(config.last)
                /\ config' = Finished
        /\ UNCHANGED <<span_vars, chmaster, busy, plain>>

Attach ==
    LET c == config.chan
    IN  /\ config.at = "attach"
        /\ IF config.ok
           THEN /\ chmaster' = [chmaster EXCEPT ![c] = config.new]
                /\ config' = IF config.new # c THEN Recalc("link", config.new) ELSE NoConfig
           ELSE config' = NoConfig /\ UNCHANGED chmaster
        /\ UNCHANGED <<span_vars, nextslave, busy, plain>>

SpanStep ==
    /\ busy = "report"
    /\ \E s \in Spans :
           \/ Startup(s) \/ Shutdown(s) \/ ReportAlarm(s)
           \/ (\E m \in {"none", "loop"} : Maint(s, m))
           \/ MaintTimed(s) \/ MaintExpires(s) \/ MaintReturns(s)
    /\ UNCHANGED hyper_vars
UnplugStep == (ChooseMaster \/ CommitMaster) /\ UNCHANGED hyper_vars
Configure == \E c, m \in Channels, ok \in BOOLEAN : ChanConfig(c, m, ok)

HyperNext ==
    \/ \E s \in Spans : RegisterSpan(s) \/ UnregisterSpan(s)
    \/ SpanStep \/ UnplugStep
    \/ Configure \/ Detach \/ Relink \/ Attach
Spec == HyperInit /\ [][HyperNext]_vars

-----------------------------------------------------------------------------

(* There is a master exactly while there is a span, it is one of them, and *)
(* maxspans covers all of them, whatever interrupts report while a span is *)
(* taken out.                                                              *)
MasterRegistered ==
    unplug = NoUnplug =>
        /\ master \in Registered \/ (master = NoSpan /\ Registered = {})
        /\ \A n \in Listed : n < maxspans

(* After the general alarm state of any span has changed the master is     *)
(* running without alarm if any registered span is.                        *)
HealthyMaster ==
    [][ lastalarms' # lastalarms /\ spans' = spans =>
          ((\E s \in Registered : Healthy(s, alarms')) => Healthy(master', alarms')) ]_vars

(* A list leads away from its head, in the order of the channels: an       *)
(* interrupt that follows it comes to an end, at any moment of a           *)
(* CHANCONFIG.                                                             *)
ChainsEnd == \A c \in Channels : nextslave[c] # 0 => nextslave[c] >= chanpos(c)

(* The channels an interrupt serves when it follows the list of head.      *)
Served(head) ==
    LET reach[k \in 0 .. Size[SpanOf(head)]] ==
            IF k = 0 THEN {head}
            ELSE reach[k - 1] \cup {ChanAt(SpanOf(head), nextslave[c]) :
                                       c \in {d \in reach[k - 1] : nextslave[d] # 0}}
    IN  reach[Size[SpanOf(head)]]
Heads == {c \in Channels : Present(c) /\ chmaster[c] = c}

(* No channel's chunk is taken twice, whatever users configure.            *)
NotServedTwice ==
    config = NoConfig => \A a, b \in Heads : a # b => Served(a) \cap Served(b) = {}

(* As long as slaves are tied to earlier channels that are no slaves, the  *)
(* list of a master holds its slaves, no more and no less, also after      *)
(* configurations that failed.                                             *)
ChainIsSlaves ==
    config = NoConfig /\ plain =>
        \A a \in Heads : Served(a) = {c \in Channels : chmaster[c] = a}

(* "Remove anyone pointing to us as master": no registered channel points  *)
(* to one that is gone.                                                    *)
MastersPresent == \A c \in Channels : Present(c) => Present(chmaster[c])

(* Neither the spans' timing nor a channel's data ever hangs on a span     *)
(* that is gone.                                                           *)
NoDeadMaster == MasterRegistered /\ MastersPresent

(* The lists tell which channels a master moves, each exactly once.        *)
SlaveLists == NotServedTwice /\ ChainIsSlaves
=============================================================================

---------------------------- MODULE Conferences ----------------------------
(***************************************************************************)
(* Which channel is in which conference (confna, confmode and _confn of    *)
(* struct dahdi_chan) and the accumulator each conference sums its samples *)
(* in (confalias, confrev and maxconfs of dahdi-base.c).  A conference     *)
(* number is taken from 1..DAHDI_MAX_CONF; its "alias", the index of its   *)
(* accumulator, is the lowest one free and is given back with the last     *)
(* member.                                                                 *)
(*                                                                         *)
(* DAHDI_SETCONF works under bigzaplock, so it is one step.  close_channel *)
(* and initialize_channel call dahdi_check_conf under chan->lock of their  *)
(* own channel only, and dahdi_chan_unreg calls it under chan_lock: the    *)
(* moment they have found nobody in the conference and the moment they     *)
(* clear it are two steps.  dahdi_check_conf looks at the channels below   *)
(* maxchans, which dahdi_chan_unreg sets to 0 and counts up again while    *)
(* others call it.                                                         *)
(*                                                                         *)
(* Channel numbers and conference numbers are both small integers, as in   *)
(* the code: the monitor modes keep a channel number in confna.            *)
(***************************************************************************)
EXTENDS Integers, FiniteSets

CONSTANTS
    MaxConf,         \* DAHDI_MAX_CONF
    Reals,           \* the channels of spans
    Pseudos,         \* the numbers pseudo channels can get
    Numbers,         \* the conference numbers users give
    ConfModes,       \* the confmodes users ask for
    InitiallyOpen    \* the channels that are open to begin with

Channels == Reals \cup Pseudos
Confs    == 1 .. MaxConf
Aliases  == 1 .. MaxConf - 1
Kinds    == {"monitor", "conf", "confann", "realandpseudo"}

(* confmode: the mode and its flags, DAHDI_CONF_TALKER, _LISTENER,         *)
(* _PSEUDO_TALKER and _PSEUDO_LISTENER.                                    *)
Mode(k, flags) == [kind |-> k, flags |-> flags]
Flags  == {"talk", "listen", "ptalk", "plisten"}
Normal == Mode("normal", {})
Idle   == [op |-> "none", conf |-> 0]

ASSUME MaxConfAssumption  == MaxConf \in Nat /\ MaxConf >= 2
ASSUME ChannelAssumption  == /\ Channels \subseteq 1 .. MaxConf    \* DAHDI_MAX_CHANNELS
                             /\ Reals \cap Pseudos = {}
                             /\ InitiallyOpen \subseteq Channels
ASSUME NumberAssumption   == Numbers \subseteq Confs
ASSUME ConfModeAssumption == ConfModes \subseteq {Mode(k, f) : k \in Kinds, f \in SUBSET Flags}

VARIABLES
    registered,    \* channels that stand in chans[]
    maxchans,      \* one more than the highest of them, except in dahdi_chan_unreg
    open,          \* channels with DAHDI_FLAGBIT_OPEN
    confna,
    confmode,
    _confn,
    confalias,     \* alias of each conference, or 0
    confrev,       \* conference of each alias, or 0
    maxconfs,
    pending,       \* what open or release a channel is in, and the conference
                   \* its dahdi_check_conf is about to clear, or 0
    torn           \* auxiliary: see Record
conf_vars == <<registered, maxchans, open, confna, confmode, _confn, confalias, confrev, maxconfs,
               pending, torn>>

(* Every index stays within its table: no conference, alias or channel     *)
(* number goes out of range and only registered channels are open.         *)
TypeOK ==
    /\ registered \in SUBSET Channels /\ open \in SUBSET registered
    /\ confna   \in [Channels -> 0 .. MaxConf]
    /\ confmode \in [Channels -> ConfModes \cup {Normal}]
    /\ _confn   \in [Channels -> 0 .. MaxConf - 1]
    /\ confalias \in [Confs -> 0 .. MaxConf - 1]
    /\ confrev   \in [Aliases -> 0 .. MaxConf]
    /\ maxconfs  \in 0 .. MaxConf
    /\ pending \in [Channels -> [op : {"none", "open", "close", "unreg"}, conf : 0 .. MaxConf]]
    /\ maxchans \in 0 .. MaxConf + 1 /\ torn \in SUBSET Confs

-----------------------------------------------------------------------------

IsConference(mode) == mode.kind \in {"conf", "confann", "realandpseudo"}

(* The channels dahdi_check_conf counts as being in conference x, if it    *)
(* comes to look at them.                                                  *)
MembersOf_ConfOnly(x, chans, na, mode) ==    \* mutant: forgets a mode
    {c \in chans : na[c] = x /\ mode[c].kind = "conf"}
MembersOf(x, chans, na, mode) == {c \in chans : na[c] = x /\ IsConference(mode[c])}
Members(x) == MembersOf(x, registered, confna, confmode)
Below(n, chans) == {c \in chans : c < n}

(* The alias tables, as one value while a call works on them.              *)
Tables == [alias |-> confalias, rev |-> confrev]

recalc_maxconfs_TooHigh(rev) ==    \* mutant: one too many
    LET used == {a \in Aliases : rev[a] # 0}
    IN  IF used = {} THEN 0 ELSE (CHOOSE a \in used : \A b \in used : b <= a) + 2
recalc_maxconfs(rev) ==
    LET used == {a \in Aliases : rev[a] # 0}
    IN  IF used = {} THEN 0 ELSE (CHOOSE a \in used : \A b \in used : b <= a) + 1

Empty_KeepsReverse(t, x) ==        \* mutant: only forward
    [alias |-> [t.alias EXCEPT ![x] = 0], rev |-> t.rev]
Empty(t, x) == [alias |-> [t.alias EXCEPT ![x] = 0],
                rev   |-> [a \in Aliases |-> IF a = t.alias[x] THEN 0 ELSE t.rev[a]]]

(* dahdi_check_conf(x), where members are those of x it sees               *)
CheckConf_Never(t, x, members) == t    \* mutant: a dropped call
CheckConf(t, x, members) ==
    IF x \in Confs /\ t.alias[x] # 0 /\ members = {} THEN Empty(t, x) ELSE t

(* dahdi_get_conf_alias(x)                                                 *)
FreeAliases(t) == {a \in Aliases : t.rev[a] = 0}
FirstEmptyAlias(t) == CHOOSE a \in FreeAliases(t) : \A b \in FreeAliases(t) : a <= b
WithAlias(t, x) ==
    IF t.alias[x] # 0 THEN t
    ELSE [alias |-> [t.alias EXCEPT ![x] = FirstEmptyAlias(t)],
          rev   |-> [t.rev EXCEPT ![FirstEmptyAlias(t)] = x]]

FreeConfs == {x \in Aliases : confalias[x] = 0}    \* DAHDI_MAX_CONF - 1 down to 1
FirstEmptyConf == CHOOSE x \in FreeConfs : \A y \in FreeConfs : y <= x

PutTables(t) == /\ confalias' = t.alias
                /\ confrev'   = t.rev
                /\ maxconfs'  = recalc_maxconfs(t.rev)

(* Auxiliary: the two ways in which a conference can lose its accumulator  *)
(* with members in it.  Somebody joins after a dahdi_check_conf has found  *)
(* it empty and before it clears it; or dahdi_check_conf looks for its     *)
(* members while maxchans does not reach any of them yet.  It is torn then *)
(* until all of them have left.                                            *)
JoinedLate(x) == Members(x) = {} /\ \E c \in Channels : pending[c].conf = x
OutOfReach(x) == Below(maxchans', Members(x)') = {}
Record(lookedAt) ==
    torn' = {x \in Confs : /\ Members(x)' # {}
                           /\ x \in torn \/ JoinedLate(x) \/ (x \in lookedAt /\ OutOfReach(x))}

Init ==
    /\ registered = Reals \cup InitiallyOpen
    /\ maxchans = IF registered = {} THEN 0
                  ELSE 1 + CHOOSE c \in registered : \A d \in registered : d <= c
    /\ open     = InitiallyOpen
    /\ confna   = [c \in Channels |-> 0]
    /\ confmode = [c \in Channels |-> Normal]
    /\ _confn   = [c \in Channels |-> 0]
    /\ confalias = [x \in Confs |-> 0]
    /\ confrev   = [a \in Aliases |-> 0]
    /\ maxconfs  = 0
    /\ pending = [c \in Channels |-> Idle]
    /\ torn = {}

-----------------------------------------------------------------------------

(* DAHDI_SETCONF with conference n and a mode for channel i.  Any open     *)
(* channel may name any other, open or not.  Bounds: no call needs an      *)
(* alias when all DAHDI_MAX_CONF - 1 are taken; pseudo channels only join  *)
(* in mode conf.                                                           *)
SetTables(i, n, mode) ==
    LET na == [confna   EXCEPT ![i] = n]
        md == [confmode EXCEPT ![i] = mode]
        Seen(x) == Below(maxchans, MembersOf(x, registered, na, md))
        t1 == CheckConf(Tables, confna[i], Seen(confna[i]))
        t2 == CheckConf(t1, n, Seen(n))
    IN  IF n # 0 /\ IsConference(mode) THEN WithAlias(t2, n) ELSE t2

Put(i, n, mode) ==
    LET t == SetTables(i, n, mode)
    IN  /\ \E c \in open : pending[c] = Idle
        /\ i \in registered
        /\ IsConference(mode) => confalias[n] # 0 \/ FreeAliases(Tables) # {}
        /\ confna'   = [confna   EXCEPT ![i] = n]
        /\ confmode' = [confmode EXCEPT ![i] = mode]
        /\ _confn'   = [_confn EXCEPT ![i] = IF n # 0 /\ IsConference(mode)
                                             THEN t.alias[n] ELSE 0]
        /\ PutTables(t)
        /\ UNCHANGED <<registered, maxchans, open, pending>>
        /\ Record({confna[i], n})

Joins(i, mode) == IsConference(mode) /\ (i \in Pseudos => mode.kind = "conf")
Join(i, n, mode) == Joins(i, mode) /\ Put(i, n, mode)
JoinFirstEmpty(i, mode) == Joins(i, mode) /\ FreeConfs # {} /\ Put(i, FirstEmptyConf, mode)
Monitor(i, n, mode) == mode.kind = "monitor" /\ n \in registered /\ Put(i, n, mode)
Leave(i) == Put(i, 0, Normal)

(* The first half of dahdi_check_conf(x): is there nobody in it?           *)
ToClear(x, members) == IF x \in Confs /\ confalias[x] # 0 /\ members = {} THEN x ELSE 0

(* Its second half                                                         *)
Clear(c) ==
    /\ pending[c].conf # 0
    /\ PutTables(Empty(Tables, pending[c].conf))
    /\ pending' = [pending EXCEPT ![c].conf = 0]
    /\ UNCHANGED <<registered, maxchans, open, confna, confmode, _confn>>
    /\ Record({})

(* dahdi_specchan_open: the bit is set, then initialize_channel looks for  *)
(* members of the channel's conference before the channel itself leaves.   *)
Open(c) ==
    /\ c \in registered \ open /\ pending[c] = Idle
    /\ open' = open \cup {c}
    /\ pending' = [pending EXCEPT ![c] =
           [op |-> "open", conf |-> ToClear(confna[c], Below(maxchans, Members(confna[c])))]]
    /\ UNCHANGED <<registered, maxchans, confna, confmode, _confn, confalias, confrev, maxconfs>>
    /\ Record({confna[c]})

Opened(c) ==
    /\ pending[c] = [op |-> "open", conf |-> 0]
    /\ confna'   = [confna   EXCEPT ![c] = 0]
    /\ confmode' = [confmode EXCEPT ![c] = Normal]
    /\ _confn'   = [_confn   EXCEPT ![c] = 0]
    /\ pending'  = [pending  EXCEPT ![c] = Idle]
    /\ UNCHANGED <<registered, maxchans, open, confalias, confrev, maxconfs>>
    /\ Record({})

(* Opening /dev/dahdi/pseudo: dahdi_chan_reg takes the first free number,  *)
(* under chan_lock.                                                        *)
Rebuilding == \E c \in Channels : pending[c].op = "unreg"
OpenPseudo(c) ==
    /\ ~Rebuilding
    /\ c \in Pseudos \ registered
    /\ \A d \in Pseudos \ registered : c <= d
    /\ registered' = registered \cup {c}
    /\ maxchans' = IF maxchans < c + 1 THEN c + 1 ELSE maxchans
    /\ open' = open \cup {c}
    /\ UNCHANGED <<confna, confmode, _confn, confalias, confrev, maxconfs, pending>>
    /\ Record({})

(* close_channel: the channel leaves its conference, then looks for others.*)
Close(c) ==
    LET na == [confna   EXCEPT ![c] = 0]
        md == [confmode EXCEPT ![c] = Normal]
    IN  /\ c \in open /\ pending[c] = Idle
        /\ confna' = na /\ confmode' = md
        /\ _confn'  = [_confn EXCEPT ![c] = 0]
        /\ pending' = [pending EXCEPT ![c] =
               [op |-> "close",
                conf |-> ToClear(confna[c],
                                 Below(maxchans, MembersOf(confna[c], registered, na, md)))]]
        /\ UNCHANGED <<registered, maxchans, open, confalias, confrev, maxconfs>>
        /\ Record({confna[c]})

Release(c) ==
    /\ pending[c] = [op |-> "close", conf |-> 0]
    /\ open' = open \ {c}
    /\ pending' = [pending EXCEPT ![c] = Idle]
    /\ c \in Reals
    /\ UNCHANGED <<registered, maxchans, confna, confmode, _confn, confalias, confrev, maxconfs>>
    /\ Record({})

(* dahdi_free_pseudo: under chan_lock, dahdi_chan_unreg takes the channel  *)
(* out of chans[] and sets maxchans to 0.  The channel is gone with all it *)
(* had.                                                                    *)
Unregister(c) ==
    /\ ~Rebuilding
    /\ pending[c] = [op |-> "close", conf |-> 0]
    /\ c \in Pseudos
    /\ registered' = registered \ {c}
    /\ open' = open \ {c}
    /\ maxchans' = 0
    /\ confna'   = [confna   EXCEPT ![c] = 0]
    /\ confmode' = [confmode EXCEPT ![c] = Normal]
    /\ _confn'   = [_confn   EXCEPT ![c] = 0]
    /\ pending'  = [pending  EXCEPT ![c] = [op |-> "unreg", conf |-> 0]]
    /\ UNCHANGED <<confalias, confrev, maxconfs>>
    /\ Record({})

(* Then it counts maxchans up again, channel by channel, and takes those   *)
(* who monitored c out of their mode; their confna, a channel, is checked  *)
(* as if it were a conference, against the channels counted so far.        *)
Uncounted == {d \in registered : d >= maxchans}
NextUncounted == CHOOSE d \in Uncounted : \A e \in Uncounted : d <= e
Watches(d, c) == confna[d] = c /\ confmode[d].kind = "monitor"

PassBy(c) ==
    /\ pending[c] = [op |-> "unreg", conf |-> 0] /\ Uncounted # {}
    /\ ~Watches(NextUncounted, c)
    /\ maxchans' = NextUncounted + 1
    /\ UNCHANGED <<registered, open, confna, confmode, _confn, confalias, confrev, maxconfs,
                   pending>>
    /\ Record({})

FreeWatcher(c) ==
    LET d == NextUncounted
    IN  /\ pending[c] = [op |-> "unreg", conf |-> 0] /\ Uncounted # {}
        /\ Watches(d, c)
        /\ maxchans' = d + 1
        /\ pending'  = [pending EXCEPT ![c].conf = ToClear(c, Below(d + 1, Members(c)))]
        /\ confna'   = [confna   EXCEPT ![d] = 0]
        /\ confmode' = [confmode EXCEPT ![d] = Normal]
        /\ _confn'   = [_confn   EXCEPT ![d] = 0]
        /\ UNCHANGED <<registered, open, confalias, confrev, maxconfs>>
        /\ Record({c})

Unregistered(c) ==
    /\ pending[c] = [op |-> "unreg", conf |-> 0] /\ Uncounted = {}
    /\ pending' = [pending EXCEPT ![c] = Idle]
    /\ UNCHANGED <<registered, maxchans, open, confna, confmode, _confn, confalias, confrev,
                   maxconfs>>
    /\ Record({})

SetConf ==
    \E i \in Channels :
        \/ \E n \in Numbers, mode \in ConfModes : Join(i, n, mode)
        \/ \E mode \in ConfModes : JoinFirstEmpty(i, mode)
        \/ \E n \in Channels, mode \in ConfModes : Monitor(i, n, mode)
        \/ Leave(i)

Lifecycle ==
    \E c \in Channels :
        \/ Open(c)  \/ Clear(c) \/ Opened(c) \/ OpenPseudo(c)
        \/ Close(c) \/ Release(c) \/ Unregister(c)
        \/ PassBy(c) \/ FreeWatcher(c) \/ Unregistered(c)

Next == SetConf \/ Lifecycle
Spec == Init /\ [][Next]_conf_vars

-----------------------------------------------------------------------------

(* The two tables mirror one another and maxconfs covers every alias, so   *)
(* rotate_sums clears every accumulator in use.                            *)
AliasPairs ==
    /\ \A x \in Confs   : confalias[x] # 0 => confrev[confalias[x]] = x /\ confalias[x] < maxconfs
    /\ \A a \in Aliases : confrev[a] # 0 => confalias[confrev[a]] = a

(* Every member of a conference sums in the accumulator of that conference,*)
(* so two conferences never share one - unless the conference was torn.    *)
InPlace(c) == confalias[confna[c]] # 0 /\ _confn[c] = confalias[confna[c]]
OwnAccumulator ==
    \A c \in registered : IsConference(confmode[c]) /\ confna[c] \notin torn => InPlace(c)

(* Both: conferences are kept apart.                                       *)
AccumulatorsApart == AliasPairs /\ OwnAccumulator

(* A conference has an alias but nobody in it and nobody about to clear it.*)
Leaked(x) == /\ confalias[x] # 0
             /\ Members(x) = {}
             /\ \A c \in Channels : pending[c].conf # x

(* The last member gives the alias back, by whichever way it leaves and in *)
(* whatever order others come and go - unless it leaves by being opened or *)
(* freed: it was put into the conference while it was closed or closing.   *)
FreedWithLastMember ==
    [][\A x \in Confs : Leaked(x)' =>
          Leaked(x) \/ \E c \in Members(x) : Opened(c) \/ Unregister(c)]_conf_vars

(* "If we get here, nobody is in the conference anymore" (dahdi_check_conf)*)
ClearsOnlyEmpty ==
    [][\A x \in Confs : confalias[x] # 0 /\ confalias'[x] = 0 => Members(x)' = {}]_conf_vars
=============================================================================

---------------------------- MODULE ChannelFiles ----------------------------
(***************************************************************************)
(* The channels of module Hyperchannels as users open them: which file has *)
(* which channel, and what a channel has a share in while it is open or    *)
(* configured, tone zones and echo cancellers.  A zone is freed when its   *)
(* refcount is zero; the module of a canceller may be unloaded when nobody *)
(* has a reference to it.                                                  *)
(*                                                                         *)
(* A file knows its channel by its unit number only, and looks it up in    *)
(* chans at each call.  A span may be unregistered while its channels are  *)
(* open: its numbers then go to the channels that are registered next.     *)
(*                                                                         *)
(* Opens and closes run side by side; the ioctls have the big kernel lock  *)
(* and lose it where they sleep, that is when an echo canceller is made.   *)
(*                                                                         *)
(* Bounds: no span is unregistered while one of its channels is being      *)
(* opened or closed or gets an echo canceller; once in a behaviour one is  *)
(* while a channel is open; drivers register a structure once; the zones   *)
(* of one number count as one.  In a behaviour of kind "zones" or "echo"   *)
(* only these are used; they share no state.                               *)
(* Not modelled: pseudo channels, /dev/dahdi/channel, the cancellers that  *)
(* spans bring along, which nobody counts.                                 *)
(***************************************************************************)
EXTENDS Hyperchannels

CONSTANTS
    Files,
    Units,         \* bound: the units that are opened
    Zones,         \* numbers of tone zones
    Factories,     \* modules with an echo canceller
    Callers,       \* threads in DAHDI_ECHOCANCEL
    MaxLost,       \* bound: references lost before callers take turns
    None

ASSUME FilesAssumption ==
    /\ Units \subseteq 1 .. Cardinality(Channels)
    /\ MaxLost \in Nat
    /\ None \notin Zones \cup Factories \cup Files
    /\ Zones \cap Factories = {} /\ IsFiniteSet(Callers)

VARIABLES
    chans,                               \* the channel of each number
    opened,                              \* the channels with DAHDI_FLAG_OPEN
    unit, at, want,                      \* of a file: its unit, its place, a zone it read
    tone_zones, refcount, default_zone,  \* the zones that are loaded
    curzone,                             \* of each channel
    factories, modrefs,                  \* the modules, their counts
    ec_factory,                          \* of each channel: what DAHDI_ATTACH_ECHOCAN chose
    ec_current,                          \* of each channel: whose its ec_state is
    call,                                \* the file and the factory of a caller
    yanked,                              \* auxiliary: a span went while it was open
    lost                                 \* auxiliary: counts that are never given back

table == <<chans, yanked>>
files == <<opened, unit, at, want>>
zones == <<tone_zones, refcount, default_zone, curzone>>
echo  == <<factories, modrefs, ec_factory, ec_current, call>>
file_vars == <<table, files, zones, echo, lost>>
all_vars  == <<vars, file_vars>>

Channos == 1 .. Cardinality(Channels)
NoCall == [file |-> None, ec |-> None]
Chan(f) == IF unit[f] = 0 THEN NoChan ELSE chans[unit[f]]

FilesInit ==
    /\ HyperInit
    /\ chans = [n \in Channos |-> NoChan] /\ yanked = FALSE
    /\ opened = {} /\ unit = [f \in Files |-> 0]
    /\ at = [f \in Files |-> "idle"] /\ want = [f \in Files |-> None]
    /\ tone_zones = {} /\ refcount = [n \in Zones |-> 0] /\ default_zone = None
    /\ curzone = [c \in Channels |-> None]
    /\ factories = {} /\ modrefs = [e \in Factories |-> 0]
    /\ ec_factory = [c \in Channels |-> None] /\ ec_current = [c \in Channels |-> None]
    /\ call = [t \in Callers |-> NoCall]
    /\ lost = [x \in Zones \cup Factories |-> 0]

(* One reference more, or one less, unless x is None.                      *)
More(counts, x) == IF x = None THEN counts ELSE [counts EXCEPT ![x] = @ + 1]
Less(counts, x) == IF x = None THEN counts ELSE [counts EXCEPT ![x] = @ - 1]

Go(f, where) == at' = [at EXCEPT ![f] = where]

-----------------------------------------------------------------------------

(* dahdi_chan_reg: each channel gets the first free number.  What the      *)
(* structure of an earlier registration still had a share in is lost.      *)
Own(s) == {c \in Channels : SpanOf(c) = s}
LostBy(s) ==
    [x \in DOMAIN lost |->
        lost[x] + Cardinality({c \in Own(s) : x \in {curzone[c], ec_current[c]}})]
Cleared(s, fun) == [c \in Channels |-> IF SpanOf(c) = s THEN None ELSE fun[c]]

RegisterFiles(s) ==
    LET free == {n \in Channos : chans[n] = NoChan}
        rank(n) == Cardinality({k \in free : k <= n})
    IN  /\ RegisterSpan(s)
        /\ chans' = [n \in Channos |->
                        IF n \in free /\ rank(n) <= Size[s] THEN <<s, rank(n)>> ELSE chans[n]]
        /\ opened' = opened \ Own(s)
        /\ curzone' = Cleared(s, curzone)
        /\ ec_factory' = Cleared(s, ec_factory) /\ ec_current' = Cleared(s, ec_current)
        /\ lost' = LostBy(s)
        /\ UNCHANGED <<yanked, unit, at, want, tone_zones, refcount, default_zone,
                       factories, modrefs, call>>

(* dahdi_chan_unreg: its number is free, its canceller's module is put.    *)
Attached(s, e) == {c \in Own(s) : ec_factory[c] = e}
Busied(f) == at[f] # "open" \/ \E t \in Callers : call[t].file = f
UnregisterFiles(s) ==
    /\ UnregisterSpan(s)
    /\ \A f \in Files : SpanOf(Chan(f)) = s => ~Busied(f)
    /\ chans' = [n \in Channos |-> IF SpanOf(chans[n]) = s THEN NoChan ELSE chans[n]]
    /\ modrefs' = [e \in Factories |-> modrefs[e] - Cardinality(Attached(s, e))]
    /\ LET open == \E f \in Files : SpanOf(Chan(f)) = s
       IN  ~(open /\ yanked) /\ yanked' = (open \/ yanked)
    /\ UNCHANGED <<files, zones, factories, ec_factory, ec_current, call, lost>>

-----------------------------------------------------------------------------

(* close_channel, as far as it gives back                                  *)
CloseChannel_KeepsZone(c) ==        \* mutant: the zone is still counted
    /\ curzone' = [curzone EXCEPT ![c] = None] /\ UNCHANGED refcount
    /\ ec_current' = [ec_current EXCEPT ![c] = None]
    /\ modrefs' = Less(modrefs, ec_current[c])
CloseChannel(c) ==
    /\ curzone' = [curzone EXCEPT ![c] = None]
    /\ refcount' = Less(refcount, curzone[c])
    /\ ec_current' = [ec_current EXCEPT ![c] = None]
    /\ modrefs' = Less(modrefs, ec_current[c])

(* set_tone_zone: the new zone is counted, if it is loaded, and the old    *)
(* one no more.                                                            *)
SetToneZone(c, n) ==
    IF n \in tone_zones
    THEN /\ curzone' = [curzone EXCEPT ![c] = n]
         /\ refcount' = More(Less(refcount, curzone[c]), n)
    ELSE UNCHANGED <<curzone, refcount>>

Free_Anyhow(c) == TRUE              \* mutant: the bit is set, but not tested
Free(c) == c \notin opened
(* dahdi_specchan_open *)
Open(f, u) ==
    LET c == chans[u]
    IN  /\ at[f] = "idle" /\ c # NoChan /\ chmaster[c] = c /\ Free(c)
        /\ opened' = opened \cup {c}
        /\ unit' = [unit EXCEPT ![f] = u]
        /\ Go(f, "init")
        /\ UNCHANGED <<table, want, zones, echo, lost>>

NotOpened(f) ==
    /\ opened' = opened \ {Chan(f)}
    /\ unit' = [unit EXCEPT ![f] = 0]
    /\ Go(f, "idle")

(* initialize_channel, and its end, set_tone_zone(chan, -1)                *)
InitializeChannel(f) ==
    LET c == Chan(f)
    IN  /\ at[f] = "init"
        /\ ec_current' = [ec_current EXCEPT ![c] = None]
        /\ modrefs' = Less(modrefs, ec_current[c])
        /\ want' = [want EXCEPT ![f] = default_zone]
        /\ Go(f, "zone")
        /\ UNCHANGED <<table, opened, unit, zones, factories, ec_factory, call, lost>>
InitializeFails(f) ==
    /\ at[f] = "init"
    /\ NotOpened(f)
    /\ UNCHANGED <<table, want, zones, echo, lost>>
SetDefault(f) ==
    /\ at[f] = "zone"
    /\ SetToneZone(Chan(f), want[f])
    /\ want' = [want EXCEPT ![f] = None]
    /\ Go(f, "driver")
    /\ UNCHANGED <<table, opened, unit, tone_zones, default_zone, echo, lost>>

(* span->open *)
DriverOpens(f) ==
    /\ at[f] = "driver"
    /\ Go(f, "open")
    /\ UNCHANGED <<table, opened, unit, want, zones, echo, lost>>
DriverFails(f) ==
    /\ at[f] = "driver"
    /\ CloseChannel(Chan(f))
    /\ NotOpened(f)
    /\ UNCHANGED <<table, want, tone_zones, default_zone, factories, ec_factory, call, lost>>

(* dahdi_specchan_release of whatever has the number now                   *)
Release(f) ==
    /\ at[f] = "open" /\ ~Busied(f)
    /\ IF Chan(f) = NoChan
       THEN /\ unit' = [unit EXCEPT ![f] = 0] /\ Go(f, "idle")
            /\ UNCHANGED <<zones, echo>>
       ELSE /\ CloseChannel(Chan(f)) /\ Go(f, "closing")
            /\ UNCHANGED <<unit, tone_zones, default_zone, factories, ec_factory, call>>
    /\ UNCHANGED <<table, opened, want, lost>>
ClearOpen(f) ==
    /\ at[f] = "closing"
    /\ NotOpened(f)
    /\ UNCHANGED <<table, want, zones, echo, lost>>

-----------------------------------------------------------------------------

(* DAHDI_SETTONEZONE, DAHDI_LOADZONE, DAHDI_DEFAULTZONE, DAHDI_FREEZONE    *)
ChooseZone(f, n) ==
    /\ busy = "zones" /\ at[f] = "open" /\ Chan(f) # NoChan
    /\ SetToneZone(Chan(f), n)
    /\ UNCHANGED <<table, files, tone_zones, default_zone, echo, lost>>

LoadZone(n) ==
    /\ busy = "zones" /\ n \notin tone_zones
    /\ tone_zones' = tone_zones \cup {n}
    /\ IF default_zone = None
       THEN default_zone' = n /\ refcount' = More(refcount, n)
       ELSE UNCHANGED <<default_zone, refcount>>
    /\ UNCHANGED <<table, files, curzone, echo, lost>>
SetDefaultZone(n) ==
    /\ busy = "zones" /\ n \in tone_zones
    /\ refcount' = More(Less(refcount, default_zone), n)
    /\ default_zone' = n
    /\ UNCHANGED <<table, files, tone_zones, curzone, echo, lost>>
FreeZone(n) ==
    /\ busy = "zones" /\ n \in tone_zones /\ refcount[n] = 0
    /\ tone_zones' = tone_zones \ {n}
    /\ UNCHANGED <<table, files, refcount, default_zone, curzone, echo, lost>>

-----------------------------------------------------------------------------

(* DAHDI_ATTACH_ECHOCAN: the reference of find_echocan stays with the      *)
(* channel, that of the factory before is given back.                      *)
Detached_Not(c) == modrefs          \* mutant: the old one keeps its reference
Detached(c) == Less(modrefs, ec_factory[c])
AttachEchocan(u, e) ==
    LET c == chans[u]
    IN  /\ busy = "echo" /\ c # NoChan
        /\ e \in factories \cup {None}
        /\ ec_factory' = [ec_factory EXCEPT ![c] = e]
        /\ modrefs' = More(Detached(c), e)
        /\ UNCHANGED <<table, files, zones, factories, ec_current, call, lost>>

(* ioctl_echocancel: the canceller in use is freed, a reference for the    *)
(* new one is taken, and then it is made, asleep.                          *)
BeginEchocancel(t, f) ==
    LET c == Chan(f)
        e == ec_factory[c]
        got == e \in factories
        rest == Less(modrefs, ec_current[c])
    IN  /\ busy = "echo" /\ call[t] = NoCall /\ at[f] = "open" /\ c # NoChan
        /\ (\E u \in Callers : call[u] # NoCall) => \A x \in Factories : lost[x] < MaxLost
        /\ ec_current' = [ec_current EXCEPT ![c] = None]
        /\ modrefs' = IF got THEN More(rest, e) ELSE rest
        /\ call' = IF got THEN [call EXCEPT ![t] = [file |-> f, ec |-> e]] ELSE call
        /\ UNCHANGED <<table, files, zones, factories, ec_factory, lost>>
EchocanCreated(t) ==
    LET c == Chan(call[t].file)
    IN  /\ call[t] # NoCall
        /\ ec_current' = [ec_current EXCEPT ![c] = call[t].ec]
        /\ lost' = More(lost, ec_current[c])
        /\ call' = [call EXCEPT ![t] = NoCall]
        /\ UNCHANGED <<table, files, zones, factories, modrefs, ec_factory>>
EchocanFails(t) ==
    /\ call[t] # NoCall
    /\ modrefs' = Less(modrefs, call[t].ec)
    /\ call' = [call EXCEPT ![t] = NoCall]
    /\ UNCHANGED <<table, files, zones, factories, ec_factory, ec_current, lost>>

(* DAHDI_ECHOCANCEL with no taps, and DAHDI_AUDIOMODE off                  *)
EchocanOff(f) ==
    /\ busy = "echo" /\ at[f] = "open" /\ Chan(f) # NoChan
    /\ ec_current' = [ec_current EXCEPT ![Chan(f)] = None]
    /\ modrefs' = Less(modrefs, ec_current[Chan(f)])
    /\ UNCHANGED <<table, files, zones, factories, ec_factory, call, lost>>

(* Modules are loaded, and unloaded when nobody has a reference.           *)
LoadFactory(e) ==
    /\ busy = "echo" /\ e \notin factories
    /\ factories' = factories \cup {e}
    /\ UNCHANGED <<table, files, zones, modrefs, ec_factory, ec_current, call, lost>>
UnloadFactory(e) ==
    /\ busy = "echo" /\ e \in factories /\ modrefs[e] = 0
    /\ factories' = factories \ {e}
    /\ UNCHANGED <<table, files, zones, modrefs, ec_factory, ec_current, call, lost>>

-----------------------------------------------------------------------------

FileStep(f) ==
    \/ \E u \in Units : busy \in {"zones", "echo"} /\ Open(f, u)
    \/ InitializeChannel(f) \/ InitializeFails(f) \/ SetDefault(f)
    \/ DriverOpens(f) \/ DriverFails(f) \/ Release(f) \/ ClearOpen(f)
ZoneStep ==
    \E n \in Zones : \/ \E f \in Files : ChooseZone(f, n)
                     \/ LoadZone(n) \/ SetDefaultZone(n) \/ FreeZone(n)
EchoStep ==
    \/ \E u \in Units, e \in Factories \cup {None} : AttachEchocan(u, e)
    \/ \E t \in Callers : \/ \E f \in Files : BeginEchocancel(t, f)
                          \/ EchocanCreated(t) \/ EchocanFails(t)
    \/ \E f \in Files : EchocanOff(f)
    \/ \E e \in Factories : LoadFactory(e) \/ UnloadFactory(e)

FilesNext ==
    \/ \E s \in Spans : RegisterFiles(s) \/ UnregisterFiles(s)
    \/ (SpanStep \/ UnplugStep \/ Configure \/ Detach \/ Relink \/ Attach)
         /\ UNCHANGED file_vars
    \/ ((\E f \in Files : FileStep(f)) \/ ZoneStep \/ EchoStep) /\ UNCHANGED vars
FilesSpec == FilesInit /\ [][FilesNext]_all_vars

-----------------------------------------------------------------------------

(* The channels of registered spans have numbers, and only they.           *)
FilesTypeOK ==
    /\ HyperTypeOK
    /\ chans \in [Channos -> Channels \cup {NoChan}]
    /\ \A n \in Channos : chans[n] # NoChan => Present(chans[n])
    /\ opened \subseteq Channels
    /\ unit \in [Files -> Channos \cup {0}]
    /\ at \in [Files -> {"idle", "init", "zone", "driver", "open", "closing"}]
    /\ \A f \in Files : at[f] = "idle" <=> unit[f] = 0
    /\ want \in [Files -> Zones \cup {None}]
    /\ tone_zones \subseteq Zones /\ refcount \in [Zones -> Int]
    /\ default_zone \in Zones \cup {None} /\ curzone \in [Channels -> Zones \cup {None}]
    /\ factories \subseteq Factories /\ modrefs \in [Factories -> Int]
    /\ ec_factory \in [Channels -> Factories \cup {None}]
    /\ ec_current \in [Channels -> Factories \cup {None}]
    /\ call \in [Callers -> [file : Files \cup {None}, ec : Factories \cup {None}]]
    /\ yanked \in BOOLEAN /\ lost \in [Zones \cup Factories -> Nat]

(* No two files have one channel, and the channels that are open are those *)
(* files have, whatever fails on the way in; until a span goes while its   *)
(* channels are open.                                                      *)
OneFile ==
    ~yanked => /\ \A f, g \in Files : Chan(f) = Chan(g) /\ Chan(f) # NoChan => f = g
               /\ opened = {Chan(f) : f \in Files} \ {NoChan}

(* A tone zone that a channel plays from, or that is the default, is never *)
(* freed, and a module is never unloaded while a channel has it attached,  *)
(* has a canceller of it or waits for one; each is counted as often as it  *)
(* is used, but for what was lost with a span or by two callers at once.   *)
Count(fun, x) == Cardinality({y \in DOMAIN fun : fun[y] = x})
Chosen  == [c \in Channels |-> IF Present(c) THEN ec_factory[c] ELSE None]
Awaited == [t \in Callers |-> call[t].ec]
Uses(n) == Count(curzone, n) + (IF default_zone = n THEN 1 ELSE 0)
EcUses(e) == Count(Chosen, e) + Count(ec_current, e) + Count(Awaited, e)
UsedIsKept ==
    /\ \A n \in Zones : refcount[n] = Uses(n) + lost[n] /\ (Uses(n) > 0 => n \in tone_zones)
    /\ \A e \in Factories : modrefs[e] = EcUses(e) + lost[e]
                            /\ (EcUses(e) > 0 => e \in factories)
=============================================================================

----------------------------- MODULE Transcoder -----------------------------
(***************************************************************************)
(* The transcoder interface and the channels of the wctc4xxp card behind   *)
(* it.  A file allocates a channel, an encoder or a decoder, with the      *)
(* formats it wants.  The card has its channels in pairs: who allocates    *)
(* one half builds both on the DTE processor, for his own formats, and the *)
(* other half serves whoever wants the same formats the other way round.   *)
(* The pair is destroyed when a half is released and the other is unused.  *)
(*                                                                         *)
(* busy is set under translock, built under the semaphore chansem, which   *)
(* is held while commands go to the DTE (module DteCommands).  Each is     *)
(* read without the other lock, and built is read with neither.            *)
(*                                                                         *)
(* A step is a critical section, or what lies between two; one thread at a *)
(* time calls the interface on a file.  A format here is what a request    *)
(* asks for, srcfmt|dstfmt, a simple format and a complicated one; the     *)
(* half says which is which.  Bounds: the constants.  Not modelled: the    *)
(* frames (DteCommands has their way to the DTE), O_NONBLOCK, GETINFO,     *)
(* several cards, and what happens once a card that is still in use is     *)
(* removed: its memory is gone.                                            *)
(***************************************************************************)
EXTENDS Integers, FiniteSets

CONSTANTS
    Files,
    Indices,     \* of the pairs: 0..(numchannels - 1)
    Formats,     \* the values of srcfmt|dstfmt
    Threshold,   \* POLLING_CALL_THRESHOLD
    MaxDrift,    \* bound: how far a driver that is going may count below 0
    None

ASSUME TcAssumption ==
    /\ IsFiniteSet(Files) /\ Indices \subseteq Nat /\ Threshold \in Nat /\ MaxDrift \in Nat
    /\ None \notin Formats /\ None \notin Files
    /\ None \notin {"encoder", "decoder"} \X Indices

Halves   == {"encoder", "decoder"}
Channels == Halves \X Indices

Slot(c) == 2 * c[2] + (IF c[1] = "encoder" THEN 0 ELSE 1)    \* timeslot_in_num

\* mutant: the number of the timeslot is taken for the index of the channel
Complement_BySlot(c) == <<IF c[1] = "encoder" THEN "decoder" ELSE "encoder", Slot(c)>>
Complement(c) == <<IF c[1] = "encoder" THEN "decoder" ELSE "encoder",
                   Slot(c) \div 2>>

VARIABLES
    busy, built,          \* the channels with these flags
    built_fmts, fmts,     \* the formats of a channel: built for, asked for
    chansem,              \* its holder
    open_channels,
    polling, interrupts,  \* DTE_POLLING; is intmask set?
    shutdown, registered, \* DTE_SHUTDOWN; on active_list
    going,                \* the driver module is being unloaded
    private_data, ref,    \* of a file: its channel, has it a reference to the driver?
    pc, chan,             \* of the thread: its place, the channel that was found
    ready                 \* auxiliary: files whose last ALLOCATE returned 0

board == <<open_channels, polling, interrupts, shutdown, registered, going>>
pair  == <<built, built_fmts>>
file  == <<private_data, ref, ready>>
vars  == <<busy, pair, fmts, chansem, board, file, pc, chan>>

Init ==
    /\ busy = {} /\ built = {}
    /\ built_fmts = [c \in Channels |-> None] /\ fmts = [c \in Channels |-> None]
    /\ chansem = None /\ open_channels = 0
    /\ polling = FALSE /\ interrupts = TRUE
    /\ shutdown = FALSE /\ registered = TRUE /\ going = FALSE
    /\ private_data = [f \in Files |-> None] /\ ref = [f \in Files |-> FALSE]
    /\ pc = [f \in Files |-> "idle"] /\ chan = [f \in Files |-> None]
    /\ ready = {}

Go(f, where) == pc' = [pc EXCEPT ![f] = where]

(***************************************************************************)
(* DAHDI_TC_ALLOCATE: the first channel of the half that is free for the   *)
(* formats m.  A file that has a channel releases it before it goes on.    *)
(***************************************************************************)
FreeFor(c, m) == c \notin busy /\ (c \notin built \/ built_fmts[c] = m)

FirstFree(h, i, m) ==
    /\ FreeFor(<<h, i>>, m)
    /\ \A j \in Indices : j < i => ~FreeFor(<<h, j>>, m)

Claim_Late(c) == busy' = busy       \* mutant: the channel is not marked
Claim(c) == busy' = busy \cup {c}

GetFreeChannel(f, h, i, m) ==
    /\ pc[f] = "idle" /\ registered /\ open_channels > -MaxDrift - 1
    /\ FirstFree(h, i, m)
    /\ Claim(<<h, i>>)
    /\ fmts' = [fmts EXCEPT ![<<h, i>>] = m]
    /\ chan' = [chan EXCEPT ![f] = <<h, i>>]
    /\ ready' = ready \ {f}
    /\ Go(f, IF private_data[f] = None THEN "take" ELSE "release")
    /\ UNCHANGED <<pair, chansem, board, private_data, ref>>

\* The file gets the channel; its module must not be on its way out.
Take(f) ==
    /\ pc[f] = "take"
    /\ private_data' = [private_data EXCEPT ![f] = chan[f]]
    /\ chan' = [chan EXCEPT ![f] = None]
    /\ ref' = [ref EXCEPT ![f] = @ \/ ~going]
    /\ Go(f, IF ref[f] \/ ~going THEN "allocate" ELSE "idle")
    /\ UNCHANGED <<busy, pair, fmts, chansem, board, ready>>

(***************************************************************************)
(* wctc4xxp_operation_allocate.                                            *)
(***************************************************************************)
Allocate(f) ==
    /\ pc[f] = "allocate"
    /\ IF shutdown
       THEN Go(f, "idle") /\ UNCHANGED open_channels
       ELSE /\ open_channels' = open_channels + 1
            /\ Go(f, IF open_channels + 1 > Threshold /\ ~polling THEN "poll" ELSE "look")
    /\ UNCHANGED <<busy, pair, fmts, chansem, polling, interrupts, shutdown, registered,
                   going, file, chan>>

EnablePolling(f) ==
    /\ \/ pc[f] = "poll" /\ polling' = TRUE /\ Go(f, "mask") /\ UNCHANGED interrupts
       \/ pc[f] = "mask" /\ interrupts' = FALSE /\ Go(f, "look") /\ UNCHANGED polling
    /\ UNCHANGED <<busy, pair, fmts, chansem, open_channels, shutdown, registered, going,
                   file, chan>>

\* Without the semaphore: is it built?
LookIfBuilt(f) ==
    /\ pc[f] = "look"
    /\ IF private_data[f] \in built
       THEN Go(f, "idle") /\ ready' = ready \cup {f}
       ELSE Go(f, "down") /\ UNCHANGED ready
    /\ UNCHANGED <<busy, pair, fmts, chansem, board, private_data, ref, chan>>

BuiltMeanwhile_NotAsked(c) == FALSE    \* mutant: what was read before is relied on
BuiltMeanwhile(c) == c \in built

DownToBuild(f) ==
    /\ pc[f] = "down" /\ chansem = None
    /\ IF BuiltMeanwhile(private_data[f])
       THEN Go(f, "idle") /\ ready' = ready \cup {f} /\ UNCHANGED chansem
       ELSE Go(f, "create") /\ chansem' = f /\ UNCHANGED ready
    /\ UNCHANGED <<busy, pair, fmts, board, private_data, ref, chan>>

Up_Not(f) == UNCHANGED chansem         \* mutant: an error path forgets up()
Up(f) == chansem' = None

\* wctc4xxp_create_channel_pair: a dozen commands, any of which may fail.
CreateChannelPair(f) ==
    /\ pc[f] = "create"
    /\ \/ Go(f, "built") /\ UNCHANGED chansem
       \/ Go(f, "idle") /\ Up(f)
    /\ UNCHANGED <<busy, pair, fmts, board, file, chan>>

MarkBuilt(f) ==
    /\ pc[f] = "built"
    /\ built' = built \cup {private_data[f]}
    /\ built_fmts' = [built_fmts EXCEPT ![private_data[f]] = fmts[private_data[f]]]
    /\ Go(f, "complement")
    /\ UNCHANGED <<busy, fmts, chansem, board, file, chan>>

MarkComplementBuilt(f) ==
    /\ pc[f] = "complement"
    /\ built_fmts' = [built_fmts EXCEPT ![Complement(private_data[f])] =
                                            fmts[private_data[f]]]
    /\ built' = built \cup {Complement(private_data[f])}
    /\ Go(f, "idle") /\ chansem' = None
    /\ ready' = ready \cup {f}
    /\ UNCHANGED <<busy, fmts, board, private_data, ref, chan>>

(***************************************************************************)
(* close, and the old channel of ALLOCATE: wctc4xxp_operation_release and  *)
(* then dahdi_tc_clear_busy.                                               *)
(***************************************************************************)
Close(f) ==
    /\ pc[f] = "idle" /\ private_data[f] # None
    /\ ready' = ready \ {f}
    /\ Go(f, "release")
    /\ UNCHANGED <<busy, pair, fmts, chansem, board, private_data, ref, chan>>

Release(f) ==
    /\ pc[f] = "release"
    /\ Go(f, IF shutdown THEN "free" ELSE "close")
    /\ UNCHANGED <<busy, pair, fmts, chansem, board, file, chan>>

Uncount_Not == UNCHANGED open_channels \* mutant: released, but still counted
Uncount == open_channels' = open_channels - 1

DownToRelease(f) ==
    /\ pc[f] = "close" /\ chansem = None
    /\ chansem' = f
    /\ Uncount
    /\ Go(f, IF open_channels' < Threshold /\ polling THEN "unpoll" ELSE "other")
    /\ UNCHANGED <<busy, pair, fmts, polling, interrupts, shutdown, registered, going,
                   file, chan>>

DisablePolling(f) ==
    /\ \/ pc[f] = "unpoll" /\ polling' = FALSE /\ Go(f, "unmask") /\ UNCHANGED interrupts
       \/ pc[f] = "unmask" /\ interrupts' = TRUE /\ Go(f, "other") /\ UNCHANGED polling
    /\ UNCHANGED <<busy, pair, fmts, chansem, open_channels, shutdown, registered, going,
                   file, chan>>

LookAtComplement(f) ==
    /\ pc[f] = "other"
    /\ LET c == Complement(private_data[f]) IN
       IF c \in built /\ c \notin busy
       THEN Go(f, "destroy") /\ UNCHANGED chansem
       ELSE Go(f, "free") /\ chansem' = None
    /\ UNCHANGED <<busy, pair, fmts, board, file, chan>>

\* wctc4xxp_destroy_channel_pair.
DestroyChannelPair(f) ==
    /\ pc[f] = "destroy"
    /\ \/ Go(f, "unbuilt") /\ UNCHANGED chansem
       \/ Go(f, "free") /\ chansem' = None
    /\ UNCHANGED <<busy, pair, fmts, board, file, chan>>

ClearBuilt(f) ==
    /\ pc[f] = "unbuilt"
    /\ built' = built \ {private_data[f]}
    /\ built_fmts' = [built_fmts EXCEPT ![private_data[f]] = None]
    /\ Go(f, "both")
    /\ UNCHANGED <<busy, fmts, chansem, board, file, chan>>

ClearComplementBuilt(f) ==
    /\ pc[f] = "both"
    /\ built' = built \ {Complement(private_data[f])}
    /\ built_fmts' = [built_fmts EXCEPT ![Complement(private_data[f])] = None]
    /\ Go(f, "free") /\ chansem' = None
    /\ UNCHANGED <<busy, fmts, board, file, chan>>

ClearBusy(f) ==
    /\ pc[f] = "free"
    /\ busy' = busy \ {private_data[f]}
    /\ private_data' = [private_data EXCEPT ![f] = None]
    /\ fmts' = [fmts EXCEPT ![private_data[f]] = None]  \* not read before it is set again
    /\ IF chan[f] = None
       THEN Go(f, "idle") /\ ref' = [ref EXCEPT ![f] = FALSE]
       ELSE Go(f, "take") /\ UNCHANGED ref
    /\ UNCHANGED <<pair, chansem, board, ready, chan>>

(***************************************************************************)
(* The watchdog stops a card that lost a command; the driver goes.         *)
(***************************************************************************)
Halt ==
    /\ ~shutdown
    /\ shutdown' = TRUE /\ interrupts' = FALSE
    /\ UNCHANGED <<busy, pair, fmts, chansem, open_channels, polling, registered, going,
                   file, pc, chan>>

Unload ==
    /\ ~going /\ \A f \in Files : ~ref[f]
    /\ going' = TRUE
    /\ UNCHANGED <<busy, pair, fmts, chansem, open_channels, polling, interrupts,
                   shutdown, registered, file, pc, chan>>

RemoveCard ==
    /\ going /\ registered
    /\ \A f \in Files : private_data[f] = None /\ chan[f] = None
    /\ shutdown' = TRUE /\ polling' = FALSE /\ interrupts' = FALSE
    /\ registered' = FALSE
    /\ UNCHANGED <<busy, pair, fmts, chansem, open_channels, going, file, pc, chan>>

Down(f) == DownToBuild(f) \/ DownToRelease(f)

Step(f) ==
    \/ Take(f) \/ Allocate(f) \/ EnablePolling(f) \/ LookIfBuilt(f)
    \/ CreateChannelPair(f) \/ MarkBuilt(f) \/ MarkComplementBuilt(f)
    \/ Release(f) \/ DisablePolling(f) \/ LookAtComplement(f)
    \/ DestroyChannelPair(f) \/ ClearBuilt(f) \/ ClearComplementBuilt(f)
    \/ ClearBusy(f)

Call(f) ==
    \/ \E h \in Halves, i \in Indices, m \in Formats : GetFreeChannel(f, h, i, m)
    \/ Close(f)

Next ==
    \/ \E f \in Files : Call(f) \/ Step(f) \/ Down(f)
    \/ Halt \/ Unload \/ RemoveCard

Spec == Init /\ [][Next]_vars

\* A thread in the interface goes on; the commands of a pair come to an end, as
\* DteCommands has it; a semaphore serves those who wait for it in turn.
FairSpec ==
    Spec /\ \A f \in Files : WF_vars(Step(f)) /\ SF_vars(Down(f))
-----------------------------------------------------------------------------
Places == {"idle", "take", "allocate", "poll", "mask", "look", "down", "create",
           "built", "complement", "release", "close", "unpoll", "unmask", "other",
           "destroy", "unbuilt", "both", "free"}

\* The places between down and up.
Building  == {"create", "built", "complement"}
Releasing == {"unpoll", "unmask", "other", "destroy", "unbuilt", "both"}
Critical  == Building \cup Releasing

TcTypeOK ==
    /\ busy \subseteq Channels /\ built \subseteq Channels
    /\ built_fmts \in [Channels -> Formats \cup {None}]
    /\ fmts \in [Channels -> Formats \cup {None}]
    /\ chansem \in Files \cup {None}
    /\ open_channels \in Int
    /\ polling \in BOOLEAN /\ interrupts \in BOOLEAN
    /\ shutdown \in BOOLEAN /\ registered \in BOOLEAN /\ going \in BOOLEAN
    /\ private_data \in [Files -> Channels \cup {None}]
    /\ chan \in [Files -> Channels \cup {None}]
    /\ ref \in [Files -> BOOLEAN] /\ pc \in [Files -> Places]
    /\ ready \subseteq Files

Holds(f, c) == c \in {private_data[f], chan[f]}

\* A channel that is busy is held by one file, as its channel or as the one it is
\* moving to, and a channel that is not busy by none: none is lost, none is
\* shared, whatever fails and whoever closes in between.
OneUser ==
    /\ \A c \in Channels : c \in busy <=> \E f \in Files : Holds(f, c)
    /\ \A f, g \in Files : \A c \in Channels : Holds(f, c) /\ Holds(g, c) => f = g
    /\ \A f \in Files : chan[f] # None => chan[f] # private_data[f]

\* Whenever nobody has the semaphore the two halves of a pair agree: both are
\* built, for the same formats, or neither is.  "It shouldn't already have been
\* built", says the driver of the complement.
PairTogether ==
    /\ chansem = None => \A c \in Channels :
         /\ c \in built <=> Complement(c) \in built
         /\ built_fmts[c] = built_fmts[Complement(c)]
         /\ c \in built <=> built_fmts[c] # None
    /\ \A f \in Files : pc[f] = "complement" =>
         Complement(private_data[f]) \notin built

\* open_channels is the number of files that have a channel of the card, which
\* decides whether it is polled; until the board stops or the driver goes.
Counted(f) ==
    private_data[f] # None /\ pc[f] \notin {"allocate", "free"} \cup Releasing
OpenCount ==
    ~shutdown /\ ~going => open_channels = Cardinality({f \in Files : Counted(f)})

\* Every ALLOCATE and every close returns, also when commands to the DTE fail,
\* unless the board is stopped.
CallsReturn == \A f \in Files : pc[f] # "idle" ~> (pc[f] = "idle" \/ shutdown)

\* "If the channel is already built, we must make sure that it can support the
\* formats that we're interested in."
SupportsFormats ==
    \A f \in ready : LET c == private_data[f] IN c \in built => built_fmts[c] = fmts[c]
=============================================================================

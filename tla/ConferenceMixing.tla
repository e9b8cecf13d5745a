-------------------------- MODULE ConferenceMixing --------------------------
(***************************************************************************)
(* What the members of the conferences of module Conferences hear.  Once   *)
(* per millisecond process_masterspan, under bigzaplock, takes the chunk   *)
(* every conferenced line received, rotates the accumulators, takes what   *)
(* users wrote to pseudo channels, adds linked conferences, and hands each *)
(* listener the sum of its conference less what it put in itself.  All of  *)
(* that is the one step Tick.                                              *)
(*                                                                         *)
(* A voice is the line or the user of a channel.  ACSS and SCSS add and    *)
(* subtract, so as long as nothing is loud enough to clip the sums are     *)
(* linear in the voices, and sample by sample: it is enough to follow one  *)
(* sample of one voice.  A chunk is abstracted to how often that voice is  *)
(* in that sample, which is in the first half of the chunk or in the       *)
(* second.  No channel is muted or dialing.  On pseudo channels only the    *)
(* modes monitor and conf are modelled, on real ones also confann and      *)
(* realandpseudo.                                                          *)
(***************************************************************************)
EXTENDS Conferences

CONSTANTS
    LinkSlots,    \* size of conf_links
    MaxSpoken,    \* bound: in how many chunks a voice speaks before all is silent again
    MaxCalls      \* bound: how many calls users make

ASSUME MixAssumption == /\ LinkSlots \in Nat \ {0} /\ MaxSpoken \in Nat
                        /\ MaxCalls \in Nat

VARIABLES
    half,                           \* the half of the chunk that is followed
    voice,                          \* the voice that is followed, until it has died away
    prev, cur, next,                \* conf_sums_prev, conf_sums, conf_sums_next
    conflast, conflast1, conflast2,
    conf_links,
    steady,     \* auxiliary: ticks since a place, an alias or a link changed, up to 2
    placed,     \* auxiliary: the accumulator a conference had to itself at the last tick
    ahead,      \* auxiliary: voices that were put into next after the last rotation
    spoken,     \* auxiliary: chunks in which that voice spoke
    calls       \* auxiliary: calls made
sums == <<prev, cur, next>>
lasts == <<conflast, conflast1, conflast2>>
vars == <<conf_vars, half, voice, sums, lasts, conf_links, steady, placed, ahead, spoken, calls>>

Voices == (Reals \X {"line", "user"}) \cup (Pseudos \X {"user"})
Line(c) == <<c, "line">>
User(c) == <<c, "user">>

NoVoice == <<0, "nobody">>

Silence == 0
Said(S) == Cardinality(S)    \* how much the voices of S add to a sum

NoLink == [src |-> 0, dst |-> 0]
Slots  == 1 .. LinkSlots
maxlinks ==    \* recalc_maxlinks, which does not look at the last slot
    LET used == {l \in 1 .. LinkSlots - 1 : conf_links[l] # NoLink}
    IN  IF used = {} THEN 0 ELSE 1 + CHOOSE l \in used : \A k \in used : k <= l

(* The state of the mixer has its type; what the bounded voice is counted  *)
(* as never leaves the integers the accumulators stand for.                *)
MixTypeOK ==
    /\ TypeOK
    /\ half \in {1, 2}
    /\ voice \in Voices \cup {NoVoice} /\ (voice = NoVoice <=> spoken = 0)
    /\ \A s \in {prev, cur, next} : s \in [Aliases -> Int]
    /\ \A s \in {conflast, conflast1, conflast2} : s \in [Channels -> Int]
    /\ conf_links \in [Slots -> [src : 0 .. MaxConf, dst : 0 .. MaxConf]]
    /\ steady \in 0 .. 2
    /\ placed \in [Confs -> 0 .. MaxConf - 1] /\ ahead \in [Confs -> {0, 1}]
    /\ spoken \in 0 .. MaxSpoken
    /\ calls \in 0 .. MaxCalls

MixInit ==
    /\ Init /\ half \in {1, 2} /\ voice = NoVoice
    /\ prev = [a \in Aliases |-> Silence] /\ cur = prev /\ next = prev
    /\ conflast = [c \in Channels |-> Silence]
    /\ conflast1 = conflast /\ conflast2 = conflast
    /\ conf_links = [l \in Slots |-> NoLink]
    /\ steady = 0
    /\ placed = confalias /\ ahead = [x \in Confs |-> 0] /\ spoken = 0
    /\ calls = 0

-----------------------------------------------------------------------------
(* One chunk, by the steps the comment above dahdi_digit_mode numbers.     *)

Is(c, kind)   == confmode[c].kind = kind
Does(c, flag) == flag \in confmode[c].flags
InAlias(a, S) == {c \in S : _confn[c] = a}
RealIn   == {c \in registered \cap Reals   : IsConference(confmode[c])}
PseudoIn == {c \in registered \cap Pseudos : IsConference(confmode[c])}

Talkers  == {c \in RealIn : Does(c, "talk")}
PTalkers == {c \in PseudoIn : Does(c, "talk")}

(* 1. __dahdi_process_putaudio_chunk of the real channels                  *)
Received(voices) ==
    [a \in Aliases |-> next[a] + Said({Line(c) : c \in InAlias(a, Talkers)} \cap voices)]

(* 3. __dahdi_process_getaudio_chunk of the pseudo channels                *)
Written(voices) ==
    [a \in Aliases |->
        Received(voices)[a] + Said({User(c) : c \in InAlias(a, PTalkers)} \cap voices)]

(* 4. the links, in the order of their slots                               *)
Alias(x) == IF x \in Confs THEN confalias[x] ELSE 0
AddLink(s, l) ==
    LET z == Alias(conf_links[l].dst)
        y == Alias(conf_links[l].src)
    IN  IF z # 0 /\ y # 0 THEN [s EXCEPT ![z] = s[z] + s[y]] ELSE s
Linked(s) ==
    LET upto[l \in 0 .. maxlinks] == IF l = 0 THEN s ELSE AddLink(upto[l - 1], l)
    IN  upto[maxlinks]
Mixed(voices) == Linked(Written(voices))

(* 6. __dahdi_process_getaudio_chunk of the real channels, which only have *)
(* their turn after the rotation, puts users into the next sum.            *)
UserTalkers == {c \in RealIn : \/ Is(c, "confann")
                               \/ Is(c, "realandpseudo") /\ Does(c, "ptalk")}
Ahead(S, voices) == Said({User(c) : c \in S} \cap voices)

(* What SCSS takes out of the sum again.                                   *)
OwnVoice_LastChunk(c, voices) == conflast[c]    \* mutant: not saved anew
OwnVoice(c, voices) ==
    CASE c \in Talkers  -> Said({Line(c)} \cap voices)
      [] c \in PTalkers -> Said({User(c)} \cap voices)
      [] c \in (RealIn \cup PseudoIn) \ (Talkers \cup PTalkers) -> Silence
      [] OTHER -> conflast[c]

(* What a listener hears: the party on the line of a real channel, in 6.,  *)
(* and the user of a pseudo channel, in 5.                                 *)
Listeners == {c \in RealIn \cup PseudoIn : Does(c, "listen")}
Hears(c, voices) ==
    LET sum == Mixed(voices)[_confn[c]] - OwnVoice(c, voices)
    IN  IF Is(c, "conf") /\ c \in Reals THEN sum + Said({User(c)} \cap voices) ELSE sum

(* The user of a real channel in realandpseudo is served in 1., before the *)
(* rotation, from the sum of the tick before.                              *)
UserListeners == {c \in RealIn : Is(c, "realandpseudo") /\ Does(c, "plisten")}
UserHears(c) == cur[_confn[c]] - conflast2[c]

(* bigzaplock, chan->lock or chan_lock                                     *)
LocksHeld == Rebuilding \/ \E c \in Channels : pending[c].op = "open" \/ pending[c].conf # 0

(* A conference has an accumulator, and those who sum in it are its        *)
(* members.                                                                *)
Whole(x) == confalias[x] # 0 /\ InAlias(confalias[x], RealIn \cup PseudoIn) = Members(x)

(* Nothing is left of the voice that spoke.                                *)
Quiet == /\ \A s \in {prev, cur, next} : \A a \in Aliases : s[a] = Silence
         /\ \A s \in {conflast, conflast1, conflast2} : \A c \in Channels : s[c] = Silence

Tick(voices) ==
    /\ ~LocksHeld
    /\ spoken' = (IF Quiet THEN 0 ELSE spoken) + Cardinality(voices)
    /\ spoken' <= MaxSpoken
    /\ voice' = CASE voices # {} -> CHOOSE v \in voices : TRUE
                  [] voices = {} -> IF Quiet THEN NoVoice ELSE voice
    /\ prev' = cur
    /\ cur'  = Mixed(voices)
    /\ next' = [a \in Aliases |->
           (IF a < maxconfs THEN Silence ELSE prev[a])                   \* rotate_sums
               + Ahead(InAlias(a, UserTalkers), voices)]
    /\ conflast' = [c \in Channels |-> OwnVoice(c, voices)]
    /\ LET both == {c \in RealIn : Is(c, "realandpseudo")}
       IN  /\ conflast1' = [c \in Channels |->
                  IF c \in both THEN Ahead({c} \cap UserTalkers, voices) ELSE conflast1[c]]
           /\ conflast2' = [c \in Channels |->
                  IF c \notin both THEN conflast2[c]
                  ELSE IF c \in UserTalkers THEN conflast1[c] ELSE Silence]
    /\ steady' = IF UserListeners = {} THEN 0 ELSE IF steady < 2 THEN steady + 1 ELSE 2
    /\ placed' = [x \in Confs |-> IF Whole(x) THEN confalias[x] ELSE 0]
    /\ ahead'  = [x \in Confs |-> Ahead({c \in UserTalkers : confna[c] = x}, voices)]
    /\ UNCHANGED <<conf_vars, half, conf_links, calls>>

-----------------------------------------------------------------------------

Counted == calls < MaxCalls /\ calls' = calls + 1

Forget(S) ==
    /\ conflast'  = [c \in Channels |-> IF c \in S THEN Silence ELSE conflast[c]]
    /\ conflast1' = [c \in Channels |-> IF c \in S THEN Silence ELSE conflast1[c]]
    /\ conflast2' = [c \in Channels |-> IF c \in S THEN Silence ELSE conflast2[c]]

Moved == <<confna, confmode, _confn, confalias>>' # <<confna, confmode, _confn, confalias>>

(* DAHDI_SETCONF clears DAHDI_MAX_CHUNKSIZE bytes of the last added        *)
(* samples, which is the first half of them, when it changes confna only.  *)
MixSetConf ==
    /\ Counted /\ SetConf
    /\ Forget({c \in Channels : half = 1 /\ confna'[c] # confna[c]})
    /\ steady' = IF Moved THEN 0 ELSE steady
    /\ UNCHANGED <<half, voice, sums, conf_links, placed, ahead, spoken>>

(* close_channel and initialize_channel clear all of them before they let  *)
(* go of the lock, and a pseudo channel that is released is freed.         *)
Closed == [op |-> "close", conf |-> 0]
Begins == \E c \in Channels : \/ c \in registered' \ registered
                              \/ pending[c] = Idle /\ pending'[c] # Idle
MixLifecycle ==
    /\ Lifecycle /\ IF Begins THEN Counted ELSE UNCHANGED calls
    /\ Forget({c \in Channels : \/ (pending[c].op = "open" /\ pending'[c] = Idle)
                                 \/ (pending[c] # Closed /\ pending'[c] = Closed)
                                 \/ c \in registered \ registered'})
    /\ steady' = IF Moved THEN 0 ELSE steady
    /\ UNCHANGED <<half, voice, sums, conf_links, placed, ahead, spoken>>

(* DAHDI_CONFLINK                                                          *)
Link(src, dst) ==
    LET free == {l \in Slots : conf_links[l] = NoLink}
    IN  /\ src # dst
        /\ \A l \in Slots : conf_links[l] # [src |-> src, dst |-> dst]     \* -EEXIST
        /\ free # {}                                                        \* -ENOSPC
        /\ conf_links' = [conf_links EXCEPT
               ![CHOOSE l \in free : \A k \in free : l <= k] = [src |-> src, dst |-> dst]]
Unlink(l) == /\ conf_links[l] # NoLink
             /\ conf_links' = [conf_links EXCEPT ![l] = NoLink]
UnlinkAll == conf_links' = [l \in Slots |-> NoLink]

ConfLink ==
    /\ Counted
    /\ \E c \in open : pending[c] = Idle
    /\ \/ \E src, dst \in Aliases : Link(src, dst)
       \/ \E l \in Slots : Unlink(l)
       \/ UnlinkAll
    /\ steady' = 0
    /\ UNCHANGED <<conf_vars, half, voice, sums, lasts, placed, ahead, spoken>>

(* The voices that are put into some sum.  Bound: only those speak, one    *)
(* until it has died away.                                                 *)
Taken == {Line(c) : c \in Talkers} \cup {User(c) : c \in PTalkers \cup UserTalkers}
Chunk == \/ Tick({})
         \/ \E v \in Taken : (Quiet \/ voice = v) /\ Tick({v})
MixNext == MixSetConf \/ MixLifecycle \/ ConfLink \/ Chunk
MixSpec == MixInit /\ [][MixNext]_vars

-----------------------------------------------------------------------------

SomeVoices == {{}} \cup {{v} : v \in Voices}

(* A conference has its accumulator to itself, and had at the last tick.   *)
Settled(x) == Whole(x) /\ placed[x] = confalias[x]

(* What the members of x put into the next chunk's sum.                    *)
Speakers(x) ==      {Line(d) : d \in Talkers \cap Members(x)}
               \cup {User(d) : d \in PTalkers \cap Members(x)}
SaidIn(x, voices) == Said(Speakers(x) \cap voices) + ahead[x]

(* What arrives in x over its links, once from each conference; no more    *)
(* than one voice speaks in a chunk.                                       *)
Sources(x) == {conf_links[l].src : l \in {k \in Slots : conf_links[k].dst = x}}
Arriving(x) == {y \in Sources(x) : Alias(y) # 0}
SaidInSources(x, voices) ==
    Said({y \in Arriving(x) : Speakers(y) \cap voices # {}})
      + Said({y \in Arriving(x) : ahead[y] = 1})

(* Every listener hears all that the other members of its conference and   *)
(* the members of the conferences linked to it say in a chunk, each once,  *)
(* and nothing of what it says itself, whatever channels, conferences and  *)
(* links come and go between two chunks; given that the conferences had    *)
(* their accumulators to themselves since before the last rotation         *)
(* (AccumulatorsApart says when they do not), and that links form no       *)
(* chains.                                                                 *)
HearsOthers ==
    \A c \in Listeners : LET x == confna[c] IN
        ( /\ ~LocksHeld
          /\ Settled(x)
          /\ \A y \in Sources(x) : Sources(y) = {} /\ (confalias[y] # 0 => Settled(y))
          /\ conf_links[LinkSlots] = NoLink
        ) => \A voices \in SomeVoices :
                Hears(c, voices) =
                    SaidIn(x, voices) + SaidInSources(x, voices)
                      - Said({IF c \in Reals THEN Line(c) ELSE User(c)} \cap voices
                                  \cap IF Does(c, "talk") THEN Voices ELSE {})
                      + Said({User(c)} \cap voices
                                  \cap IF c \in Reals /\ Is(c, "conf") THEN Voices ELSE {})

(* The user of a channel in realandpseudo, who hears the conference a      *)
(* chunk later than the line, does not hear itself either.                 *)
NoUserEcho ==
    \A c \in UserListeners :
        ( /\ ~LocksHeld
          /\ steady = 2 /\ InPlace(c)
          /\ \A l \in Slots : conf_links[l] = NoLink
        ) => (voice = User(c) => UserHears(c) = 0)

(* The line and the user of a channel: what both of them hear is right.    *)
HearsRight == HearsOthers /\ NoUserEcho

(* "One for the current sample chunk" (the comment on the accumulators):   *)
(* when nobody says anything, nothing but what was put in ahead is heard.  *)
OnlyThisChunk ==
    \A c \in Listeners :
        (~LocksHeld /\ Sources(confna[c]) = {}) => Hears(c, {}) = ahead[confna[c]]
=============================================================================

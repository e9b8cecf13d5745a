----------------------------- MODULE SpanProofs -----------------------------
(***************************************************************************)
(* Proofs about spans and hyperchannels - types, the timing master, the    *)
(* lists of slaves - and about files and the channels they open: the spans *)
(* behave as in module Hyperchannels, whatever files do, a channel that is *)
(* open belongs to one file, and what is in use is counted and kept.  All  *)
(* is for any number of spans, channels, files, zones, modules, callers.   *)
(***************************************************************************)
EXTENDS ChannelFiles, FiniteSetTheorems, WellFoundedInduction, TLAPS

\* What unregistering leaves behind between its steps: until the new master is
\* written the old one may be the span that is gone.
UnplugInv ==
    /\ \A n \in Listed : n < maxspans
    /\ unplug.at = "idle" => master \in Registered \/ (master = NoSpan /\ Registered = {})
    /\ unplug.at = "choose" => master \in Registered \/ master = unplug.span
    /\ unplug.at = "commit" =>
           /\ unplug.new \in Registered \/ (unplug.new = NoSpan /\ Registered = {})
           /\ \A n \in Listed : n < unplug.max

\* The span part of the inductive invariant.
SpanInv == SpanTypeOK /\ UnplugInv

\* A CHANCONFIG under way works on channels that are there.
ConfigPresent == config.at # "idle" => Present(config.chan) /\ Present(config.new)

\* The inductive invariant.
IInv ==
    /\ SpanInv
    /\ HyperTypeOK
    /\ ChainsEnd
    /\ MastersPresent
    /\ ConfigPresent

-----------------------------------------------------------------------------

LEMMA LeastNumber ==
    ASSUME NEW S \in SUBSET Nat, S # {}
    PROVE  \E n \in S : \A k \in S : n <= k
<1>1. PICK n \in S : \A k \in S : <<k, n>> \notin OpToRel(<, Nat)
  BY WFMin, NatLessThanWellFounded, Zenon
<1>2. \A k \in S : ~ (k < n)
  BY <1>1, Zenon DEF OpToRel
<1> QED BY <1>2, SMT

LEMMA GreatestNumber ==
    ASSUME NEW N \in Nat, NEW S \in SUBSET (0 .. N), S # {}
    PROVE  \E n \in S : \A k \in S : k <= n
<1> DEFINE T == {N - k : k \in S}
<1>1. T \in SUBSET Nat /\ T # {}
  <2>1. \A k \in S : N - k \in Nat
    BY SMT
  <2> QED BY <2>1
<1>2. PICK t \in T : \A u \in T : t <= u
  BY <1>1, LeastNumber
<1>3. PICK n \in S : t = N - n
  BY <1>2
<1>4. ASSUME NEW k \in S PROVE k <= n
  <2>1. N - n <= N - k
    BY <1>2, <1>3
  <2> QED BY <2>1, SMT
<1> QED BY <1>4

\* The least number in use, which Successor and Notify take, is in use.
LEMMA FirstIsListed ==
    ASSUME NEW S \in SUBSET Numbers, S # {}
    PROVE  (CHOOSE n \in S : \A k \in S : n <= k) \in S
<1>1. S \in SUBSET Nat
  BY SpanAssumption DEF Numbers
<1> QED BY <1>1, LeastNumber

LEMMA HighestCovers ==
    ASSUME NEW S \in SUBSET Numbers
    PROVE  Highest(S) \in 0 .. MAX_SPANS /\ \A n \in S : n < Highest(S)
<1>1. CASE S = {}
  BY <1>1, SpanAssumption DEF Highest
<1>2. CASE S # {}
  <2> DEFINE m == CHOOSE n \in S : \A k \in S : k <= n
  <2>1. MAX_SPANS - 1 \in Nat /\ S \in SUBSET (0 .. MAX_SPANS - 1)
    BY SpanAssumption DEF Numbers
  <2>2. m \in S /\ \A k \in S : k <= m
    <3>1. \E n \in S : \A k \in S : k <= n
      BY <2>1, <1>2, GreatestNumber
    <3> QED BY <3>1
  <2>3. Highest(S) = 1 + m
    BY <1>2 DEF Highest
  <2> HIDE DEF m
  <2> QED BY <2>1, <2>2, <2>3, SpanAssumption, SMT
<1> QED BY <1>1, <1>2

LEMMA RegisteredAreSpans ==
    ASSUME SpanTypeOK
    PROVE  /\ Listed \in SUBSET Numbers
           /\ Registered \in SUBSET Spans
           /\ \A n \in Listed : spans[n] \in Registered
           /\ Listed = {} <=> Registered = {}
BY DEF SpanTypeOK, Listed, Registered

-----------------------------------------------------------------------------
(* Each action keeps the span part.                                        *)

LEMMA InitSpanInv == SpanInit => SpanInv
<1> SUFFICES ASSUME SpanInit PROVE SpanInv
  OBVIOUS
<1>1. SpanTypeOK
  BY SpanAssumption DEF SpanInit, SpanTypeOK, NoUnplug, Alarms
<1>2. Listed = {} /\ Registered = {}
  BY DEF SpanInit, Listed, Registered
<1>3. UnplugInv
  BY <1>2 DEF SpanInit, UnplugInv, NoUnplug
<1> QED BY <1>1, <1>3 DEF SpanInv

LEMMA RegisterSpanInv ==
    ASSUME SpanInv, NEW s \in Spans, NEW prefmaster \in BOOLEAN, Register(s, prefmaster)
    PROVE  SpanInv'
<1> DEFINE free == {n \in Numbers : spans[n] = NoSpan}
           x    == CHOOSE n \in free : \A k \in free : n <= k
<1> USE DEF SpanInv
<1>1. free \in SUBSET Numbers /\ free # {} /\ unplug = NoUnplug
  BY DEF Register
<1>2. x \in free
  BY <1>1, FirstIsListed
<1>3. /\ spans' = [spans EXCEPT ![x] = s]
      /\ maxspans' = IF maxspans < x + 1 THEN x + 1 ELSE maxspans
      /\ master' = IF master = NoSpan \/ prefmaster THEN s ELSE master
      /\ running' = running \ {s}
      /\ alarms' = [alarms EXCEPT ![s] = {}]
      /\ lastalarms' = [lastalarms EXCEPT ![s] = FALSE]
      /\ maint'  = [maint EXCEPT ![s] = "none"]
      /\ UNCHANGED <<waiting, unplug>>
  BY DEF Register
<1> HIDE DEF x
<1>4. x \in Numbers /\ x + 1 \in 0 .. MAX_SPANS /\ Numbers \subseteq Nat
  BY <1>2, SpanAssumption DEF Numbers
<1>5. SpanTypeOK'
  BY <1>3, <1>4, SpanAssumption DEF SpanTypeOK
<1>6. Listed' = Listed \cup {x}
  BY <1>3, <1>4, SpanAssumption DEF SpanTypeOK, Listed
<1>7. s \in Registered' /\ Registered \subseteq Registered'
  BY <1>2, <1>3, <1>4, SpanAssumption DEF SpanTypeOK, Listed, Registered
<1>8. \A n \in Listed' : n < maxspans'
  <2>1. ASSUME NEW n \in Listed PROVE n < maxspans'
    BY <1>3, <1>4, SpanAssumption DEF SpanTypeOK, UnplugInv, Listed, Numbers
  <2>2. x < maxspans'
    BY <1>3, <1>4, SpanAssumption DEF SpanTypeOK, Numbers
  <2> QED BY <1>6, <2>1, <2>2
<1>9. master' \in Registered'
  BY <1>1, <1>3, <1>7 DEF UnplugInv, NoUnplug
<1>10. UnplugInv'
  BY <1>1, <1>3, <1>8, <1>9 DEF UnplugInv, NoUnplug
<1> QED BY <1>5, <1>10

LEMMA UnregisterSpanInv ==
    ASSUME SpanInv, NEW s \in Spans, Unregister(s)
    PROVE  SpanInv' /\ Registered' = Registered \ {s} /\ s \in Registered
<1> USE DEF SpanInv
<1>1. SpanTypeOK'
  BY SpanAssumption DEF Unregister, SpanTypeOK, NoUnplug
<1>2. Listed' = {n \in Listed : spans[n] # s}
  BY SpanAssumption DEF Unregister, Listed, SpanTypeOK
<1>3. Registered' = Registered \ {s}
  BY <1>2 DEF Unregister, Listed, Registered, SpanTypeOK
<1>4. UnplugInv'
  BY <1>2, <1>3 DEF Unregister, UnplugInv, NoUnplug
<1> QED BY <1>1, <1>3, <1>4 DEF Unregister

LEMMA ChooseMasterInv ==
    ASSUME SpanInv, ChooseMaster
    PROVE  SpanInv'
<1> USE DEF SpanInv
<1>1. Listed \in SUBSET Numbers /\ Registered \in SUBSET Spans
      /\ (\A n \in Listed : spans[n] \in Registered) /\ (Listed = {} <=> Registered = {})
  BY RegisteredAreSpans
<1>2. Highest(Listed) \in 0 .. MAX_SPANS /\ \A n \in Listed : n < Highest(Listed)
  BY <1>1, HighestCovers
<1>3. \/ Successor(unplug.span) \in Registered
      \/ Successor(unplug.span) = NoSpan /\ Registered = {}
  <2>1. CASE master # unplug.span
    BY <2>1 DEF Successor, ChooseMaster, UnplugInv
  <2>2. CASE master = unplug.span /\ Listed = {}
    BY <2>2, <1>1 DEF Successor
  <2>3. CASE master = unplug.span /\ Listed # {}
    BY <2>3, <1>1, FirstIsListed DEF Successor
  <2> QED BY <2>1, <2>2, <2>3
<1>4. unplug' = [unplug EXCEPT !.at = "commit", !.new = Successor(unplug.span),
                               !.max = Highest(Listed)]
      /\ UNCHANGED <<spans, maxspans, master, running, alarms, lastalarms, maint, waiting>>
  BY DEF ChooseMaster
<1>5. SpanTypeOK'
  BY <1>1, <1>2, <1>3, <1>4 DEF SpanTypeOK
<1>6. Listed' = Listed /\ Registered' = Registered
  BY <1>4 DEF Listed, Registered
<1>7. unplug'.at = "commit" /\ unplug'.new = Successor(unplug.span) /\ unplug'.max = Highest(Listed)
  BY <1>4 DEF SpanTypeOK
<1>8. UnplugInv'
  BY <1>2, <1>3, <1>4, <1>6, <1>7 DEF UnplugInv
<1> QED BY <1>5, <1>8

LEMMA CommitMasterInv ==
    ASSUME SpanInv, CommitMaster
    PROVE  SpanInv'
<1> USE DEF SpanInv
<1>1. SpanTypeOK'
  BY SpanAssumption DEF CommitMaster, SpanTypeOK, NoUnplug
<1>2. Listed' = Listed /\ Registered' = Registered
  BY DEF CommitMaster, Listed, Registered
<1>3. UnplugInv'
  BY <1>2 DEF CommitMaster, UnplugInv, NoUnplug
<1> QED BY <1>1, <1>3

\* A report changes no more than alarms and the master, and takes a registered one.
LEMMA NotifyKeeps ==
    ASSUME SpanInv, NEW s \in Spans, NEW as \in SUBSET Alarms, NEW m, Notify(s, as, m)
    PROVE  /\ alarms' \in [Spans -> SUBSET Alarms]
           /\ lastalarms' \in [Spans -> BOOLEAN]
           /\ master' = master \/ master' \in Registered
<1> USE DEF SpanInv
<1> DEFINE al   == [alarms EXCEPT ![s] = Looped(as, m)]
           fit  == {n \in Listed : n < maxspans /\ Healthy(spans[n], al)}
<1>1. alarms' = al /\ al \in [Spans -> SUBSET Alarms]
  BY DEF Notify, Looped, Alarms, SpanTypeOK
<1>2. lastalarms' = lastalarms \/ lastalarms' = [lastalarms EXCEPT ![s] = al[s] # {}]
  BY DEF Notify
<1>3. lastalarms' \in [Spans -> BOOLEAN]
  BY <1>2 DEF SpanTypeOK
<1>4. \/ master' = master
      \/ fit # {} /\ master' = spans[CHOOSE n \in fit : \A k \in fit : n <= k]
  BY DEF Notify
<1>5. fit \in SUBSET Listed /\ Listed \in SUBSET Numbers /\ \A n \in Listed : spans[n] \in Registered
  BY RegisteredAreSpans
<1>6. CASE master' = master
  BY <1>1, <1>3, <1>6
<1>7. CASE fit # {} /\ master' = spans[CHOOSE n \in fit : \A k \in fit : n <= k]
  BY <1>1, <1>3, <1>5, <1>7, FirstIsListed
<1> QED BY <1>4, <1>6, <1>7

\* What all steps within a registered span share.
LEMMA SameTableInv ==
    ASSUME SpanInv, UNCHANGED <<spans, maxspans, unplug>>,
           master' = master \/ master' \in Registered, SpanTypeOK'
    PROVE  SpanInv'
<1>1. Listed' = Listed /\ Registered' = Registered
  BY DEF Listed, Registered
<1>2. UnplugInv'
  BY <1>1 DEF SpanInv, UnplugInv
<1> QED BY <1>2 DEF SpanInv

LEMMA SpanStepInv ==
    ASSUME SpanInv, SpanStep
    PROVE  SpanInv' /\ UNCHANGED <<spans, hyper_vars>>
<1> USE DEF SpanInv
<1>0. UNCHANGED hyper_vars
  BY DEF SpanStep
<1> SUFFICES ASSUME NEW s \in Spans,
                    \/ Startup(s) \/ Shutdown(s) \/ ReportAlarm(s)
                    \/ (\E m \in {"none", "loop"} : Maint(s, m))
                    \/ MaintTimed(s) \/ MaintExpires(s) \/ MaintReturns(s)
             PROVE  SpanInv' /\ UNCHANGED spans
  BY <1>0 DEF SpanStep
<1>1. CASE Startup(s)
  <2>1. SpanTypeOK' /\ UNCHANGED <<spans, maxspans, unplug, master>>
    BY <1>1 DEF Startup, SpanTypeOK
  <2> QED BY <2>1, SameTableInv
<1>2. CASE Shutdown(s)
  <2>1. SpanTypeOK' /\ UNCHANGED <<spans, maxspans, unplug, master>>
    BY <1>2 DEF Shutdown, SpanTypeOK
  <2> QED BY <2>1, SameTableInv
<1>3. CASE ReportAlarm(s)
  <2>1. PICK line \in {{}, {"line"}} : Notify(s, (alarms[s] \ {"line"}) \cup line, maint[s])
    BY <1>3 DEF ReportAlarm
  <2>2. (alarms[s] \ {"line"}) \cup line \in SUBSET Alarms
    BY DEF SpanTypeOK, Alarms
  <2>3. /\ alarms' \in [Spans -> SUBSET Alarms] /\ lastalarms' \in [Spans -> BOOLEAN]
        /\ master' = master \/ master' \in Registered
    BY <2>1, <2>2, NotifyKeeps
  <2>4. SpanTypeOK' /\ UNCHANGED <<spans, maxspans, unplug>>
    BY <1>3, <2>3, RegisteredAreSpans DEF ReportAlarm, SpanTypeOK
  <2> QED BY <2>3, <2>4, SameTableInv
<1>4. ASSUME NEW m \in {"none", "loop"}, Maint(s, m) PROVE SpanInv' /\ UNCHANGED spans
  <2>1. maint' \in [Spans -> {"none", "loop", "timed"}]
    BY <1>4 DEF Maint, SpanTypeOK
  <2>2. alarms[s] \in SUBSET Alarms
    BY DEF SpanTypeOK
  <2>3. /\ alarms' \in [Spans -> SUBSET Alarms] /\ lastalarms' \in [Spans -> BOOLEAN]
        /\ master' = master \/ master' \in Registered
    <3>1. CASE Notify(s, alarms[s], maint'[s])
      BY <3>1, <2>2, NotifyKeeps
    <3>2. CASE UNCHANGED <<alarms, lastalarms, master>>
      BY <3>2 DEF SpanTypeOK
    <3> QED BY <1>4, <3>1, <3>2 DEF Maint
  <2>4. SpanTypeOK' /\ UNCHANGED <<spans, maxspans, unplug>>
    BY <1>4, <2>1, <2>3, RegisteredAreSpans DEF Maint, SpanTypeOK
  <2> QED BY <2>3, <2>4, SameTableInv
<1>5. CASE MaintTimed(s)
  <2>1. SpanTypeOK' /\ UNCHANGED <<spans, maxspans, unplug, master>>
    BY <1>5 DEF MaintTimed, SpanTypeOK
  <2> QED BY <2>1, SameTableInv
<1>6. CASE MaintExpires(s)
  <2>1. SpanTypeOK' /\ UNCHANGED <<spans, maxspans, unplug, master>>
    BY <1>6 DEF MaintExpires, SpanTypeOK
  <2> QED BY <2>1, SameTableInv
<1>7. CASE MaintReturns(s)
  <2>1. alarms[s] \in SUBSET Alarms
    BY DEF SpanTypeOK
  <2>2. /\ alarms' \in [Spans -> SUBSET Alarms] /\ lastalarms' \in [Spans -> BOOLEAN]
        /\ master' = master \/ master' \in Registered
    <3>1. CASE Notify(s, alarms[s], maint[s])
      BY <3>1, <2>1, NotifyKeeps
    <3>2. CASE UNCHANGED <<alarms, lastalarms, master>>
      BY <3>2 DEF SpanTypeOK
    <3> QED BY <1>7, <3>1, <3>2 DEF MaintReturns
  <2>3. SpanTypeOK' /\ UNCHANGED <<spans, maxspans, unplug>>
    BY <1>7, <2>2, RegisteredAreSpans DEF MaintReturns, SpanTypeOK
  <2> QED BY <2>2, <2>3, SameTableInv
<1> QED BY <1>1, <1>2, <1>3, <1>4, <1>5, <1>6, <1>7

-----------------------------------------------------------------------------
(* The lists of slaves                                                     *)

LEMMA ChannelsOfSpans ==
    ASSUME NEW c
    PROVE  c \in Channels <=> /\ c = <<c[1], c[2]>> /\ c[1] \in Spans
                              /\ c[2] \in 1 .. Size[c[1]]
<1>1. ASSUME c \in Channels
      PROVE  c = <<c[1], c[2]>> /\ c[1] \in Spans /\ c[2] \in 1 .. Size[c[1]]
  <2>1. c \in Spans \X UNION {1 .. Size[s] : s \in Spans} /\ c[2] <= Size[c[1]]
    BY <1>1 DEF Channels
  <2>2. PICK s \in Spans : c[2] \in 1 .. Size[s]
    BY <2>1
  <2> QED BY <2>1, <2>2, SizeAssumption
<1>2. ASSUME c = <<c[1], c[2]>>, c[1] \in Spans, c[2] \in 1 .. Size[c[1]]
      PROVE  c \in Channels
  <2>1. c[2] \in UNION {1 .. Size[s] : s \in Spans}
    BY <1>2
  <2> QED BY <1>2, <2>1, SizeAssumption DEF Channels
<1> QED BY <1>1, <1>2

\* chans[x] of a span is the channel at position x + 1.
LEMMA ChanAtPosition ==
    ASSUME NEW s \in Spans, NEW x \in Nat, x < Size[s]
    PROVE  ChanAt(s, x) \in Channels /\ SpanOf(ChanAt(s, x)) = s /\ chanpos(ChanAt(s, x)) = x + 1
<1> DEFINE d == <<s, x + 1>>
<1>1. d = <<d[1], d[2]>> /\ d[1] = s /\ d[2] = x + 1 /\ x + 1 \in 1 .. Size[s]
  BY SizeAssumption
<1>2. d \in Channels
  BY <1>1, ChannelsOfSpans
<1> QED BY <1>1, <1>2 DEF ChanAt, SpanOf, chanpos

LEMMA NoChanIsNone == NoChan \notin Channels
<1>1. NoSpan \notin Spans
  BY SpanAssumption
<1> QED BY <1>1, ChannelsOfSpans DEF NoChan

LEMMA InitIInv == HyperInit => IInv
<1> SUFFICES ASSUME HyperInit PROVE IInv
  OBVIOUS
<1>1. SpanInv
  BY InitSpanInv DEF HyperInit
<1>2. HyperTypeOK
  <2>1. SpanTypeOK /\ chmaster \in [Channels -> Channels] /\ nextslave \in [Channels -> Nat]
    BY <1>1 DEF HyperInit, SpanInv
  <2> QED BY <2>1 DEF HyperInit, HyperTypeOK, NoConfig
<1>3. ChainsEnd /\ MastersPresent /\ ConfigPresent
  BY DEF HyperInit, ChainsEnd, MastersPresent, ConfigPresent, NoConfig
<1> QED BY <1>1, <1>2, <1>3 DEF IInv
\* Steps that leave the lists and the channels' presence alone
LEMMA SameListsInv ==
    ASSUME IInv, SpanInv', UNCHANGED hyper_vars, Registered' = Registered
    PROVE  IInv'
<1>1. UNCHANGED <<chmaster, nextslave, config, busy, plain>>
  BY DEF hyper_vars
<1>2. HyperTypeOK'
  BY <1>1 DEF IInv, HyperTypeOK, SpanInv
<1>3. ChainsEnd'
  BY <1>1 DEF IInv, ChainsEnd
<1>4. MastersPresent' /\ ConfigPresent'
  BY <1>1 DEF IInv, MastersPresent, ConfigPresent, Present
<1> QED BY <1>2, <1>3, <1>4 DEF IInv

LEMMA RegisteredMore ==
    ASSUME SpanInv, NEW s \in Spans, RegisterSpan(s)
    PROVE  Registered' = Registered \cup {s}
<1>1. PICK prefmaster \in BOOLEAN : Register(s, prefmaster)
  BY DEF RegisterSpan
<1> DEFINE free == {n \in Numbers : spans[n] = NoSpan}
           x    == CHOOSE n \in free : \A k \in free : n <= k
<1>2. free \in SUBSET Numbers /\ free # {} /\ spans' = [spans EXCEPT ![x] = s]
  BY <1>1 DEF Register
<1>3. x \in free
  BY <1>2, FirstIsListed
<1> HIDE DEF x
<1>4. x \in Numbers /\ spans[x] = NoSpan
  BY <1>3
<1>5. spans \in [Numbers -> Spans \cup {NoSpan}] /\ s # NoSpan
  BY SpanAssumption DEF SpanInv, SpanTypeOK
<1> QED BY <1>2, <1>4, <1>5 DEF Registered, Listed

LEMMA RegisterIInv ==
    ASSUME IInv, NEW s \in Spans, RegisterSpan(s)
    PROVE  IInv'
<1>1. PICK prefmaster \in BOOLEAN : Register(s, prefmaster)
  BY DEF RegisterSpan
<1>2. SpanInv'
  BY <1>1, RegisterSpanInv DEF IInv
<1>3. Registered' = Registered \cup {s}
  BY RegisteredMore DEF IInv
<1>4. /\ chmaster'  = [c \in Channels |-> IF SpanOf(c) = s THEN c ELSE chmaster[c]]
      /\ nextslave' = [c \in Channels |-> IF SpanOf(c) = s THEN 0 ELSE nextslave[c]]
      /\ UNCHANGED <<config, busy, plain>> /\ config = NoConfig
  BY DEF RegisterSpan
<1>5. HyperTypeOK'
  <2>1. chmaster' \in [Channels -> Channels] /\ nextslave' \in [Channels -> Nat]
    BY <1>4 DEF IInv, HyperTypeOK
  <2>2. \A c \in Channels : nextslave'[c] # 0 => nextslave'[c] < Size[SpanOf(c)]
    BY <1>4 DEF IInv, HyperTypeOK
  <2> QED BY <1>2, <1>4, <2>1, <2>2 DEF IInv, HyperTypeOK, SpanInv
<1>6. ChainsEnd'
  BY <1>4 DEF IInv, ChainsEnd
<1>7. MastersPresent'
  BY <1>3, <1>4 DEF IInv, HyperTypeOK, MastersPresent, Present
<1>8. ConfigPresent'
  BY <1>4 DEF ConfigPresent, NoConfig
<1> QED BY <1>2, <1>5, <1>6, <1>7, <1>8 DEF IInv

LEMMA UnregisterIInv ==
    ASSUME IInv, NEW s \in Spans, UnregisterSpan(s)
    PROVE  IInv'
<1>1. SpanInv' /\ Registered' = Registered \ {s}
  BY UnregisterSpanInv DEF IInv, UnregisterSpan
<1>2. /\ chmaster' = [c \in Channels |-> IF Orphan(c, s) THEN c ELSE chmaster[c]]
      /\ UNCHANGED <<nextslave, config, busy, plain>> /\ config = NoConfig
  BY DEF UnregisterSpan
<1>3. HyperTypeOK'
  <2>1. chmaster' \in [Channels -> Channels]
    BY <1>2 DEF IInv, HyperTypeOK
  <2> QED BY <1>1, <1>2, <2>1 DEF IInv, HyperTypeOK, SpanInv
<1>4. ChainsEnd'
  BY <1>2 DEF IInv, ChainsEnd
<1>5. MastersPresent'
  <2> SUFFICES ASSUME NEW c \in Channels, Present(c)'
               PROVE  SpanOf(chmaster'[c]) \in Registered'
    BY DEF MastersPresent, Present
  <2>1. SpanOf(c) \in Registered /\ SpanOf(c) # s
    BY <1>1 DEF Present
  <2>2. SpanOf(chmaster[c]) \in Registered
    BY <2>1 DEF IInv, MastersPresent, Present
  <2>3. CASE Orphan(c, s)
    BY <1>1, <1>2, <2>1, <2>3
  <2>4. CASE ~ Orphan(c, s)
    BY <1>1, <1>2, <2>2, <2>4 DEF Orphan
  <2> QED BY <2>3, <2>4
<1>6. ConfigPresent'
  BY <1>2 DEF ConfigPresent, NoConfig
<1> QED BY <1>1, <1>3, <1>4, <1>5, <1>6 DEF IInv

\* Steps of a CHANCONFIG leave the spans alone.
LEMMA SameSpansInv ==
    ASSUME IInv, UNCHANGED span_vars
    PROVE  SpanInv' /\ Registered' = Registered
BY DEF IInv, SpanInv, SpanTypeOK, UnplugInv, span_vars, Listed, Registered

LEMMA ChanConfigIInv ==
    ASSUME IInv, NEW c \in Channels, NEW m \in Channels, NEW ok \in BOOLEAN, ChanConfig(c, m, ok)
    PROVE  IInv'
<1>1. SpanInv' /\ Registered' = Registered
  BY SameSpansInv DEF ChanConfig
<1>2. config' = [NoConfig EXCEPT !.at = "detach", !.chan = c, !.new = m, !.ok = ok]
      /\ UNCHANGED <<chmaster, nextslave, busy>> /\ Present(c) /\ Present(m)
  BY DEF ChanConfig
<1>3. plain' \in BOOLEAN
  BY Zenon DEF ChanConfig
<1>4. HyperTypeOK'
  BY <1>1, <1>2, <1>3 DEF IInv, HyperTypeOK, SpanInv, NoConfig
<1>5. ChainsEnd' /\ MastersPresent'
  BY <1>1, <1>2 DEF IInv, ChainsEnd, MastersPresent, Present
<1>6. ConfigPresent'
  BY <1>1, <1>2 DEF ConfigPresent, Present, NoConfig
<1> QED BY <1>1, <1>4, <1>5, <1>6 DEF IInv

\* recalc_slaves begins behind the head of the list.
LEMMA RecalcBegins ==
    ASSUME HyperTypeOK, NEW where \in {"unlink", "link"}, NEW head \in Channels, config' = Recalc(where, head),
           config.at # "idle"
    PROVE  /\ config' \in [at : {"idle", "detach", "unlink", "attach", "link"},
                   chan : Channels \cup {NoChan}, new : Channels \cup {NoChan}, ok : BOOLEAN,
                   head : Channels \cup {NoChan}, x : Nat, last : Channels \cup {NoChan}]
           /\ config'.chan = config.chan /\ config'.new = config.new
           /\ config'.at = where /\ config'.head = head /\ config'.last = head
           /\ config'.x = chanpos(head)
           /\ chanpos(head) \in chanpos(head) .. Size[SpanOf(head)]
<1>1. head[1] \in Spans /\ head[2] \in 1 .. Size[head[1]]
  BY ChannelsOfSpans
<1>2. chanpos(head) \in Nat /\ chanpos(head) \in chanpos(head) .. Size[SpanOf(head)]
  BY <1>1, SizeAssumption DEF chanpos, SpanOf
<1> QED BY <1>2 DEF HyperTypeOK, Recalc, First
LEMMA DetachIInv ==
    ASSUME IInv, Detach
    PROVE  IInv'
<1> DEFINE c == config.chan
<1>1. SpanInv' /\ Registered' = Registered /\ UNCHANGED <<busy, plain>>
  BY SameSpansInv DEF Detach
<1>2. HyperTypeOK /\ config.at = "detach" /\ c \in Channels /\ Present(c) /\ Present(config.new)
  BY DEF Detach, IInv, HyperTypeOK, ConfigPresent
<1>3. CASE chmaster[c] = c
  <2>1. config' = [config EXCEPT !.at = "attach"] /\ UNCHANGED <<chmaster, nextslave>>
    BY <1>3 DEF Detach
  <2>2. HyperTypeOK'
    BY <1>1, <1>2, <2>1 DEF HyperTypeOK, SpanInv
  <2>3. ChainsEnd' /\ MastersPresent' /\ ConfigPresent'
    BY <1>1, <1>2, <2>1 DEF IInv, HyperTypeOK, ChainsEnd, MastersPresent, ConfigPresent, Present
  <2> QED BY <1>1, <2>2, <2>3 DEF IInv
<1>4. CASE chmaster[c] # c
  <2>1. /\ config' = Recalc("unlink", chmaster[c])
        /\ chmaster'  = [chmaster EXCEPT ![c] = c]
        /\ nextslave' = [nextslave EXCEPT ![c] = 0]
    BY <1>4 DEF Detach
  <2>2. chmaster[c] \in Channels
    BY <1>2 DEF HyperTypeOK
  <2>3. /\ config' \in [at : {"idle", "detach", "unlink", "attach", "link"},
                   chan : Channels \cup {NoChan}, new : Channels \cup {NoChan}, ok : BOOLEAN,
                   head : Channels \cup {NoChan}, x : Nat, last : Channels \cup {NoChan}]
        /\ config'.chan = config.chan /\ config'.new = config.new
        /\ config'.at = "unlink" /\ config'.head = chmaster[c] /\ config'.last = chmaster[c]
        /\ config'.x = chanpos(chmaster[c])
        /\ chanpos(chmaster[c]) \in chanpos(chmaster[c]) .. Size[SpanOf(chmaster[c])]
    BY <1>2, <2>1, <2>2, RecalcBegins
  <2>4. chmaster' \in [Channels -> Channels] /\ nextslave' \in [Channels -> Nat]
        /\ (\A d \in Channels : nextslave'[d] # 0 => nextslave'[d] < Size[SpanOf(d)])
    BY <1>2, <2>1 DEF HyperTypeOK
  <2>5. HyperTypeOK'
    BY <1>1, <1>2, <2>2, <2>3, <2>4 DEF HyperTypeOK, SpanInv
  <2>6. ChainsEnd'
    BY <1>2, <2>1 DEF IInv, HyperTypeOK, ChainsEnd
  <2>7. MastersPresent' /\ ConfigPresent'
    BY <1>1, <1>2, <2>1, <2>3 DEF IInv, HyperTypeOK, MastersPresent, ConfigPresent, Present
  <2> QED BY <1>1, <2>5, <2>6, <2>7 DEF IInv
<1> QED BY <1>3, <1>4

LEMMA AttachIInv ==
    ASSUME IInv, Attach
    PROVE  IInv'
<1> DEFINE c == config.chan
<1>1. SpanInv' /\ Registered' = Registered /\ UNCHANGED <<busy, plain, nextslave>>
  BY SameSpansInv DEF Attach
<1>2. /\ HyperTypeOK /\ config.at = "attach" /\ c \in Channels /\ config.new \in Channels
      /\ Present(c) /\ Present(config.new)
  BY DEF Attach, IInv, HyperTypeOK, ConfigPresent
<1>3. chmaster' = [chmaster EXCEPT ![c] = config.new] \/ chmaster' = chmaster
  BY DEF Attach
<1>4. chmaster' \in [Channels -> Channels]
  BY <1>2, <1>3 DEF HyperTypeOK
<1>5. MastersPresent'
  BY <1>1, <1>2, <1>3 DEF IInv, HyperTypeOK, MastersPresent, Present
<1>6. ChainsEnd'
  BY <1>1 DEF IInv, ChainsEnd
<1>7. CASE config' = NoConfig
  <2>1. HyperTypeOK'
    BY <1>1, <1>2, <1>4, <1>7 DEF HyperTypeOK, SpanInv, NoConfig
  <2>2. ConfigPresent'
    BY <1>7 DEF ConfigPresent, NoConfig
  <2> QED BY <1>1, <1>5, <1>6, <2>1, <2>2 DEF IInv
<1>8. CASE config' = Recalc("link", config.new)
  <2>1. /\ config' \in [at : {"idle", "detach", "unlink", "attach", "link"},
                   chan : Channels \cup {NoChan}, new : Channels \cup {NoChan}, ok : BOOLEAN,
                   head : Channels \cup {NoChan}, x : Nat, last : Channels \cup {NoChan}]
        /\ config'.chan = config.chan /\ config'.new = config.new
        /\ config'.at = "link" /\ config'.head = config.new /\ config'.last = config.new
        /\ config'.x = chanpos(config.new)
        /\ chanpos(config.new) \in chanpos(config.new) .. Size[SpanOf(config.new)]
    BY <1>2, <1>8, RecalcBegins
  <2>2. HyperTypeOK'
    BY <1>1, <1>2, <1>4, <2>1 DEF HyperTypeOK, SpanInv
  <2>3. ConfigPresent'
    BY <1>1, <1>2, <2>1 DEF ConfigPresent, Present
  <2> QED BY <1>1, <1>5, <1>6, <2>2, <2>3 DEF IInv
<1> QED BY <1>7, <1>8 DEF Attach

LEMMA RelinkIInv ==
    ASSUME IInv, Relink
    PROVE  IInv'
<1> DEFINE s == SpanOf(config.head)
           d == ChanAt(s, config.x)
           l == config.last
<1>1. SpanInv' /\ Registered' = Registered /\ UNCHANGED <<busy, plain, chmaster>>
  BY SameSpansInv DEF Relink
<1>2. /\ HyperTypeOK /\ config.at \in {"unlink", "link"} /\ config.head \in Channels /\ l \in Channels
      /\ SpanOf(l) = s /\ config.x \in chanpos(l) .. Size[s]
  BY DEF Relink, IInv, HyperTypeOK
<1>3. /\ s \in Spans /\ Size[s] \in Nat /\ chanpos(l) \in Nat /\ chanpos(l) > 0
      /\ config.x \in Nat /\ config.x >= chanpos(l) /\ config.x <= Size[s]
  <2>1. config.head[1] \in Spans /\ l[2] \in 1 .. Size[l[1]] /\ l[1] \in Spans
    BY <1>2, ChannelsOfSpans
  <2> QED BY <1>2, <2>1, SizeAssumption DEF SpanOf, chanpos
<1>4. MastersPresent'
  BY <1>1 DEF IInv, MastersPresent, Present
<1>5. CASE config.x < Size[s]
  <2>1. d \in Channels /\ SpanOf(d) = s /\ chanpos(d) = config.x + 1
    BY <1>3, <1>5, ChanAtPosition
  <2>2. CASE IsNext(d)
    <3>1. /\ nextslave' = [nextslave EXCEPT ![l] = config.x]
          /\ config' = [config EXCEPT !.x = config.x + 1, !.last = d]
      BY <1>5, <2>2 DEF Relink
    <3>2. nextslave' \in [Channels -> Nat]
          /\ (\A c \in Channels : nextslave'[c] # 0 => nextslave'[c] < Size[SpanOf(c)])
      BY <1>2, <1>3, <1>5, <3>1 DEF HyperTypeOK
    <3>3. HyperTypeOK'
      <4>1. /\ config' \in [at : {"idle", "detach", "unlink", "attach", "link"},
                   chan : Channels \cup {NoChan}, new : Channels \cup {NoChan}, ok : BOOLEAN,
                   head : Channels \cup {NoChan}, x : Nat, last : Channels \cup {NoChan}]
            /\ config'.at = config.at /\ config'.head = config.head
            /\ config'.chan = config.chan /\ config'.new = config.new
            /\ config'.x = config.x + 1 /\ config'.last = d
        <5>1. config \in [at : {"idle", "detach", "unlink", "attach", "link"},
                   chan : Channels \cup {NoChan}, new : Channels \cup {NoChan}, ok : BOOLEAN,
                   head : Channels \cup {NoChan}, x : Nat, last : Channels \cup {NoChan}]
          BY <1>2 DEF HyperTypeOK
        <5>2. config.x + 1 \in Nat
          BY <1>3
        <5> HIDE DEF d, l, s
        <5> QED BY <2>1, <3>1, <5>1, <5>2
      <4>2. config.x + 1 \in chanpos(d) .. Size[s]
        BY <1>3, <1>5, <2>1
      <4>3. (config'.at # "idle" => config'.chan \in Channels /\ config'.new \in Channels)
        BY <1>2, <4>1 DEF HyperTypeOK
      <4>4. /\ config'.head \in Channels /\ config'.last \in Channels
            /\ SpanOf(config'.last) = SpanOf(config'.head)
            /\ config'.x \in chanpos(config'.last) .. Size[SpanOf(config'.head)]
        BY <1>2, <2>1, <4>1, <4>2
      <4> QED BY <1>1, <1>2, <3>2, <4>1, <4>3, <4>4 DEF HyperTypeOK, SpanInv
    <3>4. ChainsEnd'
      BY <1>2, <1>3, <3>1 DEF IInv, HyperTypeOK, ChainsEnd
    <3>5. ConfigPresent'
      BY <1>1, <1>2, <3>1 DEF IInv, HyperTypeOK, ConfigPresent, Present
    <3> QED BY <1>1, <1>4, <3>3, <3>4, <3>5 DEF IInv
  <2>3. CASE ~ IsNext(d)
    <3>1. config' = [config EXCEPT !.x = config.x + 1] /\ nextslave' = nextslave
      BY <1>5, <2>3 DEF Relink
    <3>2. HyperTypeOK'
      BY <1>1, <1>2, <1>3, <1>5, <3>1 DEF HyperTypeOK, SpanInv
    <3>3. ChainsEnd' /\ ConfigPresent'
      BY <1>1, <1>2, <3>1 DEF IInv, HyperTypeOK, ChainsEnd, ConfigPresent, Present
    <3> QED BY <1>1, <1>4, <3>2, <3>3 DEF IInv
  <2> QED BY <2>2, <2>3
<1>6. CASE ~ (config.x < Size[s])
  <2>1. nextslave' = [nextslave EXCEPT ![l] = 0] /\ config' = Finished
    BY <1>6 DEF Relink, Ended
  <2>2. nextslave' \in [Channels -> Nat]
        /\ (\A c \in Channels : nextslave'[c] # 0 => nextslave'[c] < Size[SpanOf(c)])
    BY <1>2, <2>1 DEF HyperTypeOK
  <2>3. ChainsEnd'
    BY <1>2, <2>1 DEF IInv, HyperTypeOK, ChainsEnd
  <2>4. HyperTypeOK'
    BY <1>1, <1>2, <2>1, <2>2 DEF HyperTypeOK, SpanInv, Finished, NoConfig
  <2>5. ConfigPresent'
    BY <1>1, <1>2, <2>1 DEF IInv, HyperTypeOK, ConfigPresent, Present, Finished, NoConfig
  <2> QED BY <1>1, <1>4, <2>3, <2>4, <2>5 DEF IInv
<1> QED BY <1>5, <1>6

LEMMA UnplugStepIInv ==
    ASSUME IInv, UnplugStep
    PROVE  IInv'
<1>1. UNCHANGED hyper_vars /\ spans' = spans
  BY DEF UnplugStep, ChooseMaster, CommitMaster
<1>2. SpanInv'
  BY ChooseMasterInv, CommitMasterInv DEF UnplugStep, IInv
<1>3. Registered' = Registered
  BY <1>1 DEF Registered, Listed
<1> QED BY <1>1, <1>2, <1>3, SameListsInv

LEMMA SpanStepIInv ==
    ASSUME IInv, SpanStep
    PROVE  IInv'
<1>1. SpanInv' /\ UNCHANGED <<spans, hyper_vars>>
  BY SpanStepInv DEF IInv
<1>2. Registered' = Registered
  BY <1>1 DEF Registered, Listed
<1> QED BY <1>1, <1>2, SameListsInv

\* The invariant is inductive: one step for each action.
LEMMA NextIInv ==
    ASSUME IInv, [HyperNext]_vars
    PROVE  IInv'
<1>1. ASSUME NEW s \in Spans, RegisterSpan(s) PROVE IInv'
  BY <1>1, RegisterIInv
<1>2. ASSUME NEW s \in Spans, UnregisterSpan(s) PROVE IInv'
  BY <1>2, UnregisterIInv
<1>3. CASE SpanStep
  BY <1>3, SpanStepIInv
<1>4. CASE UnplugStep
  BY <1>4, UnplugStepIInv
<1>5. CASE Configure
  BY <1>5, ChanConfigIInv DEF Configure
<1>6. CASE Detach
  BY <1>6, DetachIInv
<1>7. CASE Relink
  BY <1>7, RelinkIInv
<1>8. CASE Attach
  BY <1>8, AttachIInv
<1>9. CASE UNCHANGED vars
  <2>1. UNCHANGED span_vars /\ UNCHANGED hyper_vars
    BY <1>9 DEF vars
  <2> QED BY <2>1, SameSpansInv, SameListsInv
<1> QED BY <1>1, <1>2, <1>3, <1>4, <1>5, <1>6, <1>7, <1>8, <1>9 DEF HyperNext

LEMMA Invariance == Spec => []IInv
BY InitIInv, NextIInv, PTL DEF Spec

-----------------------------------------------------------------------------

(* Types: no span, channel or list index ever leaves its table (dahdi_ctl_ *)
(* ioctl, dahdi_register and dahdi_unregister in dahdi-base.c).            *)
THEOREM TypeCorrect == Spec => []HyperTypeOK
<1>1. IInv => HyperTypeOK
  BY DEF IInv
<1> QED BY <1>1, Invariance, PTL

(* The timing master is a registered span, and there is one as long as     *)
(* there is a span, for any number of spans that come and go.              *)
THEOREM MasterIsRegistered == Spec => []MasterRegistered
<1>1. IInv => MasterRegistered
  BY DEF IInv, SpanInv, UnplugInv, MasterRegistered, NoUnplug
<1> QED BY <1>1, Invariance, PTL

(* The loop over the slaves in dahdi_receive and dahdi_transmit ends, at   *)
(* any moment of a CHANCONFIG and for spans of any size.                   *)
THEOREM SlaveListsEnd == Spec => []ChainsEnd
<1>1. IInv => ChainsEnd
  BY DEF IInv
<1> QED BY <1>1, Invariance, PTL

(* No registered channel has a master that is gone (dahdi_chan_unreg).     *)
THEOREM MastersArePresent == Spec => []MastersPresent
<1>1. IInv => MastersPresent
  BY DEF IInv
<1> QED BY <1>1, Invariance, PTL

(* The two together: nothing is ever mastered by a span that is gone.      *)
THEOREM MastersNeverDead == Spec => []NoDeadMaster
<1>1. IInv => NoDeadMaster
  BY DEF IInv, SpanInv, UnplugInv, MasterRegistered, NoUnplug, NoDeadMaster
<1> QED BY <1>1, Invariance, PTL

\* A report that changes the general alarm state elects a span fit for it.
LEMMA NotifyElectsHealthy ==
    ASSUME SpanInv, NEW s \in Spans, NEW as \in SUBSET Alarms, NEW m, Notify(s, as, m),
           lastalarms' # lastalarms, NEW h \in Registered, Healthy(h, alarms')
    PROVE  Healthy(master', alarms')
<1> DEFINE al    == [alarms EXCEPT ![s] = Looped(as, m)]
           fit   == {n \in Listed : n < maxspans /\ Healthy(spans[n], al)}
           first == CHOOSE n \in fit : \A k \in fit : n <= k
<1>1. alarms' = al
  BY DEF Notify
<1>2. master' = IF fit = {} THEN master ELSE spans[first]
  BY DEF Notify
<1>3. PICK n \in Listed : spans[n] = h
  BY DEF Registered
<1>4. n \in fit
  BY <1>1, <1>3 DEF SpanInv, UnplugInv, Healthy
<1>5. fit \in SUBSET Numbers
  BY DEF Listed
<1>6. first \in fit
  BY <1>4, <1>5, FirstIsListed
<1>7. master' = spans[first]
  BY <1>2, <1>4
<1> QED BY <1>1, <1>6, <1>7 DEF Healthy

\* Only a report changes the general alarm state of a span that stays.
LEMMA OnlyReportsElect ==
    ASSUME IInv, [HyperNext]_vars, lastalarms' # lastalarms, spans' = spans
    PROVE  \E s \in Spans, as \in SUBSET Alarms : \E m : Notify(s, as, m)
<1> DEFINE Goal == \E s \in Spans, as \in SUBSET Alarms : \E m : Notify(s, as, m)
<1>1. SpanInv /\ SpanTypeOK
  BY DEF IInv, SpanInv
<1>2. ASSUME NEW s \in Spans, RegisterSpan(s) PROVE FALSE
  <2>1. PICK prefmaster \in BOOLEAN : Register(s, prefmaster)
    BY <1>2 DEF RegisterSpan
  <2> DEFINE free == {n \in Numbers : spans[n] = NoSpan}
             x    == CHOOSE n \in free : \A k \in free : n <= k
  <2>2. free \in SUBSET Numbers /\ free # {} /\ spans' = [spans EXCEPT ![x] = s]
    BY <2>1 DEF Register
  <2>3. x \in free
    BY <2>2, FirstIsListed
  <2>4. spans'[x] = s /\ spans[x] = NoSpan
    BY <1>1, <2>2, <2>3 DEF SpanTypeOK
  <2> QED BY <2>4, SpanAssumption
<1>3. ASSUME NEW s \in Spans, UnregisterSpan(s) PROVE FALSE
  BY <1>3 DEF UnregisterSpan, Unregister
<1>4. CASE SpanStep
  <2>1. PICK s \in Spans : \/ Startup(s) \/ Shutdown(s) \/ ReportAlarm(s)
                           \/ (\E m \in {"none", "loop"} : Maint(s, m))
                           \/ MaintTimed(s) \/ MaintExpires(s) \/ MaintReturns(s)
    BY <1>4 DEF SpanStep
  <2>2. alarms[s] \in SUBSET Alarms
    BY <1>1 DEF SpanTypeOK
  <2>3. CASE ReportAlarm(s)
    <3>1. PICK line \in {{}, {"line"}} : Notify(s, (alarms[s] \ {"line"}) \cup line, maint[s])
      BY <2>3 DEF ReportAlarm
    <3>2. (alarms[s] \ {"line"}) \cup line \in SUBSET Alarms
      BY <2>2 DEF Alarms
    <3> QED BY <3>1, <3>2
  <2>4. ASSUME NEW m \in {"none", "loop"}, Maint(s, m) PROVE Goal
    <3>1. Notify(s, alarms[s], maint'[s])
      BY <2>4 DEF Maint
    <3> QED BY <2>2, <3>1
  <2>5. CASE MaintReturns(s)
    <3>1. Notify(s, alarms[s], maint[s])
      BY <2>5 DEF MaintReturns
    <3> QED BY <2>2, <3>1
  <2>6. CASE Startup(s) \/ Shutdown(s) \/ MaintTimed(s) \/ MaintExpires(s)
    BY <2>6 DEF Startup, Shutdown, MaintTimed, MaintExpires
  <2> QED BY <2>1, <2>3, <2>4, <2>5, <2>6
<1>5. CASE UnplugStep
  BY <1>5 DEF UnplugStep, ChooseMaster, CommitMaster
<1>6. CASE Configure \/ Detach \/ Relink \/ Attach
  BY <1>6 DEF Configure, ChanConfig, Detach, Relink, Attach, span_vars
<1>7. CASE UNCHANGED vars
  BY <1>7 DEF vars, span_vars
<1> QED BY <1>2, <1>3, <1>4, <1>5, <1>6, <1>7 DEF HyperNext

(* dahdi_alarm_notify: after the general alarm state of a span changed the *)
(* master runs without alarm if any registered span does, also while a     *)
(* span is taken out, when the master may be gone and the table has holes. *)
THEOREM MasterIsHealthy == Spec => HealthyMaster
<1>1. ASSUME IInv, [HyperNext]_vars, lastalarms' # lastalarms, spans' = spans,
             NEW h \in Registered, Healthy(h, alarms')
      PROVE  Healthy(master', alarms')
  <2>1. PICK s \in Spans, as \in SUBSET Alarms : \E m : Notify(s, as, m)
    BY <1>1, OnlyReportsElect
  <2>2. PICK m : Notify(s, as, m)
    BY <2>1
  <2> QED BY <1>1, <2>2, NotifyElectsHealthy DEF IInv
<1>2. IInv /\ [HyperNext]_vars =>
        [ lastalarms' # lastalarms /\ spans' = spans =>
            ((\E s \in Registered : Healthy(s, alarms')) => Healthy(master', alarms')) ]_vars
  BY <1>1
<1> QED BY <1>2, Invariance, PTL DEF Spec, HealthyMaster

-----------------------------------------------------------------------------
(* Who is on a list.                                                       *)

\* l's nextslave leads to d; l is h or one of its slaves.
Link(l, d)  == nextslave[l] # 0 /\ d = ChanAt(SpanOf(l), nextslave[l])
Under(l, h) == l = h \/ chmaster[l] = h

\* d is where it is for its master's sake: the link to it is within a list of its
\* master, or was until the master became a slave itself.
Tied(l, d) ==
    /\ chmaster[d] # d /\ Under(l, chmaster[d])
    /\ SpanOf(l) = SpanOf(chmaster[d]) /\ chanpos(chmaster[d]) <= chanpos(l)

Relinking == config.at \in {"unlink", "link"}

\* The channel that is detached stays on the list until the loop has passed.
Leaving(l, d) ==
    /\ config.at = "unlink" /\ d = config.chan /\ Under(l, config.head)
    /\ SpanOf(l) = SpanOf(config.head) /\ chanpos(config.last) <= chanpos(l)

LinksTied ==
    \A l, d \in Channels : Present(l) /\ Link(l, d) => Tied(l, d) \/ Leaving(l, d)

\* No two channels lead to the same.
OneLink ==
    \A k, l, d \in Channels : Present(k) /\ Present(l) /\ Link(k, d) /\ Link(l, d) => k = l

AtItself ==
    /\ config.at \in {"unlink", "attach"} => chmaster[config.chan] = config.chan
    /\ config.at = "unlink" => config.head # config.chan

\* recalc_slaves has linked what is before x, as far as last.
Behindhand ==
    \A d \in Channels : /\ SpanOf(d) = SpanOf(config.head) /\ chmaster[d] = config.head
                        /\ chanpos(d) > chanpos(config.last)
                        => chanpos(d) > config.x
Ordered ==
    \A l, d \in Channels : /\ Present(l) /\ Link(l, d) /\ chmaster[d] = config.head
                           /\ chanpos(l) < chanpos(config.last)
                           => chanpos(d) <= chanpos(config.last)
Progress ==
    Relinking => /\ Under(config.last, config.head)
                 /\ chanpos(config.head) <= chanpos(config.last)
                 /\ Behindhand /\ Ordered

\* As long as users are plain: masters are no slaves and come before theirs, and
\* every slave is on a list, or will be before recalc_slaves returns.
MastersFirst ==
    \A c \in Channels : chmaster[c] # c =>
        /\ SpanOf(chmaster[c]) = SpanOf(c) /\ chanpos(chmaster[c]) < chanpos(c)
        /\ chmaster[chmaster[c]] = chmaster[c]
ToCome(d) == Relinking /\ chmaster[d] = config.head /\ chanpos(d) > config.x
SlavesLinked ==
    \A d \in Channels : Present(d) /\ chmaster[d] # d => (\E l \in Channels : Link(l, d)) \/ ToCome(d)
PlainSoFar ==
    plain => /\ MastersFirst /\ SlavesLinked
             /\ Relinking => chmaster[config.head] = config.head
             /\ config.at \in {"detach", "unlink", "attach"} => Plain(config.chan, config.new)

ListInv == LinksTied /\ OneLink /\ AtItself /\ Progress /\ PlainSoFar

-----------------------------------------------------------------------------

LEMMA PlaceType ==
    ASSUME NEW c \in Channels
    PROVE  /\ SpanOf(c) \in Spans /\ Size[SpanOf(c)] \in Nat
           /\ chanpos(c) \in 1 .. Size[SpanOf(c)] /\ chanpos(c) \in Nat /\ chanpos(c) > 0
<1>1. c[1] \in Spans /\ c[2] \in 1 .. Size[c[1]]
  BY ChannelsOfSpans
<1> QED BY <1>1, SizeAssumption DEF SpanOf, chanpos

LEMMA SameChannel ==
    ASSUME NEW c \in Channels, NEW d \in Channels, SpanOf(c) = SpanOf(d), chanpos(c) = chanpos(d)
    PROVE  c = d
<1>1. c = <<c[1], c[2]>> /\ d = <<d[1], d[2]>>
  BY ChannelsOfSpans
<1> QED BY <1>1 DEF SpanOf, chanpos

\* A link leads on within the span.
LEMMA LinkPlace ==
    ASSUME HyperTypeOK, ChainsEnd, NEW l \in Channels, NEW d, Link(l, d)
    PROVE  /\ d \in Channels /\ SpanOf(d) = SpanOf(l)
           /\ chanpos(l) < chanpos(d) /\ chanpos(d) = nextslave[l] + 1
           /\ Present(d) <=> Present(l)
<1>1. /\ nextslave[l] \in Nat /\ nextslave[l] < Size[SpanOf(l)] /\ nextslave[l] >= chanpos(l)
      /\ SpanOf(l) \in Spans /\ chanpos(l) \in Nat
  BY PlaceType DEF HyperTypeOK, ChainsEnd, Link
<1>2. d = ChanAt(SpanOf(l), nextslave[l])
  BY DEF Link
<1>3. d \in Channels /\ SpanOf(d) = SpanOf(l) /\ chanpos(d) = nextslave[l] + 1
  BY <1>1, <1>2, ChanAtPosition
<1> QED BY <1>1, <1>3 DEF Present

LEMMA InitListInv == HyperInit => ListInv
<1> SUFFICES ASSUME HyperInit PROVE ListInv
  OBVIOUS
<1>1. \A c \in Channels : chmaster[c] = c /\ nextslave[c] = 0
  BY DEF HyperInit
<1>2. config.at = "idle"
  BY DEF HyperInit, NoConfig
<1>3. LinksTied /\ OneLink
  BY <1>1 DEF LinksTied, OneLink, Link
<1>4. AtItself /\ Progress
  BY <1>2 DEF AtItself, Progress, Relinking
<1>5. PlainSoFar
  BY <1>1, <1>2 DEF PlainSoFar, MastersFirst, SlavesLinked, Relinking
<1> QED BY <1>3, <1>4, <1>5 DEF ListInv

\* Steps that touch neither channels nor the presence of any.
LEMMA SameListsListInv ==
    ASSUME ListInv, UNCHANGED hyper_vars, Registered' = Registered
    PROVE  ListInv'
<1>1. UNCHANGED <<chmaster, nextslave, config, busy, plain>>
  BY DEF hyper_vars
<1>2. LinksTied' /\ OneLink'
  BY <1>1 DEF ListInv, LinksTied, OneLink, Link, Tied, Leaving, Under, Present
<1>3. AtItself'
  BY <1>1 DEF ListInv, AtItself
<1>4. Progress'
  BY <1>1 DEF ListInv, Progress, Relinking, Under, Behindhand, Ordered, Link, Present
<1>5. PlainSoFar'
  BY <1>1 DEF ListInv, PlainSoFar, MastersFirst, SlavesLinked, ToCome, Relinking, Link, Present, Plain
<1> QED BY <1>2, <1>3, <1>4, <1>5 DEF ListInv

\* What ListInv says between two calls.
LEMMA BetweenCalls ==
    ASSUME ListInv, config.at \notin {"unlink", "link"}
    PROVE  /\ \A l, d \in Channels : Present(l) /\ Link(l, d) => Tied(l, d)
           /\ plain => /\ MastersFirst
                       /\ \A d \in Channels : Present(d) /\ chmaster[d] # d =>
                              \E l \in Channels : Link(l, d)
BY DEF ListInv, LinksTied, Leaving, PlainSoFar, SlavesLinked, ToCome, Relinking

LEMMA LinkWithin ==
    ASSUME NEW l \in Channels, NEW d, Link(l, d)
    PROVE  SpanOf(d) = SpanOf(l)
BY DEF Link, ChanAt, SpanOf

LEMMA RegisterListInv ==
    ASSUME IInv, ListInv, NEW s \in Spans, RegisterSpan(s)
    PROVE  ListInv'
<1>1. Registered' = Registered \cup {s}
  BY RegisteredMore DEF IInv
<1>2. /\ \A c \in Channels : chmaster'[c] = IF SpanOf(c) = s THEN c ELSE chmaster[c]
      /\ \A c \in Channels : nextslave'[c] = IF SpanOf(c) = s THEN 0 ELSE nextslave[c]
      /\ UNCHANGED <<config, busy, plain>> /\ config.at = "idle"
  BY DEF RegisterSpan, NoConfig
<1>3. /\ \A l, d \in Channels : Present(l) /\ Link(l, d) => Tied(l, d)
      /\ plain => /\ MastersFirst
                  /\ \A d \in Channels : Present(d) /\ chmaster[d] # d =>
                         \E l \in Channels : Link(l, d)
  BY <1>2, BetweenCalls
<1>4. \A l, d \in Channels : Link(l, d)' <=> SpanOf(l) # s /\ Link(l, d)
  BY <1>2 DEF Link
<1>5. \A c \in Channels : SpanOf(c) # s /\ Present(c)' => Present(c)
  BY <1>1 DEF Present
<1>6. LinksTied'
  <2> SUFFICES ASSUME NEW l \in Channels, NEW d \in Channels, Present(l)', Link(l, d)'
               PROVE  Tied(l, d)'
    BY DEF LinksTied
  <2>1. SpanOf(l) # s /\ Tied(l, d) /\ SpanOf(d) = SpanOf(l)
    BY <1>3, <1>4, <1>5, LinkWithin
  <2> QED BY <1>2, <2>1 DEF Tied, Under
<1>7. OneLink'
  BY <1>4, <1>5 DEF OneLink, ListInv
<1>8. AtItself' /\ Progress'
  BY <1>2 DEF AtItself, Progress, Relinking
<1>9. PlainSoFar'
  <2> SUFFICES ASSUME plain PROVE MastersFirst' /\ SlavesLinked'
    BY <1>2 DEF PlainSoFar, Relinking
  <2>1. MastersFirst'
    <3> SUFFICES ASSUME NEW c \in Channels, chmaster'[c] # c
                 PROVE  /\ SpanOf(chmaster'[c]) = SpanOf(c) /\ chanpos(chmaster'[c]) < chanpos(c)
                        /\ chmaster'[chmaster'[c]] = chmaster'[c]
      BY DEF MastersFirst
    <3>1. SpanOf(c) # s /\ chmaster'[c] = chmaster[c] /\ chmaster[c] # c
      BY <1>2
    <3>2. /\ SpanOf(chmaster[c]) = SpanOf(c) /\ chanpos(chmaster[c]) < chanpos(c)
          /\ chmaster[chmaster[c]] = chmaster[c]
      BY <1>3, <3>1 DEF MastersFirst
    <3>3. chmaster[c] \in Channels
      BY DEF IInv, HyperTypeOK
    <3> QED BY <1>2, <3>1, <3>2, <3>3
  <2>2. SlavesLinked'
    <3> SUFFICES ASSUME NEW d \in Channels, Present(d)', chmaster'[d] # d
                 PROVE  \E l \in Channels : Link(l, d)'
      BY DEF SlavesLinked
    <3>1. SpanOf(d) # s /\ Present(d) /\ chmaster[d] # d
      BY <1>2, <1>5
    <3>2. PICK l \in Channels : Link(l, d)
      BY <1>3, <3>1
    <3>3. SpanOf(l) # s
      BY <3>1, <3>2, LinkWithin
    <3> QED BY <1>4, <3>2, <3>3
  <2> QED BY <2>1, <2>2
<1> QED BY <1>6, <1>7, <1>8, <1>9 DEF ListInv

LEMMA UnregisterListInv ==
    ASSUME IInv, ListInv, NEW s \in Spans, UnregisterSpan(s)
    PROVE  ListInv'
<1>1. Registered' = Registered \ {s}
  BY UnregisterSpanInv DEF IInv, UnregisterSpan
<1>2. /\ \A c \in Channels : chmaster'[c] = IF SpanOf(chmaster[c]) = s THEN c ELSE chmaster[c]
      /\ UNCHANGED <<nextslave, config, busy, plain>> /\ config.at = "idle"
  BY DEF UnregisterSpan, NoConfig, Orphan
<1>3. /\ \A l, d \in Channels : Present(l) /\ Link(l, d) => Tied(l, d)
      /\ plain => /\ MastersFirst
                  /\ \A d \in Channels : Present(d) /\ chmaster[d] # d =>
                         \E l \in Channels : Link(l, d)
  BY <1>2, BetweenCalls
<1>4. \A l, d \in Channels : Link(l, d)' <=> Link(l, d)
  BY <1>2 DEF Link
<1>5. \A c \in Channels : Present(c)' => Present(c) /\ SpanOf(c) # s
  BY <1>1 DEF Present
<1>6. LinksTied'
  <2> SUFFICES ASSUME NEW l \in Channels, NEW d \in Channels, Present(l)', Link(l, d)'
               PROVE  Tied(l, d)'
    BY DEF LinksTied
  <2>1. SpanOf(l) # s /\ Tied(l, d)
    BY <1>3, <1>4, <1>5
  <2> QED BY <1>2, <2>1 DEF Tied, Under
<1>7. OneLink'
  BY <1>4, <1>5 DEF OneLink, ListInv
<1>8. AtItself' /\ Progress'
  BY <1>2 DEF AtItself, Progress, Relinking
<1>9. PlainSoFar'
  <2> SUFFICES ASSUME plain PROVE MastersFirst' /\ SlavesLinked'
    BY <1>2 DEF PlainSoFar, Relinking
  <2>1. MastersFirst'
    <3> SUFFICES ASSUME NEW c \in Channels, chmaster'[c] # c
                 PROVE  /\ SpanOf(chmaster'[c]) = SpanOf(c) /\ chanpos(chmaster'[c]) < chanpos(c)
                        /\ chmaster'[chmaster'[c]] = chmaster'[c]
      BY DEF MastersFirst
    <3>1. chmaster'[c] = chmaster[c] /\ chmaster[c] # c
      BY <1>2
    <3>2. /\ SpanOf(chmaster[c]) = SpanOf(c) /\ chanpos(chmaster[c]) < chanpos(c)
          /\ chmaster[chmaster[c]] = chmaster[c]
      BY <1>3, <3>1 DEF MastersFirst
    <3>3. chmaster[c] \in Channels
      BY DEF IInv, HyperTypeOK
    <3> QED BY <1>2, <3>1, <3>2, <3>3
  <2>2. SlavesLinked'
    BY <1>2, <1>3, <1>4, <1>5 DEF SlavesLinked
  <2> QED BY <2>1, <2>2
<1> QED BY <1>6, <1>7, <1>8, <1>9 DEF ListInv

LEMMA ChanConfigListInv ==
    ASSUME IInv, ListInv, NEW c \in Channels, NEW m \in Channels, NEW ok \in BOOLEAN, ChanConfig(c, m, ok)
    PROVE  ListInv'
<1>1. Registered' = Registered
  BY SameSpansInv DEF ChanConfig
<1>2. /\ config.at = "idle" /\ config'.at = "detach" /\ config'.chan = c /\ config'.new = m
      /\ UNCHANGED <<chmaster, nextslave>>
  BY DEF ChanConfig, NoConfig
<1>3. /\ \A l, d \in Channels : Present(l) /\ Link(l, d) => Tied(l, d)
      /\ plain => /\ MastersFirst
                  /\ \A d \in Channels : Present(d) /\ chmaster[d] # d =>
                         \E l \in Channels : Link(l, d)
  BY <1>2, BetweenCalls
<1>4. LinksTied' /\ OneLink'
  BY <1>1, <1>2, <1>3 DEF ListInv, LinksTied, OneLink, Present, Link, Tied, Under
<1>5. AtItself' /\ Progress'
  BY <1>2 DEF AtItself, Progress, Relinking
<1>6. PlainSoFar'
  <2> SUFFICES ASSUME plain' PROVE MastersFirst' /\ SlavesLinked' /\ Plain(config.chan, config.new)'
    BY <1>2 DEF PlainSoFar, Relinking
  <2>1. plain /\ Plain(c, m)
    BY Zenon DEF ChanConfig
  <2>2. Plain(c, m)'
    BY <1>2, <2>1 DEF Plain
  <2>3. MastersFirst' /\ SlavesLinked'
    BY <1>1, <1>2, <1>3, <2>1 DEF MastersFirst, SlavesLinked, Present, Link
  <2> QED BY <1>2, <2>2, <2>3
<1> QED BY <1>4, <1>5, <1>6 DEF ListInv

LEMMA DetachListInv ==
    ASSUME IInv, ListInv, Detach
    PROVE  ListInv'
<1>1. Registered' = Registered
  BY SameSpansInv DEF Detach
<1>2. config.at = "detach" /\ plain' = plain /\ HyperTypeOK
  BY DEF Detach, IInv
<1>3. /\ \A l, d \in Channels : Present(l) /\ Link(l, d) => Tied(l, d)
      /\ plain => /\ MastersFirst
                  /\ \A d \in Channels : Present(d) /\ chmaster[d] # d =>
                         \E l \in Channels : Link(l, d)
  BY <1>2, BetweenCalls
<1>4. PICK c \in Channels : c = config.chan
  BY <1>2 DEF HyperTypeOK
<1>5. plain => Plain(c, config.new)
  BY <1>2, <1>4 DEF ListInv, PlainSoFar
<1>6. CASE chmaster[c] = c
  <2>1. config'.at = "attach" /\ config'.chan = c /\ config'.new = config.new
        /\ UNCHANGED <<chmaster, nextslave>>
    BY <1>2, <1>4, <1>6 DEF Detach, HyperTypeOK
  <2>2. LinksTied' /\ OneLink'
    BY <1>1, <1>3, <2>1 DEF ListInv, LinksTied, OneLink, Present, Link, Tied, Under
  <2>3. AtItself' /\ Progress'
    BY <1>6, <2>1 DEF AtItself, Progress, Relinking
  <2>4. PlainSoFar'
    <3>1. plain => MastersFirst' /\ SlavesLinked'
      BY <1>1, <1>3, <2>1 DEF MastersFirst, SlavesLinked, Present, Link
    <3>2. plain => Plain(config.chan, config.new)'
      BY <1>5, <2>1 DEF Plain
    <3> QED BY <1>2, <2>1, <3>1, <3>2 DEF PlainSoFar, Relinking
  <2> QED BY <2>2, <2>3, <2>4 DEF ListInv
<1>7. CASE chmaster[c] # c
  <2>1. PICK h \in Channels : h = chmaster[c]
    BY <1>2 DEF HyperTypeOK
  <2>2. config' = Recalc("unlink", h)
    BY <1>4, <1>7, <2>1 DEF Detach
  <2>3. /\ config'.at = "unlink" /\ config'.chan = c /\ config'.new = config.new
        /\ config'.head = h /\ config'.last = h /\ config'.x = chanpos(h)
    BY <1>2, <1>4, <2>2, RecalcBegins
  <2>4. /\ \A d \in Channels : chmaster'[d] = IF d = c THEN c ELSE chmaster[d]
        /\ \A d \in Channels : nextslave'[d] = IF d = c THEN 0 ELSE nextslave[d]
    BY <1>2, <1>4, <1>7 DEF Detach, HyperTypeOK
  <2>5. \A l, d \in Channels : Link(l, d)' <=> l # c /\ Link(l, d)
    BY <2>4 DEF Link
  <2>6. \A d \in Channels : Present(d)' <=> Present(d)
    BY <1>1 DEF Present
  <2>7. LinksTied'
    <3> SUFFICES ASSUME NEW l \in Channels, NEW d \in Channels, Present(l)', Link(l, d)'
                 PROVE  Tied(l, d)' \/ Leaving(l, d)'
      BY DEF LinksTied
    <3>1. l # c /\ Tied(l, d)
      BY <1>3, <2>5, <2>6
    <3>2. CASE d = c
      BY <2>1, <2>3, <2>4, <3>1, <3>2 DEF Tied, Leaving, Under
    <3>3. CASE d # c
      BY <2>4, <3>1, <3>3 DEF Tied, Under
    <3> QED BY <3>2, <3>3
  <2>8. OneLink'
    BY <2>5, <2>6 DEF OneLink, ListInv
  <2>9. AtItself'
    BY <1>7, <2>1, <2>3, <2>4 DEF AtItself
  <2>10. Progress'
    <3>1. Under(h, h) /\ chanpos(h) \in Nat
      BY PlaceType DEF Under
    <3>2. Behindhand'
      BY <2>3 DEF Behindhand
    <3>3. ASSUME NEW l \in Channels, NEW d \in Channels, Present(l)', Link(l, d)',
                 chmaster'[d] = h, chanpos(l) < chanpos(h)
          PROVE  FALSE
      <4>1. Tied(l, d) /\ chmaster[d] = h
        BY <1>3, <1>7, <2>1, <2>4, <2>5, <2>6, <3>3
      <4>2. chanpos(l) \in Nat
        BY PlaceType
      <4> QED BY <3>1, <3>3, <4>1, <4>2 DEF Tied
    <3>4. Ordered'
      BY <2>3, <3>3 DEF Ordered
    <3> QED BY <2>3, <3>1, <3>2, <3>4 DEF Progress, Under
  <2>11. PlainSoFar'
    <3> SUFFICES ASSUME plain
                 PROVE  /\ MastersFirst' /\ SlavesLinked' /\ chmaster'[h] = h
                        /\ Plain(config.chan, config.new)'
      BY <1>2, <2>3 DEF PlainSoFar, Relinking
    <3>1. /\ \A x \in Channels : chmaster[x] # x =>
                 /\ SpanOf(chmaster[x]) = SpanOf(x) /\ chanpos(chmaster[x]) < chanpos(x)
                 /\ chmaster[chmaster[x]] = chmaster[x]
          /\ \A x \in Channels : chmaster[x] \in Channels
      BY <1>2, <1>3 DEF MastersFirst, HyperTypeOK
    <3>2. \A x \in Channels : x # c => chmaster[x] # c
      BY <1>7, <3>1
    <3>3. MastersFirst'
      BY <2>4, <3>1, <3>2 DEF MastersFirst
    <3>4. SlavesLinked'
      <4> SUFFICES ASSUME NEW d \in Channels, Present(d)', chmaster'[d] # d
                   PROVE  (\E l \in Channels : Link(l, d)') \/ ToCome(d)'
        BY DEF SlavesLinked
      <4>1. d # c /\ Present(d) /\ chmaster[d] # d /\ chmaster'[d] = chmaster[d]
        BY <2>4, <2>6
      <4>2. PICK l \in Channels : Link(l, d)
        BY <1>3, <4>1
      <4>3. CASE l # c
        BY <2>5, <4>2, <4>3
      <4>4. CASE l = c
        <5>1. Present(c)
          BY <4>1, <4>2, <4>4, LinkWithin DEF Present
        <5>2. Under(c, chmaster[d])
          BY <1>3, <4>2, <4>4, <5>1 DEF Tied
        <5>3. chmaster[d] = h
          BY <2>1, <3>2, <4>1, <5>2 DEF Under
        <5>4. chanpos(h) < chanpos(d)
          BY <3>1, <4>1, <5>3
        <5> QED BY <2>3, <4>1, <5>3, <5>4 DEF ToCome, Relinking
      <4> QED BY <4>3, <4>4
    <3>5. chmaster'[h] = h
      BY <1>7, <2>1, <2>4, <3>1
    <3>6. Plain(config.chan, config.new)'
      <4>1. PICK m \in Channels : m = config.new
        BY <1>2 DEF HyperTypeOK
      <4>2. Plain(c, m) /\ chanpos(c) \in Nat
        BY <1>5, <4>1, PlaceType
      <4>3. Plain(c, m)'
        BY <2>4, <4>2 DEF Plain
      <4> QED BY <2>3, <4>1, <4>3
    <3> QED BY <3>3, <3>4, <3>5, <3>6
  <2> QED BY <2>7, <2>8, <2>9, <2>10, <2>11 DEF ListInv
<1> QED BY <1>6, <1>7

LEMMA AttachListInv ==
    ASSUME IInv, ListInv, Attach
    PROVE  ListInv'
<1>1. Registered' = Registered
  BY SameSpansInv DEF Attach
<1>2. config.at = "attach" /\ UNCHANGED <<plain, nextslave>> /\ HyperTypeOK
  BY DEF Attach, IInv
<1>3. /\ \A l, d \in Channels : Present(l) /\ Link(l, d) => Tied(l, d)
      /\ plain => /\ MastersFirst
                  /\ \A d \in Channels : Present(d) /\ chmaster[d] # d =>
                         \E l \in Channels : Link(l, d)
  BY <1>2, BetweenCalls
<1>4. PICK c \in Channels, m \in Channels : c = config.chan /\ m = config.new
  BY <1>2 DEF HyperTypeOK
<1>5. chmaster[c] = c /\ (plain => Plain(c, m))
  BY <1>2, <1>4 DEF ListInv, AtItself, PlainSoFar
<1>6. OneLink'
  BY <1>1, <1>2 DEF ListInv, OneLink, Present, Link
<1>7. CASE config' = NoConfig /\ chmaster' = chmaster
  <2>1. config'.at = "idle"
    BY <1>7 DEF NoConfig
  <2>2. LinksTied'
    BY <1>1, <1>2, <1>3, <1>7 DEF LinksTied, Present, Link, Tied, Under
  <2>3. AtItself' /\ Progress'
    BY <2>1 DEF AtItself, Progress, Relinking
  <2>4. PlainSoFar'
    BY <1>1, <1>2, <1>3, <1>7, <2>1 DEF PlainSoFar, MastersFirst, SlavesLinked, Present, Link, Relinking
  <2> QED BY <1>6, <2>2, <2>3, <2>4 DEF ListInv
<1>8. CASE m # c /\ config' = Recalc("link", m) /\ chmaster' = [chmaster EXCEPT ![c] = m]
  <2>1. /\ config'.at = "link" /\ config'.head = m /\ config'.last = m /\ config'.x = chanpos(m)
    BY <1>2, <1>8, RecalcBegins
  <2>2. \A d \in Channels : chmaster'[d] = IF d = c THEN m ELSE chmaster[d]
    BY <1>2, <1>8 DEF HyperTypeOK
  <2>3. \A l, d \in Channels : Link(l, d)' <=> Link(l, d)
    BY <1>2 DEF Link
  <2>4. \A d \in Channels : Present(d)' <=> Present(d)
    BY <1>1 DEF Present
  <2>5. ASSUME NEW l \in Channels, NEW d \in Channels, Present(l)', Link(l, d)'
        PROVE  d # c /\ Tied(l, d) /\ Tied(l, d)'
    <3>1. Tied(l, d)
      BY <1>3, <2>3, <2>4, <2>5
    <3>2. d # c
      BY <1>5, <3>1 DEF Tied
    <3>3. chmaster'[d] = chmaster[d] /\ Under(l, chmaster[d])'
      BY <1>5, <2>2, <3>1, <3>2 DEF Tied, Under
    <3> QED BY <3>1, <3>2, <3>3 DEF Tied, Under
  <2>6. LinksTied'
    BY <2>5 DEF LinksTied
  <2>7. AtItself'
    BY <2>1 DEF AtItself
  <2>8. Progress'
    <3>1. Under(m, m) /\ chanpos(m) \in Nat
      BY PlaceType DEF Under
    <3>2. Behindhand'
      BY <2>1 DEF Behindhand
    <3>3. ASSUME NEW l \in Channels, NEW d \in Channels, Present(l)', Link(l, d)',
                 chmaster'[d] = m, chanpos(l) < chanpos(m)
          PROVE  FALSE
      <4>1. Tied(l, d) /\ chmaster[d] = m
        BY <2>2, <2>5, <3>3
      <4>2. chanpos(l) \in Nat
        BY PlaceType
      <4> QED BY <3>1, <3>3, <4>1, <4>2 DEF Tied
    <3>4. Ordered'
      BY <2>1, <3>3 DEF Ordered
    <3> QED BY <2>1, <3>1, <3>2, <3>4 DEF Progress, Under
  <2>9. PlainSoFar'
    <3> SUFFICES ASSUME plain PROVE MastersFirst' /\ SlavesLinked' /\ chmaster'[m] = m
      BY <1>2, <2>1 DEF PlainSoFar, Relinking
    <3>1. /\ SpanOf(m) = SpanOf(c) /\ chanpos(m) < chanpos(c) /\ chmaster[m] = m
          /\ \A d \in Channels : chmaster[d] = c => d = c
      BY <1>5, <1>8 DEF Plain
    <3>2. MastersFirst'
      BY <1>3, <1>8, <2>2, <3>1 DEF MastersFirst
    <3>3. SlavesLinked'
      <4> SUFFICES ASSUME NEW d \in Channels, Present(d)', chmaster'[d] # d
                   PROVE  (\E l \in Channels : Link(l, d)') \/ ToCome(d)'
        BY DEF SlavesLinked
      <4>1. CASE d = c
        BY <2>1, <2>2, <3>1, <4>1 DEF ToCome, Relinking
      <4>2. CASE d # c
        BY <1>3, <2>2, <2>3, <2>4, <4>2
      <4> QED BY <4>1, <4>2
    <3> QED BY <1>8, <2>2, <3>1, <3>2, <3>3
  <2> QED BY <1>6, <2>6, <2>7, <2>8, <2>9 DEF ListInv
<1>9. \/ config' = NoConfig /\ chmaster' = chmaster
      \/ m # c /\ config' = Recalc("link", m) /\ chmaster' = [chmaster EXCEPT ![c] = m]
  <2>1. ASSUME config.ok, m = c PROVE config' = NoConfig /\ chmaster' = chmaster
    BY <1>2, <1>4, <1>5, <2>1 DEF Attach, HyperTypeOK
  <2>2. ASSUME config.ok, m # c
        PROVE  config' = Recalc("link", m) /\ chmaster' = [chmaster EXCEPT ![c] = m]
    BY <1>4, <2>2 DEF Attach
  <2>3. ASSUME ~ config.ok PROVE config' = NoConfig /\ chmaster' = chmaster
    BY <2>3 DEF Attach
  <2> QED BY <2>1, <2>2, <2>3
<1> QED BY <1>7, <1>8, <1>9

LEMMA RelinkListInv ==
    ASSUME IInv, ListInv, Relink
    PROVE  ListInv'
<1>1. Registered' = Registered
  BY SameSpansInv DEF Relink
<1>2. Relinking /\ plain' = plain /\ chmaster' = chmaster /\ HyperTypeOK /\ ChainsEnd
  BY DEF Relink, IInv, Relinking
<1>3. PICK h \in Channels, last \in Channels : h = config.head /\ last = config.last
  BY <1>2 DEF HyperTypeOK, Relinking
<1>4. PICK x \in Nat : x = config.x
  BY <1>2 DEF HyperTypeOK
<1>5. PICK s \in Spans : s = SpanOf(h)
  BY PlaceType
<1>6. /\ SpanOf(last) = s /\ x \in chanpos(last) .. Size[s] /\ Size[s] \in Nat
      /\ \A d \in Channels : chanpos(d) \in Nat
      /\ \A d \in Channels : SpanOf(d) = s => chanpos(d) <= Size[s]
      /\ chanpos(last) > 0
  BY <1>2, <1>3, <1>4, <1>5, PlaceType DEF HyperTypeOK, Relinking
<1>7. /\ Under(last, h) /\ chanpos(h) <= chanpos(last)
      /\ \A d \in Channels : SpanOf(d) = s /\ chmaster[d] = h /\ chanpos(d) > chanpos(last)
                             => chanpos(d) > x
      /\ \A l, d \in Channels : /\ Present(l) /\ Link(l, d) /\ chmaster[d] = h
                                /\ chanpos(l) < chanpos(last)
                                => chanpos(d) <= chanpos(last)
  BY <1>2, <1>3, <1>4, <1>5 DEF ListInv, Progress, Behindhand, Ordered
<1>8. /\ \A l, d \in Channels : Present(l) /\ Link(l, d) => Tied(l, d) \/ Leaving(l, d)
      /\ \A k, l, d \in Channels : Present(k) /\ Present(l) /\ Link(k, d) /\ Link(l, d) => k = l
      /\ \A l, d \in Channels : Leaving(l, d) => chmaster[d] # h /\ chmaster[d] = d
  BY <1>3 DEF ListInv, LinksTied, OneLink, AtItself, Leaving
<1>9. \A d \in Channels : Present(d)' <=> Present(d)
  BY <1>1 DEF Present
\* Slaves of the head beyond last are beyond x, and what leads to them is not before last.
<1>10. \A l \in Channels : SpanOf(l) = s /\ l # last => chanpos(l) # chanpos(last)
  BY <1>6, SameChannel
<1>11. \A l \in Channels : /\ SpanOf(l) = s /\ Under(l, h) /\ chanpos(h) <= chanpos(l)
                           /\ l # last /\ ~ (chanpos(l) < chanpos(last))
                           => chmaster[l] = h /\ chanpos(l) > x
  BY <1>6, <1>7, <1>10 DEF Under
<1>12. ASSUME plain
       PROVE  /\ \A d \in Channels : chmaster[d] # d =>
                     /\ SpanOf(chmaster[d]) = SpanOf(d) /\ chanpos(chmaster[d]) < chanpos(d)
                     /\ chmaster[chmaster[d]] = chmaster[d]
              /\ chmaster[h] = h
              /\ \A d \in Channels : Present(d) /\ chmaster[d] # d =>
                     (\E l \in Channels : Link(l, d)) \/ (chmaster[d] = h /\ chanpos(d) > x)
  BY <1>2, <1>3, <1>4, <1>12 DEF ListInv, PlainSoFar, MastersFirst, SlavesLinked, ToCome
\* Whoever last has led to is still to come.
<1>13. ASSUME plain, NEW d \in Channels, Present(d), chmaster[d] # d, Link(last, d)
       PROVE  chmaster[d] = h /\ chanpos(d) > x /\ SpanOf(d) = s
  <2>1. Present(last) /\ SpanOf(d) = s /\ chanpos(last) < chanpos(d)
    BY <1>2, <1>6, <1>13, LinkPlace
  <2>2. Under(last, chmaster[d])
    BY <1>8, <1>13, <2>1 DEF Tied
  <2>3. chmaster[d] = h
    BY <1>7, <1>12, <1>13, <2>2 DEF Under
  <2> QED BY <1>7, <2>1, <2>3
<1>14. CASE x < Size[s]
  <2>1. PICK d0 \in Channels : d0 = ChanAt(s, x) /\ SpanOf(d0) = s /\ chanpos(d0) = x + 1
    BY <1>14, ChanAtPosition
  <2>2. \A d \in Channels : SpanOf(d) = s /\ d # d0 /\ chanpos(d) > x => chanpos(d) > x + 1
    <3>1. \A d \in Channels : SpanOf(d) = s /\ d # d0 => chanpos(d) # x + 1
      BY <2>1, SameChannel
    <3> QED BY <1>6, <3>1
  <2>3. CASE chmaster[d0] = h
    <3>1. nextslave' = [nextslave EXCEPT ![last] = x]
          /\ config' = [config EXCEPT !.x = x + 1, !.last = d0]
      BY <1>3, <1>4, <1>5, <1>14, <2>1, <2>3 DEF Relink, IsNext
    <3>2. /\ config'.x = x + 1 /\ config'.last = d0 /\ config'.head = h /\ config'.at = config.at
          /\ config'.chan = config.chan /\ config'.new = config.new
      BY <1>2, <1>3, <3>1 DEF HyperTypeOK
    <3>3. \A l, d \in Channels : Link(l, d)' <=> (l = last /\ d = d0) \/ (l # last /\ Link(l, d))
      <4>1. \A l \in Channels : nextslave'[l] = IF l = last THEN x ELSE nextslave[l]
        BY <1>2, <3>1 DEF HyperTypeOK
      <4>2. x # 0
        BY <1>6
      <4> QED BY <1>6, <2>1, <4>1, <4>2 DEF Link
    <3>4. d0 # h
      BY <1>6, <1>7, <2>1
    <3>5. ASSUME NEW l \in Channels, Present(l), Link(l, d0), l # last
          PROVE  FALSE
      <4>1. Tied(l, d0)
        BY <1>8, <2>3, <3>5
      <4>2. SpanOf(l) = s /\ Under(l, h) /\ chanpos(h) <= chanpos(l)
        BY <1>5, <2>3, <4>1 DEF Tied
      <4>3. chanpos(l) < x + 1
        BY <1>2, <2>1, <3>5, LinkPlace
      <4>4. ~ (chanpos(l) < chanpos(last))
        BY <1>6, <1>7, <2>1, <2>3, <3>5
      <4> QED BY <1>6, <1>11, <3>5, <4>2, <4>3, <4>4
    <3>6. LinksTied'
      <4> SUFFICES ASSUME NEW l \in Channels, NEW d \in Channels, Present(l)', Link(l, d)'
                   PROVE  Tied(l, d)' \/ Leaving(l, d)'
        BY DEF LinksTied
      <4>1. CASE l = last /\ d = d0
        BY <1>2, <1>5, <1>6, <1>7, <2>3, <3>4, <4>1 DEF Tied, Under
      <4>2. CASE l # last /\ Tied(l, d)
        BY <1>2, <4>2 DEF Tied, Under
      <4>3. CASE l # last /\ Leaving(l, d)
        <5>1. SpanOf(l) = s /\ Under(l, h) /\ chanpos(last) <= chanpos(l)
          BY <1>3, <1>5, <4>3 DEF Leaving
        <5>2. chanpos(l) > x
          BY <1>6, <1>7, <1>11, <4>3, <5>1
        <5>3. chanpos(d0) <= chanpos(l)
          BY <1>6, <2>1, <5>2
        <5> QED BY <1>2, <1>3, <3>2, <4>3, <5>3 DEF Leaving, Under
      <4> QED BY <1>8, <1>9, <3>3, <4>1, <4>2, <4>3
    <3>7. OneLink'
      BY <1>8, <1>9, <3>3, <3>5 DEF OneLink
    <3>8. AtItself'
      BY <1>2, <1>3, <3>2 DEF ListInv, AtItself
    <3>9. Progress'
      <4>1. Under(d0, h)' /\ chanpos(h) <= chanpos(d0)
        BY <1>2, <1>6, <1>7, <2>1, <2>3 DEF Under
      <4>2. Behindhand'
        BY <2>1, <3>2 DEF Behindhand
      <4>3. ASSUME NEW l \in Channels, NEW d \in Channels, Present(l)', Link(l, d)',
                   chmaster[d] = h, chanpos(l) < chanpos(d0)
            PROVE  chanpos(d) <= chanpos(d0)
        <5>1. CASE l = last /\ d = d0
          BY <1>6, <5>1
        <5>2. CASE l # last /\ Link(l, d)
          <6>1. Tied(l, d)
            BY <1>8, <1>9, <4>3, <5>2
          <6>2. SpanOf(l) = s /\ Under(l, h) /\ chanpos(h) <= chanpos(l)
            BY <1>5, <4>3, <6>1 DEF Tied
          <6>3. chanpos(l) < chanpos(last)
            BY <1>6, <1>11, <2>1, <4>3, <5>2, <6>2
          <6>4. chanpos(d) <= chanpos(last)
            BY <1>7, <1>9, <4>3, <5>2, <6>3
          <6> QED BY <1>6, <2>1, <6>4
        <5> QED BY <3>3, <4>3, <5>1, <5>2
      <4>4. Ordered'
        BY <1>2, <3>2, <4>3 DEF Ordered
      <4> QED BY <3>2, <4>1, <4>2, <4>4 DEF Progress, Under
    <3>10. PlainSoFar'
      <4> SUFFICES ASSUME plain
                   PROVE  /\ MastersFirst' /\ SlavesLinked' /\ chmaster[h] = h
                          /\ config.at \in {"detach", "unlink", "attach"}
                                 => Plain(config.chan, config.new)'
        BY <1>2, <3>2 DEF PlainSoFar, Relinking
      <4>1. MastersFirst'
        BY <1>2, <1>12 DEF MastersFirst
      <4>2. config.at \in {"detach", "unlink", "attach"} => Plain(config.chan, config.new)'
        BY <1>2, <3>2 DEF ListInv, PlainSoFar, Plain
      <4>3. ASSUME NEW d \in Channels, d # d0, chmaster[d] = h, chanpos(d) > x, SpanOf(d) = s
            PROVE  ToCome(d)'
        BY <1>2, <2>2, <3>2, <4>3 DEF ToCome, Relinking
      <4>4. SlavesLinked'
        <5> SUFFICES ASSUME NEW d \in Channels, Present(d)', chmaster'[d] # d
                     PROVE  (\E l \in Channels : Link(l, d)') \/ ToCome(d)'
          BY DEF SlavesLinked
        <5>1. CASE d = d0
          BY <3>3, <5>1
        <5>2. ASSUME NEW l \in Channels, Link(l, d), d # d0 PROVE (\E k \in Channels : Link(k, d)') \/ ToCome(d)'
          <6>1. CASE l = last
            BY <1>2, <1>9, <1>13, <4>3, <5>2, <6>1
          <6>2. CASE l # last
            BY <3>3, <5>2, <6>2
          <6> QED BY <6>1, <6>2
        <5>3. CASE d # d0 /\ chmaster[d] = h /\ chanpos(d) > x
          <6>1. SpanOf(d) = s
            BY <1>2, <1>5, <1>12, <5>3
          <6> QED BY <4>3, <5>3, <6>1
        <5> QED BY <1>2, <1>9, <1>12, <5>1, <5>2, <5>3
      <4> QED BY <1>12, <4>1, <4>2, <4>4
    <3> QED BY <3>6, <3>7, <3>8, <3>9, <3>10 DEF ListInv
  <2>4. CASE chmaster[d0] # h
    <3>1. config' = [config EXCEPT !.x = x + 1] /\ nextslave' = nextslave
      BY <1>3, <1>4, <1>5, <1>14, <2>1, <2>4 DEF Relink, IsNext
    <3>2. /\ config'.x = x + 1 /\ config'.last = last /\ config'.head = h /\ config'.at = config.at
          /\ config'.chan = config.chan /\ config'.new = config.new
      BY <1>2, <1>3, <3>1 DEF HyperTypeOK
    <3>3. \A l, d \in Channels : Link(l, d)' <=> Link(l, d)
      BY <3>1 DEF Link
    <3>4. LinksTied' /\ OneLink'
      BY <1>2, <1>3, <1>8, <1>9, <3>2, <3>3 DEF LinksTied, OneLink, Tied, Leaving, Under
    <3>5. AtItself'
      BY <1>2, <1>3, <3>2 DEF ListInv, AtItself
    <3>6. Progress'
      <4>1. Behindhand'
        BY <1>2, <1>5, <1>7, <2>2, <2>4, <3>2 DEF Behindhand
      <4>2. Ordered'
        BY <1>2, <1>7, <1>9, <3>2, <3>3 DEF Ordered
      <4> QED BY <1>2, <1>7, <3>2, <4>1, <4>2 DEF Progress, Under
    <3>7. PlainSoFar'
      <4> SUFFICES ASSUME plain
                   PROVE  /\ MastersFirst' /\ SlavesLinked' /\ chmaster[h] = h
                          /\ config.at \in {"detach", "unlink", "attach"}
                                 => Plain(config.chan, config.new)'
        BY <1>2, <3>2 DEF PlainSoFar, Relinking
      <4>1. MastersFirst'
        BY <1>2, <1>12 DEF MastersFirst
      <4>2. config.at \in {"detach", "unlink", "attach"} => Plain(config.chan, config.new)'
        BY <1>2, <3>2 DEF ListInv, PlainSoFar, Plain
      <4>3. SlavesLinked'
        <5> SUFFICES ASSUME NEW d \in Channels, Present(d)', chmaster'[d] # d
                     PROVE  (\E l \in Channels : Link(l, d)') \/ ToCome(d)'
          BY DEF SlavesLinked
        <5>1. CASE chmaster[d] = h /\ chanpos(d) > x
          <6>1. SpanOf(d) = s /\ d # d0
            BY <1>2, <1>5, <1>12, <2>4, <5>1
          <6> QED BY <1>2, <2>2, <3>2, <5>1, <6>1 DEF ToCome, Relinking
        <5> QED BY <1>2, <1>9, <1>12, <3>3, <5>1
      <4> QED BY <1>12, <4>1, <4>2, <4>3
    <3> QED BY <3>4, <3>5, <3>6, <3>7 DEF ListInv
  <2> QED BY <2>3, <2>4
<1>15. CASE ~ (x < Size[s])
  <2>1. nextslave' = [nextslave EXCEPT ![last] = 0] /\ config' = Finished
    BY <1>3, <1>4, <1>5, <1>15 DEF Relink, Ended
  <2>2. \/ config'.at = "attach" /\ config.at = "unlink" /\ config'.chan = config.chan /\ config'.new = config.new
        \/ config'.at = "idle"
    BY <1>2, <2>1 DEF HyperTypeOK, Finished, NoConfig
  <2>3. \A l, d \in Channels : Link(l, d)' <=> l # last /\ Link(l, d)
    BY <1>2, <2>1 DEF Link, HyperTypeOK
  <2>4. \A d \in Channels : SpanOf(d) = s => ~ (chanpos(d) > x)
    BY <1>6, <1>15
  <2>5. LinksTied'
    <3> SUFFICES ASSUME NEW l \in Channels, NEW d \in Channels, Present(l)', Link(l, d)'
                 PROVE  Tied(l, d)'
      BY DEF LinksTied
    <3>1. ASSUME Leaving(l, d) PROVE FALSE
      <4>1. SpanOf(l) = s /\ Under(l, h) /\ chanpos(last) <= chanpos(l) /\ l # last
        BY <1>3, <1>5, <2>3, <3>1 DEF Leaving
      <4> QED BY <1>6, <1>7, <1>11, <2>4, <4>1
    <3>2. Tied(l, d)
      BY <1>8, <1>9, <2>3, <3>1
    <3> QED BY <1>2, <3>2 DEF Tied, Under
  <2>6. OneLink'
    BY <1>8, <1>9, <2>3 DEF OneLink
  <2>7. AtItself' /\ Progress'
    BY <1>2, <2>2 DEF ListInv, AtItself, Progress, Relinking
  <2>8. PlainSoFar'
    <3> SUFFICES ASSUME plain
                 PROVE  /\ MastersFirst' /\ SlavesLinked'
                        /\ config'.at = "attach" => Plain(config.chan, config.new)'
      BY <1>2, <2>2 DEF PlainSoFar, Relinking
    <3>1. MastersFirst'
      BY <1>2, <1>12 DEF MastersFirst
    <3>2. config'.at = "attach" => Plain(config.chan, config.new)'
      BY <1>2, <2>2 DEF ListInv, PlainSoFar, Plain
    <3>3. SlavesLinked'
      <4> SUFFICES ASSUME NEW d \in Channels, Present(d)', chmaster'[d] # d
                   PROVE  \E l \in Channels : Link(l, d)'
        BY DEF SlavesLinked
      <4>1. ~ (chmaster[d] = h /\ chanpos(d) > x)
        BY <1>2, <1>5, <1>12, <2>4
      <4>2. PICK l \in Channels : Link(l, d)
        BY <1>2, <1>9, <1>12, <4>1
      <4>3. l # last
        BY <1>2, <1>9, <1>13, <4>1, <4>2
      <4> QED BY <2>3, <4>2, <4>3
    <3> QED BY <3>1, <3>2, <3>3
  <2> QED BY <2>5, <2>6, <2>7, <2>8 DEF ListInv
<1> QED BY <1>14, <1>15

LEMMA NextListInv ==
    ASSUME IInv, ListInv, [HyperNext]_vars
    PROVE  ListInv'
<1>1. ASSUME NEW s \in Spans, RegisterSpan(s) PROVE ListInv'
  BY <1>1, RegisterListInv
<1>2. ASSUME NEW s \in Spans, UnregisterSpan(s) PROVE ListInv'
  BY <1>2, UnregisterListInv
<1>3. CASE SpanStep
  <2>1. UNCHANGED <<spans, hyper_vars>>
    BY <1>3, SpanStepInv DEF IInv
  <2>2. Registered' = Registered
    BY <2>1 DEF Registered, Listed
  <2> QED BY <2>1, <2>2, SameListsListInv
<1>4. CASE UnplugStep
  <2>1. UNCHANGED hyper_vars /\ spans' = spans
    BY <1>4 DEF UnplugStep, ChooseMaster, CommitMaster
  <2>2. Registered' = Registered
    BY <2>1 DEF Registered, Listed
  <2> QED BY <2>1, <2>2, SameListsListInv
<1>5. ASSUME NEW c \in Channels, NEW m \in Channels, NEW ok \in BOOLEAN, ChanConfig(c, m, ok)
      PROVE  ListInv'
  BY <1>5, ChanConfigListInv
<1>6. CASE Detach
  BY <1>6, DetachListInv
<1>7. CASE Relink
  BY <1>7, RelinkListInv
<1>8. CASE Attach
  BY <1>8, AttachListInv
<1>9. CASE UNCHANGED vars
  <2>1. UNCHANGED hyper_vars /\ Registered' = Registered
    BY <1>9 DEF vars, span_vars, Registered, Listed
  <2> QED BY <2>1, SameListsListInv
<1> QED BY <1>1, <1>2, <1>3, <1>4, <1>5, <1>6, <1>7, <1>8, <1>9 DEF HyperNext, Configure

LEMMA ListInvariance == Spec => [](IInv /\ ListInv)
<1>1. HyperInit => ListInv
  BY InitListInv
<1>2. IInv /\ ListInv /\ [HyperNext]_vars => ListInv'
  BY NextListInv
<1> QED BY Invariance, <1>1, <1>2, PTL DEF Spec

-----------------------------------------------------------------------------
(* What is served.                                                         *)

After(s, R) == R \cup {ChanAt(s, nextslave[c]) : c \in {d \in R : nextslave[d] # 0}}
Follows(f, h, n) == f = [k \in 0 .. n |-> IF k = 0 THEN {h} ELSE After(SpanOf(h), f[k - 1])]

\* The loop over a list takes its steps.
LEMMA FollowsOn ==
    ASSUME NEW h, NEW m \in Nat
    PROVE  \E f : Follows(f, h, m)
<1> DEFINE Bad == {n \in Nat : ~ \E f : Follows(f, h, n)}
<1> SUFFICES ASSUME m \in Bad PROVE FALSE
  OBVIOUS
<1>1. PICK n \in Bad : \A k \in Bad : n <= k
  <2>1. Bad \in SUBSET Nat /\ Bad # {}
    OBVIOUS
  <2> HIDE DEF Bad
  <2> QED BY <2>1, LeastNumber
<1>2. CASE n = 0
  <2>1. Follows([k \in 0 .. 0 |-> {h}], h, 0)
    <3>1. [k \in 0 .. 0 |-> {h}]
            = [k \in 0 .. 0 |-> IF k = 0 THEN {h} ELSE After(SpanOf(h), [j \in 0 .. 0 |-> {h}][k - 1])]
      OBVIOUS
    <3> QED BY <3>1, Zenon DEF Follows
  <2> QED BY <1>1, <1>2, <2>1
<1>3. CASE n # 0
  <2>1. n \in Nat /\ n - 1 \in Nat /\ n - 1 < n
    BY <1>1, <1>3
  <2>2. n - 1 \notin Bad
    <3> HIDE DEF Bad
    <3> QED BY <1>1, <2>1
  <2>3. PICK g : Follows(g, h, n - 1)
    BY <2>1, <2>2
  <2> DEFINE f == [k \in 0 .. n |-> IF k = 0 THEN {h} ELSE After(SpanOf(h), g[k - 1])]
  <2>4. ASSUME NEW k \in 0 .. n - 1 PROVE f[k] = g[k]
    <3>1. g[k] = IF k = 0 THEN {h} ELSE After(SpanOf(h), g[k - 1])
      BY <2>3 DEF Follows
    <3>2. k \in 0 .. n
      BY <2>1
    <3> QED BY <3>1, <3>2
  <2>5. \A k \in 0 .. n : k # 0 => k - 1 \in 0 .. n - 1
    BY <2>1
  <2>6. f = [k \in 0 .. n |-> IF k = 0 THEN {h} ELSE After(SpanOf(h), f[k - 1])]
    <3>1. \A k \in 0 .. n : k # 0 => f[k - 1] = g[k - 1]
      <4> HIDE DEF f
      <4> QED BY <2>4, <2>5
    <3>2. \A k \in 0 .. n : f[k] = IF k = 0 THEN {h} ELSE After(SpanOf(h), g[k - 1])
      OBVIOUS
    <3>3. DOMAIN f = 0 .. n /\ f = [k \in 0 .. n |-> f[k]]
      OBVIOUS
    <3> HIDE DEF f
    <3> QED BY <3>1, <3>2, <3>3
  <2>7. Follows(f, h, n)
    <3> HIDE DEF f
    <3> QED BY <2>6, Zenon DEF Follows
  <2>8. n \notin Bad
    <3> HIDE DEF f
    <3> QED BY <2>7
  <2> QED BY <1>1, <2>8
<1> QED BY <1>2, <1>3

LEMMA ServedIs ==
    ASSUME NEW h, Size[SpanOf(h)] \in Nat
    PROVE  \E f : /\ f[0] = {h}
                  /\ \A k \in 1 .. Size[SpanOf(h)] : f[k] = After(SpanOf(h), f[k - 1])
                  /\ Served(h) = f[Size[SpanOf(h)]]
<1> DEFINE Reach(f) == f = [k \in 0 .. Size[SpanOf(h)] |->
               IF k = 0 THEN {h}
               ELSE f[k - 1] \cup {ChanAt(SpanOf(h), nextslave[c]) :
                                      c \in {d \in f[k - 1] : nextslave[d] # 0}}]
           f == CHOOSE f : Reach(f)
<1>1. Reach(f)
  <2>1. \E g : Follows(g, h, Size[SpanOf(h)])
    <3> HIDE DEF Reach, f
    <3> QED BY FollowsOn
  <2>2. \E g : Reach(g)
    BY <2>1, Zenon DEF Follows, After
  <2> HIDE DEF Reach
  <2> QED BY <2>2, Zenon
<1>2. Served(h) = f[Size[SpanOf(h)]]
  BY Zenon DEF Served
<1>3. \A k \in 0 .. Size[SpanOf(h)] : f[k] = IF k = 0 THEN {h} ELSE After(SpanOf(h), f[k - 1])
  <2> HIDE DEF f
  <2> QED BY <1>1 DEF After
<1> HIDE DEF f
<1>4. 0 \in 0 .. Size[SpanOf(h)]
      /\ \A k \in 1 .. Size[SpanOf(h)] : k \in 0 .. Size[SpanOf(h)] /\ k # 0
  OBVIOUS
<1> QED BY <1>2, <1>3, <1>4

\* R is what follows from h in k steps, and no less.
Reached(R, h, k) ==
    /\ h \in R /\ \A x \in R : x \in Channels /\ SpanOf(x) = SpanOf(h)
    /\ \A x \in R : x = h \/ \E l \in R : Link(l, x)
    /\ \A l \in R : chanpos(l) < chanpos(h) + k => \A d \in Channels : Link(l, d) => d \in R

LEMMA ReachedNext ==
    ASSUME HyperTypeOK, ChainsEnd, NEW h \in Channels, NEW k \in Nat, NEW R, Reached(R, h, k)
    PROVE  Reached(After(SpanOf(h), R), h, k + 1)
<1> DEFINE S == After(SpanOf(h), R)
<1>1. \A x : x \in S <=> x \in R \/ \E l \in R : Link(l, x)
  BY DEF Reached, After, Link
<1> HIDE DEF S
<1>2. h \in S /\ \A x \in S : x \in Channels /\ SpanOf(x) = SpanOf(h)
  <2>1. \A x \in R : x \in Channels /\ SpanOf(x) = SpanOf(h)
    BY DEF Reached
  <2>2. \A l \in R : \A x : Link(l, x) => x \in Channels /\ SpanOf(x) = SpanOf(h)
    BY <2>1, LinkPlace
  <2> QED BY <1>1, <2>1, <2>2 DEF Reached
<1>3. \A x \in S : x = h \/ \E l \in S : Link(l, x)
  BY <1>1 DEF Reached
<1>4. ASSUME NEW l \in S, chanpos(l) < chanpos(h) + k + 1, NEW d \in Channels, Link(l, d)
      PROVE  d \in S
  <2>1. CASE l \in R
    BY <1>1, <1>4, <2>1
  <2>2. CASE l \notin R
    <3>1. PICK c \in R : Link(c, l)
      BY <1>1, <2>2
    <3>2. c \in Channels /\ l \in Channels
      BY <1>2, <3>1 DEF Reached
    <3>3. ~ (chanpos(c) < chanpos(h) + k)
      BY <2>2, <3>1, <3>2 DEF Reached
    <3>4. chanpos(c) < chanpos(l) /\ chanpos(c) \in Nat /\ chanpos(l) \in Nat /\ chanpos(h) \in Nat
      BY <3>1, <3>2, LinkPlace, PlaceType
    <3> QED BY <1>4, <3>3, <3>4
  <2> QED BY <2>1, <2>2
<1>5. \A l \in S : chanpos(l) < chanpos(h) + (k + 1) => \A d \in Channels : Link(l, d) => d \in S
  <2>1. chanpos(h) + (k + 1) = chanpos(h) + k + 1
    BY PlaceType
  <2> QED BY <1>4, <2>1
<1>6. Reached(S, h, k + 1)
  BY <1>2, <1>3, <1>5 DEF Reached
<1> QED BY <1>6 DEF S

LEMMA ReachedAll ==
    ASSUME HyperTypeOK, ChainsEnd, NEW h \in Channels, NEW n \in Nat, NEW f, f[0] = {h},
           \A k \in 1 .. n : f[k] = After(SpanOf(h), f[k - 1])
    PROVE  Reached(f[n], h, n)
<1> DEFINE Bad == {k \in 0 .. n : ~ Reached(f[k], h, k)}
<1> SUFFICES ASSUME Bad # {} PROVE FALSE
  OBVIOUS
<1>1. PICK k \in Bad : \A j \in Bad : k <= j
  <2>1. Bad \in SUBSET Nat
    OBVIOUS
  <2> HIDE DEF Bad
  <2> QED BY <2>1, LeastNumber
<1>2. k \in 0 .. n /\ ~ Reached(f[k], h, k)
  BY <1>1
<1>3. CASE k = 0
  <2>1. chanpos(h) \in Nat
    BY PlaceType
  <2>2. Reached({h}, h, 0)
    BY <2>1 DEF Reached
  <2> QED BY <1>2, <1>3, <2>2
<1>4. CASE k # 0
  <2>1. k - 1 \in Nat /\ k - 1 \in 0 .. n /\ k \in 1 .. n /\ k - 1 < k /\ (k - 1) + 1 = k
    BY <1>2, <1>4
  <2>2. Reached(f[k - 1], h, k - 1)
    <3>1. k - 1 \notin Bad
      <4> HIDE DEF Bad
      <4> QED BY <1>1, <1>2, <2>1
    <3> QED BY <2>1, <3>1
  <2>3. PICK R : R = f[k - 1]
    OBVIOUS
  <2>4. PICK j \in Nat : j = k - 1
    BY <2>1
  <2>5. Reached(After(SpanOf(h), R), h, j + 1)
    BY <2>2, <2>3, <2>4, ReachedNext
  <2>6. f[k] = After(SpanOf(h), R)
    BY <2>1, <2>3
  <2> QED BY <1>2, <2>1, <2>4, <2>5, <2>6
<1> QED BY <1>3, <1>4

\* What an interrupt serves is the head and all that follows from it.
LEMMA ServedFollows ==
    ASSUME HyperTypeOK, ChainsEnd, NEW h \in Channels
    PROVE  /\ h \in Served(h)
           /\ \A x \in Served(h) : x \in Channels /\ SpanOf(x) = SpanOf(h)
           /\ \A x \in Served(h) : x = h \/ \E l \in Served(h) : Link(l, x)
           /\ \A l \in Served(h) : \A d \in Channels : Link(l, d) => d \in Served(h)
<1>1. PICK n \in Nat : n = Size[SpanOf(h)]
  BY PlaceType
<1>2. PICK f : /\ f[0] = {h}
               /\ \A k \in 1 .. n : f[k] = After(SpanOf(h), f[k - 1])
               /\ Served(h) = f[n]
  BY <1>1, ServedIs
<1>3. Reached(Served(h), h, n)
  BY <1>2, ReachedAll
<1>4. ASSUME NEW l \in Served(h) PROVE chanpos(l) < chanpos(h) + n
  <2>1. l \in Channels /\ SpanOf(l) = SpanOf(h)
    BY <1>3 DEF Reached
  <2> QED BY <1>1, <2>1, PlaceType
<1> QED BY <1>3, <1>4 DEF Reached

\* Of channels with something in common one is the first of its span.
LEMMA FirstPlace ==
    ASSUME NEW S \in SUBSET Channels, S # {}
    PROVE  \E c \in S : \A d \in S : chanpos(c) <= chanpos(d)
<1> DEFINE T == {chanpos(c) : c \in S}
<1>1. T \in SUBSET Nat /\ T # {}
  BY PlaceType
<1>2. PICK t \in T : \A u \in T : t <= u
  <2> HIDE DEF T
  <2> QED BY <1>1, LeastNumber
<1> QED BY <1>2

LEMMA OnceServed ==
    ASSUME IInv, ListInv
    PROVE  NotServedTwice
<1> SUFFICES ASSUME config = NoConfig, NEW a \in Heads, NEW b \in Heads, a # b
             PROVE  Served(a) \cap Served(b) = {}
  BY DEF NotServedTwice
<1>1. HyperTypeOK /\ ChainsEnd
  BY DEF IInv
<1>2. /\ a \in Channels /\ Present(a) /\ chmaster[a] = a
      /\ b \in Channels /\ Present(b) /\ chmaster[b] = b
  BY DEF Heads
<1>3. \A l, d \in Channels : Present(l) /\ Link(l, d) => chmaster[d] # d
  <2>1. config.at = "idle"
    BY DEF NoConfig
  <2> QED BY <2>1, BetweenCalls DEF Tied
<1>4. \A k, l, d \in Channels : Present(k) /\ Present(l) /\ Link(k, d) /\ Link(l, d) => k = l
  BY DEF ListInv, OneLink
<1>5. \A x \in Served(a) : x \in Channels /\ Present(x) /\ (x = a \/ \E l \in Served(a) : Link(l, x))
  BY <1>1, <1>2, ServedFollows DEF Present
<1>6. \A x \in Served(b) : x \in Channels /\ Present(x) /\ (x = b \/ \E l \in Served(b) : Link(l, x))
  BY <1>1, <1>2, ServedFollows DEF Present
<1>7. PICK S : S = Served(a) \cap Served(b)
  OBVIOUS
<1> SUFFICES ASSUME S # {} PROVE FALSE
  BY <1>7
<1>8. PICK x \in S : \A y \in S : chanpos(x) <= chanpos(y)
  BY <1>5, <1>7, FirstPlace
<1>9. x # a /\ x # b
  BY <1>2, <1>3, <1>5, <1>6, <1>7
<1>10. PICK l \in Served(a) : Link(l, x)
  BY <1>5, <1>7, <1>9
<1>11. PICK k \in Served(b) : Link(k, x)
  BY <1>6, <1>7, <1>9
<1>12. k = l
  BY <1>4, <1>5, <1>6, <1>7, <1>10, <1>11
<1>13. l \in S /\ l \in Channels /\ x \in Channels
  BY <1>5, <1>7, <1>10, <1>11, <1>12
<1>14. chanpos(l) < chanpos(x) /\ chanpos(l) \in Nat /\ chanpos(x) \in Nat
  BY <1>1, <1>10, <1>13, LinkPlace, PlaceType
<1> QED BY <1>8, <1>13, <1>14

LEMMA ServedAreSlaves ==
    ASSUME IInv, ListInv
    PROVE  ChainIsSlaves
<1> SUFFICES ASSUME config = NoConfig, plain, NEW a \in Heads
             PROVE  Served(a) = {c \in Channels : chmaster[c] = a}
  BY DEF ChainIsSlaves
<1>1. HyperTypeOK /\ ChainsEnd /\ a \in Channels /\ Present(a) /\ chmaster[a] = a
  BY DEF IInv, Heads
<1>2. /\ \A l, d \in Channels : Present(l) /\ Link(l, d) => Under(l, chmaster[d])
      /\ \A d \in Channels : chmaster[d] # d =>
             SpanOf(chmaster[d]) = SpanOf(d) /\ chmaster[chmaster[d]] = chmaster[d]
      /\ \A d \in Channels : Present(d) /\ chmaster[d] # d => \E l \in Channels : Link(l, d)
  <2>1. config.at = "idle"
    BY DEF NoConfig
  <2> QED BY <2>1, BetweenCalls DEF Tied, MastersFirst
<1>3. \A x \in Served(a) : x \in Channels /\ Present(x) /\ (x = a \/ \E l \in Served(a) : Link(l, x))
  BY <1>1, ServedFollows DEF Present
<1>4. /\ a \in Served(a)
      /\ \A l \in Served(a) : \A d \in Channels : Link(l, d) => d \in Served(a)
  BY <1>1, ServedFollows
<1>5. \A l, d \in Channels : Link(l, d) => chanpos(l) < chanpos(d) /\ chanpos(l) \in Nat /\ chanpos(d) \in Nat
  BY <1>1, LinkPlace, PlaceType
<1>6. PICK S : S = {x \in Served(a) : chmaster[x] # a}
  OBVIOUS
<1>7. S = {}
  <2> SUFFICES ASSUME S # {} PROVE FALSE
    OBVIOUS
  <2>1. PICK x \in S : \A y \in S : chanpos(x) <= chanpos(y)
    BY <1>3, <1>6, FirstPlace
  <2>2. PICK l \in Served(a) : Link(l, x)
    BY <1>1, <1>3, <1>6, <2>1
  <2>3. l \in Channels /\ x \in Channels /\ Present(l)
    BY <1>3, <1>6, <2>1, <2>2
  <2>4. chmaster[l] = a
    BY <1>5, <1>6, <2>1, <2>2, <2>3
  <2>5. chmaster[x] = a
    BY <1>1, <1>2, <2>2, <2>3, <2>4 DEF Under
  <2> QED BY <1>6, <2>1, <2>5
<1>8. PICK T : T = {d \in Channels : chmaster[d] = a /\ d \notin Served(a)}
  OBVIOUS
<1>9. T = {}
  <2> SUFFICES ASSUME T # {} PROVE FALSE
    OBVIOUS
  <2>1. PICK d \in T : \A y \in T : chanpos(d) <= chanpos(y)
    BY <1>8, FirstPlace
  <2>2. d \in Channels /\ chmaster[d] = a /\ d # a /\ d \notin Served(a)
    BY <1>4, <1>8, <2>1
  <2>3. Present(d)
    BY <1>1, <1>2, <2>2 DEF Present
  <2>4. PICK l \in Channels : Link(l, d)
    BY <1>2, <2>2, <2>3
  <2>5. Present(l)
    BY <2>3, <2>4, LinkWithin DEF Present
  <2>6. chmaster[l] = a
    BY <1>1, <1>2, <2>2, <2>4, <2>5 DEF Under
  <2>7. l \notin T
    BY <1>5, <2>1, <2>2, <2>4
  <2> QED BY <1>4, <1>8, <2>2, <2>4, <2>6, <2>7
<1> QED BY <1>3, <1>6, <1>7, <1>8, <1>9

(* recalc_slaves and CHANCONFIG, for spans of any size and any channels    *)
(* users name: no channel is on the lists of two masters, and as long as   *)
(* slaves are tied to earlier channels that are no slaves a master's list  *)
(* holds its slaves, also after configurations that failed.                *)
THEOREM ListsAreSlaves == Spec => []SlaveLists
<1>1. IInv /\ ListInv => SlaveLists
  BY OnceServed, ServedAreSlaves DEF SlaveLists
<1> QED BY ListInvariance, <1>1, PTL

-----------------------------------------------------------------------------
(* Files.                                                                  *)

\* A file that is on its way in or out has its channel.
Placed ==
    /\ \A f \in Files : at[f] \notin {"idle", "open"} => Chan(f) # NoChan
    /\ ~yanked => \A f \in Files : unit[f] # 0 => Chan(f) # NoChan

\* The table of channels, the files, and which channels are open.
TableInv ==
    /\ chans \in [Channos -> Channels \cup {NoChan}]
    /\ \A n \in Channos : chans[n] # NoChan => Present(chans[n])
    /\ opened \in SUBSET Channels
    /\ unit \in [Files -> Channos \cup {0}]
    /\ at \in [Files -> {"idle", "init", "zone", "driver", "open", "closing"}]
    /\ \A f \in Files : at[f] = "idle" <=> unit[f] = 0
    /\ yanked \in BOOLEAN
    /\ Placed
    /\ OneFile

-----------------------------------------------------------------------------
(* The spans do as they do without files.                                  *)

LEMMA StepOfSpans ==
    ASSUME [FilesNext]_all_vars
    PROVE  [HyperNext]_vars
<1>1. ASSUME NEW s \in Spans, RegisterFiles(s) \/ UnregisterFiles(s) PROVE HyperNext
  BY <1>1 DEF RegisterFiles, UnregisterFiles, HyperNext
<1>2. CASE SpanStep \/ UnplugStep \/ Configure \/ Detach \/ Relink \/ Attach
  BY <1>2 DEF HyperNext
<1>3. CASE UNCHANGED vars
  BY <1>3
<1>4. CASE UNCHANGED all_vars
  BY <1>4 DEF all_vars
<1> QED BY <1>1, <1>2, <1>3, <1>4 DEF FilesNext

(* Files, zones and echo cancellers are an extension: what holds of the    *)
(* spans and their lists of slaves (dahdi_register, dahdi_unregister and   *)
(* CHANCONFIG in dahdi-base.c) holds with them too.                        *)
THEOREM FilesExtendSpans == FilesSpec => Spec
<1>1. FilesInit => HyperInit
  BY DEF FilesInit
<1>2. [FilesNext]_all_vars => [HyperNext]_vars
  BY StepOfSpans
<1> QED BY <1>1, <1>2, PTL DEF FilesSpec, Spec

-----------------------------------------------------------------------------
(* One file                                                                *)

LEMMA ChanIs ==
    ASSUME TableInv, NEW f \in Files
    PROVE  /\ Chan(f) \in Channels \cup {NoChan}
           /\ unit[f] = 0 => Chan(f) = NoChan
           /\ Chan(f) # NoChan => unit[f] \in Channos /\ Chan(f) = chans[unit[f]]
BY DEF TableInv, Chan

LEMMA InitTable == FilesInit => TableInv
<1> SUFFICES ASSUME FilesInit PROVE TableInv
  OBVIOUS
<1>1. chans = [n \in Channos |-> NoChan] /\ yanked = FALSE /\ opened = {}
      /\ unit = [f \in Files |-> 0] /\ at = [f \in Files |-> "idle"]
  BY DEF FilesInit
<1>2. \A f \in Files : Chan(f) = NoChan
  BY <1>1 DEF Chan
<1> QED BY <1>1, <1>2 DEF TableInv, Placed, OneFile

\* Files and channels are where they were.
LEMMA SameTable ==
    ASSUME TableInv, UNCHANGED <<spans, table, opened, unit, at>>
    PROVE  TableInv'
<1>1. Registered' = Registered
  BY DEF Registered, Listed
<1>2. \A f \in Files : Chan(f)' = Chan(f)
  BY DEF Chan, table
<1> QED BY <1>1, <1>2 DEF TableInv, Placed, OneFile, table, Present

\* A file goes on, from a place where it has its channel to another.
LEMMA GoTable ==
    ASSUME TableInv, UNCHANGED <<spans, table, opened, unit>>, NEW f \in Files, at[f] # "idle",
           NEW where \in {"zone", "driver", "open", "closing"}, Go(f, where), Chan(f) # NoChan
    PROVE  TableInv'
<1>1. Registered' = Registered
  BY DEF Registered, Listed
<1>2. \A g \in Files : Chan(g)' = Chan(g)
  BY DEF Chan, table
<1>3. at' = [at EXCEPT ![f] = where]
  BY DEF Go
<1>4. OneFile' /\ Placed'
  BY <1>2, <1>3 DEF TableInv, OneFile, Placed, table
<1> QED BY <1>1, <1>2, <1>3, <1>4 DEF TableInv, table, Present

LEMMA OpenTable ==
    ASSUME TableInv, UNCHANGED spans, NEW f \in Files, NEW u \in Units, Open(f, u)
    PROVE  TableInv'
<1> DEFINE c == chans[u]
<1>1. u \in Channos /\ u # 0
  BY FilesAssumption DEF Channos
<1>2. /\ at[f] = "idle" /\ c # NoChan /\ c \notin opened
      /\ opened' = opened \cup {c}
      /\ unit' = [unit EXCEPT ![f] = u] /\ at' = [at EXCEPT ![f] = "init"]
      /\ chans' = chans /\ yanked' = yanked
  BY DEF Open, Free, Go, table
<1>3. c \in Channels /\ Present(c) /\ Chan(f) = NoChan
  BY <1>1, <1>2, ChanIs DEF TableInv
<1>4. Chan(f)' = c
  BY <1>1, <1>2 DEF Chan, TableInv
<1>5. \A g \in Files \ {f} : Chan(g)' = Chan(g) /\ unit'[g] = unit[g] /\ at'[g] = at[g]
  BY <1>2 DEF Chan, TableInv
<1>6. Placed'
  BY <1>2, <1>4, <1>5 DEF Placed, TableInv
<1>7. OneFile'
  <2> SUFFICES ASSUME ~ yanked
               PROVE  /\ \A g, h \in Files : Chan(g)' = Chan(h)' /\ Chan(g)' # NoChan => g = h
                      /\ opened' = {Chan(g)' : g \in Files} \ {NoChan}
    BY <1>2 DEF OneFile
  <2>1. opened = {Chan(g) : g \in Files} \ {NoChan}
        /\ \A g, h \in Files : Chan(g) = Chan(h) /\ Chan(g) # NoChan => g = h
    BY DEF TableInv, OneFile
  <2>2. \A g \in Files \ {f} : Chan(g)' # c
    BY <1>2, <1>5, <2>1
  <2> HIDE DEF c
  <2>3. opened' = {Chan(g)' : g \in Files} \ {NoChan}
    BY <1>2, <1>3, <1>4, <1>5, <2>1
  <2> QED BY <1>4, <1>5, <2>1, <2>2, <2>3
<1>8. Registered' = Registered
  BY DEF Registered, Listed
<1> QED BY <1>1, <1>2, <1>3, <1>6, <1>7, <1>8 DEF TableInv, Present

\* An open that has failed, and the end of a close.
LEMMA NotOpenedTable ==
    ASSUME TableInv, UNCHANGED <<spans, table>>, NEW f \in Files, Chan(f) # NoChan, NotOpened(f)
    PROVE  TableInv'
<1>1. /\ opened' = opened \ {Chan(f)} /\ chans' = chans /\ yanked' = yanked
      /\ unit' = [unit EXCEPT ![f] = 0] /\ at' = [at EXCEPT ![f] = "idle"]
  BY DEF NotOpened, Go, table
<1>2. Chan(f)' = NoChan
  BY <1>1 DEF Chan, TableInv
<1>3. \A g \in Files \ {f} : Chan(g)' = Chan(g) /\ unit'[g] = unit[g] /\ at'[g] = at[g]
  BY <1>1 DEF Chan, TableInv
<1>4. Placed'
  BY <1>1, <1>2, <1>3 DEF Placed, TableInv
<1>5. OneFile'
  BY <1>1, <1>2, <1>3 DEF OneFile, TableInv
<1>6. Registered' = Registered
  BY DEF Registered, Listed
<1> QED BY <1>1, <1>3, <1>4, <1>5, <1>6 DEF TableInv, Present

\* The file of a number that nobody has any more.
LEMMA ReleaseNobody ==
    ASSUME TableInv, UNCHANGED <<spans, table, opened>>, NEW f \in Files, Chan(f) = NoChan,
           unit' = [unit EXCEPT ![f] = 0], Go(f, "idle")
    PROVE  TableInv'
<1>1. chans' = chans /\ yanked' = yanked /\ at' = [at EXCEPT ![f] = "idle"]
  BY DEF Go, table
<1>2. \A g \in Files : Chan(g)' = Chan(g)
  BY <1>1 DEF Chan, TableInv
<1>3. Placed' /\ OneFile'
  BY <1>1, <1>2 DEF Placed, OneFile, TableInv
<1>4. Registered' = Registered
  BY DEF Registered, Listed
<1> QED BY <1>1, <1>3, <1>4 DEF TableInv, Present

LEMMA ChannelsFinite == IsFiniteSet(Channels) /\ Channos \in SUBSET (Nat \ {0})
<1> DEFINE T == {1 .. Size[s] : s \in Spans}
           f == [s \in Spans |-> 1 .. Size[s]]
<1>1. f \in Surjection(Spans, T)
  BY DEF Surjection
<1>2. IsFiniteSet(T)
  BY <1>1, SpanAssumption, FS_Surjection
<1>3. \A t \in T : IsFiniteSet(t)
  BY SizeAssumption, FS_Interval
<1>4. IsFiniteSet(Spans \X UNION T)
  BY <1>2, <1>3, SpanAssumption, FS_UNION, FS_Product
<1>5. Channels \in SUBSET (Spans \X UNION T)
  BY DEF Channels
<1>6. IsFiniteSet(Channels)
  BY <1>4, <1>5, FS_Subset
<1>7. Cardinality(Channels) \in Nat
  BY <1>6, FS_CardinalityType
<1> QED BY <1>6, <1>7 DEF Channos

\* What dahdi_chan_reg hands out are channels of the span.
LEMMA RanksAreChannels ==
    ASSUME NEW s \in Spans, NEW free \in SUBSET Channos, NEW n \in free,
           Cardinality({k \in free : k <= n}) <= Size[s]
    PROVE  <<s, Cardinality({k \in free : k <= n})>> \in Channels
<1> DEFINE S == {k \in free : k <= n}
<1>1. n \in Nat /\ n > 0 /\ S \in SUBSET (1 .. n)
  <2>1. \A k \in free : k \in Nat /\ k > 0
    BY ChannelsFinite
  <2>2. n \in Nat /\ n > 0
    BY <2>1
  <2>3. \A k \in S : k \in 1 .. n
    BY <2>1, <2>2
  <2> QED BY <2>2, <2>3
<1>2. IsFiniteSet(S)
  BY <1>1, FS_Interval, FS_Subset
<1>3. n \in S
  BY <1>1
<1>4. Cardinality(S) \in Nat /\ Cardinality(S) # 0
  BY <1>2, <1>3, FS_CardinalityType, FS_EmptySet
<1> HIDE DEF S
<1>5. Cardinality(S) \in 1 .. Size[s]
  BY <1>4, SizeAssumption DEF S
<1>6. <<s, Cardinality(S)>> \in Channels
  BY <1>5, ChannelsOfSpans
<1> QED BY <1>6 DEF S

LEMMA RegisterSpans ==
    ASSUME IInv, NEW s \in Spans, RegisterSpan(s)
    PROVE  s \notin Registered /\ Registered' = Registered \cup {s}
<1>1. PICK prefmaster \in BOOLEAN : Register(s, prefmaster)
  BY DEF RegisterSpan
<1> DEFINE free == {n \in Numbers : spans[n] = NoSpan}
           x    == CHOOSE n \in free : \A k \in free : n <= k
<1>2. free \in SUBSET Numbers /\ free # {} /\ spans' = [spans EXCEPT ![x] = s]
  BY <1>1 DEF Register
<1>3. x \in free
  BY <1>2, FirstIsListed
<1> HIDE DEF x
<1>4. x \in Numbers /\ spans[x] = NoSpan
  BY <1>3
<1>5. spans \in [Numbers -> Spans \cup {NoSpan}] /\ s # NoSpan
  BY SpanAssumption DEF IInv, SpanInv, SpanTypeOK
<1>6. s \notin Registered
  BY <1>1 DEF Register
<1> QED BY <1>2, <1>4, <1>5, <1>6 DEF Registered, Listed

LEMMA RegisterTable ==
    ASSUME IInv, TableInv, NEW s \in Spans, RegisterFiles(s)
    PROVE  TableInv'
<1> DEFINE free == {n \in Channos : chans[n] = NoChan}
           rank(n) == Cardinality({k \in free : k <= n})
<1>1. s \notin Registered /\ Registered' = Registered \cup {s}
  BY RegisterSpans DEF RegisterFiles
<1>2. chans' = [n \in Channos |->
                  IF n \in free /\ rank(n) <= Size[s] THEN <<s, rank(n)>> ELSE chans[n]]
      /\ opened' = opened \ Own(s) /\ UNCHANGED <<yanked, unit, at>>
  BY DEF RegisterFiles
<1>3. \A n \in Channos : chans'[n] = chans[n]
                         \/ (n \in free /\ chans'[n] \in Channels /\ SpanOf(chans'[n]) = s)
  <2> TAKE n \in Channos
  <2>1. CASE n \in free /\ rank(n) <= Size[s]
    <3>1. <<s, rank(n)>> \in Channels
      BY <2>1, RanksAreChannels
    <3> HIDE DEF rank
    <3> QED BY <1>2, <2>1, <3>1 DEF SpanOf
  <2>2. CASE ~ (n \in free /\ rank(n) <= Size[s])
    BY <1>2, <2>2
  <2> QED BY <2>1, <2>2
<1>4. chans' \in [Channos -> Channels \cup {NoChan}]
  BY <1>2, <1>3 DEF TableInv
<1>5. (\A n \in Channos : chans[n] # NoChan => Present(chans[n]))'
  BY <1>1, <1>3 DEF TableInv, Present
<1>6. \A f \in Files : Chan(f) # NoChan => Chan(f)' = Chan(f)
  BY <1>2, <1>3 DEF TableInv, Chan
<1>7. Placed'
  BY <1>2, <1>6 DEF TableInv, Placed
<1>8. OneFile'
  <2> SUFFICES ASSUME ~ yanked
               PROVE  /\ \A g, h \in Files : Chan(g)' = Chan(h)' /\ Chan(g)' # NoChan => g = h
                      /\ opened' = {Chan(g)' : g \in Files} \ {NoChan}
    BY <1>2 DEF OneFile
  <2>1. \A f \in Files : Chan(f)' = Chan(f)
    <3> TAKE f \in Files
    <3>1. CASE unit[f] = 0
      BY <1>2, <3>1 DEF Chan
    <3>2. CASE unit[f] # 0
      BY <1>6, <3>2 DEF TableInv, Placed
    <3> QED BY <3>1, <3>2
  <2>2. \A f \in Files : Chan(f) \notin Own(s)
    BY <1>1, ChanIs, NoChanIsNone DEF TableInv, Own, Present
  <2> QED BY <1>2, <2>1, <2>2 DEF TableInv, OneFile
<1> QED BY <1>2, <1>4, <1>5, <1>7, <1>8 DEF TableInv

LEMMA UnregisterTable ==
    ASSUME IInv, TableInv, NEW s \in Spans, UnregisterFiles(s)
    PROVE  TableInv'
<1> DEFINE open == \E f \in Files : SpanOf(Chan(f)) = s
<1>1. Registered' = Registered \ {s}
  BY UnregisterSpanInv DEF UnregisterFiles, UnregisterSpan, IInv
<1>2. chans' = [n \in Channos |-> IF SpanOf(chans[n]) = s THEN NoChan ELSE chans[n]]
      /\ yanked' = (open \/ yanked) /\ UNCHANGED <<opened, unit, at>>
      /\ \A f \in Files : SpanOf(Chan(f)) = s => at[f] = "open"
  BY Zenon DEF UnregisterFiles, files, Busied
<1>3. yanked' \in BOOLEAN
  BY <1>2, Zenon
<1>4. chans' \in [Channos -> Channels \cup {NoChan}]
  BY <1>2 DEF TableInv
<1>5. (\A n \in Channos : chans[n] # NoChan => Present(chans[n]))'
  BY <1>1, <1>2 DEF TableInv, Present
<1>6. \A f \in Files : SpanOf(Chan(f)) # s => Chan(f)' = Chan(f)
  BY <1>2 DEF TableInv, Chan
<1>7. (\A f \in Files : at[f] \notin {"idle", "open"} => Chan(f) # NoChan)'
  BY <1>2, <1>6 DEF TableInv, Placed
<1>8. CASE yanked'
  BY <1>2, <1>3, <1>4, <1>5, <1>7, <1>8 DEF TableInv, Placed, OneFile
<1>9. CASE ~ yanked'
  <2>1. ~ yanked /\ \A f \in Files : SpanOf(Chan(f)) # s
    BY <1>2, <1>9, Zenon
  <2>2. \A f \in Files : Chan(f)' = Chan(f)
    BY <1>6, <2>1
  <2>3. Placed' /\ OneFile'
    BY <1>2, <1>7, <2>1, <2>2 DEF TableInv, Placed, OneFile
  <2> QED BY <1>2, <1>3, <1>4, <1>5, <2>3 DEF TableInv
<1> QED BY <1>8, <1>9

LEMMA NextTable ==
    ASSUME IInv, TableInv, [FilesNext]_all_vars
    PROVE  TableInv'
<1>1. ASSUME NEW s \in Spans, RegisterFiles(s) PROVE TableInv'
  BY <1>1, RegisterTable
<1>2. ASSUME NEW s \in Spans, UnregisterFiles(s) PROVE TableInv'
  BY <1>2, UnregisterTable
<1>3. CASE (SpanStep \/ UnplugStep \/ Configure \/ Detach \/ Relink \/ Attach)
             /\ UNCHANGED file_vars
  <2>1. spans' = spans
    BY <1>3, SpanStepInv DEF IInv, UnplugStep, ChooseMaster, CommitMaster, Configure, ChanConfig,
                             Detach, Relink, Attach, span_vars
  <2> QED BY <1>3, <2>1, SameTable DEF file_vars, files
<1>4. ASSUME UNCHANGED vars, NEW f \in Files, FileStep(f) PROVE TableInv'
  <2>1. spans' = spans
    BY <1>4 DEF vars, span_vars
  <2>2. ASSUME NEW u \in Units, Open(f, u) PROVE TableInv'
    BY <2>1, <2>2, OpenTable
  <2>3. CASE InitializeChannel(f)
    BY <2>1, <2>3, GoTable DEF InitializeChannel, TableInv, Placed
  <2>4. CASE InitializeFails(f)
    BY <2>1, <2>4, NotOpenedTable DEF InitializeFails, TableInv, Placed
  <2>5. CASE SetDefault(f)
    BY <2>1, <2>5, GoTable DEF SetDefault, TableInv, Placed
  <2>6. CASE DriverOpens(f)
    BY <2>1, <2>6, GoTable DEF DriverOpens, TableInv, Placed
  <2>7. CASE DriverFails(f)
    BY <2>1, <2>7, NotOpenedTable DEF DriverFails, TableInv, Placed
  <2>8. CASE Release(f)
    BY <2>1, <2>8, GoTable, ReleaseNobody DEF Release
  <2>9. CASE ClearOpen(f)
    BY <2>1, <2>9, NotOpenedTable DEF ClearOpen, TableInv, Placed
  <2> QED BY <1>4, <2>2, <2>3, <2>4, <2>5, <2>6, <2>7, <2>8, <2>9 DEF FileStep
<1>5. CASE UNCHANGED vars /\ (ZoneStep \/ EchoStep)
  <2>1. UNCHANGED <<spans, table, files>>
    BY <1>5 DEF vars, span_vars, ZoneStep, EchoStep, ChooseZone, LoadZone, SetDefaultZone, FreeZone,
                AttachEchocan, BeginEchocancel, EchocanCreated, EchocanFails, EchocanOff,
                LoadFactory, UnloadFactory
  <2> QED BY <2>1, SameTable DEF files
<1>6. CASE UNCHANGED all_vars
  BY <1>6, SameTable DEF all_vars, vars, span_vars, file_vars, files
<1> QED BY <1>1, <1>2, <1>3, <1>4, <1>5, <1>6 DEF FilesNext

LEMMA FilesIInv == FilesSpec => []IInv
BY FilesExtendSpans, Invariance, PTL

(* A channel belongs to one file at a time, and is marked open as long as  *)
(* a file has it (dahdi_specchan_open, dahdi_specchan_release).            *)
THEOREM OneFileEach == FilesSpec => []OneFile
<1>1. FilesInit => TableInv
  BY InitTable
<1>2. IInv /\ TableInv /\ [FilesNext]_all_vars => TableInv'
  BY NextTable
<1>3. TableInv => OneFile
  BY DEF TableInv
<1> QED BY <1>1, <1>2, <1>3, FilesIInv, PTL DEF FilesSpec

-----------------------------------------------------------------------------
(* Counting                                                                *)

LEMMA CountIs ==
    ASSUME NEW S, IsFiniteSet(S), NEW f, DOMAIN f = S, NEW x
    PROVE  Count(f, x) \in Nat
<1> DEFINE A == {y \in S : f[y] = x}
<1>1. A \in SUBSET S /\ Count(f, x) = Cardinality(A)
  BY DEF Count
<1> HIDE DEF A
<1> QED BY <1>1, FS_Subset, FS_CardinalityType

LEMMA CountUpdate ==
    ASSUME NEW S, IsFiniteSet(S), NEW c \in S, NEW v, NEW x, NEW f, NEW g,
           DOMAIN f = S, DOMAIN g = S, g[c] = v, \A y \in S \ {c} : g[y] = f[y]
    PROVE  Count(g, x) = Count(f, x) - (IF f[c] = x THEN 1 ELSE 0) + (IF v = x THEN 1 ELSE 0)
<1> DEFINE A == {y \in S : f[y] = x}
           B == {y \in S : g[y] = x}
           R == {y \in S \ {c} : f[y] = x}
<1>2. Count(f, x) = Cardinality(A)
  BY DEF Count
<1>3. Count(g, x) = Cardinality(B)
  BY DEF Count
<1>4. R \in SUBSET S /\ c \notin R
  OBVIOUS
<1>5. A = IF f[c] = x THEN R \cup {c} ELSE R
  OBVIOUS
<1>6. B = IF v = x THEN R \cup {c} ELSE R
  OBVIOUS
<1> HIDE DEF A, B, R
<1>7. IsFiniteSet(R)
  BY <1>4, FS_Subset
<1>8. Cardinality(R \cup {c}) = Cardinality(R) + 1 /\ Cardinality(R) \in Nat
  BY <1>4, <1>7, FS_AddElement, FS_CardinalityType
<1> QED BY <1>2, <1>3, <1>5, <1>6, <1>8

LEMMA MoreIs ==
    ASSUME NEW X, None \notin X, NEW counts \in [X -> Int], NEW v \in X \cup {None}
    PROVE  /\ More(counts, v) \in [X -> Int] /\ Less(counts, v) \in [X -> Int]
           /\ \A x \in X : /\ More(counts, v)[x] = counts[x] + (IF v = x THEN 1 ELSE 0)
                           /\ Less(counts, v)[x] = counts[x] - (IF v = x THEN 1 ELSE 0)
BY DEF More, Less

\* The entry of c in a table of a finite set S goes from f[c] to v, and one reference
\* with it.
Moves(S, X, c, v, f, g, counts, moved) ==
    /\ IsFiniteSet(S) /\ c \in S /\ None \notin X /\ v \in X \cup {None}
    /\ DOMAIN f = S /\ DOMAIN g = S /\ f[c] \in X \cup {None}
    /\ g[c] = v /\ \A y \in S \ {c} : g[y] = f[y]
    /\ counts \in [X -> Int] /\ moved = More(Less(counts, f[c]), v)

\* The difference of the references and the entries stays.
Tracks(X, v, f, g, counts, moved) ==
    /\ moved \in [X -> Int]
    /\ \A x \in X : /\ Count(g, x) \in Nat /\ Count(f, x) \in Nat
                    /\ moved[x] - Count(g, x) = counts[x] - Count(f, x)
                    /\ Count(g, x) > 0 => Count(f, x) > 0 \/ x = v

LEMMA CountsFollow ==
    ASSUME NEW S, NEW X, NEW c, NEW v, NEW f, NEW g, NEW counts, NEW moved,
           Moves(S, X, c, v, f, g, counts, moved)
    PROVE  Tracks(X, v, f, g, counts, moved)
<1> USE DEF Moves
<1> DEFINE less == Less(counts, f[c])
<1>1. less \in [X -> Int] /\ \A x \in X : less[x] = counts[x] - (IF f[c] = x THEN 1 ELSE 0)
  BY MoreIs
<1> HIDE DEF less
<1>2. moved = More(less, v)
  BY DEF less
<1>3. moved \in [X -> Int] /\ \A x \in X : moved[x] = less[x] + (IF v = x THEN 1 ELSE 0)
  BY <1>1, <1>2, MoreIs
<1>4. \A x \in X : /\ Count(f, x) \in Nat /\ Count(g, x) \in Nat
                   /\ Count(g, x) = Count(f, x) - (IF f[c] = x THEN 1 ELSE 0)
                                                + (IF v = x THEN 1 ELSE 0)
  <2> TAKE x \in X
  <2>1. Count(f, x) \in Nat /\ Count(g, x) \in Nat
    BY CountIs
  <2>2. Count(g, x) = Count(f, x) - (IF f[c] = x THEN 1 ELSE 0) + (IF v = x THEN 1 ELSE 0)
    BY CountUpdate
  <2> QED BY <2>1, <2>2
<1>5. \A x \in X : /\ moved[x] - Count(g, x) = counts[x] - Count(f, x)
                   /\ Count(g, x) > 0 => Count(f, x) > 0 \/ x = v
  BY <1>1, <1>3, <1>4
<1> QED BY <1>3, <1>4, <1>5 DEF Tracks

\* When a span's entries are cleared.
LEMMA CountCleared ==
    ASSUME NEW s \in Spans, NEW f, DOMAIN f = Channels, NEW x, x # None
    PROVE  /\ Count(f, x) \in Nat /\ Count(Cleared(s, f), x) \in Nat
           /\ Cardinality({c \in Own(s) : f[c] = x}) \in Nat
           /\ Count(f, x) = Count(Cleared(s, f), x) + Cardinality({c \in Own(s) : f[c] = x})
<1> DEFINE g == Cleared(s, f)
           A == {c \in Channels : f[c] = x}
           B == {c \in Channels : g[c] = x}
           D == {c \in Own(s) : f[c] = x}
<1>1. DOMAIN g = Channels /\ \A c \in Channels : g[c] = IF SpanOf(c) = s THEN None ELSE f[c]
  BY DEF Cleared
<1>2. /\ Count(f, x) = Cardinality(A) /\ Count(g, x) = Cardinality(B)
      /\ IsFiniteSet(A) /\ IsFiniteSet(B)
      /\ Count(f, x) \in Nat /\ Count(g, x) \in Nat
  <2>1. Count(f, x) = Cardinality(A) /\ Count(g, x) = Cardinality(B)
    BY <1>1 DEF Count
  <2>2. A \in SUBSET Channels /\ B \in SUBSET Channels
    OBVIOUS
  <2> HIDE DEF A, B, g
  <2> QED BY <2>1, <2>2, ChannelsFinite, FS_Subset, FS_CardinalityType
<1>3. A = B \cup D /\ B \cap D = {} /\ D \in SUBSET A
  BY <1>1 DEF Own
<1> HIDE DEF A, B, D, g
<1>4. IsFiniteSet(D) /\ Cardinality(D) \in Nat
  BY <1>2, <1>3, FS_Subset, FS_CardinalityType
<1>5. Cardinality(B) \in Nat /\ Cardinality(B \cap D) = 0
  BY <1>2, <1>3, FS_CardinalityType, FS_EmptySet
<1>6. Cardinality(B \cup D) = Cardinality(B) + Cardinality(D) - Cardinality(B \cap D)
  BY <1>2, <1>4, FS_Union
<1>7. Cardinality(A) = Cardinality(B) + Cardinality(D)
  BY <1>3, <1>4, <1>5, <1>6
<1> QED BY <1>1, <1>2, <1>4, <1>7 DEF g, D

-----------------------------------------------------------------------------
(* What is lost                                                            *)

EchoTypes ==
    /\ factories \in SUBSET Factories
    /\ modrefs \in [Factories -> Int]
    /\ ec_factory \in [Channels -> Factories \cup {None}]
    /\ ec_current \in [Channels -> Factories \cup {None}]

\* Whoever waits for an echo canceller has an open file with a channel.
CallsInv ==
    /\ call \in [Callers -> [file : Files \cup {None}, ec : Factories \cup {None}]]
    /\ \A t \in Callers : call[t] # NoCall => /\ call[t].file \in Files /\ call[t].ec \in Factories
                                              /\ at[call[t].file] = "open"
                                              /\ Chan(call[t].file) # NoChan

LEMMA LostIsNat ==
    ASSUME NEW s \in Spans, lost \in [Zones \cup Factories -> Nat]
    PROVE  LostBy(s) \in [Zones \cup Factories -> Nat]
<1>1. ASSUME NEW x PROVE Cardinality({c \in Own(s) : x \in {curzone[c], ec_current[c]}}) \in Nat
  <2> DEFINE A == {c \in Own(s) : x \in {curzone[c], ec_current[c]}}
  <2>1. A \in SUBSET Channels
    BY DEF Own
  <2> HIDE DEF A
  <2>2. Cardinality(A) \in Nat
    BY <2>1, ChannelsFinite, FS_Subset, FS_CardinalityType
  <2> QED BY <2>2 DEF A
<1> DEFINE gone(x) == Cardinality({c \in Own(s) : x \in {curzone[c], ec_current[c]}})
<1>2. LostBy(s) = [x \in DOMAIN lost |-> lost[x] + gone(x)] /\ \A x : gone(x) \in Nat
  BY <1>1 DEF LostBy
<1> HIDE DEF gone
<1> QED BY <1>2

-----------------------------------------------------------------------------
(* Tone zones                                                              *)

\* Zones are counted as often as they are used, and kept while they are.
ZoneInv ==
    /\ want \in [Files -> Zones \cup {None}]
    /\ tone_zones \in SUBSET Zones
    /\ refcount \in [Zones -> Int]
    /\ default_zone \in Zones \cup {None}
    /\ curzone \in [Channels -> Zones \cup {None}]
    /\ lost \in [Zones \cup Factories -> Nat]
    /\ \A n \in Zones : refcount[n] = Uses(n) + lost[n] /\ (Uses(n) > 0 => n \in tone_zones)

LEMMA ZonesCount ==
    ASSUME ZoneInv, NEW n \in Zones
    PROVE  Count(curzone, n) \in Nat
<1>1. DOMAIN curzone = Channels
  BY DEF ZoneInv
<1> QED BY <1>1, ChannelsFinite, CountIs

LEMMA InitZones == FilesInit => ZoneInv
<1> SUFFICES ASSUME FilesInit PROVE ZoneInv
  OBVIOUS
<1>1. /\ want = [f \in Files |-> None] /\ tone_zones = {} /\ refcount = [n \in Zones |-> 0]
      /\ default_zone = None /\ curzone = [c \in Channels |-> None]
      /\ lost = [x \in Zones \cup Factories |-> 0]
  BY DEF FilesInit
<1>2. ASSUME NEW n \in Zones PROVE Uses(n) = 0
  <2>1. n # None
    BY FilesAssumption
  <2>2. {c \in DOMAIN curzone : curzone[c] = n} = {}
    BY <1>1, <2>1
  <2> QED BY <1>1, <2>1, <2>2, FS_EmptySet DEF Uses, Count
<1> QED BY <1>1, <1>2 DEF ZoneInv

LEMMA SameZones ==
    ASSUME ZoneInv, UNCHANGED <<zones, want>>, lost' \in [Zones \cup Factories -> Nat],
           \A n \in Zones : lost'[n] = lost[n]
    PROVE  ZoneInv'
BY DEF ZoneInv, zones, Uses, Count

\* A channel goes to another zone that is loaded, or to none.
LEMMA ZoneMoves ==
    ASSUME ZoneInv, NEW c \in Channels, NEW v \in tone_zones \cup {None},
           curzone' = [curzone EXCEPT ![c] = v],
           refcount' = More(Less(refcount, curzone[c]), v),
           UNCHANGED <<tone_zones, default_zone, lost>>, want' \in [Files -> Zones \cup {None}]
    PROVE  ZoneInv'
<1>1. /\ DOMAIN curzone = Channels /\ DOMAIN curzone' = Channels
      /\ curzone[c] \in Zones \cup {None} /\ curzone'[c] = v
      /\ \A d \in Channels \ {c} : curzone'[d] = curzone[d]
      /\ v \in Zones \cup {None} /\ None \notin Zones
      /\ curzone' \in [Channels -> Zones \cup {None}]
  BY FilesAssumption DEF ZoneInv
<1>2. refcount \in [Zones -> Int]
  BY DEF ZoneInv
<1>3. /\ refcount' \in [Zones -> Int]
      /\ \A n \in Zones : /\ Count(curzone', n) \in Nat /\ Count(curzone, n) \in Nat
                          /\ refcount'[n] - Count(curzone', n) = refcount[n] - Count(curzone, n)
                          /\ Count(curzone', n) > 0 => Count(curzone, n) > 0 \/ n = v
  <2>1. Moves(Channels, Zones, c, v, curzone, curzone', refcount, refcount')
    BY <1>1, <1>2, ChannelsFinite DEF Moves
  <2> QED BY <2>1, CountsFollow DEF Tracks
<1>4. ASSUME NEW n \in Zones
      PROVE  refcount'[n] = Uses(n)' + lost'[n] /\ (Uses(n)' > 0 => n \in tone_zones')
  <2>1. /\ Uses(n)' = Count(curzone', n) + (IF default_zone = n THEN 1 ELSE 0)
        /\ Uses(n) = Count(curzone, n) + (IF default_zone = n THEN 1 ELSE 0)
    BY DEF Uses, Count
  <2>2. refcount[n] = Uses(n) + lost[n] /\ (Uses(n) > 0 => n \in tone_zones)
        /\ refcount[n] \in Int /\ refcount'[n] \in Int /\ lost[n] \in Nat /\ lost' = lost
    BY <1>3 DEF ZoneInv
  <2>3. refcount'[n] = Uses(n)' + lost'[n]
    <3> DEFINE d == IF default_zone = n THEN 1 ELSE 0
    <3>1. /\ refcount'[n] - Count(curzone', n) = refcount[n] - Count(curzone, n)
          /\ Count(curzone', n) \in Nat /\ Count(curzone, n) \in Nat /\ d \in Nat
      BY <1>3
    <3>2. Uses(n)' = Count(curzone', n) + d /\ Uses(n) = Count(curzone, n) + d
      BY <2>1
    <3> HIDE DEF d
    <3> QED BY <2>2, <3>1, <3>2
  <2>4. Uses(n)' > 0 => Uses(n) > 0 \/ n = v
    BY <1>3, <2>1
  <2>5. n = v => n \in tone_zones
    BY <1>1
  <2> QED BY <2>2, <2>3, <2>4, <2>5
<1> QED BY <1>1, <1>3, <1>4 DEF ZoneInv

LEMMA CloseZones ==
    ASSUME ZoneInv, NEW c \in Channels, CloseChannel(c),
           UNCHANGED <<tone_zones, default_zone, lost, want>>
    PROVE  ZoneInv'
<1>1. curzone' = [curzone EXCEPT ![c] = None] /\ refcount' = Less(refcount, curzone[c])
  BY DEF CloseChannel
<1>2. refcount' = More(Less(refcount, curzone[c]), None)
  BY <1>1 DEF More
<1>3. want' \in [Files -> Zones \cup {None}]
  BY DEF ZoneInv
<1> QED BY <1>1, <1>2, <1>3, ZoneMoves

LEMMA SetZones ==
    ASSUME ZoneInv, NEW c \in Channels, NEW n, SetToneZone(c, n),
           UNCHANGED <<tone_zones, default_zone, lost>>, want' \in [Files -> Zones \cup {None}]
    PROVE  ZoneInv'
<1>1. CASE n \in tone_zones
  BY <1>1, ZoneMoves DEF SetToneZone
<1>2. CASE n \notin tone_zones
  <2>1. UNCHANGED <<curzone, refcount>>
    BY <1>2 DEF SetToneZone
  <2> QED BY <2>1 DEF ZoneInv, Uses, Count
<1> QED BY <1>1, <1>2

LEMMA RegisterZones ==
    ASSUME ZoneInv, EchoTypes, NEW s \in Spans, RegisterFiles(s)
    PROVE  ZoneInv'
<1>1. /\ curzone' = Cleared(s, curzone) /\ lost' = LostBy(s)
      /\ UNCHANGED <<want, tone_zones, refcount, default_zone>>
  BY DEF RegisterFiles
<1>2. lost' \in [Zones \cup Factories -> Nat]
  BY <1>1, LostIsNat DEF ZoneInv
<1>3. curzone' \in [Channels -> Zones \cup {None}]
  BY <1>1 DEF ZoneInv, Cleared
<1>4. ASSUME NEW n \in Zones
      PROVE  refcount'[n] = Uses(n)' + lost'[n] /\ (Uses(n)' > 0 => n \in tone_zones')
  <2> DEFINE gone == Cardinality({c \in Own(s) : curzone[c] = n})
  <2>1. /\ Count(curzone, n) \in Nat /\ Count(curzone', n) \in Nat /\ gone \in Nat
        /\ Count(curzone, n) = Count(curzone', n) + gone
    <3>1. DOMAIN curzone = Channels /\ n # None
      BY FilesAssumption DEF ZoneInv
    <3> QED BY <1>1, <3>1, CountCleared
  <2>2. {c \in Own(s) : n \in {curzone[c], ec_current[c]}} = {c \in Own(s) : curzone[c] = n}
    BY FilesAssumption DEF EchoTypes, Own
  <2>3. lost'[n] = lost[n] + gone
    BY <1>1, <2>2 DEF LostBy, ZoneInv
  <2>4. /\ Uses(n)' = Count(curzone', n) + (IF default_zone = n THEN 1 ELSE 0)
        /\ Uses(n) = Count(curzone, n) + (IF default_zone = n THEN 1 ELSE 0)
    BY <1>1 DEF Uses, Count
  <2>5. refcount[n] = Uses(n) + lost[n] /\ (Uses(n) > 0 => n \in tone_zones) /\ lost[n] \in Nat
    BY DEF ZoneInv
  <2> HIDE DEF gone
  <2> QED BY <1>1, <2>1, <2>3, <2>4, <2>5
<1> QED BY <1>1, <1>2, <1>3, <1>4 DEF ZoneInv

LEMMA NextZones ==
    ASSUME TableInv, ZoneInv, EchoTypes, CallsInv, [FilesNext]_all_vars
    PROVE  ZoneInv'
<1>1. ASSUME NEW s \in Spans, RegisterFiles(s) PROVE ZoneInv'
  BY <1>1, RegisterZones
<1>2. ASSUME NEW s \in Spans, UnregisterFiles(s) PROVE ZoneInv'
  BY <1>2, SameZones DEF UnregisterFiles, files, ZoneInv
<1>3. CASE UNCHANGED file_vars
  BY <1>3, SameZones DEF file_vars, files, ZoneInv
<1>4. ASSUME NEW f \in Files, FileStep(f) PROVE ZoneInv'
  <2>1. ASSUME NEW u \in Units, Open(f, u) PROVE ZoneInv'
    BY <2>1, SameZones DEF Open, ZoneInv
  <2>2. CASE InitializeChannel(f)
    <3>1. want' \in [Files -> Zones \cup {None}] /\ UNCHANGED <<zones, lost>>
      BY <2>2 DEF InitializeChannel, ZoneInv
    <3> QED BY <3>1 DEF ZoneInv, zones, Uses, Count
  <2>3. CASE InitializeFails(f) \/ DriverOpens(f) \/ ClearOpen(f)
    BY <2>3, SameZones DEF InitializeFails, DriverOpens, ClearOpen, ZoneInv
  <2>4. CASE SetDefault(f)
    <3>1. Chan(f) \in Channels
      BY <2>4, ChanIs DEF SetDefault, TableInv, Placed
    <3>2. want' \in [Files -> Zones \cup {None}]
      BY <2>4 DEF SetDefault, ZoneInv
    <3> QED BY <2>4, <3>1, <3>2, SetZones DEF SetDefault
  <2>5. CASE DriverFails(f)
    <3>1. Chan(f) \in Channels
      BY <2>5, ChanIs DEF DriverFails, TableInv, Placed
    <3> QED BY <2>5, <3>1, CloseZones DEF DriverFails
  <2>6. CASE Release(f)
    <3>1. CASE Chan(f) = NoChan
      BY <2>6, <3>1, SameZones DEF Release, ZoneInv
    <3>2. CASE Chan(f) # NoChan
      <4>1. Chan(f) \in Channels
        BY <3>2, ChanIs
      <4> QED BY <2>6, <3>2, <4>1, CloseZones DEF Release
    <3> QED BY <3>1, <3>2
  <2> QED BY <1>4, <2>1, <2>2, <2>3, <2>4, <2>5, <2>6 DEF FileStep
<1>5. CASE ZoneStep
  <2> PICK n \in Zones : \/ \E f \in Files : ChooseZone(f, n)
                         \/ LoadZone(n) \/ SetDefaultZone(n) \/ FreeZone(n)
    BY <1>5 DEF ZoneStep
  <2>1. ASSUME NEW f \in Files, ChooseZone(f, n) PROVE ZoneInv'
    <3>1. Chan(f) \in Channels
      BY <2>1, ChanIs DEF ChooseZone
    <3>2. want' = want
      BY <2>1 DEF ChooseZone, files
    <3> QED BY <2>1, <3>1, <3>2, SetZones DEF ChooseZone, ZoneInv
  <2>2. n # None /\ Count(curzone, n) \in Nat /\ lost[n] \in Nat
        /\ refcount[n] = Uses(n) + lost[n] /\ (Uses(n) > 0 => n \in tone_zones)
    BY ZonesCount, FilesAssumption DEF ZoneInv
  <2>3. \A m \in Zones : Count(curzone, m) \in Nat /\ lost[m] \in Nat
    BY ZonesCount DEF ZoneInv
  <2>4. CASE LoadZone(n)
    <3>1. /\ tone_zones' = tone_zones \cup {n} /\ UNCHANGED <<curzone, want, lost>>
          /\ IF default_zone = None
             THEN default_zone' = n /\ refcount' = [refcount EXCEPT ![n] = @ + 1]
             ELSE UNCHANGED <<default_zone, refcount>>
      BY <2>2, <2>4 DEF LoadZone, files, More
    <3>2. \A m \in Zones : /\ Uses(m)' = Count(curzone, m) + (IF default_zone' = m THEN 1 ELSE 0)
                           /\ Uses(m) = Count(curzone, m) + (IF default_zone = m THEN 1 ELSE 0)
      BY <3>1 DEF Uses, Count
    <3>3. ASSUME NEW m \in Zones
          PROVE  refcount'[m] = Uses(m)' + lost[m] /\ (Uses(m)' > 0 => m \in tone_zones')
      BY <2>2, <2>3, <3>1, <3>2, FilesAssumption DEF ZoneInv
    <3> QED BY <3>1, <3>3 DEF ZoneInv
  <2>5. CASE SetDefaultZone(n)
    <3>1. /\ n \in tone_zones /\ refcount' = More(Less(refcount, default_zone), n)
          /\ default_zone' = n /\ UNCHANGED <<curzone, want, lost, tone_zones>>
      BY <2>5 DEF SetDefaultZone, files
    <3>2. None \notin Zones /\ refcount \in [Zones -> Int] /\ default_zone \in Zones \cup {None}
      BY FilesAssumption DEF ZoneInv
    <3> DEFINE rest == Less(refcount, default_zone)
    <3>3. rest \in [Zones -> Int]
          /\ \A m \in Zones : rest[m] = refcount[m] - (IF default_zone = m THEN 1 ELSE 0)
      BY <3>2, MoreIs
    <3> HIDE DEF rest
    <3>4. refcount' = More(rest, n)
      BY <3>1 DEF rest
    <3>5. refcount' \in [Zones -> Int]
          /\ \A m \in Zones : refcount'[m] = rest[m] + (IF n = m THEN 1 ELSE 0)
      BY <3>2, <3>3, <3>4, MoreIs
    <3>6. \A m \in Zones : /\ Uses(m)' = Count(curzone, m) + (IF n = m THEN 1 ELSE 0)
                           /\ Uses(m) = Count(curzone, m) + (IF default_zone = m THEN 1 ELSE 0)
      BY <3>1 DEF Uses, Count
    <3>7. ASSUME NEW m \in Zones
          PROVE  refcount'[m] = Uses(m)' + lost[m] /\ (Uses(m)' > 0 => m \in tone_zones')
      <4>1. refcount[m] = Uses(m) + lost[m] /\ (Uses(m) > 0 => m \in tone_zones)
            /\ Count(curzone, m) \in Nat /\ lost[m] \in Nat
        BY <2>3 DEF ZoneInv
      <4> QED BY <3>1, <3>3, <3>5, <3>6, <4>1
    <3> QED BY <3>1, <3>5, <3>7 DEF ZoneInv
  <2>6. CASE FreeZone(n)
    <3>1. /\ refcount[n] = 0 /\ tone_zones' = tone_zones \ {n}
          /\ UNCHANGED <<curzone, want, lost, refcount, default_zone>>
      BY <2>6 DEF FreeZone, files
    <3>2. \A m \in Zones : Uses(m)' = Uses(m)
      BY <3>1 DEF Uses, Count
    <3>3. ~ (Uses(n) > 0)
      BY <2>2, <3>1 DEF Uses
    <3> QED BY <3>1, <3>2, <3>3 DEF ZoneInv
  <2> QED BY <2>1, <2>4, <2>5, <2>6
<1>6. CASE EchoStep
  <2>1. ASSUME NEW t \in Callers, EchocanCreated(t) PROVE ZoneInv'
    <3> DEFINE c == Chan(call[t].file)
    <3>1. c \in Channels /\ lost' = More(lost, ec_current[c]) /\ UNCHANGED <<zones, want>>
      BY <2>1, ChanIs DEF EchocanCreated, CallsInv, files
    <3>2. ec_current[c] \in Factories \cup {None}
      BY <3>1 DEF EchoTypes
    <3> HIDE DEF c
    <3>3. lost' \in [Zones \cup Factories -> Nat] /\ \A n \in Zones : lost'[n] = lost[n]
      BY <3>1, <3>2, FilesAssumption DEF More, ZoneInv
    <3> QED BY <3>1, <3>3, SameZones
  <2>2. CASE UNCHANGED <<files, zones, lost>>
    BY <2>2, SameZones DEF files, ZoneInv
  <2> QED BY <1>6, <2>1, <2>2 DEF EchoStep, AttachEchocan, BeginEchocancel, EchocanFails,
              EchocanOff, LoadFactory, UnloadFactory
<1>7. CASE UNCHANGED all_vars
  BY <1>3, <1>7 DEF all_vars
<1> QED BY <1>1, <1>2, <1>3, <1>4, <1>5, <1>6, <1>7 DEF FilesNext

-----------------------------------------------------------------------------
(* Callers that wait for an echo canceller                                 *)

\* Nothing happens to the files of callers.
LEMMA SameCalls ==
    ASSUME CallsInv, call' = call,
           \A g \in Files : at[g] = "open" /\ Chan(g) # NoChan /\ Busied(g) =>
                                at'[g] = "open" /\ Chan(g)' # NoChan
    PROVE  CallsInv'
<1>1. ASSUME NEW t \in Callers, call[t] # NoCall
      PROVE  at'[call[t].file] = "open" /\ Chan(call[t].file)' # NoChan
  <2> PICK g \in Files : g = call[t].file /\ at[g] = "open" /\ Chan(g) # NoChan
    BY <1>1 DEF CallsInv
  <2>1. Busied(g)
    BY DEF Busied
  <2>2. at'[g] = "open" /\ Chan(g)' # NoChan
    BY <2>1
  <2> QED BY <2>2 DEF Chan
<1>2. NoCall' = NoCall
  BY DEF NoCall
<1> QED BY <1>1, <1>2 DEF CallsInv, Chan

LEMMA InitCalls == FilesInit => CallsInv
BY DEF FilesInit, CallsInv, NoCall

LEMMA NextCalls ==
    ASSUME IInv, TableInv, EchoTypes, CallsInv, [FilesNext]_all_vars
    PROVE  CallsInv'
<1>1. ASSUME NEW s \in Spans, RegisterFiles(s) PROVE CallsInv'
  <2> DEFINE free == {n \in Channos : chans[n] = NoChan}
  <2>1. UNCHANGED <<call, unit, at>> /\ \A n \in Channos : n \notin free => chans'[n] = chans[n]
    BY <1>1 DEF RegisterFiles
  <2>2. \A g \in Files : Chan(g) # NoChan => Chan(g)' = Chan(g)
    BY <2>1 DEF TableInv, Chan
  <2> QED BY <2>1, <2>2, SameCalls
<1>2. ASSUME NEW s \in Spans, UnregisterFiles(s) PROVE CallsInv'
  <2>1. /\ chans' = [n \in Channos |-> IF SpanOf(chans[n]) = s THEN NoChan ELSE chans[n]]
        /\ \A g \in Files : SpanOf(Chan(g)) = s => ~ Busied(g)
        /\ UNCHANGED <<call, unit, at>>
    BY <1>2 DEF UnregisterFiles, files
  <2>2. \A g \in Files : Busied(g) => Chan(g)' = Chan(g)
    BY <2>1 DEF TableInv, Chan
  <2> QED BY <2>1, <2>2, SameCalls
<1>3. CASE UNCHANGED file_vars
  <2>1. UNCHANGED <<call, unit, at, chans>>
    BY <1>3 DEF file_vars, files, echo, table
  <2> QED BY <2>1, SameCalls DEF Chan
<1>4. ASSUME NEW f \in Files, FileStep(f) PROVE CallsInv'
  <2>1. ~ (at[f] = "open" /\ Busied(f))
    BY <1>4, Zenon DEF FileStep, Open, InitializeChannel, InitializeFails, SetDefault, DriverOpens,
                       DriverFails, Release, ClearOpen
  <2>2. UNCHANGED <<call, chans>>
    BY <1>4 DEF FileStep, Open, InitializeChannel, InitializeFails, SetDefault, DriverOpens,
                DriverFails, Release, ClearOpen, table, echo
  <2>3. \A g \in Files \ {f} : at'[g] = at[g]
    BY <1>4 DEF FileStep, Open, InitializeChannel, InitializeFails, SetDefault, DriverOpens,
                DriverFails, Release, ClearOpen, NotOpened, Go, TableInv
  <2>4. \A g \in Files \ {f} : unit'[g] = unit[g]
    BY <1>4 DEF FileStep, Open, InitializeChannel, InitializeFails, SetDefault, DriverOpens,
                DriverFails, Release, ClearOpen, NotOpened, TableInv
  <2>5. \A g \in Files \ {f} : Chan(g)' = Chan(g)
    BY <2>2, <2>4 DEF Chan
  <2> QED BY <2>1, <2>2, <2>3, <2>5, SameCalls
<1>5. CASE ZoneStep
  <2>1. UNCHANGED <<call, unit, at, chans>>
    BY <1>5 DEF ZoneStep, ChooseZone, LoadZone, SetDefaultZone, FreeZone, files, echo, table
  <2> QED BY <2>1, SameCalls DEF Chan
<1>6. CASE EchoStep
  <2>1. UNCHANGED <<unit, at, chans>> /\ \A g \in Files : Chan(g)' = Chan(g)
    BY <1>6 DEF EchoStep, AttachEchocan, BeginEchocancel, EchocanCreated, EchocanFails,
                EchocanOff, LoadFactory, UnloadFactory, files, table, Chan
  <2>2. ASSUME NEW t \in Callers, NEW f \in Files, BeginEchocancel(t, f) PROVE CallsInv'
    <3> DEFINE e == ec_factory[Chan(f)]
    <3>1. \/ call' = call
          \/ e \in factories /\ call' = [call EXCEPT ![t] = [file |-> f, ec |-> e]]
      BY <2>2 DEF BeginEchocancel
    <3>2. at[f] = "open" /\ Chan(f) # NoChan
      BY <2>2 DEF BeginEchocancel
    <3>3. CASE call' = call
      BY <2>1, <3>3, SameCalls
    <3> HIDE DEF e
    <3>4. CASE e \in factories /\ call' = [call EXCEPT ![t] = [file |-> f, ec |-> e]]
      BY <2>1, <3>2, <3>4 DEF CallsInv, EchoTypes, Chan, NoCall
    <3> QED BY <3>1, <3>3, <3>4
  <2>3. ASSUME NEW t \in Callers, EchocanCreated(t) \/ EchocanFails(t) PROVE CallsInv'
    <3>1. call' = [call EXCEPT ![t] = NoCall]
      BY <2>3 DEF EchocanCreated, EchocanFails
    <3> QED BY <2>1, <3>1 DEF CallsInv, Chan, NoCall
  <2>4. CASE call' = call
    BY <2>1, <2>4, SameCalls
  <2> QED BY <1>6, <2>2, <2>3, <2>4 DEF EchoStep, AttachEchocan, EchocanOff, LoadFactory, UnloadFactory
<1>7. CASE UNCHANGED all_vars
  BY <1>3, <1>7 DEF all_vars
<1> QED BY <1>1, <1>2, <1>3, <1>4, <1>5, <1>6, <1>7 DEF FilesNext

-----------------------------------------------------------------------------
(* Echo cancellers                                                         *)

\* A module has a reference for each use, and stays while there is one.
Kept(e) == modrefs[e] = EcUses(e) + lost[e] /\ (EcUses(e) > 0 => e \in factories)
EchoInv == EchoTypes /\ \A e \in Factories : Kept(e)

\* Three tables are counted.
LEMMA Tables ==
    ASSUME EchoTypes, CallsInv
    PROVE  /\ Chosen \in [Channels -> Factories \cup {None}] /\ DOMAIN Chosen = Channels
           /\ ec_current \in [Channels -> Factories \cup {None}] /\ DOMAIN ec_current = Channels
           /\ Awaited \in [Callers -> Factories \cup {None}] /\ DOMAIN Awaited = Callers
           /\ None \notin Factories
           /\ \A e : Count(Chosen, e) \in Nat /\ Count(ec_current, e) \in Nat /\ Count(Awaited, e) \in Nat
<1>1. /\ Chosen \in [Channels -> Factories \cup {None}] /\ DOMAIN Chosen = Channels
      /\ ec_current \in [Channels -> Factories \cup {None}] /\ DOMAIN ec_current = Channels
  BY DEF EchoTypes, Chosen
<1>2. Awaited \in [Callers -> Factories \cup {None}] /\ DOMAIN Awaited = Callers
  BY DEF CallsInv, Awaited
<1>3. IsFiniteSet(Callers) /\ None \notin Factories
  BY FilesAssumption
<1> QED BY <1>1, <1>2, <1>3, ChannelsFinite, CountIs

\* A step that changes references, uses and losses alike.
EchoIs == EchoTypes /\ CallsInv /\ lost \in [Zones \cup Factories -> Nat]
Balanced(e) ==
    /\ modrefs'[e] - EcUses(e)' - lost'[e] = modrefs[e] - EcUses(e) - lost[e]
    /\ EcUses(e)' > 0 => EcUses(e) > 0 \/ e \in factories
    /\ e \in factories => e \in factories'

LEMMA UsesAreNat ==
    ASSUME EchoIs, NEW e \in Factories
    PROVE  EcUses(e) \in Nat /\ lost[e] \in Nat /\ modrefs[e] \in Int
<1>1. /\ Count(Chosen, e) \in Nat /\ Count(ec_current, e) \in Nat /\ Count(Awaited, e) \in Nat
  BY Tables DEF EchoIs
<1> QED BY <1>1 DEF EcUses, EchoIs, EchoTypes

LEMMA UsesStayNat ==
    ASSUME EchoIs', NEW e \in Factories
    PROVE  EcUses(e)' \in Nat /\ lost'[e] \in Nat /\ modrefs'[e] \in Int
<1>1. DOMAIN Chosen' = Channels /\ DOMAIN ec_current' = Channels /\ DOMAIN Awaited' = Callers
  BY DEF Chosen, Awaited, EchoIs, EchoTypes
<1>2. IsFiniteSet(Channels) /\ IsFiniteSet(Callers)
  BY ChannelsFinite, FilesAssumption
<1>3. /\ Count(Chosen', e) \in Nat /\ Count(ec_current', e) \in Nat /\ Count(Awaited', e) \in Nat
  BY <1>1, <1>2, CountIs
<1>4. EcUses(e)' = Count(Chosen', e) + Count(ec_current', e) + Count(Awaited', e)
  BY DEF EcUses, Count
<1> QED BY <1>3, <1>4 DEF EchoIs, EchoTypes

LEMMA StillKept ==
    ASSUME EchoInv, EchoIs, EchoIs', \A e \in Factories : Balanced(e)
    PROVE  EchoInv'
<1>1. ASSUME NEW e \in Factories PROVE Kept(e)'
  <2>1. EcUses(e) \in Nat /\ lost[e] \in Nat /\ modrefs[e] \in Int
    BY UsesAreNat
  <2>2. EcUses(e)' \in Nat /\ lost'[e] \in Nat /\ modrefs'[e] \in Int
    BY UsesStayNat
  <2>3. modrefs[e] = EcUses(e) + lost[e] /\ (EcUses(e) > 0 => e \in factories)
    BY DEF EchoInv, Kept
  <2>4. /\ modrefs'[e] - EcUses(e)' - lost'[e] = modrefs[e] - EcUses(e) - lost[e]
        /\ EcUses(e)' > 0 => EcUses(e) > 0 \/ e \in factories
        /\ e \in factories => e \in factories'
    BY DEF Balanced
  <2>5. PICK u \in Nat, l \in Nat, m \in Int : u = EcUses(e) /\ l = lost[e] /\ m = modrefs[e]
    BY <2>1
  <2>6. PICK v \in Nat, k \in Nat, r \in Int : v = EcUses(e)' /\ k = lost'[e] /\ r = modrefs'[e]
    BY <2>2
  <2>7. m = u + l /\ r - v - k = m - u - l
    BY <2>3, <2>4, <2>5, <2>6
  <2>8. r = v + k
    BY <2>7
  <2> QED BY <2>3, <2>4, <2>6, <2>8 DEF Kept
<1> QED BY <1>1 DEF EchoInv, EchoIs

LEMMA InitEcho == FilesInit => EchoInv
<1> SUFFICES ASSUME FilesInit PROVE EchoInv
  OBVIOUS
<1>1. /\ factories = {} /\ modrefs = [e \in Factories |-> 0]
      /\ ec_factory = [c \in Channels |-> None] /\ ec_current = [c \in Channels |-> None]
      /\ call = [t \in Callers |-> NoCall] /\ lost = [x \in Zones \cup Factories |-> 0]
  BY DEF FilesInit
<1>2. ASSUME NEW e \in Factories PROVE EcUses(e) = 0
  <2>1. e # None
    BY FilesAssumption
  <2>2. /\ {c \in DOMAIN Chosen : Chosen[c] = e} = {}
        /\ {c \in DOMAIN ec_current : ec_current[c] = e} = {}
        /\ {t \in DOMAIN Awaited : Awaited[t] = e} = {}
    BY <1>1, <2>1 DEF Chosen, Awaited, NoCall
  <2> QED BY <2>2, FS_EmptySet DEF EcUses, Count
<1>3. EchoTypes
  BY <1>1 DEF EchoTypes
<1> QED BY <1>1, <1>2, <1>3 DEF EchoInv, Kept

LEMMA SameEcho ==
    ASSUME EchoInv, UNCHANGED <<echo, spans, lost>>
    PROVE  EchoInv'
<1>1. Registered' = Registered
  BY DEF Registered, Listed
<1>2. Chosen' = Chosen /\ ec_current' = ec_current /\ Awaited' = Awaited
  BY <1>1 DEF Chosen, Awaited, echo, Present
<1>3. \A e \in Factories : EcUses(e)' = EcUses(e)
  BY <1>2 DEF EcUses, Count
<1> QED BY <1>3 DEF EchoInv, EchoTypes, Kept, echo

\* A canceller is freed, and its module put.
LEMMA FreedTracks ==
    ASSUME EchoTypes, NEW c \in Channels, ec_current' = [ec_current EXCEPT ![c] = None],
           NEW rest, rest = Less(modrefs, ec_current[c])
    PROVE  /\ Tracks(Factories, None, ec_current, ec_current', modrefs, rest)
           /\ ec_current' \in [Channels -> Factories \cup {None}]
<1>1. rest = More(Less(modrefs, ec_current[c]), None)
  BY DEF More
<1>2. /\ DOMAIN ec_current = Channels /\ DOMAIN ec_current' = Channels
      /\ ec_current[c] \in Factories \cup {None} /\ ec_current'[c] = None
      /\ \A d \in Channels \ {c} : ec_current'[d] = ec_current[d]
      /\ modrefs \in [Factories -> Int] /\ None \notin Factories
      /\ ec_current' \in [Channels -> Factories \cup {None}]
  BY FilesAssumption DEF EchoTypes
<1>3. Moves(Channels, Factories, c, None, ec_current, ec_current', modrefs, rest)
  BY <1>1, <1>2, ChannelsFinite DEF Moves
<1> QED BY <1>2, <1>3, CountsFollow

\* One table changes.
LEMMA OneTable ==
    ASSUME EchoInv, EchoIs, EchoIs', NEW v, v \in factories \cup {None},
           UNCHANGED <<factories, lost>>,
           \/ /\ Tracks(Factories, v, Chosen, Chosen', modrefs, modrefs')
              /\ ec_current' = ec_current /\ Awaited' = Awaited
           \/ /\ Tracks(Factories, v, ec_current, ec_current', modrefs, modrefs')
              /\ Chosen' = Chosen /\ Awaited' = Awaited
           \/ /\ Tracks(Factories, v, Awaited, Awaited', modrefs, modrefs')
              /\ Chosen' = Chosen /\ ec_current' = ec_current
    PROVE  EchoInv'
<1>1. ASSUME NEW e \in Factories PROVE Balanced(e)
  <2>1. /\ Count(Chosen, e) \in Nat /\ Count(ec_current, e) \in Nat /\ Count(Awaited, e) \in Nat
        /\ e # None
    BY Tables DEF EchoIs
  <2>2. /\ EcUses(e) = Count(Chosen, e) + Count(ec_current, e) + Count(Awaited, e)
        /\ EcUses(e)' = Count(Chosen', e) + Count(ec_current', e) + Count(Awaited', e)
    BY DEF EcUses, Count
  <2>3. modrefs[e] \in Int /\ modrefs'[e] \in Int /\ lost[e] \in Nat /\ lost' = lost
    BY UsesAreNat, UsesStayNat
  <2>4. CASE /\ Tracks(Factories, v, Chosen, Chosen', modrefs, modrefs')
             /\ ec_current' = ec_current /\ Awaited' = Awaited
    BY <2>1, <2>2, <2>3, <2>4 DEF Tracks, Balanced
  <2>5. CASE /\ Tracks(Factories, v, ec_current, ec_current', modrefs, modrefs')
             /\ Chosen' = Chosen /\ Awaited' = Awaited
    BY <2>1, <2>2, <2>3, <2>5 DEF Tracks, Balanced
  <2>6. CASE /\ Tracks(Factories, v, Awaited, Awaited', modrefs, modrefs')
             /\ Chosen' = Chosen /\ ec_current' = ec_current
    BY <2>1, <2>2, <2>3, <2>6 DEF Tracks, Balanced
  <2> QED BY <2>4, <2>5, <2>6
<1> QED BY <1>1, StillKept

LEMMA FreedEcho ==
    ASSUME EchoInv, EchoIs, EchoIs', NEW c \in Channels,
           ec_current' = [ec_current EXCEPT ![c] = None],
           modrefs' = Less(modrefs, ec_current[c]),
           UNCHANGED <<spans, factories, ec_factory, call, lost>>
    PROVE  EchoInv'
<1>1. Tracks(Factories, None, ec_current, ec_current', modrefs, modrefs')
  BY FreedTracks DEF EchoInv
<1>2. Registered' = Registered
  BY DEF Registered, Listed
<1>3. Chosen' = Chosen /\ Awaited' = Awaited
  BY <1>2 DEF Chosen, Awaited, Present
<1> QED BY <1>1, <1>3, OneTable

LEMMA AttachEcho ==
    ASSUME TableInv, EchoInv, EchoIs, EchoIs', NEW u \in Units, NEW e \in Factories \cup {None},
           AttachEchocan(u, e), spans' = spans
    PROVE  EchoInv'
<1>1. PICK c \in Channels : c = chans[u] /\ Present(c)
  BY FilesAssumption DEF AttachEchocan, TableInv, Channos
<1>2. /\ e \in factories \cup {None} /\ ec_factory' = [ec_factory EXCEPT ![c] = e]
      /\ modrefs' = More(Less(modrefs, ec_factory[c]), e)
      /\ UNCHANGED <<spans, factories, ec_current, call, lost>>
  BY <1>1, Zenon DEF AttachEchocan, Detached, table
<1> HIDE DEF AttachEchocan
<1>3. Registered' = Registered
  BY <1>2 DEF Registered, Listed
<1>4. /\ Chosen[c] = ec_factory[c] /\ Chosen'[c] = e
      /\ \A d \in Channels \ {c} : Chosen'[d] = Chosen[d]
      /\ DOMAIN Chosen = Channels /\ DOMAIN Chosen' = Channels
  BY <1>1, <1>2, <1>3 DEF Chosen, Present, EchoIs, EchoTypes
<1>5. /\ modrefs \in [Factories -> Int] /\ None \notin Factories
      /\ Chosen[c] \in Factories \cup {None} /\ IsFiniteSet(Channels)
  BY <1>4, FilesAssumption, ChannelsFinite DEF EchoIs, EchoTypes
<1>6. Moves(Channels, Factories, c, e, Chosen, Chosen', modrefs, modrefs')
  BY <1>1, <1>2, <1>4, <1>5 DEF Moves
<1>7. Tracks(Factories, e, Chosen, Chosen', modrefs, modrefs')
  BY <1>6, CountsFollow
<1>8. Awaited' = Awaited
  BY <1>2 DEF Awaited
<1> QED BY <1>2, <1>7, <1>8, OneTable

\* The factory a caller waits for.
LEMMA AwaitedMoves ==
    ASSUME EchoIs, NEW t \in Callers, NEW v \in Factories \cup {None}, NEW w,
           v = w.ec, call' = [call EXCEPT ![t] = w],
           NEW rest \in [Factories -> Int], NEW refs,
           refs = More(Less(rest, call[t].ec), v)
    PROVE  Tracks(Factories, v, Awaited, Awaited', rest, refs)
<1>1. /\ Awaited[t] = call[t].ec /\ Awaited'[t] = v
      /\ \A y \in Callers \ {t} : Awaited'[y] = Awaited[y]
      /\ DOMAIN Awaited = Callers /\ DOMAIN Awaited' = Callers
      /\ Awaited[t] \in Factories \cup {None}
  BY DEF Awaited, EchoIs, CallsInv
<1>2. None \notin Factories /\ IsFiniteSet(Callers)
  BY FilesAssumption
<1>3. Moves(Callers, Factories, t, v, Awaited, Awaited', rest, refs)
  BY <1>1, <1>2 DEF Moves
<1> QED BY <1>3, CountsFollow

LEMMA BeginEcho ==
    ASSUME TableInv, EchoInv, EchoIs, EchoIs', NEW t \in Callers, NEW f \in Files,
           BeginEchocancel(t, f), spans' = spans
    PROVE  EchoInv'
<1>1. PICK c \in Channels : c = Chan(f)
  BY ChanIs DEF BeginEchocancel
<1>2. PICK e \in Factories \cup {None} : e = ec_factory[c]
  BY DEF EchoIs, EchoTypes
<1>3. PICK rest : rest = Less(modrefs, ec_current[c])
  OBVIOUS
<1>4. /\ ec_current' = [ec_current EXCEPT ![c] = None]
      /\ modrefs' = IF e \in factories THEN More(rest, e) ELSE rest
      /\ call' = IF e \in factories THEN [call EXCEPT ![t] = [file |-> f, ec |-> e]] ELSE call
      /\ call[t] = NoCall /\ UNCHANGED <<spans, factories, ec_factory, lost>>
  BY <1>1, <1>2, <1>3, Zenon DEF BeginEchocancel
<1>5. CASE e \notin factories
  BY <1>3, <1>4, <1>5, FreedEcho
<1>6. CASE e \in factories
  <2>1. Registered' = Registered
    BY <1>4 DEF Registered, Listed
  <2>2. Chosen' = Chosen
    BY <1>4, <2>1 DEF Chosen, Present
  <2>3. Tracks(Factories, None, ec_current, ec_current', modrefs, rest)
    BY <1>3, <1>4, FreedTracks DEF EchoIs
  <2>4. rest \in [Factories -> Int] /\ e \in Factories
    BY <1>6, <2>3 DEF Tracks, EchoIs, EchoTypes
  <2>5. modrefs' = More(Less(rest, call[t].ec), e)
    BY <1>4, <1>6 DEF NoCall, Less
  <2>6. Tracks(Factories, e, Awaited, Awaited', rest, modrefs')
    BY <1>4, <1>6, <2>4, <2>5, AwaitedMoves
  <2>7. ASSUME NEW x \in Factories PROVE Balanced(x)
    <3>1. /\ EcUses(x) = Count(Chosen, x) + Count(ec_current, x) + Count(Awaited, x)
          /\ EcUses(x)' = Count(Chosen, x) + Count(ec_current', x) + Count(Awaited', x)
      BY <2>2 DEF EcUses, Count
    <3>2. /\ Count(Chosen, x) \in Nat /\ lost[x] \in Nat /\ modrefs[x] \in Int
          /\ modrefs'[x] \in Int /\ x # None /\ rest[x] \in Int
      BY <2>4, Tables, UsesAreNat, UsesStayNat DEF EchoIs
    <3>3. /\ Count(ec_current, x) \in Nat /\ Count(ec_current', x) \in Nat
          /\ rest[x] - Count(ec_current', x) = modrefs[x] - Count(ec_current, x)
          /\ Count(ec_current', x) > 0 => Count(ec_current, x) > 0
      BY <2>3, <3>2 DEF Tracks
    <3>4. /\ Count(Awaited, x) \in Nat /\ Count(Awaited', x) \in Nat
          /\ modrefs'[x] - Count(Awaited', x) = rest[x] - Count(Awaited, x)
          /\ Count(Awaited', x) > 0 => Count(Awaited, x) > 0 \/ x \in factories
      BY <1>6, <2>6 DEF Tracks
    <3>5. modrefs'[x] - EcUses(x)' = modrefs[x] - EcUses(x)
      BY <3>1, <3>2, <3>3, <3>4
    <3>6. EcUses(x)' > 0 => EcUses(x) > 0 \/ x \in factories
      BY <3>1, <3>2, <3>3, <3>4
    <3> QED BY <1>4, <3>5, <3>6 DEF Balanced
  <2> QED BY <2>7, StillKept
<1> QED BY <1>5, <1>6

LEMMA CreatedEcho ==
    ASSUME TableInv, EchoInv, EchoIs, EchoIs', NEW t \in Callers, EchocanCreated(t),
           spans' = spans
    PROVE  EchoInv'
<1>1. PICK c \in Channels : c = Chan(call[t].file)
  BY ChanIs DEF EchocanCreated, EchoIs, CallsInv
<1>2. PICK e \in Factories : e = call[t].ec
  BY DEF EchocanCreated, EchoIs, CallsInv
<1>3. PICK old \in Factories \cup {None} : old = ec_current[c]
  BY DEF EchoIs, EchoTypes
<1>4. /\ ec_current' = [ec_current EXCEPT ![c] = e] /\ lost' = More(lost, old)
      /\ call' = [call EXCEPT ![t] = NoCall]
      /\ UNCHANGED <<spans, factories, modrefs, ec_factory>>
  BY <1>1, <1>2, <1>3, Zenon DEF EchocanCreated
<1>5. Registered' = Registered
  BY <1>4 DEF Registered, Listed
<1>6. Chosen' = Chosen
  BY <1>4, <1>5 DEF Chosen, Present
<1>7. /\ DOMAIN Awaited = Callers /\ DOMAIN Awaited' = Callers
      /\ Awaited[t] = e /\ Awaited'[t] = None
      /\ \A y \in Callers \ {t} : Awaited'[y] = Awaited[y]
  BY <1>2, <1>4 DEF Awaited, EchoIs, CallsInv, NoCall
<1>8. /\ DOMAIN ec_current = Channels /\ DOMAIN ec_current' = Channels /\ ec_current'[c] = e
      /\ \A d \in Channels \ {c} : ec_current'[d] = ec_current[d]
  BY <1>4 DEF EchoIs, EchoTypes
<1>9. ASSUME NEW x \in Factories PROVE Balanced(x)
  <2>1. IsFiniteSet(Callers) /\ IsFiniteSet(Channels) /\ x # None
    BY FilesAssumption, ChannelsFinite
  <2>2. Count(Awaited', x) = Count(Awaited, x) - (IF e = x THEN 1 ELSE 0)
                                              + (IF None = x THEN 1 ELSE 0)
    BY <1>7, <2>1, CountUpdate
  <2>3. Count(ec_current', x) = Count(ec_current, x) - (IF old = x THEN 1 ELSE 0)
                                                    + (IF e = x THEN 1 ELSE 0)
    BY <1>3, <1>8, <2>1, CountUpdate
  <2>4. lost'[x] = lost[x] + (IF old = x THEN 1 ELSE 0)
    BY <1>4, <2>1 DEF More, EchoIs
  <2>5. /\ EcUses(x) = Count(Chosen, x) + Count(ec_current, x) + Count(Awaited, x)
        /\ EcUses(x)' = Count(Chosen, x) + Count(ec_current', x) + Count(Awaited', x)
    BY <1>6 DEF EcUses, Count
  <2>6. /\ Count(Chosen, x) \in Nat /\ Count(ec_current, x) \in Nat /\ Count(Awaited, x) \in Nat
        /\ lost[x] \in Nat /\ modrefs[x] \in Int
    BY Tables, UsesAreNat DEF EchoIs
  <2>7. EcUses(x)' = EcUses(x) - (IF old = x THEN 1 ELSE 0)
    BY <2>1, <2>2, <2>3, <2>5, <2>6
  <2>8. EcUses(x) \in Nat
    BY UsesAreNat
  <2> QED BY <1>4, <2>4, <2>6, <2>7, <2>8 DEF Balanced
<1> QED BY <1>9, StillKept

LEMMA FailsEcho ==
    ASSUME EchoInv, EchoIs, EchoIs', NEW t \in Callers, EchocanFails(t), spans' = spans
    PROVE  EchoInv'
<1>1. /\ modrefs' = Less(modrefs, call[t].ec) /\ call' = [call EXCEPT ![t] = NoCall]
      /\ UNCHANGED <<spans, factories, ec_factory, ec_current, lost>>
  BY Zenon DEF EchocanFails
<1>2. modrefs' = More(Less(modrefs, call[t].ec), None) /\ modrefs \in [Factories -> Int]
  BY <1>1 DEF More, EchoIs, EchoTypes
<1>3. Tracks(Factories, None, Awaited, Awaited', modrefs, modrefs')
  BY <1>1, <1>2, AwaitedMoves DEF NoCall
<1>4. Registered' = Registered
  BY <1>1 DEF Registered, Listed
<1>5. Chosen' = Chosen
  BY <1>1, <1>4 DEF Chosen, Present
<1> QED BY <1>1, <1>3, <1>5, OneTable

LEMMA ModulesEcho ==
    ASSUME EchoInv, EchoIs, EchoIs', NEW e \in Factories, LoadFactory(e) \/ UnloadFactory(e),
           spans' = spans
    PROVE  EchoInv'
<1>1. UNCHANGED <<modrefs, ec_factory, ec_current, call, lost>>
  BY DEF LoadFactory, UnloadFactory
<1>2. Registered' = Registered
  BY DEF Registered, Listed
<1>3. Chosen' = Chosen /\ Awaited' = Awaited
  BY <1>1, <1>2 DEF Chosen, Awaited, Present
<1>4. \A x \in Factories : EcUses(x)' = EcUses(x)
  BY <1>1, <1>3 DEF EcUses, Count
<1>5. \A x \in Factories : EcUses(x) > 0 => x \in factories'
  <2> TAKE x \in Factories
  <2>1. EcUses(x) \in Nat /\ lost[x] \in Nat /\ Kept(x)
    BY UsesAreNat DEF EchoInv
  <2>2. CASE LoadFactory(e)
    BY <2>1, <2>2 DEF LoadFactory, Kept
  <2>3. CASE UnloadFactory(e)
    BY <2>1, <2>3 DEF UnloadFactory, Kept
  <2> QED BY <2>2, <2>3
<1> QED BY <1>1, <1>4, <1>5 DEF EchoInv, Kept, EchoIs

LEMMA RegisterEcho ==
    ASSUME IInv, ZoneInv, EchoInv, EchoIs, EchoIs', NEW s \in Spans, RegisterFiles(s)
    PROVE  EchoInv'
<1>1. s \notin Registered /\ Registered' = Registered \cup {s}
  BY RegisterSpans DEF RegisterFiles
<1>2. /\ ec_factory' = Cleared(s, ec_factory) /\ ec_current' = Cleared(s, ec_current)
      /\ lost' = LostBy(s) /\ UNCHANGED <<factories, modrefs, call>>
  BY DEF RegisterFiles
<1>3. Chosen' = Chosen /\ Awaited' = Awaited
  BY <1>1, <1>2 DEF Chosen, Awaited, Present, Cleared
<1>4. ASSUME NEW e \in Factories PROVE Balanced(e)
  <2> DEFINE gone == Cardinality({c \in Own(s) : ec_current[c] = e})
  <2>1. /\ Count(ec_current, e) \in Nat /\ Count(ec_current', e) \in Nat /\ gone \in Nat
        /\ Count(ec_current, e) = Count(ec_current', e) + gone
    <3>1. DOMAIN ec_current = Channels /\ e # None
      BY FilesAssumption DEF EchoIs, EchoTypes
    <3> QED BY <1>2, <3>1, CountCleared
  <2>2. {c \in Own(s) : e \in {curzone[c], ec_current[c]}} = {c \in Own(s) : ec_current[c] = e}
    BY FilesAssumption DEF ZoneInv, Own
  <2>3. lost'[e] = lost[e] + gone
    BY <1>2, <2>2 DEF LostBy, EchoIs
  <2>4. /\ EcUses(e) = Count(Chosen, e) + Count(ec_current, e) + Count(Awaited, e)
        /\ EcUses(e)' = Count(Chosen, e) + Count(ec_current', e) + Count(Awaited, e)
    BY <1>3 DEF EcUses, Count
  <2>5. /\ Count(Chosen, e) \in Nat /\ Count(Awaited, e) \in Nat
        /\ lost[e] \in Nat /\ modrefs[e] \in Int
    BY Tables, UsesAreNat DEF EchoIs
  <2> HIDE DEF gone
  <2> QED BY <1>2, <2>1, <2>3, <2>4, <2>5 DEF Balanced
<1> QED BY <1>4, StillKept

LEMMA UnregisterEcho ==
    ASSUME IInv, EchoInv, EchoIs, EchoIs', NEW s \in Spans, UnregisterFiles(s)
    PROVE  EchoInv'
<1>1. Registered' = Registered \ {s} /\ s \in Registered
  BY UnregisterSpanInv DEF UnregisterFiles, UnregisterSpan, IInv
<1>2. /\ modrefs' = [e \in Factories |-> modrefs[e] - Cardinality(Attached(s, e))]
      /\ UNCHANGED <<factories, ec_factory, ec_current, call, lost>>
  BY DEF UnregisterFiles
<1>3. Chosen' = Cleared(s, Chosen) /\ Awaited' = Awaited
  BY <1>1, <1>2 DEF Chosen, Awaited, Present, Cleared
<1>4. ASSUME NEW e \in Factories PROVE Balanced(e)
  <2> DEFINE gone == Cardinality({c \in Own(s) : Chosen[c] = e})
  <2>1. /\ Count(Chosen, e) \in Nat /\ Count(Chosen', e) \in Nat /\ gone \in Nat
        /\ Count(Chosen, e) = Count(Chosen', e) + gone
    <3>1. DOMAIN Chosen = Channels /\ e # None
      BY Tables DEF EchoIs
    <3> QED BY <1>3, <3>1, CountCleared
  <2>2. Attached(s, e) = {c \in Own(s) : Chosen[c] = e}
    BY <1>1 DEF Attached, Own, Chosen, Present
  <2>3. modrefs'[e] = modrefs[e] - gone
    BY <1>2, <2>2
  <2>4. /\ EcUses(e) = Count(Chosen, e) + Count(ec_current, e) + Count(Awaited, e)
        /\ EcUses(e)' = Count(Chosen', e) + Count(ec_current, e) + Count(Awaited, e)
    BY <1>2, <1>3 DEF EcUses, Count
  <2>5. /\ Count(ec_current, e) \in Nat /\ Count(Awaited, e) \in Nat
        /\ lost[e] \in Nat /\ modrefs[e] \in Int
    BY Tables, UsesAreNat DEF EchoIs
  <2> HIDE DEF gone
  <2> QED BY <1>2, <2>1, <2>3, <2>4, <2>5 DEF Balanced
<1> QED BY <1>4, StillKept

LEMMA NextTypes ==
    ASSUME TableInv, EchoTypes, CallsInv, [FilesNext]_all_vars
    PROVE  EchoTypes'
<1>1. \A v \in Factories \cup {None}, counts \in [Factories -> Int] :
          More(counts, v) \in [Factories -> Int] /\ Less(counts, v) \in [Factories -> Int]
  BY FilesAssumption, MoreIs
<1>2. ASSUME NEW s \in Spans, RegisterFiles(s) PROVE EchoTypes'
  BY <1>2 DEF RegisterFiles, Cleared, EchoTypes
<1>3. ASSUME NEW s \in Spans, UnregisterFiles(s) PROVE EchoTypes'
  <2>1. ASSUME NEW e PROVE Cardinality(Attached(s, e)) \in Nat
    <3>1. Attached(s, e) \in SUBSET Channels
      BY DEF Attached, Own
    <3> QED BY <3>1, ChannelsFinite, FS_Subset, FS_CardinalityType
  <2> QED BY <1>3, <2>1 DEF UnregisterFiles, EchoTypes
<1>4. CASE UNCHANGED echo
  BY <1>4 DEF echo, EchoTypes
<1>5. ASSUME NEW c \in Channels, ec_current' = [ec_current EXCEPT ![c] = None],
             modrefs' = Less(modrefs, ec_current[c]), UNCHANGED <<factories, ec_factory>>
      PROVE  EchoTypes'
  <2>1. ec_current[c] \in Factories \cup {None}
    BY DEF EchoTypes
  <2> QED BY <1>1, <1>5, <2>1 DEF EchoTypes
<1>6. ASSUME NEW f \in Files, FileStep(f) PROVE EchoTypes'
  <2>1. CASE InitializeChannel(f)
    <3>1. Chan(f) \in Channels
      BY <2>1, ChanIs DEF InitializeChannel, TableInv, Placed
    <3> QED BY <1>5, <2>1, <3>1 DEF InitializeChannel
  <2>2. CASE DriverFails(f)
    <3>1. Chan(f) \in Channels
      BY <2>2, ChanIs DEF DriverFails, TableInv, Placed
    <3> QED BY <1>5, <2>2, <3>1 DEF DriverFails, CloseChannel
  <2>3. CASE Release(f)
    <3>1. CASE Chan(f) = NoChan
      BY <1>4, <2>3, <3>1 DEF Release
    <3>2. CASE Chan(f) # NoChan
      <4>1. Chan(f) \in Channels
        BY <3>2, ChanIs
      <4> QED BY <1>5, <2>3, <3>2, <4>1 DEF Release, CloseChannel
    <3> QED BY <3>1, <3>2
  <2> QED BY <1>4, <1>6, <2>1, <2>2, <2>3 DEF FileStep, Open, InitializeFails, SetDefault,
              DriverOpens, ClearOpen
<1>7. ASSUME NEW u \in Units, NEW e \in Factories \cup {None}, AttachEchocan(u, e)
      PROVE  EchoTypes'
  <2>1. PICK c \in Channels : c = chans[u]
    BY <1>7, FilesAssumption DEF AttachEchocan, TableInv, Channos
  <2>2. /\ ec_factory' = [ec_factory EXCEPT ![c] = e]
        /\ modrefs' = More(Less(modrefs, ec_factory[c]), e) /\ UNCHANGED <<factories, ec_current>>
    BY <1>7, <2>1, Zenon DEF AttachEchocan, Detached
  <2>3. Less(modrefs, ec_factory[c]) \in [Factories -> Int]
    BY <1>1 DEF EchoTypes
  <2> QED BY <1>1, <2>2, <2>3 DEF EchoTypes
<1>8. ASSUME NEW t \in Callers, NEW f \in Files, BeginEchocancel(t, f) PROVE EchoTypes'
  <2>1. PICK c \in Channels : c = Chan(f)
    BY <1>8, ChanIs DEF BeginEchocancel
  <2>2. PICK rest : rest = Less(modrefs, ec_current[c])
    OBVIOUS
  <2>3. rest \in [Factories -> Int]
    BY <1>1, <2>2 DEF EchoTypes
  <2>4. /\ ec_current' = [ec_current EXCEPT ![c] = None]
        /\ modrefs' = IF ec_factory[c] \in factories THEN More(rest, ec_factory[c]) ELSE rest
        /\ UNCHANGED <<factories, ec_factory>>
    BY <1>8, <2>1, <2>2, Zenon DEF BeginEchocancel
  <2>5. modrefs' \in [Factories -> Int]
    BY <1>1, <2>3, <2>4 DEF EchoTypes
  <2> QED BY <2>4, <2>5 DEF EchoTypes
<1>9. ASSUME NEW t \in Callers, EchocanCreated(t) PROVE EchoTypes'
  BY <1>9 DEF EchocanCreated, CallsInv, EchoTypes
<1>10. ASSUME NEW t \in Callers, EchocanFails(t) PROVE EchoTypes'
  BY <1>1, <1>10 DEF EchocanFails, CallsInv, EchoTypes
<1>11. ASSUME NEW f \in Files, EchocanOff(f) PROVE EchoTypes'
  <2>1. Chan(f) \in Channels
    BY <1>11, ChanIs DEF EchocanOff
  <2> QED BY <1>5, <1>11, <2>1 DEF EchocanOff
<1>12. ASSUME NEW e \in Factories, LoadFactory(e) \/ UnloadFactory(e) PROVE EchoTypes'
  BY <1>12 DEF LoadFactory, UnloadFactory, EchoTypes
<1>13. CASE EchoStep
  BY <1>7, <1>8, <1>9, <1>10, <1>11, <1>12, <1>13 DEF EchoStep
<1>14. CASE ZoneStep
  BY <1>4, <1>14 DEF ZoneStep, ChooseZone, LoadZone, SetDefaultZone, FreeZone
<1> QED BY <1>2, <1>3, <1>4, <1>6, <1>13, <1>14 DEF FilesNext, all_vars, file_vars

LEMMA NextEcho ==
    ASSUME IInv, TableInv, ZoneInv, EchoInv, EchoIs, EchoIs', [FilesNext]_all_vars
    PROVE  EchoInv'
<1>1. ASSUME NEW s \in Spans, RegisterFiles(s) PROVE EchoInv'
  BY <1>1, RegisterEcho
<1>2. ASSUME NEW s \in Spans, UnregisterFiles(s) PROVE EchoInv'
  BY <1>2, UnregisterEcho
<1>3. CASE (SpanStep \/ UnplugStep \/ Configure \/ Detach \/ Relink \/ Attach)
             /\ UNCHANGED file_vars
  <2>1. spans' = spans
    BY <1>3, SpanStepInv DEF IInv, UnplugStep, ChooseMaster, CommitMaster, Configure, ChanConfig,
                             Detach, Relink, Attach, span_vars
  <2> QED BY <1>3, <2>1, SameEcho DEF file_vars
<1>4. ASSUME UNCHANGED vars, NEW f \in Files, FileStep(f) PROVE EchoInv'
  <2>1. spans' = spans
    BY <1>4 DEF vars, span_vars
  <2>2. CASE UNCHANGED <<echo, lost>>
    BY <2>1, <2>2, SameEcho
  <2>3. CASE InitializeChannel(f)
    <3>1. Chan(f) \in Channels
      BY <2>3, ChanIs DEF InitializeChannel, TableInv, Placed
    <3> QED BY <2>1, <2>3, <3>1, FreedEcho DEF InitializeChannel
  <2>4. CASE DriverFails(f)
    <3>1. Chan(f) \in Channels
      BY <2>4, ChanIs DEF DriverFails, TableInv, Placed
    <3> QED BY <2>1, <2>4, <3>1, FreedEcho DEF DriverFails, CloseChannel
  <2>5. CASE Release(f)
    <3>1. CASE Chan(f) = NoChan
      BY <2>2, <2>5, <3>1 DEF Release
    <3>2. CASE Chan(f) # NoChan
      <4>1. Chan(f) \in Channels
        BY <3>2, ChanIs
      <4> QED BY <2>1, <2>5, <3>2, <4>1, FreedEcho DEF Release, CloseChannel
    <3> QED BY <3>1, <3>2
  <2> QED BY <1>4, <2>2, <2>3, <2>4, <2>5 DEF FileStep, Open, InitializeFails, SetDefault,
              DriverOpens, ClearOpen
<1>5. CASE UNCHANGED vars /\ ZoneStep
  <2>1. UNCHANGED <<echo, lost, spans>>
    BY <1>5 DEF vars, span_vars, ZoneStep, ChooseZone, LoadZone, SetDefaultZone, FreeZone
  <2> QED BY <2>1, SameEcho
<1>6. CASE UNCHANGED vars /\ EchoStep
  <2>1. spans' = spans
    BY <1>6 DEF vars, span_vars
  <2>2. ASSUME NEW f \in Files, EchocanOff(f) PROVE EchoInv'
    <3>1. Chan(f) \in Channels
      BY <2>2, ChanIs DEF EchocanOff
    <3> QED BY <2>1, <2>2, <3>1, FreedEcho DEF EchocanOff
  <2> QED BY <1>6, <2>1, <2>2, AttachEcho, BeginEcho, CreatedEcho, FailsEcho, ModulesEcho DEF EchoStep
<1>7. CASE UNCHANGED all_vars
  BY <1>7, SameEcho DEF all_vars, vars, span_vars, file_vars
<1> QED BY <1>1, <1>2, <1>3, <1>4, <1>5, <1>6, <1>7 DEF FilesNext

-----------------------------------------------------------------------------
(* What is in use is kept                                                  *)

UseInv == TableInv /\ ZoneInv /\ CallsInv /\ EchoInv

LEMMA UseInvariance == FilesSpec => []UseInv
<1>1. FilesInit => UseInv
  BY InitTable, InitZones, InitCalls, InitEcho DEF UseInv
<1>2. IInv /\ UseInv /\ [FilesNext]_all_vars => UseInv'
  <2> SUFFICES ASSUME IInv, UseInv, [FilesNext]_all_vars PROVE UseInv'
    OBVIOUS
  <2>1. EchoTypes /\ EchoIs
    BY DEF UseInv, EchoInv, EchoIs, ZoneInv
  <2>2. TableInv' /\ ZoneInv' /\ CallsInv' /\ EchoTypes'
    BY <2>1, NextTable, NextZones, NextCalls, NextTypes DEF UseInv
  <2>3. EchoIs'
    BY <2>2 DEF EchoIs, ZoneInv
  <2> QED BY <2>1, <2>2, <2>3, NextEcho DEF UseInv
<1> QED BY <1>1, <1>2, FilesIInv, PTL DEF FilesSpec

(* No tone zone is freed while a channel plays from it or it is the        *)
(* default, no module of an echo canceller unloaded while a channel uses   *)
(* it, and references are as many as uses (refcount of struct tone_zone,   *)
(* set_tone_zone, close_channel, find_echocan, release_echocan).           *)
THEOREM UsedStaysKept == FilesSpec => []UsedIsKept
<1>1. UseInv => UsedIsKept
  BY DEF UseInv, ZoneInv, EchoInv, Kept, UsedIsKept
<1> QED BY <1>1, UseInvariance, PTL

(* The types of all of it: each channel of a registered span has a number, *)
(* a file has a unit unless it is idle, and no reference is lost twice.    *)
THEOREM FilesTypes == FilesSpec => []FilesTypeOK
<1>1. IInv /\ UseInv => FilesTypeOK
  BY DEF IInv, UseInv, TableInv, ZoneInv, CallsInv, EchoInv, EchoTypes, FilesTypeOK
<1> QED BY <1>1, FilesIInv, UseInvariance, PTL
=============================================================================

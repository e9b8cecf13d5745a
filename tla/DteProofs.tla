----------------------------- MODULE DteProofs -----------------------------
(***************************************************************************)
(* Proofs about the commands of the transcoder card, for every length of   *)
(* the ring, every sequence of commands, every limit of the retries and    *)
(* any number of voice frames.                                             *)
(***************************************************************************)
EXTENDS DteCommands, FunctionTheorems, FiniteSetTheorems, SequenceTheorems, TLAPS

Labels == {"idle", "enlist", "submit", "requeue", "sleep", "head", "retrieve", "complete",
           "pull", "splice", "receive", "match", "scan", "resend"}
Busy   == {"enlist", "submit", "requeue", "complete"}     \* a thread has hold of a tcb
Backs  == {"idle", "sleep", "head", "match"}
Ops    == 1 .. MaxOps

One(b) == IF b THEN 1 ELSE 0

ThreadInv ==
    /\ pc \in [Threads -> Labels] /\ ret \in [Threads -> Backs]
    /\ pc["user"] \in {"idle", "enlist", "submit", "requeue", "sleep"}
    /\ pc["user"] \in Busy => ret["user"] = "sleep"
    /\ \A t \in Threads : pc[t] \in {"enlist", "submit", "requeue"} \/ ret[t] = "idle"
    /\ pc["dog"] = "resend" => to_retry = {Command}
    /\ \A t \in Threads : cur[t] # None <=> pc[t] \in Busy
    /\ \A t \in Threads : pc[t] = "enlist" => cur[t] = Command

AnswersTyped ==
    /\ local \in Seq(Ops) /\ rx_list \in Seq(Ops) /\ used \subseteq Ops
    /\ pc["work"] = "match" \/ ret["work"] = "match" => local # <<>>

FrameInv ==
    /\ fresh \subseteq Frames /\ fresh \cap frames = {}
    /\ \A f \in Frames : Places(f) = One(f \in frames)

Active  == pc["user"] # "idle"
Pending == Active /\ cmd.done = 0

\* On its way to the waiting list, which it has left or not yet reached.
Unenlisted ==
    \/ \E i \in DOMAIN cmd_list : cmd_list[i] = Command
    \/ Command \in to_retry
    \/ \E t \in Threads : pc[t] = "enlist"

\* The life of a command.  Until its sender is told it is in one place, or it has been
\* sent and is on the waiting list; it waits as long as it has no answer.
PendingInv ==
    Pending =>
        /\ ~cmd.timedout
        /\ cmd.wait <=> cmd.response = 0
        /\ Command \in waiting => cmd.wait
        /\ Places(Command) = One(~cmd.complete)
        /\ cmd.complete => Command \in waiting
        /\ cmd.wait /\ Command \notin waiting => Unenlisted

OverInv ==
    /\ Active => op # 0
    /\ ~Pending => Places(Command) = 0 /\ Command \notin waiting
    /\ cmd.done > 0 => Active /\ (cmd.response # 0 \/ cmd.timedout)
    /\ ~Active /\ allocated => cmd.response # 0

\* The answers come in the order of the commands: none is older than the last one of
\* the supervisor, none is younger than the command that is being sent.
NoLess(s, n) == \A i \in DOMAIN s : n <= s[i]
NoMore(s, n) == \A i \in DOMAIN s : s[i] <= n
Ordered(s)   == \A i, j \in DOMAIN s : i <= j => s[i] <= s[j]
Older(s, t)  == \A i \in DOMAIN s, j \in DOMAIN t : s[i] <= t[j]
OrderInv ==
    /\ Ordered(local) /\ Ordered(rx_list) /\ Ordered(inbox)
    /\ Older(local, rx_list) /\ Older(local, inbox) /\ Older(rx_list, inbox)
    /\ NoLess(local, last_rx_seq) /\ NoLess(rx_list, last_rx_seq) /\ NoLess(inbox, last_rx_seq)
    /\ NoMore(local, op) /\ NoMore(rx_list, op) /\ NoMore(inbox, op)
    /\ last_rx_seq <= op
    /\ \A n \in used : Function[n] \in Supervisor => n <= last_rx_seq

\* The inductive invariant.
TypeInv == DteTypeOK /\ ThreadInv /\ AnswersTyped
IInv    == TypeInv /\ FrameInv /\ PendingInv /\ OverInv /\ OrderInv

-----------------------------------------------------------------------------
(* Counting.                                                               *)

Held(f, c)      == Cardinality({i \in DOMAIN f : f[i] = c})
RingCount(d, c) == Cardinality({i \in DOMAIN d : d[i].tcb = c})
HandCount(u, c) == Cardinality({t \in Threads : u[t] = c})

LEMMA HeldUpdate ==
    ASSUME NEW S, IsFiniteSet(S), NEW f, DOMAIN f = S, NEW k \in S, NEW v, NEW c,
           NEW g, DOMAIN g = S, g[k] = v, \A i \in S : i # k => g[i] = f[i]
    PROVE  Held(g, c) = Held(f, c) - One(f[k] = c) + One(v = c)
<1> DEFINE F == {i \in S : f[i] = c}
           G == {i \in S : g[i] = c}
           R == F \ {k}
<1>1. IsFiniteSet(F) /\ IsFiniteSet(G)
  <2>1. F \in SUBSET S /\ G \in SUBSET S
    OBVIOUS
  <2> QED BY <2>1, FS_Subset
<1>2. /\ IsFiniteSet(R)
      /\ Cardinality(R) = IF k \in F THEN Cardinality(F) - 1 ELSE Cardinality(F)
  BY <1>1, FS_RemoveElement
<1>3. k \in F <=> f[k] = c
  OBVIOUS
<1>4. Cardinality(G) = Cardinality(R) + One(v = c)
  <2>1. CASE v = c
    <3>1. G = R \cup {k} /\ k \notin R
      BY <2>1
    <3>2. Cardinality(R \cup {k}) = IF k \in R THEN Cardinality(R) ELSE Cardinality(R) + 1
      BY <1>2, FS_AddElement
    <3> QED BY <2>1, <3>1, <3>2 DEF One
  <2>2. CASE v # c
    <3>1. G = R
      BY <2>2
    <3>2. Cardinality(R) \in Nat
      BY <1>2, FS_CardinalityType
    <3> QED BY <2>2, <3>1, <3>2 DEF One
  <2> QED BY <2>1, <2>2
<1>5. Cardinality(F) \in Nat /\ Cardinality(G) \in Nat
  BY <1>1, FS_CardinalityType
<1>6. Held(f, c) = Cardinality(F) /\ Held(g, c) = Cardinality(G)
  BY DEF Held
<1> HIDE DEF F, G, R
<1> QED BY <1>2, <1>3, <1>4, <1>5, <1>6 DEF One

LEMMA HeldSome ==
    ASSUME NEW f, IsFiniteSet(DOMAIN f), NEW c
    PROVE  /\ Held(f, c) \in Nat
           /\ \A i \in DOMAIN f : f[i] = c => Held(f, c) >= 1
           /\ \A i, j \in DOMAIN f : f[i] = c /\ f[j] = c /\ i # j => Held(f, c) >= 2
<1> DEFINE F == {i \in DOMAIN f : f[i] = c}
<1>1. IsFiniteSet(F)
  <2>1. F \in SUBSET DOMAIN f
    OBVIOUS
  <2> QED BY <2>1, FS_Subset
<1>2. Held(f, c) = Cardinality(F)
  BY DEF Held
<1>3. Cardinality(F) \in Nat
  BY <1>1, FS_CardinalityType
<1>4. ASSUME NEW i \in F PROVE Cardinality(F) >= 1
  <2>1. Cardinality(F) # 0
    BY <1>1, FS_EmptySet
  <2> HIDE DEF F
  <2> QED BY <1>3, <2>1
<1>5. ASSUME NEW i \in F, NEW j \in F, i # j PROVE Cardinality(F) >= 2
  <2>1. IsFiniteSet(F \ {i}) /\ Cardinality(F \ {i}) = Cardinality(F) - 1
    BY <1>1, FS_RemoveElement
  <2>2. j \in F \ {i}
    BY <1>5
  <2>3. Cardinality(F \ {i}) # 0
    BY <2>1, <2>2, FS_EmptySet
  <2>4. Cardinality(F) >= 1
    BY <1>4
  <2> HIDE DEF F
  <2> QED BY <1>3, <2>1, <2>3, <2>4
<1> QED BY <1>2, <1>3, <1>4, <1>5

LEMMA HeldAppend ==
    ASSUME NEW V, NEW s \in Seq(V), NEW v \in V, NEW c
    PROVE  Held(Append(s, v), c) = Held(s, c) + One(v = c)
<1> DEFINE n == Len(s)
           F == {i \in DOMAIN s : s[i] = c}
           t == Append(s, v)
           G == {i \in DOMAIN t : t[i] = c}
<1>1. /\ n \in Nat /\ DOMAIN s = 1 .. n /\ DOMAIN t = 1 .. n + 1
      /\ t[n + 1] = v /\ \A i \in 1 .. n : t[i] = s[i]
  BY AppendProperties
<1>2. IsFiniteSet(F) /\ Cardinality(F) \in Nat
  <2>1. IsFiniteSet(1 .. n)
    BY <1>1, FS_Interval
  <2>2. F \in SUBSET (1 .. n)
    BY <1>1
  <2> QED BY <2>1, <2>2, FS_Subset, FS_CardinalityType
<1>3. n + 1 \notin F
  BY <1>1
<1>4. Cardinality(F \cup {n + 1}) = IF n + 1 \in F THEN Cardinality(F) ELSE Cardinality(F) + 1
  BY <1>2, FS_AddElement
<1>5. \A i \in 1 .. n + 1 : i \in 1 .. n \/ i = n + 1
  BY <1>1
<1>6. CASE v = c
  <2>1. G = F \cup {n + 1}
    BY <1>1, <1>5, <1>6
  <2>2. One(v = c) = 1
    BY <1>6 DEF One
  <2> QED BY <1>2, <1>3, <1>4, <2>1, <2>2 DEF Held
<1>7. CASE v # c
  <2>1. G = F
    BY <1>1, <1>5, <1>7
  <2>2. One(v = c) = 0
    BY <1>7 DEF One
  <2>3. Held(t, c) = Cardinality(G) /\ Held(s, c) = Cardinality(F)
    BY DEF Held
  <2> HIDE DEF F, G, t
  <2>4. Held(t, c) = Held(s, c) + One(v = c)
    BY <1>2, <2>1, <2>2, <2>3
  <2> QED BY <2>4 DEF t
<1> QED BY <1>6, <1>7

LEMMA HeldTail ==
    ASSUME NEW V, NEW s \in Seq(V), s # <<>>, NEW c
    PROVE  Held(Tail(s), c) = Held(s, c) - One(Head(s) = c)
<1> DEFINE n == Len(s)
           F == {i \in 2 .. n : s[i] = c}
           t == Tail(s)
           G == {i \in 1 .. n - 1 : t[i] = c}
<1>1. /\ n \in Nat /\ n >= 1 /\ DOMAIN s = 1 .. n /\ DOMAIN t = 1 .. n - 1
      /\ Head(s) = s[1] /\ \A i \in 1 .. n - 1 : t[i] = s[i + 1]
  BY HeadTailProperties
<1>2. IsFiniteSet(F) /\ IsFiniteSet(G)
  <2>1. IsFiniteSet(1 .. n) /\ IsFiniteSet(1 .. n - 1)
    BY <1>1, FS_Interval
  <2>2. F \in SUBSET (1 .. n) /\ G \in SUBSET (1 .. n - 1)
    BY <1>1
  <2> QED BY <2>1, <2>2, FS_Subset
<1>3. Cardinality(G) = Cardinality(F)
  <2> DEFINE h == [i \in G |-> i + 1]
  <2>1. h \in Bijection(G, F)
    <3>1. \A i \in G : i + 1 \in F
      BY <1>1
    <3>2. \A j \in F : j - 1 \in G /\ (j - 1) + 1 = j
      BY <1>1
    <3>3. \A a, b \in G : a + 1 = b + 1 => a = b
      BY <1>1
    <3> HIDE DEF F, G
    <3>4. h \in [G -> F]
      BY <3>1
    <3>5. h \in Injection(G, F)
      BY <3>3, <3>4, Fun_IsInj
    <3>6. \A j \in F : \E i \in G : h[i] = j
      BY <3>2
    <3>7. h \in Surjection(G, F)
      BY <3>4, <3>6, Fun_IsSurj
    <3> QED BY <3>5, <3>7, Fun_IsBij
  <2>2. ExistsBijection(G, F)
    BY <2>1, Zenon DEF ExistsBijection
  <2> HIDE DEF F, G, h
  <2> QED BY <1>2, <2>2, FS_Bijection
<1>4. Cardinality(F) \in Nat
  BY <1>2, FS_CardinalityType
<1>5. Held(t, c) = Cardinality(G)
  BY <1>1 DEF Held
<1>6. Held(s, c) = Cardinality(F) + One(s[1] = c)
  <2> DEFINE E == {i \in 1 .. n : s[i] = c}
  <2>1. Held(s, c) = Cardinality(E)
    BY <1>1 DEF Held
  <2>2. CASE s[1] = c
    <3>1. E = F \cup {1} /\ 1 \notin F
      BY <1>1, <2>2
    <3>2. Cardinality(F \cup {1}) = IF 1 \in F THEN Cardinality(F) ELSE Cardinality(F) + 1
      BY <1>2, FS_AddElement
    <3> QED BY <2>1, <2>2, <3>1, <3>2 DEF One
  <2>3. CASE s[1] # c
    <3>1. E = F
      BY <1>1, <2>3
    <3>2. One(s[1] = c) = 0
      BY <2>3 DEF One
    <3> HIDE DEF E, F
    <3> QED BY <1>4, <2>1, <3>1, <3>2
  <2> QED BY <2>2, <2>3
<1> HIDE DEF F, G
<1> QED BY <1>1, <1>3, <1>4, <1>5, <1>6 DEF One

-----------------------------------------------------------------------------
(* Where the tcbs go.                                                      *)

Slot == 0 .. Slots - 1

LEMMA SlotFinite == IsFiniteSet(Slot)
<1>1. 0 \in Int /\ Slots - 1 \in Int
  BY DteAssumption
<1> QED BY <1>1, FS_Interval DEF Slot

LEMMA RingUpdate ==
    ASSUME NEW d, DOMAIN d = Slot, NEW k \in Slot, NEW v, NEW c,
           NEW e, DOMAIN e = Slot, e[k].tcb = v, \A i \in Slot : i # k => e[i].tcb = d[i].tcb
    PROVE  RingCount(e, c) = RingCount(d, c) - One(d[k].tcb = c) + One(v = c)
<1> DEFINE f == [i \in Slot |-> d[i].tcb]
           g == [i \in Slot |-> e[i].tcb]
<1>1. IsFiniteSet(Slot)
  BY SlotFinite
<1>2. /\ DOMAIN f = Slot /\ DOMAIN g = Slot /\ g[k] = v /\ f[k] = d[k].tcb
      /\ \A i \in Slot : i # k => g[i] = f[i]
  OBVIOUS
<1>3. Held(f, c) = RingCount(d, c) /\ Held(g, c) = RingCount(e, c)
  <2>1. {i \in DOMAIN f : f[i] = c} = {i \in DOMAIN d : d[i].tcb = c}
    OBVIOUS
  <2>2. {i \in DOMAIN g : g[i] = c} = {i \in DOMAIN e : e[i].tcb = c}
    OBVIOUS
  <2> QED BY <2>1, <2>2 DEF Held, RingCount
<1> HIDE DEF f, g
<1>4. Held(g, c) = Held(f, c) - One(f[k] = c) + One(v = c)
  BY <1>1, <1>2, HeldUpdate
<1> QED BY <1>2, <1>3, <1>4

LEMMA ThreadsFinite == IsFiniteSet(Threads)
<1>1. Threads = {"user"} \cup {"writer"} \cup {"work"} \cup {"dog"}
  BY DEF Threads
<1>2. IsFiniteSet({"user"})
  BY FS_Singleton
<1>3. IsFiniteSet({"user"} \cup {"writer"})
  BY <1>2, FS_AddElement
<1>4. IsFiniteSet({"user"} \cup {"writer"} \cup {"work"})
  BY <1>3, FS_AddElement
<1>5. IsFiniteSet({"user"} \cup {"writer"} \cup {"work"} \cup {"dog"})
  BY <1>4, FS_AddElement
<1> QED BY <1>1, <1>5

LEMMA HandUpdate ==
    ASSUME NEW u, DOMAIN u = Threads, NEW t \in Threads, NEW v, NEW c,
           NEW w, DOMAIN w = Threads, w[t] = v, \A i \in Threads : i # t => w[i] = u[i]
    PROVE  HandCount(w, c) = HandCount(u, c) - One(u[t] = c) + One(v = c)
<1>1. Held(w, c) = Held(u, c) - One(u[t] = c) + One(v = c)
  BY ThreadsFinite, HeldUpdate
<1>2. Held(w, c) = HandCount(w, c) /\ Held(u, c) = HandCount(u, c)
  BY DEF Held, HandCount
<1> QED BY <1>1, <1>2

LEMMA PlacesSum ==
    \A c : Places(c) = RingCount(desc, c) + Held(cmd_list, c) + HandCount(cur, c)
                       + One(c \in to_retry)
BY Zenon DEF Places, RingCount, Held, HandCount, One

LEMMA CountTypes ==
    ASSUME DteTypeOK, NEW c
    PROVE  /\ RingCount(desc, c) \in Nat /\ Held(cmd_list, c) \in Nat
           /\ HandCount(cur, c) \in Nat /\ One(c \in to_retry) \in Nat
<1>1. RingCount(desc, c) \in Nat
  <2>1. IsFiniteSet(Slot) /\ DOMAIN desc = Slot
    BY DteAssumption, FS_Interval DEF Slot, DteTypeOK
  <2>2. {i \in DOMAIN desc : desc[i].tcb = c} \in SUBSET Slot
    BY <2>1
  <2> QED BY <2>1, <2>2, FS_Subset, FS_CardinalityType DEF RingCount
<1>2. Held(cmd_list, c) \in Nat
  <2>1. IsFiniteSet(DOMAIN cmd_list)
    BY FS_Interval DEF DteTypeOK
  <2> QED BY <2>1, HeldSome
<1>3. HandCount(cur, c) \in Nat
  <2>1. {t \in Threads : cur[t] = c} \in SUBSET Threads
    OBVIOUS
  <2> QED BY <2>1, ThreadsFinite, FS_Subset, FS_CardinalityType DEF HandCount
<1>4. One(c \in to_retry) \in Nat
  BY DEF One
<1> QED BY <1>1, <1>2, <1>3, <1>4

\* Whoever sees a tcb somewhere knows that it has a place, and if it is seen twice
\* then it has two.
LEMMA SeenPlaces ==
    ASSUME DteTypeOK, NEW c
    PROVE  /\ Places(c) \in Nat
           /\ \A t \in Threads : cur[t] = c => Places(c) >= 1
           /\ \A t, u \in Threads : cur[t] = c /\ cur[u] = c /\ t # u => Places(c) >= 2
           /\ \A i \in DOMAIN cmd_list : cmd_list[i] = c => Held(cmd_list, c) >= 1
           /\ \A t \in Threads : cur[t] = c /\ Held(cmd_list, c) >= 1 => Places(c) >= 2
           /\ \A t \in Threads : cur[t] = c /\ c \in to_retry => Places(c) >= 2
           /\ \A i \in Slot : desc[i].tcb = c => Places(c) >= 1
           /\ \A i \in DOMAIN cmd_list : cmd_list[i] = c => Places(c) >= 1
           /\ c \in to_retry => Places(c) >= 1
<1>1. Places(c) = RingCount(desc, c) + Held(cmd_list, c) + HandCount(cur, c)
                  + One(c \in to_retry)
  BY PlacesSum
<1>2. HandCount(cur, c) = Held(cur, c) /\ DOMAIN cur = Threads
  BY DEF DteTypeOK, HandCount, Held
<1>3. IsFiniteSet(DOMAIN cur) /\ IsFiniteSet(DOMAIN cmd_list)
  BY <1>2, ThreadsFinite, FS_Interval DEF DteTypeOK
<1>4. /\ \A t \in Threads : cur[t] = c => HandCount(cur, c) >= 1
      /\ \A t, u \in Threads : cur[t] = c /\ cur[u] = c /\ t # u => HandCount(cur, c) >= 2
  BY <1>2, <1>3, HeldSome
<1>5. \A i \in DOMAIN cmd_list : cmd_list[i] = c => Held(cmd_list, c) >= 1
  BY <1>3, HeldSome
<1>6. \A i \in Slot : desc[i].tcb = c => RingCount(desc, c) >= 1
  <2> DEFINE f == [i \in Slot |-> desc[i].tcb]
  <2>1. DOMAIN f = Slot /\ DOMAIN desc = Slot /\ IsFiniteSet(Slot)
    BY DteAssumption, FS_Interval DEF DteTypeOK, Slot
  <2>2. Held(f, c) = RingCount(desc, c)
    <3>1. {i \in DOMAIN f : f[i] = c} = {i \in DOMAIN desc : desc[i].tcb = c}
      BY <2>1
    <3> QED BY <3>1 DEF Held, RingCount
  <2>3. \A i \in Slot : f[i] = desc[i].tcb
    OBVIOUS
  <2> HIDE DEF f
  <2> QED BY <2>1, <2>2, <2>3, HeldSome
<1>7. c \in to_retry => One(c \in to_retry) >= 1
  BY DEF One
<1> QED BY <1>1, <1>4, <1>5, <1>6, <1>7, CountTypes

LEMMA NothingMoves ==
    ASSUME UNCHANGED <<desc, cmd_list, cur, to_retry>>
    PROVE  \A c : Places(c)' = Places(c)
BY Zenon DEF Places

\* A thread takes up a tcb that nobody held.
LEMMA HandTakes ==
    ASSUME DteTypeOK, NEW t \in Threads, cur[t] = None, NEW x \in Tcbs,
           cur' = [cur EXCEPT ![t] = x], UNCHANGED <<desc, cmd_list, to_retry>>
    PROVE  \A c \in Tcbs : Places(c)' = Places(c) + One(c = x)
<1> SUFFICES ASSUME NEW c \in Tcbs PROVE Places(c)' = Places(c) + One(c = x)
  OBVIOUS
<1>1. Places(c)' = RingCount(desc', c) + Held(cmd_list', c) + HandCount(cur', c)
                   + One(c \in to_retry')
  BY Zenon DEF Places, RingCount, Held, HandCount, One
<1>2. PICK w : w = cur'
  OBVIOUS
<1>3. HandCount(w, c) = HandCount(cur, c) - One(cur[t] = c) + One(x = c)
  <2>1. /\ DOMAIN cur = Threads /\ DOMAIN w = Threads /\ w[t] = x
        /\ \A i \in Threads : i # t => w[i] = cur[i]
    BY <1>2 DEF DteTypeOK
  <2> QED BY <2>1, HandUpdate
<1>4. One(cur[t] = c) = 0 /\ One(x = c) = One(c = x)
  BY DteAssumption DEF One, Tcbs
<1>5. One(c = x) \in Nat
  BY DEF One
<1> QED BY <1>1, <1>2, <1>3, <1>4, <1>5, PlacesSum, CountTypes

\* It lets go of it.
LEMMA HandDrops ==
    ASSUME DteTypeOK, NEW t \in Threads, NEW x \in Tcbs, cur[t] = x,
           cur' = [cur EXCEPT ![t] = None], UNCHANGED <<desc, cmd_list, to_retry>>
    PROVE  \A c \in Tcbs : Places(c)' = Places(c) - One(c = x)
<1> SUFFICES ASSUME NEW c \in Tcbs PROVE Places(c)' = Places(c) - One(c = x)
  OBVIOUS
<1>1. Places(c)' = RingCount(desc', c) + Held(cmd_list', c) + HandCount(cur', c)
                   + One(c \in to_retry')
  BY Zenon DEF Places, RingCount, Held, HandCount, One
<1>2. PICK w : w = cur'
  OBVIOUS
<1>3. HandCount(w, c) = HandCount(cur, c) - One(cur[t] = c) + One(None = c)
  <2>1. /\ DOMAIN cur = Threads /\ DOMAIN w = Threads /\ w[t] = None
        /\ \A i \in Threads : i # t => w[i] = cur[i]
    BY <1>2 DEF DteTypeOK
  <2> QED BY <2>1, HandUpdate
<1>4. One(cur[t] = c) = One(c = x) /\ One(None = c) = 0
  BY DteAssumption DEF One, Tcbs
<1>5. One(c = x) \in Nat
  BY DEF One
<1> QED BY <1>1, <1>2, <1>3, <1>4, <1>5, PlacesSum, CountTypes

\* It puts it onto the ring.
LEMMA HandToRing ==
    ASSUME DteTypeOK, NEW t \in Threads, NEW k \in Slot, NEW x \in Tcbs, cur[t] = x,
           desc[k] = Unused, desc' = [desc EXCEPT ![k] = [tcb |-> x, owned |-> TRUE]],
           cur' = [cur EXCEPT ![t] = None], UNCHANGED <<cmd_list, to_retry>>
    PROVE  \A c \in Tcbs : Places(c)' = Places(c)
<1> SUFFICES ASSUME NEW c \in Tcbs PROVE Places(c)' = Places(c)
  OBVIOUS
<1>1. Places(c)' = RingCount(desc', c) + Held(cmd_list', c) + HandCount(cur', c)
                   + One(c \in to_retry')
  BY Zenon DEF Places, RingCount, Held, HandCount, One
<1>2. PICK w, e : w = cur' /\ e = desc'
  OBVIOUS
<1>3. HandCount(w, c) = HandCount(cur, c) - One(cur[t] = c) + One(None = c)
  <2>1. /\ DOMAIN cur = Threads /\ DOMAIN w = Threads /\ w[t] = None
        /\ \A i \in Threads : i # t => w[i] = cur[i]
    BY <1>2 DEF DteTypeOK
  <2> QED BY <2>1, HandUpdate
<1>4. RingCount(e, c) = RingCount(desc, c) - One(desc[k].tcb = c) + One(x = c)
  <2>1. /\ DOMAIN desc = Slot /\ DOMAIN e = Slot /\ e[k].tcb = x
        /\ \A i \in Slot : i # k => e[i].tcb = desc[i].tcb
    BY <1>2 DEF DteTypeOK, Slot
  <2> QED BY <2>1, RingUpdate
<1>5. /\ One(cur[t] = c) = One(x = c) /\ One(None = c) = 0 /\ One(desc[k].tcb = c) = 0
      /\ One(x = c) \in Nat
  BY DteAssumption DEF One, Tcbs, Unused
<1> QED BY <1>1, <1>2, <1>3, <1>4, <1>5, PlacesSum, CountTypes

\* It takes it off the ring.
LEMMA RingToHand ==
    ASSUME DteTypeOK, NEW t \in Threads, NEW k \in Slot, NEW x \in Tcbs, cur[t] = None,
           desc[k].tcb = x, desc' = [desc EXCEPT ![k] = Unused],
           cur' = [cur EXCEPT ![t] = x], UNCHANGED <<cmd_list, to_retry>>
    PROVE  \A c \in Tcbs : Places(c)' = Places(c)
<1> SUFFICES ASSUME NEW c \in Tcbs PROVE Places(c)' = Places(c)
  OBVIOUS
<1>1. Places(c)' = RingCount(desc', c) + Held(cmd_list', c) + HandCount(cur', c)
                   + One(c \in to_retry')
  BY Zenon DEF Places, RingCount, Held, HandCount, One
<1>2. PICK w, e : w = cur' /\ e = desc'
  OBVIOUS
<1>3. HandCount(w, c) = HandCount(cur, c) - One(cur[t] = c) + One(x = c)
  <2>1. /\ DOMAIN cur = Threads /\ DOMAIN w = Threads /\ w[t] = x
        /\ \A i \in Threads : i # t => w[i] = cur[i]
    BY <1>2 DEF DteTypeOK
  <2> QED BY <2>1, HandUpdate
<1>4. RingCount(e, c) = RingCount(desc, c) - One(desc[k].tcb = c) + One(None = c)
  <2>1. /\ DOMAIN desc = Slot /\ DOMAIN e = Slot /\ e[k].tcb = None
        /\ \A i \in Slot : i # k => e[i].tcb = desc[i].tcb
    BY <1>2 DEF DteTypeOK, Slot, Unused
  <2> QED BY <2>1, RingUpdate
<1>5. /\ One(cur[t] = c) = 0 /\ One(None = c) = 0 /\ One(desc[k].tcb = c) = One(x = c)
      /\ One(x = c) \in Nat
  BY DteAssumption DEF One, Tcbs
<1> QED BY <1>1, <1>2, <1>3, <1>4, <1>5, PlacesSum, CountTypes

\* It puts it onto cmd_list, or takes it off.
LEMMA HandToList ==
    ASSUME DteTypeOK, NEW t \in Threads, NEW x \in Tcbs, cur[t] = x,
           cmd_list' = Append(cmd_list, x),
           cur' = [cur EXCEPT ![t] = None], UNCHANGED <<desc, to_retry>>
    PROVE  \A c \in Tcbs : Places(c)' = Places(c)
<1> SUFFICES ASSUME NEW c \in Tcbs PROVE Places(c)' = Places(c)
  OBVIOUS
<1>1. Places(c)' = RingCount(desc', c) + Held(cmd_list', c) + HandCount(cur', c)
                   + One(c \in to_retry')
  BY Zenon DEF Places, RingCount, Held, HandCount, One
<1>2. PICK w : w = cur'
  OBVIOUS
<1>3. HandCount(w, c) = HandCount(cur, c) - One(cur[t] = c) + One(None = c)
  <2>1. /\ DOMAIN cur = Threads /\ DOMAIN w = Threads /\ w[t] = None
        /\ \A i \in Threads : i # t => w[i] = cur[i]
    BY <1>2 DEF DteTypeOK
  <2> QED BY <2>1, HandUpdate
<1>4. Held(Append(cmd_list, x), c) = Held(cmd_list, c) + One(x = c)
  BY HeldAppend DEF DteTypeOK
<1>5. /\ One(cur[t] = c) = One(x = c) /\ One(None = c) = 0
      /\ One(x = c) \in Nat
  BY DteAssumption DEF One, Tcbs
<1> QED BY <1>1, <1>2, <1>3, <1>4, <1>5, PlacesSum, CountTypes

LEMMA ListToHand ==
    ASSUME DteTypeOK, NEW t \in Threads, cur[t] = None, cmd_list # <<>>,
           cmd_list' = Tail(cmd_list),
           cur' = [cur EXCEPT ![t] = Head(cmd_list)], UNCHANGED <<desc, to_retry>>
    PROVE  \A c \in Tcbs : Places(c)' = Places(c)
<1> SUFFICES ASSUME NEW c \in Tcbs PROVE Places(c)' = Places(c)
  OBVIOUS
<1>1. Places(c)' = RingCount(desc', c) + Held(cmd_list', c) + HandCount(cur', c)
                   + One(c \in to_retry')
  BY Zenon DEF Places, RingCount, Held, HandCount, One
<1>2. PICK w, x : w = cur' /\ x = Head(cmd_list)
  OBVIOUS
<1>3. HandCount(w, c) = HandCount(cur, c) - One(cur[t] = c) + One(x = c)
  <2>1. /\ DOMAIN cur = Threads /\ DOMAIN w = Threads /\ w[t] = x
        /\ \A i \in Threads : i # t => w[i] = cur[i]
    BY <1>2 DEF DteTypeOK
  <2> QED BY <2>1, HandUpdate
<1>4. Held(Tail(cmd_list), c) = Held(cmd_list, c) - One(x = c)
  BY <1>2, HeldTail DEF DteTypeOK
<1>5. One(cur[t] = c) = 0 /\ One(x = c) \in Nat
  BY DteAssumption DEF One, Tcbs
<1> QED BY <1>1, <1>2, <1>3, <1>4, <1>5, PlacesSum, CountTypes

\* The watchdog puts it onto its list of retries, or takes it off.
LEMMA RetryTakes ==
    ASSUME DteTypeOK, Command \notin to_retry, to_retry' = {Command},
           UNCHANGED <<desc, cmd_list, cur>>
    PROVE  \A c \in Tcbs : Places(c)' = Places(c) + One(c = Command)
<1> SUFFICES ASSUME NEW c \in Tcbs PROVE Places(c)' = Places(c) + One(c = Command)
  OBVIOUS
<1>1. Places(c)' = RingCount(desc', c) + Held(cmd_list', c) + HandCount(cur', c)
                   + One(c \in to_retry')
  BY Zenon DEF Places, RingCount, Held, HandCount, One
<1>2. One(c \in to_retry') = One(c \in to_retry) + One(c = Command)
  BY DEF One, DteTypeOK
<1>3. One(c = Command) \in Nat
  BY DEF One
<1> QED BY <1>1, <1>2, <1>3, PlacesSum, CountTypes

LEMMA RetryToHand ==
    ASSUME DteTypeOK, NEW t \in Threads, cur[t] = None, to_retry = {Command}, to_retry' = {},
           cur' = [cur EXCEPT ![t] = Command], UNCHANGED <<desc, cmd_list>>
    PROVE  \A c \in Tcbs : Places(c)' = Places(c)
<1> SUFFICES ASSUME NEW c \in Tcbs PROVE Places(c)' = Places(c)
  OBVIOUS
<1>1. Places(c)' = RingCount(desc', c) + Held(cmd_list', c) + HandCount(cur', c)
                   + One(c \in to_retry')
  BY Zenon DEF Places, RingCount, Held, HandCount, One
<1>2. PICK w : w = cur'
  OBVIOUS
<1>3. HandCount(w, c) = HandCount(cur, c) - One(cur[t] = c) + One(Command = c)
  <2>1. /\ DOMAIN cur = Threads /\ DOMAIN w = Threads /\ w[t] = Command
        /\ \A i \in Threads : i # t => w[i] = cur[i]
    BY <1>2 DEF DteTypeOK
  <2> QED BY <2>1, HandUpdate
<1>4. /\ One(cur[t] = c) = 0 /\ One(c \in to_retry) = One(Command = c)
      /\ One(c \in to_retry') = 0 /\ One(Command = c) \in Nat
  BY DteAssumption DEF One, Tcbs
<1> QED BY <1>1, <1>2, <1>3, <1>4, PlacesSum, CountTypes

\* What changes the owner of a descriptor moves nothing.
LEMMA RingKeeps ==
    ASSUME DteTypeOK, DOMAIN desc' = DOMAIN desc,
           \A i \in Slot : desc'[i].tcb = desc[i].tcb, UNCHANGED <<cmd_list, cur, to_retry>>
    PROVE  \A c : Places(c)' = Places(c)
<1> SUFFICES ASSUME NEW c PROVE Places(c)' = Places(c)
  OBVIOUS
<1>1. {i \in DOMAIN desc' : desc'[i].tcb = c} = {i \in DOMAIN desc : desc[i].tcb = c}
  BY DEF DteTypeOK, Slot
<1> QED BY <1>1, Zenon DEF Places

-----------------------------------------------------------------------------
(* What a step leaves alone.                                               *)

LEMMA KeptHolds ==
    ASSUME PendingInv, OverInv, UNCHANGED <<op, allocated, waiting>>, Active' = Active,
           cmd'.wait = cmd.wait, cmd'.complete = cmd.complete,
           cmd'.timedout = cmd.timedout, cmd'.response = cmd.response,
           cmd'.done = cmd.done, Places(Command)' = Places(Command),
           Unenlisted => Unenlisted'
    PROVE  PendingInv' /\ OverInv'
BY DEF PendingInv, OverInv, Pending

LEMMA FramesKept ==
    ASSUME FrameInv, UNCHANGED <<frames, fresh>>, \A c \in Tcbs : Places(c)' = Places(c)
    PROVE  FrameInv'
BY DEF FrameInv, Tcbs

LEMMA OrderKept ==
    ASSUME OrderInv, UNCHANGED <<rx_list, local, last_rx_seq, used, inbox, op>>
    PROVE  OrderInv'
BY DEF OrderInv

\* Nobody goes to the waiting list or comes from it.
LEMMA SameLists ==
    ASSUME UNCHANGED <<cmd_list, to_retry>>,
           \A t \in Threads : pc[t] = "enlist" => pc'[t] = "enlist"
    PROVE  Unenlisted => Unenlisted'
BY DEF Unenlisted

LEMMA CommandIsTcb == Command \in Tcbs /\ Command # None /\ Frames \subseteq Tcbs
BY DteAssumption DEF Tcbs

\* What is somewhere has a sender who waits for it.
LEMMA PlaceIsPending ==
    ASSUME PendingInv, OverInv, Places(Command) \in Nat, Places(Command) >= 1
    PROVE  Pending /\ ~cmd.complete /\ Places(Command) = 1
BY DEF PendingInv, OverInv, One

LEMMA HeldIsPending ==
    ASSUME IInv, NEW t \in Threads, cur[t] = Command
    PROVE  Pending /\ ~cmd.complete /\ Places(Command) = 1
<1>1. Places(Command) \in Nat /\ Places(Command) >= 1
  BY SeenPlaces DEF IInv, TypeInv
<1> QED BY <1>1, PlaceIsPending DEF IInv

\* A frame that a thread has hold of is allocated.
LEMMA HeldFrame ==
    ASSUME IInv, NEW t \in Threads, cur[t] \in Frames
    PROVE  cur[t] \in frames
<1> PICK f \in Frames : f = cur[t]
  OBVIOUS
<1>1. Places(f) \in Nat /\ Places(f) >= 1
  BY SeenPlaces DEF IInv, TypeInv
<1>2. Places(f) = One(f \in frames)
  BY DEF IInv, FrameInv
<1> QED BY <1>1, <1>2 DEF One

\* A free thread has hold of nothing.
LEMMA FreeHand ==
    ASSUME IInv, NEW t \in Threads, pc[t] \notin Busy
    PROVE  cur[t] = None
BY DEF IInv, TypeInv, ThreadInv

-----------------------------------------------------------------------------
(* How a thread goes on.                                                   *)

LEMMA Moves ==
    ASSUME ThreadInv, DteTypeOK, NEW t \in Threads, NEW l \in Labels, Go(t, l),
           UNCHANGED <<cur, ret>>, l \in Busy <=> pc[t] \in Busy, l # "enlist",
           l \in {"submit", "requeue"} \/ ret[t] = "idle",
           t = "user" => l \in {"idle", "submit", "requeue"},
           l = "resend" => to_retry' = {Command}, t = "dog" \/ UNCHANGED to_retry
    PROVE  ThreadInv'
<1> USE DEF Go, Threads, DteTypeOK, ThreadInv, Labels, Busy, Backs
<1>1. pc' \in [Threads -> Labels] /\ pc'[t] = l
  OBVIOUS
<1>2. \A u \in Threads : u # t => pc'[u] = pc[u]
  OBVIOUS
<1> QED BY <1>1, <1>2

LEMMA Takes ==
    ASSUME ThreadInv, DteTypeOK, NEW t \in Threads, NEW c \in Tcbs, NEW back \in Backs,
           Transmit(t, c, back), pc[t] \notin Busy, t = "user" => back = "sleep",
           t = "dog" \/ UNCHANGED to_retry
    PROVE  ThreadInv'
<1> USE DEF Transmit, Threads, DteTypeOK, ThreadInv, Labels, Busy, Backs
<1>1. /\ pc' \in [Threads -> Labels] /\ pc'[t] = IF c = Command THEN "enlist" ELSE "submit"
      /\ ret' \in [Threads -> Backs] /\ ret'[t] = back /\ cur'[t] = c
  OBVIOUS
<1>2. \A u \in Threads : u # t => pc'[u] = pc[u] /\ ret'[u] = ret[u] /\ cur'[u] = cur[u]
  OBVIOUS
<1>3. c # None
  BY DteAssumption DEF Tcbs
<1> QED BY <1>1, <1>2, <1>3

LEMMA LetsGo ==
    ASSUME ThreadInv, DteTypeOK, NEW t \in Threads, Transmitted(t),
           pc[t] \in {"submit", "requeue"}, UNCHANGED to_retry
    PROVE  ThreadInv'
<1> USE DEF Transmitted, Threads, DteTypeOK, ThreadInv, Labels, Busy, Backs
<1>1. /\ pc' \in [Threads -> Labels] /\ ret' \in [Threads -> Backs]
      /\ pc'[t] = ret[t] /\ ret'[t] = "idle" /\ cur'[t] = None
  OBVIOUS
<1>2. \A u \in Threads : u # t => pc'[u] = pc[u] /\ ret'[u] = ret[u] /\ cur'[u] = cur[u]
  OBVIOUS
<1> QED BY <1>1, <1>2

\* Receiving is interrupted only by the sending of an acknowledgement.
LEMMA AnswersKept ==
    ASSUME AnswersTyped, UNCHANGED <<local, rx_list, used>>,
           pc'["work"] = "match" \/ ret'["work"] = "match" =>
               \/ pc["work"] = "match" \/ ret["work"] = "match" \/ local # <<>>
    PROVE  AnswersTyped'
BY DEF AnswersTyped

LEMMA NextSlot == \A k \in Slot : (k + 1) % Slots \in Slot
BY DteAssumption DEF Slot

-----------------------------------------------------------------------------
(* Sending.                                                                *)

LEMMA EnlistHolds ==
    ASSUME IInv, NEW t \in Threads, Enlist(t)
    PROVE  IInv'
<1> USE DEF Enlist, Go, ring, lists, rx, timers
<1>1. DteTypeOK'
  BY CommandIsTcb DEF IInv, TypeInv, DteTypeOK
<1>2. AnswersTyped'
  BY DEF IInv, TypeInv, AnswersTyped, ThreadInv, Threads
<1>3. ThreadInv'
  BY DEF IInv, TypeInv, ThreadInv, Labels, Busy
<1>4. \A c \in Tcbs : Places(c)' = Places(c)
  BY NothingMoves
<1>5. FrameInv'
  BY <1>4, FramesKept DEF IInv
<1>6. cur[t] = Command
  BY DEF IInv, TypeInv, ThreadInv
<1>7. Pending /\ ~cmd.complete /\ Places(Command) = 1
  BY <1>6, HeldIsPending
<1>8. PendingInv' /\ OverInv'
  <2>1. Places(Command)' = Places(Command)
    BY <1>4, CommandIsTcb
  <2>2. Active' = Active
    BY DEF Active, IInv, TypeInv, ThreadInv
  <2>3. /\ cmd'.wait = cmd.wait /\ cmd'.complete = cmd.complete
        /\ cmd'.timedout = cmd.timedout /\ cmd'.response = cmd.response
        /\ cmd'.done = cmd.done
    BY DEF IInv, TypeInv, DteTypeOK
  <2>4. cmd.wait => Command \in waiting'
    OBVIOUS
  <2>5. ~cmd.wait => waiting' = waiting
    OBVIOUS
  <2> QED BY <1>7, <2>1, <2>2, <2>3, <2>4, <2>5 DEF IInv, PendingInv, OverInv, Pending
<1>9. OrderInv'
  BY OrderKept DEF IInv
<1> QED BY <1>1, <1>2, <1>3, <1>5, <1>8, <1>9 DEF IInv, TypeInv

LEMMA SubmitHolds ==
    ASSUME IInv, NEW t \in Threads, Submit(t)
    PROVE  IInv'
<1> USE DEF Submit, Go, Transmitted, lists, rx, timers
<1>1. PICK x \in Tcbs : x = cur[t]
  BY DEF IInv, TypeInv, ThreadInv, DteTypeOK, Busy
<1>2. tail \in Slot
  BY DEF IInv, TypeInv, DteTypeOK, Slot
<1>3. DteTypeOK'
  <2> USE DEF IInv, TypeInv, DteTypeOK, Slot
  <2>1. tail' \in 0 .. Slots - 1
    BY <1>2, NextSlot
  <2>2. desc' \in [0 .. Slots - 1 -> [tcb : Tcbs \cup {None}, owned : BOOLEAN]]
    <3>1. [tcb |-> x, owned |-> TRUE] \in [tcb : Tcbs \cup {None}, owned : BOOLEAN]
      OBVIOUS
    <3>2. CASE desc[tail] = Unused
      BY <1>1, <3>1, <3>2
    <3>3. CASE desc[tail] # Unused
      BY <3>3
    <3> QED BY <3>2, <3>3
  <2>3. cur' \in [Threads -> Tcbs \cup {None}]
    OBVIOUS
  <2> QED BY <2>1, <2>2, <2>3
<1>4. AnswersTyped'
  BY DEF IInv, TypeInv, AnswersTyped, ThreadInv, Threads
<1>5. ThreadInv'
  <2>1. CASE desc[tail] = Unused
    BY <2>1, LetsGo DEF IInv, TypeInv
  <2>2. CASE desc[tail] # Unused
    BY <2>2, Moves DEF IInv, TypeInv, Labels, Busy
  <2> QED BY <2>1, <2>2
<1>6. \A c \in Tcbs : Places(c)' = Places(c)
  <2>1. CASE desc[tail] = Unused
    BY <1>1, <1>2, <2>1, HandToRing DEF IInv, TypeInv
  <2>2. CASE desc[tail] # Unused
    BY <2>2, NothingMoves
  <2> QED BY <2>1, <2>2
<1>7. FrameInv'
  BY <1>6, FramesKept DEF IInv
<1>8. PendingInv' /\ OverInv'
  <2>1. Places(Command)' = Places(Command)
    BY <1>6, CommandIsTcb
  <2>2. Active' = Active
    BY DEF Active, IInv, TypeInv, ThreadInv, Busy, Threads
  <2>3. Unenlisted => Unenlisted'
    BY SameLists DEF IInv, TypeInv, ThreadInv
  <2> QED BY <2>1, <2>2, <2>3, KeptHolds DEF IInv
<1>9. OrderInv'
  BY OrderKept DEF IInv
<1> QED BY <1>3, <1>4, <1>5, <1>7, <1>8, <1>9 DEF IInv, TypeInv

LEMMA RequeueHolds ==
    ASSUME IInv, NEW t \in Threads, Requeue(t)
    PROVE  IInv'
<1> USE DEF Requeue, Go, Transmitted, ring, rx, timers
<1>1. PICK x \in Tcbs : x = cur[t]
  BY DEF IInv, TypeInv, ThreadInv, DteTypeOK, Busy
<1>2. cmd_list \in Seq(Tcbs) /\ cmd_list' = Append(cmd_list, x)
  BY <1>1 DEF IInv, TypeInv, DteTypeOK
<1>3. DteTypeOK'
  BY <1>1, <1>2, AppendProperties DEF IInv, TypeInv, DteTypeOK
<1>4. AnswersTyped'
  BY DEF IInv, TypeInv, AnswersTyped, ThreadInv, Threads
<1>5. ThreadInv'
  BY LetsGo DEF IInv, TypeInv
<1>6. \A c \in Tcbs : Places(c)' = Places(c)
  BY <1>1, HandToList DEF IInv, TypeInv
<1>7. FrameInv'
  BY <1>6, FramesKept DEF IInv
<1>8. PendingInv' /\ OverInv'
  <2>1. Places(Command)' = Places(Command)
    BY <1>6, CommandIsTcb
  <2>2. Active' = Active
    BY DEF Active, IInv, TypeInv, ThreadInv, Busy, Threads
  <2>3. /\ \A i \in DOMAIN cmd_list : i \in DOMAIN cmd_list' /\ cmd_list'[i] = cmd_list[i]
        /\ \E i \in DOMAIN cmd_list' : cmd_list'[i] = x
    BY <1>2, AppendProperties
  <2>4. CASE x = Command
    <3>1. Pending /\ ~cmd.complete /\ Places(Command) = 1
      BY <1>1, <2>4, HeldIsPending
    <3>2. Unenlisted'
      BY <2>3, <2>4 DEF Unenlisted
    <3>3. Command \notin waiting'
      BY <1>1, <2>4
    <3> QED BY <2>1, <2>2, <3>1, <3>2, <3>3 DEF IInv, PendingInv, OverInv, Pending
  <2>5. CASE x # Command
    <3>1. waiting' = waiting
      BY <1>1, <2>5 DEF IInv, TypeInv, DteTypeOK
    <3>2. Unenlisted => Unenlisted'
      BY <2>3 DEF Unenlisted, IInv, TypeInv, ThreadInv
    <3> QED BY <2>1, <2>2, <3>1, <3>2, KeptHolds DEF IInv
  <2> QED BY <2>4, <2>5
<1>9. OrderInv'
  BY OrderKept DEF IInv
<1> QED BY <1>3, <1>4, <1>5, <1>7, <1>8, <1>9 DEF IInv, TypeInv

CmdType == [wait : BOOLEAN, complete : BOOLEAN, timedout : BOOLEAN,
            response : 0..MaxOps, retries : Nat, done : 0..1, late : BOOLEAN]

LEMMA CmdTypes ==
    /\ NewCmd \in CmdType
    /\ \A r \in Nat : [NewCmd EXCEPT !.retries = r] \in CmdType
    /\ \A r \in Nat, d \in 0 .. 1 : [NewCmd EXCEPT !.retries = r, !.done = d] \in CmdType
    /\ DteTypeOK => cmd \in CmdType
<1>1. 0 \in 0 .. MaxOps
  BY DteAssumption DEF MaxOps
<1>2. NewCmd \in CmdType
  BY <1>1 DEF NewCmd, CmdType
<1>3. ASSUME NEW r \in Nat PROVE [NewCmd EXCEPT !.retries = r] \in CmdType
  BY <1>2 DEF CmdType
<1>4. ASSUME NEW r \in Nat, NEW d \in 0 .. 1
      PROVE  [NewCmd EXCEPT !.retries = r, !.done = d] \in CmdType
  BY <1>2 DEF CmdType
<1>5. DteTypeOK => cmd \in CmdType
  BY DEF CmdType, DteTypeOK
<1> QED BY <1>2, <1>3, <1>4, <1>5

\* A voice frame or an acknowledgement is allocated.
LEMMA FrameTaken ==
    ASSUME IInv, NEW t \in Threads, t # "user", NEW f \in fresh, NEW back \in Backs,
           pc[t] \notin Busy, Transmit(t, f, back),
           frames' = frames \cup {f}, fresh' = fresh \ {f},
           t = "work" /\ back = "match" => local # <<>>,
           UNCHANGED <<ring, lists, cmd, op, allocated, rx, inbox>>
    PROVE  IInv'
<1> USE DEF ring, lists, rx
<1>1. f \in Frames /\ f \in Tcbs /\ f # Command /\ f \notin frames
  BY DteAssumption DEF IInv, FrameInv, Tcbs
<1>2. DteTypeOK'
  BY <1>1 DEF IInv, TypeInv, DteTypeOK, Transmit
<1>3. ThreadInv'
  BY <1>1, Takes DEF IInv, TypeInv
<1>4. AnswersTyped'
  <2>1. pc'["work"] = "match" \/ ret'["work"] = "match" =>
               pc["work"] = "match" \/ ret["work"] = "match" \/ local # <<>>
    BY <1>1 DEF Transmit, IInv, TypeInv, ThreadInv, Threads
  <2> QED BY <2>1, AnswersKept DEF IInv, TypeInv
<1>5. \A c \in Tcbs : Places(c)' = Places(c) + One(c = f)
  <2>1. cur[t] = None
    BY FreeHand
  <2> QED BY <1>1, <2>1, HandTakes DEF IInv, TypeInv, Transmit
<1>6. FrameInv'
  <2>1. \A c \in Frames : Places(c)' = One(c \in frames')
    <3> SUFFICES ASSUME NEW c \in Frames PROVE Places(c)' = One(c \in frames')
      OBVIOUS
    <3>1. Places(c)' = Places(c) + One(c = f) /\ Places(c) = One(c \in frames)
      BY <1>5, CommandIsTcb DEF IInv, FrameInv
    <3> QED BY <1>1, <3>1 DEF One
  <2> QED BY <1>1, <2>1 DEF IInv, FrameInv
<1>7. PendingInv' /\ OverInv'
  <2>1. Places(Command)' = Places(Command)
    <3>1. One(Command = f) = 0 /\ Places(Command) \in Nat
      BY <1>1, SeenPlaces DEF One, IInv, TypeInv
    <3> QED BY <1>5, <3>1, CommandIsTcb
  <2>2. Active' = Active
    BY DEF Active, Transmit, IInv, TypeInv, ThreadInv, Threads
  <2>3. Unenlisted => Unenlisted'
    <3>1. \A u \in Threads : pc[u] = "enlist" => pc'[u] = "enlist"
      BY DEF Transmit, IInv, TypeInv, ThreadInv, Busy
    <3> QED BY <3>1, SameLists
  <2> QED BY <2>1, <2>2, <2>3, KeptHolds DEF IInv
<1>8. OrderInv'
  BY OrderKept DEF IInv
<1> QED BY <1>2, <1>3, <1>4, <1>6, <1>7, <1>8 DEF IInv, TypeInv

LEMMA WriteHolds ==
    ASSUME IInv, NEW f \in Frames, Write(f)
    PROVE  IInv'
BY FrameTaken DEF Write, Threads, Backs, Busy, ring, lists, rx

LEMMA SendCommandHolds ==
    ASSUME IInv, SendCommand
    PROVE  IInv'
<1> USE DEF SendCommand, ring, lists, rx
<1>1. "user" \in Threads /\ pc["user"] \notin Busy /\ "sleep" \in Backs
  BY DEF Threads, Busy, Backs
<1>2. /\ ~Active /\ ~Pending /\ cmd.done = 0
      /\ Places(Command) = 0 /\ Command \notin waiting
  BY DEF IInv, TypeInv, DteTypeOK, OverInv, Active, Pending
<1>3. /\ cmd'.wait /\ ~cmd'.complete /\ ~cmd'.timedout /\ cmd'.response = 0 /\ cmd'.done = 0
      /\ cmd' \in CmdType
  <2>1. cmd \in CmdType
    BY CmdTypes DEF IInv, TypeInv
  <2>2. cmd.retries \in Nat /\ cmd.done \in 0 .. 1
    BY <2>1 DEF CmdType
  <2>3. cmd' \in CmdType
    BY <2>2, CmdTypes
  <2> QED BY <1>2, <2>3 DEF NewCmd
<1>4. op' \in 0 .. MaxOps /\ op' = op + 1 /\ op \in 0 .. MaxOps
  BY DteAssumption DEF IInv, TypeInv, DteTypeOK, MaxOps
<1>5. DteTypeOK'
  BY <1>3, <1>4, CommandIsTcb DEF IInv, TypeInv, DteTypeOK, Transmit, CmdType
<1>6. ThreadInv'
  BY <1>1, CommandIsTcb, Takes DEF IInv, TypeInv
<1>7. AnswersTyped'
  BY AnswersKept DEF IInv, TypeInv, Transmit, Threads, ThreadInv
<1>8. \A c \in Tcbs : Places(c)' = Places(c) + One(c = Command)
  <2>1. cur["user"] = None
    BY <1>1, FreeHand
  <2> QED BY <1>1, <2>1, CommandIsTcb, HandTakes DEF IInv, TypeInv, Transmit
<1>9. FrameInv'
  <2>1. \A c \in Frames : Places(c)' = Places(c)
    <3> SUFFICES ASSUME NEW c \in Frames PROVE Places(c)' = Places(c)
      OBVIOUS
    <3>1. c \in Tcbs /\ One(c = Command) = 0
      BY DteAssumption DEF One, Tcbs
    <3>2. Places(c) \in Nat
      BY SeenPlaces DEF IInv, TypeInv
    <3> QED BY <1>8, <3>1, <3>2
  <2> QED BY <2>1 DEF IInv, FrameInv
<1>10. PendingInv' /\ OverInv'
  <2>1. Places(Command)' = 1
    <3>1. One(Command = Command) = 1
      BY DEF One
    <3> QED BY <1>2, <1>8, <3>1, CommandIsTcb
  <2>2. pc' = [pc EXCEPT !["user"] = "enlist"]
    BY DEF Transmit
  <2>3. Active' /\ Unenlisted'
    BY <1>1, <2>2 DEF Active, Unenlisted, IInv, TypeInv, ThreadInv
  <2>4. op' # 0
    BY <1>4
  <2> QED BY <1>2, <1>3, <2>1, <2>3, <2>4 DEF PendingInv, OverInv, Pending, One
<1>11. OrderInv'
  <2>1. \A n \in Int : n <= op => n <= op'
    BY <1>4
  <2>2. \A s \in Seq(Ops) : NoMore(s, op) => NoMore(s, op')
    <3> SUFFICES ASSUME NEW s \in Seq(Ops), NoMore(s, op), NEW i \in DOMAIN s
                 PROVE  s[i] <= op'
      BY DEF NoMore
    <3>1. s[i] \in Ops /\ s[i] <= op
      BY DEF NoMore
    <3>2. s[i] \in Int
      BY <3>1 DEF Ops
    <3> QED BY <2>1, <3>1, <3>2
  <2>3. inbox \in Seq(Ops) /\ local \in Seq(Ops) /\ rx_list \in Seq(Ops) /\ last_rx_seq \in Int
    BY DteAssumption DEF IInv, TypeInv, DteTypeOK, AnswersTyped, Ops, MaxOps
  <2> QED BY <2>1, <2>2, <2>3 DEF IInv, OrderInv
<1> QED BY <1>5, <1>6, <1>7, <1>9, <1>10, <1>11 DEF IInv, TypeInv

LEMMA ReturnHolds ==
    ASSUME IInv, Return
    PROVE  IInv'
<1> USE DEF Return, ring, lists, rx
<1>1. Active /\ ~Pending /\ cmd.done = 1
  BY DEF IInv, TypeInv, DteTypeOK, Active, Pending
<1>2. /\ Places(Command) = 0 /\ Command \notin waiting
      /\ cmd.response # 0 \/ cmd.timedout
  BY <1>1 DEF IInv, OverInv
<1>3. /\ cmd'.done = 0 /\ (allocated' => cmd'.response # 0)
      /\ cmd' \in CmdType
  <2>1. cmd \in CmdType
    BY CmdTypes DEF IInv, TypeInv
  <2>2. CASE cmd.timedout
    BY <2>2, CmdTypes DEF NewCmd
  <2>3. CASE ~cmd.timedout
    <3>1. cmd' = [cmd EXCEPT !.done = 0]
      BY <1>1, <2>3
    <3>2. allocated' => cmd'.response # 0
      BY <1>2, <2>1, <2>3, <3>1 DEF CmdType
    <3> QED BY <2>1, <3>1, <3>2 DEF CmdType
  <2> QED BY <2>2, <2>3
<1>4. DteTypeOK'
  BY <1>3 DEF IInv, TypeInv, DteTypeOK, CmdType
<1>5. ThreadInv'
  BY Moves DEF IInv, TypeInv, ThreadInv, Labels, Busy, Threads
<1>6. AnswersTyped'
  BY AnswersKept DEF IInv, TypeInv, Go, Threads, ThreadInv
<1>7. \A c \in Tcbs : Places(c)' = Places(c)
  BY NothingMoves DEF ring, lists
<1>8. FrameInv'
  BY <1>7, FramesKept DEF IInv
<1>9. PendingInv' /\ OverInv'
  <2>1. ~Active' /\ ~Pending'
    BY DEF Active, Pending, Go, IInv, TypeInv, ThreadInv, Threads
  <2> QED BY <1>2, <1>3, <1>7, <2>1, CommandIsTcb DEF PendingInv, OverInv
<1>10. OrderInv'
  BY OrderKept DEF IInv
<1> QED BY <1>4, <1>5, <1>6, <1>8, <1>9, <1>10 DEF IInv, TypeInv

LEMMA EndOperationHolds ==
    ASSUME IInv, EndOperation
    PROVE  IInv'
<1> USE DEF EndOperation, ring, lists, rx, threads
<1>1. ~Active /\ ~Active' /\ ~Pending /\ ~Pending'
  BY DEF Active, Pending
<1>2. DteTypeOK'
  <2>1. cmd' \in CmdType
    BY CmdTypes
  <2> QED BY <2>1 DEF IInv, TypeInv, DteTypeOK, CmdType
<1>3. ThreadInv'
  BY DEF IInv, TypeInv, ThreadInv
<1>4. AnswersTyped'
  BY AnswersKept DEF IInv, TypeInv
<1>5. \A c \in Tcbs : Places(c)' = Places(c)
  BY NothingMoves
<1>6. FrameInv'
  BY <1>5, FramesKept DEF IInv
<1>7. PendingInv' /\ OverInv'
  BY <1>1, <1>5, CommandIsTcb DEF IInv, PendingInv, OverInv, NewCmd
<1>8. OrderInv'
  BY OrderKept DEF IInv
<1> QED BY <1>2, <1>3, <1>4, <1>6, <1>7, <1>8 DEF IInv, TypeInv

-----------------------------------------------------------------------------
(* Serving the ring.                                                       *)

\* A thread goes from one place to the next and nothing else changes.
LEMMA QuietHolds ==
    ASSUME IInv, NEW t \in Threads, NEW l \in Labels, Go(t, l), pc[t] \notin Busy,
           l \notin Busy, l \notin {"match", "resend"}, t # "user",
           UNCHANGED <<desc, head, tail, hw, lists, cmd, op, allocated, frames, fresh, cur, ret,
                       rx_list, local, last_rx_seq, used, inbox>>,
           old' \in [Threads -> Slot]
    PROVE  IInv'
<1> USE DEF lists
<1>1. DteTypeOK'
  BY DEF IInv, TypeInv, DteTypeOK, Slot
<1>2. ThreadInv'
  BY Moves DEF IInv, TypeInv, ThreadInv, Busy
<1>3. AnswersTyped'
  <2>1. pc'["work"] = "match" => pc["work"] = "match"
    BY DEF Go, IInv, TypeInv, ThreadInv, Threads
  <2> QED BY <2>1, AnswersKept DEF IInv, TypeInv
<1>4. \A c \in Tcbs : Places(c)' = Places(c)
  BY NothingMoves
<1>5. FrameInv'
  BY <1>4, FramesKept DEF IInv
<1>6. PendingInv' /\ OverInv'
  <2>1. Places(Command)' = Places(Command)
    BY <1>4, CommandIsTcb
  <2>2. Active' = Active
    BY DEF Active, Go, IInv, TypeInv, ThreadInv, Threads
  <2>3. Unenlisted => Unenlisted'
    <3>1. \A u \in Threads : pc[u] = "enlist" => pc'[u] = "enlist"
      BY DEF Go, IInv, TypeInv, ThreadInv, Busy
    <3> QED BY <3>1, SameLists
  <2> QED BY <2>1, <2>2, <2>3, KeptHolds DEF IInv
<1>7. OrderInv'
  BY OrderKept DEF IInv
<1> QED BY <1>1, <1>2, <1>3, <1>5, <1>6, <1>7 DEF IInv, TypeInv

LEMMA OldTyped == IInv => old \in [Threads -> Slot]
BY DEF IInv, TypeInv, DteTypeOK, Slot

LEMMA ReadHeadHolds ==
    ASSUME IInv, NEW t \in Servers, ReadHead(t)
    PROVE  IInv'
<1>1. t \in Threads /\ t # "user"
  BY DEF Servers, Threads
<1>2. old' \in [Threads -> Slot]
  BY OldTyped DEF ReadHead, IInv, TypeInv, DteTypeOK, Slot
<1>3. Go(t, "retrieve") /\ pc[t] = "head"
  BY DEF ReadHead
<1>4. UNCHANGED <<desc, head, tail, hw, lists, cmd, op, allocated, frames, fresh, cur, ret,
                  rx_list, local, last_rx_seq, used, inbox>>
  BY DEF ReadHead, ring, rx
<1> QED BY <1>1, <1>2, <1>3, <1>4, QuietHolds DEF Labels, Busy

LEMMA RetrieveHolds ==
    ASSUME IInv, NEW t \in Servers, Retrieve(t)
    PROVE  IInv'
<1>1. t \in Threads /\ t # "user" /\ pc[t] = "retrieve" /\ pc[t] \notin Busy
  BY DEF Servers, Threads, Retrieve, Busy
<1>2. 0 \in Slot /\ old' \in [Threads -> Slot] /\ old[t] \in Slot
  BY <1>1, OldTyped, DteAssumption DEF Retrieve, Slot
<1>3. CASE desc[old[t]] # Unused /\ ~desc[old[t]].owned
  <2>1. PICK k \in Slot : k = old[t]
    BY <1>2
  <2>2. /\ desc' = [desc EXCEPT ![k] = Unused] /\ head' = (k + 1) % Slots
        /\ cur' = [cur EXCEPT ![t] = desc[k].tcb] /\ Go(t, "complete")
        /\ UNCHANGED <<tail, hw, cmd_list, waiting, to_retry, cmd, op, allocated, frames, fresh,
                       ret, rx_list, local, last_rx_seq, used, inbox>>
    BY <1>3, <2>1 DEF Retrieve, lists, rx
  <2>3. PICK x \in Tcbs : x = desc[k].tcb
    <3>1. PICK d \in [tcb : Tcbs \cup {None}, owned : BOOLEAN] : d = desc[k]
      BY DEF IInv, TypeInv, DteTypeOK, Slot
    <3>2. d # Unused /\ ~d.owned
      BY <1>3, <2>1, <3>1
    <3> QED BY <3>1, <3>2 DEF Unused
  <2>4. cur[t] = None
    BY <1>1, FreeHand
  <2>5. DteTypeOK'
    <3>1. Unused \in [tcb : Tcbs \cup {None}, owned : BOOLEAN]
      BY DEF Unused
    <3>2. desc' \in [Slot -> [tcb : Tcbs \cup {None}, owned : BOOLEAN]]
      BY <2>2, <3>1 DEF IInv, TypeInv, DteTypeOK, Slot
    <3>3. head' \in Slot
      BY <2>2, NextSlot
    <3>4. cur' \in [Threads -> Tcbs \cup {None}]
      BY <2>2, <2>3 DEF IInv, TypeInv, DteTypeOK
    <3> QED BY <1>2, <2>2, <3>2, <3>3, <3>4 DEF IInv, TypeInv, DteTypeOK, Slot
  <2>6. ThreadInv'
    <3>1. x # None
      BY DteAssumption DEF Tcbs
    <3>2. /\ pc' \in [Threads -> Labels] /\ pc'[t] = "complete" /\ cur'[t] = x
          /\ \A u \in Threads : u # t => pc'[u] = pc[u] /\ cur'[u] = cur[u]
      BY <1>1, <2>2, <2>3 DEF Go, IInv, TypeInv, DteTypeOK, ThreadInv, Labels
    <3> QED BY <1>1, <2>2, <3>1, <3>2 DEF IInv, TypeInv, ThreadInv, Busy, Threads
  <2>7. AnswersTyped'
    <3>1. pc'["work"] = "match" => pc["work"] = "match"
      BY <2>2 DEF Go, IInv, TypeInv, ThreadInv, Threads
    <3> QED BY <2>2, <3>1, AnswersKept DEF IInv, TypeInv
  <2>8. \A c \in Tcbs : Places(c)' = Places(c)
    BY <1>1, <2>2, <2>3, <2>4, RingToHand DEF IInv, TypeInv
  <2>9. FrameInv'
    BY <2>2, <2>8, FramesKept DEF IInv
  <2>10. PendingInv' /\ OverInv'
    <3>1. Places(Command)' = Places(Command)
      BY <2>8, CommandIsTcb
    <3>2. Active' = Active
      BY <1>1, <2>2 DEF Active, Go, IInv, TypeInv, ThreadInv, Threads
    <3>3. Unenlisted => Unenlisted'
      <4>1. \A u \in Threads : pc[u] = "enlist" => pc'[u] = "enlist"
        BY <1>1, <2>2 DEF Go, IInv, TypeInv, ThreadInv, Busy
      <4> QED BY <2>2, <4>1, SameLists
    <3> QED BY <2>2, <3>1, <3>2, <3>3, KeptHolds DEF IInv
  <2>11. OrderInv'
    BY <2>2, OrderKept DEF IInv
  <2> QED BY <2>5, <2>6, <2>7, <2>9, <2>10, <2>11 DEF IInv, TypeInv
<1>4. CASE ~(desc[old[t]] # Unused /\ ~desc[old[t]].owned)
  <2>1. /\ Go(t, AfterTx(t))
        /\ UNCHANGED <<desc, head, tail, hw, lists, cmd, op, allocated, frames, fresh, cur, ret,
                       rx_list, local, last_rx_seq, used, inbox>>
    BY <1>4 DEF Retrieve, rx
  <2>2. AfterTx(t) \in {"splice", "scan"}
    BY DEF AfterTx
  <2> QED BY <1>1, <1>2, <2>1, <2>2, QuietHolds DEF Labels, Busy
<1> QED BY <1>3, <1>4

LEMMA CompleteHolds ==
    ASSUME IInv, NEW t \in Servers, Complete(t)
    PROVE  IInv'
<1> USE DEF Complete, ring, lists, rx
<1>1. t \in Threads /\ t # "user" /\ pc[t] = "complete"
  BY DEF Servers, Threads
<1>2. PICK x \in Tcbs : x = cur[t]
  BY <1>1 DEF IInv, TypeInv, ThreadInv, DteTypeOK, Busy
<1>3. x = Command => Pending /\ ~cmd.complete /\ Places(Command) = 1
  BY <1>1, <1>2, HeldIsPending
<1>4. /\ x = Command => /\ cmd' = [cmd EXCEPT !.complete = TRUE,
                                              !.done = IF ~cmd.wait THEN cmd.done + 1 ELSE cmd.done]
                        /\ UNCHANGED frames
      /\ x # Command => frames' = frames \ {x} /\ UNCHANGED cmd
  BY <1>2 DEF EndsWhenSent
<1>5. cmd \in CmdType
  BY CmdTypes DEF IInv, TypeInv
<1>6. x = Command => /\ cmd' \in CmdType /\ cmd'.complete /\ cmd'.wait = cmd.wait
                     /\ cmd'.timedout = cmd.timedout /\ cmd'.response = cmd.response
                     /\ cmd'.done = IF cmd.wait THEN 0 ELSE 1
  <2> SUFFICES ASSUME x = Command
               PROVE  /\ cmd' \in CmdType /\ cmd'.complete /\ cmd'.wait = cmd.wait
                      /\ cmd'.timedout = cmd.timedout /\ cmd'.response = cmd.response
                      /\ cmd'.done = IF cmd.wait THEN 0 ELSE 1
    OBVIOUS
  <2>1. PICK c \in CmdType : c = cmd
    BY <1>5
  <2>2. c.done = 0
    BY <1>3, <2>1 DEF Pending
  <2>3. PICK n \in 0 .. 1 : n = IF ~c.wait THEN c.done + 1 ELSE c.done
    BY <2>2
  <2>4. cmd' = [c EXCEPT !.complete = TRUE, !.done = n]
    BY <1>4, <2>1, <2>3
  <2>5. n = IF c.wait THEN 0 ELSE 1
    BY <2>2, <2>3
  <2> QED BY <2>1, <2>4, <2>5 DEF CmdType
<1>7. DteTypeOK'
  <2>1. cmd' \in CmdType
    BY <1>4, <1>5, <1>6
  <2>2. frames' \subseteq Frames
    BY <1>4 DEF IInv, TypeInv, DteTypeOK
  <2>3. cur' \in [Threads -> Tcbs \cup {None}]
    BY DEF IInv, TypeInv, DteTypeOK
  <2> QED BY <2>1, <2>2, <2>3 DEF IInv, TypeInv, DteTypeOK, CmdType
<1>8. ThreadInv'
  <2>1. /\ pc' \in [Threads -> Labels] /\ pc'[t] = "pull" /\ cur'[t] = None
        /\ \A u \in Threads : u # t => pc'[u] = pc[u] /\ cur'[u] = cur[u]
    BY <1>1 DEF Go, IInv, TypeInv, DteTypeOK, ThreadInv, Labels
  <2> QED BY <1>1, <2>1 DEF IInv, TypeInv, ThreadInv, Busy, Threads
<1>9. AnswersTyped'
  <2>1. pc'["work"] = "match" => pc["work"] = "match"
    BY DEF Go, IInv, TypeInv, ThreadInv, Threads
  <2> QED BY <2>1, AnswersKept DEF IInv, TypeInv
<1>10. \A c \in Tcbs : Places(c)' = Places(c) - One(c = x)
  BY <1>1, <1>2, HandDrops DEF IInv, TypeInv
<1>11. FrameInv'
  <2>1. \A c \in Frames : Places(c)' = One(c \in frames')
    <3> SUFFICES ASSUME NEW c \in Frames PROVE Places(c)' = One(c \in frames')
      OBVIOUS
    <3>1. Places(c)' = Places(c) - One(c = x) /\ Places(c) = One(c \in frames) /\ c # Command
      BY <1>10, CommandIsTcb, DteAssumption DEF IInv, FrameInv
    <3>2. c = x => c \in frames
      BY <1>1, <1>2, HeldFrame
    <3> QED BY <1>4, <3>1, <3>2 DEF One
  <2> QED BY <1>4, <2>1 DEF IInv, FrameInv
<1>12. Active' = Active
  BY <1>1 DEF Active, Go, IInv, TypeInv, ThreadInv, Threads
<1>13. ASSUME x = Command PROVE PendingInv' /\ OverInv'
  <2>1. Places(Command)' = 0
    <3>1. One(Command = x) = 1
      BY <1>13 DEF One
    <3> QED BY <1>3, <1>10, <1>13, <3>1, CommandIsTcb
  <2>2. cmd.wait => Command \in waiting
    <3> SUFFICES ASSUME cmd.wait, Command \notin waiting, Unenlisted PROVE FALSE
      BY <1>3, <1>13 DEF IInv, PendingInv
    <3>1. Places(Command) < 2 /\ cur[t] = Command
      BY <1>2, <1>3, <1>13
    <3>2. ASSUME NEW i \in DOMAIN cmd_list, cmd_list[i] = Command PROVE FALSE
      <4>1. Held(cmd_list, Command) >= 1
        BY <3>2, SeenPlaces DEF IInv, TypeInv
      <4>2. Places(Command) >= 2
        BY <1>1, <3>1, <4>1, SeenPlaces DEF IInv, TypeInv
      <4> QED BY <1>3, <1>13, <4>2
    <3>3. ASSUME Command \in to_retry PROVE FALSE
      <4>1. Places(Command) >= 2
        BY <1>1, <3>1, <3>3, SeenPlaces DEF IInv, TypeInv
      <4> QED BY <1>3, <1>13, <4>1
    <3>4. ASSUME NEW u \in Threads, pc[u] = "enlist" PROVE FALSE
      <4>1. cur[u] = Command /\ u # t
        BY <1>1, <3>4 DEF IInv, TypeInv, ThreadInv
      <4>2. Places(Command) >= 2
        BY <1>1, <3>1, <4>1, SeenPlaces DEF IInv, TypeInv
      <4> QED BY <1>3, <1>13, <4>2
    <3> QED BY <3>2, <3>3, <3>4 DEF Unenlisted
  <2>3. ASSUME cmd.wait PROVE PendingInv' /\ OverInv'
    <3>1. Pending'
      BY <1>3, <1>6, <1>12, <1>13, <2>3 DEF Pending
    <3>2. PendingInv'
      BY <1>3, <1>6, <1>13, <2>1, <2>2, <2>3 DEF IInv, PendingInv, One
    <3>3. OverInv'
      BY <1>3, <1>6, <1>12, <1>13, <2>3, <3>1 DEF IInv, OverInv, Pending
    <3> QED BY <3>2, <3>3
  <2>4. ASSUME ~cmd.wait PROVE PendingInv' /\ OverInv'
    <3>1. ~Pending' /\ Active'
      BY <1>3, <1>6, <1>12, <1>13, <2>4 DEF Pending
    <3>2. cmd.response # 0 /\ Command \notin waiting
      BY <1>3, <1>13, <2>4 DEF IInv, PendingInv
    <3>3. OverInv'
      BY <1>6, <1>12, <1>13, <2>1, <3>1, <3>2 DEF IInv, OverInv
    <3> QED BY <3>1, <3>3 DEF PendingInv
  <2> QED BY <2>3, <2>4
<1>14. ASSUME x # Command PROVE PendingInv' /\ OverInv'
  <2>1. Places(Command)' = Places(Command)
    <3>1. One(Command = x) = 0 /\ Places(Command) \in Nat
      BY <1>14, SeenPlaces DEF One, IInv, TypeInv
    <3> QED BY <1>10, <3>1, CommandIsTcb
  <2>2. Unenlisted => Unenlisted'
    <3>1. \A u \in Threads : pc[u] = "enlist" => pc'[u] = "enlist"
      BY <1>1 DEF Go, IInv, TypeInv, ThreadInv
    <3> QED BY <3>1, SameLists
  <2> QED BY <1>4, <1>12, <1>14, <2>1, <2>2, KeptHolds DEF IInv
<1>15. OrderInv'
  BY OrderKept DEF IInv
<1> QED BY <1>7, <1>8, <1>9, <1>11, <1>13, <1>14, <1>15 DEF IInv, TypeInv

LEMMA PullQueuedHolds ==
    ASSUME IInv, NEW t \in Servers, PullQueued(t)
    PROVE  IInv'
<1>1. t \in Threads /\ t # "user" /\ pc[t] = "pull" /\ pc[t] \notin Busy
  BY DEF Servers, Threads, PullQueued, Busy
<1>2. CASE cmd_list = <<>>
  <2>1. /\ Go(t, "head") /\ UNCHANGED <<desc, head, tail, hw, lists, cmd, op, allocated,
                  frames, fresh, cur, ret, rx_list, local, last_rx_seq, used, inbox>>
        /\ old' = old
    BY <1>2 DEF PullQueued, ring, lists, rx
  <2> QED BY <1>1, <2>1, OldTyped, QuietHolds DEF Labels, Busy
<1>3. CASE cmd_list # <<>>
  <2>1. PICK x : x = Head(cmd_list)
    OBVIOUS
  <2>2. /\ Transmit(t, x, "head") /\ cmd_list' = Tail(cmd_list)
        /\ UNCHANGED <<desc, head, tail, hw, waiting, to_retry, cmd, op, allocated,
                       frames, fresh, old, rx_list, local, last_rx_seq, used, inbox>>
    BY <1>3, <2>1 DEF PullQueued, Transmit, ring, rx
  <2>3. /\ cmd_list \in Seq(Tcbs) /\ x \in Tcbs /\ cmd_list' \in Seq(Tcbs)
    BY <1>3, <2>1, <2>2, HeadTailProperties DEF IInv, TypeInv, DteTypeOK
  <2>4. DteTypeOK'
    BY <2>2, <2>3 DEF IInv, TypeInv, DteTypeOK, Transmit
  <2>5. ThreadInv'
    BY <1>1, <2>2, <2>3, Takes DEF IInv, TypeInv, Backs
  <2>6. AnswersTyped'
    <3>1. pc'["work"] = "match" \/ ret'["work"] = "match" =>
                pc["work"] = "match" \/ ret["work"] = "match"
      BY <1>1, <2>2 DEF Transmit, IInv, TypeInv, ThreadInv, Threads
    <3> QED BY <2>2, <3>1, AnswersKept DEF IInv, TypeInv
  <2>7. \A c \in Tcbs : Places(c)' = Places(c)
    <3>1. cur[t] = None
      BY <1>1, FreeHand
    <3>2. cur' = [cur EXCEPT ![t] = Head(cmd_list)]
      BY <2>1, <2>2 DEF Transmit
    <3> QED BY <1>1, <1>3, <2>2, <3>1, <3>2, ListToHand DEF IInv, TypeInv
  <2>8. FrameInv'
    BY <2>2, <2>7, FramesKept DEF IInv
  <2>9. PendingInv' /\ OverInv'
    <3>1. Places(Command)' = Places(Command)
      BY <2>7, CommandIsTcb
    <3>2. Active' = Active
      BY <1>1, <2>2 DEF Active, Transmit, IInv, TypeInv, ThreadInv, Threads
    <3>3. ASSUME NEW u \in Threads, pc[u] = "enlist" PROVE pc'[u] = "enlist"
      BY <1>1, <2>2, <3>3 DEF Transmit, IInv, TypeInv, ThreadInv
    <3>4. ASSUME NEW i \in DOMAIN cmd_list, cmd_list[i] = Command PROVE Unenlisted'
      <4>1. CASE i = 1
        <5>1. x = Command
          BY <1>3, <2>1, <2>3, <3>4, <4>1
        <5>2. pc'[t] = "enlist"
          BY <1>1, <2>2, <5>1 DEF Transmit, IInv, TypeInv, ThreadInv
        <5> QED BY <1>1, <5>2 DEF Unenlisted
      <4>2. CASE i # 1
        <5>1. i - 1 \in DOMAIN cmd_list' /\ cmd_list'[i - 1] = Command
          BY <1>3, <2>2, <2>3, <3>4, <4>2, HeadTailProperties
        <5> QED BY <5>1 DEF Unenlisted
      <4> QED BY <4>1, <4>2
    <3>5. Unenlisted => Unenlisted'
      BY <2>2, <3>3, <3>4 DEF Unenlisted
    <3> QED BY <2>2, <3>1, <3>2, <3>5, KeptHolds DEF IInv
  <2>10. OrderInv'
    BY <2>2, OrderKept DEF IInv
  <2> QED BY <2>4, <2>5, <2>6, <2>8, <2>9, <2>10 DEF IInv, TypeInv
<1> QED BY <1>2, <1>3

-----------------------------------------------------------------------------
(* The order of the answers.                                               *)

LEMMA OpsAreInt == Ops \subseteq Int
BY DEF Ops

LEMMA AppendAt ==
    ASSUME NEW s \in Seq(Ops), NEW n \in Ops, NEW i \in DOMAIN Append(s, n)
    PROVE  \/ i \in DOMAIN s /\ Append(s, n)[i] = s[i] /\ i <= Len(s)
           \/ i = Len(s) + 1 /\ Append(s, n)[i] = n
<1>1. /\ Len(s) \in Nat /\ DOMAIN s = 1 .. Len(s) /\ DOMAIN Append(s, n) = 1 .. Len(s) + 1
      /\ Append(s, n)[Len(s) + 1] = n /\ \A j \in 1 .. Len(s) : Append(s, n)[j] = s[j]
  BY AppendProperties
<1> QED BY <1>1

LEMMA TailAt ==
    ASSUME NEW s \in Seq(Ops), s # <<>>, NEW i \in DOMAIN Tail(s)
    PROVE  i + 1 \in DOMAIN s /\ Tail(s)[i] = s[i + 1] /\ i \in Nat
<1>1. /\ Len(s) \in Nat /\ DOMAIN s = 1 .. Len(s) /\ DOMAIN Tail(s) = 1 .. Len(s) - 1
      /\ \A j \in 1 .. Len(s) - 1 : Tail(s)[j] = s[j + 1]
  BY HeadTailProperties
<1> QED BY <1>1

LEMMA HeadAt ==
    ASSUME NEW s \in Seq(Ops), s # <<>>
    PROVE  1 \in DOMAIN s /\ Head(s) = s[1] /\ Head(s) \in Ops /\ Tail(s) \in Seq(Ops)
BY HeadTailProperties

LEMMA ItemTyped == \A s \in Seq(Ops) : \A i \in DOMAIN s : i \in Nat /\ s[i] \in Int /\ s[i] \in Ops
<1> SUFFICES ASSUME NEW s \in Seq(Ops), NEW i \in DOMAIN s PROVE i \in Nat /\ s[i] \in Ops
  BY OpsAreInt
<1> QED OBVIOUS

LEMMA AppendLess ==
    ASSUME NEW s \in Seq(Ops), NEW n \in Ops, NEW m, NoLess(s, m), m <= n
    PROVE  NoLess(Append(s, n), m)
BY AppendAt DEF NoLess

LEMMA AppendMore ==
    ASSUME NEW s \in Seq(Ops), NEW n \in Ops, NEW m, NoMore(s, m), n <= m
    PROVE  NoMore(Append(s, n), m)
BY AppendAt DEF NoMore

LEMMA AppendOlder ==
    ASSUME NEW s \in Seq(Ops), NEW t \in Seq(Ops), NEW n \in Ops, Older(s, t), NoLess(t, n)
    PROVE  Older(Append(s, n), t)
BY AppendAt DEF Older, NoLess

LEMMA AppendYounger ==
    ASSUME NEW s \in Seq(Ops), NEW t \in Seq(Ops), NEW n \in Ops, Older(s, t), NoMore(s, n)
    PROVE  Older(s, Append(t, n))
BY AppendAt DEF Older, NoMore

LEMMA AppendOrdered ==
    ASSUME NEW s \in Seq(Ops), NEW n \in Ops, Ordered(s), NoMore(s, n)
    PROVE  Ordered(Append(s, n))
<1> SUFFICES ASSUME NEW i \in DOMAIN Append(s, n), NEW j \in DOMAIN Append(s, n), i <= j
             PROVE  Append(s, n)[i] <= Append(s, n)[j]
  BY DEF Ordered
<1>1. \/ j \in DOMAIN s /\ Append(s, n)[j] = s[j] /\ j <= Len(s)
      \/ j = Len(s) + 1 /\ Append(s, n)[j] = n
  BY AppendAt
<1>2. \/ i \in DOMAIN s /\ Append(s, n)[i] = s[i] /\ i <= Len(s)
      \/ i = Len(s) + 1 /\ Append(s, n)[i] = n
  BY AppendAt
<1>3. Len(s) \in Nat /\ n \in Int
  BY OpsAreInt
<1> HIDE DEF Ops
<1>4. CASE j \in DOMAIN s /\ Append(s, n)[j] = s[j] /\ j <= Len(s)
  <2>1. j \in Nat
    BY <1>4, ItemTyped
  <2>2. i # Len(s) + 1
    BY <1>3, <1>4, <2>1
  <2> QED BY <1>2, <1>4, <2>2 DEF Ordered
<1>5. CASE j = Len(s) + 1 /\ Append(s, n)[j] = n
  BY <1>2, <1>3, <1>5 DEF NoMore
<1> QED BY <1>1, <1>4, <1>5

LEMMA TailLess ==
    ASSUME NEW s \in Seq(Ops), s # <<>>, NEW m, NoLess(s, m)
    PROVE  NoLess(Tail(s), m) /\ m <= Head(s)
BY TailAt, HeadAt DEF NoLess

LEMMA TailMore ==
    ASSUME NEW s \in Seq(Ops), s # <<>>, NEW m, NoMore(s, m)
    PROVE  NoMore(Tail(s), m) /\ Head(s) <= m
BY TailAt, HeadAt DEF NoMore

LEMMA TailOlder ==
    ASSUME NEW s \in Seq(Ops), s # <<>>, NEW t \in Seq(Ops), Older(s, t)
    PROVE  Older(Tail(s), t) /\ NoLess(t, Head(s))
BY TailAt, HeadAt DEF Older, NoLess

LEMMA TailYounger ==
    ASSUME NEW s \in Seq(Ops), NEW t \in Seq(Ops), t # <<>>, Older(s, t)
    PROVE  Older(s, Tail(t)) /\ NoMore(s, Head(t))
BY TailAt, HeadAt DEF Older, NoMore

LEMMA TailOrdered ==
    ASSUME NEW s \in Seq(Ops), s # <<>>, Ordered(s)
    PROVE  Ordered(Tail(s)) /\ NoLess(Tail(s), Head(s))
<1>1. ASSUME NEW i \in DOMAIN Tail(s), NEW j \in DOMAIN Tail(s), i <= j
      PROVE  Tail(s)[i] <= Tail(s)[j]
  <2>1. /\ i + 1 \in DOMAIN s /\ Tail(s)[i] = s[i + 1] /\ i \in Nat
        /\ j + 1 \in DOMAIN s /\ Tail(s)[j] = s[j + 1] /\ j \in Nat
    BY TailAt
  <2>2. i + 1 <= j + 1
    BY <1>1, <2>1
  <2> QED BY <2>1, <2>2 DEF Ordered
<1>2. ASSUME NEW i \in DOMAIN Tail(s) PROVE Head(s) <= Tail(s)[i]
  <2>1. i + 1 \in DOMAIN s /\ Tail(s)[i] = s[i + 1] /\ i \in Nat
    BY TailAt
  <2>2. 1 <= i + 1
    BY <2>1
  <2> QED BY <2>1, <2>2, HeadAt DEF Ordered
<1> QED BY <1>1, <1>2 DEF Ordered, NoLess

-----------------------------------------------------------------------------
(* Receiving.                                                              *)

LEMMA StartWorkHolds ==
    ASSUME IInv, StartWork
    PROVE  IInv'
<1>1. "work" \in Threads /\ pc["work"] = "idle"
  BY DEF StartWork, Threads
<1>2. old' \in [Threads -> Slot]
  BY OldTyped DEF StartWork
<1>3. /\ Go("work", "head")
      /\ UNCHANGED <<desc, head, tail, hw, lists, cmd, op, allocated, frames, fresh, cur, ret,
                     rx_list, local, last_rx_seq, used, inbox>>
  BY DEF StartWork, ring, rx
<1> QED BY <1>1, <1>2, <1>3, QuietHolds DEF Labels, Busy

\* Nothing but the lists of the answers changes.
LEMMA AnswerStep ==
    ASSUME IInv, NEW l \in Labels, Go("work", l), pc["work"] \notin Busy, l \notin Busy,
           l # "resend", UNCHANGED <<desc, head, tail, hw, lists, cmd, op, allocated, frames,
                                     fresh, cur, old, ret, inbox>>,
           AnswersTyped', OrderInv', last_rx_seq' \in {-1} \cup 1 .. MaxOps
    PROVE  IInv'
<1> USE DEF lists
<1>1. DteTypeOK'
  BY DEF IInv, TypeInv, DteTypeOK
<1>2. ThreadInv'
  BY Moves DEF IInv, TypeInv, ThreadInv, Busy, Threads
<1>3. \A c \in Tcbs : Places(c)' = Places(c)
  BY NothingMoves
<1>4. FrameInv'
  BY <1>3, FramesKept DEF IInv
<1>5. PendingInv' /\ OverInv'
  <2>1. Places(Command)' = Places(Command)
    BY <1>3, CommandIsTcb
  <2>2. Active' = Active
    BY DEF Active, Go, IInv, TypeInv, ThreadInv, Threads
  <2>3. Unenlisted => Unenlisted'
    <3>1. \A u \in Threads : pc[u] = "enlist" => pc'[u] = "enlist"
      BY DEF Go, IInv, TypeInv, ThreadInv, Busy
    <3> QED BY <3>1, SameLists
  <2> QED BY <2>1, <2>2, <2>3, KeptHolds DEF IInv
<1> QED BY <1>1, <1>2, <1>4, <1>5 DEF IInv, TypeInv

LEMMA SpliceHolds ==
    ASSUME IInv, Splice
    PROVE  IInv'
<1> USE DEF Splice
<1>1. AnswersTyped'
  <2>1. pc'["work"] # "match" /\ ret'["work"] # "match"
    BY DEF Go, IInv, TypeInv, ThreadInv, Threads
  <2>2. <<>> \in Seq(Ops)
    OBVIOUS
  <2> QED BY <2>1, <2>2 DEF IInv, TypeInv, AnswersTyped
<1>2. OrderInv'
  <2>1. DOMAIN rx_list' = {}
    OBVIOUS
  <2> QED BY <2>1 DEF IInv, OrderInv, Ordered, Older, NoLess, NoMore
<1>3. /\ Go("work", "receive") /\ last_rx_seq' = last_rx_seq
      /\ UNCHANGED <<desc, head, tail, hw, lists, cmd, op, allocated, frames,
                     fresh, cur, old, ret, inbox>>
  BY DEF ring
<1>4. last_rx_seq \in {-1} \cup 1 .. MaxOps
  BY DEF IInv, TypeInv, DteTypeOK
<1>5. pc["work"] = "splice"
  OBVIOUS
<1> HIDE DEF Splice
<1> QED BY <1>1, <1>2, <1>3, <1>4, <1>5, AnswerStep DEF Labels, Busy

LEMMA ReceiveHolds ==
    ASSUME IInv, Receive
    PROVE  IInv'
<1>1. "work" \in Threads /\ pc["work"] = "receive"
  BY DEF Receive, Threads
<1>2. /\ UNCHANGED <<ring, lists, cmd, op, allocated, rx, inbox>>
      /\ UNCHANGED <<desc, head, tail, hw, lists, cmd, op, allocated,
                     rx_list, local, last_rx_seq, used, inbox>>
  BY DEF Receive, ring, rx
<1>3. CASE Go("work", "idle") /\ UNCHANGED <<cur, old, ret, frames, fresh>>
  BY <1>1, <1>2, <1>3, OldTyped, QuietHolds DEF Labels, Busy
<1>4. CASE local # <<>> /\ Go("work", "match") /\ UNCHANGED <<cur, old, ret, frames, fresh>>
  <2>1. AnswersTyped'
    BY <1>2, <1>4 DEF IInv, TypeInv, AnswersTyped
  <2>2. OrderInv'
    BY <1>2, OrderKept DEF IInv
  <2>3. last_rx_seq' \in {-1} \cup 1 .. MaxOps
    BY <1>2 DEF IInv, TypeInv, DteTypeOK
  <2> QED BY <1>1, <1>2, <1>4, <2>1, <2>2, <2>3, AnswerStep DEF Labels, Busy
<1>5. ASSUME local # <<>>, NEW f \in fresh, frames' = frames \cup {f}, fresh' = fresh \ {f},
             Transmit("work", f, "match")
      PROVE  IInv'
  BY <1>1, <1>2, <1>5, FrameTaken DEF Backs, Busy
<1> QED BY <1>3, <1>4, <1>5 DEF Receive

\* What an answer does to the orders.
LEMMA MatchOrders ==
    ASSUME IInv, MatchResponse
    PROVE  /\ OrderInv' /\ AnswersTyped'
           /\ last_rx_seq' \in {-1} \cup 1 .. MaxOps /\ Head(local) \in Ops
<1>1. /\ local \in Seq(Ops) /\ rx_list \in Seq(Ops) /\ inbox \in Seq(Ops) /\ local # <<>>
  BY DEF MatchResponse, IInv, TypeInv, DteTypeOK, AnswersTyped, Ops
<1>2. PICK n \in Ops : n = Head(local)
  BY <1>1, HeadAt
<1>3. /\ local' = Tail(local) /\ UNCHANGED <<rx_list, inbox, op>>
      /\ last_rx_seq' = IF Function[n] \in Supervisor THEN n ELSE last_rx_seq
      /\ used' = used \/ used' = used \cup {n}
  BY <1>2 DEF MatchResponse
<1>4. n \in Int /\ last_rx_seq \in Int /\ op \in Int /\ last_rx_seq' \in Int
      /\ \A m \in used : m \in Int
  BY <1>2, <1>3, OpsAreInt DEF IInv, TypeInv, DteTypeOK, AnswersTyped
<1>5. AnswersTyped'
  <2>1. pc'["work"] # "match" /\ ret'["work"] # "match"
    BY DEF MatchResponse, Go, IInv, TypeInv, ThreadInv, Threads
  <2>2. local' \in Seq(Ops) /\ used' \subseteq Ops
    BY <1>1, <1>2, <1>3, HeadAt DEF IInv, TypeInv, AnswersTyped
  <2> QED BY <1>3, <2>1, <2>2 DEF IInv, TypeInv, AnswersTyped
<1>6. /\ Ordered(local) /\ Older(local, rx_list) /\ Older(local, inbox)
      /\ NoLess(local, last_rx_seq) /\ NoMore(local, op)
  BY DEF IInv, OrderInv
<1>7. Ordered(Tail(local)) /\ NoLess(Tail(local), n)
  BY <1>1, <1>2, <1>6, TailOrdered
<1>8. Older(Tail(local), rx_list) /\ NoLess(rx_list, n)
  BY <1>1, <1>2, <1>6, TailOlder
<1>9. Older(Tail(local), inbox) /\ NoLess(inbox, n)
  BY <1>1, <1>2, <1>6, TailOlder
<1>10. NoLess(Tail(local), last_rx_seq) /\ last_rx_seq <= n
  BY <1>1, <1>2, <1>6, TailLess
<1>11. NoMore(Tail(local), op) /\ n <= op
  BY <1>1, <1>2, <1>6, TailMore
<1>12. last_rx_seq' \in {-1} \cup 1 .. MaxOps
  BY <1>2, <1>3 DEF IInv, TypeInv, DteTypeOK, Ops
<1>13. \A m \in used' : Function[m] \in Supervisor => m <= last_rx_seq'
  <2> SUFFICES ASSUME NEW m \in used', Function[m] \in Supervisor PROVE m <= last_rx_seq'
    OBVIOUS
  <2>1. CASE m = n
    BY <1>3, <1>4, <2>1
  <2>2. CASE m # n
    <3>1. m \in used /\ m <= last_rx_seq /\ m \in Int
      BY <1>3, <1>4, <2>2 DEF IInv, OrderInv
    <3> QED BY <1>3, <1>4, <1>10, <3>1
  <2> QED BY <2>1, <2>2
<1>14. OrderInv'
  BY <1>3, <1>7, <1>8, <1>9, <1>10, <1>11, <1>13 DEF IInv, OrderInv
<1> QED BY <1>2, <1>5, <1>12, <1>14

LEMMA MatchResponseHolds ==
    ASSUME IInv, MatchResponse
    PROVE  IInv'
<1> PICK n : n = Head(local)
  OBVIOUS
<1>1. OrderInv' /\ AnswersTyped' /\ last_rx_seq' \in {-1} \cup 1 .. MaxOps /\ n \in Ops
  BY MatchOrders
<1>2. /\ Go("work", "receive") /\ pc["work"] = "match" /\ "work" \in Threads
      /\ UNCHANGED <<desc, head, tail, hw, cmd_list, to_retry, op, allocated, frames, fresh,
                     cur, old, ret, inbox>>
  BY DEF MatchResponse, ring, Threads
<1>3. CASE UNCHANGED <<waiting, cmd>>
  BY <1>1, <1>2, <1>3, AnswerStep DEF Labels, Busy, lists
<1>4. CASE /\ Command \in waiting /\ waiting' = waiting \ {Command}
           /\ cmd' = [cmd EXCEPT !.wait = FALSE, !.response = n,
                                 !.done = IF EndsWhenAnswered THEN cmd.done + 1 ELSE cmd.done]
  <2>1. Pending
    BY <1>4 DEF IInv, OverInv
  <2>2. /\ cmd.done = 0 /\ ~cmd.timedout /\ Active
        /\ Places(Command) = One(~cmd.complete)
    BY <2>1 DEF IInv, PendingInv, Pending
  <2>3. n # 0 /\ n \in 0 .. MaxOps
    BY <1>1 DEF Ops
  <2>4. /\ cmd' \in CmdType /\ ~cmd'.wait /\ cmd'.response = n /\ cmd'.complete = cmd.complete
        /\ ~cmd'.timedout /\ cmd'.done = IF cmd.complete THEN 1 ELSE 0
    <3>1. PICK c \in CmdType : c = cmd
      BY CmdTypes DEF IInv, TypeInv
    <3>2. PICK k \in 0 .. 1 : k = IF c.complete THEN c.done + 1 ELSE c.done
      BY <2>2, <3>1
    <3>3. cmd' = [c EXCEPT !.wait = FALSE, !.response = n, !.done = k]
      BY <1>4, <3>1, <3>2 DEF EndsWhenAnswered
    <3>4. k = IF c.complete THEN 1 ELSE 0
      BY <2>2, <3>1, <3>2
    <3> QED BY <2>2, <2>3, <3>1, <3>3, <3>4 DEF CmdType
  <2>5. DteTypeOK'
    BY <1>1, <1>2, <1>4, <2>4 DEF IInv, TypeInv, DteTypeOK, CmdType
  <2>6. ThreadInv'
    BY <1>2, Moves DEF IInv, TypeInv, ThreadInv, Busy, Labels
  <2>7. \A c \in Tcbs : Places(c)' = Places(c)
    BY <1>2, NothingMoves
  <2>8. FrameInv'
    BY <1>2, <2>7, FramesKept DEF IInv
  <2>9. Active' = Active /\ Places(Command)' = Places(Command) /\ Command \notin waiting'
    BY <1>2, <1>4, <2>7, CommandIsTcb DEF Active, Go, IInv, TypeInv, ThreadInv, Threads
  <2>10. op' # 0
    BY <1>2, <2>2 DEF IInv, OverInv
  <2>11. PendingInv' /\ OverInv'
    <3>1. ASSUME cmd.complete PROVE PendingInv' /\ OverInv'
      <4>1. ~Pending' /\ Places(Command)' = 0
        BY <2>2, <2>4, <2>9, <3>1 DEF Pending, One
      <4> QED BY <2>2, <2>3, <2>4, <2>9, <2>10, <4>1 DEF PendingInv, OverInv
    <3>2. ASSUME ~cmd.complete PROVE PendingInv' /\ OverInv'
      <4>1. Pending'
        BY <2>2, <2>4, <2>9, <3>2 DEF Pending
      <4>2. PendingInv'
        BY <2>2, <2>3, <2>4, <2>9, <3>2 DEF PendingInv, One
      <4>3. OverInv'
        BY <2>2, <2>4, <2>9, <2>10, <3>2, <4>1 DEF OverInv
      <4> QED BY <4>2, <4>3
    <3> QED BY <3>1, <3>2
  <2> QED BY <1>1, <2>5, <2>6, <2>8, <2>11 DEF IInv, TypeInv
<1> QED BY <1>3, <1>4 DEF MatchResponse

-----------------------------------------------------------------------------
(* The watchdog.                                                           *)

LEMMA FireWatchdogHolds ==
    ASSUME IInv, FireWatchdog
    PROVE  IInv'
<1>1. "dog" \in Threads /\ pc["dog"] = "idle"
  BY DEF FireWatchdog, Threads
<1>2. old' \in [Threads -> Slot]
  BY OldTyped DEF FireWatchdog
<1>3. /\ Go("dog", "head")
      /\ UNCHANGED <<desc, head, tail, hw, lists, cmd, op, allocated, frames, fresh, cur, ret,
                     rx_list, local, last_rx_seq, used, inbox>>
  BY DEF FireWatchdog, ring, rx
<1> QED BY <1>1, <1>2, <1>3, QuietHolds DEF Labels, Busy

\* A step of the watchdog that only counts.
LEMMA CountingHolds ==
    ASSUME IInv, Go("dog", "idle"), pc["dog"] = "scan", cmd' \in CmdType,
           cmd'.wait = cmd.wait, cmd'.complete = cmd.complete,
           cmd'.timedout = cmd.timedout, cmd'.response = cmd.response, cmd'.done = cmd.done,
           UNCHANGED <<desc, head, tail, hw, lists, op, allocated, frames, fresh, cur, old, ret,
                       rx_list, local, last_rx_seq, used, inbox>>
    PROVE  IInv'
<1> USE DEF lists
<1>1. DteTypeOK'
  BY DEF IInv, TypeInv, DteTypeOK, CmdType
<1>2. ThreadInv'
  BY Moves DEF IInv, TypeInv, ThreadInv, Busy, Labels, Threads
<1>3. AnswersTyped'
  <2>1. pc'["work"] = pc["work"]
    BY DEF Go, IInv, TypeInv, ThreadInv, Threads
  <2> QED BY <2>1, AnswersKept DEF IInv, TypeInv
<1>4. \A c \in Tcbs : Places(c)' = Places(c)
  BY NothingMoves
<1>5. FrameInv'
  BY <1>4, FramesKept DEF IInv
<1>6. PendingInv' /\ OverInv'
  <2>1. Places(Command)' = Places(Command)
    BY <1>4, CommandIsTcb
  <2>2. Active' = Active
    BY DEF Active, Go, IInv, TypeInv, ThreadInv, Threads
  <2>3. Unenlisted => Unenlisted'
    <3>1. \A u \in Threads : pc[u] = "enlist" => pc'[u] = "enlist"
      BY DEF Go, IInv, TypeInv, ThreadInv
    <3> QED BY <3>1, SameLists
  <2> QED BY <2>1, <2>2, <2>3, KeptHolds DEF IInv
<1>7. OrderInv'
  BY OrderKept DEF IInv
<1> QED BY <1>1, <1>2, <1>3, <1>5, <1>6, <1>7 DEF IInv, TypeInv

\* What the three other steps of the scan have in common.
LEMMA ScanPending ==
    ASSUME IInv, Expired
    PROVE  /\ Pending /\ cmd.done = 0 /\ Active /\ cmd.wait /\ cmd.response = 0 /\ ~cmd.timedout
           /\ Places(Command) = One(~cmd.complete) /\ op # 0 /\ Command \in waiting
<1>1. Pending /\ Command \in waiting
  BY DEF IInv, OverInv, Expired
<1> QED BY <1>1 DEF IInv, OverInv, PendingInv, Pending

LEMMA GiveUpHolds ==
    ASSUME IInv, Scan, GiveUp
    PROVE  IInv'
<1> USE DEF Scan, GiveUp, Sent, ring, rx
<1>1. /\ Pending /\ cmd.done = 0 /\ Active /\ Places(Command) = One(~cmd.complete) /\ op # 0
  BY ScanPending
<1>2. PICK c \in CmdType : c = cmd
  BY CmdTypes DEF IInv, TypeInv
<1>3. /\ cmd' \in CmdType /\ cmd'.done = 1 /\ cmd'.timedout /\ cmd'.response = cmd.response
  <2>1. PICK r \in Nat : r = c.retries + 1
    BY <1>2 DEF CmdType
  <2>2. PICK k \in 0 .. 1 : k = c.done + 1
    BY <1>1, <1>2
  <2>3. cmd' = [c EXCEPT !.retries = r, !.timedout = TRUE, !.done = k] /\ k = 1
    BY <1>1, <1>2, <2>1, <2>2
  <2> QED BY <1>2, <2>3 DEF CmdType
<1>4. DteTypeOK'
  BY <1>3 DEF IInv, TypeInv, DteTypeOK, CmdType
<1>5. ThreadInv'
  BY Moves DEF IInv, TypeInv, ThreadInv, Busy, Labels, Threads
<1>6. AnswersTyped'
  <2>1. pc'["work"] = pc["work"]
    BY DEF Go, IInv, TypeInv, ThreadInv, Threads
  <2> QED BY <2>1, AnswersKept DEF IInv, TypeInv
<1>7. \A x \in Tcbs : Places(x)' = Places(x)
  BY NothingMoves
<1>8. FrameInv'
  BY <1>7, FramesKept DEF IInv
<1>9. PendingInv' /\ OverInv'
  <2>1. Places(Command)' = 0 /\ Command \notin waiting'
    BY <1>1, <1>7, CommandIsTcb DEF One
  <2>2. Active' /\ ~Pending'
    BY <1>1, <1>3 DEF Active, Pending, Go, IInv, TypeInv, ThreadInv, Threads
  <2> QED BY <1>1, <1>3, <2>1, <2>2 DEF PendingInv, OverInv
<1>10. OrderInv'
  BY OrderKept DEF IInv
<1> QED BY <1>4, <1>5, <1>6, <1>8, <1>9, <1>10 DEF IInv, TypeInv

LEMMA TakeForRetryHolds ==
    ASSUME IInv, Scan, TakeForRetry
    PROVE  IInv'
<1> USE DEF Scan, TakeForRetry, Sent, ring, rx
<1>1. /\ Pending /\ cmd.done = 0 /\ Active /\ cmd.wait /\ cmd.response = 0 /\ ~cmd.timedout
      /\ Places(Command) = 0 /\ op # 0
  BY ScanPending DEF One
<1>2. PICK c \in CmdType : c = cmd
  BY CmdTypes DEF IInv, TypeInv
<1>3. /\ cmd' \in CmdType /\ cmd'.done = 0 /\ ~cmd'.timedout /\ cmd'.response = 0
      /\ cmd'.wait /\ ~cmd'.complete
  <2>1. PICK r \in Nat : r = c.retries + 1
    BY <1>2 DEF CmdType
  <2>2. cmd' = [c EXCEPT !.retries = r, !.complete = FALSE]
    BY <1>2, <2>1
  <2> QED BY <1>1, <1>2, <2>2 DEF CmdType
<1>4. DteTypeOK'
  BY <1>3 DEF IInv, TypeInv, DteTypeOK, CmdType
<1>5. ThreadInv'
  BY Moves DEF IInv, TypeInv, ThreadInv, Busy, Labels, Threads
<1>6. AnswersTyped'
  <2>1. pc'["work"] = pc["work"]
    BY DEF Go, IInv, TypeInv, ThreadInv, Threads
  <2> QED BY <2>1, AnswersKept DEF IInv, TypeInv
<1>7. \A x \in Tcbs : Places(x)' = Places(x) + One(x = Command)
  <2>1. Command \notin to_retry
    BY <1>1, SeenPlaces DEF IInv, TypeInv
  <2> QED BY <2>1, RetryTakes DEF IInv, TypeInv
<1>8. FrameInv'
  <2>1. \A f \in Frames : Places(f)' = Places(f)
    <3> SUFFICES ASSUME NEW f \in Frames PROVE Places(f)' = Places(f)
      OBVIOUS
    <3>1. f \in Tcbs /\ One(f = Command) = 0
      BY DteAssumption DEF One, Tcbs
    <3>2. Places(f) \in Nat
      BY SeenPlaces DEF IInv, TypeInv
    <3> QED BY <1>7, <3>1, <3>2
  <2> QED BY <2>1 DEF IInv, FrameInv
<1>9. PendingInv' /\ OverInv'
  <2>1. Places(Command)' = 1
    <3>1. One(Command = Command) = 1
      BY DEF One
    <3> QED BY <1>1, <1>7, <3>1, CommandIsTcb
  <2>2. Active' /\ Pending'
    BY <1>1, <1>3 DEF Active, Pending, Go, IInv, TypeInv, ThreadInv, Threads
  <2>3. Unenlisted' /\ Command \notin waiting'
    BY DEF Unenlisted
  <2> QED BY <1>1, <1>3, <2>1, <2>2, <2>3 DEF PendingInv, OverInv, One
<1>10. OrderInv'
  BY OrderKept DEF IInv
<1> QED BY <1>4, <1>5, <1>6, <1>8, <1>9, <1>10 DEF IInv, TypeInv

LEMMA ScanHolds ==
    ASSUME IInv, Scan
    PROVE  IInv'
<1>1. /\ pc["dog"] = "scan"
      /\ UNCHANGED <<desc, head, tail, hw, op, allocated, frames, fresh, cur, old, ret,
                     rx_list, local, last_rx_seq, used, inbox>>
  BY DEF Scan, ring, rx
<1>2. PICK c \in CmdType : c = cmd
  BY CmdTypes DEF IInv, TypeInv
<1>3. PICK r \in Nat : r = c.retries + 1
  BY <1>2 DEF CmdType
<1>4. CASE NothingExpired
  BY <1>1, <1>2, <1>4, CountingHolds DEF NothingExpired
<1>5. CASE Halt
  <2>1. cmd' = [c EXCEPT !.retries = r]
    BY <1>2, <1>3, <1>5 DEF Halt
  <2>2. /\ cmd' \in CmdType /\ cmd'.wait = cmd.wait /\ cmd'.complete = cmd.complete
        /\ cmd'.timedout = cmd.timedout /\ cmd'.response = cmd.response /\ cmd'.done = cmd.done
    BY <1>2, <2>1 DEF CmdType
  <2> QED BY <1>1, <1>5, <2>2, CountingHolds DEF Halt
<1>6. CASE StillOnRing
  <2>1. cmd' = [c EXCEPT !.retries = r, !.late = FALSE]
    BY <1>2, <1>3, <1>6 DEF StillOnRing
  <2>2. /\ cmd' \in CmdType /\ cmd'.wait = cmd.wait /\ cmd'.complete = cmd.complete
        /\ cmd'.timedout = cmd.timedout /\ cmd'.response = cmd.response /\ cmd'.done = cmd.done
    BY <1>2, <2>1 DEF CmdType
  <2> QED BY <1>1, <1>6, <2>2, CountingHolds DEF StillOnRing
<1>7. CASE GiveUp
  BY <1>7, GiveUpHolds
<1>8. CASE TakeForRetry
  BY <1>8, TakeForRetryHolds
<1> QED BY <1>4, <1>5, <1>6, <1>7, <1>8 DEF Scan

LEMMA ResendHolds ==
    ASSUME IInv, Resend
    PROVE  IInv'
<1> USE DEF Resend, ring, rx
<1>1. "dog" \in Threads /\ pc["dog"] \notin Busy /\ to_retry = {Command}
  BY DEF Threads, Busy, IInv, TypeInv, ThreadInv
<1>2. DteTypeOK'
  BY CommandIsTcb DEF IInv, TypeInv, DteTypeOK, Transmit
<1>3. ThreadInv'
  BY <1>1, CommandIsTcb, Takes DEF IInv, TypeInv, Backs
<1>4. AnswersTyped'
  <2>1. pc'["work"] = pc["work"] /\ ret'["work"] = ret["work"]
    BY DEF Transmit, IInv, TypeInv, ThreadInv, Threads
  <2> QED BY <2>1, AnswersKept DEF IInv, TypeInv
<1>5. \A c \in Tcbs : Places(c)' = Places(c)
  <2>1. cur["dog"] = None
    BY <1>1, FreeHand
  <2> QED BY <1>1, <2>1, RetryToHand DEF IInv, TypeInv, Transmit
<1>6. FrameInv'
  BY <1>5, FramesKept DEF IInv
<1>7. PendingInv' /\ OverInv'
  <2>1. Places(Command)' = Places(Command)
    BY <1>5, CommandIsTcb
  <2>2. Active' = Active
    BY DEF Active, Transmit, IInv, TypeInv, ThreadInv, Threads
  <2>3. Unenlisted'
    <3>1. pc'["dog"] = "enlist"
      BY <1>1 DEF Transmit, IInv, TypeInv, ThreadInv
    <3> QED BY <1>1, <3>1 DEF Unenlisted
  <2> QED BY <2>1, <2>2, <2>3, KeptHolds DEF IInv
<1>8. OrderInv'
  BY OrderKept DEF IInv
<1> QED BY <1>2, <1>3, <1>4, <1>6, <1>7, <1>8 DEF IInv, TypeInv

-----------------------------------------------------------------------------
(* The adapter, the DTE and time.                                          *)

\* No thread runs.
LEMMA OutsideHolds ==
    ASSUME IInv, DteTypeOK', AnswersTyped', OrderInv', \A c \in Tcbs : Places(c)' = Places(c),
           cmd'.wait = cmd.wait, cmd'.complete = cmd.complete,
           cmd'.timedout = cmd.timedout, cmd'.response = cmd.response, cmd'.done = cmd.done,
           UNCHANGED <<cmd_list, waiting, to_retry, op, allocated, frames, fresh, pc, cur, ret>>
    PROVE  IInv'
<1>1. ThreadInv'
  BY DEF IInv, TypeInv, ThreadInv
<1>2. FrameInv'
  BY FramesKept DEF IInv
<1>3. Places(Command)' = Places(Command) /\ Active' = Active /\ (Unenlisted => Unenlisted')
  BY CommandIsTcb DEF Active, Unenlisted
<1>4. PendingInv' /\ OverInv'
  BY <1>3, KeptHolds DEF IInv
<1> QED BY <1>1, <1>2, <1>4 DEF IInv, TypeInv

LEMMA SendHolds ==
    ASSUME IInv, Send
    PROVE  IInv'
<1>1. PICK k \in Slot : k = hw
  BY DEF IInv, TypeInv, DteTypeOK, Slot
<1>2. /\ desc' = [desc EXCEPT ![k].owned = FALSE] /\ hw' = (k + 1) % Slots
      /\ inbox' = inbox \/ (desc[k].tcb = Command /\ inbox' = Append(inbox, op))
      /\ UNCHANGED <<head, tail, cmd_list, waiting, to_retry, cmd, op, allocated, frames, fresh,
                     pc, cur, old, ret, rx_list, local, last_rx_seq, used>>
  BY <1>1 DEF Send, lists, threads, rx
<1>3. \A i \in Slot : desc[i] \in [tcb : Tcbs \cup {None}, owned : BOOLEAN]
  BY DEF IInv, TypeInv, DteTypeOK, Slot
<1>4. /\ desc' \in [Slot -> [tcb : Tcbs \cup {None}, owned : BOOLEAN]]
      /\ \A i \in Slot : desc'[i].tcb = desc[i].tcb
  BY <1>2, <1>3 DEF IInv, TypeInv, DteTypeOK, Slot
<1>5. \A c \in Tcbs : Places(c)' = Places(c)
  <2>1. DOMAIN desc' = DOMAIN desc
    BY <1>2
  <2> QED BY <1>2, <1>4, <2>1, RingKeeps DEF IInv, TypeInv
<1>6. inbox \in Seq(Ops) /\ rx_list \in Seq(Ops) /\ local \in Seq(Ops)
      /\ last_rx_seq \in Int /\ op \in Int
  BY DEF IInv, TypeInv, DteTypeOK, AnswersTyped, Ops
<1>7. desc[k].tcb = Command => op \in Ops
  <2> SUFFICES ASSUME desc[k].tcb = Command PROVE op \in Ops
    OBVIOUS
  <2>1. Places(Command) \in Nat /\ Places(Command) >= 1
    BY SeenPlaces DEF IInv, TypeInv
  <2>2. Pending
    BY <2>1, PlaceIsPending DEF IInv
  <2> QED BY <2>2 DEF Pending, IInv, OverInv, TypeInv, DteTypeOK, Ops
<1>8. inbox' \in Seq(Ops)
  BY <1>2, <1>6, <1>7, AppendProperties
<1>9. DteTypeOK'
  <2>1. hw' \in Slot
    BY <1>2, NextSlot
  <2> QED BY <1>2, <1>4, <1>8, <2>1 DEF IInv, TypeInv, DteTypeOK, Slot, Ops
<1>10. AnswersTyped'
  BY <1>2 DEF IInv, TypeInv, AnswersTyped
<1>11. OrderInv'
  <2>1. CASE inbox' = inbox
    BY <1>2, <2>1, OrderKept DEF IInv
  <2>2. CASE desc[k].tcb = Command /\ inbox' = Append(inbox, op)
    <3>1. op \in Ops /\ op <= op
      BY <1>6, <1>7, <2>2
    <3>2. /\ Ordered(inbox) /\ Older(local, inbox) /\ Older(rx_list, inbox)
          /\ NoLess(inbox, last_rx_seq) /\ last_rx_seq <= op
          /\ NoMore(local, op) /\ NoMore(rx_list, op) /\ NoMore(inbox, op)
      BY DEF IInv, OrderInv
    <3>3. Ordered(inbox')
      BY <1>6, <2>2, <3>1, <3>2, AppendOrdered
    <3>4. Older(local, inbox')
      BY <1>6, <2>2, <3>1, <3>2, AppendYounger
    <3>5. Older(rx_list, inbox')
      BY <1>6, <2>2, <3>1, <3>2, AppendYounger
    <3>6. NoLess(inbox', last_rx_seq)
      BY <1>6, <2>2, <3>1, <3>2, AppendLess
    <3>7. NoMore(inbox', op)
      BY <1>6, <2>2, <3>1, <3>2, AppendMore
    <3> QED BY <1>2, <3>3, <3>4, <3>5, <3>6, <3>7 DEF IInv, OrderInv
  <2> QED BY <1>2, <2>1, <2>2
<1> QED BY <1>2, <1>5, <1>9, <1>10, <1>11, OutsideHolds

LEMMA AnswerHolds ==
    ASSUME IInv, Answer
    PROVE  IInv'
<1>1. inbox \in Seq(Ops) /\ rx_list \in Seq(Ops) /\ local \in Seq(Ops) /\ inbox # <<>>
  BY DEF IInv, TypeInv, DteTypeOK, AnswersTyped, Ops, Answer
<1>2. PICK n \in Ops : n = Head(inbox)
  BY <1>1, HeadAt
<1>3. /\ inbox' = Tail(inbox)
      /\ rx_list' = rx_list \/ rx_list' = Append(rx_list, n)
      /\ UNCHANGED <<desc, head, tail, hw, cmd_list, waiting, to_retry, cmd, op, allocated,
                     frames, fresh, pc, cur, old, ret, local, last_rx_seq, used>>
  BY <1>2 DEF Answer, ring, lists, threads
<1>4. DteTypeOK'
  <2>1. inbox' \in Seq(Ops)
    BY <1>1, <1>3, HeadAt
  <2> QED BY <1>3, <2>1 DEF IInv, TypeInv, DteTypeOK, Ops
<1>5. rx_list' \in Seq(Ops)
  <2>1. Append(rx_list, n) \in Seq(Ops)
    BY <1>1, AppendProperties
  <2> QED BY <1>1, <1>3, <2>1
<1>6. AnswersTyped'
  BY <1>3, <1>5 DEF IInv, TypeInv, AnswersTyped
<1>7. \A c \in Tcbs : Places(c)' = Places(c)
  BY <1>3, NothingMoves
<1>8. /\ Ordered(rx_list) /\ Ordered(inbox) /\ Older(local, rx_list) /\ Older(local, inbox)
      /\ Older(rx_list, inbox) /\ NoLess(rx_list, last_rx_seq) /\ NoLess(inbox, last_rx_seq)
      /\ NoMore(rx_list, op) /\ NoMore(inbox, op)
  BY DEF IInv, OrderInv
<1>9. Ordered(Tail(inbox)) /\ NoLess(Tail(inbox), n)
  BY <1>1, <1>2, <1>8, TailOrdered
<1>10. Older(local, Tail(inbox)) /\ NoMore(local, n)
  BY <1>1, <1>2, <1>8, TailYounger
<1>11. Older(rx_list, Tail(inbox)) /\ NoMore(rx_list, n)
  BY <1>1, <1>2, <1>8, TailYounger
<1>12. NoLess(Tail(inbox), last_rx_seq) /\ last_rx_seq <= n
  BY <1>1, <1>2, <1>8, TailLess
<1>13. NoMore(Tail(inbox), op) /\ n <= op
  BY <1>1, <1>2, <1>8, TailMore
<1>14. OrderInv'
  <2>1. CASE rx_list' = rx_list
    BY <1>3, <1>9, <1>10, <1>11, <1>12, <1>13, <2>1 DEF IInv, OrderInv
  <2>2. CASE rx_list' = Append(rx_list, n)
    <3>1. Ordered(rx_list')
      BY <1>1, <1>8, <1>11, <2>2, AppendOrdered
    <3>2. Older(local, rx_list')
      BY <1>1, <1>8, <1>10, <2>2, AppendYounger
    <3>3. Older(rx_list', inbox')
      <4>1. Tail(inbox) \in Seq(Ops)
        BY <1>1, HeadAt
      <4> QED BY <1>1, <1>3, <1>9, <1>11, <2>2, <4>1, AppendOlder
    <3>4. NoLess(rx_list', last_rx_seq)
      BY <1>1, <1>8, <1>12, <2>2, AppendLess
    <3>5. NoMore(rx_list', op)
      BY <1>1, <1>8, <1>13, <2>2, AppendMore
    <3> QED BY <1>3, <1>9, <1>10, <1>12, <1>13, <3>1, <3>2, <3>3, <3>4, <3>5
            DEF IInv, OrderInv
  <2> QED BY <1>3, <2>1, <2>2
<1> QED BY <1>3, <1>4, <1>6, <1>7, <1>14, OutsideHolds

LEMMA TimePassesHolds ==
    ASSUME IInv, TimePasses
    PROVE  IInv'
<1> USE DEF TimePasses, ring, lists, threads, rx
<1>1. PICK c \in CmdType : c = cmd
  BY CmdTypes DEF IInv, TypeInv
<1>2. PICK b \in BOOLEAN : b <=> (c.late \/ Command \in waiting)
  OBVIOUS
<1>3. /\ cmd' \in CmdType /\ cmd'.wait = cmd.wait /\ cmd'.complete = cmd.complete
      /\ cmd'.timedout = cmd.timedout /\ cmd'.response = cmd.response /\ cmd'.done = cmd.done
  BY <1>1 DEF CmdType
<1>4. DteTypeOK'
  BY <1>3 DEF IInv, TypeInv, DteTypeOK, CmdType
<1>5. AnswersTyped'
  BY DEF IInv, TypeInv, AnswersTyped
<1>6. OrderInv'
  BY OrderKept DEF IInv
<1>7. \A x \in Tcbs : Places(x)' = Places(x)
  BY NothingMoves
<1> QED BY <1>3, <1>4, <1>5, <1>6, <1>7, OutsideHolds

-----------------------------------------------------------------------------
(* The invariant.                                                          *)

LEMMA StutterHolds == IInv /\ UNCHANGED vars => IInv'
<1> SUFFICES ASSUME IInv, UNCHANGED vars PROVE IInv'
  OBVIOUS
<1> USE DEF vars, ring, lists, threads, rx
<1>1. DteTypeOK' /\ AnswersTyped'
  BY DEF IInv, TypeInv, DteTypeOK, AnswersTyped
<1>2. OrderInv'
  BY OrderKept DEF IInv
<1>3. \A c \in Tcbs : Places(c)' = Places(c)
  BY NothingMoves
<1> QED BY <1>1, <1>2, <1>3, OutsideHolds

LEMMA SendingHolds ==
    ASSUME IInv, NEW t \in Threads, Sending(t)
    PROVE  IInv'
BY EnlistHolds, SubmitHolds, RequeueHolds DEF Sending

LEMMA ServeTxHolds ==
    ASSUME IInv, NEW t \in Servers, ServeTx(t)
    PROVE  IInv'
BY ReadHeadHolds, RetrieveHolds, CompleteHolds, PullQueuedHolds DEF ServeTx

LEMMA NextHolds == IInv /\ [Next]_vars => IInv'
<1> SUFFICES ASSUME IInv, [Next]_vars PROVE IInv'
  OBVIOUS
<1>1. "user" \in Threads /\ "writer" \in Threads /\ "work" \in Threads /\ "dog" \in Threads
      /\ "work" \in Servers /\ "dog" \in Servers
  BY DEF Threads, Servers
<1>2. CASE SendCommand \/ EndOperation
  BY <1>2, SendCommandHolds, EndOperationHolds
<1>3. CASE User
  BY <1>1, <1>3, SendingHolds, ReturnHolds DEF User
<1>4. CASE (\E f \in Frames : Write(f)) \/ Writer
  BY <1>1, <1>4, SendingHolds, WriteHolds DEF Writer
<1>5. CASE Deferred
  BY <1>1, <1>5, StartWorkHolds, ServeTxHolds, SendingHolds, SpliceHolds, ReceiveHolds,
     MatchResponseHolds DEF Deferred
<1>6. CASE Watchdog
  BY <1>1, <1>6, FireWatchdogHolds, ServeTxHolds, SendingHolds, ScanHolds, ResendHolds
     DEF Watchdog
<1>7. CASE TimePasses \/ Send \/ Answer
  BY <1>7, TimePassesHolds, SendHolds, AnswerHolds
<1>8. CASE UNCHANGED vars
  BY <1>8, StutterHolds
<1> QED BY <1>2, <1>3, <1>4, <1>5, <1>6, <1>7, <1>8 DEF Next

LEMMA InitHolds == Init => IInv
<1> SUFFICES ASSUME Init PROVE IInv
  OBVIOUS
<1> USE DEF Init
<1>1. DteTypeOK
  <2>1. 0 \in 0 .. Slots - 1 /\ 0 \in 0 .. MaxOps
    BY DteAssumption DEF MaxOps
  <2>2. Unused \in [tcb : Tcbs \cup {None}, owned : BOOLEAN]
    BY DEF Unused
  <2>3. NewCmd \in CmdType
    BY CmdTypes
  <2>4. /\ desc \in [0 .. Slots - 1 -> [tcb : Tcbs \cup {None}, owned : BOOLEAN]]
        /\ {head, tail, hw} \subseteq 0 .. Slots - 1
        /\ cur \in [Threads -> Tcbs \cup {None}] /\ old \in [Threads -> 0 .. Slots - 1]
    BY <2>1, <2>2
  <2>5. cmd \in CmdType /\ op \in 0 .. MaxOps
    BY <2>1, <2>3
  <2>6. cmd_list \in Seq(Tcbs) /\ inbox \in Seq(1 .. MaxOps)
    <3>1. cmd_list = <<>> /\ inbox = <<>>
      OBVIOUS
    <3> HIDE DEF Init
    <3> QED BY <3>1
  <2>7. allocated \in BOOLEAN /\ waiting = {} /\ to_retry = {} /\ frames = {}
    BY Zenon
  <2>8. last_rx_seq \in {-1} \cup 1 .. MaxOps
    <3>1. last_rx_seq = -1
      OBVIOUS
    <3> QED BY <3>1, Zenon
  <2> HIDE DEF Init
  <2> QED BY <2>4, <2>5, <2>6, <2>7, <2>8 DEF DteTypeOK, CmdType
<1>2. ThreadInv
  BY DteAssumption DEF ThreadInv, Labels, Backs, Busy, Threads
<1>3. AnswersTyped
  BY DEF AnswersTyped, Threads
<1>4. \A c \in Tcbs : Places(c) = 0
  <2> SUFFICES ASSUME NEW c \in Tcbs PROVE Places(c) = 0
    OBVIOUS
  <2>1. c # None
    BY DteAssumption DEF Tcbs
  <2>2. {i \in DOMAIN desc : desc[i].tcb = c} = {}
    BY <2>1 DEF Unused
  <2>3. {i \in DOMAIN cmd_list : cmd_list[i] = c} = {}
    OBVIOUS
  <2>4. {t \in Threads : cur[t] = c} = {}
    BY <2>1
  <2>5. c \notin to_retry
    OBVIOUS
  <2>6. Places(c) = Cardinality({}) + Cardinality({}) + Cardinality({}) + 0
    BY <2>2, <2>3, <2>4, <2>5, Zenon DEF Places
  <2>7. Cardinality({}) = 0
    BY FS_EmptySet
  <2> QED BY <2>6, <2>7
<1>5. FrameInv
  BY <1>4, CommandIsTcb DEF FrameInv, One
<1>6. PendingInv /\ OverInv
  BY <1>4, CommandIsTcb DEF PendingInv, OverInv, Pending, Active, NewCmd, Threads
<1>7. OrderInv
  BY DEF OrderInv, Ordered, Older, NoLess, NoMore
<1> QED BY <1>1, <1>2, <1>3, <1>5, <1>6, <1>7 DEF IInv, TypeInv

LEMMA InvariantHolds == Spec => []IInv
BY InitHolds, NextHolds, PTL DEF Spec

-----------------------------------------------------------------------------
(* The theorems.                                                           *)

\* Every variable keeps its type, and the sender of a command is told at most once that
\* it is over (complete() is called once for each wait_for_completion).
THEOREM CommandTypes == Spec => []DteTypeOK
<1>1. IInv => DteTypeOK
  BY DEF IInv, TypeInv
<1> QED BY <1>1, InvariantHolds, PTL

\* Until its sender is told, a command is in one place (a ring descriptor, cmd_list, the
\* hands of a thread or the list of retries), or it was sent and is on the waiting list;
\* a voice frame that is allocated is in one place.
THEOREM NothingIsLost == Spec => []NothingLost
<1>1. IInv => NothingLost
  <2> SUFFICES ASSUME IInv PROVE NothingLost
    OBVIOUS
  <2>1. Pending => Places(Command) = IF Command \in waiting /\ cmd.complete THEN 0 ELSE 1
    BY DEF IInv, PendingInv, One
  <2>2. \A f \in Frames : Places(f) = IF f \in frames THEN 1 ELSE 0
    BY DEF IInv, FrameInv, One
  <2> QED BY <2>1, <2>2 DEF NothingLost, Pending, Active
<1> QED BY <1>1, InvariantHolds, PTL

\* When the sender of a command is told that it is over, it was answered or has timed
\* out, and nobody has hold of the tcb, which is sent again or freed by its sender.
THEOREM FinishedAndReleased == Spec => []FinishedIsReleased
<1>1. IInv => FinishedIsReleased
  <2> SUFFICES ASSUME IInv, cmd.done > 0 \/ (pc["user"] = "idle" /\ allocated)
               PROVE  /\ cmd.response # 0 \/ cmd.timedout
                      /\ Places(Command) = 0 /\ Command \notin waiting
    BY DEF FinishedIsReleased
  <2>1. ~Pending
    BY DEF Pending, Active, IInv, TypeInv, DteTypeOK
  <2>2. cmd.response # 0 \/ cmd.timedout
    BY DEF IInv, OverInv, Active
  <2> QED BY <2>1, <2>2 DEF IInv, OverInv
<1> QED BY <1>1, InvariantHolds, PTL

LEMMA OnlyAnswers ==
    ASSUME IInv, Next, cmd'.response \notin {0, cmd.response}
    PROVE  MatchResponse
<1>1. PICK c \in CmdType : c = cmd
  BY CmdTypes DEF IInv, TypeInv
<1>2. NewCmd.response = 0
  BY DEF NewCmd
<1>3. SendCommand => cmd'.response = 0
  BY <1>2 DEF SendCommand, NewCmd
<1>4. Return => cmd'.response \in {0, cmd.response}
  BY <1>1, <1>2 DEF Return, CmdType
<1>5. EndOperation => cmd'.response = 0
  BY <1>2 DEF EndOperation
<1>6. ASSUME NEW t \in Threads PROVE ~Sending(t)
  <2>1. Enlist(t) => cmd'.response = cmd.response
    BY <1>1 DEF Enlist, CmdType
  <2>2. Submit(t) \/ Requeue(t) => cmd'.response = cmd.response
    BY DEF Submit, Requeue
  <2> QED BY <2>1, <2>2 DEF Sending
<1>7. ASSUME NEW t \in Servers PROVE ~ServeTx(t)
  <2>1. Complete(t) => cmd'.response = cmd.response
    BY <1>1 DEF Complete, CmdType
  <2>2. ReadHead(t) \/ Retrieve(t) \/ PullQueued(t) => cmd'.response = cmd.response
    BY DEF ReadHead, Retrieve, PullQueued
  <2> QED BY <2>1, <2>2 DEF ServeTx
<1>8. ~Scan
  <2>1. Halt \/ GiveUp \/ TakeForRetry \/ StillOnRing => cmd'.response = cmd.response
    BY <1>1 DEF Halt, GiveUp, TakeForRetry, StillOnRing, CmdType
  <2>2. NothingExpired => cmd'.response = cmd.response
    BY DEF NothingExpired
  <2> QED BY <2>1, <2>2 DEF Scan
<1>9. TimePasses => cmd'.response = cmd.response
  BY <1>1 DEF TimePasses, CmdType
<1>10. ~StartWork /\ ~Splice /\ ~Receive /\ ~FireWatchdog /\ ~Resend /\ ~Send /\ ~Answer
       /\ ~(\E f \in Frames : Write(f))
  BY DEF StartWork, Splice, Receive, FireWatchdog, Resend, Send, Answer, Write
<1>11. /\ "user" \in Threads /\ "writer" \in Threads /\ "work" \in Threads /\ "dog" \in Threads
       /\ "work" \in Servers /\ "dog" \in Servers
  BY DEF Threads, Servers
<1> QED BY <1>3, <1>4, <1>5, <1>6, <1>7, <1>8, <1>9, <1>10, <1>11
        DEF Next, User, Writer, Deferred, Watchdog

\* The answer to a command of the supervisor that was sent again may come twice; the
\* sequence number of the last one, kept by do_rx_response_packet, and the order in
\* which the DTE answers are enough for it never to be taken twice.
THEOREM AnswersAreNew == Spec => AnswersTakenOnce
<1> DEFINE A == cmd'.response \notin {0, cmd.response}
                    /\ Function[cmd'.response] \in Supervisor => cmd'.response \notin used
<1>1. IInv /\ [Next]_vars => [A]_vars
  <2> SUFFICES ASSUME IInv, Next, cmd'.response \notin {0, cmd.response},
                      Function[cmd'.response] \in Supervisor, cmd'.response \in used
               PROVE  FALSE
    OBVIOUS
  <2>1. MatchResponse
    BY OnlyAnswers
  <2>2. PICK n : n = Head(local)
    OBVIOUS
  <2>3. cmd' # cmd
    OBVIOUS
  <2>4. cmd'.response = n /\ ~Duplicate(n)
    <3>1. PICK c \in CmdType : c = cmd
      BY CmdTypes DEF IInv, TypeInv
    <3>2. /\ ~Duplicate(n)
          /\ cmd' = [c EXCEPT !.wait = FALSE, !.response = n,
                              !.done = IF EndsWhenAnswered THEN c.done + 1 ELSE c.done]
      BY <2>1, <2>2, <2>3, <3>1 DEF MatchResponse
    <3> QED BY <3>1, <3>2 DEF CmdType
  <2>5. n # last_rx_seq /\ n \in used /\ n <= last_rx_seq
    BY <2>4 DEF Duplicate, IInv, OrderInv
  <2>6. /\ local \in Seq(Ops) /\ local # <<>> /\ NoLess(local, last_rx_seq)
        /\ last_rx_seq \in Int
    BY <2>1 DEF MatchResponse, IInv, TypeInv, DteTypeOK, AnswersTyped, OrderInv
  <2>7. n \in Ops /\ last_rx_seq <= n
    BY <2>2, <2>6, HeadAt, TailLess
  <2>8. n \in Int
    BY <2>7, OpsAreInt
  <2> QED BY <2>5, <2>6, <2>7, <2>8
<1>2. Spec => [][A]_vars
  BY <1>1, InvariantHolds, PTL DEF Spec
<1> QED BY <1>2 DEF AnswersTakenOnce

=============================================================================

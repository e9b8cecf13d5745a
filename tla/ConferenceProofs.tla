-------------------------- MODULE ConferenceProofs --------------------------
(***************************************************************************)
(* Proofs about conferences: their types, the two tables of aliases, and   *)
(* who sums in which accumulator, for any number of channels, conferences  *)
(* and links, and whatever users ask for.                                  *)
(***************************************************************************)
EXTENDS ConferenceMixing, FiniteSetTheorems, WellFoundedInduction, TLAPS

\* The two tables mirror one another.
Mirror(t) ==
    /\ t.alias \in [Confs -> 0 .. MaxConf - 1]
    /\ t.rev \in [Aliases -> 0 .. MaxConf]
    /\ \A x \in Confs : t.alias[x] # 0 => t.rev[t.alias[x]] = x
    /\ \A a \in Aliases : t.rev[a] # 0 => t.alias[t.rev[a]] = a

TablesInv == Mirror(Tables) /\ maxconfs = recalc_maxconfs(confrev)

\* Only channels that are there are in a conference, and that has a number.
MembersInv ==
    \A c \in Channels : IsConference(confmode[c]) => c \in registered /\ confna[c] \in Confs

\* Nobody is in a conference that somebody is about to clear, unless it is torn.
NobodyLeft ==
    \A c \in Channels :
        pending[c].conf # 0 /\ pending[c].conf \notin torn => Members(pending[c].conf) = {}

\* The inductive invariant.
IInv == TypeOK /\ TablesInv /\ MembersInv /\ OwnAccumulator /\ NobodyLeft

-----------------------------------------------------------------------------
(* The tables.                                                             *)

LEMMA LeastNumber ==
    ASSUME NEW S \in SUBSET Nat, S # {}
    PROVE  \E n \in S : \A k \in S : n <= k
<1>1. PICK n \in S : \A k \in S : <<k, n>> \notin OpToRel(<, Nat)
  BY WFMin, NatLessThanWellFounded, Zenon
<1>2. \A k \in S : ~ (k < n)
  BY <1>1, Zenon DEF OpToRel
<1> QED BY <1>2, SMT

LEMMA GreatestNumber ==
    ASSUME NEW m \in Nat, NEW S \in SUBSET (0 .. m), S # {}
    PROVE  \E n \in S : \A k \in S : k <= n
<1> DEFINE T == {m - k : k \in S}
<1>1. T \in SUBSET Nat /\ T # {}
  <2>1. \A k \in S : m - k \in Nat
    OBVIOUS
  <2>2. \E k \in S : TRUE
    OBVIOUS
  <2> QED BY <2>1, <2>2
<1>2. PICK j \in T : \A k \in T : j <= k
  <2> HIDE DEF T
  <2> QED BY <1>1, LeastNumber
<1>3. PICK n \in S : j = m - n
  BY <1>2
<1>4. \A k \in S : m - n <= m - k
  BY <1>2, <1>3
<1>5. \A k \in S : k <= n
  BY <1>4
<1> QED BY <1>5

LEMMA GreatestAlias ==
    ASSUME NEW S \in SUBSET Aliases, S # {}
    PROVE  \E n \in S : \A k \in S : k <= n
<1>1. S \in SUBSET (0 .. MaxConf) /\ MaxConf \in Nat
  BY MaxConfAssumption DEF Aliases
<1> QED BY <1>1, GreatestNumber

LEMMA MaxconfsType ==
    ASSUME NEW rev \in [Aliases -> 0 .. MaxConf]
    PROVE  /\ recalc_maxconfs(rev) \in 0 .. MaxConf
           /\ \A a \in Aliases : rev[a] # 0 => a < recalc_maxconfs(rev)
<1> DEFINE S == {a \in Aliases : rev[a] # 0}
           top == CHOOSE a \in S : \A b \in S : b <= a
<1>1. CASE S = {}
  BY <1>1, MaxConfAssumption DEF recalc_maxconfs
<1>2. CASE S # {}
  <2>1. \E n \in S : \A k \in S : k <= n
    <3>1. S \in SUBSET Aliases
      OBVIOUS
    <3> HIDE DEF S
    <3> QED BY <1>2, <3>1, GreatestAlias
  <2>2. top \in S /\ \A k \in S : k <= top
    <3> HIDE DEF S
    <3> QED BY <2>1
  <2>3. recalc_maxconfs(rev) = top + 1
    BY <1>2 DEF recalc_maxconfs
  <2> HIDE DEF top
  <2> QED BY <2>2, <2>3, MaxConfAssumption DEF Aliases
<1> QED BY <1>1, <1>2

LEMMA EmptyConf ==
    ASSUME NEW t, Mirror(t), NEW x \in Confs, NEW u, u = Empty(t, x)
    PROVE  /\ Mirror(u)
           /\ u.alias[x] = 0
           /\ \A y \in Confs : y # x => u.alias[y] = t.alias[y]
           /\ FreeAliases(t) \subseteq FreeAliases(u)
           /\ t.alias[x] # 0 => t.alias[x] \in FreeAliases(u)
<1>1. /\ u.alias = [t.alias EXCEPT ![x] = 0]
      /\ u.rev = [a \in Aliases |-> IF a = t.alias[x] THEN 0 ELSE t.rev[a]]
  BY DEF Empty
<1>2. u.alias \in [Confs -> 0 .. MaxConf - 1] /\ u.rev \in [Aliases -> 0 .. MaxConf]
  BY <1>1, MaxConfAssumption DEF Mirror
<1>3. u.alias[x] = 0 /\ \A y \in Confs : y # x => u.alias[y] = t.alias[y]
  BY <1>1 DEF Mirror
<1>4. \A a \in Aliases : u.rev[a] = IF a = t.alias[x] THEN 0 ELSE t.rev[a]
  BY <1>1
<1>5. ASSUME NEW y \in Confs, u.alias[y] # 0 PROVE u.rev[u.alias[y]] = y
  <2>1. y # x /\ t.alias[y] # 0 /\ u.alias[y] = t.alias[y]
    BY <1>3, <1>5
  <2>2. t.alias[y] \in Aliases /\ t.rev[t.alias[y]] = y
    BY <2>1 DEF Mirror, Aliases
  <2>3. t.alias[y] # t.alias[x]
    <3>1. CASE t.alias[x] = 0
      BY <2>1, <3>1
    <3>2. CASE t.alias[x] # 0
      BY <2>1, <2>2, <3>2 DEF Mirror
    <3> QED BY <3>1, <3>2
  <2> QED BY <1>4, <2>1, <2>2, <2>3
<1>6. ASSUME NEW a \in Aliases, u.rev[a] # 0 PROVE u.alias[u.rev[a]] = a
  <2>1. a # t.alias[x] /\ t.rev[a] # 0 /\ u.rev[a] = t.rev[a]
    BY <1>4, <1>6
  <2>2. t.rev[a] \in Confs /\ t.alias[t.rev[a]] = a
    BY <2>1 DEF Mirror, Confs
  <2> QED BY <1>3, <2>1, <2>2
<1>7. FreeAliases(t) \subseteq FreeAliases(u)
  BY <1>4 DEF FreeAliases
<1>8. t.alias[x] # 0 => t.alias[x] \in FreeAliases(u)
  BY <1>4 DEF FreeAliases, Mirror, Aliases
<1> QED BY <1>2, <1>3, <1>5, <1>6, <1>7, <1>8 DEF Mirror

\* dahdi_check_conf(x) takes the alias from x if there are no members, and from nobody
\* else; where there was one for x, one is left.
LEMMA CheckedConf ==
    ASSUME NEW t, Mirror(t), NEW x, NEW M, NEW u, u = CheckConf(t, x, M)
    PROVE  /\ Mirror(u)
           /\ \A y \in Confs : y # x \/ M # {} => u.alias[y] = t.alias[y]
           /\ x \in Confs /\ M = {} => u.alias[x] = 0
           /\ FreeAliases(t) \subseteq FreeAliases(u)
           /\ \A y \in Confs : t.alias[y] # 0 => u.alias[y] # 0 \/ FreeAliases(u) # {}
<1>1. CASE x \in Confs /\ t.alias[x] # 0 /\ M = {}
  <2>1. u = Empty(t, x)
    BY <1>1 DEF CheckConf
  <2>2. /\ Mirror(u)
        /\ u.alias[x] = 0
        /\ \A y \in Confs : y # x => u.alias[y] = t.alias[y]
        /\ FreeAliases(t) \subseteq FreeAliases(u)
        /\ t.alias[x] # 0 => t.alias[x] \in FreeAliases(u)
    BY <1>1, <2>1, EmptyConf
  <2> QED BY <1>1, <2>2
<1>2. CASE ~(x \in Confs /\ t.alias[x] # 0 /\ M = {})
  BY <1>2 DEF CheckConf
<1> QED BY <1>1, <1>2

LEMMA GivenAlias ==
    ASSUME NEW t, Mirror(t), NEW x \in Confs, NEW u, u = WithAlias(t, x),
           t.alias[x] # 0 \/ FreeAliases(t) # {}
    PROVE  /\ Mirror(u)
           /\ u.alias[x] # 0
           /\ \A y \in Confs : y # x \/ t.alias[y] # 0 => u.alias[y] = t.alias[y]
<1>1. CASE t.alias[x] # 0
  BY <1>1 DEF WithAlias
<1>2. CASE t.alias[x] = 0
  <2> DEFINE a == FirstEmptyAlias(t)
  <2>1. a \in Aliases /\ t.rev[a] = 0
    <3>1. FreeAliases(t) \in SUBSET Nat /\ FreeAliases(t) # {}
      BY <1>2 DEF FreeAliases, Aliases
    <3>2. \E n \in FreeAliases(t) : \A k \in FreeAliases(t) : n <= k
      BY <3>1, LeastNumber
    <3>3. FirstEmptyAlias(t) \in FreeAliases(t)
      BY <3>2 DEF FirstEmptyAlias
    <3> QED BY <3>3 DEF FreeAliases
  <2>2. u.alias = [t.alias EXCEPT ![x] = a] /\ u.rev = [t.rev EXCEPT ![a] = x]
    BY <1>2 DEF WithAlias
  <2> HIDE DEF a
  <2>3. u.alias[x] = a /\ \A y \in Confs : y # x => u.alias[y] = t.alias[y]
    BY <2>2 DEF Mirror
  <2>4. u.rev[a] = x /\ \A b \in Aliases : b # a => u.rev[b] = t.rev[b]
    BY <2>1, <2>2 DEF Mirror
  <2>5. a \in 1 .. MaxConf - 1 /\ x \in 1 .. MaxConf
    BY <2>1 DEF Aliases, Confs
  <2>6. u.alias \in [Confs -> 0 .. MaxConf - 1] /\ u.rev \in [Aliases -> 0 .. MaxConf]
    BY <2>1, <2>2, <2>5, MaxConfAssumption DEF Mirror
  <2>7. ASSUME NEW y \in Confs, u.alias[y] # 0 PROVE u.rev[u.alias[y]] = y
    <3>1. CASE y = x
      BY <2>3, <2>4, <3>1
    <3>2. CASE y # x
      <4>1. t.alias[y] # 0 /\ u.alias[y] = t.alias[y]
        BY <2>3, <2>7, <3>2
      <4>2. t.alias[y] \in Aliases /\ t.rev[t.alias[y]] = y
        BY <4>1 DEF Mirror, Aliases
      <4>3. y # 0
        BY DEF Confs
      <4> QED BY <2>1, <2>4, <4>1, <4>2, <4>3
    <3> QED BY <3>1, <3>2
  <2>8. ASSUME NEW b \in Aliases, u.rev[b] # 0 PROVE u.alias[u.rev[b]] = b
    <3>1. CASE b = a
      BY <2>3, <2>4, <3>1
    <3>2. CASE b # a
      <4>1. t.rev[b] # 0 /\ u.rev[b] = t.rev[b]
        BY <2>4, <2>8, <3>2
      <4>2. t.rev[b] \in Confs /\ t.alias[t.rev[b]] = b
        BY <4>1 DEF Mirror, Confs
      <4>3. b # 0
        BY DEF Aliases
      <4> QED BY <1>2, <2>3, <4>1, <4>2, <4>3
    <3> QED BY <3>1, <3>2
  <2>9. a # 0
    BY <2>5
  <2> QED BY <1>2, <2>3, <2>6, <2>7, <2>8, <2>9 DEF Mirror
<1> QED BY <1>1, <1>2

\* What is left once the tables have been put.
LEMMA TablesPut ==
    ASSUME NEW t, Mirror(t), PutTables(t)
    PROVE  TablesInv' /\ maxconfs' \in 0 .. MaxConf
<1>1. Mirror(t) => Mirror([alias |-> t.alias, rev |-> t.rev])
  BY DEF Mirror
<1>2. maxconfs' \in 0 .. MaxConf
  BY MaxconfsType DEF PutTables, Mirror
<1> QED BY <1>1, <1>2 DEF PutTables, TablesInv, Tables

LEMMA TablesType ==
    ASSUME NEW t, Mirror(t), PutTables(t)
    PROVE  /\ confalias' \in [Confs -> 0 .. MaxConf - 1]
           /\ confrev' \in [Aliases -> 0 .. MaxConf]
BY DEF Mirror, PutTables

\* What DAHDI_SETCONF asks of the tables: t, na and md are the tables, confna and
\* confmode it leaves.
Asks(i, n, mode, t, na, md) ==
    /\ i \in Channels /\ n \in 0 .. MaxConf
    /\ na = [confna EXCEPT ![i] = n] /\ md = [confmode EXCEPT ![i] = mode]
    /\ t = SetTables(i, n, mode)
    /\ IsConference(mode) => n \in Confs /\ (confalias[n] # 0 \/ FreeAliases(Tables) # {})

\* The members dahdi_check_conf() sees.
Seen(y, na, md) == Below(maxchans, MembersOf(y, registered, na, md))

\* What it gets: a conference without members in sight loses its alias, the new one has
\* one, and no other conference notices.
Gets(i, n, mode, t, na, md) ==
    /\ Mirror(t)
    /\ n # 0 /\ IsConference(mode) => t.alias[n] # 0
    /\ \A y \in Confs :
          /\ y \notin {n, confna[i]} => t.alias[y] = confalias[y]
          /\ Seen(y, na, md) # {} =>
                t.alias[y] = confalias[y]
                  \/ (y = n /\ n # 0 /\ IsConference(mode) /\ confalias[y] = 0)
          /\ (y \in {n, confna[i]} /\ Seen(y, na, md) = {}
                /\ (y # n \/ ~IsConference(mode))) => t.alias[y] = 0

LEMMA SetTablesType ==
    ASSUME TypeOK, TablesInv, NEW i, NEW n, NEW mode, NEW t, NEW na, NEW md,
           Asks(i, n, mode, t, na, md)
    PROVE  Gets(i, n, mode, t, na, md)
<1> USE DEF Asks, Gets
<1> DEFINE M(y) == Seen(y, na, md)
<1>1. PICK t1 : t1 = CheckConf(Tables, confna[i], M(confna[i]))
  OBVIOUS
<1>2. PICK t2 : t2 = CheckConf(t1, n, M(n))
  OBVIOUS
<1>3. t = IF n # 0 /\ IsConference(mode) THEN WithAlias(t2, n) ELSE t2
  BY <1>1, <1>2 DEF SetTables, Seen
<1> HIDE DEF M
<1>4. Mirror(Tables) /\ \A y \in Confs : Tables.alias[y] = confalias[y]
  BY DEF TablesInv, Tables
<1>5. /\ Mirror(t1)
      /\ \A y \in Confs : y # confna[i] \/ M(confna[i]) # {} => t1.alias[y] = confalias[y]
      /\ confna[i] \in Confs /\ M(confna[i]) = {} => t1.alias[confna[i]] = 0
      /\ FreeAliases(Tables) \subseteq FreeAliases(t1)
      /\ \A y \in Confs : confalias[y] # 0 => t1.alias[y] # 0 \/ FreeAliases(t1) # {}
  BY <1>1, <1>4, CheckedConf
<1>6. /\ Mirror(t2)
      /\ \A y \in Confs : y # n \/ M(n) # {} => t2.alias[y] = t1.alias[y]
      /\ n \in Confs /\ M(n) = {} => t2.alias[n] = 0
      /\ FreeAliases(t1) \subseteq FreeAliases(t2)
      /\ \A y \in Confs : t1.alias[y] # 0 => t2.alias[y] # 0 \/ FreeAliases(t2) # {}
  BY <1>2, <1>5, CheckedConf
<1>7. CASE n # 0 /\ IsConference(mode)
  <2>1. n \in Confs /\ (t2.alias[n] # 0 \/ FreeAliases(t2) # {})
    BY <1>5, <1>6, <1>7
  <2>2. /\ Mirror(t)
        /\ t.alias[n] # 0
        /\ \A y \in Confs : y # n \/ t2.alias[y] # 0 => t.alias[y] = t2.alias[y]
    BY <1>3, <1>6, <1>7, <2>1, GivenAlias
  <2>3. ASSUME NEW y \in Confs
        PROVE  /\ y \notin {n, confna[i]} => t.alias[y] = confalias[y]
               /\ M(y) # {} => t.alias[y] = confalias[y] \/ (y = n /\ confalias[y] = 0)
               /\ y \in {n, confna[i]} /\ M(y) = {} /\ y # n => t.alias[y] = 0
    BY <1>5, <1>6, <2>2
  <2> QED BY <1>7, <2>2, <2>3 DEF M
<1>8. CASE ~(n # 0 /\ IsConference(mode))
  <2>1. t = t2
    BY <1>3, <1>8
  <2>2. ASSUME NEW y \in Confs
        PROVE  /\ y \notin {n, confna[i]} => t.alias[y] = confalias[y]
               /\ M(y) # {} => t.alias[y] = confalias[y]
               /\ y \in {n, confna[i]} /\ M(y) = {} => t.alias[y] = 0
    BY <1>5, <1>6, <2>1
  <2> QED BY <1>6, <1>8, <2>1, <2>2 DEF M
<1> QED BY <1>7, <1>8

-----------------------------------------------------------------------------
(* DAHDI_SETCONF.                                                          *)

\* What users ask for.
Asked(i, n, mode) ==
    /\ i \in Channels /\ n \in 0 .. MaxConf /\ mode \in ConfModes \cup {Normal}
    /\ IsConference(mode) => n \in Confs

LEMMA NormalIsNone == ~IsConference(Normal)
BY DEF Normal, Mode, IsConference

LEMMA SetConfIsPut ==
    ASSUME TypeOK, SetConf
    PROVE  \E i, n, mode : Asked(i, n, mode) /\ Put(i, n, mode)
<1>1. \A n \in Numbers \cup Channels : n \in Confs /\ n \in 0 .. MaxConf
  BY NumberAssumption, ChannelAssumption DEF Confs
<1>2. PICK i \in Channels :
          \/ \E n \in Numbers, mode \in ConfModes : Join(i, n, mode)
          \/ \E mode \in ConfModes : JoinFirstEmpty(i, mode)
          \/ \E n \in Channels, mode \in ConfModes : Monitor(i, n, mode)
          \/ Leave(i)
  BY DEF SetConf
<1>3. ASSUME NEW n \in Numbers, NEW mode \in ConfModes, Join(i, n, mode)
      PROVE  Asked(i, n, mode) /\ Put(i, n, mode)
  BY <1>1, <1>3 DEF Join, Asked
<1>4. ASSUME NEW mode \in ConfModes, JoinFirstEmpty(i, mode)
      PROVE  Asked(i, FirstEmptyConf, mode) /\ Put(i, FirstEmptyConf, mode)
  <2>1. FreeConfs # {} /\ FreeConfs \in SUBSET Aliases
    BY <1>4 DEF JoinFirstEmpty, FreeConfs
  <2>2. \E x \in FreeConfs : \A y \in FreeConfs : y <= x
    BY <2>1, GreatestAlias
  <2>3. FirstEmptyConf \in FreeConfs
    BY <2>2 DEF FirstEmptyConf
  <2>4. FirstEmptyConf \in Confs /\ FirstEmptyConf \in 0 .. MaxConf
    BY <2>1, <2>3, MaxConfAssumption DEF Aliases, Confs
  <2> QED BY <1>4, <2>4 DEF JoinFirstEmpty, Asked
<1>5. ASSUME NEW n \in Channels, NEW mode \in ConfModes, Monitor(i, n, mode)
      PROVE  Asked(i, n, mode) /\ Put(i, n, mode)
  BY <1>1, <1>5 DEF Monitor, Asked
<1>6. ASSUME Leave(i) PROVE Asked(i, 0, Normal) /\ Put(i, 0, Normal)
  BY <1>6, NormalIsNone, MaxConfAssumption DEF Leave, Asked
<1> QED BY <1>2, <1>3, <1>4, <1>5, <1>6

\* Whoever is in a conference after a step that is not torn: the conference was not torn
\* before, nobody was about to clear it while it was empty, and a look for its members
\* has found one.
LEMMA Untorn ==
    ASSUME NEW L, Record(L), NEW x \in Confs, x \notin torn',
           MembersOf(x, registered', confna', confmode') # {}
    PROVE  x \notin torn /\ ~JoinedLate(x) /\ (x \in L => ~OutOfReach(x))
BY DEF Record, Members

\* Whoever is about to clear a conference after a step was so before, or has just looked
\* for its members in vain.
Looks(L) ==
    \A c \in Channels, x \in Confs :
        pending'[c].conf = x => pending[c].conf = x \/ (x \in L /\ OutOfReach(x))

LEMMA StillNobody ==
    ASSUME NobodyLeft, TypeOK', NEW L, Record(L), Looks(L)
    PROVE  NobodyLeft'
<1> SUFFICES ASSUME NEW c \in Channels, NEW x, x = pending'[c].conf, x # 0, x \notin torn',
                    MembersOf(x, registered', confna', confmode') # {}
             PROVE  FALSE
  BY DEF NobodyLeft, Members
<1>1. x \in Confs
  BY DEF TypeOK, Confs
<1>2. x \notin torn /\ ~JoinedLate(x) /\ (x \in L => ~OutOfReach(x))
  BY <1>1, Untorn
<1>3. pending[c].conf = x
  BY <1>1, <1>2 DEF Looks
<1>4. Members(x) = {}
  BY <1>2, <1>3 DEF NobodyLeft
<1> QED BY <1>2, <1>3, <1>4 DEF JoinedLate

LEMMA PutInv ==
    ASSUME IInv, NEW i, NEW n, NEW mode, Asked(i, n, mode), Put(i, n, mode)
    PROVE  IInv'
<1>1. PICK t : t = SetTables(i, n, mode)
  OBVIOUS
<1>2. /\ confna' = [confna EXCEPT ![i] = n]
      /\ confmode' = [confmode EXCEPT ![i] = mode]
      /\ _confn' = [_confn EXCEPT ![i] = IF n # 0 /\ IsConference(mode) THEN t.alias[n] ELSE 0]
      /\ PutTables(t)
      /\ i \in registered
      /\ IsConference(mode) => confalias[n] # 0 \/ FreeAliases(Tables) # {}
      /\ UNCHANGED <<registered, maxchans, open, pending>>
      /\ Record({confna[i], n})
  BY <1>1 DEF Put
<1>3. TypeOK /\ TablesInv /\ MembersInv /\ OwnAccumulator /\ NobodyLeft
  BY DEF IInv
<1>4. i \in Channels /\ n \in 0 .. MaxConf /\ (IsConference(mode) => n \in Confs)
  BY DEF Asked
<1> DEFINE M(y) == MembersOf(y, registered, confna', confmode')
<1>5. /\ Mirror(t)
      /\ n # 0 /\ IsConference(mode) => t.alias[n] # 0
      /\ \A y \in Confs :
            /\ y \notin {n, confna[i]} => t.alias[y] = confalias[y]
            /\ Below(maxchans, M(y)) # {} =>
                  t.alias[y] = confalias[y]
                    \/ (y = n /\ n # 0 /\ IsConference(mode) /\ confalias[y] = 0)
  <2>1. PICK na, md : na = confna' /\ md = confmode'
    OBVIOUS
  <2>2. na = [confna EXCEPT ![i] = n] /\ md = [confmode EXCEPT ![i] = mode]
    BY <1>2, <2>1
  <2>3. IsConference(mode) => n \in Confs /\ (confalias[n] # 0 \/ FreeAliases(Tables) # {})
    BY <1>2, <1>4
  <2>4. Gets(i, n, mode, t, na, md)
    <3>1. Asks(i, n, mode, t, na, md)
      BY <1>1, <1>4, <2>2, <2>3 DEF Asks
    <3> QED BY <1>3, <3>1, SetTablesType
  <2> QED BY <2>1, <2>4 DEF Gets, Seen
<1> HIDE DEF M
<1>6. TablesInv' /\ maxconfs' \in 0 .. MaxConf
  BY <1>2, <1>5, TablesPut
<1>7. confalias' \in [Confs -> 0 .. MaxConf - 1] /\ confrev' \in [Aliases -> 0 .. MaxConf]
  BY <1>2, <1>5, TablesType
<1>8. TypeOK'
  <2>1. n # 0 /\ IsConference(mode) => t.alias[n] \in 0 .. MaxConf - 1
    BY <1>4, <1>5 DEF Mirror
  <2>2. 0 \in 0 .. MaxConf - 1
    BY MaxConfAssumption
  <2>3. _confn' \in [Channels -> 0 .. MaxConf - 1]
    BY <1>2, <1>3, <2>1, <2>2 DEF TypeOK
  <2>4. confna' \in [Channels -> 0 .. MaxConf] /\ confmode' \in [Channels -> ConfModes \cup {Normal}]
    BY <1>2, <1>3 DEF TypeOK, Asked
  <2>5. torn' \in SUBSET Confs
    BY <1>2 DEF Record
  <2> QED BY <1>2, <1>3, <1>6, <1>7, <2>3, <2>4, <2>5 DEF TypeOK
<1>9. \A c \in Channels : /\ confna'[c] = IF c = i THEN n ELSE confna[c]
                          /\ confmode'[c] = IF c = i THEN mode ELSE confmode[c]
                          /\ c # i => _confn'[c] = _confn[c]
  BY <1>2, <1>3 DEF TypeOK
<1>10. MembersInv'
  BY <1>2, <1>3, <1>4, <1>9 DEF MembersInv
<1>11. NobodyLeft'
  <2>1. Looks({confna[i], n})
    BY <1>2 DEF Looks
  <2> QED BY <1>2, <1>3, <1>8, <2>1, StillNobody
<1>12. OwnAccumulator'
  <2>1. confalias' = t.alias /\ registered' = registered /\ maxchans' = maxchans
    BY <1>2 DEF PutTables
  <2>2. ASSUME NEW c \in registered, IsConference(confmode'[c]), confna'[c] \notin torn'
        PROVE  confalias'[confna'[c]] # 0 /\ _confn'[c] = confalias'[confna'[c]]
    <3>1. c \in Channels
      BY <1>3 DEF TypeOK
    <3>2. PICK y : y = confna'[c]
      OBVIOUS
    <3>3. y \in Confs /\ y \notin torn'
      BY <1>10, <2>2, <3>1, <3>2 DEF MembersInv
    <3>4. M(y) # {}
      BY <2>2, <3>2 DEF M, MembersOf
    <3>5. y \notin torn /\ (y \in {confna[i], n} => Below(maxchans, M(y)) # {})
      <4>1. y \notin torn /\ (y \in {confna[i], n} => ~OutOfReach(y))
        BY <1>2, <2>1, <3>3, <3>4, Untorn DEF M
      <4>2. OutOfReach(y) <=> Below(maxchans, M(y)) = {}
        BY <2>1 DEF OutOfReach, Members, M
      <4> QED BY <4>1, <4>2
    <3>6. t.alias[y] = confalias[y]
             \/ (y = n /\ n # 0 /\ IsConference(mode) /\ confalias[y] = 0)
      BY <1>5, <3>3, <3>5
    <3>7. CASE c = i
      <4>1. IsConference(mode) /\ y = n /\ n # 0
        BY <1>4, <1>9, <2>2, <3>1, <3>2, <3>7 DEF Confs
      <4>2. _confn'[c] = t.alias[n]
        BY <1>2, <1>3, <3>1, <3>7, <4>1 DEF TypeOK
      <4> QED BY <1>5, <2>1, <3>2, <4>1, <4>2
    <3>8. CASE c # i
      <4>1. IsConference(confmode[c]) /\ confna[c] = y /\ _confn'[c] = _confn[c]
        BY <1>9, <2>2, <3>1, <3>2, <3>8
      <4>2. confalias[y] # 0 /\ _confn[c] = confalias[y]
        BY <1>3, <3>5, <4>1 DEF OwnAccumulator, InPlace
      <4> QED BY <2>1, <3>2, <3>6, <4>1, <4>2
    <3> QED BY <3>7, <3>8
  <2> QED BY <2>1, <2>2 DEF OwnAccumulator, InPlace
<1> QED BY <1>6, <1>8, <1>10, <1>11, <1>12 DEF IInv

-----------------------------------------------------------------------------
(* Opening and closing.                                                    *)

Pend == [op : {"none", "open", "close", "unreg"}, conf : 0 .. MaxConf]

\* Whoever is in a conference after the step was in it before.
NobodyComes ==
    \A c \in Channels : IsConference(confmode'[c]) =>
        /\ c \in registered => c \in registered'
        /\ confmode'[c] = confmode[c] /\ confna'[c] = confna[c] /\ _confn'[c] = _confn[c]

LEMMA NobodyJoins ==
    ASSUME IInv, registered' \subseteq Channels, NobodyComes
    PROVE  /\ MembersInv'
           /\ \A x : MembersOf(x, registered', confna', confmode') \subseteq Members(x)
           /\ \A c \in registered' : IsConference(confmode'[c]) =>
                 /\ c \in registered /\ IsConference(confmode[c]) /\ confna'[c] \in Confs
                 /\ confna'[c] = confna[c] /\ _confn'[c] = _confn[c]
<1>1. MembersInv
  BY DEF IInv
<1>2. ASSUME NEW c \in Channels, IsConference(confmode'[c])
      PROVE  /\ IsConference(confmode[c]) /\ c \in registered /\ c \in registered'
             /\ confna'[c] = confna[c] /\ _confn'[c] = _confn[c] /\ confna'[c] \in Confs
  BY <1>1, <1>2 DEF MembersInv, NobodyComes
<1> QED BY <1>2 DEF MembersInv, Members, MembersOf

\* Steps in which nobody joins a conference keep members in place, if the tables stay what
\* they are for every conference with members that is not torn.
LEMMA StayInPlace ==
    ASSUME IInv, registered' \subseteq Channels, NobodyComes, NEW L, Record(L),
           \A x \in Confs : x \notin torn' /\ MembersOf(x, registered', confna', confmode') # {}
                              => confalias'[x] = confalias[x]
    PROVE  OwnAccumulator'
<1>1. OwnAccumulator
  BY DEF IInv
<1> SUFFICES ASSUME NEW c \in registered', IsConference(confmode'[c]), confna'[c] \notin torn'
             PROVE  confalias'[confna'[c]] # 0 /\ _confn'[c] = confalias'[confna'[c]]
  BY DEF OwnAccumulator, InPlace
<1>2. PICK x : x = confna[c]
  OBVIOUS
<1>3. /\ c \in registered /\ IsConference(confmode[c]) /\ x \in Confs
      /\ confna'[c] = x /\ _confn'[c] = _confn[c]
  BY <1>2, NobodyJoins
<1>4. MembersOf(x, registered', confna', confmode') # {}
  BY <1>3 DEF MembersOf
<1>5. x \notin torn /\ confalias'[x] = confalias[x]
  BY <1>3, <1>4, Untorn
<1>6. confalias[x] # 0 /\ _confn[c] = confalias[x]
  BY <1>1, <1>2, <1>3, <1>5 DEF OwnAccumulator, InPlace
<1> QED BY <1>3, <1>5, <1>6

LEMMA ClearInv ==
    ASSUME IInv, NEW c \in Channels, Clear(c)
    PROVE  IInv'
<1>1. TypeOK /\ TablesInv /\ MembersInv /\ NobodyLeft
  BY DEF IInv
<1>2. PICK x : x = pending[c].conf
  OBVIOUS
<1>3. pending \in [Channels -> Pend]
  BY <1>1 DEF TypeOK, Pend
<1>4. x \in Confs
  BY <1>2, <1>3 DEF Clear, Pend, Confs
<1>5. PICK t : t = Empty(Tables, x)
  OBVIOUS
<1>6. /\ PutTables(t)
      /\ pending' = [pending EXCEPT ![c].conf = 0]
      /\ UNCHANGED <<registered, maxchans, open, confna, confmode, _confn>>
      /\ Record({})
  BY <1>2, <1>5 DEF Clear
<1>7. Mirror(Tables) /\ \A y \in Confs : Tables.alias[y] = confalias[y]
  BY <1>1 DEF TablesInv, Tables
<1>8. Mirror(t) /\ \A y \in Confs : y # x => t.alias[y] = confalias[y]
  BY <1>4, <1>5, <1>7, EmptyConf
<1>9. TablesInv' /\ maxconfs' \in 0 .. MaxConf
  BY <1>6, <1>8, TablesPut
<1>10. confalias' \in [Confs -> 0 .. MaxConf - 1] /\ confrev' \in [Aliases -> 0 .. MaxConf]
  BY <1>6, <1>8, TablesType
<1>11. pending' \in [Channels -> Pend]
  BY <1>3, <1>6, MaxConfAssumption DEF Pend
<1>12. TypeOK'
  <2>1. torn' \in SUBSET Confs
    BY <1>6 DEF Record
  <2> QED BY <1>1, <1>6, <1>9, <1>10, <1>11, <2>1 DEF TypeOK, Pend
<1>13. registered' \subseteq Channels /\ NobodyComes
  BY <1>1, <1>6 DEF NobodyComes, TypeOK
<1>14. OwnAccumulator'
  <2>1. ASSUME NEW y \in Confs, y \notin torn',
               MembersOf(y, registered', confna', confmode') # {}
        PROVE  confalias'[y] = confalias[y]
    <3>1. y \notin torn /\ Members(y) # {}
      BY <1>6, <2>1, Untorn DEF Members
    <3>2. y # x
      BY <1>1, <1>2, <1>4, <3>1 DEF NobodyLeft, Confs
    <3> QED BY <1>6, <1>8, <3>2 DEF PutTables
  <2> QED BY <1>6, <1>13, <2>1, StayInPlace
<1>15. NobodyLeft'
  <2>1. \A d \in Channels : pending'[d].conf \in {0, pending[d].conf}
    BY <1>3, <1>6 DEF Pend
  <2>2. Looks({})
    BY <2>1 DEF Looks, Confs
  <2> QED BY <1>1, <1>6, <1>12, <2>2, StillNobody
<1> QED BY <1>9, <1>12, <1>13, <1>14, <1>15, NobodyJoins DEF IInv

LEMMA ToClearType ==
    ASSUME NEW x, NEW M
    PROVE  /\ ToClear(x, M) \in 0 .. MaxConf
           /\ ToClear(x, M) # 0 => ToClear(x, M) = x /\ M = {}
BY MaxConfAssumption DEF ToClear, Confs

\* Steps that leave the tables alone, and in which nobody joins a conference.
LEMMA TablesKept ==
    ASSUME IInv, TypeOK', UNCHANGED <<confalias, confrev, maxconfs>>,
           NobodyComes, NEW L, Record(L), Looks(L)
    PROVE  IInv'
<1>1. registered' \subseteq Channels
  BY DEF TypeOK
<1>2. MembersInv' /\ OwnAccumulator'
  BY <1>1, NobodyJoins, StayInPlace
<1>3. NobodyLeft'
  BY StillNobody DEF IInv
<1>4. TablesInv'
  BY DEF IInv, TablesInv, Tables
<1> QED BY <1>2, <1>3, <1>4 DEF IInv

\* The look for members of the conference of c, or of the conference with the number c,
\* and what c is in after it.
Looked(c, op, y, M) ==
    /\ pending' = [pending EXCEPT ![c] = [op |-> op, conf |-> ToClear(y, M)]]
    /\ op \in {"none", "open", "close", "unreg"}
    /\ Below(maxchans', MembersOf(y, registered', confna', confmode')) \subseteq M

LEMMA LookedAt ==
    ASSUME IInv, NEW c \in Channels, NEW op, NEW y, NEW M, Looked(c, op, y, M)
    PROVE  /\ pending' \in [Channels -> Pend]
           /\ Looks({y})
<1>1. pending \in [Channels -> Pend]
  BY DEF IInv, TypeOK, Pend
<1>2. PICK x : x = ToClear(y, M)
  OBVIOUS
<1>3. x \in 0 .. MaxConf /\ (x # 0 => x = y /\ M = {})
  BY <1>2, ToClearType
<1>4. pending' = [pending EXCEPT ![c] = [op |-> op, conf |-> x]]
        /\ [op |-> op, conf |-> x] \in Pend
  BY <1>2, <1>3 DEF Looked, Pend
<1>5. pending' \in [Channels -> Pend]
  BY <1>1, <1>4
<1>6. \A d \in Channels : pending'[d].conf = IF d = c THEN x ELSE pending[d].conf
  BY <1>1, <1>4
<1>7. x # 0 => x \in {y} /\ OutOfReach(x)
  BY <1>3 DEF Looked, OutOfReach, Members
<1> QED BY <1>5, <1>6, <1>7 DEF Looks, Confs

LEMMA OpenInv ==
    ASSUME IInv, NEW c \in Channels, Open(c)
    PROVE  IInv'
<1>1. TypeOK
  BY DEF IInv
<1>2. PICK y, M : y = confna[c] /\ M = Below(maxchans, Members(y))
  OBVIOUS
<1>3. /\ open' = open \cup {c} /\ c \in registered
      /\ pending' = [pending EXCEPT ![c] = [op |-> "open", conf |-> ToClear(y, M)]]
      /\ UNCHANGED <<registered, maxchans, confna, confmode, _confn, confalias, confrev, maxconfs>>
      /\ Record({y})
  BY <1>2 DEF Open
<1>4. Looked(c, "open", y, M)
  BY <1>2, <1>3 DEF Looked, Members
<1>5. pending' \in [Channels -> Pend] /\ Looks({y})
  BY <1>4, LookedAt
<1>6. TypeOK'
  <2>1. torn' \in SUBSET Confs
    BY <1>3 DEF Record
  <2> QED BY <1>1, <1>3, <1>5, <2>1 DEF TypeOK, Pend
<1>7. NobodyComes
  BY <1>3 DEF NobodyComes
<1> QED BY <1>3, <1>5, <1>6, <1>7, TablesKept

LEMMA IdleType == Idle \in Pend /\ Idle.conf = 0 /\ Idle.op = "none"
BY MaxConfAssumption DEF Idle, Pend

\* A channel that leaves whatever it was in.
Leaves(d) ==
    /\ confna'   = [confna   EXCEPT ![d] = 0]
    /\ confmode' = [confmode EXCEPT ![d] = Normal]
    /\ _confn'   = [_confn   EXCEPT ![d] = 0]

LEMMA LeavesType ==
    ASSUME IInv, NEW d \in Channels, Leaves(d), registered \subseteq registered' \cup {d}
    PROVE  /\ confna' \in [Channels -> 0 .. MaxConf]
           /\ _confn' \in [Channels -> 0 .. MaxConf - 1]
           /\ confmode' \in [Channels -> ConfModes \cup {Normal}]
           /\ \A c \in Channels :
                 /\ confmode'[c] = IF c = d THEN Normal ELSE confmode[c]
                 /\ c # d => confna'[c] = confna[c] /\ _confn'[c] = _confn[c]
           /\ NobodyComes
<1>1. TypeOK
  BY DEF IInv
<1>2. 0 \in 0 .. MaxConf - 1 /\ 0 \in 0 .. MaxConf
  BY MaxConfAssumption
<1>3. \A c \in Channels :
          /\ confmode'[c] = IF c = d THEN Normal ELSE confmode[c]
          /\ c # d => confna'[c] = confna[c] /\ _confn'[c] = _confn[c]
  BY <1>1 DEF TypeOK, Leaves
<1>4. NobodyComes
  BY <1>3, NormalIsNone DEF NobodyComes
<1> QED BY <1>1, <1>2, <1>3, <1>4 DEF TypeOK, Leaves

\* Opening ends, or a pseudo channel is gone.
LEMMA OpenedInv ==
    ASSUME IInv, NEW c \in Channels, Opened(c)
    PROVE  IInv'
<1>1. TypeOK
  BY DEF IInv
<1>2. Leaves(c) /\ registered' = registered /\ Record({})
  BY DEF Opened, Leaves
<1>3. pending' \in [Channels -> Pend]
  BY <1>1, IdleType DEF TypeOK, Opened, Pend
<1>4. TypeOK'
  <2>1. torn' \in SUBSET Confs
    BY <1>2 DEF Record
  <2> QED BY <1>1, <1>2, <1>3, <2>1, LeavesType DEF TypeOK, Pend, Opened
<1>5. Looks({})
  BY <1>1, IdleType DEF Looks, Opened, TypeOK, Confs
<1> QED BY <1>2, <1>4, <1>5, LeavesType, TablesKept DEF Opened

LEMMA UnregisterInv ==
    ASSUME IInv, NEW c \in Channels, Unregister(c)
    PROVE  IInv'
<1>1. TypeOK
  BY DEF IInv
<1>2. Leaves(c) /\ registered' = registered \ {c} /\ Record({})
  BY DEF Unregister, Leaves
<1>3. pending' \in [Channels -> Pend]
  BY <1>1, MaxConfAssumption DEF TypeOK, Unregister, Pend
<1>4. TypeOK'
  <2>1. torn' \in SUBSET Confs /\ maxchans' \in 0 .. MaxConf + 1
    BY <1>2, MaxConfAssumption DEF Record, Unregister
  <2> QED BY <1>1, <1>2, <1>3, <2>1, LeavesType DEF TypeOK, Pend, Unregister
<1>5. Looks({})
  BY <1>1 DEF Looks, Unregister, TypeOK, Confs
<1> QED BY <1>2, <1>4, <1>5, LeavesType, TablesKept DEF Unregister

LEMMA CloseInv ==
    ASSUME IInv, NEW c \in Channels, Close(c)
    PROVE  IInv'
<1>1. TypeOK
  BY DEF IInv
<1>2. PICK y, M : y = confna[c]
                    /\ M = Below(maxchans, MembersOf(y, registered, confna', confmode'))
  OBVIOUS
<1>3. /\ pending' = [pending EXCEPT ![c] = [op |-> "close", conf |-> ToClear(y, M)]]
      /\ UNCHANGED <<registered, maxchans, open, confalias, confrev, maxconfs>>
      /\ Record({y}) /\ Leaves(c)
  BY <1>2 DEF Close, Leaves
<1>4. Looked(c, "close", y, M)
  BY <1>2, <1>3 DEF Looked
<1>5. pending' \in [Channels -> Pend] /\ Looks({y})
  BY <1>4, LookedAt
<1>6. TypeOK'
  <2>1. torn' \in SUBSET Confs
    BY <1>3 DEF Record
  <2> QED BY <1>1, <1>3, <1>5, <2>1, LeavesType DEF TypeOK, Pend
<1> QED BY <1>3, <1>5, <1>6, LeavesType, TablesKept

\* Steps in which the memberships stay what they are and nothing is pending anew.
LEMMA MembersKept ==
    ASSUME IInv, TypeOK', registered \subseteq registered', Record({}),
           UNCHANGED <<confna, confmode, _confn, confalias, confrev, maxconfs>>,
           \A d \in Channels : pending'[d] \in {pending[d], Idle}
    PROVE  IInv'
<1>1. NobodyComes
  BY DEF NobodyComes
<1>2. Looks({})
  BY IdleType DEF Looks, Confs
<1> QED BY <1>1, <1>2, TablesKept

LEMMA OpenPseudoInv ==
    ASSUME IInv, NEW c \in Channels, OpenPseudo(c)
    PROVE  IInv'
<1>1. TypeOK
  BY DEF IInv
<1>2. maxchans' \in 0 .. MaxConf + 1 /\ torn' \in SUBSET Confs
  BY <1>1, ChannelAssumption, MaxConfAssumption DEF TypeOK, OpenPseudo, Record
<1>3. TypeOK'
  BY <1>1, <1>2 DEF TypeOK, OpenPseudo
<1> QED BY <1>3, MembersKept DEF OpenPseudo

LEMMA ReleaseInv ==
    ASSUME IInv, NEW c \in Channels, Release(c)
    PROVE  IInv'
<1>1. TypeOK
  BY DEF IInv
<1>2. TypeOK'
  <2>1. torn' \in SUBSET Confs
    BY DEF Record, Release
  <2> QED BY <1>1, <2>1, IdleType DEF TypeOK, Release, Pend
<1>3. \A d \in Channels : pending'[d] \in {pending[d], Idle}
  BY <1>1 DEF TypeOK, Release
<1> QED BY <1>2, <1>3, MembersKept DEF Release

LEMMA UnregisteredInv ==
    ASSUME IInv, NEW c \in Channels, Unregistered(c)
    PROVE  IInv'
<1>1. TypeOK
  BY DEF IInv
<1>2. TypeOK'
  <2>1. torn' \in SUBSET Confs
    BY DEF Record, Unregistered
  <2> QED BY <1>1, <2>1, IdleType DEF TypeOK, Unregistered, Pend
<1>3. \A d \in Channels : pending'[d] \in {pending[d], Idle}
  BY <1>1 DEF TypeOK, Unregistered
<1> QED BY <1>2, <1>3, MembersKept DEF Unregistered

\* The channel dahdi_chan_unreg() counts next.
LEMMA NextIsThere ==
    ASSUME TypeOK, Uncounted # {}
    PROVE  /\ NextUncounted \in Channels
           /\ NextUncounted + 1 \in 0 .. MaxConf + 1
<1>1. Uncounted \in SUBSET Channels
  BY DEF Uncounted, TypeOK
<1>2. Uncounted \in SUBSET Nat
  BY <1>1, ChannelAssumption
<1>3. \E d \in Uncounted : \A e \in Uncounted : d <= e
  BY <1>2, LeastNumber
<1>4. NextUncounted \in Uncounted
  BY <1>3 DEF NextUncounted
<1>5. NextUncounted \in 1 .. MaxConf
  BY <1>1, <1>4, ChannelAssumption
<1> QED BY <1>1, <1>4, <1>5, MaxConfAssumption

LEMMA PassByInv ==
    ASSUME IInv, NEW c \in Channels, PassBy(c)
    PROVE  IInv'
<1>1. TypeOK
  BY DEF IInv
<1>2. TypeOK'
  <2>1. torn' \in SUBSET Confs /\ maxchans' \in 0 .. MaxConf + 1
    BY <1>1, NextIsThere DEF Record, PassBy
  <2> QED BY <1>1, <2>1 DEF TypeOK, PassBy
<1> QED BY <1>2, MembersKept DEF PassBy

LEMMA FreeWatcherInv ==
    ASSUME IInv, NEW c \in Channels, FreeWatcher(c)
    PROVE  IInv'
<1>1. TypeOK
  BY DEF IInv
<1>2. PICK d, M : d = NextUncounted /\ M = Below(d + 1, Members(c))
  OBVIOUS
<1>3. /\ Uncounted # {} /\ Watches(d, c) /\ maxchans' = d + 1
      /\ pending' = [pending EXCEPT ![c].conf = ToClear(c, M)]
      /\ pending[c] = [op |-> "unreg", conf |-> 0]
      /\ Leaves(d) /\ Record({c})
      /\ UNCHANGED <<registered, open, confalias, confrev, maxconfs>>
  BY <1>2 DEF FreeWatcher, Leaves
<1>4. d \in Channels /\ maxchans' \in 0 .. MaxConf + 1
  BY <1>1, <1>2, <1>3, NextIsThere
<1>5. NobodyComes /\ registered' \subseteq Channels
  BY <1>1, <1>3, <1>4, LeavesType DEF TypeOK
<1>6. Looked(c, "unreg", c, M)
  <2>1. pending' = [pending EXCEPT ![c] = [op |-> "unreg", conf |-> ToClear(c, M)]]
    <3>1. pending \in [Channels -> Pend]
      BY <1>1 DEF TypeOK, Pend
    <3>2. [pending[c] EXCEPT !.conf = ToClear(c, M)] = [op |-> "unreg", conf |-> ToClear(c, M)]
      BY <1>3
    <3> QED BY <1>3, <3>1, <3>2
  <2>2. MembersOf(c, registered', confna', confmode') \subseteq Members(c)
    BY <1>5, NobodyJoins
  <2>3. Below(maxchans', MembersOf(c, registered', confna', confmode')) \subseteq M
    BY <1>2, <1>3, <2>2 DEF Below
  <2> QED BY <2>1, <2>3 DEF Looked
<1>7. pending' \in [Channels -> Pend] /\ Looks({c})
  BY <1>6, LookedAt
<1>8. TypeOK'
  <2>1. torn' \in SUBSET Confs
    BY <1>3 DEF Record
  <2> QED BY <1>1, <1>3, <1>4, <1>7, <2>1, LeavesType DEF TypeOK, Pend
<1> QED BY <1>3, <1>5, <1>7, <1>8, TablesKept

-----------------------------------------------------------------------------

LEMMA InitInv == Init => IInv
<1> SUFFICES ASSUME Init PROVE IInv
  OBVIOUS
<1>1. 0 \in 0 .. MaxConf /\ 0 \in 0 .. MaxConf - 1
  BY MaxConfAssumption
<1>2. TypeOK
  <2>1. registered \in SUBSET Channels /\ open \in SUBSET registered
    BY ChannelAssumption DEF Init, Channels
  <2>2. maxchans \in 0 .. MaxConf + 1
    <3>1. CASE registered = {}
      BY <3>1, MaxConfAssumption DEF Init
    <3>2. CASE registered # {}
      <4>1. registered \in SUBSET (0 .. MaxConf)
        BY <2>1, ChannelAssumption
      <4>2. \E c \in registered : \A d \in registered : d <= c
        BY <3>2, <4>1, MaxConfAssumption, GreatestNumber
      <4>3. PICK top : top = CHOOSE c \in registered : \A d \in registered : d <= c
        OBVIOUS
      <4>4. top \in registered
        BY <4>2, <4>3
      <4>5. maxchans = 1 + top
        BY <3>2, <4>3 DEF Init
      <4> QED BY <4>1, <4>4, <4>5, MaxConfAssumption
    <3> QED BY <3>1, <3>2
  <2> QED BY <1>1, <2>1, <2>2, IdleType DEF Init, TypeOK, Pend
<1>3. TablesInv
  <2>1. Mirror(Tables)
    BY <1>1 DEF Init, Mirror, Tables
  <2>2. recalc_maxconfs(confrev) = 0
    BY DEF Init, recalc_maxconfs
  <2> QED BY <2>1, <2>2 DEF Init, TablesInv
<1>4. \A c \in Channels : ~IsConference(confmode[c]) /\ pending[c] = Idle
  BY NormalIsNone DEF Init
<1>5. MembersInv /\ OwnAccumulator /\ NobodyLeft
  BY <1>2, <1>4, IdleType DEF MembersInv, OwnAccumulator, NobodyLeft, TypeOK
<1> QED BY <1>2, <1>3, <1>5 DEF IInv

LEMMA NextInv == IInv /\ [Next]_conf_vars => IInv'
<1> SUFFICES ASSUME IInv, [Next]_conf_vars PROVE IInv'
  OBVIOUS
<1>1. CASE SetConf
  <2>1. TypeOK
    BY DEF IInv
  <2>2. PICK i, n, mode : Asked(i, n, mode) /\ Put(i, n, mode)
    BY <1>1, <2>1, SetConfIsPut
  <2> QED BY <2>2, PutInv
<1>2. CASE Lifecycle
  BY <1>2, OpenInv, ClearInv, OpenedInv, OpenPseudoInv, CloseInv, ReleaseInv, UnregisterInv,
     PassByInv, FreeWatcherInv, UnregisteredInv DEF Lifecycle
<1>3. CASE UNCHANGED conf_vars
  BY <1>3 DEF conf_vars, IInv, TypeOK, TablesInv, Tables, MembersInv, OwnAccumulator, InPlace,
              NobodyLeft, Members
<1> QED BY <1>1, <1>2, <1>3 DEF Next

LEMMA Invariance == Spec => []IInv
BY InitInv, NextInv, PTL DEF Spec

-----------------------------------------------------------------------------
(* Who strands an alias.                                                   *)

\* A conference that is leaked after a step and has not lost a member in it, nor one
\* who was about to clear it, was leaked before.
LEMMA LeakedBefore ==
    ASSUME NEW x \in Confs, Leaked(x)', confalias[x] # 0,
           \A c \in registered : confna[c] = x /\ IsConference(confmode[c]) =>
               /\ c \in registered'
               /\ confna'[c] = confna[c] /\ confmode'[c] = confmode[c],
           \A c \in Channels : pending[c].conf = x => pending'[c].conf = x
    PROVE  Leaked(x)
BY DEF Leaked, Members, MembersOf

LEMMA PutStrandsNone ==
    ASSUME IInv, NEW i, NEW n, NEW mode, Asked(i, n, mode), Put(i, n, mode),
           NEW x \in Confs, Leaked(x)'
    PROVE  Leaked(x)
<1>1. TypeOK /\ TablesInv /\ MembersInv
  BY DEF IInv
<1>2. PICK t, na, md : t = SetTables(i, n, mode) /\ na = confna' /\ md = confmode'
  OBVIOUS
<1>3. /\ na = [confna EXCEPT ![i] = n] /\ md = [confmode EXCEPT ![i] = mode]
      /\ confalias' = t.alias /\ registered' = registered /\ i \in registered
      /\ pending' = pending
      /\ IsConference(mode) => confalias[n] # 0 \/ FreeAliases(Tables) # {}
  BY <1>2 DEF Put, PutTables
<1>4. Asks(i, n, mode, t, na, md)
  BY <1>2, <1>3 DEF Asks, Asked
<1>5. Gets(i, n, mode, t, na, md)
  BY <1>1, <1>4, SetTablesType
<1>6. /\ t.alias[x] # 0
      /\ MembersOf(x, registered, na, md) = {}
  BY <1>2, <1>3 DEF Leaked, Members
<1>7. \A c \in Channels : /\ na[c] = IF c = i THEN n ELSE confna[c]
                          /\ md[c] = IF c = i THEN mode ELSE confmode[c]
  BY <1>1, <1>3 DEF TypeOK
<1>8. i \in Channels
  BY DEF Asked
<1>9. x = n => ~IsConference(mode)
  BY <1>3, <1>6, <1>7, <1>8 DEF MembersOf
<1>10. x \notin {n, confna[i]} /\ confalias[x] # 0
  <2>1. Seen(x, na, md) = {}
    BY <1>6 DEF Seen, Below
  <2> QED BY <1>5, <1>6, <1>9, <2>1 DEF Gets
<1>11. \A c \in registered : confna[c] = x => confna'[c] = confna[c] /\ confmode'[c] = confmode[c]
  BY <1>1, <1>2, <1>7, <1>10 DEF TypeOK
<1> QED BY <1>3, <1>10, <1>11, LeakedBefore

LEMMA LifecycleStrandsNone ==
    ASSUME IInv, NEW c \in Channels, NEW x \in Confs, Leaked(x)'
    PROVE  /\ Open(c) => Leaked(x)
           /\ Clear(c) => Leaked(x)
           /\ Opened(c) => Leaked(x) \/ c \in Members(x)
           /\ OpenPseudo(c) => Leaked(x)
           /\ Close(c) => Leaked(x)
           /\ Release(c) => Leaked(x)
           /\ Unregister(c) => Leaked(x) \/ c \in Members(x)
           /\ PassBy(c) => Leaked(x)
           /\ FreeWatcher(c) => Leaked(x)
           /\ Unregistered(c) => Leaked(x)
<1>1. TypeOK /\ TablesInv /\ MembersInv
  BY DEF IInv
<1>2. x # 0
  BY DEF Confs
<1>3. pending \in [Channels -> Pend]
  BY <1>1 DEF TypeOK, Pend
<1>5. confalias'[x] # 0 /\ \A d \in Channels : pending'[d].conf # x
  BY DEF Leaked
<1>6. ASSUME Open(c) PROVE Leaked(x)
  <2>1. PICK y : y = ToClear(confna[c], Below(maxchans, Members(confna[c])))
    OBVIOUS
  <2>2. /\ pending' = [pending EXCEPT ![c] = [op |-> "open", conf |-> y]] /\ pending[c] = Idle
        /\ UNCHANGED <<registered, confna, confmode, confalias>>
    BY <1>6, <2>1 DEF Open
  <2>3. \A d \in Channels : pending[d].conf = x => pending'[d].conf = x
    BY <1>2, <1>3, <2>2, IdleType
  <2> QED BY <1>5, <2>2, <2>3, LeakedBefore
<1>7. ASSUME Clear(c) PROVE Leaked(x)
  <2>1. PICK y, t : y = pending[c].conf /\ t = Empty(Tables, y)
    OBVIOUS
  <2>2. y \in Confs
    BY <1>3, <1>7, <2>1 DEF Clear, Pend, Confs
  <2>3. /\ t.alias[y] = 0
        /\ \A z \in Confs : z # y => t.alias[z] = confalias[z]
    <3>1. Mirror(Tables) /\ \A z \in Confs : Tables.alias[z] = confalias[z]
      BY <1>1 DEF TablesInv, Tables
    <3> QED BY <2>1, <2>2, <3>1, EmptyConf
  <2>4. /\ confalias' = t.alias
        /\ pending' = [pending EXCEPT ![c].conf = 0]
        /\ UNCHANGED <<registered, confna, confmode>>
    BY <1>7, <2>1 DEF Clear, PutTables
  <2>5. x # y /\ confalias[x] # 0
    BY <1>5, <2>3, <2>4
  <2>6. \A d \in Channels : pending[d].conf = x => pending'[d].conf = x
    BY <1>3, <2>1, <2>4, <2>5 DEF Pend
  <2> QED BY <2>4, <2>5, <2>6, LeakedBefore
<1>8. ASSUME OpenPseudo(c) PROVE Leaked(x)
  <2>1. confalias[x] # 0
    BY <1>5, <1>8 DEF OpenPseudo
  <2> QED BY <1>8, <2>1, LeakedBefore DEF OpenPseudo
<1>9. ASSUME Close(c) PROVE Leaked(x)
  <2>1. PICK y, M : M = Below(maxchans, MembersOf(confna[c], registered, confna', confmode'))
                      /\ y = ToClear(confna[c], M)
    OBVIOUS
  <2>2. /\ confna' = [confna EXCEPT ![c] = 0] /\ confmode' = [confmode EXCEPT ![c] = Normal]
        /\ pending' = [pending EXCEPT ![c] = [op |-> "close", conf |-> y]] /\ pending[c] = Idle
        /\ UNCHANGED <<registered, confalias>>
    BY <1>9, <2>1 DEF Close
  <2>3. confna[c] # x
    <3>1. ASSUME confna[c] = x PROVE FALSE
      <4>1. M = {}
        BY <2>1, <2>2, <3>1 DEF Leaked, Members, MembersOf, Below
      <4>2. y = x
        BY <1>5, <2>1, <2>2, <3>1, <4>1 DEF ToClear
      <4>3. pending'[c].conf = y
        BY <1>3, <2>2
      <4> QED BY <1>5, <4>2, <4>3
    <3> QED BY <3>1
  <2>4. \A d \in Channels : pending[d].conf = x => pending'[d].conf = x
    BY <1>2, <1>3, <2>2, IdleType
  <2>5. \A d \in registered : confna[d] = x => confna'[d] = confna[d] /\ confmode'[d] = confmode[d]
    BY <1>1, <2>2, <2>3 DEF TypeOK
  <2> QED BY <1>5, <2>2, <2>4, <2>5, LeakedBefore
<1>10. ASSUME Release(c) PROVE Leaked(x)
  <2>1. \A d \in Channels : pending[d].conf = x => pending'[d].conf = x
    BY <1>2, <1>3, <1>10 DEF Release
  <2> QED BY <1>5, <1>10, <2>1, LeakedBefore DEF Release
\* Who is not in x can be opened or freed.
<1>11. ASSUME Opened(c) \/ Unregister(c), c \notin Members(x) PROVE Leaked(x)
  <2>1. Leaves(c) /\ registered \ {c} \subseteq registered'
    BY <1>11 DEF Opened, Unregister, Leaves
  <2>2. \A d \in Channels : d # c => confna'[d] = confna[d] /\ confmode'[d] = confmode[d]
    BY <1>1, <2>1 DEF TypeOK, Leaves
  <2>3. \A d \in registered : confna[d] = x /\ IsConference(confmode[d]) =>
            d \in registered' /\ confna'[d] = confna[d] /\ confmode'[d] = confmode[d]
    BY <1>1, <1>11, <2>1, <2>2 DEF Members, MembersOf, TypeOK
  <2>4. pending[c].conf = 0 /\ \A d \in Channels : d # c => pending'[d] = pending[d]
    BY <1>3, <1>11 DEF Opened, Unregister
  <2>5. confalias[x] # 0
    BY <1>5, <1>11 DEF Opened, Unregister
  <2> QED BY <1>2, <2>3, <2>4, <2>5, LeakedBefore
<1>12. ASSUME PassBy(c) \/ Unregistered(c) PROVE Leaked(x)
  <2>1. \A d \in Channels : pending[d].conf = x => pending'[d].conf = x
    BY <1>2, <1>3, <1>12 DEF PassBy, Unregistered
  <2> QED BY <1>5, <1>12, <2>1, LeakedBefore DEF PassBy, Unregistered
<1>13. ASSUME FreeWatcher(c) PROVE Leaked(x)
  <2>1. PICK d : d = NextUncounted
    OBVIOUS
  <2>2. /\ Leaves(d) /\ Watches(d, c) /\ UNCHANGED <<registered, confalias>>
        /\ pending[c].conf = 0 /\ \A e \in Channels : e # c => pending'[e] = pending[e]
    BY <1>3, <1>13, <2>1 DEF FreeWatcher, Leaves
  <2>3. \A e \in Channels : e # d => confna'[e] = confna[e] /\ confmode'[e] = confmode[e]
    BY <1>1, <2>2 DEF TypeOK, Leaves
  <2>4. ~IsConference(confmode[d])
    BY <2>2 DEF Watches, IsConference
  <2>5. \A e \in registered : confna[e] = x /\ IsConference(confmode[e]) =>
            e \in registered' /\ confna'[e] = confna[e] /\ confmode'[e] = confmode[e]
    BY <1>1, <2>2, <2>3, <2>4 DEF TypeOK
  <2> QED BY <1>2, <1>5, <2>2, <2>5, LeakedBefore
<1> QED BY <1>6, <1>7, <1>8, <1>9, <1>10, <1>11, <1>12, <1>13

LEMMA NextStrandsNone ==
    ASSUME IInv, [Next]_conf_vars, NEW x \in Confs, Leaked(x)'
    PROVE  Leaked(x) \/ \E c \in Members(x) : Opened(c) \/ Unregister(c)
<1>1. CASE SetConf
  <2>1. TypeOK
    BY DEF IInv
  <2>2. PICK i, n, mode : Asked(i, n, mode) /\ Put(i, n, mode)
    BY <1>1, <2>1, SetConfIsPut
  <2> QED BY <2>2, PutStrandsNone
<1>2. CASE Lifecycle
  BY <1>2, LifecycleStrandsNone DEF Lifecycle
<1>3. CASE UNCHANGED conf_vars
  BY <1>3 DEF conf_vars, Leaked, Members
<1> QED BY <1>1, <1>2, <1>3 DEF Next

-----------------------------------------------------------------------------
(* Theorems.                                                               *)

\* Links, ticks and what is heard leave the memberships alone (dahdi_ioctl() and
\* process_masterspan() in dahdi-base.c): what holds of Conferences holds with them.
THEOREM MixingFollowsMembership == MixSpec => Spec
<1>1. MixInit => Init
  BY DEF MixInit
<1>2. [MixNext]_vars => [Next]_conf_vars
  <2> SUFFICES ASSUME [MixNext]_vars PROVE [Next]_conf_vars
    OBVIOUS
  <2>1. CASE MixSetConf \/ MixLifecycle
    BY <2>1 DEF MixSetConf, MixLifecycle, Next
  <2>2. CASE ConfLink \/ UNCHANGED vars
    BY <2>2 DEF ConfLink, vars
  <2>3. ASSUME NEW voices, Tick(voices) PROVE UNCHANGED conf_vars
    BY <2>3 DEF Tick
  <2> QED BY <2>1, <2>2, <2>3 DEF MixNext, Chunk
<1> QED BY <1>1, <1>2, PTL DEF MixSpec, Spec

\* No number of a channel, a conference or an alias ever goes out of its table
\* (chans, confalias, confrev), in whatever order callers come.
THEOREM ConfTypes == MixSpec => []TypeOK
<1>1. IInv => TypeOK
  BY DEF IInv
<1> QED BY Invariance, MixingFollowsMembership, <1>1, PTL

\* confalias and confrev mirror one another and maxconfs covers every alias, so that
\* rotate_sums() clears all that is in use - whatever callers do at the same time.
THEOREM TablesMirror == MixSpec => []AliasPairs
<1>1. IInv => AliasPairs
  <2> SUFFICES ASSUME IInv PROVE AliasPairs
    OBVIOUS
  <2>1. Mirror(Tables) /\ maxconfs = recalc_maxconfs(confrev)
    BY DEF IInv, TablesInv
  <2>2. /\ confalias \in [Confs -> 0 .. MaxConf - 1] /\ confrev \in [Aliases -> 0 .. MaxConf]
        /\ \A x \in Confs : confalias[x] # 0 => confrev[confalias[x]] = x
        /\ \A a \in Aliases : confrev[a] # 0 => confalias[confrev[a]] = a
    BY <2>1 DEF Mirror, Tables
  <2>3. \A a \in Aliases : confrev[a] # 0 => a < maxconfs
    BY <2>1, <2>2, MaxconfsType
  <2>4. \A x \in Confs : confalias[x] # 0 => confalias[x] \in Aliases /\ x # 0
    BY <2>2 DEF Aliases, Confs
  <2> QED BY <2>2, <2>3, <2>4 DEF AliasPairs
<1> QED BY Invariance, MixingFollowsMembership, <1>1, PTL

\* Every member of a conference sums in the accumulator of its conference, and the
\* accumulators of conferences are different ones, for any number of channels that join,
\* move, leave, open, close and are freed at once (DAHDI_SETCONF, initialize_channel(),
\* close_channel(), dahdi_chan_unreg()).  What is left out are exactly the conferences that
\* somebody joined after dahdi_check_conf() had found them empty, or that it was asked to
\* look at while maxchans reached none of their members.
THEOREM ConferencesApart == MixSpec => []AccumulatorsApart
<1>1. IInv => OwnAccumulator
  BY DEF IInv
<1> QED BY Invariance, MixingFollowsMembership, TablesMirror, <1>1, PTL DEF AccumulatorsApart

\* No conference is left with an accumulator when nobody is in it any more and nobody is
\* about to take it away (dahdi_check_conf()), unless a member of it has just been opened
\* or freed: these two look for members before the channel leaves, or not at all.
THEOREM LastMemberFrees == MixSpec => FreedWithLastMember
<1> DEFINE Frees == \A x \in Confs :
                        Leaked(x)' => Leaked(x) \/ \E c \in Members(x) : Opened(c) \/ Unregister(c)
<1>1. IInv /\ [Next]_conf_vars => [Frees]_conf_vars
  BY NextStrandsNone
<1>2. Spec => [][Frees]_conf_vars
  BY Invariance, <1>1, PTL DEF Spec
<1> QED BY <1>2, MixingFollowsMembership, PTL DEF FreedWithLastMember

-----------------------------------------------------------------------------
(* The links.                                                              *)

Recursion(f, s, n) == f = [l \in 0 .. n |-> IF l = 0 THEN s ELSE AddLink(f[l - 1], l)]

\* The loop over the links in process_masterspan() ends with a sum.
LEMMA RecursionEnds ==
    ASSUME NEW s, NEW m \in Nat
    PROVE  \E f : Recursion(f, s, m)
<1> DEFINE Bad == {n \in Nat : ~ \E f : Recursion(f, s, n)}
<1> SUFFICES ASSUME m \in Bad PROVE FALSE
  OBVIOUS
<1>1. PICK n \in Bad : \A k \in Bad : n <= k
  <2>1. Bad \in SUBSET Nat /\ Bad # {}
    OBVIOUS
  <2> HIDE DEF Bad
  <2> QED BY <2>1, LeastNumber
<1>2. CASE n = 0
  <2>1. Recursion([l \in 0 .. 0 |-> s], s, 0)
    <3>1. [l \in 0 .. 0 |-> s]
            = [l \in 0 .. 0 |-> IF l = 0 THEN s ELSE AddLink([k \in 0 .. 0 |-> s][l - 1], l)]
      OBVIOUS
    <3> QED BY <3>1, Zenon DEF Recursion
  <2> QED BY <1>1, <1>2, <2>1
<1>3. CASE n # 0
  <2>1. n \in Nat /\ n - 1 \in Nat /\ n - 1 < n
    BY <1>1, <1>3
  <2>2. n - 1 \notin Bad
    <3> HIDE DEF Bad
    <3> QED BY <1>1, <2>1
  <2>3. PICK g : Recursion(g, s, n - 1)
    BY <2>1, <2>2
  <2> DEFINE f == [l \in 0 .. n |-> IF l = 0 THEN s ELSE AddLink(g[l - 1], l)]
  <2>4. ASSUME NEW l \in 0 .. n - 1 PROVE f[l] = g[l]
    <3>1. g[l] = IF l = 0 THEN s ELSE AddLink(g[l - 1], l)
      BY <2>3 DEF Recursion
    <3>2. l \in 0 .. n
      BY <2>1
    <3> QED BY <3>1, <3>2
  <2>5. \A l \in 0 .. n : l # 0 => l - 1 \in 0 .. n - 1
    BY <2>1
  <2>6. f = [l \in 0 .. n |-> IF l = 0 THEN s ELSE AddLink(f[l - 1], l)]
    <3>1. \A l \in 0 .. n : l # 0 => f[l - 1] = g[l - 1]
      <4> HIDE DEF f
      <4> QED BY <2>4, <2>5
    <3>2. \A l \in 0 .. n : f[l] = IF l = 0 THEN s ELSE AddLink(g[l - 1], l)
      OBVIOUS
    <3>3. DOMAIN f = 0 .. n /\ f = [l \in 0 .. n |-> f[l]]
      OBVIOUS
    <3> HIDE DEF f
    <3> QED BY <3>1, <3>2, <3>3
  <2>7. Recursion(f, s, n)
    <3> HIDE DEF f
    <3> QED BY <2>6, Zenon DEF Recursion
  <2>8. n \notin Bad
    <3> HIDE DEF f
    <3> QED BY <2>7
  <2> QED BY <1>1, <2>8
<1> QED BY <1>2, <1>3

LEMMA LinkedIs ==
    ASSUME NEW s, maxlinks \in Nat
    PROVE  \E f : /\ f[0] = s
                  /\ \A l \in 1 .. maxlinks : f[l] = AddLink(f[l - 1], l)
                  /\ Linked(s) = f[maxlinks]
<1> DEFINE f == CHOOSE f : f = [l \in 0 .. maxlinks |-> IF l = 0 THEN s ELSE AddLink(f[l - 1], l)]
<1>1. f = [l \in 0 .. maxlinks |-> IF l = 0 THEN s ELSE AddLink(f[l - 1], l)]
  <2>1. \E g : g = [l \in 0 .. maxlinks |-> IF l = 0 THEN s ELSE AddLink(g[l - 1], l)]
    <3>1. \E g : Recursion(g, s, maxlinks)
      <4> HIDE DEF f
      <4> QED BY RecursionEnds
    <3> QED BY <3>1, Zenon DEF Recursion
  <2> QED BY <2>1, Zenon
<1>2. Linked(s) = f[maxlinks]
  BY Zenon DEF Linked
<1> HIDE DEF f
<1>3. \A l \in 0 .. maxlinks : f[l] = IF l = 0 THEN s ELSE AddLink(f[l - 1], l)
  BY <1>1
<1>4. 0 \in 0 .. maxlinks /\ \A l \in 1 .. maxlinks : l \in 0 .. maxlinks /\ l # 0
  OBVIOUS
<1> QED BY <1>2, <1>3, <1>4

One(b) == IF b THEN 1 ELSE 0

LinkSet == [src : 0 .. MaxConf, dst : 0 .. MaxConf]

\* A link is in one slot, and it links two conferences.
LinksInv ==
    /\ conf_links \in [Slots -> LinkSet]
    /\ \A l \in Slots : conf_links[l] # NoLink =>
           conf_links[l].src \in Aliases /\ conf_links[l].dst \in Aliases
    /\ \A k, l \in Slots : conf_links[k] = conf_links[l] /\ conf_links[k] # NoLink => k = l

LEMMA MaxlinksType ==
    /\ maxlinks \in 0 .. LinkSlots
    /\ \A l \in 1 .. LinkSlots - 1 : conf_links[l] # NoLink => l <= maxlinks
<1>0. LinkSlots \in Nat /\ LinkSlots >= 1
  BY MixAssumption
<1> DEFINE S == {l \in 1 .. LinkSlots - 1 : conf_links[l] # NoLink}
           top == CHOOSE l \in S : \A k \in S : k <= l
<1>1. CASE S = {}
  BY <1>0, <1>1 DEF maxlinks
<1>2. CASE S # {}
  <2>1. \E n \in S : \A k \in S : k <= n
    <3>1. S \in SUBSET (0 .. LinkSlots)
      BY <1>0
    <3> HIDE DEF S
    <3> QED BY <1>0, <1>2, <3>1, GreatestNumber
  <2>2. top \in S /\ \A k \in S : k <= top
    <3> HIDE DEF S
    <3> QED BY <2>1
  <2>3. maxlinks = 1 + top
    BY <1>2 DEF maxlinks
  <2> HIDE DEF top
  <2> QED BY <1>0, <2>2, <2>3
<1> QED BY <1>1, <1>2

LEMMA AliasIs ==
    ASSUME TypeOK, TablesInv
    PROVE  /\ \A y : Alias(y) # 0 => y \in Confs /\ Alias(y) = confalias[y] /\ Alias(y) \in Aliases
           /\ \A y \in Confs : Alias(y) = confalias[y]
           /\ \A y, z : Alias(y) # 0 /\ Alias(y) = Alias(z) => y = z
<1>1. \A x \in Confs : confalias[x] # 0 => confrev[confalias[x]] = x /\ confalias[x] \in Aliases
  BY DEF TablesInv, Mirror, Tables, Aliases
<1> QED BY <1>1 DEF Alias

LEMMA CountOne ==
    ASSUME NEW A, IsFiniteSet(A), NEW y, y \notin A, NEW P
    PROVE  Cardinality((A \cup {y}) \cap P) = Cardinality(A \cap P) + One(y \in P)
<1>1. IsFiniteSet(A \cap P) /\ Cardinality(A \cap P) \in Nat
  BY FS_Intersection, FS_CardinalityType
<1>2. CASE y \in P
  <2>1. (A \cup {y}) \cap P = (A \cap P) \cup {y} /\ y \notin A \cap P
    BY <1>2
  <2> QED BY <1>1, <1>2, <2>1, FS_AddElement DEF One
<1>3. CASE y \notin P
  <2>1. (A \cup {y}) \cap P = A \cap P
    BY <1>3
  <2>2. Cardinality((A \cup {y}) \cap P) = Cardinality(A \cap P)
    BY <2>1, Zenon
  <2> QED BY <1>1, <1>3, <2>2 DEF One
<1> QED BY <1>2, <1>3

LEMMA AddLinkType ==
    ASSUME NEW s \in [Aliases -> Int], TypeOK, TablesInv, NEW l
    PROVE  AddLink(s, l) \in [Aliases -> Int]
<1>1. \A y : Alias(y) # 0 => Alias(y) \in Aliases
  BY AliasIs
<1> QED BY <1>1 DEF AddLink

LEMMA LinkedType ==
    ASSUME NEW s \in [Aliases -> Int], TypeOK, TablesInv
    PROVE  Linked(s) \in [Aliases -> Int]
<1>1. PICK m \in Nat : m = maxlinks
  BY MaxlinksType, MixAssumption
<1>2. PICK f : /\ f[0] = s
               /\ \A l \in 1 .. m : f[l] = AddLink(f[l - 1], l)
               /\ Linked(s) = f[m]
  BY <1>1, LinkedIs
<1> DEFINE Bad == {l \in 0 .. m : f[l] \notin [Aliases -> Int]}
<1>3. CASE Bad = {}
  BY <1>1, <1>2, <1>3
<1>4. CASE Bad # {}
  <2>1. PICK l \in Bad : \A k \in Bad : l <= k
    <3>1. Bad \in SUBSET Nat
      OBVIOUS
    <3> HIDE DEF Bad
    <3> QED BY <1>4, <3>1, LeastNumber
  <2>2. l # 0 /\ l \in 1 .. m
    BY <1>2, <2>1
  <2>3. l - 1 \in 0 .. m /\ l - 1 \notin Bad
    BY <2>1, <2>2
  <2>4. f[l] \in [Aliases -> Int]
    BY <1>2, <2>2, <2>3, AddLinkType
  <2> QED BY <2>1, <2>4
<1> QED BY <1>3, <1>4

\* What the loop over the links adds to a conference whose sources have no sources: once
\* the sum of each of them.
OnlyTwoDeep(x) == \A y \in Sources(x) : Sources(y) = {}

SumsUp(s, x, P, Q) ==
    /\ s \in [Aliases -> Int] /\ Alias(x) # 0 /\ OnlyTwoDeep(x)
    /\ conf_links[LinkSlots] = NoLink
    /\ \A y \in Arriving(x) : s[Alias(y)] = One(y \in P) + One(y \in Q)

LEMMA LinkedSum ==
    ASSUME TypeOK, TablesInv, LinksInv, NEW s, NEW x, NEW P, NEW Q, SumsUp(s, x, P, Q)
    PROVE  Linked(s)[Alias(x)] = s[Alias(x)] + Cardinality(Arriving(x) \cap P)
                                             + Cardinality(Arriving(x) \cap Q)
<1>0. /\ s \in [Aliases -> Int] /\ Alias(x) # 0
      /\ \A y \in Sources(x) : Sources(y) = {}
      /\ conf_links[LinkSlots] = NoLink
      /\ \A y \in Arriving(x) : s[Alias(y)] = One(y \in P) + One(y \in Q)
  BY DEF SumsUp, OnlyTwoDeep
<1> USE <1>0
<1>1. PICK m \in Nat : m = maxlinks
  BY MaxlinksType, MixAssumption
<1>2. PICK f : /\ f[0] = s
               /\ \A l \in 1 .. m : f[l] = AddLink(f[l - 1], l)
               /\ Linked(s) = f[m]
  BY <1>1, LinkedIs
<1>3. m <= LinkSlots /\ LinkSlots \in Nat
  BY <1>1, MaxlinksType, MixAssumption
<1> DEFINE A(l) == {y \in Arriving(x) : \E k \in 1 .. l : conf_links[k] = [src |-> y, dst |-> x]}
           Right(l) == /\ f[l] \in [Aliases -> Int]
                       /\ \A y \in Arriving(x) : f[l][Alias(y)] = s[Alias(y)]
                       /\ f[l][Alias(x)] = s[Alias(x)] + Cardinality(A(l) \cap P)
                                                       + Cardinality(A(l) \cap Q)
           Bad == {l \in 0 .. m : ~Right(l)}
<1>4. /\ \A y : Alias(y) # 0 => y \in Confs /\ Alias(y) \in Aliases
      /\ \A y, z : Alias(y) # 0 /\ Alias(y) = Alias(z) => y = z
  BY AliasIs
<1>5. \A y \in Arriving(x) : y # x /\ Alias(y) # 0 /\ Alias(y) # Alias(x) /\ Sources(y) = {}
  <2> SUFFICES ASSUME NEW y \in Arriving(x)
               PROVE  y # x /\ Alias(y) # 0 /\ Alias(y) # Alias(x) /\ Sources(y) = {}
    OBVIOUS
  <2>1. y \in Sources(x) /\ Alias(y) # 0 /\ Sources(y) = {}
    BY DEF Arriving
  <2> QED BY <1>4, <2>1
<1>6. \A l \in 0 .. m : IsFiniteSet(A(l))
  <2>1. A(m) \in SUBSET Confs /\ \A l \in 0 .. m : A(l) \in SUBSET Confs
    BY <1>4, <1>5
  <2>2. IsFiniteSet(Confs)
    BY FS_Interval, MaxConfAssumption DEF Confs
  <2> HIDE DEF A
  <2> QED BY <2>1, <2>2, FS_Subset
<1>7. Right(0)
  <2>1. A(0) = {}
    OBVIOUS
  <2>2. A(0) \cap P = {} /\ A(0) \cap Q = {}
    BY <2>1
  <2>3. Alias(x) \in Aliases
    BY <1>4
  <2>4. Cardinality(A(0) \cap P) = 0 /\ Cardinality(A(0) \cap Q) = 0
    <3> HIDE DEF A
    <3> QED BY <2>2, FS_EmptySet
  <2>5. s[Alias(x)] \in Int
    BY <2>3
  <2> HIDE DEF A
  <2> QED BY <1>2, <2>4, <2>5
<1>8. ASSUME NEW l \in 1 .. m, Right(l - 1) PROVE Right(l)
  <2>1. PICK z, y, g : /\ z = Alias(conf_links[l].dst) /\ y = Alias(conf_links[l].src)
                       /\ g = f[l - 1]
    OBVIOUS
  <2>2. f[l] = IF z # 0 /\ y # 0 THEN [g EXCEPT ![z] = g[z] + g[y]] ELSE g
    BY <1>2, <2>1 DEF AddLink
  <2>3. /\ g \in [Aliases -> Int]
        /\ \A w \in Arriving(x) : g[Alias(w)] = s[Alias(w)]
        /\ g[Alias(x)] = s[Alias(x)] + Cardinality(A(l - 1) \cap P)
                                     + Cardinality(A(l - 1) \cap Q)
    BY <1>8, <2>1
  <2>4. l \in Slots /\ conf_links[l] \in LinkSet
    BY <1>3 DEF LinksInv, Slots
  <2>5. A(l) = A(l - 1) \cup {w \in Arriving(x) : conf_links[l] = [src |-> w, dst |-> x]}
    <3>1. \A k : k \in 1 .. l <=> k \in 1 .. l - 1 \/ k = l
      OBVIOUS
    <3> QED BY <3>1
  <2>6. f[l] \in [Aliases -> Int]
    BY <1>4, <2>1, <2>2, <2>3
  <2>7. CASE conf_links[l].dst = x /\ y # 0
    <3>1. PICK w : w = conf_links[l].src
      OBVIOUS
    <3>2. conf_links[l] = [src |-> w, dst |-> x]
      BY <2>4, <2>7, <3>1 DEF LinkSet
    <3>3. w \in Arriving(x)
      BY <2>1, <2>4, <2>7, <3>1 DEF Arriving, Sources
    <3>4. A(l) = A(l - 1) \cup {w}
      <4>1. {v \in Arriving(x) : conf_links[l] = [src |-> v, dst |-> x]} = {w}
        BY <3>2, <3>3
      <4> HIDE DEF A
      <4> QED BY <2>5, <4>1
    <3>5. w \notin A(l - 1)
      <4>1. ASSUME NEW k \in 1 .. l - 1, conf_links[k] = [src |-> w, dst |-> x] PROVE FALSE
        <5>1. k \in Slots /\ k # l
          BY <1>3 DEF Slots
        <5>2. conf_links[k] = conf_links[l]
          BY <3>2, <4>1
        <5>3. conf_links[l] # NoLink
          BY <1>4, <2>7, <3>2 DEF NoLink, Confs
        <5> QED BY <2>4, <5>1, <5>2, <5>3 DEF LinksInv
      <4> QED BY <4>1
    <3>6. z = Alias(x) /\ y = Alias(w)
      BY <2>1, <2>7, <3>1
    <3>7. f[l] = [g EXCEPT ![z] = g[z] + g[y]]
      BY <2>2, <2>7, <3>6
    <3>8. f[l][Alias(x)] = g[Alias(x)] + s[Alias(w)]
      BY <1>4, <2>3, <3>3, <3>6, <3>7
    <3>9. \A v \in Arriving(x) : f[l][Alias(v)] = s[Alias(v)]
      BY <1>4, <1>5, <2>3, <3>6, <3>7
    <3>10. /\ Cardinality(A(l) \cap P) = Cardinality(A(l - 1) \cap P) + One(w \in P)
           /\ Cardinality(A(l) \cap Q) = Cardinality(A(l - 1) \cap Q) + One(w \in Q)
      <4>1. IsFiniteSet(A(l - 1))
        <5>1. l - 1 \in 0 .. m
          OBVIOUS
        <5> HIDE DEF A
        <5> QED BY <1>6, <5>1
      <4> HIDE DEF A
      <4> QED BY <3>4, <3>5, <4>1, CountOne
    <3>11. s[Alias(w)] = One(w \in P) + One(w \in Q)
      BY <3>3
    <3>12. /\ Cardinality(A(l - 1) \cap P) \in Nat /\ Cardinality(A(l - 1) \cap Q) \in Nat
           /\ s[Alias(x)] \in Int
      <4>1. IsFiniteSet(A(l - 1))
        <5>1. l - 1 \in 0 .. m
          OBVIOUS
        <5> HIDE DEF A
        <5> QED BY <1>6, <5>1
      <4> HIDE DEF A
      <4>2. IsFiniteSet(A(l - 1) \cap P) /\ IsFiniteSet(A(l - 1) \cap Q)
        BY <4>1, FS_Intersection
      <4> QED BY <1>4, <4>2, FS_CardinalityType
    <3>13. One(w \in P) \in Int /\ One(w \in Q) \in Int
      BY DEF One
    <3> HIDE DEF A
    <3> QED BY <2>3, <2>6, <3>8, <3>9, <3>10, <3>11, <3>12, <3>13
  <2>8. CASE ~(conf_links[l].dst = x /\ y # 0)
    <3>1. A(l) = A(l - 1)
      <4>1. \A w \in Arriving(x) : conf_links[l] # [src |-> w, dst |-> x]
        BY <1>5, <2>1, <2>8
      <4>2. {w \in Arriving(x) : conf_links[l] = [src |-> w, dst |-> x]} = {}
        BY <4>1
      <4> HIDE DEF A
      <4> QED BY <2>5, <4>2
    <3>2. f[l][Alias(x)] = g[Alias(x)]
      BY <1>4, <2>1, <2>2, <2>3, <2>8
    <3>3. ASSUME NEW w \in Arriving(x) PROVE f[l][Alias(w)] = g[Alias(w)]
      <4>1. conf_links[l].dst # w
        BY <1>5, <2>4 DEF Sources
      <4> QED BY <1>4, <1>5, <2>1, <2>2, <2>3, <4>1
    <3> HIDE DEF A
    <3> QED BY <2>3, <2>6, <3>1, <3>2, <3>3
  <2> QED BY <2>7, <2>8
<1>9. Right(m)
  <2> SUFFICES ASSUME m \in Bad PROVE FALSE
    OBVIOUS
  <2> HIDE DEF Right
  <2>1. PICK l \in Bad : \A k \in Bad : l <= k
    <3>1. Bad \in SUBSET Nat /\ Bad # {}
      OBVIOUS
    <3> HIDE DEF Bad
    <3> QED BY <3>1, LeastNumber
  <2>2. l # 0 /\ l \in 1 .. m
    BY <1>7, <2>1
  <2>3. l - 1 \in 0 .. m /\ l - 1 \notin Bad
    BY <2>1, <2>2
  <2> QED BY <1>8, <2>1, <2>2, <2>3
<1>10. A(m) = Arriving(x)
  <2>1. ASSUME NEW y \in Arriving(x) PROVE \E k \in 1 .. m : conf_links[k] = [src |-> y, dst |-> x]
    <3>1. PICK k \in Slots : conf_links[k].dst = x /\ conf_links[k].src = y
      BY DEF Arriving, Sources
    <3>2. conf_links[k] = [src |-> y, dst |-> x]
      BY <3>1 DEF LinksInv, LinkSet
    <3>3. conf_links[k] # NoLink
      BY <1>4, <3>2 DEF NoLink, Confs
    <3>4. k \in 1 .. LinkSlots - 1
      BY <1>3, <3>3 DEF Slots
    <3>5. k \in 1 .. m
      BY <1>1, <3>3, <3>4, MaxlinksType
    <3> QED BY <3>2, <3>5
  <2> QED BY <2>1
<1> HIDE DEF A
<1> QED BY <1>2, <1>9, <1>10

-----------------------------------------------------------------------------
(* What a chunk adds.                                                      *)

LEMMA SaidIs ==
    ASSUME NEW voices \in SomeVoices, NEW S
    PROVE  /\ Said(S \cap voices) \in {0, 1}
           /\ Said(S \cap voices) = 1 <=> S \cap voices # {}
<1>1. CASE S \cap voices = {}
  BY <1>1, FS_EmptySet DEF Said
<1>2. CASE S \cap voices # {}
  <2>1. PICK v : voices = {v}
    BY <1>2 DEF SomeVoices
  <2>2. S \cap voices = {v}
    BY <1>2, <2>1
  <2> QED BY <1>2, <2>2, FS_Singleton DEF Said
<1> QED BY <1>1, <1>2

LEMMA SaidInt ==
    ASSUME NEW voices \in SomeVoices, NEW S
    PROVE  Said(S \cap voices) \in Int
BY SaidIs

\* A member in place sums in an accumulator that is in use.
LEMMA PlaceIs ==
    ASSUME IInv, NEW c \in registered, IsConference(confmode[c]), InPlace(c)
    PROVE  /\ _confn[c] \in Aliases /\ _confn[c] < maxconfs
           /\ confna[c] \in Confs /\ Alias(confna[c]) = _confn[c]
<1>1. TypeOK /\ TablesInv /\ MembersInv
  BY DEF IInv
<1>2. PICK x : x = confna[c]
  OBVIOUS
<1>3. x \in Confs /\ confalias[x] # 0 /\ _confn[c] = confalias[x]
  BY <1>1, <1>2 DEF MembersInv, InPlace, TypeOK
<1>4. Alias(x) = confalias[x] /\ Alias(x) \in Aliases
  BY <1>1, <1>3, AliasIs
<1>5. confrev[Alias(x)] = x /\ x # 0
  BY <1>1, <1>3, <1>4 DEF TablesInv, Mirror, Tables, Confs
<1>6. \A a \in Aliases : confrev[a] # 0 => a < maxconfs
  BY <1>1, MaxconfsType DEF TablesInv, Mirror, Tables
<1> QED BY <1>2, <1>3, <1>4, <1>5, <1>6

\* Of a conference that is whole, those who are in it sum in its accumulator.
LEMMA WholeIs ==
    ASSUME TypeOK, TablesInv, NEW x \in Confs, Whole(x)
    PROVE  /\ Alias(x) = confalias[x] /\ Alias(x) # 0 /\ Alias(x) \in Aliases
           /\ \A c \in RealIn \cup PseudoIn : _confn[c] = Alias(x) <=> confna[c] = x
           /\ Members(x) = {c \in RealIn \cup PseudoIn : confna[c] = x}
<1>1. Alias(x) = confalias[x] /\ Alias(x) # 0 /\ Alias(x) \in Aliases
  BY AliasIs DEF Whole
<1>2. Members(x) = {c \in RealIn \cup PseudoIn : confna[c] = x}
  BY DEF Members, MembersOf, RealIn, PseudoIn, TypeOK, Channels
<1> QED BY <1>1, <1>2 DEF Whole, InAlias

\* A conference's sum after steps 1 and 3 of a chunk.
LEMMA WrittenIs ==
    ASSUME IInv, NEW voices \in SomeVoices, NEW x \in Confs, Whole(x),
           next \in [Aliases -> Int]
    PROVE  /\ Written(voices)[Alias(x)] = next[Alias(x)] + Said(Speakers(x) \cap voices)
<1>1. /\ Alias(x) \in Aliases
      /\ \A c \in RealIn \cup PseudoIn : _confn[c] = Alias(x) <=> confna[c] = x
      /\ Members(x) = {c \in RealIn \cup PseudoIn : confna[c] = x}
  BY WholeIs DEF IInv
<1> DEFINE L == {Line(c) : c \in InAlias(Alias(x), Talkers)}
           U == {User(c) : c \in InAlias(Alias(x), PTalkers)}
<1>2. InAlias(Alias(x), Talkers) = Talkers \cap Members(x)
  BY <1>1 DEF InAlias, Talkers
<1>3. InAlias(Alias(x), PTalkers) = PTalkers \cap Members(x)
  BY <1>1 DEF InAlias, PTalkers
<1>4. Speakers(x) = L \cup U
  BY <1>2, <1>3 DEF Speakers
<1>5. L \cap U = {}
  <2>1. \A c, d : Line(c) # User(d)
    BY DEF Line, User
  <2> QED BY <2>1
<1>6. Written(voices)[Alias(x)] = next[Alias(x)] + Said(L \cap voices) + Said(U \cap voices)
  BY <1>1 DEF Written, Received
<1> HIDE DEF L, U
<1>7. Said((L \cup U) \cap voices) = Said(L \cap voices) + Said(U \cap voices)
  <2>1. /\ Said((L \cup U) \cap voices) \in {0, 1}
        /\ Said(L \cap voices) \in {0, 1} /\ Said(U \cap voices) \in {0, 1}
        /\ Said((L \cup U) \cap voices) = 1 <=> (L \cup U) \cap voices # {}
        /\ Said(L \cap voices) = 1 <=> L \cap voices # {}
        /\ Said(U \cap voices) = 1 <=> U \cap voices # {}
    BY SaidIs
  <2>2. (L \cup U) \cap voices # {} <=> L \cap voices # {} \/ U \cap voices # {}
    OBVIOUS
  <2>3. ~(L \cap voices # {} /\ U \cap voices # {})
    BY <1>5 DEF SomeVoices
  <2> QED BY <2>1, <2>2, <2>3
<1>8. /\ Said(L \cap voices) \in Int /\ Said(U \cap voices) \in Int
      /\ next[Alias(x)] \in Int
  BY <1>1, SaidInt
<1> QED BY <1>4, <1>6, <1>7, <1>8

LEMMA WrittenType ==
    ASSUME NEW voices \in SomeVoices, next \in [Aliases -> Int]
    PROVE  Written(voices) \in [Aliases -> Int]
<1>1. ASSUME NEW a \in Aliases PROVE Received(voices)[a] \in Int
  <2>1. PICK n : n = Said({Line(c) : c \in InAlias(a, Talkers)} \cap voices)
    OBVIOUS
  <2>2. n \in Int
    BY <2>1, SaidInt
  <2>3. Received(voices)[a] = next[a] + n
    BY <2>1 DEF Received
  <2> QED BY <2>2, <2>3
<1>2. ASSUME NEW a \in Aliases PROVE Written(voices)[a] \in Int
  <2>1. PICK n : n = Said({User(c) : c \in InAlias(a, PTalkers)} \cap voices)
    OBVIOUS
  <2>2. n \in Int
    BY <2>1, SaidInt
  <2>3. Written(voices)[a] = Received(voices)[a] + n
    BY <2>1 DEF Written
  <2> QED BY <1>1, <2>2, <2>3
<1> QED BY <1>2 DEF Written

-----------------------------------------------------------------------------
(* The invariant of the mixer.                                             *)

\* What was put ahead of the last tick is all that is in the accumulator of a conference
\* that had it to itself then.
AheadInv == \A x \in Confs : placed[x] # 0 => next[placed[x]] = ahead[x]

NoLinks == \A l \in Slots : conf_links[l] = NoLink

\* What a user in place has put into the sums is what is remembered to be taken out again.
EchoInv ==
    \A c \in UserListeners : InPlace(c) /\ voice = User(c) =>
        /\ steady >= 1 => /\ next[_confn[c]] = conflast1[c]
                          /\ c \notin UserTalkers => conflast1[c] = 0
        /\ steady = 2 /\ NoLinks => cur[_confn[c]] = conflast2[c]

\* There is no tick while somebody closes a channel that was in a conference.
ClosingInv == \A c \in Channels : pending[c].op = "close" /\ pending[c].conf # 0 => steady = 0

MixInv == IInv /\ MixTypeOK /\ LinksInv /\ AheadInv /\ EchoInv /\ ClosingInv

SumType  == [Aliases -> Int]
LastType == [Channels -> Int]

\* Only voices of channels are taken, one at a time.
LEMMA ChunkIsTick ==
    ASSUME TypeOK, Chunk
    PROVE  \E voices \in SomeVoices :
               Tick(voices) /\ (voices = {} \/ \E v \in voices : Quiet \/ voice = v)
<1>1. Taken \subseteq Voices
  BY DEF Taken, Talkers, PTalkers, UserTalkers, RealIn, PseudoIn, Voices, Line, User
<1>2. {} \in SomeVoices /\ \A v \in Taken : {v} \in SomeVoices
  BY <1>1 DEF SomeVoices
<1> QED BY <1>2 DEF Chunk

LEMMA OneVoice ==
    ASSUME NEW voices \in SomeVoices
    PROVE  \/ voices = {} /\ Cardinality(voices) = 0
           \/ \E v \in Voices : voices = {v} /\ Cardinality(voices) = 1
BY FS_EmptySet, FS_Singleton DEF SomeVoices

LEMMA NobodyIsNoVoice == NoVoice \notin Voices
BY DEF NoVoice, Voices

\* A step that leaves conf_vars alone.
LEMMA ConfKept ==
    ASSUME IInv, UNCHANGED conf_vars
    PROVE  IInv'
BY NextInv

LEMMA OwnVoiceType ==
    ASSUME MixTypeOK, NEW voices \in SomeVoices, NEW c \in Channels
    PROVE  OwnVoice(c, voices) \in Int
<1>1. Said({Line(c)} \cap voices) \in Int /\ Said({User(c)} \cap voices) \in Int
  BY SaidInt
<1>2. Silence \in Int /\ conflast[c] \in Int
  BY DEF Silence, MixTypeOK
<1>3. CASE c \in Talkers
  BY <1>1, <1>3 DEF OwnVoice, Talkers, PTalkers, RealIn, PseudoIn
<1>4. CASE c \notin Talkers
  BY <1>1, <1>2, <1>4 DEF OwnVoice
<1> QED BY <1>3, <1>4

LEMMA TickTypes ==
    ASSUME IInv, MixTypeOK, NEW voices \in SomeVoices, Tick(voices)
    PROVE  MixTypeOK'
<1>1. TypeOK /\ TablesInv
  BY DEF IInv
<1>2. /\ prev \in SumType /\ cur \in SumType /\ next \in SumType
      /\ conflast \in LastType /\ conflast1 \in LastType /\ conflast2 \in LastType
  BY DEF MixTypeOK, SumType, LastType
<1>3. TypeOK'
  BY ConfKept DEF Tick, IInv
<1>4. prev' \in SumType /\ cur' \in SumType
  <2>1. Mixed(voices) \in SumType
    BY <1>1, <1>2, WrittenType, LinkedType DEF Mixed, SumType
  <2> QED BY <1>2, <2>1 DEF Tick
<1>5. next' \in SumType
  <2>1. ASSUME NEW a \in Aliases
        PROVE  (IF a < maxconfs THEN Silence ELSE prev[a]) + Ahead(InAlias(a, UserTalkers), voices)
                 \in Int
    <3>1. PICK n : n = Ahead(InAlias(a, UserTalkers), voices)
      OBVIOUS
    <3>2. n \in Int
      BY <3>1, SaidInt DEF Ahead
    <3> QED BY <1>2, <3>1, <3>2 DEF Silence, SumType
  <2> QED BY <2>1 DEF Tick, SumType
<1>6. conflast' \in LastType
  BY OwnVoiceType DEF Tick, LastType
<1>7. conflast1' \in LastType /\ conflast2' \in LastType
  <2>1. \A S : Ahead(S, voices) \in Int
    <3> TAKE S
    <3> QED BY SaidInt DEF Ahead
  <2>2. Silence \in Int /\ \A c \in Channels : conflast1[c] \in Int /\ conflast2[c] \in Int
    BY <1>2 DEF LastType, Silence
  <2>3. PICK both : /\ conflast1' = [c \in Channels |-> IF c \in both
                                         THEN Ahead({c} \cap UserTalkers, voices) ELSE conflast1[c]]
                    /\ conflast2' = [c \in Channels |->
                                         IF c \notin both THEN conflast2[c]
                                         ELSE IF c \in UserTalkers THEN conflast1[c] ELSE Silence]
    BY Zenon DEF Tick
  <2> QED BY <2>1, <2>2, <2>3 DEF LastType
<1>8. placed' \in [Confs -> 0 .. MaxConf - 1] /\ conf_links' = conf_links
  BY <1>1, MaxConfAssumption DEF Tick, TypeOK
<1>9. ahead' \in [Confs -> {0, 1}]
  <2>1. \A S : Ahead(S, voices) \in {0, 1}
    <3> TAKE S
    <3> QED BY SaidIs DEF Ahead
  <2> QED BY <2>1 DEF Tick
<1>10. steady' \in 0 .. 2
  BY DEF Tick, MixTypeOK
<1>11. /\ voice' \in Voices \cup {NoVoice} /\ (voice' = NoVoice <=> spoken' = 0)
       /\ spoken' \in 0 .. MaxSpoken
  <2>1. /\ spoken' = (IF Quiet THEN 0 ELSE spoken) + Cardinality(voices) /\ spoken' <= MaxSpoken
        /\ voice' = CASE voices # {} -> CHOOSE v \in voices : TRUE
                      [] voices = {} -> IF Quiet THEN NoVoice ELSE voice
    BY DEF Tick
  <2>2. spoken \in Nat /\ MaxSpoken \in Nat /\ voice \in Voices \cup {NoVoice}
        /\ (voice = NoVoice <=> spoken = 0)
    BY MixAssumption DEF MixTypeOK
  <2>3. CASE voices = {}
    <3>1. Cardinality(voices) = 0
      BY <2>3, FS_EmptySet
    <3> QED BY <2>1, <2>2, <2>3, <3>1
  <2>4. CASE voices # {}
    <3>1. PICK v \in Voices : voices = {v} /\ Cardinality(voices) = 1
      BY <2>4, OneVoice
    <3>2. voice' = v
      BY <2>1, <2>4, <3>1
    <3> QED BY <2>1, <2>2, <3>1, <3>2, NobodyIsNoVoice
  <2> QED BY <2>3, <2>4
<1>12. calls' \in 0 .. MaxCalls /\ half' \in {1, 2} /\ conf_links' \in [Slots -> [src : 0 .. MaxConf, dst : 0 .. MaxConf]]
  BY DEF Tick, MixTypeOK
<1> QED BY <1>3, <1>4, <1>5, <1>6, <1>7, <1>8, <1>9, <1>10, <1>11, <1>12
        DEF MixTypeOK, SumType, LastType

\* After a tick the accumulator of a conference holds what was put ahead.
LEMMA TickAhead ==
    ASSUME IInv, NEW voices \in SomeVoices, Tick(voices)
    PROVE  AheadInv'
<1>1. TypeOK /\ TablesInv
  BY DEF IInv
<1> SUFFICES ASSUME NEW x \in Confs, placed'[x] # 0 PROVE next'[placed'[x]] = ahead'[x]
  BY DEF AheadInv
<1>2. Whole(x) /\ placed'[x] = confalias[x]
  BY DEF Tick
<1>3. /\ Alias(x) = confalias[x] /\ Alias(x) # 0 /\ Alias(x) \in Aliases
      /\ \A c \in RealIn : _confn[c] = Alias(x) <=> confna[c] = x
  BY <1>1, <1>2, WholeIs
<1>4. Alias(x) < maxconfs
  <2>1. confrev[Alias(x)] = x
    BY <1>1, <1>3 DEF TablesInv, Mirror, Tables
  <2>2. \A a \in Aliases : confrev[a] # 0 => a < maxconfs
    BY <1>1, MaxconfsType DEF TablesInv, Mirror, Tables
  <2> QED BY <1>3, <2>1, <2>2 DEF Confs
<1>5. InAlias(Alias(x), UserTalkers) = {c \in UserTalkers : confna[c] = x}
  BY <1>3 DEF InAlias, UserTalkers
<1>6. next'[Alias(x)] = Silence + Ahead(InAlias(Alias(x), UserTalkers), voices)
  BY <1>3, <1>4 DEF Tick
<1>7. ahead'[x] = Ahead({c \in UserTalkers : confna[c] = x}, voices)
  BY DEF Tick
<1>8. Ahead(InAlias(Alias(x), UserTalkers), voices) \in Int
  BY SaidInt DEF Ahead
<1> QED BY <1>2, <1>3, <1>5, <1>6, <1>7, <1>8 DEF Silence

LEMMA NoLinksNothing ==
    ASSUME NEW s, NoLinks
    PROVE  Linked(s) = s
<1>1. maxlinks = 0
  <2>1. {l \in 1 .. LinkSlots - 1 : conf_links[l] # NoLink} = {}
    BY MixAssumption DEF NoLinks, Slots
  <2> QED BY <2>1 DEF maxlinks
<1>2. PICK f : f[0] = s /\ Linked(s) = f[maxlinks]
  BY <1>1, LinkedIs
<1> QED BY <1>1, <1>2

\* A user who talks and listens at once: what was put ahead in one tick is in the sum of
\* the next, and was kept for as long.
LEMMA TickEcho ==
    ASSUME MixInv, NEW voices \in SomeVoices, Tick(voices),
           voices = {} \/ \E v \in voices : Quiet \/ voice = v
    PROVE  EchoInv'
<1>1. IInv /\ MixTypeOK /\ EchoInv /\ TypeOK
  BY DEF MixInv, IInv
<1>2. /\ UserListeners' = UserListeners /\ UserTalkers' = UserTalkers /\ _confn' = _confn
      /\ NoLinks' = NoLinks /\ UNCHANGED <<confna, confalias>>
  BY DEF Tick, conf_vars, UserListeners, UserTalkers, RealIn, Is, Does, NoLinks
<1> SUFFICES ASSUME NEW c \in UserListeners, InPlace(c), voice' = User(c)
             PROVE  /\ steady' >= 1 => /\ next'[_confn[c]] = conflast1'[c]
                                       /\ c \notin UserTalkers => conflast1'[c] = 0
                    /\ steady' = 2 /\ NoLinks => cur'[_confn[c]] = conflast2'[c]
  BY <1>2 DEF EchoInv, InPlace
<1>3. c \in Reals /\ c \in RealIn /\ c \in registered /\ IsConference(confmode[c])
        /\ Is(c, "realandpseudo") /\ c \in Channels
  BY DEF UserListeners, RealIn, Channels
<1>4. PICK a : a = _confn[c]
  OBVIOUS
<1>5. a \in Aliases /\ a < maxconfs
  BY <1>1, <1>3, <1>4, PlaceIs
<1>6. User(c) \in Voices
  BY <1>3 DEF Voices, User
<1>7. /\ voices = {} \/ voices = {User(c)}
      /\ voice = User(c) \/ Quiet
  <2>1. voice' = CASE voices # {} -> CHOOSE v \in voices : TRUE
                   [] voices = {} -> IF Quiet THEN NoVoice ELSE voice
    BY DEF Tick
  <2>2. CASE voices = {}
    BY <1>6, <2>1, <2>2, NobodyIsNoVoice
  <2>3. CASE voices # {}
    <3>1. PICK v \in Voices : voices = {v}
      BY <2>3, OneVoice
    <3>2. v = User(c)
      BY <2>1, <2>3, <3>1
    <3> QED BY <3>1, <3>2
  <2> QED BY <2>2, <2>3
<1>8. \A d : User(d) = User(c) => d = c
  BY DEF User
<1>9. /\ next'[a] = Silence + Ahead(InAlias(a, UserTalkers), voices)
      /\ conflast1'[c] = Ahead({c} \cap UserTalkers, voices)
      /\ conflast2'[c] = IF c \in UserTalkers THEN conflast1[c] ELSE Silence
  BY <1>3, <1>5 DEF Tick
<1>10. next'[a] = conflast1'[c]
  <2>1. {User(d) : d \in InAlias(a, UserTalkers)} \cap voices
          = {User(d) : d \in {c} \cap UserTalkers} \cap voices
    <3>1. c \in UserTalkers => c \in InAlias(a, UserTalkers)
      BY <1>4 DEF InAlias
    <3>2. InAlias(a, UserTalkers) \subseteq UserTalkers
      BY DEF InAlias
    <3> QED BY <1>7, <1>8, <3>1, <3>2
  <2>2. Ahead(InAlias(a, UserTalkers), voices) = Ahead({c} \cap UserTalkers, voices)
    BY <2>1, Zenon DEF Ahead
  <2>3. Ahead({c} \cap UserTalkers, voices) \in Int
    BY SaidInt DEF Ahead
  <2> QED BY <1>9, <2>2, <2>3 DEF Silence
<1>11. c \notin UserTalkers => conflast1'[c] = 0
  <2>1. ASSUME c \notin UserTalkers PROVE Ahead({c} \cap UserTalkers, voices) = 0
    <3>1. {User(d) : d \in {c} \cap UserTalkers} \cap voices = {}
      BY <2>1
    <3> QED BY <3>1, FS_EmptySet DEF Ahead, Said
  <2> QED BY <1>9, <2>1
<1>12. ASSUME steady' = 2, NoLinks PROVE cur'[a] = conflast2'[c]
  <2>1. steady >= 1
    BY <1>1, <1>12 DEF Tick, MixTypeOK
  <2>2. next[a] \in Int
    BY <1>1, <1>5 DEF MixTypeOK
  <2>3. cur'[a] = next[a] + Said({Line(d) : d \in InAlias(a, Talkers)} \cap voices)
                          + Said({User(d) : d \in InAlias(a, PTalkers)} \cap voices)
    <3>1. cur' = Written(voices)
      BY <1>12, NoLinksNothing DEF Tick, Mixed
    <3> QED BY <1>5, <3>1 DEF Written, Received
  <2>4. /\ Said({Line(d) : d \in InAlias(a, Talkers)} \cap voices) = 0
        /\ Said({User(d) : d \in InAlias(a, PTalkers)} \cap voices) = 0
    <3>1. \A d : Line(d) # User(c)
      BY DEF Line, User
    <3>2. c \notin PTalkers
      BY <1>3, ChannelAssumption DEF PTalkers, PseudoIn
    <3>3. /\ {Line(d) : d \in InAlias(a, Talkers)} \cap voices = {}
          /\ {User(d) : d \in InAlias(a, PTalkers)} \cap voices = {}
      BY <1>7, <1>8, <3>1, <3>2 DEF InAlias
    <3> QED BY <3>3, FS_EmptySet DEF Said
  <2>5. CASE voice = User(c)
    BY <1>1, <1>4, <1>9, <2>1, <2>2, <2>3, <2>4, <2>5 DEF EchoInv, Silence
  <2>6. CASE Quiet
    BY <1>3, <1>5, <1>9, <2>2, <2>3, <2>4, <2>6 DEF Quiet, Silence
  <2> QED BY <1>7, <2>5, <2>6
<1> QED BY <1>4, <1>10, <1>11, <1>12

LEMMA TickInv ==
    ASSUME MixInv, NEW voices \in SomeVoices, Tick(voices),
           voices = {} \/ \E v \in voices : Quiet \/ voice = v
    PROVE  MixInv'
<1>1. IInv /\ MixTypeOK /\ LinksInv
  BY DEF MixInv
<1>2. IInv'
  BY <1>1, ConfKept DEF Tick
<1>3. MixTypeOK'
  BY <1>1, TickTypes
<1>4. LinksInv'
  BY <1>1 DEF Tick, LinksInv
<1>5. AheadInv' /\ EchoInv'
  BY <1>1, TickAhead, TickEcho
<1>6. ClosingInv'
  <2>1. \A c \in Channels : pending'[c] = pending[c] /\ pending[c].conf = 0
    BY DEF Tick, LocksHeld, conf_vars
  <2> QED BY <2>1 DEF ClosingInv
<1> QED BY <1>2, <1>3, <1>4, <1>5, <1>6 DEF MixInv

-----------------------------------------------------------------------------
(* Calls of users.                                                         *)

LEMMA ForgetType ==
    ASSUME MixTypeOK, NEW S, Forget(S)
    PROVE  conflast' \in LastType /\ conflast1' \in LastType /\ conflast2' \in LastType
BY DEF Forget, MixTypeOK, LastType, Silence

\* A step that leaves a user's place, and what is kept for it, alone.
LEMMA EchoKept ==
    ASSUME EchoInv, UNCHANGED <<voice, sums, conf_links>>, steady' \in {0, steady}, steady \in 0 .. 2,
           steady' # 0 => \A c \in UserListeners' :
               /\ c \in UserListeners /\ (c \in UserTalkers => c \in UserTalkers')
               /\ UNCHANGED <<confna, _confn, confalias>>
               /\ conflast1'[c] = conflast1[c] /\ conflast2'[c] = conflast2[c]
    PROVE  EchoInv'
BY DEF EchoInv, NoLinks, sums, InPlace

\* What the users' calls have in common.
LEMMA CallKeeps ==
    ASSUME MixInv, IInv', NEW S, Forget(S),
           UNCHANGED <<half, voice, sums, conf_links, placed, ahead, spoken>>,
           calls' \in 0 .. MaxCalls, steady' = IF Moved THEN 0 ELSE steady,
           steady' # 0 => \A c \in UserListeners' :
               c \in UserListeners /\ c \notin S /\ (c \in UserTalkers => c \in UserTalkers'),
           \A c \in Channels : pending'[c].op = "close" /\ pending'[c].conf # 0 =>
               pending[c] = pending'[c] \/ confna'[c] # confna[c]
    PROVE  MixInv'
<1>1. MixTypeOK /\ LinksInv /\ AheadInv /\ EchoInv /\ ClosingInv
  BY DEF MixInv
<1>2. conflast' \in LastType /\ conflast1' \in LastType /\ conflast2' \in LastType
  BY <1>1, ForgetType
<1>3. steady' \in {0, steady} /\ steady \in 0 .. 2
  BY <1>1 DEF MixTypeOK
<1>4. MixTypeOK'
  <2>1. TypeOK' /\ steady' \in 0 .. 2
    BY <1>3 DEF IInv
  <2> QED BY <1>1, <1>2, <2>1 DEF MixTypeOK, sums, LastType
<1>5. LinksInv' /\ AheadInv'
  BY <1>1 DEF LinksInv, AheadInv, sums
<1>6. EchoInv'
  <2>1. steady' # 0 => \A c \in UserListeners' :
            /\ c \in UserListeners /\ (c \in UserTalkers => c \in UserTalkers')
            /\ UNCHANGED <<confna, _confn, confalias>>
            /\ conflast1'[c] = conflast1[c] /\ conflast2'[c] = conflast2[c]
    <3> SUFFICES ASSUME steady' # 0, NEW c \in UserListeners'
                 PROVE  /\ UNCHANGED <<confna, _confn, confalias>>
                        /\ conflast1'[c] = conflast1[c] /\ conflast2'[c] = conflast2[c]
      OBVIOUS
    <3>1. c \in UserListeners /\ c \notin S
      OBVIOUS
    <3>2. c \in Channels
      BY <3>1 DEF UserListeners, RealIn, Channels
    <3> QED BY <3>1, <3>2 DEF Forget, Moved
  <2> QED BY <1>1, <1>3, <2>1, EchoKept
<1>7. ClosingInv'
  <2> SUFFICES ASSUME NEW c \in Channels, pending'[c].op = "close", pending'[c].conf # 0
               PROVE  steady' = 0
    BY DEF ClosingInv
  <2>1. CASE pending[c] = pending'[c]
    <3>1. steady = 0
      BY <1>1, <2>1 DEF ClosingInv
    <3> QED BY <1>3, <3>1
  <2>2. CASE confna'[c] # confna[c]
    BY <2>2 DEF Moved
  <2> QED BY <2>1, <2>2
<1> QED BY <1>4, <1>5, <1>6, <1>7 DEF MixInv

LEMMA CountedType ==
    ASSUME MixTypeOK, Counted
    PROVE  calls' \in 0 .. MaxCalls
BY MixAssumption DEF MixTypeOK, Counted

LEMMA MixSetConfInv ==
    ASSUME MixInv, MixSetConf
    PROVE  MixInv'
<1>1. IInv /\ MixTypeOK /\ TypeOK
  BY DEF MixInv, IInv
<1>2. PICK i, n, mode : Asked(i, n, mode) /\ Put(i, n, mode)
  BY <1>1, SetConfIsPut DEF MixSetConf
<1>3. IInv'
  BY <1>1, <1>2, PutInv
<1>4. PICK S : S = {c \in Channels : half = 1 /\ confna'[c] # confna[c]}
  OBVIOUS
<1>5. Forget(S) /\ calls' \in 0 .. MaxCalls /\ steady' = IF Moved THEN 0 ELSE steady
  BY <1>1, <1>4, CountedType DEF MixSetConf
<1>6. ASSUME steady' # 0, NEW c \in UserListeners'
      PROVE  c \in UserListeners /\ c \notin S /\ (c \in UserTalkers => c \in UserTalkers')
  <2>1. confna' = confna /\ confmode' = confmode
    BY <1>5, <1>6 DEF Moved
  <2>2. registered' = registered
    BY <1>2 DEF Put
  <2>3. UserListeners' = UserListeners /\ UserTalkers' = UserTalkers
    BY <2>1, <2>2 DEF UserListeners, UserTalkers, RealIn, Is, Does
  <2> QED BY <1>4, <1>6, <2>1, <2>3
<1>7. pending' = pending
  BY <1>2 DEF Put
<1> QED BY <1>3, <1>5, <1>6, <1>7, CallKeeps DEF MixSetConf

\* When a channel has been opened or taken out of its conference, and when a conference is
\* about to be cleared by who closes a channel.
Turns(c) ==
    /\ pending[c].op = "open" /\ pending'[c] = Idle => confmode'[c] = Normal
    /\ pending[c] # Closed /\ pending'[c] = Closed =>
           confmode'[c] = Normal \/ (pending[c].op = "close" /\ pending[c].conf # 0)
    /\ pending'[c].op = "close" /\ pending'[c].conf # 0 =>
           pending[c] = pending'[c] \/ confna'[c] # confna[c]

LEMMA LifecycleLeaves ==
    ASSUME IInv, Lifecycle
    PROVE  NobodyComes /\ \A c \in Channels : Turns(c)
<1>1. TypeOK
  BY DEF IInv
<1>2. pending \in [Channels -> Pend] /\ registered \subseteq Channels
  BY <1>1 DEF TypeOK, Pend
<1>3. \A c \in Channels : pending'[c] = pending[c] => Turns(c)
  BY DEF Turns, Idle
<1>4. PICK d \in Channels :
          \/ Open(d)  \/ Clear(d) \/ Opened(d) \/ OpenPseudo(d)
          \/ Close(d) \/ Release(d) \/ Unregister(d)
          \/ PassBy(d) \/ FreeWatcher(d) \/ Unregistered(d)
  BY DEF Lifecycle
<1>5. \A c \in Channels : c # d => pending'[c] = pending[c]
  BY <1>2, <1>4 DEF Open, Clear, Opened, OpenPseudo, Close, Release, Unregister, PassBy,
                    FreeWatcher, Unregistered
<1>6. CASE Open(d)
  <2>1. NobodyComes
    BY <1>6 DEF Open, NobodyComes
  <2>2. pending'[d].op = "open"
    BY <1>2, <1>6 DEF Open
  <2> QED BY <1>3, <1>5, <1>6, <2>1, <2>2 DEF Turns, Closed, Open, Idle
<1>7. CASE Clear(d)
  <2>1. NobodyComes
    BY <1>7 DEF Clear, NobodyComes
  <2>2. pending'[d].op = pending[d].op /\ pending'[d].conf = 0 /\ pending[d].conf # 0
    BY <1>2, <1>7 DEF Clear, Pend
  <2>3. Turns(d)
    BY <2>2 DEF Turns, Closed, Idle
  <2> QED BY <1>3, <1>5, <2>1, <2>3
<1>8. CASE Opened(d)
  <2>1. Leaves(d) /\ registered' = registered /\ pending'[d] = Idle
    BY <1>2, <1>8 DEF Opened, Leaves
  <2>2. Turns(d)
    BY <1>1, <2>1, LeavesType DEF Turns, Closed, Idle
  <2> QED BY <1>3, <1>5, <2>1, <2>2, LeavesType
<1>9. CASE OpenPseudo(d) \/ PassBy(d)
  BY <1>3, <1>9 DEF OpenPseudo, PassBy, NobodyComes
<1>10. CASE Close(d)
  <2>1. PICK y, M : y = confna[d]
                      /\ M = Below(maxchans, MembersOf(y, registered, confna', confmode'))
    OBVIOUS
  <2>2. /\ Leaves(d) /\ registered' = registered
        /\ pending'[d] = [op |-> "close", conf |-> ToClear(y, M)]
    BY <1>2, <1>10, <2>1 DEF Close, Leaves
  <2>3. ToClear(y, M) # 0 => y # 0
    BY ToClearType
  <2>4. confna'[d] = 0 /\ confmode'[d] = Normal
    BY <1>1, <2>2, LeavesType DEF Leaves, TypeOK
  <2>5. Turns(d)
    BY <2>1, <2>2, <2>3, <2>4 DEF Turns, Idle
  <2> QED BY <1>3, <1>5, <2>2, <2>5, LeavesType
<1>11. CASE Release(d) \/ Unregistered(d)
  <2>1. NobodyComes
    BY <1>11 DEF Release, Unregistered, NobodyComes
  <2>2. pending'[d] = Idle /\ pending[d].op # "open"
    BY <1>2, <1>11 DEF Release, Unregistered
  <2>3. Turns(d)
    BY <2>2 DEF Turns, Closed, Idle
  <2> QED BY <1>3, <1>5, <2>1, <2>3
<1>12. CASE Unregister(d)
  <2>1. Leaves(d) /\ registered' = registered \ {d} /\ pending'[d].op = "unreg"
    BY <1>2, <1>12 DEF Unregister, Leaves
  <2>2. Turns(d)
    BY <2>1 DEF Turns, Closed, Idle
  <2> QED BY <1>1, <1>3, <1>5, <2>1, <2>2, LeavesType
<1>13. CASE FreeWatcher(d)
  <2>1. PICK e : e = NextUncounted
    OBVIOUS
  <2>2. Leaves(e) /\ registered' = registered /\ e \in Channels
    BY <1>1, <1>13, <2>1, NextIsThere DEF FreeWatcher, Leaves
  <2>3. pending'[d].op = "unreg"
    BY <1>2, <1>13 DEF FreeWatcher, Pend
  <2>4. Turns(d)
    BY <2>3 DEF Turns, Closed, Idle
  <2> QED BY <1>3, <1>5, <2>2, <2>4, LeavesType
<1> QED BY <1>4, <1>6, <1>7, <1>8, <1>9, <1>10, <1>11, <1>12, <1>13

LEMMA MixLifecycleInv ==
    ASSUME MixInv, MixLifecycle
    PROVE  MixInv'
<1>1. IInv /\ MixTypeOK /\ TypeOK /\ MembersInv /\ ClosingInv
  BY DEF MixInv, IInv
<1>2. Lifecycle
  BY DEF MixLifecycle
<1>3. IInv'
  BY <1>1, <1>2, NextInv DEF Next
<1>4. PICK S : S = {c \in Channels : \/ (pending[c].op = "open" /\ pending'[c] = Idle)
                                     \/ (pending[c] # Closed /\ pending'[c] = Closed)
                                     \/ c \in registered \ registered'}
  OBVIOUS
<1>5. Forget(S) /\ calls' \in 0 .. MaxCalls /\ steady' = IF Moved THEN 0 ELSE steady
  <2>1. calls \in 0 .. MaxCalls
    BY <1>1 DEF MixTypeOK
  <2> QED BY <1>1, <1>4, <2>1, CountedType DEF MixLifecycle
<1>6. NobodyComes /\ \A c \in Channels : Turns(c)
  BY <1>1, <1>2, LifecycleLeaves
<1>7. ASSUME steady' # 0, NEW c \in UserListeners'
      PROVE  c \in UserListeners /\ c \notin S /\ (c \in UserTalkers => c \in UserTalkers')
  <2>1. /\ c \in registered' /\ c \in Reals /\ c \in Channels /\ IsConference(confmode'[c])
        /\ confmode'[c].kind = "realandpseudo" /\ "plisten" \in confmode'[c].flags
    BY DEF UserListeners, RealIn, Channels, Is, Does
  <2>2. confna'[c] = confna[c] /\ confmode'[c] = confmode[c]
    BY <1>6, <2>1 DEF NobodyComes
  <2>3. c \in registered
    BY <1>1, <2>1, <2>2 DEF MembersInv
  <2>4. c \in UserListeners /\ (c \in UserTalkers => c \in UserTalkers')
    BY <2>1, <2>2, <2>3 DEF UserListeners, UserTalkers, RealIn, Is, Does
  <2>5. confmode'[c] # Normal
    BY <2>1, NormalIsNone
  <2>6. ~(pending[c].op = "close" /\ pending[c].conf # 0)
    BY <1>1, <1>5, <1>7, <2>1 DEF ClosingInv
  <2>7. c \notin S
    BY <1>4, <1>6, <2>1, <2>5, <2>6 DEF Turns
  <2> QED BY <2>4, <2>7
<1>8. \A c \in Channels : pending'[c].op = "close" /\ pending'[c].conf # 0 =>
          pending[c] = pending'[c] \/ confna'[c] # confna[c]
  BY <1>6 DEF Turns
<1> QED BY <1>3, <1>5, <1>7, <1>8, CallKeeps DEF MixLifecycle

LEMMA ConfLinkInv ==
    ASSUME MixInv, ConfLink
    PROVE  MixInv'
<1>1. IInv /\ MixTypeOK /\ LinksInv
  BY DEF MixInv
<1>2. IInv'
  BY <1>1, ConfKept DEF ConfLink
<1>3. \A l \in Slots : conf_links[l] \in LinkSet
  BY <1>1 DEF LinksInv
<1>4. NoLink \in LinkSet
  BY MaxConfAssumption DEF NoLink, LinkSet
<1>5. ASSUME NEW src \in Aliases, NEW dst \in Aliases, Link(src, dst) PROVE LinksInv'
  <2>1. PICK free : free = {l \in Slots : conf_links[l] = NoLink}
    OBVIOUS
  <2>2. PICK n : n = CHOOSE l \in free : \A k \in free : l <= k
    OBVIOUS
  <2>3. PICK new : new = [src |-> src, dst |-> dst]
    OBVIOUS
  <2>4. /\ free # {} /\ \A l \in Slots : conf_links[l] # new
        /\ conf_links' = [conf_links EXCEPT ![n] = new]
    BY <1>5, <2>1, <2>2, <2>3, Zenon DEF Link
  <2>5. n \in free
    <3>1. free \in SUBSET Nat
      BY <2>1, MixAssumption DEF Slots
    <3>2. \E l \in free : \A k \in free : l <= k
      BY <2>4, <3>1, LeastNumber
    <3> QED BY <2>2, <3>2
  <2>6. n \in Slots
    BY <2>1, <2>5
  <2>7. new \in LinkSet /\ new.src = src /\ new.dst = dst
    BY <2>3, MaxConfAssumption DEF LinkSet, Aliases
  <2>8. \A l \in Slots : conf_links'[l] = IF l = n THEN new ELSE conf_links[l]
    BY <1>1, <2>4, <2>6 DEF LinksInv
  <2>9. conf_links' \in [Slots -> LinkSet]
    BY <1>1, <2>4, <2>6, <2>7 DEF LinksInv
  <2> QED BY <1>1, <2>4, <2>7, <2>8, <2>9 DEF LinksInv
<1>6. ASSUME NEW n \in Slots, Unlink(n) PROVE LinksInv'
  <2>1. \A l \in Slots : conf_links'[l] = IF l = n THEN NoLink ELSE conf_links[l]
    BY <1>1, <1>6 DEF Unlink, LinksInv
  <2>2. conf_links' \in [Slots -> LinkSet]
    BY <1>1, <1>4, <1>6 DEF Unlink, LinksInv
  <2> QED BY <1>1, <2>1, <2>2 DEF LinksInv
<1>7. ASSUME UnlinkAll PROVE LinksInv'
  <2>1. \A l \in Slots : conf_links'[l] = NoLink
    BY <1>7 DEF UnlinkAll
  <2>2. conf_links' \in [Slots -> LinkSet]
    BY <1>4, <1>7 DEF UnlinkAll
  <2> QED BY <2>1, <2>2 DEF LinksInv
<1>8. LinksInv'
  BY <1>5, <1>6, <1>7 DEF ConfLink
<1>9. MixTypeOK'
  <2>1. TypeOK' /\ steady' \in 0 .. 2
    BY <1>2 DEF IInv, ConfLink
  <2>3. calls' \in 0 .. MaxCalls
    BY <1>1, CountedType DEF ConfLink
  <2>2. conf_links' \in [Slots -> [src : 0 .. MaxConf, dst : 0 .. MaxConf]]
    BY <1>8 DEF LinksInv, LinkSet
  <2> QED BY <1>1, <2>1, <2>2, <2>3 DEF ConfLink, MixTypeOK, sums, lasts
<1>10. AheadInv' /\ EchoInv' /\ ClosingInv'
  <2>1. AheadInv'
    BY DEF MixInv, AheadInv, ConfLink, sums
  <2>2. EchoInv'
    BY DEF ConfLink, EchoInv
  <2>3. ClosingInv'
    BY DEF ConfLink, ClosingInv
  <2> QED BY <2>1, <2>2, <2>3
<1> QED BY <1>2, <1>8, <1>9, <1>10 DEF MixInv

LEMMA MixInitInv == MixInit => MixInv
<1> SUFFICES ASSUME MixInit PROVE MixInv
  OBVIOUS
<1>1. Init /\ IInv
  BY InitInv DEF MixInit
<1>2. MixTypeOK
  <2>1. TypeOK /\ confalias = [x \in Confs |-> 0]
    BY <1>1 DEF IInv, Init
  <2>2. /\ 0 \in 0 .. MaxConf /\ 0 \in 0 .. MaxConf - 1 /\ 0 \in 0 .. MaxSpoken /\ 0 \in 0 .. MaxCalls
        /\ 0 \in Int
    BY MaxConfAssumption, MixAssumption
  <2> QED BY <2>1, <2>2 DEF MixInit, MixTypeOK, Silence, NoLink
<1>3. LinksInv
  <2>1. \A l \in Slots : conf_links[l] = NoLink
    BY DEF MixInit
  <2>2. conf_links \in [Slots -> LinkSet]
    BY MaxConfAssumption DEF MixInit, NoLink, LinkSet
  <2> QED BY <2>1, <2>2 DEF LinksInv
<1>4. AheadInv
  BY <1>1 DEF MixInit, Init, AheadInv
<1>5. EchoInv /\ ClosingInv
  BY DEF MixInit, EchoInv, ClosingInv
<1> QED BY <1>1, <1>2, <1>3, <1>4, <1>5 DEF MixInv

LEMMA MixNextInv == MixInv /\ [MixNext]_vars => MixInv'
<1> SUFFICES ASSUME MixInv, [MixNext]_vars PROVE MixInv'
  OBVIOUS
<1>1. CASE Chunk
  <2>1. TypeOK
    BY DEF MixInv, IInv
  <2> QED BY <1>1, <2>1, ChunkIsTick, TickInv
<1>2. CASE UNCHANGED vars
  <2>1. IInv'
    BY <1>2, ConfKept DEF MixInv, vars
  <2>2. MixTypeOK'
    BY <1>2, <2>1 DEF MixInv, IInv, MixTypeOK, vars, sums, lasts
  <2>3. LinksInv'
    BY <1>2 DEF MixInv, LinksInv, vars
  <2>4. UserListeners' = UserListeners /\ UserTalkers' = UserTalkers /\ _confn' = _confn
    BY <1>2 DEF vars, conf_vars, UserListeners, UserTalkers, RealIn, Is, Does
  <2>5. AheadInv' /\ ClosingInv'
    BY <1>2 DEF MixInv, AheadInv, ClosingInv, vars, conf_vars, sums
  <2>6. EchoInv'
    <3>1. UNCHANGED <<confna, confalias>>
      BY <1>2 DEF vars, conf_vars
    <3> QED BY <1>2, <2>4, <3>1 DEF MixInv, EchoInv, InPlace, NoLinks, vars, sums, lasts
  <2> QED BY <2>1, <2>2, <2>3, <2>5, <2>6 DEF MixInv
<1> QED BY <1>1, <1>2, MixSetConfInv, MixLifecycleInv, ConfLinkInv DEF MixNext

LEMMA MixInvariance == MixSpec => []MixInv
BY MixInitInv, MixNextInv, PTL DEF MixSpec

-----------------------------------------------------------------------------
(* What is heard.                                                          *)

LEMMA OwnVoiceIs ==
    ASSUME NEW c \in Listeners, NEW voices \in SomeVoices
    PROVE  OwnVoice(c, voices) =
               Said({IF c \in Reals THEN Line(c) ELSE User(c)} \cap voices
                        \cap IF Does(c, "talk") THEN Voices ELSE {})
<1>1. PICK v : v = IF c \in Reals THEN Line(c) ELSE User(c)
  OBVIOUS
<1>2. PICK own : own = {v} \cap voices \cap IF Does(c, "talk") THEN Voices ELSE {}
  OBVIOUS
<1>3. voices \subseteq Voices
  BY DEF SomeVoices
<1>4. Reals \cap Pseudos = {}
  BY ChannelAssumption
<1>5. c \in RealIn \cup PseudoIn
  BY DEF Listeners
<1>6. CASE c \in Talkers
  <2>1. v = Line(c) /\ own = {Line(c)} \cap voices
    BY <1>1, <1>2, <1>3, <1>6 DEF Talkers, RealIn
  <2>2. c \notin PTalkers
    BY <1>4, <1>6 DEF Talkers, PTalkers, RealIn, PseudoIn
  <2>3. OwnVoice(c, voices) = Said({Line(c)} \cap voices)
    BY <1>6, <2>2 DEF OwnVoice
  <2> QED BY <1>1, <1>2, <2>1, <2>3
<1>7. CASE c \in PTalkers
  <2>1. c \notin Reals /\ c \notin Talkers
    BY <1>4, <1>7 DEF PTalkers, PseudoIn, Talkers, RealIn
  <2>2. v = User(c) /\ own = {User(c)} \cap voices
    BY <1>1, <1>2, <1>3, <1>7, <2>1 DEF PTalkers
  <2> QED BY <1>1, <1>2, <1>7, <2>1, <2>2 DEF OwnVoice
<1>8. CASE c \notin Talkers /\ c \notin PTalkers
  <2>1. ~Does(c, "talk")
    BY <1>5, <1>8 DEF Talkers, PTalkers
  <2>2. own = {}
    BY <1>2, <2>1
  <2>3. OwnVoice(c, voices) = Silence
    BY <1>5, <1>8 DEF OwnVoice
  <2>4. Said(own) = 0
    BY <2>2, FS_EmptySet DEF Said
  <2> QED BY <1>1, <1>2, <2>3, <2>4 DEF Silence
<1> QED BY <1>6, <1>7, <1>8

LEMMA OthersAreHeard ==
    ASSUME MixInv
    PROVE  HearsOthers
<1>1. IInv /\ MixTypeOK /\ LinksInv /\ AheadInv /\ TypeOK /\ TablesInv
  BY DEF MixInv, IInv
<1> DEFINE Own(c, voices) == Said({IF c \in Reals THEN Line(c) ELSE User(c)} \cap voices
                                    \cap IF Does(c, "talk") THEN Voices ELSE {})
           Given(c, voices) == Said({User(c)} \cap voices
                                      \cap IF c \in Reals /\ Is(c, "conf") THEN Voices ELSE {})
<1> SUFFICES ASSUME NEW c \in Listeners, NEW x, x = confna[c], Settled(x),
                    \A y \in Sources(x) : Sources(y) = {} /\ (confalias[y] # 0 => Settled(y)),
                    conf_links[LinkSlots] = NoLink, NEW voices \in SomeVoices
             PROVE  Hears(c, voices) =
                        SaidIn(x, voices) + SaidInSources(x, voices)
                          - Own(c, voices) + Given(c, voices)
  BY Zenon DEF HearsOthers
<1>0. (\A y \in Sources(x) : Sources(y) = {}) /\ conf_links[LinkSlots] = NoLink
  OBVIOUS
<1>2. c \in registered /\ IsConference(confmode[c]) /\ c \in Channels
  BY DEF Listeners, RealIn, PseudoIn, Channels
<1>3. x \in Confs /\ Alias(x) = _confn[c] /\ Alias(x) # 0 /\ Alias(x) \in Aliases
  <2>1. x \in Confs /\ Whole(x) /\ c \in RealIn \cup PseudoIn
    BY <1>1, <1>2 DEF IInv, MembersInv, Settled, Listeners
  <2> QED BY <1>1, <2>1, WholeIs
<1>4. \A y : Alias(y) # 0 => y \in Confs /\ Alias(y) = confalias[y] /\ Alias(y) \in Aliases
  BY <1>1, AliasIs
<1>5. next \in [Aliases -> Int] /\ ahead \in [Confs -> {0, 1}]
  BY <1>1 DEF MixTypeOK
<1>6. PICK s : s = Written(voices)
  OBVIOUS
<1>7. s \in [Aliases -> Int]
  BY <1>5, <1>6, WrittenType
\* In every conference that had its accumulator there is what its members say.
<1>8. ASSUME NEW y, Alias(y) # 0, Settled(y)
      PROVE  /\ s[Alias(y)] = ahead[y] + Said(Speakers(y) \cap voices)
             /\ y \in Confs /\ ahead[y] \in {0, 1}
  <2>1. y \in Confs /\ placed[y] = Alias(y) /\ Whole(y)
    BY <1>4, <1>8 DEF Settled
  <2>2. next[Alias(y)] = ahead[y]
    BY <1>1, <1>8, <2>1 DEF AheadInv
  <2>3. s[Alias(y)] = next[Alias(y)] + Said(Speakers(y) \cap voices)
    BY <1>1, <1>5, <1>6, <2>1, WrittenIs
  <2> QED BY <1>5, <2>1, <2>2, <2>3
<1> DEFINE P == {y \in Confs : Speakers(y) \cap voices # {}}
           Q == {y \in Confs : ahead[y] = 1}
<1>9. ASSUME NEW y \in Arriving(x) PROVE s[Alias(y)] = One(y \in P) + One(y \in Q)
  <2>1. y \in Sources(x) /\ Alias(y) # 0 /\ y \in Confs /\ Settled(y)
    BY <1>4 DEF Arriving
  <2>2. s[Alias(y)] = ahead[y] + Said(Speakers(y) \cap voices) /\ ahead[y] \in {0, 1}
    BY <1>8, <2>1
  <2>3. /\ Said(Speakers(y) \cap voices) \in {0, 1}
        /\ Said(Speakers(y) \cap voices) = 1 <=> Speakers(y) \cap voices # {}
    BY SaidIs
  <2>4. Said(Speakers(y) \cap voices) = One(y \in P)
    BY <2>1, <2>3 DEF One
  <2>5. ahead[y] = One(y \in Q)
    BY <2>1, <2>2 DEF One
  <2> HIDE DEF P, Q
  <2> QED BY <2>2, <2>4, <2>5 DEF One
<1>10. Linked(s)[Alias(x)] = s[Alias(x)] + Cardinality(Arriving(x) \cap P)
                                        + Cardinality(Arriving(x) \cap Q)
  <2>1. PICK p, q : p = P /\ q = Q
    OBVIOUS
  <2> HIDE DEF P, Q
  <2>2. \A y \in Arriving(x) : s[Alias(y)] = One(y \in p) + One(y \in q)
    BY <1>9, <2>1
  <2>3. Linked(s)[Alias(x)] = s[Alias(x)] + Cardinality(Arriving(x) \cap p)
                                          + Cardinality(Arriving(x) \cap q)
    <3>1. SumsUp(s, x, p, q)
      BY <1>0, <1>3, <1>7, <2>2 DEF SumsUp, OnlyTwoDeep
    <3> QED BY <1>1, <3>1, LinkedSum
  <2> QED BY <2>1, <2>3
<1>11. SaidInSources(x, voices) = Cardinality(Arriving(x) \cap P) + Cardinality(Arriving(x) \cap Q)
  <2>1. Arriving(x) \subseteq Confs
    BY <1>4 DEF Arriving
  <2>2. /\ {y \in Arriving(x) : Speakers(y) \cap voices # {}} = Arriving(x) \cap P
        /\ {y \in Arriving(x) : ahead[y] = 1} = Arriving(x) \cap Q
    BY <2>1
  <2> HIDE DEF P, Q
  <2> QED BY <2>2 DEF SaidInSources, Said
<1>12. s[Alias(x)] = SaidIn(x, voices)
  <2>1. s[Alias(x)] = ahead[x] + Said(Speakers(x) \cap voices) /\ ahead[x] \in Int
    BY <1>3, <1>8
  <2>2. Said(Speakers(x) \cap voices) \in Int
    BY SaidInt
  <2> QED BY <2>1, <2>2 DEF SaidIn
<1>13. Mixed(voices)[_confn[c]] = SaidIn(x, voices) + SaidInSources(x, voices)
         /\ SaidIn(x, voices) \in Int /\ SaidInSources(x, voices) \in Int
  <2>1. Arriving(x) \subseteq Confs /\ IsFiniteSet(Confs)
    BY <1>4, FS_Interval, MaxConfAssumption DEF Arriving, Confs
  <2>2. IsFiniteSet(Arriving(x) \cap P) /\ IsFiniteSet(Arriving(x) \cap Q)
    <3>1. IsFiniteSet(Arriving(x))
      BY <2>1, FS_Subset
    <3> QED BY <3>1, FS_Intersection
  <2>3. Cardinality(Arriving(x) \cap P) \in Nat /\ Cardinality(Arriving(x) \cap Q) \in Nat
    <3> HIDE DEF P, Q
    <3> QED BY <2>2, FS_CardinalityType
  <2>4. s[Alias(x)] \in Int
    BY <1>3, <1>7
  <2> HIDE DEF P, Q
  <2> QED BY <1>3, <1>6, <1>10, <1>11, <1>12, <2>3, <2>4 DEF Mixed
<1>14. PICK w : w = Given(c, voices)
  OBVIOUS
<1>15. w = IF c \in Reals /\ Is(c, "conf") THEN Said({User(c)} \cap voices) ELSE 0
  <2>1. CASE c \in Reals /\ Is(c, "conf")
    <3>1. {User(c)} \cap voices \cap Voices = {User(c)} \cap voices
      BY DEF SomeVoices
    <3> QED BY <1>14, <2>1, <3>1
  <2>2. CASE ~(c \in Reals /\ Is(c, "conf"))
    <3>1. {User(c)} \cap voices \cap {} = {}
      OBVIOUS
    <3> QED BY <1>14, <2>2, <3>1, FS_EmptySet DEF Said
  <2> QED BY <2>1, <2>2
<1>16. PICK o : o = OwnVoice(c, voices)
  OBVIOUS
<1>17. o \in Int /\ w \in Int
  <2>1. o \in Int
    BY <1>1, <1>2, <1>16, OwnVoiceType
  <2>2. Said({User(c)} \cap voices) \in Int
    BY SaidInt
  <2> QED BY <1>15, <2>1, <2>2
<1>18. Hears(c, voices) = Mixed(voices)[_confn[c]] - o + w
  BY <1>13, <1>15, <1>16, <1>17 DEF Hears
<1>19. o = Own(c, voices)
  BY <1>16, OwnVoiceIs
<1>20. PICK m, n : m = SaidIn(x, voices) /\ n = SaidInSources(x, voices)
  OBVIOUS
<1>21. Hears(c, voices) = m + n - o + w
  <2>1. m \in Int /\ n \in Int /\ Mixed(voices)[_confn[c]] = m + n
    BY <1>13, <1>20
  <2> QED BY <1>17, <1>18, <2>1
<1> HIDE DEF P, Q, Own, Given
<1> QED BY <1>14, <1>19, <1>20, <1>21

\* Nobody is heard twice and nobody is left out: whatever channels, conferences and links
\* come and go between two chunks, and whatever callers do at the same time, what
\* process_masterspan() hands to a listener is the sum of the others in its conference and
\* in those linked to it, each of which has had its accumulator to itself for two ticks;
\* and a user in place who talks and listens does not hear itself.
THEOREM EverybodyHearsRight == MixSpec => []HearsRight
<1>1. MixInv => NoUserEcho
  <2> SUFFICES ASSUME MixInv, NEW c \in UserListeners, steady = 2, InPlace(c),
                      \A l \in Slots : conf_links[l] = NoLink, voice = User(c)
               PROVE  UserHears(c) = 0
    BY DEF NoUserEcho
  <2>1. EchoInv /\ MixTypeOK /\ IInv
    BY DEF MixInv
  <2>2. cur[_confn[c]] = conflast2[c]
    BY <2>1 DEF EchoInv, NoLinks
  <2>3. conflast2[c] \in Int
    BY <2>1 DEF MixTypeOK, UserListeners, RealIn, Channels
  <2> QED BY <2>2, <2>3 DEF UserHears
<1>2. MixInv => HearsRight
  BY <1>1, OthersAreHeard DEF HearsRight
<1> QED BY <1>2, MixInvariance, PTL

\* Every accumulator, sample kept and link of the mixer has its type, and what is heard
\* of one voice is counted right: it has died away when nothing is left of it.
THEOREM MixTypes == MixSpec => []MixTypeOK
<1>1. MixInv => MixTypeOK
  BY DEF MixInv
<1> QED BY <1>1, MixInvariance, PTL
=============================================================================

--------------------------- MODULE DynamicProofs ---------------------------
(***************************************************************************)
(* Proofs about the dynamic spans, for every set of spans and whatever     *)
(* timing each of them offers: the types, the list, and the election of    *)
(* the master by however many threads call checkmaster, in whatever order. *)
(***************************************************************************)
EXTENDS DynamicSpans, FiniteSetTheorems, SequenceTheorems, WellFoundedInduction, TLAPS

Stages   == {"new", "linked", "listed", "unlinked", "gone"}
Receipts == {"idle", "alarm", "check", "stamp"}

StagesTyped ==
    /\ status \in [Spans -> Stages]
    /\ rx \in [Spans -> Receipts]

\* A span becomes the master only while it is listed, and only if it gives timing; it
\* keeps the mark when it leaves the list, but it never comes back.
MastersAreSources == \A z \in Spans : master[z] => Timing[z] > 0 /\ status[z] # "new"

OneMaster == \A y, z \in Listed : master[y] /\ master[z] => y = z

Elected ==
    /\ hasmaster = (Eligible # {})
    /\ \A z \in Listed : master[z] <=> Eligible # {} /\ z = Best

\* The inductive invariant.
IInv ==
    /\ DynTypeOK
    /\ StagesTyped
    /\ MastersAreSources
    /\ OneMaster
    /\ ~CheckDue => Elected

-----------------------------------------------------------------------------
(* The list.                                                               *)

LEMMA PlaceType ==
    ASSUME dspans \in Seq(Spans), NEW z \in Listed
    PROVE  Place(z) \in 1 .. Len(dspans) /\ dspans[Place(z)] = z
<1>1. \E i \in DOMAIN dspans : dspans[i] = z
  BY DEF Listed, ToSet
<1>2. Place(z) \in DOMAIN dspans /\ dspans[Place(z)] = z
  BY <1>1, Zenon DEF Place
<1> QED BY <1>2

LEMMA PrependType ==
    ASSUME NEW S, NEW s \in Seq(S), NEW z \in S, NEW t, t = <<z>> \o s
    PROVE  /\ t \in Seq(S)
           /\ \A x : x \in ToSet(t) <=> x \in ToSet(s) \/ x = z
           /\ IsInjective(s) /\ z \notin ToSet(s) => IsInjective(t)
<1>1. <<z>> \in Seq(S) /\ Len(<<z>>) = 1
  OBVIOUS
<1>2. /\ t \in Seq(S) /\ Len(t) = Len(s) + 1 /\ Len(s) \in Nat
      /\ t[1] = z /\ \A i \in 1 .. Len(s) : t[i + 1] = s[i]
  BY <1>1, ConcatProperties
<1>3. DOMAIN t = 1 .. Len(s) + 1 /\ DOMAIN s = 1 .. Len(s)
  BY <1>2
<1>4. \A i \in DOMAIN t : i = 1 \/ \E j \in DOMAIN s : i = j + 1 /\ t[i] = s[j]
  <2> SUFFICES ASSUME NEW i \in DOMAIN t, i # 1
               PROVE  \E j \in DOMAIN s : i = j + 1 /\ t[i] = s[j]
    OBVIOUS
  <2>1. i - 1 \in 1 .. Len(s) /\ i = (i - 1) + 1
    BY <1>2, <1>3
  <2> QED BY <1>2, <1>3, <2>1
<1>5. \A j \in DOMAIN s : j + 1 \in DOMAIN t /\ t[j + 1] = s[j]
  BY <1>2, <1>3
<1>6. 1 \in DOMAIN t
  BY <1>2, <1>3
<1>7. \A x : x \in ToSet(t) <=> x \in ToSet(s) \/ x = z
  <2>1. \A x : x \in ToSet(t) => x \in ToSet(s) \/ x = z
    BY <1>2, <1>4 DEF ToSet
  <2>2. \A x : x \in ToSet(s) => x \in ToSet(t)
    BY <1>5 DEF ToSet
  <2>3. z \in ToSet(t)
    BY <1>2, <1>6 DEF ToSet
  <2> QED BY <2>1, <2>2, <2>3
<1>8. ASSUME IsInjective(s), z \notin ToSet(s) PROVE IsInjective(t)
  <2> SUFFICES ASSUME NEW a \in DOMAIN t, NEW b \in DOMAIN t, t[a] = t[b]
               PROVE  a = b
    BY Zenon DEF IsInjective
  <2>1. \A j \in DOMAIN s : s[j] # z
    BY <1>8 DEF ToSet
  <2>2. a = 1 \/ \E j \in DOMAIN s : a = j + 1 /\ t[a] = s[j]
    BY <1>4
  <2>3. b = 1 \/ \E j \in DOMAIN s : b = j + 1 /\ t[b] = s[j]
    BY <1>4
  <2> QED BY <1>2, <1>8, <2>1, <2>2, <2>3 DEF IsInjective
<1> QED BY <1>2, <1>7, <1>8

LEMMA RemoveType ==
    ASSUME NEW S, NEW s \in Seq(S), NEW i \in 1 .. Len(s), IsInjective(s),
           NEW t, t = RemoveAt(s, i)
    PROVE  /\ t \in Seq(S)
           /\ ToSet(t) = ToSet(s) \ {s[i]}
           /\ IsInjective(t)
<1> DEFINE a == SubSeq(s, 1, i - 1)
           b == SubSeq(s, i + 1, Len(s))
           n == Len(s)
<1>1. n \in Nat /\ DOMAIN s = 1 .. n
  OBVIOUS
<1>2. a \in Seq(S) /\ Len(a) = i - 1 /\ \A k \in 1 .. i - 1 : a[k] = s[k]
  <2>1. 1 \in 1 .. Len(s) + 1 /\ i - 1 \in 1 - 1 .. Len(s)
    BY <1>1
  <2> QED BY <2>1, SubSeqProperties
<1>3. b \in Seq(S) /\ Len(b) = n - i /\ \A k \in 1 .. n - i : b[k] = s[k + i]
  <2>1. PICK m \in Int : m = i + 1
    OBVIOUS
  <2>2. n \in Int /\ \A k \in m .. n : s[k] \in S
    BY <1>1, <2>1
  <2>3. /\ SubSeq(s, m, n) \in Seq(S)
        /\ Len(SubSeq(s, m, n)) = (IF m <= n THEN n - m + 1 ELSE 0)
        /\ \A k \in 1 .. n - m + 1 : SubSeq(s, m, n)[k] = s[m + k - 1]
    BY <2>2, SubSeqProperties
  <2>4. b = SubSeq(s, m, n)
    BY <2>1
  <2> HIDE DEF b
  <2>5. Len(b) = n - i
    <3>1. (IF m <= n THEN n - m + 1 ELSE 0) = n - i
      <4>1. i \in 1 .. n /\ n \in Nat
        BY <1>1
      <4> HIDE DEF n
      <4> QED BY <2>1, <4>1
    <3> QED BY <2>3, <2>4, <3>1, Zenon
  <2>6. ASSUME NEW k \in 1 .. n - i PROVE b[k] = s[k + i]
    <3>1. k \in 1 .. n - m + 1 /\ m + k - 1 = k + i
      BY <1>1, <2>1
    <3> QED BY <2>3, <2>4, <3>1
  <2> QED BY <2>3, <2>4, <2>5, <2>6
<1>4. t = a \o b
  BY DEF RemoveAt
<1> HIDE DEF a, b
<1>5. /\ t \in Seq(S) /\ Len(t) = n - 1
      /\ \A k \in 1 .. n - 1 : t[k] = IF k < i THEN a[k] ELSE b[k - (i - 1)]
  <2>1. Len(a) + Len(b) = n - 1
    BY <1>1, <1>2, <1>3
  <2>2. /\ a \o b \in Seq(S) /\ Len(a \o b) = Len(a) + Len(b)
        /\ \A k \in 1 .. Len(a) + Len(b) :
              (a \o b)[k] = IF k <= Len(a) THEN a[k] ELSE b[k - Len(a)]
    BY <1>2, <1>3, ConcatProperties
  <2>3. \A k \in 1 .. n - 1 : t[k] = IF k <= i - 1 THEN a[k] ELSE b[k - (i - 1)]
    BY <1>2, <1>4, <2>1, <2>2
  <2>4. \A k \in 1 .. n - 1 : k <= i - 1 <=> k < i
    OBVIOUS
  <2> HIDE DEF n
  <2> QED BY <1>4, <2>1, <2>2, <2>3, <2>4
<1>6. DOMAIN t = 1 .. n - 1
  BY <1>1, <1>5
<1>7. \A k \in 1 .. n - 1 : t[k] = s[IF k < i THEN k ELSE k + 1]
  <2> SUFFICES ASSUME NEW k \in 1 .. n - 1 PROVE t[k] = s[IF k < i THEN k ELSE k + 1]
    OBVIOUS
  <2>1. CASE k < i
    BY <1>2, <1>5, <2>1
  <2>2. CASE ~(k < i)
    <3>1. PICK j \in 1 .. n - i : j = k - (i - 1)
      BY <1>1, <2>2
    <3>2. j + i = k + 1
      BY <3>1
    <3> QED BY <1>3, <1>5, <2>2, <3>1, <3>2
  <2> QED BY <2>1, <2>2
<1>8. \A k \in DOMAIN t : \E j \in DOMAIN s : j # i /\ t[k] = s[j]
                                          /\ j = (IF k < i THEN k ELSE k + 1)
  <2> SUFFICES ASSUME NEW k \in 1 .. n - 1
               PROVE  \E j \in 1 .. n : j # i /\ t[k] = s[j]
                                       /\ j = (IF k < i THEN k ELSE k + 1)
    BY <1>1, <1>6
  <2>1. PICK j \in 1 .. n : j # i /\ j = (IF k < i THEN k ELSE k + 1)
    BY <1>1
  <2> QED BY <1>7, <2>1
<1>9. \A j \in DOMAIN s : j # i => \E k \in DOMAIN t : t[k] = s[j]
  <2> SUFFICES ASSUME NEW j \in 1 .. n, j # i PROVE \E k \in 1 .. n - 1 : t[k] = s[j]
    BY <1>1, <1>6
  <2>1. PICK k \in 1 .. n - 1 : (IF k < i THEN k ELSE k + 1) = j
    <3>1. CASE j < i
      BY <1>1, <3>1
    <3>2. CASE j > i
      <4>1. j - 1 \in 1 .. n - 1 /\ (IF j - 1 < i THEN j - 1 ELSE (j - 1) + 1) = j
        BY <1>1, <3>2
      <4> QED BY <4>1
    <3> QED BY <1>1, <3>1, <3>2
  <2> QED BY <1>7, <2>1
<1>10. ToSet(t) = ToSet(s) \ {s[i]}
  <2>1. \A j \in DOMAIN s : j # i => s[j] # s[i]
    BY <1>1 DEF IsInjective
  <2> QED BY <1>8, <1>9, <2>1 DEF ToSet
<1>11. IsInjective(t)
  <2> SUFFICES ASSUME NEW k \in 1 .. n - 1, NEW l \in 1 .. n - 1, t[k] = t[l]
               PROVE  k = l
    BY <1>6, Zenon DEF IsInjective
  <2>1. PICK j \in DOMAIN s : t[k] = s[j] /\ j = (IF k < i THEN k ELSE k + 1)
    BY <1>6, <1>8
  <2>2. PICK m \in DOMAIN s : t[l] = s[m] /\ m = (IF l < i THEN l ELSE l + 1)
    BY <1>6, <1>8
  <2>3. j = m
    BY <2>1, <2>2 DEF IsInjective
  <2> QED BY <2>1, <2>2, <2>3
<1> QED BY <1>5, <1>10, <1>11

-----------------------------------------------------------------------------
(* The election.                                                           *)

LEMMA LeastNumber ==
    ASSUME NEW T \in SUBSET Nat, T # {}
    PROVE  \E n \in T : \A k \in T : n <= k
<1>1. PICK n \in T : \A k \in T : ~(<<k, n>> \in OpToRel(<, Nat))
  BY WFMin, NatLessThanWellFounded, Zenon
<1>2. \A k \in T : ~(k < n)
  BY <1>1, Zenon DEF OpToRel
<1> QED BY <1>2, SMT

\* The loop of checkmaster has a best source to find, wherever there is any.
LEMMA BestIsEligible ==
    ASSUME dspans \in Seq(Spans), Eligible # {}
    PROVE  Best \in Listed /\ Timing[Best] > 0 /\ Best \notin red
<1>1. Eligible \subseteq 1 .. Len(dspans) /\ \A i \in Eligible : Timing[dspans[i]] \in Nat
  BY DynAssumption, ElementOfSeq DEF Eligible
<1> DEFINE T == {Timing[dspans[i]] : i \in Eligible}
<1>2. PICK p \in T : \A q \in T : p <= q
  BY <1>1, LeastNumber
<1> DEFINE E == {i \in Eligible : Timing[dspans[i]] = p}
<1>3. PICK i \in E : \A j \in E : i <= j
  <2>0. \E i \in Eligible : Timing[dspans[i]] = p
    BY <1>2
  <2> HIDE DEF T
  <2>1. E \in SUBSET Nat /\ E # {}
    BY <1>1, <2>0
  <2> HIDE DEF E
  <2> QED BY <2>1, LeastNumber
<1>4. i \in Eligible /\ \A j \in Eligible : Better(i, j)
  <2> SUFFICES ASSUME NEW j \in Eligible PROVE Better(i, j)
    BY <1>3
  <2>1. p <= Timing[dspans[j]] /\ Timing[dspans[j]] \in Nat /\ Timing[dspans[i]] = p
    BY <1>1, <1>2, <1>3
  <2>2. p \in Nat /\ (Timing[dspans[j]] = p => i <= j)
    BY <1>1, <1>2, <1>3
  <2> QED BY <2>1, <2>2 DEF Better
<1>5. PICK b \in Eligible : Best = dspans[b]
  BY <1>4, Zenon DEF Best
<1> QED BY <1>1, <1>5, ElementOfSeq DEF Eligible, Listed, ToSet

\* What checkmaster leaves behind.
LEMMA CheckMasterElects ==
    ASSUME IInv, CheckMaster
    PROVE  /\ master' \in [Spans -> BOOLEAN] /\ hasmaster' \in BOOLEAN
           /\ hasmaster' = (Eligible # {})
           /\ \A z \in Listed : master'[z] <=> Eligible # {} /\ z = Best
           /\ \A z \in Spans : master'[z] => master[z] \/ (z = Best /\ Eligible # {})
<1>1. dspans \in Seq(Spans) /\ Listed \subseteq Spans
      /\ \A z \in Listed : master[z] => Timing[z] > 0
  BY DEF IInv, DynTypeOK, MastersAreSources
<1>2. /\ hasmaster' = (Eligible # {})
      /\ master' = [z \in Spans |-> \/ Eligible # {} /\ z = Best
                                    \/ master[z] /\ ~Demoted(z)]
  BY DEF CheckMaster
<1>3. \A z \in Listed : ~(master[z] /\ ~Demoted(z))
  BY <1>1 DEF Demoted
<1>4. master' \in [Spans -> BOOLEAN]
  BY <1>2
<1>5. \A z \in Listed : master'[z] <=> Eligible # {} /\ z = Best
  BY <1>1, <1>2, <1>3
<1>6. \A z \in Spans : master'[z] => master[z] \/ (z = Best /\ Eligible # {})
  BY <1>2
<1> QED BY <1>2, <1>4, <1>5, <1>6

LEMMA BestStays ==
    ASSUME UNCHANGED dspans, \A z \in Listed : z \in red' <=> z \in red
    PROVE  UNCHANGED <<Listed, Eligible, Best>>
<1>1. Listed' = Listed
  BY DEF Listed
<1>2. Eligible' = Eligible
  BY DEF Eligible, Listed, ToSet
<1>3. Best' = Best
  BY <1>2, Zenon DEF Best, Better
<1> QED BY <1>1, <1>2, <1>3

\* Whoever calls checkmaster, the election holds afterwards.
LEMMA ElectionHolds ==
    ASSUME IInv, CheckMaster, UNCHANGED dspans,
           \A z \in Listed : z \in red' <=> z \in red
    PROVE  /\ master' \in [Spans -> BOOLEAN] /\ hasmaster' \in BOOLEAN
           /\ OneMaster' /\ Elected'
           /\ \A z \in Spans : master'[z] => /\ Timing[z] > 0
                                           /\ status[z] # "new"
<1>1. /\ master' \in [Spans -> BOOLEAN] /\ hasmaster' \in BOOLEAN
      /\ hasmaster' = (Eligible # {})
      /\ \A z \in Listed : master'[z] <=> Eligible # {} /\ z = Best
      /\ \A z \in Spans : master'[z] => master[z] \/ (z = Best /\ Eligible # {})
  BY CheckMasterElects
<1>2. UNCHANGED <<Listed, Eligible, Best>>
  BY BestStays
<1>3. Elected'
  BY <1>1, <1>2 DEF Elected
<1>4. OneMaster'
  BY <1>1, <1>2 DEF OneMaster
<1>5. Eligible # {} => Timing[Best] > 0 /\ status[Best] # "new"
  <2> SUFFICES ASSUME Eligible # {} PROVE Timing[Best] > 0 /\ status[Best] # "new"
    OBVIOUS
  <2>1. Best \in Listed /\ Timing[Best] > 0
    BY BestIsEligible DEF IInv, DynTypeOK
  <2>2. status[Best] \in {"linked", "listed"}
    BY <2>1 DEF IInv, DynTypeOK
  <2> QED BY <2>1, <2>2
<1>6. \A z \in Spans : master'[z] => Timing[z] > 0 /\ status[z] # "new"
  BY <1>1, <1>5 DEF IInv, MastersAreSources
<1> QED BY <1>1, <1>3, <1>4, <1>6

-----------------------------------------------------------------------------
(* The steps.                                                              *)

LEMMA LinkHolds ==
    ASSUME IInv, NEW z \in Spans, Link(z)
    PROVE  IInv'
<1>1. /\ dspans \in Seq(Spans) /\ IsInjective(dspans) /\ status[z] = "new"
      /\ Listed = {y \in Spans : status[y] \in {"linked", "listed"}}
      /\ status \in [Spans -> Stages]
      /\ dspans' = <<z>> \o dspans
      /\ status' = [status EXCEPT ![z] = "linked"]
      /\ UNCHANGED <<after, red, silent, master, hasmaster, rx, wasmaster, cur, pending>>
  BY DEF IInv, DynTypeOK, StagesTyped, Link, Become, elect, recv, runner
<1>2. z \notin Listed
  BY <1>1
<1>3. /\ dspans' \in Seq(Spans)
      /\ ToSet(dspans') = Listed \cup {z}
      /\ IsInjective(dspans')
  <2>1. PICK t : t = <<z>> \o dspans
    OBVIOUS
  <2>2. t \in Seq(Spans) /\ ToSet(t) = ToSet(dspans) \cup {z} /\ IsInjective(t)
    <3>1. dspans \in Seq(Spans) /\ IsInjective(dspans) /\ z \notin ToSet(dspans)
      BY <1>1, <1>2 DEF Listed
    <3>2. t \in Seq(Spans)
      BY <2>1, <3>1, PrependType
    <3>3. ToSet(t) = ToSet(dspans) \cup {z}
      <4>1. \A x : x \in ToSet(t) <=> x \in ToSet(dspans) \/ x = z
        BY <2>1, <3>1, PrependType
      <4> QED BY <4>1
    <3>4. IsInjective(t)
      BY <2>1, <3>1, PrependType
    <3> QED BY <3>2, <3>3, <3>4
  <2> QED BY <1>1, <2>1, <2>2 DEF Listed
<1>4. Listed' = Listed \cup {z}
  BY <1>3, Zenon DEF Listed
<1>5. Listed' = {y \in Spans : status'[y] \in {"linked", "listed"}}
  BY <1>1, <1>4
<1>6. DynTypeOK'
  BY <1>1, <1>3, <1>5, Zenon DEF IInv, DynTypeOK
<1>7. StagesTyped'
  BY <1>1 DEF IInv, StagesTyped, Stages
<1>8. MastersAreSources' /\ ~master[z]
  BY <1>1 DEF IInv, MastersAreSources, StagesTyped
<1>9. OneMaster'
  BY <1>1, <1>4, <1>8 DEF IInv, OneMaster
<1>10. CheckDue'
  BY <1>1 DEF CheckDue
<1> QED BY <1>6, <1>7, <1>8, <1>9, <1>10 DEF IInv

LEMMA UnlinkHolds ==
    ASSUME IInv, NEW z \in Spans, Unlink(z)
    PROVE  IInv'
<1>1. /\ dspans \in Seq(Spans) /\ IsInjective(dspans) /\ status[z] = "listed"
      /\ Listed = {y \in Spans : status[y] \in {"linked", "listed"}}
      /\ status \in [Spans -> Stages]
      /\ after \in [Spans -> Spans \cup {None}]
      /\ dspans' = RemoveAt(dspans, Place(z))
      /\ after' = [after EXCEPT ![z] = Following(z)]
      /\ status' = [status EXCEPT ![z] = "unlinked"]
      /\ UNCHANGED <<red, silent, master, hasmaster, rx, wasmaster, cur, pending>>
  BY DEF IInv, DynTypeOK, StagesTyped, Unlink, Without, Become, elect, recv, runner
<1>2. z \in Listed
  BY <1>1
<1>3. Place(z) \in 1 .. Len(dspans) /\ dspans[Place(z)] = z
  BY <1>1, <1>2, PlaceType
<1>4. /\ dspans' \in Seq(Spans)
      /\ ToSet(dspans') = Listed \ {z}
      /\ IsInjective(dspans')
  BY <1>1, <1>3, RemoveType DEF Listed
<1>5. Listed' = Listed \ {z}
  BY <1>4, Zenon DEF Listed
<1>6. Listed' = {y \in Spans : status'[y] \in {"linked", "listed"}}
  BY <1>1, <1>5
<1>7. Following(z) \in Spans \cup {None}
  BY <1>1, <1>2, <1>3, ElementOfSeq DEF Following
<1>8. after' \in [Spans -> Spans \cup {None}]
  BY <1>1, <1>7
<1>9. DynTypeOK'
  BY <1>1, <1>4, <1>6, <1>8, Zenon DEF IInv, DynTypeOK
<1>10. StagesTyped'
  BY <1>1 DEF IInv, StagesTyped, Stages
<1>11. MastersAreSources'
  BY <1>1 DEF IInv, MastersAreSources, StagesTyped
<1>12. OneMaster'
  BY <1>1, <1>5 DEF IInv, OneMaster
<1>13. CheckDue'
  BY <1>1 DEF CheckDue
<1> QED BY <1>9, <1>10, <1>11, <1>12, <1>13 DEF IInv

\* A step that ends with checkmaster, whatever it has done to one span that is on
\* the list before and after it, or never.
LEMMA CheckHolds ==
    ASSUME IInv, CheckMaster, UNCHANGED <<dspans, after, cur>>,
           \A z \in Listed : z \in red' <=> z \in red,
           red' \subseteq Spans, silent' \subseteq Spans, StagesTyped',
           wasmaster' \in [Spans -> BOOLEAN], pending' \in BOOLEAN,
           \A z \in Spans : /\ status'[z] = "new" => status[z] = "new"
                            /\ status'[z] \in {"linked", "listed"}
                                  <=> status[z] \in {"linked", "listed"}
    PROVE  IInv'
<1>1. /\ master' \in [Spans -> BOOLEAN] /\ hasmaster' \in BOOLEAN
      /\ OneMaster' /\ Elected'
      /\ \A z \in Spans : master'[z] => Timing[z] > 0 /\ status[z] # "new"
  BY ElectionHolds
<1>2. Listed' = Listed
  BY Zenon DEF Listed
<1>3. DynTypeOK'
  <2>1. /\ dspans \in Seq(Spans) /\ IsInjective(dspans)
        /\ after \in [Spans -> Spans \cup {None}] /\ cur \in Spans \cup {None}
        /\ Listed = {y \in Spans : status[y] \in {"linked", "listed"}}
    BY DEF IInv, DynTypeOK
  <2>2. Listed' = {y \in Spans : status'[y] \in {"linked", "listed"}}
    BY <1>2, <2>1
  <2> QED BY <1>1, <2>1, <2>2, Zenon DEF DynTypeOK
<1>4. MastersAreSources'
  BY <1>1 DEF MastersAreSources
<1> QED BY <1>1, <1>3, <1>4 DEF IInv

LEMMA CheckCreatedHolds ==
    ASSUME IInv, NEW z \in Spans, CheckCreated(z)
    PROVE  IInv'
<1>1. /\ status \in [Spans -> Stages] /\ rx \in [Spans -> Receipts]
      /\ status[z] = "linked" /\ CheckMaster
      /\ status' = [status EXCEPT ![z] = "listed"]
      /\ UNCHANGED <<dspans, after, red, silent, rx, wasmaster, cur, pending>>
      /\ red \subseteq Spans /\ silent \subseteq Spans
      /\ wasmaster \in [Spans -> BOOLEAN] /\ pending \in BOOLEAN
  BY DEF IInv, DynTypeOK, StagesTyped, CheckCreated, Become, recv, runner
<1>2. StagesTyped'
  BY <1>1 DEF StagesTyped, Stages
<1>3. \A y \in Spans : /\ status'[y] = "new" => status[y] = "new"
                       /\ status'[y] \in {"linked", "listed"}
                             <=> status[y] \in {"linked", "listed"}
  BY <1>1
<1> QED BY <1>1, <1>2, <1>3, CheckHolds

LEMMA CheckFreedHolds ==
    ASSUME IInv, NEW z \in Spans, CheckFreed(z)
    PROVE  IInv'
<1>1. /\ status \in [Spans -> Stages] /\ rx \in [Spans -> Receipts]
      /\ status[z] = "unlinked" /\ CheckMaster
      /\ status' = [status EXCEPT ![z] = "gone"]
      /\ red' = red \ {z} /\ silent' = silent \cup {z}
      /\ UNCHANGED <<dspans, after, rx, wasmaster, cur, pending>>
      /\ red' \subseteq Spans /\ silent' \subseteq Spans
      /\ wasmaster \in [Spans -> BOOLEAN] /\ pending \in BOOLEAN
  BY DEF IInv, DynTypeOK, StagesTyped, CheckFreed, Become, recv, runner
<1>2. StagesTyped'
  BY <1>1 DEF StagesTyped, Stages
<1>3. \A y \in Spans : /\ status'[y] = "new" => status[y] = "new"
                       /\ status'[y] \in {"linked", "listed"}
                             <=> status[y] \in {"linked", "listed"}
  BY <1>1
<1>4. \A y \in Listed : y \in red' <=> y \in red
  BY <1>1 DEF IInv, DynTypeOK
<1> QED BY <1>1, <1>2, <1>3, <1>4, CheckHolds

LEMMA CheckReceivedHolds ==
    ASSUME IInv, NEW z \in Spans, CheckReceived(z)
    PROVE  IInv'
<1>1. /\ status \in [Spans -> Stages] /\ rx \in [Spans -> Receipts]
      /\ rx' = [rx EXCEPT ![z] = "stamp"] /\ CheckMaster
      /\ UNCHANGED <<dspans, after, status, red, silent, wasmaster, cur, pending>>
      /\ red \subseteq Spans /\ silent \subseteq Spans
      /\ wasmaster \in [Spans -> BOOLEAN] /\ pending \in BOOLEAN
  BY DEF IInv, DynTypeOK, StagesTyped, CheckReceived, list, runner
<1>2. StagesTyped'
  BY <1>1 DEF StagesTyped, Receipts
<1> QED BY <1>1, <1>2, CheckHolds

LEMMA CheckRaisedHolds == IInv /\ CheckRaised => IInv'
<1> SUFFICES ASSUME IInv, CheckRaised PROVE IInv'
  OBVIOUS
<1>1. /\ CheckMaster
      /\ UNCHANGED <<dspans, after, status, red, silent, rx, wasmaster, cur, pending>>
      /\ red \subseteq Spans /\ silent \subseteq Spans
      /\ wasmaster \in [Spans -> BOOLEAN] /\ pending \in BOOLEAN
  BY DEF IInv, DynTypeOK, CheckRaised, list, recv, runner
<1>2. StagesTyped'
  BY <1>1 DEF IInv, StagesTyped
<1> QED BY <1>1, <1>2, CheckHolds

\* A step that leaves the list and the marks alone: if it changes an alarm of a
\* listed span a check is due afterwards, and it clears no check that was due.
LEMMA QuietHolds ==
    ASSUME IInv, UNCHANGED <<list, elect>>,
           red' \subseteq Spans, silent' \subseteq Spans, StagesTyped',
           wasmaster' \in [Spans -> BOOLEAN], pending' \in BOOLEAN,
           cur' \in Spans \cup {None},
           ~CheckDue' => UNCHANGED red /\ ~CheckDue
    PROVE  IInv'
<1>1. UNCHANGED <<dspans, after, status, master, hasmaster>>
  BY DEF list, elect
<1>2. DynTypeOK'
  <2>1. Listed' = Listed
    BY <1>1, Zenon DEF Listed
  <2> QED BY <1>1, <2>1, Zenon DEF IInv, DynTypeOK
<1>3. MastersAreSources' /\ OneMaster'
  BY <1>1 DEF IInv, MastersAreSources, OneMaster, Listed
<1>4. ~CheckDue' => Elected'
  <2> SUFFICES ASSUME UNCHANGED red, Elected PROVE Elected'
    BY DEF IInv
  <2> QED BY <1>1, BestStays DEF Elected
<1> QED BY <1>2, <1>3, <1>4 DEF IInv

LEMMA PacketHolds ==
    ASSUME IInv, NEW z \in Spans, Packet(z)
    PROVE  IInv'
<1>1. /\ UNCHANGED <<list, elect, red, silent, cur, pending, timer, status>>
      /\ rx[z] = "idle"
      /\ rx' = [rx EXCEPT ![z] = "alarm"]
      /\ wasmaster' = [wasmaster EXCEPT ![z] = master[z]]
  BY DEF Packet, runner, list
<1>2. StagesTyped' /\ wasmaster' \in [Spans -> BOOLEAN]
  BY <1>1 DEF IInv, DynTypeOK, StagesTyped, Receipts
<1>3. ~CheckDue' => ~CheckDue
  BY <1>1 DEF IInv, StagesTyped, CheckDue
<1> QED BY <1>1, <1>2, <1>3, QuietHolds DEF IInv, DynTypeOK

LEMMA ReceiveAlarmHolds ==
    ASSUME IInv, NEW z \in Spans, ReceiveAlarm(z)
    PROVE  IInv'
<1>1. /\ UNCHANGED <<list, elect, silent, cur, pending, timer, status, wasmaster>>
      /\ rx[z] = "alarm"
      /\ red' = red \ {z}
  BY DEF ReceiveAlarm, runner, list
<1>2. PICK r \in {"check", "stamp"} : rx' = [rx EXCEPT ![z] = r] /\ (z \in red => r = "check")
  BY DEF ReceiveAlarm
<1>3. StagesTyped'
  BY <1>1, <1>2 DEF IInv, StagesTyped, Receipts
<1>4. ~CheckDue' => UNCHANGED red /\ ~CheckDue
  BY <1>1, <1>2 DEF IInv, StagesTyped, CheckDue
<1>5. red' \subseteq Spans
  BY <1>1 DEF IInv, DynTypeOK
<1> QED BY <1>1, <1>3, <1>4, <1>5, QuietHolds DEF IInv, DynTypeOK

LEMMA StampHolds ==
    ASSUME IInv, NEW z \in Spans, Stamp(z)
    PROVE  IInv'
<1>1. /\ UNCHANGED <<list, elect, red, cur, timer, status>>
      /\ silent' = silent \ {z} /\ rx[z] = "stamp"
      /\ pending' = (pending \/ wasmaster[z])
      /\ wasmaster' = [wasmaster EXCEPT ![z] = FALSE]
      /\ rx' = [rx EXCEPT ![z] = "idle"]
  BY DEF Stamp, list
<1>2. /\ StagesTyped' /\ wasmaster' \in [Spans -> BOOLEAN] /\ silent' \subseteq Spans
      /\ pending' \in BOOLEAN
  BY <1>1 DEF IInv, DynTypeOK, StagesTyped, Receipts
<1>3. ~CheckDue' => ~CheckDue
  BY <1>1 DEF IInv, StagesTyped, CheckDue
<1> QED BY <1>1, <1>2, <1>3, QuietHolds DEF IInv, DynTypeOK

LEMMA RunHolds == IInv /\ (Tick \/ Run) => IInv'
<1> SUFFICES ASSUME IInv, Tick \/ Run PROVE IInv'
  OBVIOUS
<1>1. /\ UNCHANGED <<list, elect, red, silent, recv, rx, wasmaster, timer, status>>
      /\ pending' \in BOOLEAN
  BY DEF Tick, Run, StartRun, SendMessage, EndRun, list, recv, IInv, DynTypeOK
<1>2. cur' \in Spans \cup {None}
  <2>0. dspans \in Seq(Spans) /\ after \in [Spans -> Spans \cup {None}]
        /\ cur \in Spans \cup {None}
    BY DEF IInv, DynTypeOK
  <2>1. CASE Tick \/ EndRun
    BY <2>0, <2>1 DEF Tick, EndRun
  <2>2. CASE StartRun
    <3>1. dspans # <<>> => Head(dspans) \in Spans
      BY <2>0
    <3> QED BY <2>2, <3>1 DEF StartRun, First
  <2>3. CASE SendMessage
    <3>1. cur \in Spans /\ cur' = Following(cur)
      BY <2>0, <2>3 DEF SendMessage
    <3>2. cur \in Listed => Place(cur) \in 1 .. Len(dspans)
      BY <2>0, PlaceType
    <3> QED BY <2>0, <3>1, <3>2, ElementOfSeq DEF Following
  <2> QED BY <2>1, <2>2, <2>3 DEF Run
<1>3. StagesTyped' /\ (CheckDue' <=> CheckDue)
  BY <1>1 DEF IInv, StagesTyped, CheckDue
<1> QED BY <1>1, <1>2, <1>3, QuietHolds DEF IInv, DynTypeOK

LEMMA RaiseAlarmsHolds == IInv /\ RaiseAlarms => IInv'
<1> SUFFICES ASSUME IInv, RaiseAlarms PROVE IInv'
  OBVIOUS
<1>1. /\ UNCHANGED <<list, elect, recv, rx, wasmaster, cur, pending, status>>
      /\ timer = "idle" /\ red' = red \cup Raised /\ silent' = Spans
      /\ timer' = IF Raised # {} THEN "check" ELSE "idle"
  BY DEF RaiseAlarms, Recheck, Again, list, recv, runner
<1>2. red' \subseteq Spans
  BY <1>1 DEF IInv, DynTypeOK, Raised
<1>3. StagesTyped'
  BY <1>1 DEF IInv, StagesTyped
<1>4. ~CheckDue' => UNCHANGED red /\ ~CheckDue
  BY <1>1 DEF CheckDue
<1> QED BY <1>1, <1>2, <1>3, <1>4, QuietHolds DEF IInv, DynTypeOK

LEMMA InitIInv == Init => IInv
<1> SUFFICES ASSUME Init PROVE IInv
  OBVIOUS
<1>1. dspans = <<>> /\ Listed = {} /\ Eligible = {}
  BY DEF Init, Listed, ToSet, Eligible
<1>2. DynTypeOK
  <2>1. IsInjective(dspans) /\ dspans \in Seq(Spans)
    BY <1>1 DEF IsInjective
  <2> QED BY <1>1, <2>1 DEF Init, DynTypeOK
<1>3. StagesTyped
  BY DEF Init, StagesTyped, Stages, Receipts
<1> QED BY <1>1, <1>2, <1>3 DEF Init, IInv, MastersAreSources, OneMaster, Elected

LEMMA NextIInv == IInv /\ [Next]_vars => IInv'
<1> SUFFICES ASSUME IInv, [Next]_vars PROVE IInv'
  OBVIOUS
<1>1. CASE \E z \in Spans : Unlink(z) \/ Packet(z) \/ Receive(z) \/ Configure(z)
  BY <1>1, UnlinkHolds, PacketHolds, ReceiveAlarmHolds, CheckReceivedHolds, StampHolds,
     LinkHolds, CheckCreatedHolds, CheckFreedHolds DEF Receive, Configure
<1>2. CASE Tick \/ Run
  BY <1>2, RunHolds
<1>3. CASE CheckForRedAlarm
  BY <1>3, RaiseAlarmsHolds, CheckRaisedHolds DEF CheckForRedAlarm
<1>4. CASE UNCHANGED vars
  <2>1. UNCHANGED <<list, elect, red, silent, recv, runner, timer, rx, status, wasmaster, cur, pending>>
    BY <1>4 DEF vars, list, recv, runner
  <2>2. StagesTyped' /\ (CheckDue' <=> CheckDue)
    BY <2>1 DEF IInv, StagesTyped, CheckDue
  <2> QED BY <2>1, <2>2, QuietHolds DEF IInv, DynTypeOK
<1> QED BY <1>1, <1>2, <1>3, <1>4 DEF Next

LEMMA InvariantHolds == Spec => []IInv
BY InitIInv, NextIInv, PTL DEF Spec

-----------------------------------------------------------------------------

\* Every variable of the dynamic spans has its type, and the list holds exactly the
\* spans that create_dynamic put there and destroy_dynamic has not taken off, once
\* each.
THEOREM DynamicTypes == Spec => []DynTypeOK
<1>1. IInv => DynTypeOK
  BY DEF IInv
<1> QED BY <1>1, InvariantHolds, PTL

\* However the threads that change alarms and the list follow each other into
\* checkmaster, for any number of spans and whatever timing they offer: there is
\* never more than one master on the list, and once nobody has a check to make it is
\* the best source without a red alarm, and hasmaster is right.
THEOREM BestIsMaster == Spec => []MasterElected
<1>1. IInv => MasterElected
  <2> SUFFICES ASSUME IInv PROVE MasterElected
    OBVIOUS
  <2> DEFINE masters == {z \in Listed : master[z]}
  <2>1. Cardinality(masters) <= 1
    <3>1. CASE masters = {}
      BY <3>1, FS_EmptySet
    <3>2. CASE masters # {}
      <4>1. PICK y \in masters : TRUE
        BY <3>2
      <4>2. masters = {y}
        BY <4>1 DEF IInv, OneMaster
      <4>3. Cardinality(masters) = 1
        BY <4>2, FS_Singleton, Zenon
      <4> QED BY <4>3
    <3> QED BY <3>1, <3>2
  <2>2. ASSUME ~CheckDue
        PROVE  /\ hasmaster <=> Eligible # {}
               /\ masters = IF Eligible = {} THEN {} ELSE {Best}
    <3>1. hasmaster = (Eligible # {}) /\ \A z \in Listed : master[z] <=> Eligible # {} /\ z = Best
      BY <2>2 DEF IInv, Elected
    <3>2. Eligible # {} => Best \in Listed
      BY BestIsEligible DEF IInv, DynTypeOK
    <3> QED BY <3>1, <3>2
  <2> QED BY <2>1, <2>2 DEF MasterElected
<1> QED BY <1>1, InvariantHolds, PTL

=============================================================================

---------------------------- MODULE FatFsProofs ----------------------------
(***************************************************************************)
(* Theorems of FatFs, for every geometry, every set of keys and every      *)
(* limit.  The argument is by the inductive invariant IInv of FatFs: the   *)
(* first lemmas say what each helper does to the FAT, the next what it     *)
(* does to the directory streams and to the open files; then the actions   *)
(* are taken one by one, on Good, which is IInv as a predicate of the      *)
(* table, the streams and the open files.  The properties that IInv does   *)
(* not imply follow from it and from two summaries of a step: what it does *)
(* to the entries of directories (EntryStep), and what it does to chains   *)
(* (CallStep).                                                             *)
(*                                                                         *)
(* The last part is about FrontEnds.  A request or a command is a call of  *)
(* the core, create's two calls in one or setattr's truncation without its *)
(* time (CoreStep), so Good and the two summaries hold of its steps, too,  *)
(* and FrontInv is Good with what the programs keep.  CwdInv adds where    *)
(* the path of the shell leads, and KeptInv what a page by page reading of *)
(* a directory has returned.                                               *)
(***************************************************************************)
EXTENDS FrontEnds, FatChainsProofs

-----------------------------------------------------------------------------
(* Numbers.                                                                *)

\* The number of clusters n units of data need is a number.
LEMMA CeilDivType ==
    ASSUME NEW n \in Nat
    PROVE  CeilDiv(n, ClusterSize) \in Nat
<1> DEFINE k == n + ClusterSize - 1
<1>1. k \in Nat /\ ClusterSize \in Nat /\ ClusterSize > 0
  BY GeometryAssumption, TableAssumption
<1> HIDE DEF k
<1>2. k \div ClusterSize \in Nat
  BY <1>1
<1> QED
  BY <1>2 DEF CeilDiv, k
-----------------------------------------------------------------------------
(* The FAT.                                                                *)

\* A free cluster is no head and no link leads to it.
LEMMA FreeUnlinked ==
    ASSUME NEW f \in [Cluster -> FatEntry], NEW H \in SUBSET Cluster, LinksSound(f, H),
           NEW c \in Cluster, f[c] = FREE
    PROVE  c \notin H /\ \A b \in Cluster : f[b] # c
BY DEF LinksSound

\* Sound links stay sound when fewer chains have an owner.
LEMMA FewerHeads ==
    ASSUME NEW f, NEW H, LinksSound(f, H), NEW G \in SUBSET H
    PROVE  LinksSound(f, G)
BY DEF LinksSound

\* The head of a chain that allocate_clusters starts.
NewHeads(f, h, n) ==
    LET new == Lowest(n, FreeClusters(f))
    IN  IF h = FREE /\ new # {} THEN {Min(new)} ELSE {}

\* Allocation and linking keep the links sound: what is linked was free, each new
\* cluster is linked once, and a new chain starts at an unlinked cluster.
LEMMA ExtendLinks ==
    ASSUME NEW f \in [Cluster -> FatEntry], NEW H \in SUBSET Cluster, LinksSound(f, H),
           NEW h, NEW n
    PROVE  LinksSound(Extend(f, h, n), H \cup NewHeads(f, h, n))
<1> DEFINE new == Lowest(n, FreeClusters(f))
           After(c) == {x \in new : x > c}
           g == Extend(f, h, n)
           X == NewHeads(f, h, n)
           Inner(c) == c \in new /\ g[c] \in new /\ g[c] > c
                       /\ \A x \in new : x > c => g[c] <= x
           Hung(c) == /\ c \notin new /\ h # FREE /\ c = Last(Chain(f, h))
                      /\ new # {} /\ g[c] = Min(new)
           Old(c) == c \notin new /\ g[c] = f[c]
<1>1. new \subseteq Cluster /\ \A x \in new : f[x] = FREE
  BY DEF Lowest, FreeClusters
<1>2. \A x \in new : x \notin H /\ \A b \in Cluster : f[b] # x
  BY <1>1, FreeUnlinked
<1>3. X = IF h = FREE /\ new # {} THEN {Min(new)} ELSE {}
  BY DEF NewHeads
<1>4. g = [c \in Cluster |->
            IF c \in new THEN IF After(c) = {} THEN EOC ELSE Min(After(c))
            ELSE IF h # FREE /\ new # {} /\ c = Last(Chain(f, h)) THEN Min(new)
            ELSE f[c]]
  BY DEF Extend
<1> HIDE DEF new, g, X
<1>5. new # {} => Min(new) \in new /\ \A x \in new : Min(new) <= x
  BY <1>1, ClusterFacts, MinIsLeast
<1>6. ASSUME NEW c \in Cluster, After(c) # {}
      PROVE  Min(After(c)) \in After(c) /\ \A x \in After(c) : Min(After(c)) <= x
  <2>1. After(c) \in SUBSET Nat
    BY <1>1, ClusterFacts
  <2> HIDE DEF After
  <2> QED BY <2>1, <1>6, MinIsLeast
<1>7. ASSUME NEW c \in Cluster
      PROVE  Inner(c) \/ Hung(c) \/ Old(c) \/ (c \in new /\ g[c] = EOC)
  <2>1. CASE c \in new /\ After(c) # {}
    BY <2>1, <1>4, <1>6
  <2>2. CASE c \in new /\ After(c) = {}
    BY <2>2, <1>4
  <2>3. CASE c \notin new
    BY <2>3, <1>4
  <2> QED BY <2>1, <2>2, <2>3
<1> HIDE DEF After
<1>8. \A x \in new : g[x] # FREE
  BY <1>1, <1>7, ClusterFacts
<1>9. \A x \in Cluster : f[x] # FREE => g[x] # FREE
  BY <1>1, <1>5, <1>7, ClusterFacts
<1>10. ASSUME NEW c \in H \cup X
       PROVE  g[c] # FREE
  BY <1>3, <1>5, <1>8, <1>9 DEF LinksSound
<1>11. ASSUME NEW c \in Cluster, g[c] \in Cluster
       PROVE  g[c] \notin H \cup X /\ g[g[c]] # FREE
  <2>1. CASE Inner(c)
    <3>1. g[c] # Min(new)
      <4>1. c \in Nat /\ g[c] \in Nat /\ Min(new) \in Nat
        BY <2>1, <1>1, <1>5, ClusterFacts
      <4>2. Min(new) <= c /\ g[c] > c
        BY <2>1, <1>5
      <4> QED BY <4>1, <4>2
    <3> QED BY <2>1, <3>1, <1>2, <1>3, <1>8
  <2>2. CASE Hung(c)
    BY <2>2, <1>2, <1>3, <1>5, <1>8
  <2>3. CASE Old(c)
    <3>1. f[c] \notin H /\ f[f[c]] # FREE /\ f[c] \notin new
      BY <2>3, <1>11, <1>2 DEF LinksSound
    <3> QED BY <2>3, <3>1, <1>3, <1>5, <1>9, <1>11
  <2> QED BY <2>1, <2>2, <2>3, <1>7, <1>11, ClusterFacts
<1>12. ASSUME NEW b \in Cluster, NEW c \in Cluster, g[b] = g[c], g[b] \in Cluster
       PROVE  b = c
  <2>0. (Inner(b) \/ Hung(b) \/ Old(b)) /\ (Inner(c) \/ Hung(c) \/ Old(c))
    BY <1>7, <1>12, ClusterFacts
  <2>1. CASE Inner(b) /\ Inner(c)
    <3>1. b \in Nat /\ c \in Nat /\ g[b] \in Nat
      BY <1>12, ClusterFacts
    <3>2. ~ (c > b) /\ ~ (b > c)
      BY <2>1, <3>1, <1>12
    <3> QED BY <3>1, <3>2
  <2>8. ASSUME NEW x \in Cluster, NEW y \in Cluster, Inner(x), Hung(y)
        PROVE  g[x] # g[y]
    <3>1. x \in Nat /\ g[x] \in Nat /\ Min(new) \in Nat
      BY <2>8, <1>1, <1>5, ClusterFacts
    <3>2. Min(new) <= x /\ g[x] > x
      BY <2>8, <1>5
    <3> QED BY <2>8, <3>1, <3>2
  <2>2. CASE Inner(b) /\ Hung(c)
    BY <2>2, <2>8, <1>12
  <2>3. CASE Hung(b) /\ Inner(c)
    BY <2>3, <2>8, <1>12
  <2>4. CASE Old(b) /\ (Inner(c) \/ Hung(c))
    BY <2>4, <1>2, <1>5, <1>12
  <2>5. CASE (Inner(b) \/ Hung(b)) /\ Old(c)
    BY <2>5, <1>2, <1>5, <1>12
  <2>6. CASE Old(b) /\ Old(c)
    BY <2>6, <1>12 DEF LinksSound
  <2>7. CASE Hung(b) /\ Hung(c)
    BY <2>7
  <2> QED BY <2>0, <2>1, <2>2, <2>3, <2>4, <2>5, <2>6, <2>7
<1> QED
  BY <1>10, <1>11, <1>12 DEF LinksSound, g, X

\* The clusters of a chain are its head and clusters some link leads to.
LEMMA ChainLinked ==
    ASSUME NEW f \in [Cluster -> FatEntry], NEW h \in Cluster \cup {FREE},
           NEW x \in ToSet(Chain(f, h)) \cap Cluster, x # h
    PROVE  \E b \in ToSet(Chain(f, h)) \cap Cluster : f[b] = x
<1> DEFINE s == Chain(f, h)
<1>1. /\ Len(s) \in Nat /\ s \in Seq(FatEntry)
      /\ h = FREE => s = <<>>
      /\ h # FREE => s[1] = h
      /\ \A i \in 2..Len(s) : s[i] \in Cluster =>
            s[i - 1] \in Cluster /\ f[s[i - 1]] = s[i]
  BY ChainFacts
<1> HIDE DEF s
<1>2. PICK i \in 1..Len(s) : x = s[i]
  BY <1>1 DEF ToSet, s
<1>3. i # 1
  BY <1>1, <1>2
<1>4. i \in 2..Len(s) /\ i - 1 \in 1..Len(s)
  BY <1>1, <1>2, <1>3
<1>5. s[i - 1] \in Cluster /\ f[s[i - 1]] = x
  BY <1>1, <1>2, <1>4
<1>6. s[i - 1] \in ToSet(s)
  BY <1>1, <1>4 DEF ToSet
<1> QED
  BY <1>5, <1>6 DEF s

\* Freeing the chain of a head takes no other head, and leaves the links sound: what
\* led into the chain was in it.
LEMMA FreeChainLinks ==
    ASSUME NEW f \in [Cluster -> FatEntry], NEW H \in SUBSET Cluster, LinksSound(f, H),
           NEW h \in H \cup {FREE}
    PROVE  /\ ToSet(Chain(f, h)) \cap H \subseteq {h}
           /\ LinksSound(FreeAll(f, ToSet(Chain(f, h))), H \ {h})
<1> DEFINE S == ToSet(Chain(f, h))
           g == FreeAll(f, S)
<1>1. h \in Cluster \cup {FREE}
  OBVIOUS
<1>2. \A x \in S \cap Cluster : x # h => \E b \in S \cap Cluster : f[b] = x
  BY <1>1, ChainLinked
<1>3. g = [c \in Cluster |-> IF c \in S THEN FREE ELSE f[c]]
  BY DEF FreeAll
<1> HIDE DEF S, g
<1>4. S \cap H \subseteq {h}
  BY <1>2 DEF LinksSound
<1>5. \A c \in Cluster : g[c] \in Cluster => c \notin S /\ g[c] = f[c]
  BY <1>3, ClusterFacts
<1>6. ASSUME NEW c \in Cluster, g[c] \in Cluster
      PROVE  f[c] \notin S
  <2>1. f[c] # h
    BY <1>5, <1>6, ClusterFacts DEF LinksSound
  <2>2. c \notin S /\ g[c] = f[c]
    BY <1>5, <1>6
  <2>3. \A b \in Cluster : f[b] = f[c] => b = c
    BY <2>2, <1>6 DEF LinksSound
  <2> QED BY <2>1, <2>2, <2>3, <1>2, <1>6
<1>7. \A c \in H \ {h} : g[c] # FREE
  BY <1>3, <1>4 DEF LinksSound
<1>8. ASSUME NEW c \in Cluster, g[c] \in Cluster
      PROVE  g[c] \notin H \ {h} /\ g[g[c]] # FREE
  BY <1>3, <1>5, <1>6, <1>8 DEF LinksSound
<1>9. \A b, c \in Cluster : g[b] = g[c] /\ g[b] \in Cluster => b = c
  BY <1>5 DEF LinksSound
<1> QED
  BY <1>4, <1>7, <1>8, <1>9 DEF LinksSound, S, g

\* Cutting a chain leaves the links sound: the only link into what is freed is
\* the one that becomes the end.
LEMMA TrimmedLinks ==
    ASSUME NEW f \in [Cluster -> FatEntry], NEW H \in SUBSET Cluster, LinksSound(f, H),
           NEW h \in H \cup {FREE}, NEW n \in Nat \ {0}
    PROVE  LinksSound(Trimmed(f, h, n), H)
<1> DEFINE s == Chain(f, h)
           S == ToSet(SubSeq(s, n + 1, Len(s)))
           g == Trimmed(f, h, n)
<1>0. h \in Cluster \cup {FREE}
  OBVIOUS
<1>1. /\ Len(s) \in Nat /\ s \in Seq(FatEntry)
      /\ \A i \in 2..Len(s) : s[i] \in Cluster =>
            s[i - 1] \in Cluster /\ f[s[i - 1]] = s[i]
  BY <1>0, ChainFacts
<1>2. g = [[c \in Cluster |-> IF c \in S THEN FREE ELSE f[c]] EXCEPT ![s[n]] = EOC]
  BY DEF Trimmed, FreeAll
<1> HIDE DEF s
<1>3. S = {s[i] : i \in (n + 1)..Len(s)}
  <2> DEFINE t == SubSeq(s, n + 1, Len(s))
  <2>1. t = [i \in 1..(Len(s) - (n + 1) + 1) |-> s[i + (n + 1) - 1]]
    BY <1>1
  <2>2. t = [i \in 1..(Len(s) - n) |-> s[i + n]]
    BY <2>1, <1>1
  <2>3. S = {t[i] : i \in DOMAIN t}
    BY DEF ToSet
  <2> HIDE DEF t
  <2>4. S = {s[i + n] : i \in 1..(Len(s) - n)}
    BY <2>2, <2>3
  <2>5. \A i \in 1..(Len(s) - n) : i + n \in (n + 1)..Len(s)
    BY <1>1
  <2>6. \A i \in (n + 1)..Len(s) : i - n \in 1..(Len(s) - n) /\ (i - n) + n = i
    BY <1>1
  <2> QED BY <2>4, <2>5, <2>6
<1> HIDE DEF S, g
<1>4. ASSUME NEW x \in S, x \in Cluster
      PROVE  \E b \in (S \cup {s[n]}) \cap Cluster : f[b] = x
  <2>1. PICK i \in (n + 1)..Len(s) : x = s[i]
    BY <1>3
  <2>2. i \in 2..Len(s) /\ (i - 1 = n \/ i - 1 \in (n + 1)..Len(s))
    BY <2>1, <1>1
  <2>3. s[i - 1] \in Cluster /\ f[s[i - 1]] = x
    BY <2>1, <2>2, <1>1, <1>4
  <2>4. s[i - 1] \in S \cup {s[n]}
    BY <2>2, <1>3
  <2> QED BY <2>3, <2>4
<1>5. \A c \in Cluster : g[c] = IF c = s[n] THEN EOC ELSE IF c \in S THEN FREE ELSE f[c]
  BY <1>2
<1>6. \A c \in Cluster : g[c] \in Cluster => c \notin S \cup {s[n]} /\ g[c] = f[c]
  BY <1>5, ClusterFacts
<1>7. ASSUME NEW c \in Cluster, g[c] \in Cluster
      PROVE  f[c] \notin S
  <2>1. c \notin S \cup {s[n]} /\ f[c] \in Cluster
    BY <1>6, <1>7
  <2>2. \A b \in Cluster : f[b] = f[c] => b = c
    BY <2>1 DEF LinksSound
  <2> QED BY <2>1, <2>2, <1>4
<1>8. \A c \in H : g[c] # FREE
  <2>1. \A c \in H : c \notin S
    BY <1>4 DEF LinksSound
  <2> QED BY <2>1, <1>5, ClusterFacts DEF LinksSound
<1>9. ASSUME NEW c \in Cluster, g[c] \in Cluster
      PROVE  g[c] \notin H /\ g[g[c]] # FREE
  BY <1>5, <1>6, <1>7, <1>9, ClusterFacts DEF LinksSound
<1>10. \A b, c \in Cluster : g[b] = g[c] /\ g[b] \in Cluster => b = c
  BY <1>6 DEF LinksSound
<1> QED
  BY <1>8, <1>9, <1>10 DEF LinksSound, g

\* A new chain of n > 0 clusters starts at the lowest free one.
LEMMA NewHeadsAre ==
    ASSUME NEW f \in [Cluster -> FatEntry], NEW n \in Nat \ {0}, FreeClusters(f) # {}
    PROVE  /\ NewHeads(f, FREE, n) = {Min(FreeClusters(f))}
           /\ Min(FreeClusters(f)) \in Cluster /\ f[Min(FreeClusters(f))] = FREE
<1> DEFINE S == FreeClusters(f)
<1>1. S \in SUBSET Cluster
  BY DEF FreeClusters
<1>2. Min(S) \in S
  <2> HIDE DEF S
  <2> QED BY <1>1, FiniteClusters DEF S
<1>3. Lowest(n, S) # {} /\ Min(Lowest(n, S)) = Min(S)
  <2> HIDE DEF S
  <2> QED BY <1>1, LowestFacts DEF S
<1> QED
  BY <1>2, <1>3 DEF NewHeads, FreeClusters

\* What ensure_fcb_chain_capacity does to the links when the clusters are there: an
\* empty chain gets a head that was free, another keeps its head.
LEMMA CapacityLinks ==
    ASSUME NEW f \in [Cluster -> FatEntry], NEW H \in SUBSET Cluster, LinksSound(f, H),
           NEW h \in H \cup {FREE}, NEW n \in Nat, Fits(f, h, n)
    PROVE  LET head == HeadWithCapacity(f, h, n)
           IN  /\ WithCapacity(f, h, n) \in [Cluster -> FatEntry]
               /\ LinksSound(WithCapacity(f, h, n), H \cup ({head} \ {FREE}))
               /\ head \in Cluster \cup {FREE}
               /\ head = h \/ (h = FREE /\ head \notin H \cup {FREE})
<1> DEFINE m == Missing(f, h, n)
           head == HeadWithCapacity(f, h, n)
           S == FreeClusters(f)
<1>1. m \in Nat /\ (h = FREE => m = n) /\ h \in Cluster \cup {FREE}
  <2>1. h \in Cluster \cup {FREE}
    OBVIOUS
  <2> QED BY <2>1, MissingType
<1>2. LinksSound(WithCapacity(f, h, n), H \cup NewHeads(f, h, m))
  BY ExtendLinks DEF WithCapacity
<1>3. WithCapacity(f, h, n) \in [Cluster -> FatEntry]
  BY ExtendType DEF WithCapacity
<1>4. CASE h # FREE
  <2>1. NewHeads(f, h, m) = {} /\ head = h
    BY <1>4 DEF NewHeads, HeadWithCapacity
  <2>2. H \cup {} = H \cup ({h} \ {FREE})
    BY <1>4
  <2> QED BY <2>1, <2>2, <1>1, <1>2, <1>3
<1>5. CASE h = FREE /\ n = 0
  <2>1. S \in SUBSET Cluster
    BY DEF FreeClusters
  <2>2. Lowest(0, S) = {}
    <3> HIDE DEF S
    <3> QED BY <2>1, LowestFacts
  <2>3. NewHeads(f, h, m) = {} /\ head = FREE
    BY <1>1, <1>5, <2>2 DEF NewHeads, HeadWithCapacity
  <2>4. H \cup {} = H \cup ({FREE} \ {FREE})
    OBVIOUS
  <2> QED BY <2>3, <2>4, <1>1, <1>2, <1>3, <1>5
<1>6. CASE h = FREE /\ n > 0
  <2>1. S # {}
    <3>1. SUFFICES ASSUME S = {} PROVE FALSE
      OBVIOUS
    <3>2. Cardinality(S) = 0
      BY <3>1, FS_EmptySet
    <3> QED BY <3>2, <1>1, <1>6 DEF Fits
  <2>2. NewHeads(f, FREE, n) = {Min(S)} /\ Min(S) \in Cluster /\ f[Min(S)] = FREE
    BY <2>1, <1>6, NewHeadsAre
  <2>3. head = Min(S)
    BY <1>6 DEF HeadWithCapacity
  <2>4. Min(S) \notin H
    BY <2>2, FreeUnlinked
  <2>5. H \cup {Min(S)} = H \cup ({Min(S)} \ {FREE})
    BY <2>2, ClusterFacts
  <2> HIDE DEF S, head
  <2> QED BY <2>2, <2>3, <2>4, <2>5, <1>1, <1>2, <1>3, <1>6, ClusterFacts DEF head
<1> QED
  BY <1>4, <1>5, <1>6

-----------------------------------------------------------------------------
(* The directory streams.                                                  *)

At(s, l) == s[l[1]][l[2]]
Streams == [Cluster -> Seq(Slot)]

\* A location is a place in a stream, and holds a slot.
LEMMA LocsFacts ==
    ASSUME NEW s \in Streams, NEW l \in Locs(s)
    PROVE  /\ l[1] \in Cluster /\ l[2] \in DOMAIN s[l[1]] /\ l = <<l[1], l[2]>>
           /\ l[2] \in Nat /\ At(s, l) \in Slot /\ s[l[1]] \in Seq(Slot)
<1>1. PICK d \in Cluster : l \in {<<d, i>> : i \in DOMAIN s[d]}
  BY DEF Locs
<1>2. l[1] \in Cluster /\ l[2] \in DOMAIN s[l[1]] /\ l = <<l[1], l[2]>>
  BY <1>1
<1>3. s[l[1]] \in Seq(Slot)
  BY <1>2 DEF Streams
<1> QED
  BY <1>2, <1>3 DEF At

\* Each place in a stream is a location.
LEMMA InLocs ==
    ASSUME NEW s, NEW d \in Cluster, NEW i \in DOMAIN s[d]
    PROVE  <<d, i>> \in Locs(s)
BY DEF Locs

\* Streams with the same slots in the same places.
SameShape(s, t) == \A d \in Cluster : DOMAIN t[d] = DOMAIN s[d]

\* Streams of one shape have the same locations.
LEMMA SameLocs ==
    ASSUME NEW s, NEW t, SameShape(s, t)
    PROVE  Locs(t) = Locs(s)
<1>1. \A d \in Cluster : {<<d, i>> : i \in DOMAIN t[d]} = {<<d, i>> : i \in DOMAIN s[d]}
  BY DEF SameShape
<1> QED
  BY <1>1 DEF Locs

\* A stream is empty when it has no place.
LEMMA EmptyStream ==
    ASSUME NEW s \in Seq(Slot)
    PROVE  s = <<>> <=> DOMAIN s = {}
<1>1. Len(s) \in Nat /\ DOMAIN s = 1..Len(s)
  OBVIOUS
<1>2. DOMAIN s = {} => Len(s) = 0
  BY <1>1
<1> QED
  BY <1>2

Put(s, l, e) == [s EXCEPT ![l[1]][l[2]] = e]

\* Writing one entry changes that entry.
LEMMA PutFacts ==
    ASSUME NEW s \in Streams, NEW l \in Locs(s), NEW e \in Slot
    PROVE  LET t == Put(s, l, e)
           IN  /\ t \in Streams /\ SameShape(s, t) /\ Locs(t) = Locs(s)
               /\ \A m \in Locs(s) : At(t, m) = IF m = l THEN e ELSE At(s, m)
<1> DEFINE t == Put(s, l, e)
           q == s[l[1]]
           r == [q EXCEPT ![l[2]] = e]
<1>1. l[1] \in Cluster /\ l[2] \in DOMAIN q /\ l = <<l[1], l[2]>> /\ q \in Seq(Slot)
  BY LocsFacts
<1>2. r \in Seq(Slot) /\ DOMAIN r = DOMAIN q
  BY <1>1
<1>3. \A i \in DOMAIN q : r[i] = IF i = l[2] THEN e ELSE q[i]
  BY <1>1
<1>4. t = [s EXCEPT ![l[1]] = r]
  BY DEF Put
<1> HIDE DEF t, r
<1>5. \A d \in Cluster : t[d] = IF d = l[1] THEN r ELSE s[d]
  BY <1>4 DEF Streams
<1>6. t \in Streams
  BY <1>2, <1>4 DEF Streams
<1>7. SameShape(s, t)
  BY <1>2, <1>5 DEF SameShape
<1>8. ASSUME NEW m \in Locs(s)
      PROVE  At(t, m) = IF m = l THEN e ELSE At(s, m)
  <2>1. m[1] \in Cluster /\ m[2] \in DOMAIN s[m[1]] /\ m = <<m[1], m[2]>>
    BY LocsFacts
  <2> QED BY <2>1, <1>1, <1>3, <1>5 DEF At
<1> QED
  BY <1>6, <1>7, <1>8, SameLocs DEF t

\* The number of entries in a stream is a number.
LEMMA CountType ==
    ASSUME NEW q \in Seq(Slot)
    PROVE  Count(q) \in Nat
<1> DEFINE S == {i \in DOMAIN q : Occupied(q[i])}
<1>1. Len(q) \in Nat /\ DOMAIN q = 1..Len(q)
  OBVIOUS
<1>2. IsFiniteSet(DOMAIN q) /\ S \subseteq DOMAIN q
  BY <1>1, FS_Interval
<1> HIDE DEF S
<1>3. Cardinality(S) \in Nat
  BY <1>2, FS_Subset, FS_CardinalityType
<1> QED
  BY <1>3 DEF Count, S

\* refresh_dir_size changes recorded sizes of directories and nothing else.
LEMMA RefreshFacts ==
    ASSUME NEW s \in Streams, NEW d \in Cluster
    PROVE  LET t == RefreshDirSize(s, d)
           IN  /\ t \in Streams /\ SameShape(s, t) /\ Locs(t) = Locs(s)
               /\ \A m \in Locs(s) :
                     /\ At(t, m).kind = At(s, m).kind /\ At(t, m).start = At(s, m).start
                     /\ At(s, m).kind # "Directory" => At(t, m) = At(s, m)
<1> DEFINE New(q) == [i \in DOMAIN q |-> IF q[i].kind = "Directory" /\ q[i].start = d
                                        THEN [q[i] EXCEPT !.size = Count(s[d])] ELSE q[i]]
           t == RefreshDirSize(s, d)
<1>1. t = [e \in Cluster |-> New(s[e])]
  BY DEF RefreshDirSize
<1>2. Count(s[d]) \in Nat
  BY CountType DEF Streams
<1>3. ASSUME NEW e \in Slot
      PROVE  [e EXCEPT !.size = Count(s[d])] \in Slot
  BY <1>2 DEF Slot
<1>4. ASSUME NEW q \in Seq(Slot)
      PROVE  New(q) \in Seq(Slot) /\ DOMAIN New(q) = DOMAIN q
  <2>1. Len(q) \in Nat /\ DOMAIN q = 1..Len(q) /\ \A i \in 1..Len(q) : q[i] \in Slot
    OBVIOUS
  <2>2. New(q) \in [1..Len(q) -> Slot]
    BY <2>1, <1>3
  <2> QED BY <2>1, <2>2
<1>5. \A c \in Cluster : s[c] \in Seq(Slot)
  BY DEF Streams
<1>6. \A c \in Cluster : t[c] = New(s[c])
  BY <1>1
<1>7. t \in Streams /\ SameShape(s, t)
  <2> HIDE DEF New, t
  <2> QED BY <1>1, <1>4, <1>5, <1>6 DEF Streams, SameShape
<1>8. ASSUME NEW m \in Locs(s)
      PROVE  /\ At(t, m).kind = At(s, m).kind /\ At(t, m).start = At(s, m).start
             /\ At(s, m).kind # "Directory" => At(t, m) = At(s, m)
  <2>1. m[1] \in Cluster /\ m[2] \in DOMAIN s[m[1]] /\ At(s, m) \in Slot
    BY LocsFacts
  <2>2. At(t, m) = IF At(s, m).kind = "Directory" /\ At(s, m).start = d
                   THEN [At(s, m) EXCEPT !.size = Count(s[d])] ELSE At(s, m)
    BY ZenonT(30), <2>1, <1>6 DEF At
  <2> HIDE DEF t
  <2> QED BY <2>1, <2>2 DEF Slot
<1> QED
  BY <1>7, <1>8, SameLocs DEF t

Owns(s, l) == Occupied(At(s, l)) /\ At(s, l).start # FREE

\* Owners, heads and directories in terms of At.
LEMMA OwnersFacts ==
    ASSUME NEW s
    PROVE  /\ Owners(s) = {l \in Locs(s) : Owns(s, l)}
           /\ HeadsOf(s) = {Root} \cup {At(s, l).start : l \in Owners(s)}
           /\ Dirs(s) = {Root} \cup
                 {At(s, l).start : l \in {m \in Locs(s) : At(s, m).kind = "Directory"}}
           /\ StartsSound(s) <=>
                 /\ \A l \in Locs(s) : At(s, l).kind = "Directory" => At(s, l).start # FREE
                 /\ \A l, m \in Owners(s) : At(s, l).start = At(s, m).start => l = m
                 /\ \A l \in Owners(s) : At(s, l).start # Root
BY DEF Owners, Owns, HeadsOf, Dirs, StartsSound, At

\* Heads are clusters.
LEMMA HeadsType ==
    ASSUME NEW s \in Streams
    PROVE  HeadsOf(s) \in SUBSET Cluster
<1>1. \A l \in Owners(s) : At(s, l) \in Slot /\ At(s, l).start # FREE
  BY OwnersFacts, LocsFacts DEF Owns
<1>2. \A e \in Slot : e.start \in Cluster \cup {FREE}
  BY DEF Slot
<1> QED
  BY <1>1, <1>2, OwnersFacts, ClusterFacts

\* A directory is a head.
LEMMA DirsAreHeads ==
    ASSUME NEW s \in Streams, StartsSound(s)
    PROVE  Dirs(s) \subseteq HeadsOf(s)
<1>1. \A l \in Locs(s) : At(s, l).kind = "Directory" => l \in Owners(s)
  BY OwnersFacts DEF Owns, Occupied
<1> QED
  BY <1>1, OwnersFacts

\* The entries agree up to what they record as size.
Alike(s, t) ==
    /\ Locs(t) = Locs(s) /\ SameShape(s, t)
    /\ \A m \in Locs(s) : At(t, m).kind = At(s, m).kind /\ At(t, m).start = At(s, m).start

\* What is sound for streams is sound for streams alike.
LEMMA AlikeSound ==
    ASSUME NEW s \in Streams, NEW t \in Streams, Alike(s, t), StartsSound(s), NEW N,
           StreamsOwned(s, N)
    PROVE  StartsSound(t) /\ StreamsOwned(t, N) /\ HeadsOf(t) = HeadsOf(s)
<1>1. Owners(t) = Owners(s)
  <2>1. \A l \in Locs(s) : Owns(t, l) <=> Owns(s, l)
    BY DEF Alike, Owns, Occupied
  <2>2. Owners(t) = {l \in Locs(s) : Owns(t, l)} /\ Owners(s) = {l \in Locs(s) : Owns(s, l)}
    BY OwnersFacts DEF Alike
  <2> QED BY <2>1, <2>2
<1>2. \A m \in Owners(s) : m \in Locs(s) /\ At(t, m).start = At(s, m).start
  BY OwnersFacts DEF Alike
<1>3. HeadsOf(t) = HeadsOf(s)
  <2>1. {At(t, l).start : l \in Owners(s)} = {At(s, l).start : l \in Owners(s)}
    BY <1>2
  <2>2. HeadsOf(s) = {Root} \cup {At(s, l).start : l \in Owners(s)}
    BY OwnersFacts
  <2>3. HeadsOf(t) = {Root} \cup {At(t, l).start : l \in Owners(s)}
    BY <1>1, OwnersFacts
  <2> QED BY <2>1, <2>2, <2>3
<1>4. {m \in Locs(t) : At(t, m).kind = "Directory"} =
      {m \in Locs(s) : At(s, m).kind = "Directory"}
  BY DEF Alike
<1>5. Dirs(t) = Dirs(s)
  <2> DEFINE D == {m \in Locs(s) : At(s, m).kind = "Directory"}
  <2>1. {At(t, l).start : l \in D} = {At(s, l).start : l \in D}
    BY DEF Alike
  <2>2. Dirs(s) = {Root} \cup {At(s, l).start : l \in D}
    BY OwnersFacts
  <2>3. Dirs(t) = {Root} \cup {At(t, l).start : l \in D}
    BY <1>4, OwnersFacts
  <2> QED BY <2>1, <2>2, <2>3
<1>6. \A d \in Cluster : t[d] # <<>> => s[d] # <<>>
  BY EmptyStream DEF Alike, SameShape, Streams
<1>7. StartsSound(t)
  BY <1>1, <1>2, OwnersFacts DEF Alike
<1> QED
  BY <1>3, <1>5, <1>6, <1>7 DEF StreamsOwned

\* The first cluster a new entry brings, if it brings one.
Brought(e) == IF Occupied(e) /\ e.start # FREE THEN {e.start} ELSE {}
Named(e) == IF e.kind = "Directory" THEN {e.start} ELSE {}

\* Writing entry e at l keeps the entries sound if nobody else names e's chain and the
\* directory that l named, if any, is still named or has no stream.
LEMMA PutSound ==
    ASSUME NEW s \in Streams, StartsSound(s), NEW N, StreamsOwned(s, N),
           NEW l \in Locs(s), NEW e \in Slot,
           e.kind = "Directory" => e.start # FREE,
           Brought(e) \cap ({Root} \cup {At(s, m).start : m \in Owners(s) \ {l}}) = {},
           \/ At(s, l).kind # "Directory"
           \/ e.kind = "Directory" /\ e.start = At(s, l).start
           \/ s[At(s, l).start] = <<>>
    PROVE  LET t == Put(s, l, e)
           IN  /\ t \in Streams /\ StartsSound(t) /\ StreamsOwned(t, N \ Named(e))
               /\ HeadsOf(t) \subseteq HeadsOf(s) \cup Brought(e)
               /\ Owns(s, l) =>
                    HeadsOf(t) \subseteq (HeadsOf(s) \ {At(s, l).start}) \cup Brought(e)
<1> DEFINE t == Put(s, l, e)
           others == {At(s, m).start : m \in Owners(s) \ {l}}
<1>1. /\ t \in Streams /\ SameShape(s, t) /\ Locs(t) = Locs(s)
      /\ \A m \in Locs(s) : At(t, m) = IF m = l THEN e ELSE At(s, m)
  BY PutFacts
<1> HIDE DEF t
<1>2. /\ \A m \in Owners(t) : m \in Locs(s) /\ (m # l => m \in Owners(s))
      /\ l \in Owners(t) => Occupied(e) /\ e.start # FREE
  BY <1>1, OwnersFacts DEF Owns
<1>3. HeadsOf(t) \subseteq {Root} \cup others \cup Brought(e)
  <2>1. ASSUME NEW m \in Owners(t)
        PROVE  At(t, m).start \in others \cup Brought(e)
    <3>1. CASE m = l
      BY <3>1, <1>1, <1>2 DEF Brought
    <3>2. CASE m # l
      BY <3>2, <1>1, <1>2
    <3> QED BY <3>1, <3>2
  <2> HIDE DEF others
  <2> QED BY <2>1, OwnersFacts
<1>4. {Root} \cup others \subseteq HeadsOf(s)
  BY OwnersFacts
<1>5. ASSUME Owns(s, l)
      PROVE  At(s, l).start \notin {Root} \cup others
  <2>1. l \in Owners(s)
    BY <1>5, OwnersFacts
  <2> QED BY <2>1, OwnersFacts
<1>6. \A m \in Locs(t) : At(t, m).kind = "Directory" => At(t, m).start # FREE
  BY <1>1, OwnersFacts
<1>7. ASSUME NEW m \in Owners(t), NEW n \in Owners(t), At(t, m).start = At(t, n).start
      PROVE  m = n
  <2>1. CASE m # l /\ n # l
    BY <2>1, <1>1, <1>2, <1>7, OwnersFacts
  <2>2. CASE m = l /\ n # l
    <3>1. e.start \in Brought(e) /\ e.start \in others
      BY <2>2, <1>1, <1>2, <1>7 DEF Brought
    <3> QED BY <3>1
  <2>3. CASE m # l /\ n = l
    <3>1. e.start \in Brought(e) /\ e.start \in others
      BY <2>3, <1>1, <1>2, <1>7 DEF Brought
    <3> QED BY <3>1
  <2> QED BY <2>1, <2>2, <2>3
<1>8. \A m \in Owners(t) : At(t, m).start # Root
  <2>1. e.start = Root => Brought(e) = {}
    BY DEF Brought
  <2>2. l \in Owners(t) => Brought(e) = {e.start}
    BY <1>2 DEF Brought
  <2> QED BY <2>1, <2>2, <1>1, <1>2, OwnersFacts
<1>9. StartsSound(t)
  BY <1>6, <1>7, <1>8, OwnersFacts
<1>10. ASSUME NEW d \in Cluster, t[d] # <<>>
       PROVE  d \in Dirs(t) \cup (N \ Named(e))
  <2>1. s[d] # <<>>
    BY <1>1, <1>10, EmptyStream DEF SameShape, Streams
  <2>2. l \in Locs(t)
    BY <1>1
  <2>3. CASE e.kind = "Directory" /\ e.start = d
    BY <2>2, <2>3, <1>1, OwnersFacts
  <2>4. CASE d \in N /\ ~ (e.kind = "Directory" /\ e.start = d)
    BY <2>4 DEF Named
  <2>5. CASE d = Root
    BY <2>5, OwnersFacts
  <2>6. ASSUME NEW m \in Locs(s), At(s, m).kind = "Directory", At(s, m).start = d
        PROVE  d \in Dirs(t)
    <3>1. CASE m # l
      BY <3>1, <2>6, <1>1, OwnersFacts
    <3>2. CASE m = l
      BY <3>2, <2>1, <2>2, <2>6, <1>1, OwnersFacts
    <3> QED BY <3>1, <3>2
  <2> QED BY <2>1, <2>3, <2>4, <2>5, <2>6, OwnersFacts DEF StreamsOwned
<1>11. StreamsOwned(t, N \ Named(e))
  BY <1>10 DEF StreamsOwned
<1> QED
  BY <1>1, <1>3, <1>4, <1>5, <1>9, <1>11 DEF t

\* t has the entries of s, and empty slots besides.
Grown(s, t) ==
    /\ Locs(s) \subseteq Locs(t)
    /\ \A m \in Locs(s) : At(t, m) = At(s, m)
    /\ \A m \in Locs(t) \ Locs(s) : ~Occupied(At(t, m))

\* Empty slots change neither owners, nor heads, nor directories.
LEMMA GrownFacts ==
    ASSUME NEW s, NEW t, Grown(s, t)
    PROVE  /\ Owners(t) = Owners(s) /\ HeadsOf(t) = HeadsOf(s) /\ Dirs(t) = Dirs(s)
           /\ StartsSound(s) <=> StartsSound(t)
<1>1. Owners(t) = Owners(s)
  <2>1. Owners(t) = {l \in Locs(t) : Owns(t, l)} /\ Owners(s) = {l \in Locs(s) : Owns(s, l)}
    BY OwnersFacts
  <2>2. \A l \in Locs(t) : l \notin Locs(s) => ~Owns(t, l)
    BY DEF Grown, Owns
  <2>3. \A l \in Locs(s) : l \in Locs(t) /\ (Owns(t, l) <=> Owns(s, l))
    BY DEF Grown, Owns
  <2> QED BY <2>1, <2>2, <2>3
<1>2. \A l \in Owners(s) : At(t, l) = At(s, l)
  BY OwnersFacts DEF Grown
<1>3. HeadsOf(t) = HeadsOf(s)
  <2>1. {At(t, l).start : l \in Owners(s)} = {At(s, l).start : l \in Owners(s)}
    BY <1>2
  <2>2. HeadsOf(s) = {Root} \cup {At(s, l).start : l \in Owners(s)}
    BY OwnersFacts
  <2>3. HeadsOf(t) = {Root} \cup {At(t, l).start : l \in Owners(s)}
    BY <1>1, OwnersFacts
  <2> QED BY <2>1, <2>2, <2>3
<1> DEFINE D(x) == {m \in Locs(x) : At(x, m).kind = "Directory"}
<1>4. D(s) = D(t)
  <2>1. \A l \in Locs(t) : l \notin Locs(s) => At(t, l).kind # "Directory"
    BY DEF Grown, Occupied
  <2>2. \A l \in Locs(s) : l \in Locs(t) /\ At(t, l) = At(s, l)
    BY DEF Grown
  <2> QED BY <2>1, <2>2
<1>5. \A l \in D(s) : At(t, l) = At(s, l)
  BY DEF Grown
<1>6. Dirs(t) = Dirs(s)
  <2>1. Dirs(s) = {Root} \cup {At(s, l).start : l \in D(s)}
    BY OwnersFacts
  <2>2. Dirs(t) = {Root} \cup {At(t, l).start : l \in D(t)}
    BY OwnersFacts
  <2> HIDE DEF D
  <2>3. {At(t, l).start : l \in D(s)} = {At(s, l).start : l \in D(s)}
    BY <1>5
  <2> QED BY <2>1, <2>2, <2>3, <1>4
<1>7. StartsSound(s) <=> StartsSound(t)
  <2>1. (\A l \in Locs(s) : At(s, l).kind = "Directory" => At(s, l).start # FREE)
        <=> \A l \in D(s) : At(s, l).start # FREE
    OBVIOUS
  <2>2. (\A l \in Locs(t) : At(t, l).kind = "Directory" => At(t, l).start # FREE)
        <=> \A l \in D(t) : At(t, l).start # FREE
    OBVIOUS
  <2> HIDE DEF D
  <2>3. (\A l \in D(s) : At(s, l).start # FREE) <=> (\A l \in D(t) : At(t, l).start # FREE)
    BY <1>4, <1>5
  <2> QED BY <1>1, <1>2, <2>1, <2>2, <2>3, OwnersFacts
<1> QED
  BY <1>1, <1>3, <1>6, <1>7
-----------------------------------------------------------------------------
(* The open files, and the invariant.                                      *)

OpenTable == [Handle -> OpenFile \cup {NoFile}]
Place(o, h) == <<o[h].dir, o[h].index>>

OpenSound(s, o) ==
    \A h \in Handle : o[h] # NoFile =>
        /\ Place(o, h) \in Locs(s) /\ At(s, Place(o, h)).kind = "File"
        /\ o[h].fcb = At(s, Place(o, h)) /\ o[h].cursor <= o[h].fcb.size
        /\ \A g \in Handle : o[g] # NoFile /\ Place(o, g) = Place(o, h) => g = h

Good(f, s, o) ==
    /\ f \in [Cluster -> FatEntry] /\ s \in Streams /\ o \in OpenTable
    /\ LinksSound(f, HeadsOf(s)) /\ StartsSound(s) /\ StreamsOwned(s, {})
    /\ OpenSound(s, o)

\* OpenCoherent in terms of At.
LEMMA OpenCoherentIs == OpenCoherent <=> OpenSound(slots, open)
<1>1. \A h \in Handle : IsOpen(h) =>
         (HandlesOn(LocOf(h)) = {h} <=>
          \A g \in Handle : open[g] # NoFile /\ Place(open, g) = Place(open, h) => g = h)
  BY DEF HandlesOn, IsOpen, LocOf, Place
<1> QED
  BY <1>1 DEF OpenCoherent, OpenSound, IsOpen, LocOf, Entry, At, Place

\* OpenCoherent in terms of At, after a step.
LEMMA OpenCoherentNext == OpenCoherent' <=> OpenSound(slots', open')
<1>1. \A h \in Handle : IsOpen(h)' =>
         ((HandlesOn(LocOf(h)) = {h})' <=>
          \A g \in Handle : open'[g] # NoFile /\ Place(open', g) = Place(open', h) => g = h)
  BY DEF HandlesOn, IsOpen, LocOf, Place
<1> QED
  BY <1>1 DEF OpenCoherent, OpenSound, IsOpen, LocOf, Entry, At, Place

\* IInv in terms of At.
LEMMA GoodIs == IInv <=> Good(fat, slots, open) /\ ret \in {"Ok"} \cup Errors
BY OpenCoherentIs DEF IInv, Good, TypeOK, Heads, Streams, OpenTable

\* IInv in terms of At, after a step.
LEMMA GoodNext == IInv' <=> Good(fat', slots', open') /\ ret' \in {"Ok"} \cup Errors
BY OpenCoherentNext DEF IInv, Good, TypeOK, Heads, Streams, OpenTable

\* Open files stay coherent when their entries stay where and as they are.
LEMMA OpenKept ==
    ASSUME NEW s, NEW t, NEW o, OpenSound(s, o),
           \A m \in Locs(s) : (\E h \in Handle : o[h] # NoFile /\ Place(o, h) = m)
                 => m \in Locs(t) /\ At(t, m) = At(s, m)
    PROVE  OpenSound(t, o)
BY DEF OpenSound

\* Open files stay coherent when an entry is written and the handle on it follows.
LEMMA OpenUpdated ==
    ASSUME NEW s \in Streams, NEW l \in Locs(s), NEW e \in Slot, e.kind = "File",
           NEW o, OpenSound(s, o), NEW p,
           \A h \in Handle :
              IF o[h] # NoFile /\ Place(o, h) = l
              THEN p[h] # NoFile /\ Place(p, h) = l /\ p[h].fcb = e /\ p[h].cursor <= e.size
              ELSE p[h] = o[h]
    PROVE  OpenSound(Put(s, l, e), p)
<1> DEFINE t == Put(s, l, e)
<1>1. Locs(t) = Locs(s) /\ \A m \in Locs(s) : At(t, m) = IF m = l THEN e ELSE At(s, m)
  BY PutFacts
<1> HIDE DEF t
<1>2. \A h \in Handle : p[h] # NoFile => o[h] # NoFile /\ Place(p, h) = Place(o, h)
  BY DEF Place
<1>3. ASSUME NEW h \in Handle, p[h] # NoFile
      PROVE  /\ Place(p, h) \in Locs(t) /\ At(t, Place(p, h)).kind = "File"
             /\ p[h].fcb = At(t, Place(p, h)) /\ p[h].cursor <= p[h].fcb.size
             /\ \A g \in Handle : p[g] # NoFile /\ Place(p, g) = Place(p, h) => g = h
  <2>1. o[h] # NoFile /\ Place(p, h) = Place(o, h) /\ Place(o, h) \in Locs(s)
    BY <1>2, <1>3 DEF OpenSound
  <2>2. \A g \in Handle : p[g] # NoFile /\ Place(p, g) = Place(p, h) => g = h
    BY <1>2, <2>1 DEF OpenSound
  <2>3. CASE Place(o, h) = l
    BY <2>1, <2>2, <2>3, <1>1
  <2>4. CASE Place(o, h) # l
    BY <2>1, <2>2, <2>4, <1>1 DEF OpenSound
  <2> QED BY <2>3, <2>4
<1> QED
  BY <1>3 DEF OpenSound, t

-----------------------------------------------------------------------------
(* The operations on directories.                                          *)

\* The slots the code writes are slots.
LEMMA EmptyClusterType ==
    /\ Unused \in Slot /\ Deleted \in Slot /\ ~Occupied(Unused) /\ ~Occupied(Deleted)
    /\ Deleted.start = FREE /\ Deleted.kind = "Deleted"
    /\ EmptyCluster \in Seq(Slot) /\ Len(EmptyCluster) = SlotsPerCluster
    /\ \A i \in DOMAIN EmptyCluster : EmptyCluster[i] = Unused
    /\ \A k \in Keys : File(k) \in Slot
    /\ \A k \in Keys, c \in Cluster : Directory(k, c) \in Slot
<1>1. Unused \in Slot
  BY DEF Unused, Slot
<1>2. Deleted = [kind |-> "Deleted", name |-> NoName, start |-> FREE, size |-> 0]
  BY DEF Deleted, Unused
<1>3. Deleted \in Slot
  BY <1>2 DEF Slot
<1>4. ~Occupied(Unused) /\ ~Occupied(Deleted) /\ Deleted.start = FREE
      /\ Deleted.kind = "Deleted"
  BY <1>2 DEF Occupied, Unused
<1>5. SlotsPerCluster \in Nat /\ EmptyCluster = [i \in 1..SlotsPerCluster |-> Unused]
  BY GeometryAssumption, TableAssumption DEF EmptyCluster
<1>6. EmptyCluster \in [1..SlotsPerCluster -> Slot]
  BY <1>1, <1>5
<1>7. EmptyCluster \in Seq(Slot) /\ Len(EmptyCluster) = SlotsPerCluster
  BY <1>5, <1>6
<1>8. \A k \in Keys : File(k) \in Slot /\ File(k).start = FREE
  BY NameAssumption DEF File, Slot
<1>9. ASSUME NEW k \in Keys, NEW c \in Cluster
      PROVE  Directory(k, c) \in Slot
  <2>1. Directory(k, c) = [kind |-> "Directory", name |-> ShortName[k], start |-> c, size |-> 0]
    <3> DEFINE e == [kind |-> "File", name |-> ShortName[k], start |-> FREE, size |-> 0]
    <3>1. Directory(k, c) = [[e EXCEPT !.kind = "Directory"] EXCEPT !.start = c]
      BY DEF Directory, File
    <3>2. [e EXCEPT !.kind = "Directory"] =
            [kind |-> "Directory", name |-> ShortName[k], start |-> FREE, size |-> 0]
      OBVIOUS
    <3> QED BY <3>1, <3>2
  <2> QED BY <2>1, NameAssumption DEF Slot
<1> QED
  BY <1>1, <1>3, <1>4, <1>5, <1>7, <1>8, <1>9

\* A stream longer by one empty cluster holds the same entries.
LEMMA AppendGrown ==
    ASSUME NEW s \in Streams, NEW d \in Cluster
    PROVE  LET t == [s EXCEPT ![d] = @ \o EmptyCluster]
           IN  /\ t \in Streams /\ Grown(s, t)
               /\ <<d, Len(s[d]) + 1>> \in Locs(t)
               /\ At(t, <<d, Len(s[d]) + 1>>) = Unused
               /\ \A c \in Cluster : c # d => t[c] = s[c]
<1> DEFINE q == s[d]
           r == q \o EmptyCluster
           t == [s EXCEPT ![d] = r]
<1>1. q \in Seq(Slot) /\ Len(q) \in Nat /\ DOMAIN q = 1..Len(q)
  BY DEF Streams
<1>2. SlotsPerCluster \in Nat \ {0}
  BY GeometryAssumption, TableAssumption
<1>3. /\ r \in Seq(Slot) /\ DOMAIN r = 1..(Len(q) + SlotsPerCluster)
      /\ \A i \in 1..Len(q) : r[i] = q[i]
      /\ \A i \in (Len(q) + 1)..(Len(q) + SlotsPerCluster) :
            r[i] = EmptyCluster[i - Len(q)]
  BY <1>1, <1>2, EmptyClusterType
<1> HIDE DEF q, r
<1>4. \A i \in DOMAIN r : i \notin DOMAIN q => r[i] = Unused
  <2>1. ASSUME NEW i \in DOMAIN r, i \notin DOMAIN q
        PROVE  r[i] = Unused
    <3>1. i \in (Len(q) + 1)..(Len(q) + SlotsPerCluster)
             /\ i - Len(q) \in 1..SlotsPerCluster
      BY <2>1, <1>1, <1>2, <1>3
    <3>2. i - Len(q) \in DOMAIN EmptyCluster
      BY <3>1, EmptyClusterType
    <3> QED BY <3>1, <3>2, <1>3, EmptyClusterType
  <2> QED BY <2>1
<1>5. DOMAIN q \subseteq DOMAIN r /\ Len(q) + 1 \in DOMAIN r /\ Len(q) + 1 \notin DOMAIN q
  BY <1>1, <1>2, <1>3
<1>6. \A c \in Cluster : t[c] = IF c = d THEN r ELSE s[c]
  BY DEF Streams
<1>7. t \in Streams
  BY <1>3 DEF Streams
<1> HIDE DEF t
<1>8. ASSUME NEW m \in Locs(s)
      PROVE  m \in Locs(t) /\ At(t, m) = At(s, m)
  <2>1. m[1] \in Cluster /\ m[2] \in DOMAIN s[m[1]] /\ m = <<m[1], m[2]>>
    BY LocsFacts
  <2>2. m[2] \in DOMAIN t[m[1]] /\ t[m[1]][m[2]] = s[m[1]][m[2]]
    BY <2>1, <1>1, <1>3, <1>5, <1>6 DEF q
  <2> QED BY <2>1, <2>2, InLocs DEF At
<1>9. ASSUME NEW m \in Locs(t), m \notin Locs(s)
      PROVE  ~Occupied(At(t, m))
  <2>1. m[1] \in Cluster /\ m[2] \in DOMAIN t[m[1]] /\ m = <<m[1], m[2]>>
    BY <1>7, LocsFacts
  <2>2. m[2] \notin DOMAIN s[m[1]]
    BY <2>1, <1>9, InLocs
  <2>3. m[1] = d /\ m[2] \in DOMAIN r /\ m[2] \notin DOMAIN q
    BY <2>1, <2>2, <1>6 DEF q
  <2>4. At(t, m) = Unused
    BY <2>3, <1>4, <1>6 DEF At
  <2> QED BY <2>4, EmptyClusterType
<1>10. <<d, Len(q) + 1>> \in Locs(t) /\ At(t, <<d, Len(q) + 1>>) = Unused
  <2>1. Len(q) + 1 \in DOMAIN t[d] /\ t[d][Len(q) + 1] = Unused
    BY <1>4, <1>5, <1>6
  <2> QED BY <2>1, InLocs DEF At
<1> QED
  BY <1>6, <1>7, <1>8, <1>9, <1>10 DEF Grown, t, r, q

\* A slot found or made for a new entry is an empty one, and nothing else changes.
LEMMA FillFacts ==
    ASSUME NEW f \in [Cluster -> FatEntry], NEW s \in Streams, NEW d \in Cluster
    PROVE  LET r == FillFreeDirSlot(f, s, d)
           IN  /\ r.fat = f \/ r.fat = Extend(f, d, 1)
               /\ r.slots \in Streams /\ Grown(s, r.slots)
               /\ <<d, r.index>> \in Locs(r.slots)
               /\ ~Occupied(At(r.slots, <<d, r.index>>))
               /\ \A c \in Cluster : c # d => r.slots[c] = s[c]
<1> DEFINE S == FreeSlots(s[d])
<1>1. CASE S # {}
  <2>1. FillFreeDirSlot(f, s, d) = [fat |-> f, slots |-> s, index |-> Min(S)]
    BY <1>1 DEF FillFreeDirSlot
  <2>2. S \in SUBSET Nat /\ S \subseteq DOMAIN s[d] /\ \A i \in S : ~Occupied(s[d][i])
    <3>1. s[d] \in Seq(Slot)
      BY DEF Streams
    <3> QED BY <3>1 DEF FreeSlots
  <2> HIDE DEF S
  <2>3. Min(S) \in S
    BY <2>2, <1>1, MinIsLeast
  <2>4. <<d, Min(S)>> \in Locs(s) /\ ~Occupied(At(s, <<d, Min(S)>>))
    BY <2>2, <2>3, InLocs DEF At
  <2>5. Grown(s, s)
    BY DEF Grown
  <2> QED BY <2>1, <2>4, <2>5
<1>2. CASE S = {}
  <2> DEFINE t == [s EXCEPT ![d] = @ \o EmptyCluster]
  <2>1. FillFreeDirSlot(f, s, d) =
          [fat |-> Extend(f, d, 1), slots |-> t, index |-> Len(s[d]) + 1]
    BY <1>2 DEF FillFreeDirSlot
  <2>2. /\ t \in Streams /\ Grown(s, t)
        /\ <<d, Len(s[d]) + 1>> \in Locs(t)
        /\ At(t, <<d, Len(s[d]) + 1>>) = Unused
        /\ \A c \in Cluster : c # d => t[c] = s[c]
    BY AppendGrown
  <2> HIDE DEF t
  <2> QED BY <2>1, <2>2, EmptyClusterType
<1> QED
  BY <1>1, <1>2

\* Adding an entry to a directory: it may bring a chain nobody names yet, with the
\* stream of that chain.
LEMMA AddEntryGood ==
    ASSUME NEW f \in [Cluster -> FatEntry], NEW s \in Streams, NEW o,
           o \in OpenTable, OpenSound(s, o),
           NEW e \in Slot, Occupied(e), e.kind = "Directory" => e.start # FREE,
           LinksSound(f, HeadsOf(s) \cup Brought(e)), StartsSound(s),
           StreamsOwned(s, Named(e)), Brought(e) \cap HeadsOf(s) = {},
           NEW d \in Dirs(s)
    PROVE  LET r == FillFreeDirSlot(f, s, d)
           IN  Good(r.fat, RefreshDirSize(Put(r.slots, <<d, r.index>>, e), d), o)
<1> DEFINE r == FillFreeDirSlot(f, s, d)
           u == r.slots
           l == <<d, r.index>>
           t == Put(u, l, e)
           v == RefreshDirSize(t, d)
           H == HeadsOf(s) \cup Brought(e)
<1>1. d \in Cluster /\ d \in HeadsOf(s)
  BY DirsAreHeads, HeadsType
<1>2. /\ r.fat = f \/ r.fat = Extend(f, d, 1)
      /\ u \in Streams /\ Grown(s, u) /\ l \in Locs(u) /\ ~Occupied(At(u, l))
      /\ \A c \in Cluster : c # d => u[c] = s[c]
  BY <1>1, FillFacts
<1> HIDE DEF r, u, l
<1>3. Owners(u) = Owners(s) /\ HeadsOf(u) = HeadsOf(s) /\ Dirs(u) = Dirs(s)
         /\ StartsSound(u)
  BY <1>2, GrownFacts
<1>4. StreamsOwned(u, Named(e))
  BY <1>2, <1>3 DEF StreamsOwned
<1>5. H \in SUBSET Cluster
  <2>1. Brought(e) \subseteq Cluster
    BY DEF Brought, Slot
  <2> QED BY <2>1, HeadsType
<1>6. r.fat \in [Cluster -> FatEntry] /\ LinksSound(r.fat, H)
  <2>1. NewHeads(f, d, 1) = {}
    BY <1>1, ClusterFacts DEF NewHeads
  <2>2. Extend(f, d, 1) \in [Cluster -> FatEntry] /\ LinksSound(Extend(f, d, 1), H \cup {})
    BY <2>1, <1>5, ExtendType, ExtendLinks
  <2>3. H \cup {} = H
    OBVIOUS
  <2> HIDE DEF H
  <2> QED BY <2>2, <2>3, <1>2 DEF H
<1>7. /\ t \in Streams /\ StartsSound(t) /\ StreamsOwned(t, Named(e) \ Named(e))
      /\ HeadsOf(t) \subseteq H
  <2>1. Brought(e) \cap ({Root} \cup {At(u, m).start : m \in Owners(u) \ {l}}) = {}
    BY <1>3, OwnersFacts
  <2>2. At(u, l).kind # "Directory"
    BY <1>2 DEF Occupied
  <2> QED BY <2>1, <2>2, <1>2, <1>3, <1>4, PutSound
<1>8. Locs(t) = Locs(u) /\ \A m \in Locs(u) : At(t, m) = IF m = l THEN e ELSE At(u, m)
  BY <1>2, PutFacts
<1> HIDE DEF t
<1>9. /\ v \in Streams /\ SameShape(t, v) /\ Locs(v) = Locs(t)
      /\ \A m \in Locs(t) :
            /\ At(v, m).kind = At(t, m).kind /\ At(v, m).start = At(t, m).start
            /\ At(t, m).kind # "Directory" => At(v, m) = At(t, m)
  BY <1>1, <1>7, RefreshFacts
<1> HIDE DEF v
<1>10. StartsSound(v) /\ StreamsOwned(v, {}) /\ HeadsOf(v) = HeadsOf(t)
  <2>1. Alike(t, v)
    BY <1>9 DEF Alike
  <2>2. StreamsOwned(t, {})
    BY <1>7 DEF StreamsOwned
  <2> QED BY <2>1, <2>2, <1>7, <1>9, AlikeSound
<1>11. LinksSound(r.fat, HeadsOf(v))
  BY <1>6, <1>7, <1>10, FewerHeads
<1>12. OpenSound(v, o)
  <2>1. ASSUME NEW m \in Locs(s), NEW h \in Handle, o[h] # NoFile, Place(o, h) = m
        PROVE  m \in Locs(v) /\ At(v, m) = At(s, m)
    <3>1. At(s, m).kind = "File"
      BY <2>1 DEF OpenSound
    <3>2. m \in Locs(u) /\ At(u, m) = At(s, m)
      BY <1>2 DEF Grown
    <3>3. m # l
      BY <3>1, <3>2, <1>2 DEF Occupied
    <3> QED BY <3>1, <3>2, <3>3, <1>8, <1>9
  <2> QED BY <2>1, OpenKept
<1> QED
  BY <1>6, <1>9, <1>10, <1>11, <1>12 DEF Good, r, u, l, t, v

\* A call that fails early changes nothing.
LEMMA FailGood ==
    ASSUME Good(fat, slots, open), NEW error, Fail(error)
    PROVE  Good(fat', slots', open')
BY DEF Fail

\* create_file adds an entry that brings no chain.
LEMMA CreateFileGood ==
    ASSUME Good(fat, slots, open), NEW d \in Dirs(slots), NEW k \in Keys, CreateFile(d, k)
    PROVE  Good(fat', slots', open')
<1>1. CASE UNCHANGED <<fat, slots, open>>
  BY <1>1
<1>2. CASE AddEntry(fat, slots, d, File(k))
  <2> DEFINE e == File(k)
             r == FillFreeDirSlot(fat, slots, d)
  <2>1. e \in Slot /\ Occupied(e) /\ e.kind = "File" /\ e.start = FREE
    BY EmptyClusterType DEF File, Occupied
  <2>2. Brought(e) = {} /\ Named(e) = {}
    BY <2>1 DEF Brought, Named
  <2> HIDE DEF e
  <2>3. LinksSound(fat, HeadsOf(slots) \cup Brought(e))
    <3>1. HeadsOf(slots) \cup {} = HeadsOf(slots)
      OBVIOUS
    <3> QED BY <3>1, <2>2 DEF Good
  <2>4. Good(r.fat, RefreshDirSize(Put(r.slots, <<d, r.index>>, e), d), open)
    BY <2>1, <2>2, <2>3, AddEntryGood DEF Good
  <2>5. Put(r.slots, <<d, r.index>>, e) = [r.slots EXCEPT ![d][r.index] = e]
    BY DEF Put
  <2>6. fat' = r.fat /\ slots' = RefreshDirSize(Put(r.slots, <<d, r.index>>, e), d)
        /\ open' = open
    BY <1>2, <2>5 DEF AddEntry, e
  <2> QED BY <2>4, <2>6
<1> QED
  BY <1>1, <1>2 DEF CreateFile, Fail

\* The stream of a new directory is empty.
LEMMA NewStreamGrown ==
    ASSUME Good(fat, slots, open), NEW new \in Cluster, new \notin HeadsOf(slots)
    PROVE  LET t == [slots EXCEPT ![new] = EmptyCluster]
           IN  t \in Streams /\ Grown(slots, t)
<1> DEFINE t == [slots EXCEPT ![new] = EmptyCluster]
<1>1. slots[new] = <<>>
  BY DirsAreHeads DEF Good, StreamsOwned
<1>2. t \in Streams /\ \A c \in Cluster : t[c] = IF c = new THEN EmptyCluster ELSE slots[c]
  BY EmptyClusterType DEF Good, Streams
<1> HIDE DEF t
<1>3. ASSUME NEW m \in Locs(slots)
      PROVE  m \in Locs(t) /\ At(t, m) = At(slots, m)
  <2>1. m[1] \in Cluster /\ m[2] \in DOMAIN slots[m[1]] /\ m = <<m[1], m[2]>>
    BY LocsFacts DEF Good
  <2>2. m[1] # new
    BY <2>1, <1>1
  <2>3. m[2] \in DOMAIN t[m[1]] /\ t[m[1]] = slots[m[1]]
    BY <2>1, <2>2, <1>2
  <2> QED BY <2>1, <2>3, InLocs DEF At
<1>4. ASSUME NEW m \in Locs(t), m \notin Locs(slots)
      PROVE  ~Occupied(At(t, m))
  <2>1. m[1] \in Cluster /\ m[2] \in DOMAIN t[m[1]] /\ m = <<m[1], m[2]>>
    BY <1>2, LocsFacts
  <2>2. m[1] = new
    BY <2>1, <1>4, <1>2, InLocs
  <2> QED BY <2>1, <2>2, <1>2, EmptyClusterType DEF At
<1> QED
  BY <1>2, <1>3, <1>4 DEF Grown, t

\* mkdir adds an entry that brings a new chain, or fails and loses the new cluster.
LEMMA MkdirGood ==
    ASSUME Good(fat, slots, open), NEW d \in Dirs(slots), NEW k \in Keys, Mkdir(d, k)
    PROVE  Good(fat', slots', open')
<1> DEFINE new == Min(FreeClusters(fat))
           fat1 == Extend(fat, FREE, 1)
           slots1 == [slots EXCEPT ![new] = EmptyCluster]
           H == HeadsOf(slots)
<1>0. H \in SUBSET Cluster
  BY HeadsType DEF Good
<1>1. CASE UNCHANGED <<fat, slots, open>>
  BY <1>1
<1>2. ASSUME FreeClusters(fat) # {}
      PROVE  /\ new \in Cluster /\ new \notin H
             /\ fat1 \in [Cluster -> FatEntry] /\ LinksSound(fat1, H \cup {new})
  <2>1. NewHeads(fat, FREE, 1) = {new} /\ new \in Cluster /\ fat[new] = FREE
    BY <1>2, NewHeadsAre DEF Good
  <2>2. LinksSound(fat1, H \cup NewHeads(fat, FREE, 1))
    BY <1>0, ExtendLinks DEF Good
  <2>3. new \notin H
    BY <2>1, <1>0, FreeUnlinked DEF Good
  <2> QED BY <2>1, <2>2, <2>3, ExtendType DEF Good
<1> HIDE DEF new
<1>3. CASE FreeClusters(fat) # {} /\ fat' = fat1 /\ UNCHANGED <<slots, open>>
  <2>1. LinksSound(fat1, H)
    BY <1>2, <1>3, FewerHeads
  <2> QED BY <2>1, <1>2, <1>3 DEF Good
<1>4. CASE FreeClusters(fat) # {} /\ AddEntry(fat1, slots1, d, Directory(k, new))
  <2> DEFINE e == Directory(k, new)
             r == FillFreeDirSlot(fat1, slots1, d)
  <2>1. /\ new \in Cluster /\ new \notin H /\ new # FREE
        /\ fat1 \in [Cluster -> FatEntry] /\ LinksSound(fat1, H \cup {new})
    BY <1>2, <1>4, ClusterFacts
  <2>2. e \in Slot /\ Occupied(e) /\ e.kind = "Directory" /\ e.start = new
    <3>1. e \in Slot
      BY <2>1, EmptyClusterType
    <3>2. e.kind = "Directory" /\ e.start = new
      BY DEF Directory, File
    <3> QED BY <3>1, <3>2 DEF Occupied
  <2>3. Brought(e) = {new} /\ Named(e) = {new}
    BY <2>1, <2>2 DEF Brought, Named
  <2> HIDE DEF e
  <2>4. slots[new] = <<>>
    BY <2>1, DirsAreHeads DEF Good, StreamsOwned
  <2>5. slots1 \in Streams
           /\ \A c \in Cluster : slots1[c] = IF c = new THEN EmptyCluster ELSE slots[c]
    BY EmptyClusterType DEF Good, Streams
  <2> HIDE DEF slots1
  <2>6. Grown(slots, slots1)
    BY <2>1, NewStreamGrown DEF slots1
  <2>7. /\ Owners(slots1) = Owners(slots) /\ HeadsOf(slots1) = H
        /\ Dirs(slots1) = Dirs(slots) /\ StartsSound(slots1)
    BY <2>6, GrownFacts DEF Good
  <2>8. StreamsOwned(slots1, Named(e))
    BY <2>3, <2>5, <2>7 DEF Good, StreamsOwned
  <2>9. OpenSound(slots1, open)
    BY <2>6, OpenKept DEF Good, Grown
  <2>10. Good(r.fat, RefreshDirSize(Put(r.slots, <<d, r.index>>, e), d), open)
    BY SMTT(20), <2>1, <2>2, <2>3, <2>5, <2>7, <2>8, <2>9, AddEntryGood DEF Good
  <2>11. Put(r.slots, <<d, r.index>>, e) = [r.slots EXCEPT ![d][r.index] = e]
    BY DEF Put
  <2>12. fat' = r.fat /\ slots' = RefreshDirSize(Put(r.slots, <<d, r.index>>, e), d)
         /\ open' = open
    BY <1>4, <2>11 DEF AddEntry, e
  <2> QED BY <2>10, <2>12
<1> QED
  BY <1>1, <1>3, <1>4 DEF Mkdir, Fail, new

\* A stream that counts no entry holds none.
LEMMA CountZero ==
    ASSUME NEW q \in Seq(Slot), Count(q) = 0
    PROVE  \A i \in DOMAIN q : ~Occupied(q[i])
<1> DEFINE S == {i \in DOMAIN q : Occupied(q[i])}
<1>1. Len(q) \in Nat /\ DOMAIN q = 1..Len(q)
  OBVIOUS
<1>2. IsFiniteSet(DOMAIN q) /\ S \subseteq DOMAIN q
  BY <1>1, FS_Interval
<1> HIDE DEF S
<1>3. S = {}
  BY <1>2, FS_Subset, FS_EmptySet DEF Count, S
<1> QED
  BY <1>3 DEF S

\* free_chain_from wipes no entry: what it frees of streams is the stream of the
\* directory removed, which has none.
LEMMA WipeGrown ==
    ASSUME Good(fat, slots, open), NEW l \in Locs(slots), Occupied(Entry(l)),
           Entry(l).kind = "Directory" => Count(slots[Entry(l).start]) = 0
    PROVE  LET w == Wipe(slots, ToSet(Chain(fat, Entry(l).start)))
           IN  /\ w \in Streams /\ Grown(w, slots) /\ l \in Locs(w)
               /\ \A m \in Locs(slots) : Occupied(At(slots, m)) => m \in Locs(w)
               /\ StreamsOwned(w, {})
               /\ Entry(l).kind = "Directory" => w[Entry(l).start] = <<>>
<1> DEFINE e == Entry(l)
           S == ToSet(Chain(fat, e.start))
           w == Wipe(slots, S)
           H == HeadsOf(slots)
<1>1. /\ l[1] \in Cluster /\ l[2] \in DOMAIN slots[l[1]] /\ l = <<l[1], l[2]>>
      /\ e \in Slot /\ e = At(slots, l)
  BY LocsFacts DEF Good, Entry, At
<1> HIDE DEF e
<1>2. H \in SUBSET Cluster /\ Dirs(slots) \subseteq H
  BY HeadsType, DirsAreHeads DEF Good
<1>3. e.start \in H \cup {FREE}
  <2>1. e.start # FREE => l \in Owners(slots)
    BY <1>1, OwnersFacts DEF Owns, e
  <2> QED BY <2>1, <1>1, OwnersFacts
<1>4. S \cap H \subseteq {e.start}
  BY <1>2, <1>3, FreeChainLinks DEF Good
<1>5. w \in Streams /\ \A c \in Cluster : w[c] = IF c \in S THEN <<>> ELSE slots[c]
  <2>1. \A c \in Cluster : slots[c] \in Seq(Slot)
    BY DEF Good, Streams
  <2>2. <<>> \in Seq(Slot)
    OBVIOUS
  <2>3. w = [c \in Cluster |-> IF c \in S THEN <<>> ELSE slots[c]]
    BY DEF Wipe
  <2> HIDE DEF w, S
  <2> QED BY <2>1, <2>2, <2>3 DEF Streams
<1> HIDE DEF w
<1>6. ASSUME NEW m \in Locs(slots), m[1] \in S
      PROVE  ~Occupied(At(slots, m))
  <2>1. m[1] \in Cluster /\ m[2] \in DOMAIN slots[m[1]] /\ slots[m[1]] \in Seq(Slot)
    BY LocsFacts DEF Good
  <2>2. m[1] \in Dirs(slots)
    BY <2>1 DEF Good, StreamsOwned
  <2>3. m[1] = e.start
    BY <2>2, <1>2, <1>4, <1>6
  <2>4. PICK k \in Locs(slots) : At(slots, k).kind = "Directory"
           /\ At(slots, k).start = e.start
    <3>1. e.start # Root
      <4>1. l \in Owners(slots)
        BY <1>1, <1>2, <2>2, <2>3, ClusterFacts, OwnersFacts DEF Owns, e
      <4> QED BY <4>1, <1>1, OwnersFacts DEF Good
    <3> QED BY <2>2, <2>3, <3>1, OwnersFacts
  <2>5. k \in Owners(slots) /\ l \in Owners(slots)
    BY <1>1, <1>2, <2>2, <2>3, <2>4, ClusterFacts, OwnersFacts DEF Owns, Occupied, e
  <2>6. k = l
    BY <2>4, <2>5, <1>1, OwnersFacts DEF Good
  <2>7. Count(slots[m[1]]) = 0
    BY <2>3, <2>4, <2>6, <1>1 DEF e
  <2> QED BY <2>1, <2>7, CountZero DEF At
<1>7. ASSUME NEW m \in Locs(w)
      PROVE  m \in Locs(slots) /\ At(slots, m) = At(w, m)
  <2>1. m[1] \in Cluster /\ m[2] \in DOMAIN w[m[1]] /\ m = <<m[1], m[2]>>
    BY <1>5, LocsFacts
  <2>2. m[1] \notin S
    BY <2>1, <1>5
  <2> QED BY <2>1, <2>2, <1>5, InLocs DEF At
<1>8. ASSUME NEW m \in Locs(slots), m \notin Locs(w)
      PROVE  ~Occupied(At(slots, m))
  <2>1. m[1] \in Cluster /\ m[2] \in DOMAIN slots[m[1]] /\ m = <<m[1], m[2]>>
    BY LocsFacts DEF Good
  <2>2. m[1] \in S
    BY <2>1, <1>5, <1>8, InLocs
  <2> QED BY <2>2, <1>6
<1>9. Grown(w, slots)
  BY <1>7, <1>8 DEF Grown
<1>10. Dirs(w) = Dirs(slots)
  BY <1>9, GrownFacts
<1>11. StreamsOwned(w, {})
  BY <1>5, <1>10 DEF Good, StreamsOwned
<1>12. ASSUME e.kind = "Directory"
       PROVE  w[e.start] = <<>>
  <2>1. e.start # FREE
    BY <1>1, <1>12, OwnersFacts DEF Good
  <2>2. e.start \in Cluster
    BY <2>1, <1>2, <1>3
  <2>3. Len(Chain(fat, e.start)) \in Nat /\ Len(Chain(fat, e.start)) >= 1
        /\ Chain(fat, e.start)[1] = e.start /\ Chain(fat, e.start) \in Seq(FatEntry)
    BY <2>1, <2>2, ChainFacts DEF Good
  <2>4. e.start \in S
    BY <2>3 DEF ToSet
  <2> QED BY <2>2, <2>4, <1>5
<1> QED
  BY <1>1, <1>5, <1>8, <1>9, <1>11, <1>12 DEF w, e

\* rm and rmdir free a chain and delete the entry that owned it.
LEMMA RemoveEntryGood ==
    ASSUME Good(fat, slots, open), NEW l \in Locs(slots), Occupied(Entry(l)),
           Entry(l).kind = "Directory" => Count(slots[Entry(l).start]) = 0,
           \A h \in Handle : open[h] # NoFile => Place(open, h) # l,
           RemoveEntry(l)
    PROVE  Good(fat', slots', open')
<1> DEFINE e == Entry(l)
           S == ToSet(Chain(fat, e.start))
           w == Wipe(slots, S)
           t == Put(w, l, Deleted)
           v == RefreshDirSize(t, l[1])
           H == HeadsOf(slots)
<1>1. /\ l[1] \in Cluster /\ l[2] \in DOMAIN slots[l[1]] /\ l = <<l[1], l[2]>>
      /\ e \in Slot /\ e = At(slots, l)
  BY LocsFacts DEF Good, Entry, At
<1>2. /\ w \in Streams /\ Grown(w, slots) /\ l \in Locs(w)
      /\ \A m \in Locs(slots) : Occupied(At(slots, m)) => m \in Locs(w)
      /\ StreamsOwned(w, {})
      /\ e.kind = "Directory" => w[e.start] = <<>>
  BY WipeGrown
<1>3. fat' = FreeAll(fat, S) /\ slots' = v /\ open' = open
  BY DEF RemoveEntry, Put
<1> HIDE DEF e
<1>4. H \in SUBSET Cluster /\ e.start \in H \cup {FREE}
  <2>1. e.start # FREE => l \in Owners(slots)
    BY <1>1, OwnersFacts DEF Owns, e
  <2> QED BY <2>1, <1>1, OwnersFacts, HeadsType DEF Good
<1>5. FreeAll(fat, S) \in [Cluster -> FatEntry]
         /\ LinksSound(FreeAll(fat, S), H \ {e.start})
  BY <1>4, FreeChainLinks, FreeAllType DEF Good
<1> HIDE DEF w, S
<1>6. /\ Owners(w) = Owners(slots) /\ HeadsOf(w) = H /\ StartsSound(w)
      /\ At(w, l) = e
  <2>1. At(w, l) = At(slots, l)
    BY <1>2 DEF Grown
  <2> QED BY <2>1, <1>1, <1>2, GrownFacts DEF Good
<1>7. Brought(Deleted) = {} /\ Named(Deleted) = {} /\ Deleted \in Slot
      /\ Deleted.kind # "Directory"
  BY EmptyClusterType DEF Brought, Named
<1>8. /\ t \in Streams /\ StartsSound(t) /\ StreamsOwned(t, {} \ Named(Deleted))
      /\ HeadsOf(t) \subseteq H \cup Brought(Deleted)
      /\ Owns(w, l) => HeadsOf(t) \subseteq (H \ {e.start}) \cup Brought(Deleted)
  BY <1>2, <1>6, <1>7, PutSound
<1>9. HeadsOf(t) \subseteq H \ {e.start}
  <2>1. CASE e.start = FREE
    BY <2>1, <1>4, <1>7, <1>8, ClusterFacts
  <2>2. CASE e.start # FREE
    BY <2>2, <1>6, <1>7, <1>8 DEF Owns, e
  <2> QED BY <2>1, <2>2
<1>10. Locs(t) = Locs(w)
          /\ \A m \in Locs(w) : At(t, m) = IF m = l THEN Deleted ELSE At(w, m)
  BY <1>2, <1>7, PutFacts
<1> HIDE DEF t
<1>11. /\ v \in Streams /\ SameShape(t, v) /\ Locs(v) = Locs(t)
       /\ \A m \in Locs(t) :
            /\ At(v, m).kind = At(t, m).kind /\ At(v, m).start = At(t, m).start
            /\ At(t, m).kind # "Directory" => At(v, m) = At(t, m)
  BY <1>1, <1>8, RefreshFacts
<1> HIDE DEF v
<1>12. StartsSound(v) /\ StreamsOwned(v, {}) /\ HeadsOf(v) = HeadsOf(t)
  <2>1. Alike(t, v)
    BY <1>11 DEF Alike
  <2>2. StreamsOwned(t, {})
    BY <1>7, <1>8 DEF StreamsOwned
  <2> QED BY <2>1, <2>2, <1>8, <1>11, AlikeSound
<1>13. LinksSound(FreeAll(fat, S), HeadsOf(v))
  BY <1>5, <1>9, <1>12, FewerHeads
<1>14. OpenSound(v, open)
  <2>1. ASSUME NEW m \in Locs(slots), NEW h \in Handle, open[h] # NoFile, Place(open, h) = m
        PROVE  m \in Locs(v) /\ At(v, m) = At(slots, m)
    <3>1. At(slots, m).kind = "File" /\ m # l
      BY <2>1 DEF Good, OpenSound
    <3>2. m \in Locs(w) /\ At(w, m) = At(slots, m)
      BY <3>1, <1>2 DEF Occupied, Grown
    <3> QED BY <3>1, <3>2, <1>10, <1>11
  <2> QED BY <2>1, OpenKept DEF Good
<1> QED
  BY <1>3, <1>5, <1>11, <1>12, <1>13, <1>14 DEF Good

\* rm removes a file that no handle is open on.
LEMMA RmGood ==
    ASSUME Good(fat, slots, open), NEW l \in Locs(slots), Rm(l)
    PROVE  Good(fat', slots', open')
<1>1. CASE Entry(l).kind = "File" /\ HandlesOn(l) = {} /\ RemoveEntry(l)
  <2>1. Occupied(Entry(l)) /\ Entry(l).kind # "Directory"
    BY <1>1 DEF Occupied
  <2>2. \A h \in Handle : open[h] # NoFile => Place(open, h) # l
    BY <1>1 DEF HandlesOn, IsOpen, Place
  <2> QED BY <2>1, <2>2, <1>1, RemoveEntryGood
<1> QED
  BY <1>1, FailGood DEF Rm

\* rmdir removes a directory that holds nothing, so that no handle is open in it.
LEMMA RmdirGood ==
    ASSUME Good(fat, slots, open), NEW l \in Locs(slots), Rmdir(l)
    PROVE  Good(fat', slots', open')
<1>1. CASE /\ Entry(l).kind = "Directory" /\ Count(slots[Entry(l).start]) = 0
           /\ RemoveEntry(l)
  <2>1. Occupied(Entry(l))
    BY <1>1 DEF Occupied
  <2>2. \A h \in Handle : open[h] # NoFile => Place(open, h) # l
    BY <1>1 DEF Good, OpenSound, At, Entry
  <2> QED BY <2>1, <2>2, <1>1, RemoveEntryGood
<1> QED
  BY <1>1, FailGood DEF Rmdir

-----------------------------------------------------------------------------
(* The operations on open files and their contents.                        *)

\* Handles are numbers, and Min returns one.
LEMMA HandleFacts ==
    /\ Handle \in SUBSET Nat
    /\ \A S \in SUBSET Handle : S # {} => Min(S) \in S
<1>1. Handle \in SUBSET Nat
  BY LimitsAssumption DEF Handle
<1> QED
  BY <1>1, MinIsLeast

\* open puts the entry it read into a hole of the table.
LEMMA OpenGood ==
    ASSUME Good(fat, slots, open), NEW l \in Locs(slots), Open(l)
    PROVE  Good(fat', slots', open')
<1>1. CASE /\ Entry(l).kind = "File" /\ HandlesOn(l) = {} /\ Holes # {}
           /\ open' = [open EXCEPT ![Min(Holes)] =
                     [dir |-> l[1], index |-> l[2], cursor |-> 0, fcb |-> Entry(l)]]
           /\ UNCHANGED <<fat, slots>>
  <2> DEFINE k == Min(Holes)
             x == [dir |-> l[1], index |-> l[2], cursor |-> 0, fcb |-> Entry(l)]
  <2>1. k \in Handle
    BY <1>1, HandleFacts DEF Holes
  <2>2. /\ l[1] \in Cluster /\ l[2] \in Nat /\ l = <<l[1], l[2]>>
        /\ Entry(l) \in Slot /\ Entry(l) = At(slots, l)
    BY LocsFacts DEF Good, Entry, At
  <2>3. x \in OpenFile /\ x # NoFile
    BY <2>2, NoFileAssumption DEF OpenFile
  <2>4. /\ x.fcb = At(slots, l) /\ x.cursor = 0 /\ <<x.dir, x.index>> = l
        /\ x.cursor <= x.fcb.size
    BY <2>2 DEF Slot
  <2> HIDE DEF k, x
  <2>5. \A h \in Handle : open'[h] = IF h = k THEN x ELSE open[h]
    BY <1>1 DEF Good, OpenTable, k, x
  <2>6. open' \in OpenTable
    BY <1>1, <2>3 DEF Good, OpenTable, k, x
  <2>7. \A h \in Handle : open[h] # NoFile => Place(open, h) # l
    BY <1>1 DEF HandlesOn, IsOpen, Place
  <2>8. Place(open', k) = l /\ \A h \in Handle : h # k => Place(open', h) = Place(open, h)
    BY <2>1, <2>4, <2>5 DEF Place
  <2>9. OpenSound(slots, open')
    <3>1. ASSUME NEW h \in Handle, open'[h] # NoFile
          PROVE  /\ Place(open', h) \in Locs(slots)
                 /\ At(slots, Place(open', h)).kind = "File"
                 /\ open'[h].fcb = At(slots, Place(open', h))
                 /\ open'[h].cursor <= open'[h].fcb.size
                 /\ \A g \in Handle : open'[g] # NoFile /\ Place(open', g) = Place(open', h)
                       => g = h
      <4>1. CASE h = k
        <5>1. Place(open', h) = l /\ open'[h] = x
          BY <4>1, <2>5, <2>8
        <5>2. \A g \in Handle : open'[g] # NoFile /\ Place(open', g) = l => g = k
          BY <2>5, <2>7, <2>8
        <5> QED BY <4>1, <5>1, <5>2, <1>1, <2>2, <2>4
      <4>2. CASE h # k
        BY <4>2, <3>1, <2>5, <2>7, <2>8 DEF Good, OpenSound
      <4> QED BY <4>1, <4>2
    <3> QED BY <3>1 DEF OpenSound
  <2> QED BY <2>6, <2>9, <1>1 DEF Good
<1> QED
  BY <1>1, FailGood DEF Open

\* close_handle makes a hole.
LEMMA CloseHandleGood ==
    ASSUME Good(fat, slots, open), NEW h \in Handle, CloseHandle(h)
    PROVE  Good(fat', slots', open')
<1>1. CASE open' = [open EXCEPT ![h] = NoFile] /\ UNCHANGED <<fat, slots>>
  <2>1. \A g \in Handle : open'[g] = IF g = h THEN NoFile ELSE open[g]
    BY <1>1 DEF Good, OpenTable
  <2>2. open' \in OpenTable
    BY <1>1 DEF Good, OpenTable
  <2>3. OpenSound(slots, open')
    BY <2>1 DEF Good, OpenSound, Place
  <2> QED BY <2>2, <2>3, <1>1 DEF Good
<1> QED
  BY <1>1, FailGood DEF CloseHandle

\* A cursor may move within the file.
LEMMA MoveCursorGood ==
    ASSUME Good(fat, slots, open), NEW h \in Handle, IsOpen(h), NEW pos \in Nat,
           pos <= open[h].fcb.size, MoveCursor(h, pos)
    PROVE  Good(fat', slots', open')
<1> DEFINE x == [open[h] EXCEPT !.cursor = pos]
<1>1. open[h] \in OpenFile
  BY DEF Good, OpenTable, IsOpen
<1>2. x \in OpenFile /\ x # NoFile
  BY <1>1, NoFileAssumption DEF OpenFile
<1>3. x.dir = open[h].dir /\ x.index = open[h].index /\ x.fcb = open[h].fcb
         /\ x.cursor = pos
  BY <1>1 DEF OpenFile
<1>4. open' = [open EXCEPT ![h] = x] /\ UNCHANGED <<fat, slots>>
  BY DEF MoveCursor
<1> HIDE DEF x
<1>5. \A g \in Handle : open'[g] = IF g = h THEN x ELSE open[g]
  BY <1>4 DEF Good, OpenTable
<1>6. open' \in OpenTable
  BY <1>2, <1>4 DEF Good, OpenTable
<1>7. \A g \in Handle : (open'[g] # NoFile <=> open[g] # NoFile)
          /\ Place(open', g) = Place(open, g) /\ open'[g].fcb = open[g].fcb
  BY <1>2, <1>3, <1>5 DEF Place, IsOpen
<1>8. OpenSound(slots, open')
  BY <1>3, <1>5, <1>7 DEF Good, OpenSound
<1> QED
  BY <1>4, <1>6, <1>8 DEF Good

\* What is known of an open handle.
LEMMA OpenTypes ==
    ASSUME Good(fat, slots, open), NEW h \in Handle, IsOpen(h)
    PROVE  /\ open[h] \in OpenFile /\ open[h].cursor \in Nat
           /\ open[h].fcb \in Slot /\ open[h].fcb.size \in Nat
           /\ open[h].cursor <= open[h].fcb.size
           /\ LocOf(h) \in Locs(slots) /\ Entry(LocOf(h)) = open[h].fcb
           /\ Entry(LocOf(h)).kind = "File"
<1>1. open[h] \in OpenFile
  BY DEF Good, OpenTable, IsOpen
<1>2. open[h].cursor \in Nat /\ open[h].fcb \in Slot /\ open[h].fcb.size \in Nat
  BY <1>1 DEF OpenFile, Slot
<1> QED
  BY <1>1, <1>2 DEF Good, OpenSound, IsOpen, LocOf, Place, Entry, At

\* seek_handle keeps the cursor in the file.
LEMMA SeekHandleGood ==
    ASSUME Good(fat, slots, open), NEW h \in Handle, NEW pos \in Nat, SeekHandle(h, pos)
    PROVE  Good(fat', slots', open')
BY FailGood, MoveCursorGood DEF SeekHandle

\* read_handle stops at the end of the file.
LEMMA ReadHandleGood ==
    ASSUME Good(fat, slots, open), NEW h \in Handle, NEW len \in Nat, ReadHandle(h, len)
    PROVE  Good(fat', slots', open')
<1>1. CASE IsOpen(h)
  <2>1. /\ open[h].cursor \in Nat /\ open[h].fcb.size \in Nat
        /\ open[h].cursor <= open[h].fcb.size
    BY <1>1, OpenTypes
  <2>2. CASE open[h].cursor + len <= open[h].fcb.size
             /\ MoveCursor(h, open[h].cursor + len)
    BY <2>1, <2>2, <1>1, MoveCursorGood
  <2>3. CASE MoveCursor(h, IF open[h].cursor > open[h].fcb.size
                           THEN open[h].cursor ELSE open[h].fcb.size)
    <3>1. ~ (open[h].cursor > open[h].fcb.size)
      BY <2>1
    <3> QED BY <3>1, <2>1, <2>3, <1>1, MoveCursorGood
  <2> QED BY <2>2, <2>3, <1>1 DEF ReadHandle
<1>2. CASE ~IsOpen(h)
  BY <1>2, FailGood DEF ReadHandle
<1> QED
  BY <1>1, <1>2

\* In p the handles open on l hold e, and the others are what they were.
Follows(l, e, p) ==
    \A h \in Handle :
        IF open[h] # NoFile /\ Place(open, h) = l
        THEN p[h] # NoFile /\ Place(p, h) = l /\ p[h].fcb = e /\ p[h].cursor <= e.size
        ELSE p[h] = open[h]

\* An entry may be rewritten if its chain is still its own and its handles follow.
LEMMA RewriteGood ==
    ASSUME Good(fat, slots, open), NEW l \in Locs(slots), Entry(l).kind = "File",
           NEW e \in Slot, e.kind = "File",
           e.start \in {FREE, Entry(l).start} \/ e.start \notin HeadsOf(slots),
           NEW f \in [Cluster -> FatEntry],
           LinksSound(f, (HeadsOf(slots) \ {Entry(l).start}) \cup Brought(e)),
           NEW p \in OpenTable, Follows(l, e, p)
    PROVE  Good(f, Put(slots, l, e), p)
<1> DEFINE a == Entry(l)
           t == Put(slots, l, e)
           H == HeadsOf(slots)
<1>1. a \in Slot /\ a = At(slots, l)
  BY LocsFacts DEF Good, Entry, At
<1> HIDE DEF a
<1>2. Brought(e) \cap ({Root} \cup {At(slots, m).start : m \in Owners(slots) \ {l}}) = {}
  <2>1. Brought(e) # {} => e.start # FREE /\ Brought(e) = {e.start}
    BY DEF Brought
  <2>2. CASE e.start \notin H
    BY <2>1, <2>2, OwnersFacts
  <2>3. CASE e.start = a.start /\ e.start # FREE
    <3>1. l \in Owners(slots)
      BY <2>3, <1>1, OwnersFacts DEF Owns, Occupied, a
    <3> QED BY <2>1, <2>3, <3>1, <1>1, OwnersFacts DEF Good
  <2> QED BY <2>1, <2>2, <2>3 DEF a
<1>3. At(slots, l).kind # "Directory" /\ e.kind # "Directory" /\ Named(e) = {}
  BY <1>1 DEF Named, a
<1>4. /\ t \in Streams /\ StartsSound(t) /\ StreamsOwned(t, {} \ Named(e))
      /\ HeadsOf(t) \subseteq H \cup Brought(e)
      /\ Owns(slots, l) => HeadsOf(t) \subseteq (H \ {a.start}) \cup Brought(e)
  BY <1>1, <1>2, <1>3, PutSound DEF Good
<1>5. HeadsOf(t) \subseteq (H \ {a.start}) \cup Brought(e)
  <2>1. CASE a.start = FREE
    <3>1. FREE \notin H
      BY HeadsType, ClusterFacts DEF Good
    <3> QED BY <2>1, <3>1, <1>4
  <2>2. CASE a.start # FREE
    BY <2>2, <1>1, <1>4 DEF Owns, Occupied, a
  <2> QED BY <2>1, <2>2
<1>6. LinksSound(f, HeadsOf(t))
  BY <1>5, FewerHeads DEF a
<1>7. OpenSound(t, p)
  BY OpenUpdated DEF Good, Follows
<1>8. StreamsOwned(t, {})
  BY <1>3, <1>4 DEF StreamsOwned
<1> QED
  BY <1>4, <1>6, <1>7, <1>8 DEF Good

\* A growing write or truncation.
LEMMA GrowGood ==
    ASSUME Good(fat, slots, open), NEW l \in Locs(slots), Entry(l).kind = "File",
           NEW end \in Nat, CanWrite(Entry(l), end), GrowChain(Entry(l), end),
           WriteFcb(l, Written(Entry(l), end)),
           open' \in OpenTable, Follows(l, Written(Entry(l), end), open')
    PROVE  Good(fat', slots', open')
<1> DEFINE a == Entry(l)
           n == CeilDiv(end, ClusterSize)
           head == HeadWithCapacity(fat, a.start, n)
           e == Written(a, end)
           H == HeadsOf(slots)
<1>1. a \in Slot /\ a = At(slots, l)
  BY LocsFacts DEF Good, Entry, At
<1>2. H \in SUBSET Cluster /\ a.start \in H \cup {FREE}
  <2>1. a.start # FREE => l \in Owners(slots)
    BY <1>1, OwnersFacts DEF Owns, Occupied
  <2> QED BY <2>1, <1>1, OwnersFacts, HeadsType DEF Good
<1>3. n \in Nat /\ Fits(fat, a.start, n) /\ fat' = WithCapacity(fat, a.start, n)
  BY CeilDivType DEF CanWrite, GrowChain
<1> HIDE DEF n
<1>4. /\ fat' \in [Cluster -> FatEntry] /\ LinksSound(fat', H \cup ({head} \ {FREE}))
      /\ head \in Cluster \cup {FREE}
      /\ head = a.start \/ (a.start = FREE /\ head \notin H \cup {FREE})
  BY <1>2, <1>3, CapacityLinks DEF Good
<1> HIDE DEF head
<1>5. e = [a EXCEPT !.start = head, !.size = IF end > @ THEN end ELSE @]
  BY DEF Written, head, n
<1>6. e \in Slot /\ e.start = head /\ e.kind = "File"
  <2>1. a.size \in Nat /\ (IF end > a.size THEN end ELSE a.size) \in Nat /\ a.kind = "File"
    BY <1>1 DEF Slot
  <2> HIDE DEF e, a
  <2>2. e = [[a EXCEPT !.start = head] EXCEPT !.size = IF end > a.size THEN end ELSE a.size]
    BY <1>1, <1>5 DEF Slot
  <2> QED BY <2>1, <2>2, <1>1, <1>4 DEF Slot
<1>7. slots' = Put(slots, l, e)
  BY DEF WriteFcb, Put
<1> HIDE DEF e
<1>8. Brought(e) = {head} \ {FREE}
  BY <1>6 DEF Brought, Occupied
<1>9. LinksSound(fat', (H \ {a.start}) \cup Brought(e))
  <2>1. (H \ {a.start}) \cup Brought(e) \subseteq H \cup ({head} \ {FREE})
    BY <1>8
  <2> QED BY <2>1, <1>4, FewerHeads
<1> QED
  BY <1>4, <1>6, <1>7, <1>9, RewriteGood DEF e

\* A file that shrinks.
LEMMA ShrinkLinks ==
    ASSUME Good(fat, slots, open), NEW l \in Locs(slots), Entry(l).kind = "File",
           NEW size \in Nat, Shrink(l, size), open' \in OpenTable
    PROVE  LET e == [Entry(l) EXCEPT !.size = size,
                        !.start = IF CeilDiv(size, ClusterSize) = 0 THEN FREE ELSE @]
           IN  /\ e \in Slot /\ e.size = size
               /\ Follows(l, e, open') => Good(fat', slots', open')
<1> DEFINE a == Entry(l)
           n == CeilDiv(size, ClusterSize)
           start == IF n = 0 THEN FREE ELSE a.start
           e == [a EXCEPT !.size = size, !.start = IF n = 0 THEN FREE ELSE @]
           H == HeadsOf(slots)
<1>1. a \in Slot /\ a = At(slots, l)
  BY LocsFacts DEF Good, Entry, At
<1>2. H \in SUBSET Cluster /\ a.start \in H \cup {FREE}
  <2>1. a.start # FREE => l \in Owners(slots)
    BY <1>1, OwnersFacts DEF Owns, Occupied
  <2> QED BY <2>1, <1>1, OwnersFacts, HeadsType DEF Good
<1>3. n \in Nat
  BY CeilDivType
<1>4. /\ fat' = IF n = 0 THEN FreeAll(fat, ToSet(Chain(fat, a.start)))
                ELSE Trimmed(fat, a.start, n)
      /\ slots' = Put(slots, l, e)
  BY DEF Shrink, WriteFcb, Put
<1> HIDE DEF n
<1>5. e \in Slot /\ e.start = start /\ e.kind = "File" /\ e.size = size
  <2>1. a.kind = "File" /\ start \in Cluster \cup {FREE}
    BY <1>1 DEF Slot
  <2>2. e = [[a EXCEPT !.size = size] EXCEPT !.start = start]
    BY <1>1 DEF Slot
  <2> HIDE DEF a, start, e
  <2> QED BY <2>1, <2>2, <1>1 DEF Slot
<1> HIDE DEF e
<1>6. fat' \in [Cluster -> FatEntry] /\ LinksSound(fat', (H \ {a.start}) \cup Brought(e))
  <2>1. CASE n = 0
    <3>1. Brought(e) = {}
      BY <2>1, <1>5 DEF Brought
    <3>2. LinksSound(fat', H \ {a.start})
      BY <2>1, <1>2, <1>4, FreeChainLinks DEF Good
    <3>3. (H \ {a.start}) \cup {} = H \ {a.start}
      OBVIOUS
    <3> QED BY <2>1, <3>1, <3>2, <3>3, <1>4, FreeAllType DEF Good
  <2>2. CASE n # 0
    <3>1. (H \ {a.start}) \cup Brought(e) \subseteq H
      BY <2>2, <1>2, <1>5 DEF Brought
    <3>2. LinksSound(fat', H)
      BY <2>2, <1>2, <1>3, <1>4, TrimmedLinks DEF Good
    <3> QED BY <2>2, <3>1, <3>2, <1>4, TrimmedType, FewerHeads DEF Good
  <2> QED BY <2>1, <2>2
<1>7. e.start \in {FREE, a.start}
  BY <1>5
<1>8. ASSUME Follows(l, e, open')
      PROVE  Good(fat', slots', open')
  BY <1>4, <1>5, <1>6, <1>7, <1>8, RewriteGood
<1> QED
  BY <1>5, <1>8 DEF e, n

\* The handles on an entry are those open at its place.
LEMMA OnPlace ==
    ASSUME NEW l, NEW h \in Handle
    PROVE  h \in HandlesOn(l) <=> open[h] # NoFile /\ Place(open, h) = l
BY DEF HandlesOn, IsOpen, Place

\* Handles on an entry follow it when a path-based call rewrites it; their cursors
\* stay in the file if it did not shrink.
LEMMA RefreshedFollows ==
    ASSUME Good(fat, slots, open), NEW l \in Locs(slots), NEW e \in Slot,
           Entry(l).size <= e.size
    PROVE  Refreshed(l, e) \in OpenTable /\ Follows(l, e, Refreshed(l, e))
<1> DEFINE p == Refreshed(l, e)
           x(h) == [open[h] EXCEPT !.fcb = e]
<1>1. \A h \in Handle : p[h] = IF h \in HandlesOn(l) THEN x(h) ELSE open[h]
  BY DEF Refreshed
<1>2. ASSUME NEW h \in Handle, h \in HandlesOn(l)
      PROVE  /\ x(h) \in OpenFile /\ x(h) # NoFile /\ x(h).fcb = e
             /\ <<x(h).dir, x(h).index>> = l /\ x(h).cursor <= e.size
  <2>1. open[h] \in OpenFile /\ Place(open, h) = l
    BY <1>2, OnPlace DEF Good, OpenTable
  <2>2. /\ x(h) \in OpenFile /\ x(h).fcb = e /\ x(h).dir = open[h].dir
        /\ x(h).index = open[h].index /\ x(h).cursor = open[h].cursor
    BY <2>1 DEF OpenFile
  <2>3. open[h].cursor \in Nat /\ open[h].cursor <= Entry(l).size
    BY <2>1, <1>2, OnPlace DEF Good, OpenSound, At, Entry, OpenFile
  <2>4. Entry(l).size \in Nat /\ e.size \in Nat
    BY LocsFacts DEF Good, At, Entry, Slot
  <2>5. open[h].cursor <= e.size
    BY <2>3, <2>4
  <2> HIDE DEF x
  <2> QED BY <2>1, <2>2, <2>5, NoFileAssumption DEF Place
<1> HIDE DEF x
<1>3. p \in OpenTable
  <2>1. p = [h \in Handle |-> p[h]]
    BY DEF Refreshed
  <2>2. \A h \in Handle : p[h] \in OpenFile \cup {NoFile}
    BY <1>1, <1>2 DEF Good, OpenTable
  <2> HIDE DEF p
  <2> QED BY <2>1, <2>2 DEF OpenTable
<1> HIDE DEF p
<1>4. Follows(l, e, p)
  BY <1>1, <1>2, OnPlace DEF Follows, Place
<1> QED
  BY <1>3, <1>4 DEF p

\* ... and when it shrank the cursors are moved back to its end.
LEMMA ClampedFollows ==
    ASSUME Good(fat, slots, open), NEW l \in Locs(slots), NEW e \in Slot
    PROVE  Clamped(l, e) \in OpenTable /\ Follows(l, e, Clamped(l, e))
<1> DEFINE r == Refreshed(l, e)
           p == Clamped(l, e)
           x(h) == [open[h] EXCEPT !.fcb = e]
           y(h) == [x(h) EXCEPT !.cursor = e.size]
<1>1. \A h \in Handle : p[h] =
        IF h \in HandlesOn(l) THEN IF open[h].cursor > e.size THEN y(h) ELSE x(h)
        ELSE open[h]
  BY DEF Clamped, Refreshed
<1>2. ASSUME NEW h \in Handle, h \in HandlesOn(l)
      PROVE  /\ p[h] \in OpenFile /\ p[h] # NoFile /\ p[h].fcb = e
             /\ <<p[h].dir, p[h].index>> = l /\ p[h].cursor <= e.size
  <2>1. open[h] \in OpenFile /\ Place(open, h) = l
    BY <1>2, OnPlace DEF Good, OpenTable
  <2>2. /\ x(h) \in OpenFile /\ x(h).fcb = e /\ x(h).dir = open[h].dir
        /\ x(h).index = open[h].index /\ x(h).cursor = open[h].cursor
    BY <2>1 DEF OpenFile
  <2>3. e.size \in Nat /\ open[h].cursor \in Nat
    BY <2>1 DEF Slot, OpenFile
  <2> HIDE DEF x
  <2>4. /\ y(h) \in OpenFile /\ y(h).fcb = e /\ y(h).dir = open[h].dir
        /\ y(h).index = open[h].index /\ y(h).cursor = e.size
    BY <2>2, <2>3 DEF OpenFile
  <2> HIDE DEF y, p
  <2>5. CASE open[h].cursor > e.size
    <3>1. p[h] = y(h)
      BY <2>5, <1>1, <1>2
    <3> QED BY <3>1, <2>1, <2>3, <2>4, NoFileAssumption DEF Place
  <2>6. CASE ~ (open[h].cursor > e.size)
    <3>1. p[h] = x(h)
      BY <2>6, <1>1, <1>2
    <3> QED BY <3>1, <2>6, <2>1, <2>2, <2>3, NoFileAssumption DEF Place
  <2> QED BY <2>5, <2>6
<1>3. p \in OpenTable
  <2>1. p = [h \in Handle |-> p[h]]
    BY DEF Clamped
  <2>2. \A h \in Handle : p[h] \in OpenFile \cup {NoFile}
    BY <1>1, <1>2 DEF Good, OpenTable
  <2> HIDE DEF p
  <2> QED BY <2>1, <2>2 DEF OpenTable
<1>4. \A h \in Handle : h \notin HandlesOn(l) => p[h] = open[h]
  BY <1>1
<1> HIDE DEF p
<1>5. Follows(l, e, p)
  BY <1>2, <1>4, OnPlace DEF Follows, Place
<1> QED
  BY <1>3, <1>5 DEF p

\* A write leaves an entry that is no smaller and reaches the end of the write.
LEMMA WrittenFacts ==
    ASSUME NEW a \in Slot, NEW end \in Nat, CanWrite(a, end),
           fat \in [Cluster -> FatEntry]
    PROVE  LET e == Written(a, end)
           IN  /\ e \in Slot /\ e.kind = a.kind /\ a.size <= e.size /\ end <= e.size
               /\ e.start = HeadWithCapacity(fat, a.start, CeilDiv(end, ClusterSize))
               /\ e.size = IF end > a.size THEN end ELSE a.size
<1> DEFINE n == CeilDiv(end, ClusterSize)
           head == HeadWithCapacity(fat, a.start, n)
           e == Written(a, end)
           size == IF end > a.size THEN end ELSE a.size
<1>1. n \in Nat /\ a.start \in Cluster \cup {FREE} /\ Fits(fat, a.start, n)
  BY CeilDivType DEF CanWrite, Slot
<1> HIDE DEF n
<1>2. head \in Cluster \cup {FREE}
  <2> DEFINE S == FreeClusters(fat)
  <2>1. CASE a.start = FREE /\ n > 0
    <3>1. S # {}
      <4>1. SUFFICES ASSUME S = {} PROVE FALSE
        OBVIOUS
      <4>2. Cardinality(S) = 0
        BY <4>1, FS_EmptySet
      <4>3. Missing(fat, a.start, n) = n
        BY <1>1, <2>1, MissingType
      <4> QED BY <4>2, <4>3, <1>1, <2>1 DEF Fits
    <3>2. Min(S) \in Cluster
      BY <3>1, <1>1, <2>1, NewHeadsAre
    <3> QED BY <3>2, <2>1 DEF HeadWithCapacity
  <2>2. CASE ~ (a.start = FREE /\ n > 0)
    BY <2>2, <1>1 DEF HeadWithCapacity
  <2> QED BY <2>1, <2>2
<1>3. e = [[a EXCEPT !.start = head] EXCEPT !.size = size]
  BY DEF Written, n, Slot
<1>4. a.size \in Nat /\ size \in Nat /\ a.size <= size /\ end <= size
  BY DEF Slot
<1> HIDE DEF head, e, size
<1>5. e \in Slot /\ e.kind = a.kind /\ e.start = head /\ e.size = size
  BY <1>2, <1>3, <1>4 DEF Slot
<1> QED
  BY <1>4, <1>5 DEF e, head, n, size

\* write_at grows the file and refreshes every handle on it.
LEMMA WriteAtGood ==
    ASSUME Good(fat, slots, open), NEW l \in Locs(slots), NEW offset \in Nat,
           NEW len \in Nat, WriteAt(l, offset, len)
    PROVE  Good(fat', slots', open')
<1> DEFINE e == Written(Entry(l), offset + len)
<1>1. CASE /\ Entry(l).kind = "File" /\ CanWrite(Entry(l), offset + len)
           /\ GrowChain(Entry(l), offset + len)
           /\ WriteFcb(l, e) /\ open' = Refreshed(l, e)
  <2>1. Entry(l) \in Slot /\ offset + len \in Nat
    BY LocsFacts DEF Good, Entry, At
  <2>2. e \in Slot /\ Entry(l).size <= e.size
    BY <1>1, <2>1, WrittenFacts DEF Good
  <2>3. open' \in OpenTable /\ Follows(l, e, open')
    BY <1>1, <2>2, RefreshedFollows
  <2> QED BY <1>1, <2>1, <2>3, GrowGood
<1> QED
  BY <1>1, FailGood DEF WriteAt

\* write_handle grows the file and refreshes its own handle, the only one.
LEMMA WriteHandleGood ==
    ASSUME Good(fat, slots, open), NEW h \in Handle, NEW len \in Nat, WriteHandle(h, len)
    PROVE  Good(fat', slots', open')
<1> DEFINE l == LocOf(h)
           end == open[h].cursor + len
           e == Written(Entry(l), end)
<1>1. CASE /\ IsOpen(h) /\ CanWrite(Entry(l), end) /\ GrowChain(Entry(l), end)
           /\ WriteFcb(l, e)
           /\ open' = [open EXCEPT ![h].cursor = end, ![h].fcb = e]
  <2>1. /\ open[h] \in OpenFile /\ l \in Locs(slots) /\ Entry(l).kind = "File"
        /\ Entry(l) \in Slot /\ open[h].cursor \in Nat /\ end \in Nat
    BY <1>1, OpenTypes
  <2>2. e \in Slot /\ end <= e.size
    BY <1>1, <2>1, WrittenFacts DEF Good
  <2> DEFINE x == [[open[h] EXCEPT !.cursor = end] EXCEPT !.fcb = e]
  <2>3. Place(open, h) = l
    BY DEF Place, LocOf
  <2> HIDE DEF e, end, l
  <2>4. /\ x \in OpenFile /\ x.cursor = end /\ x.fcb = e
        /\ x.dir = open[h].dir /\ x.index = open[h].index
    BY <2>1, <2>2 DEF OpenFile
  <2>5. open' = [open EXCEPT ![h] = x]
    BY <1>1, <2>1 DEF e, end, l, Good, OpenTable
  <2> HIDE DEF x
  <2>6. \A g \in Handle : open'[g] = IF g = h THEN x ELSE open[g]
    BY <2>5 DEF Good, OpenTable
  <2>7. open' \in OpenTable
    BY <2>4, <2>5 DEF Good, OpenTable
  <2>8. \A g \in Handle : open[g] # NoFile /\ Place(open, g) = l => g = h
    BY <1>1, <2>3 DEF Good, OpenSound, IsOpen
  <2>9. Place(open', h) = l /\ x # NoFile /\ open[h] # NoFile
    BY <1>1, <2>3, <2>4, <2>6, NoFileAssumption DEF Place, IsOpen
  <2>10. Follows(l, e, open')
    BY <2>2, <2>3, <2>4, <2>6, <2>8, <2>9 DEF Follows
  <2> QED BY <1>1, <2>1, <2>7, <2>10, GrowGood DEF e, end, l
<1> QED
  BY <1>1, FailGood DEF WriteHandle

\* truncate grows, shrinks or leaves the file, and its handles follow.
LEMMA TruncateGood ==
    ASSUME Good(fat, slots, open), NEW l \in Locs(slots), NEW size \in Nat,
           Truncate(l, size) \/ Resize(l, size)
    PROVE  Good(fat', slots', open')
<1> DEFINE e == Written(Entry(l), size)
<1>1. CASE UNCHANGED <<fat, slots, open>>
  BY <1>1
<1>2. CASE /\ Entry(l).kind = "File" /\ CanWrite(Entry(l), size)
           /\ GrowChain(Entry(l), size) /\ WriteFcb(l, e) /\ open' = Refreshed(l, e)
  <2>1. Entry(l) \in Slot
    BY LocsFacts DEF Good, Entry, At
  <2>2. e \in Slot /\ Entry(l).size <= e.size
    BY <1>2, <2>1, WrittenFacts DEF Good
  <2>3. open' \in OpenTable /\ Follows(l, e, open')
    BY <1>2, <2>2, RefreshedFollows
  <2> QED BY <1>2, <2>1, <2>3, GrowGood
<1>3. CASE Entry(l).kind = "File" /\ Shrink(l, size)
  <2> DEFINE fcb == [Entry(l) EXCEPT !.size = size,
                        !.start = IF CeilDiv(size, ClusterSize) = 0 THEN FREE ELSE @]
  <2>1. open' = Clamped(l, fcb)
    BY <1>3 DEF Shrink
  <2>2. fcb \in Slot
    <3>1. Entry(l) \in Slot
      BY LocsFacts DEF Good, Entry, At
    <3> DEFINE start == IF CeilDiv(size, ClusterSize) = 0 THEN FREE ELSE Entry(l).start
    <3>2. start \in Cluster \cup {FREE}
      BY <3>1 DEF Slot
    <3>3. fcb = [[Entry(l) EXCEPT !.size = size] EXCEPT !.start = start]
      BY <3>1 DEF Slot
    <3> HIDE DEF start, fcb
    <3> QED BY <3>1, <3>2, <3>3 DEF Slot
  <2> HIDE DEF fcb
  <2>3. open' \in OpenTable /\ Follows(l, fcb, open')
    BY <2>1, <2>2, ClampedFollows
  <2> QED BY <2>3, <1>3, ShrinkLinks DEF fcb
<1> QED
  BY <1>1, <1>2, <1>3 DEF Truncate, Resize, Fail

\* truncate_handle is truncate at the place of the handle.
LEMMA TruncateHandleGood ==
    ASSUME Good(fat, slots, open), NEW h \in Handle, NEW size \in Nat,
           TruncateHandle(h, size)
    PROVE  Good(fat', slots', open')
<1>1. CASE IsOpen(h) /\ Truncate(LocOf(h), size)
  BY <1>1, OpenTypes, TruncateGood
<1> QED
  BY <1>1, FailGood DEF TruncateHandle

-----------------------------------------------------------------------------
(* Whole chains.  Sound links make sound chains: a walk from a head never  *)
(* comes back to a cluster, since each is led to by one link and the head  *)
(* by none, so it runs out of clusters and ends in EOC.                    *)

\* A walk from a head comes to no cluster twice.
LEMMA WalkInjective ==
    ASSUME NEW f \in [Cluster -> FatEntry], NEW H \in SUBSET Cluster, LinksSound(f, H),
           NEW h \in H, NEW i \in 0..MaxCluster, NEW j \in 0..MaxCluster, i < j,
           Walk(f, h)[j] \in Cluster
    PROVE  Walk(f, h)[i] # Walk(f, h)[j]
<1> DEFINE W == Walk(f, h)
           Bad == {a \in 0..MaxCluster : \E b \in 0..MaxCluster :
                     a < b /\ W[b] \in Cluster /\ W[a] = W[b]}
<1>0. MaxCluster \in Nat /\ h \in FatEntry
  BY GeometryAssumption, TableAssumption DEF FatEntry
<1>1. /\ W \in [0..MaxCluster -> FatEntry] /\ W[0] = h
      /\ \A k \in 1..MaxCluster : W[k] = Follow(f)[W[k - 1]]
  BY <1>0, WalkFacts
<1> HIDE DEF W
<1>2. ASSUME NEW k \in 1..MaxCluster, W[k] \in Cluster
      PROVE  W[k - 1] \in Cluster /\ f[W[k - 1]] = W[k]
  <2>1. k - 1 \in 0..MaxCluster
    BY <1>0
  <2> QED BY <2>1, <1>1, <1>2 DEF Follow
<1>3. Bad = {}
  <2>1. SUFFICES ASSUME Bad # {} PROVE FALSE
    OBVIOUS
  <2>2. PICK a \in Bad : \A x \in Bad : a <= x
    <3>1. Bad \in SUBSET Nat
      BY <1>0
    <3> HIDE DEF Bad
    <3> QED BY <2>1, <3>1, MinIsLeast
  <2>3. PICK b \in 0..MaxCluster : a < b /\ W[b] \in Cluster /\ W[a] = W[b]
    BY <2>2
  <2>4. b \in 1..MaxCluster /\ b - 1 \in 0..MaxCluster
    BY <2>2, <2>3, <1>0
  <2>5. W[b - 1] \in Cluster /\ f[W[b - 1]] = W[b]
    BY <2>3, <2>4, <1>2
  <2>6. CASE a = 0
    BY <2>3, <2>5, <2>6, <1>1 DEF LinksSound
  <2>7. CASE a # 0
    <3>1. a \in 1..MaxCluster /\ a - 1 \in 0..MaxCluster /\ a - 1 < b - 1 /\ ~ (a <= a - 1)
      BY <2>2, <2>3, <2>7, <1>0
    <3>2. W[a - 1] \in Cluster /\ f[W[a - 1]] = W[a]
      BY <2>3, <3>1, <1>2
    <3>3. W[a - 1] = W[b - 1]
      BY <2>3, <2>5, <3>2 DEF LinksSound
    <3>4. a - 1 \in Bad
      BY <2>4, <2>5, <3>1, <3>3
    <3> QED BY <2>2, <3>1, <3>4
  <2> QED BY <2>6, <2>7
<1> QED
  BY <1>3 DEF W

\* A walk from a head leaves the clusters before it has taken as many steps as there are
\* clusters.
LEMMA WalkLeaves ==
    ASSUME NEW f \in [Cluster -> FatEntry], NEW H \in SUBSET Cluster, LinksSound(f, H),
           NEW h \in H
    PROVE  WalkLen(f, h) \in 1..MaxCluster
<1> DEFINE W == Walk(f, h)
           n == WalkLen(f, h)
<1>0. MaxCluster \in Nat /\ MaxCluster >= 2 /\ h \in FatEntry
  BY GeometryAssumption, TableAssumption DEF FatEntry, Root
<1>1. W \in [0..MaxCluster -> FatEntry] /\ W[0] = h
  BY <1>0, WalkFacts
<1>2. n \in 0..(MaxCluster + 1)
  BY WalkLenType
<1>3. \A k \in 0..MaxCluster : k < n <=> W[k] \in Cluster
  BY <1>0, WalkPrefix
<1>4. \A i, j \in 0..MaxCluster : i < j /\ W[j] \in Cluster => W[i] # W[j]
  BY WalkInjective
<1> HIDE DEF W, n
<1>5. n <= MaxCluster
  <2>1. SUFFICES ASSUME n = MaxCluster + 1 PROVE FALSE
    BY <1>0, <1>2
  <2>2. \A k \in 0..MaxCluster : W[k] \in Cluster
    BY <2>1, <1>0, <1>3
  <2> DEFINE Steps == 0..MaxCluster
  <2>3. W \in [Steps -> Cluster]
    BY <2>2, <1>1
  <2>4. /\ IsFiniteSet(Steps) /\ Cardinality(Steps) = MaxCluster + 1
        /\ IsFiniteSet(Cluster) /\ Cardinality(Cluster) = MaxCluster - 1
    <3>1. 0 \in Int /\ 2 \in Int /\ MaxCluster \in Int /\ Cluster = 2..MaxCluster
      BY <1>0 DEF Cluster, Root
    <3>2. /\ IsFiniteSet(0..MaxCluster) /\ IsFiniteSet(2..MaxCluster)
          /\ Cardinality(0..MaxCluster) = IF 0 > MaxCluster THEN 0 ELSE MaxCluster - 0 + 1
          /\ Cardinality(2..MaxCluster) = IF 2 > MaxCluster THEN 0 ELSE MaxCluster - 2 + 1
      BY <3>1, FS_Interval
    <3> QED BY <3>1, <3>2, <1>0
  <2>5. Cardinality(Steps) > Cardinality(Cluster)
    BY <2>4, <1>0
  <2>6. PICK i \in Steps, j \in Steps : i # j /\ W[i] = W[j]
    <3> HIDE DEF Steps
    <3> QED BY <2>3, <2>4, <2>5, FS_PigeonHole
  <2>7. i < j \/ j < i
    BY <2>6, <1>0
  <2> QED BY <2>2, <2>6, <2>7, <1>4
<1>6. n >= 1
  BY <1>0, <1>1, <1>2, <1>3
<1> QED
  BY <1>0, <1>2, <1>5, <1>6 DEF n

\* The chain of a head ends in EOC.
LEMMA ChainEnds ==
    ASSUME NEW f \in [Cluster -> FatEntry], NEW H \in SUBSET Cluster, LinksSound(f, H),
           NEW h \in H
    PROVE  f[Last(Chain(f, h))] = EOC
<1> DEFINE W == Walk(f, h)
           n == WalkLen(f, h)
<1>0. MaxCluster \in Nat /\ MaxCluster >= 2 /\ h \in FatEntry
  BY GeometryAssumption, TableAssumption DEF FatEntry, Root
<1>1. /\ W \in [0..MaxCluster -> FatEntry] /\ W[0] = h
      /\ \A k \in 1..MaxCluster : W[k] = Follow(f)[W[k - 1]]
  BY <1>0, WalkFacts
<1>2. n \in 0..(MaxCluster + 1) /\ Chain(f, h) = [i \in 1..n |-> W[i - 1]]
  BY WalkLenType, ChainIsWalk
<1>3. \A k \in 0..MaxCluster : k < n <=> W[k] \in Cluster
  BY <1>0, WalkPrefix
<1> HIDE DEF W, n
<1>4. n \in 1..MaxCluster
  BY WalkLeaves DEF n
<1>5. n \in 1..MaxCluster /\ n - 1 \in 0..MaxCluster /\ n \in 0..MaxCluster /\ n - 1 < n
      /\ ~ (n < n)
  BY <1>0, <1>4
<1>6. W[n - 1] \in Cluster /\ W[n] \notin Cluster
  BY <1>3, <1>5
<1>7. f[W[n - 1]] \in {FREE, EOC}
  <2>1. W[n] = f[W[n - 1]]
    BY <1>1, <1>5, <1>6 DEF Follow
  <2> QED BY <2>1, <1>6 DEF FatEntry
<1>8. f[W[n - 1]] # FREE
  <2>1. CASE n = 1
    BY <2>1, <1>1 DEF LinksSound
  <2>2. CASE n # 1
    <3>1. n - 1 \in 1..MaxCluster /\ n - 2 \in 0..MaxCluster /\ (n - 1) - 1 = n - 2
          /\ n - 2 < n
      BY <2>2, <1>0, <1>5
    <3>2. W[n - 2] \in Cluster /\ W[n - 1] = f[W[n - 2]]
      BY <3>1, <1>1, <1>3 DEF Follow
    <3> QED BY <3>2, <1>6 DEF LinksSound
  <2> QED BY <2>1, <2>2
<1>9. Last(Chain(f, h)) = W[n - 1]
  <2>1. Len(Chain(f, h)) = n /\ Chain(f, h)[n] = W[n - 1]
    BY <1>2, <1>5
  <2> QED BY <2>1 DEF Last
<1> QED
  BY <1>7, <1>8, <1>9

\* The chains of two heads have no cluster in common.
LEMMA ChainsDisjoint ==
    ASSUME NEW f \in [Cluster -> FatEntry], NEW H \in SUBSET Cluster, LinksSound(f, H),
           NEW g \in H, NEW h \in H, g # h
    PROVE  ToSet(Chain(f, g)) \cap ToSet(Chain(f, h)) = {}
<1> DEFINE s == Chain(f, g)
           T == ToSet(Chain(f, h))
           n == WalkLen(f, g)
           Bad == {i \in 1..n : s[i] \in T}
<1>0. MaxCluster \in Nat /\ g \in FatEntry
  BY GeometryAssumption, TableAssumption DEF FatEntry
<1>1. n \in 0..(MaxCluster + 1) /\ s = [i \in 1..n |-> Walk(f, g)[i - 1]]
  BY WalkLenType, ChainIsWalk
<1>2. \A k \in 0..MaxCluster : k < n <=> Walk(f, g)[k] \in Cluster
  BY <1>0, WalkPrefix
<1>3. \A i \in 1..n : s[i] \in Cluster
  <2>1. ASSUME NEW i \in 1..n
        PROVE  i - 1 \in 0..MaxCluster /\ i - 1 < n /\ s[i] = Walk(f, g)[i - 1]
    BY <1>0, <1>1
  <2> QED BY <2>1, <1>2
<1>4. s[1] = g /\ \A i \in 2..n : s[i - 1] \in Cluster /\ f[s[i - 1]] = s[i]
  <2>1. Len(s) = n
    BY <1>1
  <2>2. g # FREE /\ g \in Cluster \cup {FREE}
    BY ClusterFacts
  <2>3. /\ s[1] = g
        /\ \A i \in 2..Len(s) : s[i] \in Cluster =>
              s[i - 1] \in Cluster /\ f[s[i - 1]] = s[i]
    BY <2>2, ChainFacts
  <2>4. \A i \in 2..n : i \in 1..n
    BY <1>1
  <2> HIDE DEF s, n
  <2> QED BY <2>1, <2>3, <2>4, <1>3
<1>5. \A x \in T \cap Cluster : x # h => \E b \in T \cap Cluster : f[b] = x
  BY ChainLinked
<1> HIDE DEF s, n, T
<1>6. Bad = {}
  <2>1. SUFFICES ASSUME Bad # {} PROVE FALSE
    OBVIOUS
  <2>2. PICK i \in Bad : \A x \in Bad : i <= x
    <3>1. Bad \in SUBSET Nat
      BY <1>1
    <3> HIDE DEF Bad
    <3> QED BY <2>1, <3>1, MinIsLeast
  <2>3. CASE i = 1
    BY <2>2, <2>3, <1>4, <1>5 DEF LinksSound
  <2>4. CASE i # 1
    <3>1. i \in 2..n /\ i - 1 \in 1..n /\ ~ (i <= i - 1)
      BY <2>2, <2>4, <1>1
    <3>2. s[i - 1] \in Cluster /\ f[s[i - 1]] = s[i] /\ s[i] \in T \cap Cluster
      BY <2>2, <3>1, <1>3, <1>4
    <3>3. s[i] # h
      BY <3>2 DEF LinksSound
    <3>4. PICK b \in T \cap Cluster : f[b] = s[i]
      BY <3>2, <3>3, <1>5
    <3>5. b = s[i - 1]
      BY <3>2, <3>4 DEF LinksSound
    <3>6. i - 1 \in Bad
      BY <3>1, <3>4, <3>5
    <3> QED BY <2>2, <3>1, <3>6
  <2> QED BY <2>3, <2>4
<1>7. ToSet(s) = {s[i] : i \in 1..n}
  BY <1>1 DEF ToSet, s
<1> QED
  BY <1>6, <1>7 DEF s, T
-----------------------------------------------------------------------------
(* Chains as sets of clusters: the chain of a head is the least set that   *)
(* has the head and is closed under the links.  What allocation, trimming  *)
(* and freeing make of each chain.                                         *)

\* The chain of a head: it starts there, goes from link to link over different clusters,
\* and ends in EOC.
LEMMA ChainShape ==
    ASSUME NEW f \in [Cluster -> FatEntry], NEW H \in SUBSET Cluster, LinksSound(f, H),
           NEW h \in H
    PROVE  LET s == Chain(f, h)
               n == Len(s)
           IN  /\ n \in 1..MaxCluster /\ DOMAIN s = 1..n
               /\ s \in Seq(Cluster) /\ s[1] = h
               /\ \A i \in 1..(n - 1) : f[s[i]] = s[i + 1]
               /\ f[s[n]] = EOC
               /\ \A i, j \in 1..n : s[i] = s[j] => i = j
<1> DEFINE W == Walk(f, h)
           s == Chain(f, h)
           n == WalkLen(f, h)
<1>0. MaxCluster \in Nat /\ MaxCluster >= 2 /\ h \in FatEntry
  BY GeometryAssumption, TableAssumption DEF FatEntry, Root
<1>1. /\ W \in [0..MaxCluster -> FatEntry] /\ W[0] = h
      /\ \A k \in 1..MaxCluster : W[k] = Follow(f)[W[k - 1]]
  BY <1>0, WalkFacts
<1>2. n \in 1..MaxCluster /\ s = [i \in 1..n |-> W[i - 1]]
  BY WalkLeaves, ChainIsWalk
<1>3. \A k \in 0..MaxCluster : k < n <=> W[k] \in Cluster
  BY <1>0, WalkPrefix
<1>4. \A i, j \in 0..MaxCluster : i < j /\ W[j] \in Cluster => W[i] # W[j]
  BY WalkInjective
<1>5. f[Last(s)] = EOC
  BY ChainEnds
<1> HIDE DEF W, n, s
<1>6. \A i \in 1..n : i - 1 \in 0..MaxCluster
         /\ i - 1 < n /\ s[i] = W[i - 1] /\ s[i] \in Cluster
  <2> SUFFICES ASSUME NEW i \in 1..n
               PROVE  i - 1 \in 0..MaxCluster
                  /\ i - 1 < n /\ s[i] = W[i - 1] /\ s[i] \in Cluster
    OBVIOUS
  <2>1. i - 1 \in 0..MaxCluster /\ i - 1 < n
    BY <1>0, <1>2
  <2> QED BY <2>1, <1>2, <1>3
<1>7. Len(s) = n /\ DOMAIN s = 1..n /\ s \in Seq(Cluster) /\ s[1] = h
  BY <1>1, <1>2, <1>6
<1>8. ASSUME NEW i \in 1..(n - 1)
      PROVE  f[s[i]] = s[i + 1]
  <2>1. i \in 1..MaxCluster /\ i \in 1..n /\ i + 1 \in 1..n /\ (i + 1) - 1 = i
    BY <1>0, <1>2
  <2>2. W[i] = Follow(f)[W[i - 1]] /\ s[i] = W[i - 1] /\ s[i] \in Cluster /\ s[i + 1] = W[i]
    BY <2>1, <1>1, <1>6
  <2> QED BY <2>2 DEF Follow, FatEntry
<1>9. ASSUME NEW i \in 1..n, NEW j \in 1..n, s[i] = s[j]
      PROVE  i = j
  <2>1. i - 1 < j - 1 \/ j - 1 < i - 1 \/ i = j
    BY <1>2
  <2> QED BY <2>1, <1>4, <1>6, <1>9
<1>10. f[s[n]] = EOC
  BY <1>5, <1>7 DEF Last
<1> QED
  BY <1>2, <1>7, <1>8, <1>9, <1>10 DEF s

\* The clusters of the chain from h.
Clusters(f, h) == ToSet(Chain(f, h))

\* They are as many as the chain is long.
LEMMA ChainCount ==
    ASSUME NEW f \in [Cluster -> FatEntry], NEW H \in SUBSET Cluster, LinksSound(f, H),
           NEW h \in H
    PROVE  Len(Chain(f, h)) = Cardinality(Clusters(f, h))
<1> DEFINE s == Chain(f, h)
           n == Len(s)
<1>1. /\ n \in 1..MaxCluster /\ DOMAIN s = 1..n /\ s \in Seq(Cluster)
      /\ \A i, j \in 1..n : s[i] = s[j] => i = j
  BY ChainShape
<1>2. Clusters(f, h) = {s[i] : i \in 1..n}
  BY <1>1 DEF Clusters, ToSet
<1> HIDE DEF s
<1>3. s \in Bijection(1..n, {s[i] : i \in 1..n})
  <2>1. s \in [1..n -> {s[i] : i \in 1..n}]
    BY <1>1
  <2>2. s \in Injection(1..n, {s[i] : i \in 1..n})
    BY <2>1, <1>1 DEF Injection, IsInjective
  <2>3. s \in Surjection(1..n, {s[i] : i \in 1..n})
    BY <2>1 DEF Surjection
  <2> QED BY <2>2, <2>3 DEF Bijection
<1>4. IsFiniteSet(1..n) /\ Cardinality(1..n) = n
  <2>1. 1 \in Int /\ n \in Int /\ n >= 1
    BY <1>1
  <2>2. IsFiniteSet(1..n) /\ Cardinality(1..n) = IF 1 > n THEN 0 ELSE n - 1 + 1
    BY <2>1, FS_Interval
  <2> QED BY <2>1, <2>2
<1>5. Cardinality({s[i] : i \in 1..n}) = n
  <2> DEFINE S == 1..n
             T == {s[i] : i \in 1..n}
  <2>1. ExistsBijection(S, T) /\ IsFiniteSet(S) /\ Cardinality(S) = n
    BY <1>3, <1>4 DEF ExistsBijection
  <2> HIDE DEF S, T
  <2>2. Cardinality(T) = n
    BY <2>1, FS_Bijection
  <2> QED BY <2>2 DEF T
<1> QED
  BY <1>2, <1>5 DEF s

\* They are closed under the links, ...
LEMMA ChainClosed ==
    ASSUME NEW f \in [Cluster -> FatEntry], NEW H \in SUBSET Cluster, LinksSound(f, H),
           NEW h \in H
    PROVE  /\ h \in Clusters(f, h) /\ Clusters(f, h) \subseteq Cluster
           /\ \A x \in Clusters(f, h) : f[x] \in Clusters(f, h) \cup {EOC}
<1> DEFINE s == Chain(f, h)
           n == Len(s)
<1>0. MaxCluster \in Nat
  BY TableAssumption
<1>1. /\ n \in 1..MaxCluster /\ DOMAIN s = 1..n /\ s \in Seq(Cluster) /\ s[1] = h
      /\ \A i \in 1..(n - 1) : f[s[i]] = s[i + 1]
      /\ f[s[n]] = EOC
  BY ChainShape
<1>2. Clusters(f, h) = {s[i] : i \in 1..n}
  BY <1>1 DEF Clusters, ToSet
<1> HIDE DEF s, n
<1>3. \A i \in 1..n : s[i] \in Cluster
  BY <1>1
<1>4. ASSUME NEW i \in 1..n
      PROVE  f[s[i]] \in Clusters(f, h) \cup {EOC}
  <2>1. CASE i = n
    BY <2>1, <1>1
  <2>2. CASE i # n
    <3>1. i \in 1..(n - 1) /\ i + 1 \in 1..n
      BY <2>2, <1>0, <1>1
    <3> QED BY <3>1, <1>1, <1>2
  <2> QED BY <2>1, <2>2
<1>5. h \in Clusters(f, h)
  BY <1>1, <1>2
<1> QED
  BY <1>2, <1>3, <1>4, <1>5

\* ... and they are in every set that has the head and is closed under the links.
LEMMA ChainLeast ==
    ASSUME NEW f \in [Cluster -> FatEntry], NEW H \in SUBSET Cluster, LinksSound(f, H),
           NEW h \in H, NEW X, h \in X,
           \A x \in X \cap Cluster : f[x] \in Cluster => f[x] \in X
    PROVE  Clusters(f, h) \subseteq X
<1> DEFINE s == Chain(f, h)
           n == Len(s)
           Bad == {i \in 1..n : s[i] \notin X}
<1>1. /\ n \in 1..MaxCluster /\ DOMAIN s = 1..n /\ s \in Seq(Cluster) /\ s[1] = h
      /\ \A i \in 1..(n - 1) : f[s[i]] = s[i + 1]
  BY ChainShape
<1>2. Clusters(f, h) = {s[i] : i \in 1..n}
  BY <1>1 DEF Clusters, ToSet
<1> HIDE DEF s
<1>3. Bad = {}
  <2>1. SUFFICES ASSUME Bad # {} PROVE FALSE
    OBVIOUS
  <2>2. PICK b \in Bad : \A i \in Bad : b <= i
    <3>1. Bad \in SUBSET Nat
      BY <1>1
    <3> HIDE DEF Bad
    <3> QED BY <2>1, <3>1, MinIsLeast
  <2>3. b # 1
    BY <2>2, <1>1
  <2>4. b - 1 \in 1..(n - 1) /\ b - 1 \in 1..n /\ (b - 1) + 1 = b /\ ~ (b <= b - 1)
    BY <2>2, <2>3, <1>1
  <2>5. s[b - 1] \in X \cap Cluster /\ s[b] \in Cluster
    BY <2>2, <2>4, <1>1
  <2>6. f[s[b - 1]] = s[b]
    BY <2>4, <1>1
  <2> QED BY <2>2, <2>5, <2>6
<1> QED
  BY <1>2, <1>3

\* A chain depends on the entries of its own clusters only.
LEMMA ChainSame ==
    ASSUME NEW f \in [Cluster -> FatEntry], NEW g \in [Cluster -> FatEntry],
           NEW h \in FatEntry, \A x \in Clusters(f, h) \cap Cluster : g[x] = f[x]
    PROVE  Chain(g, h) = Chain(f, h)
BY ChainLocal DEF Clusters

\* No cluster of a sound chain is free.
LEMMA ChainTaken ==
    ASSUME NEW f \in [Cluster -> FatEntry], NEW H \in SUBSET Cluster, LinksSound(f, H),
           NEW h \in H, NEW x \in Clusters(f, h)
    PROVE  f[x] # FREE
BY ChainClosed, ClusterFacts

\* Allocation leaves the chains of other heads alone.
LEMMA ExtendOthers ==
    ASSUME NEW f \in [Cluster -> FatEntry], NEW H \in SUBSET Cluster, LinksSound(f, H),
           NEW h \in H \cup {FREE}, NEW n, NEW c \in H, c # h
    PROVE  Chain(Extend(f, h, n), c) = Chain(f, c)
<1> DEFINE new == Lowest(n, FreeClusters(f))
           g == Extend(f, h, n)
<1>1. \A x \in new : f[x] = FREE
  BY DEF Lowest, FreeClusters
<1>2. \A x \in Cluster : x \notin new /\ ~ (h # FREE /\ x = Last(Chain(f, h)))
                         => g[x] = f[x]
  BY DEF Extend
<1>3. h # FREE => Last(Chain(f, h)) \in Clusters(f, h)
  <2>1. CASE h # FREE
    <3>1. /\ Len(Chain(f, h)) \in 1..MaxCluster
          /\ DOMAIN Chain(f, h) = 1..Len(Chain(f, h))
      BY <2>1, ChainShape
    <3>2. Len(Chain(f, h)) \in DOMAIN Chain(f, h)
      BY <3>1
    <3> QED BY <3>2 DEF Clusters, ToSet, Last
  <2> QED BY <2>1
<1>4. h # FREE => Clusters(f, c) \cap Clusters(f, h) = {}
  BY ChainsDisjoint DEF Clusters
<1>5. g \in [Cluster -> FatEntry]
  BY ExtendType
<1> HIDE DEF g, new
<1>6. \A x \in Clusters(f, c) \cap Cluster : g[x] = f[x]
  BY <1>1, <1>2, <1>3, <1>4, ChainTaken
<1>7. c \in FatEntry
  BY DEF FatEntry
<1> QED
  BY <1>5, <1>6, <1>7, ChainSame DEF g

\* What allocate_clusters links is in a chain as soon as its first cluster is.
LEMMA NewLinked ==
    ASSUME NEW f \in [Cluster -> FatEntry], NEW h, NEW n, NEW Y,
           LET new == Lowest(n, FreeClusters(f))
           IN  new # {} => Min(new) \in Y,
           \A y \in Y \cap Cluster :
              Extend(f, h, n)[y] \in Cluster => Extend(f, h, n)[y] \in Y
    PROVE  Lowest(n, FreeClusters(f)) \subseteq Y
<1> DEFINE new == Lowest(n, FreeClusters(f))
           After(c) == {x \in new : x > c}
           g == Extend(f, h, n)
           Bad == {x \in new : x \notin Y}
<1>1. new \in SUBSET Cluster
  BY DEF Lowest, FreeClusters
<1>2. \A c \in new : After(c) # {} => g[c] = Min(After(c))
  BY <1>1 DEF Extend
<1> HIDE DEF new, g
<1>3. Bad = {}
  <2>1. SUFFICES ASSUME Bad # {} PROVE FALSE
    OBVIOUS
  <2>2. PICK b \in Bad : \A x \in Bad : b <= x
    <3>1. Bad \in SUBSET Nat
      BY <1>1, ClusterFacts
    <3> HIDE DEF Bad
    <3> QED BY <2>1, <3>1, MinIsLeast
  <2> DEFINE P == {y \in new : y < b}
  <2>3. P # {}
    <3>1. SUFFICES ASSUME P = {} PROVE FALSE
      OBVIOUS
    <3>2. new \in SUBSET Nat /\ new # {}
      BY <2>2, <1>1, ClusterFacts
    <3>3. Min(new) \in new /\ Min(new) <= b
      BY <3>2, <2>2, MinIsLeast
    <3>4. Min(new) \in Nat /\ b \in Nat
      BY <3>2, <3>3, <2>2
    <3>5. ~ (Min(new) < b)
      BY <3>1, <3>3
    <3>6. Min(new) = b
      BY <3>3, <3>4, <3>5
    <3> QED BY <3>2, <3>6, <2>2 DEF new
  <2>4. PICK p \in P : \A q \in P : q <= p
    <3>1. P \in SUBSET Cluster
      BY <1>1
    <3> HIDE DEF P
    <3> QED BY <2>3, <3>1, Greatest
  <2>5. p \in new /\ p \in Nat /\ b \in new /\ b \in Nat
           /\ p < b /\ b \in Cluster /\ p \in Cluster
    BY <2>2, <2>4, <1>1, ClusterFacts
  <2>6. b \in After(p)
    BY <2>5
  <2>7. Min(After(p)) = b
    <3>1. After(p) \in SUBSET Nat
      BY <1>1, ClusterFacts
    <3>2. Min(After(p)) \in After(p) /\ \A x \in After(p) : Min(After(p)) <= x
      <4> HIDE DEF After
      <4> QED BY <2>6, <3>1, MinIsLeast
    <3>3. ~ (Min(After(p)) < b)
      <4>1. SUFFICES ASSUME Min(After(p)) < b PROVE FALSE
        OBVIOUS
      <4>2. Min(After(p)) \in P /\ Min(After(p)) > p
        BY <3>2, <4>1
      <4>3. Min(After(p)) <= p
        BY <4>2, <2>4
      <4> QED BY <4>2, <4>3, <3>1, <3>2, <2>5
    <3>4. Min(After(p)) \in Nat /\ Min(After(p)) <= b
      BY <3>1, <3>2, <2>6
    <3> QED BY <3>3, <3>4, <2>5
  <2>8. g[p] = b
    BY <2>5, <2>6, <2>7, <1>2
  <2>9. p \in Y
    <3>1. ~ (b <= p)
      BY <2>5
    <3> QED BY <3>1, <2>2, <2>5
  <2>11. b \in Y
    BY <2>5, <2>8, <2>9 DEF g
  <2> QED BY <2>2, <2>11
<1> QED
  BY <1>3 DEF new

\* Nothing follows FREE.
LEMMA NoClusters ==
    ASSUME NEW f \in [Cluster -> FatEntry]
    PROVE  Chain(f, FREE) = <<>> /\ Len(Chain(f, FREE)) = 0 /\ Clusters(f, FREE) = {}
<1>1. Chain(f, FREE) = <<>>
  BY ChainFacts
<1> QED
  BY <1>1 DEF Clusters, ToSet

\* Allocation hangs the new clusters, and no other, on the end of a chain.
LEMMA ExtendClusters ==
    ASSUME NEW f \in [Cluster -> FatEntry], NEW H \in SUBSET Cluster, LinksSound(f, H),
           NEW h \in H, NEW n
    PROVE  Clusters(Extend(f, h, n), h) = Clusters(f, h) \cup Lowest(n, FreeClusters(f))
<1> DEFINE new == Lowest(n, FreeClusters(f))
           After(c) == {x \in new : x > c}
           g == Extend(f, h, n)
           C == Clusters(f, h)
           Y == Clusters(g, h)
           last == Last(Chain(f, h))
<1>1. h # FREE /\ h \in Cluster
  BY ClusterFacts
<1>2. new \subseteq Cluster /\ \A x \in new : f[x] = FREE
  BY DEF Lowest, FreeClusters
<1>3. /\ g \in [Cluster -> FatEntry]
      /\ \A c \in Cluster : g[c] =
            IF c \in new THEN IF After(c) = {} THEN EOC ELSE Min(After(c))
            ELSE IF new # {} /\ c = last THEN Min(new)
            ELSE f[c]
  <2>1. g \in [Cluster -> FatEntry]
    BY ExtendType
  <2> QED BY <2>1, <1>1 DEF Extend
<1>4. LinksSound(g, H)
  <2>1. LinksSound(g, H \cup NewHeads(f, h, n))
    BY ExtendLinks
  <2> QED BY <2>1, <1>1 DEF NewHeads
<1>5. h \in C /\ C \subseteq Cluster /\ \A x \in C : f[x] \in C \cup {EOC}
  BY ChainClosed
<1>6. last \in C /\ f[last] = EOC
  <2>1. /\ Len(Chain(f, h)) \in 1..MaxCluster
        /\ DOMAIN Chain(f, h) = 1..Len(Chain(f, h))
        /\ f[Chain(f, h)[Len(Chain(f, h))]] = EOC
    BY ChainShape
  <2>2. Len(Chain(f, h)) \in DOMAIN Chain(f, h)
    BY <2>1
  <2> QED BY <2>1, <2>2 DEF Clusters, ToSet, Last
<1>7. new # {} => Min(new) \in new
  BY <1>2, FiniteClusters
<1>8. ASSUME NEW c, After(c) # {}
      PROVE  Min(After(c)) \in new
  <2>1. After(c) \in SUBSET Cluster
    BY <1>2
  <2> HIDE DEF After
  <2>2. Min(After(c)) \in After(c)
    BY <2>1, <1>8, FiniteClusters
  <2> QED BY <2>2 DEF After
<1> HIDE DEF After, C, g, new, last, Y
<1>9. Y \subseteq C \cup new
  <2>1. ASSUME NEW x \in (C \cup new) \cap Cluster, g[x] \in Cluster
        PROVE  g[x] \in C \cup new
    BY <2>1, <1>3, <1>5, <1>7, <1>8, ClusterFacts
  <2> DEFINE X == C \cup new
  <2>2. h \in X /\ \A x \in X \cap Cluster : g[x] \in Cluster => g[x] \in X
    BY <2>1, <1>5
  <2> HIDE DEF X
  <2>3. Clusters(g, h) \subseteq X
    BY <2>2, <1>3, <1>4, ChainLeast
  <2> QED BY <2>3 DEF X, Y
<1>10. h \in Y /\ \A x \in Y : g[x] \in Y \cup {EOC}
  BY <1>3, <1>4, ChainClosed DEF Y
<1>11. C \subseteq Y
  <2>1. ASSUME NEW x \in Y \cap Cluster, f[x] \in Cluster
        PROVE  f[x] \in Y
    <3>1. x \notin new /\ x # last
      BY <2>1, <1>2, <1>6, ClusterFacts
    <3>2. g[x] = f[x]
      BY <3>1, <1>3
    <3> QED BY <2>1, <3>2, <1>10, ClusterFacts
  <2>2. Clusters(f, h) \subseteq Y
    BY <2>1, <1>10, ChainLeast
  <2> QED BY <2>2 DEF C
<1>12. new \subseteq Y
  <2>1. new # {} => Min(new) \in Y
    <3>1. CASE new # {}
      <4>1. last \in Y /\ last \in Cluster /\ last \notin new
        BY <1>2, <1>5, <1>6, <1>11, ClusterFacts
      <4>2. g[last] = Min(new)
        BY <3>1, <4>1, <1>3
      <4> QED BY <3>1, <4>1, <4>2, <1>2, <1>7, <1>10, ClusterFacts
    <3> QED BY <3>1
  <2>2. \A y \in Y \cap Cluster : g[y] \in Cluster => g[y] \in Y
    BY <1>10, ClusterFacts
  <2> QED BY <2>1, <2>2, NewLinked DEF g, new
<1> QED
  BY <1>9, <1>11, <1>12 DEF C, Y, g, new

\* With no chain to hang them on the new clusters are a chain of their own.
LEMMA ExtendNothing ==
    ASSUME NEW f \in [Cluster -> FatEntry], NEW H \in SUBSET Cluster, LinksSound(f, H),
           NEW n \in Nat \ {0}, FreeClusters(f) # {}
    PROVE  Clusters(Extend(f, FREE, n), Min(FreeClusters(f))) = Lowest(n, FreeClusters(f))
<1> DEFINE S == FreeClusters(f)
           new == Lowest(n, S)
           After(c) == {x \in new : x > c}
           g == Extend(f, FREE, n)
           head == Min(S)
           Y == Clusters(g, head)
<1>1. S \in SUBSET Cluster
  BY DEF FreeClusters
<1>2. new # {} /\ Min(new) = head /\ new \in SUBSET Cluster
  <2>1. new # {} /\ Min(new) = Min(S)
    <3> HIDE DEF S
    <3> QED BY <1>1, LowestFacts DEF S
  <2>2. new \in SUBSET Cluster
    BY <1>1 DEF Lowest
  <2> QED BY <2>1, <2>2
<1>3. head \in new
  <2>1. Min(new) \in new
    <3> HIDE DEF new
    <3> QED BY <1>2, FiniteClusters
  <2> QED BY <2>1, <1>2
<1>4. /\ g \in [Cluster -> FatEntry]
      /\ \A c \in new : g[c] = IF After(c) = {} THEN EOC ELSE Min(After(c))
  <2>1. g \in [Cluster -> FatEntry]
    BY ExtendType
  <2> QED BY <2>1, <1>2 DEF Extend
<1>5. LinksSound(g, H \cup {head})
  <2>1. LinksSound(g, H \cup NewHeads(f, FREE, n))
    BY ExtendLinks
  <2>2. NewHeads(f, FREE, n) = {head}
    BY NewHeadsAre
  <2> QED BY <2>1, <2>2
<1>6. ASSUME NEW c, After(c) # {}
      PROVE  Min(After(c)) \in new
  <2>1. After(c) \in SUBSET Cluster
    BY <1>2
  <2> HIDE DEF After
  <2>2. Min(After(c)) \in After(c)
    BY <2>1, <1>6, FiniteClusters
  <2> QED BY <2>2 DEF After
<1> HIDE DEF After, g, new, head, Y, S
<1>7. H \cup {head} \in SUBSET Cluster
  BY <1>2, <1>3
<1>8. Y \subseteq new
  <2>1. ASSUME NEW x \in new \cap Cluster, g[x] \in Cluster
        PROVE  g[x] \in new
    BY <2>1, <1>4, <1>6, ClusterFacts
  <2>2. Clusters(g, head) \subseteq new
    BY <2>1, <1>3, <1>4, <1>5, <1>7, ChainLeast
  <2> QED BY <2>2 DEF Y
<1>9. head \in Y /\ \A x \in Y : g[x] \in Y \cup {EOC}
  BY <1>4, <1>5, <1>7, ChainClosed DEF Y
<1>10. new \subseteq Y
  <2>1. Min(new) \in Y
    BY <1>2, <1>9
  <2>2. \A y \in Y \cap Cluster : g[y] \in Cluster => g[y] \in Y
    BY <1>9, ClusterFacts
  <2> QED BY <2>1, <2>2, NewLinked DEF g, new, S
<1> QED
  BY <1>8, <1>10 DEF Y, g, head, new, S

\* What is allocated after an allocation was so before or is one of the new clusters.
LEMMA ExtendTaken ==
    ASSUME NEW f \in [Cluster -> FatEntry], NEW H \in SUBSET Cluster, LinksSound(f, H),
           NEW h \in H \cup {FREE}, NEW n, NEW x \in Cluster, Extend(f, h, n)[x] # FREE
    PROVE  f[x] # FREE \/ x \in Lowest(n, FreeClusters(f))
<1>1. CASE h # FREE /\ x = Last(Chain(f, h))
  <2>1. f[x] = EOC
    BY <1>1, ChainEnds
  <2> QED BY <2>1, ClusterFacts
<1>2. CASE x \notin Lowest(n, FreeClusters(f)) /\ ~ (h # FREE /\ x = Last(Chain(f, h)))
  <2>1. Extend(f, h, n)[x] = f[x]
    BY <1>2 DEF Extend
  <2> QED BY <2>1
<1> QED
  BY <1>1, <1>2

\* ensure_fcb_chain_capacity gives the chain as many clusters as are needed, takes none
\* when it is long enough, and touches no other chain.
LEMMA CapacityChain ==
    ASSUME NEW f \in [Cluster -> FatEntry], NEW H \in SUBSET Cluster, LinksSound(f, H),
           NEW h \in H \cup {FREE}, NEW k \in Nat, Fits(f, h, k)
    PROVE  LET g == WithCapacity(f, h, k)
               head == HeadWithCapacity(f, h, k)
               old == Len(Chain(f, h))
           IN  /\ \A c \in H : c # h => Chain(g, c) = Chain(f, c)
               /\ Len(Chain(g, head)) = IF k > old THEN k ELSE old
               /\ Clusters(f, h) \subseteq Clusters(g, head)
               /\ \A x \in Cluster : g[x] # FREE => f[x] # FREE \/ x \in Clusters(g, head)
               /\ k <= old => g = f /\ head = h
<1> DEFINE g == WithCapacity(f, h, k)
           head == HeadWithCapacity(f, h, k)
           s == Chain(f, h)
           old == Len(s)
           m == Missing(f, h, k)
           S == FreeClusters(f)
           new == Lowest(m, S)
<1>0. /\ h \in Cluster \cup {FREE} /\ old \in Nat /\ (h = FREE => old = 0)
      /\ m = IF k > old THEN k - old ELSE 0
      /\ S \in SUBSET Cluster /\ m <= Cardinality(S) /\ g = Extend(f, h, m)
  <2>1. h \in Cluster \cup {FREE}
    OBVIOUS
  <2>2. old \in Nat /\ (h = FREE => old = 0)
    BY <2>1, ChainFacts, NoClusters
  <2> QED BY <2>1, <2>2 DEF Missing, Fits, WithCapacity, FreeClusters
<1>1. \A c \in H : c # h => Chain(g, c) = Chain(f, c)
  BY <1>0, ExtendOthers
<1>2. \A x \in Cluster : g[x] # FREE => f[x] # FREE \/ x \in new
  BY <1>0, ExtendTaken
<1>3. ASSUME m # 0
      PROVE  Cardinality(new) = m /\ IsFiniteSet(new)
  <2>1. m \in Nat
    BY <1>0
  <2>2. new \in SUBSET Cluster
    BY <1>0 DEF Lowest
  <2> HIDE DEF m, S, new
  <2>3. Cardinality(Lowest(m, S)) = m
    BY <1>0, <2>1, LowestCount
  <2>4. IsFiniteSet(new)
    BY <2>2, FiniteClusters
  <2> QED BY <2>3, <2>4 DEF new
<1>4. CASE k <= old
  <2>1. m = 0
    BY <1>0, <1>4
  <2>2. g = f
    BY <2>1, <1>0, ExtendByNone
  <2>3. head = h
    BY <1>0, <1>4 DEF HeadWithCapacity
  <2> HIDE DEF g, head, m, s
  <2> QED BY <2>2, <2>3, <1>0, <1>1, <1>4 DEF g, head, s
<1>5. CASE k > old /\ h # FREE
  <2>1. h \in H /\ head = h /\ m = k - old /\ m # 0
    BY <1>0, <1>5 DEF HeadWithCapacity
  <2>2. Clusters(g, h) = Clusters(f, h) \cup new
    BY <2>1, <1>0, ExtendClusters
  <2>3. g \in [Cluster -> FatEntry] /\ LinksSound(g, H)
    <3>1. LinksSound(g, H \cup NewHeads(f, h, m)) /\ g \in [Cluster -> FatEntry]
      BY <1>0, ExtendLinks, ExtendType
    <3> QED BY <3>1, <1>5 DEF NewHeads
  <2>4. Clusters(f, h) \cap new = {}
    <3>1. \A x \in Clusters(f, h) : f[x] # FREE
      BY <2>1, ChainTaken
    <3>2. \A x \in new : f[x] = FREE
      BY DEF Lowest, FreeClusters
    <3> QED BY <3>1, <3>2
  <2>5. IsFiniteSet(Clusters(f, h)) /\ old = Cardinality(Clusters(f, h))
    <3>1. Clusters(f, h) \in SUBSET Cluster
      BY <2>1, ChainClosed
    <3> QED BY <3>1, <2>1, FiniteClusters, ChainCount
  <2>6. Len(Chain(g, h)) = Cardinality(Clusters(g, h))
    BY <2>1, <2>3, ChainCount
  <2> HIDE DEF g, head, m, s, new, S
  <2>7. Cardinality(Clusters(f, h) \cup new) = old + m
    <3>1. Cardinality(Clusters(f, h) \cap new) = 0
      BY <2>4, FS_EmptySet
    <3>2. Cardinality(Clusters(f, h) \cup new)
             = Cardinality(Clusters(f, h)) + Cardinality(new) - 0
      BY <3>1, <2>1, <2>5, <1>3, FS_Union
    <3> QED BY <3>2, <2>1, <2>5, <1>0, <1>3
  <2>8. Len(Chain(g, head)) = k
    BY <2>1, <2>2, <2>6, <2>7, <1>0
  <2>9. /\ Clusters(f, h) \subseteq Clusters(g, head)
        /\ \A x \in Cluster : g[x] # FREE => f[x] # FREE \/ x \in Clusters(g, head)
    BY <2>1, <2>2, <1>2
  <2> QED BY <2>8, <2>9, <1>0, <1>1, <1>5 DEF g, head, s
<1>6. CASE k > old /\ h = FREE
  <2>1. old = 0 /\ m = k /\ m \in Nat \ {0} /\ head = Min(S) /\ S # {}
    <3>1. old = 0 /\ m = k /\ m \in Nat \ {0}
      BY <1>0, <1>6
    <3>2. head = Min(S)
      BY <3>1, <1>6 DEF HeadWithCapacity
    <3>3. S # {}
      <4>1. SUFFICES ASSUME S = {} PROVE FALSE
        OBVIOUS
      <4>2. Cardinality(S) = 0
        BY <4>1, FS_EmptySet
      <4> HIDE DEF S, m
      <4> QED BY <4>2, <3>1, <1>0
    <3> QED BY <3>1, <3>2, <3>3
  <2>2. Clusters(g, head) = new
    BY <2>1, <1>0, <1>6, ExtendNothing
  <2>3. g \in [Cluster -> FatEntry] /\ LinksSound(g, H \cup {head}) /\ head \in Cluster
    <3>1. LinksSound(g, H \cup NewHeads(f, h, m)) /\ g \in [Cluster -> FatEntry]
      BY <1>0, ExtendLinks, ExtendType
    <3>2. NewHeads(f, FREE, m) = {head} /\ head \in Cluster
      BY <2>1, NewHeadsAre
    <3> QED BY <3>1, <3>2, <1>6
  <2> HIDE DEF g, head, m, s, new, S
  <2>4. Len(Chain(g, head)) = Cardinality(Clusters(g, head))
    BY <2>3, ChainCount
  <2>5. Len(Chain(g, head)) = k
    BY <2>1, <2>2, <2>4, <1>3
  <2>6. /\ Clusters(f, h) \subseteq Clusters(g, head)
        /\ \A x \in Cluster : g[x] # FREE => f[x] # FREE \/ x \in Clusters(g, head)
    BY <2>2, <1>2, <1>6, NoClusters
  <2> QED BY <2>5, <2>6, <1>0, <1>1, <1>6 DEF g, head, s
<1> QED
  BY <1>0, <1>4, <1>5, <1>6

\* trim_chain_len, cluster by cluster.
LEMMA TrimmedIs ==
    ASSUME NEW f \in [Cluster -> FatEntry], NEW h \in Cluster \cup {FREE}, NEW n \in Nat
    PROVE  LET s == Chain(f, h)
           IN  \A c \in Cluster : Trimmed(f, h, n)[c] =
                  IF c = s[n] THEN EOC
                  ELSE IF \E i \in (n + 1)..Len(s) : c = s[i] THEN FREE
                  ELSE f[c]
<1> DEFINE s == Chain(f, h)
           t == SubSeq(s, n + 1, Len(s))
           S == ToSet(t)
<1>1. Len(s) \in Nat /\ s \in Seq(FatEntry)
  BY ChainFacts
<1>2. Trimmed(f, h, n) = [[c \in Cluster |-> IF c \in S THEN FREE ELSE f[c]]
                             EXCEPT ![s[n]] = EOC]
  BY DEF Trimmed, FreeAll
<1> HIDE DEF s
<1>3. t = [i \in 1..(Len(s) - (n + 1) + 1) |-> s[i + (n + 1) - 1]]
  BY <1>1
<1>4. t = [i \in 1..(Len(s) - n) |-> s[i + n]]
  BY <1>3, <1>1
<1>5. S = {t[i] : i \in DOMAIN t}
  BY DEF ToSet
<1> HIDE DEF t
<1>6. S = {s[i + n] : i \in 1..(Len(s) - n)}
  BY <1>4, <1>5
<1>7. \A i \in 1..(Len(s) - n) : i + n \in (n + 1)..Len(s)
  BY <1>1
<1>8. \A i \in (n + 1)..Len(s) : i - n \in 1..(Len(s) - n) /\ (i - n) + n = i
  BY <1>1
<1>9. S = {s[i] : i \in (n + 1)..Len(s)}
  BY <1>6, <1>7, <1>8
<1> HIDE DEF S
<1>10. \A c \in Cluster : Trimmed(f, h, n)[c] =
          IF c = s[n] THEN EOC ELSE IF c \in S THEN FREE ELSE f[c]
  BY <1>2
<1> QED
  BY <1>9, <1>10 DEF s

\* Trimming leaves the chain its first n clusters, frees its others and touches no other
\* chain.
LEMMA TrimmedChain ==
    ASSUME NEW f \in [Cluster -> FatEntry], NEW H \in SUBSET Cluster, LinksSound(f, H),
           NEW h \in H, NEW n \in 1..Len(Chain(f, h))
    PROVE  LET g == Trimmed(f, h, n)
           IN  /\ \A c \in H : c # h => Chain(g, c) = Chain(f, c)
               /\ Len(Chain(g, h)) = n
               /\ \A x \in Cluster : g[x] # FREE =>
                     f[x] # FREE /\ (x \in Clusters(f, h) => x \in Clusters(g, h))
<1> DEFINE g == Trimmed(f, h, n)
           s == Chain(f, h)
           L == Len(s)
           K == {s[i] : i \in 1..n}
           Y == Clusters(g, h)
           Cut(c) == \E i \in (n + 1)..L : c = s[i]
           Bad == {i \in 1..n : s[i] \notin Y}
<1>0. h \in Cluster \cup {FREE} /\ n \in Nat \ {0}
  BY ChainShape
<1>1. /\ L \in 1..MaxCluster /\ DOMAIN s = 1..L /\ s \in Seq(Cluster) /\ s[1] = h
      /\ \A i \in 1..(L - 1) : f[s[i]] = s[i + 1]
      /\ f[s[L]] = EOC
      /\ \A i, j \in 1..L : s[i] = s[j] => i = j
  BY ChainShape
<1>2. /\ g \in [Cluster -> FatEntry] /\ LinksSound(g, H)
      /\ \A c \in Cluster : g[c] = IF c = s[n] THEN EOC ELSE IF Cut(c) THEN FREE ELSE f[c]
  BY <1>0, TrimmedType, TrimmedLinks, TrimmedIs
<1>3. Clusters(f, h) = {s[i] : i \in 1..L}
  BY <1>1 DEF Clusters, ToSet
<1>4. MaxCluster \in Nat
  BY TableAssumption
<1>5. n \in 1..L
  OBVIOUS
<1> HIDE DEF g, s, L, Y
<1>6. \A i \in 1..L : s[i] \in Cluster
  <2>1. s \in [1..L -> Cluster]
    BY <1>1
  <2> QED BY <2>1
<1>7. ASSUME NEW i \in 1..n
      PROVE  /\ i \in 1..L /\ s[i] \in Cluster
             /\ i = n => g[s[i]] = EOC
             /\ i # n => i + 1 \in 1..n /\ g[s[i]] = s[i + 1]
  <2>1. i \in 1..L /\ (i # n => i + 1 \in 1..n /\ i \in 1..(L - 1) /\ i \notin (n + 1)..L)
    BY <1>1, <1>4, <1>5
  <2>2. i # n => s[i] # s[n] /\ ~ Cut(s[i])
    <3>1. ASSUME NEW j \in (n + 1)..L, s[i] = s[j] PROVE FALSE
      <4>1. j \in 1..L /\ i # j
        BY <1>1, <1>4, <1>5
      <4> QED BY <2>1, <3>1, <4>1, <1>1
    <3>2. i # n => s[i] # s[n]
      BY <2>1, <1>1, <1>5
    <3> QED BY <3>1, <3>2
  <2> HIDE DEF Cut
  <2> QED BY <2>1, <2>2, <1>1, <1>2, <1>6
<1>8. Y \subseteq K
  <2>1. h \in K
    <3>1. 1 \in 1..n
      BY <1>0
    <3> QED BY <3>1, <1>1
  <2>2. ASSUME NEW x \in K \cap Cluster, g[x] \in Cluster
        PROVE  g[x] \in K
    <3>1. PICK i \in 1..n : x = s[i]
      OBVIOUS
    <3>2. i # n
      BY <2>2, <3>1, <1>7, ClusterFacts
    <3> QED BY <3>1, <3>2, <1>7
  <2> HIDE DEF K
  <2>3. Clusters(g, h) \subseteq K
    BY <2>1, <2>2, <1>2, ChainLeast
  <2> QED BY <2>3 DEF Y
<1>9. h \in Y /\ \A x \in Y : g[x] \in Y \cup {EOC}
  BY <1>2, ChainClosed DEF Y
<1>10. Bad = {}
  <2>1. SUFFICES ASSUME Bad # {} PROVE FALSE
    OBVIOUS
  <2>2. PICK b \in Bad : \A i \in Bad : b <= i
    <3>1. Bad \in SUBSET Nat
      BY <1>0
    <3> HIDE DEF Bad
    <3> QED BY <2>1, <3>1, MinIsLeast
  <2>3. b # 1
    BY <2>2, <1>1, <1>9
  <2>4. b \in 1..n /\ b - 1 \in 1..n /\ b - 1 # n /\ (b - 1) + 1 = b /\ ~ (b <= b - 1)
    BY <2>2, <2>3, <1>0
  <2>5. s[b - 1] \in Y /\ g[s[b - 1]] = s[b] /\ s[b] \in Cluster
    BY <2>2, <2>4, <1>7
  <2> QED BY <2>2, <2>5, <1>9, ClusterFacts
<1>11. Y = K
  BY <1>8, <1>10
<1>12. Len(Chain(g, h)) = n
  <2>1. Len(Chain(g, h)) = Cardinality(Y)
    BY <1>2, ChainCount DEF Y
  <2>2. Cardinality(K) = n
    <3>1. \A i, j \in 1..n : s[i] = s[j] => i = j
      BY <1>1, <1>7
    <3> QED BY <3>1, <1>0, Injected
  <2> QED BY <2>1, <2>2, <1>11
<1>13. ASSUME NEW x \in Cluster, g[x] # FREE
       PROVE  f[x] # FREE /\ (x \in Clusters(f, h) => x \in Y)
  <2>1. CASE x = s[n]
    <3>1. x \in K /\ x \in Clusters(f, h)
      BY <2>1, <1>0, <1>3, <1>5
    <3>2. f[x] # FREE
      BY <3>1, ChainTaken
    <3> QED BY <3>1, <3>2, <1>11
  <2>2. CASE x # s[n] /\ ~ Cut(x)
    <3>1. g[x] = f[x]
      BY <2>2, <1>2
    <3>2. ASSUME NEW i \in 1..L, x = s[i]
          PROVE  x \in K
      <4>1. i \in (n + 1)..L \/ i \in 1..n
        BY <1>0, <1>1, <1>4
      <4> QED BY <2>2, <3>2, <4>1
    <3> QED BY <3>1, <3>2, <1>3, <1>11, <1>13
  <2>3. CASE x # s[n] /\ Cut(x)
    BY <2>3, <1>2, <1>13
  <2> QED BY <2>1, <2>2, <2>3
<1>14. ASSUME NEW c \in H, c # h
       PROVE  Chain(g, c) = Chain(f, c)
  <2>1. Clusters(f, c) \cap Clusters(f, h) = {}
    BY <1>14, ChainsDisjoint DEF Clusters
  <2>2. ASSUME NEW x \in Clusters(f, c) \cap Cluster
        PROVE  g[x] = f[x]
    <3>1. x # s[n]
      BY <2>1, <1>3, <1>5
    <3>2. ~ Cut(x)
      <4>1. \A i \in (n + 1)..L : i \in 1..L
        BY <1>0, <1>1, <1>4
      <4> QED BY <4>1, <2>1, <1>3
    <3> QED BY <3>1, <3>2, <1>2
  <2>3. c \in FatEntry
    BY DEF FatEntry
  <2> QED BY <2>2, <2>3, <1>2, ChainSame
<1> QED
  BY <1>12, <1>13, <1>14 DEF g, Y

\* Freeing a chain touches no other chain.
LEMMA FreedChain ==
    ASSUME NEW f \in [Cluster -> FatEntry], NEW H \in SUBSET Cluster, LinksSound(f, H),
           NEW h \in H \cup {FREE}
    PROVE  LET g == FreeAll(f, Clusters(f, h))
           IN  /\ \A c \in H : c # h => Chain(g, c) = Chain(f, c)
               /\ \A x \in Cluster : g[x] # FREE => f[x] # FREE /\ x \notin Clusters(f, h)
<1> DEFINE g == FreeAll(f, Clusters(f, h))
<1>1. g \in [Cluster -> FatEntry]
  BY FreeAllType
<1>2. \A x \in Cluster : g[x] = IF x \in Clusters(f, h) THEN FREE ELSE f[x]
  BY DEF FreeAll
<1>3. ASSUME NEW c \in H, c # h
      PROVE  Chain(g, c) = Chain(f, c)
  <2>1. Clusters(f, c) \cap Clusters(f, h) = {}
    <3>1. CASE h = FREE
      BY <3>1, NoClusters
    <3>2. CASE h # FREE
      BY <3>2, <1>3, ChainsDisjoint DEF Clusters
    <3> QED BY <3>1, <3>2
  <2>2. c \in FatEntry
    BY DEF FatEntry
  <2> HIDE DEF g
  <2> QED BY <2>1, <2>2, <1>1, <1>2, ChainSame
<1> QED
  BY <1>2, <1>3
-----------------------------------------------------------------------------
(* The invariant and its consequences.                                     *)

\* Formatting leaves an empty root, an empty FAT and no open file.
LEMMA InitGood == Init => Good(fat, slots, open)
<1> SUFFICES ASSUME Init PROVE Good(fat, slots, open)
  OBVIOUS
<1>1. /\ fat \in [Cluster -> FatEntry] /\ fat[Root] = EOC
      /\ \A c \in Cluster : c # Root => fat[c] = FREE
  BY ClusterFacts DEF Init, FatEntry
<1>2. slots \in Streams
  <2>1. EmptyCluster \in Seq(Slot) /\ <<>> \in Seq(Slot)
    BY EmptyClusterType
  <2> QED BY <2>1 DEF Init, Streams
<1>3. \A c \in Cluster : slots[c] = IF c = Root THEN EmptyCluster ELSE <<>>
  BY DEF Init
<1>4. ASSUME NEW l \in Locs(slots)
      PROVE  ~Occupied(At(slots, l))
  <2>1. l[1] \in Cluster /\ l[2] \in DOMAIN slots[l[1]]
    BY <1>2, LocsFacts
  <2>2. l[1] = Root
    BY <2>1, <1>3
  <2> QED BY <2>1, <2>2, <1>3, EmptyClusterType DEF At
<1>5. Owners(slots) = {}
  BY <1>4, OwnersFacts DEF Owns
<1>6. HeadsOf(slots) = {Root}
  <2>1. {At(slots, l).start : l \in {}} = {}
    OBVIOUS
  <2>2. HeadsOf(slots) = {Root} \cup {At(slots, l).start : l \in {}}
    BY <1>5, OwnersFacts
  <2> QED BY <2>1, <2>2
<1>7. LinksSound(fat, {Root})
  BY <1>1, ClusterFacts DEF LinksSound
<1>8. StartsSound(slots)
  BY <1>4, <1>5, OwnersFacts DEF Occupied
<1>9. StreamsOwned(slots, {})
  BY <1>3, OwnersFacts DEF StreamsOwned
<1>10. open \in OpenTable /\ OpenSound(slots, open)
  BY DEF Init, OpenTable, OpenSound
<1> QED
  BY <1>1, <1>2, <1>6, <1>7, <1>8, <1>9, <1>10 DEF Good

\* Offsets and lengths are numbers.
LEMMA ParameterTypes == Offsets \subseteq Nat /\ Lengths \subseteq Nat
BY LimitsAssumption DEF Offsets, Lengths

\* Every operation preserves the invariant, whatever state it is called in.
LEMMA NextGood ==
    ASSUME Good(fat, slots, open), Next
    PROVE  Good(fat', slots', open')
<1>1. CASE DirectoryStep
  BY <1>1, CreateFileGood, MkdirGood, RmGood, RmdirGood, OpenGood DEF DirectoryStep
<1>2. CASE FileStep
  BY <1>2, WriteAtGood, TruncateGood, ParameterTypes DEF FileStep
<1>3. CASE HandleStep
  BY <1>3, CloseHandleGood, SeekHandleGood, ReadHandleGood, WriteHandleGood,
     TruncateHandleGood, ParameterTypes DEF HandleStep
<1> QED
  BY <1>1, <1>2, <1>3 DEF Next

\* Every operation returns Ok or an FsError.
LEMMA NextReturns ==
    ASSUME Next
    PROVE  ret' \in {"Ok"} \cup Errors
<1> DEFINE R == ret' \in {"Ok"} \cup Errors
<1>1. \A e \in Errors : Fail(e) => R
  BY DEF Fail
<1>2. \A d, k : CreateFile(d, k) => R
  BY <1>1 DEF CreateFile, AddEntry, Errors
<1>3. \A d, k : Mkdir(d, k) => R
  BY <1>1 DEF Mkdir, AddEntry, Errors
<1>4. \A l : Rm(l) => R
  BY <1>1 DEF Rm, RemoveEntry, Errors
<1>5. \A l : Rmdir(l) => R
  BY <1>1 DEF Rmdir, RemoveEntry, Errors
<1>6. \A l : Open(l) => R
  BY <1>1 DEF Open, Errors
<1>7. \A h : CloseHandle(h) => R
  BY <1>1 DEF CloseHandle, Errors
<1>8. \A h, pos : SeekHandle(h, pos) => R
  BY <1>1 DEF SeekHandle, MoveCursor, Errors
<1>9. \A h, len : ReadHandle(h, len) => R
  BY <1>1 DEF ReadHandle, MoveCursor, Errors
<1>10. \A h, len : WriteHandle(h, len) => R
  BY <1>1 DEF WriteHandle, Errors
<1>11. \A l, offset, len : WriteAt(l, offset, len) => R
  BY <1>1 DEF WriteAt, Errors
<1>12. \A l, size : Truncate(l, size) => R
  BY <1>1 DEF Truncate, Errors
<1>13. \A h, size : TruncateHandle(h, size) => R
  BY <1>1, <1>12 DEF TruncateHandle, Errors
<1> HIDE DEF R
<1>14. R
  BY <1>2, <1>3, <1>4, <1>5, <1>6, <1>7, <1>8, <1>9, <1>10, <1>11, <1>12, <1>13
     DEF Next, DirectoryStep, FileStep, HandleStep
<1> QED
  BY <1>14 DEF R

\* The inductive invariant: whatever calls are made in whatever order, the FAT, the
\* entries and the open files agree link by link.
THEOREM Invariance == Spec => []IInv
<1>1. Init => IInv
  BY InitGood, GoodIs DEF Init
<1>2. IInv /\ [Next]_vars => IInv'
  <2> SUFFICES ASSUME IInv, [Next]_vars PROVE IInv'
    OBVIOUS
  <2>1. Good(fat, slots, open) /\ ret \in {"Ok"} \cup Errors
    BY GoodIs
  <2>2. CASE Next
    BY <2>1, <2>2, NextGood, NextReturns, GoodNext
  <2>3. CASE UNCHANGED vars
    BY <2>1, <2>3, GoodNext DEF vars
  <2> QED BY <2>2, <2>3
<1> QED
  BY <1>1, <1>2, PTL DEF Spec

\* Every variable keeps its type, for every geometry and every limit.
THEOREM TypeCorrect == Spec => []TypeOK
<1>1. IInv => TypeOK
  BY DEF IInv
<1> QED
  BY <1>1, Invariance, PTL

\* What an open handle caches is what the directory holds, whatever path-based calls
\* and other handles do to the file, its directory or their neighbours.
THEOREM HandlesCoherent == Spec => []OpenCoherent
<1>1. IInv => OpenCoherent
  BY DEF IInv
<1> QED
  BY <1>1, Invariance, PTL

\* Where the links are sound the chains are.
LEMMA GoodChains == Good(fat, slots, open) => ChainsSound
<1> SUFFICES ASSUME Good(fat, slots, open) PROVE ChainsSound
  OBVIOUS
<1>1. /\ fat \in [Cluster -> FatEntry] /\ Heads \in SUBSET Cluster
      /\ LinksSound(fat, Heads)
  BY HeadsType DEF Good, Heads
<1>2. \A h \in Heads : fat[Last(Chain(fat, h))] = EOC
  BY <1>1, ChainEnds
<1>3. \A g, h \in Heads :
         g # h => ToSet(Chain(fat, g)) \cap ToSet(Chain(fat, h)) = {}
  BY <1>1, ChainsDisjoint
<1>4. \A l, m \in HeadLocs : l # m => Entry(l).start # Entry(m).start
  BY DEF Good, StartsSound, HeadLocs, Entry
<1> QED
  BY <1>2, <1>3, <1>4 DEF ChainsSound

\* No sequence of operations makes a chain loop, meet a free cluster or share a
\* cluster with the chain of another entry.
THEOREM ChainsStaySound == Spec => []ChainsSound
<1>1. IInv => ChainsSound
  BY GoodIs, GoodChains
<1> QED
  BY <1>1, Invariance, PTL
-----------------------------------------------------------------------------
(* The entries of directories.  What a call does to them is one of three   *)
(* things, whatever it does to slots, clusters and open files.             *)

Entries(s) == {l \in Locs(s) : Occupied(At(s, l))}

\* The entry at m in t is the one in s, with the size of directory d renewed.
Renewed(s, t, d, m) ==
    /\ At(t, m).kind = At(s, m).kind /\ At(t, m).start = At(s, m).start
    /\ At(t, m).name = At(s, m).name
    /\ IF At(s, m).kind = "Directory" /\ At(s, m).start = d
       THEN At(t, m).size = Count(t[d]) ELSE At(t, m) = At(s, m)

\* What a call does to the entries: entry e is added to directory d, ...
Added(s, t, d, l, e) ==
    /\ l[1] = d /\ l \notin Entries(s) /\ Entries(t) = Entries(s) \cup {l}
    /\ At(t, l) = e
    /\ \A m \in Entries(s) : Renewed(s, t, d, m)
\* ... the entry at l is removed, ...
Removed(s, t, l) ==
    /\ l \in Entries(s) /\ Entries(t) = Entries(s) \ {l}
    /\ \A m \in Entries(t) : Renewed(s, t, l[1], m)
\* ... or the entry of a file is rewritten under its name.
Rewritten(s, t, l, e) ==
    /\ l \in Entries(s) /\ Entries(t) = Entries(s)
    /\ At(s, l).kind = "File" /\ e.kind = "File" /\ e.name = At(s, l).name
    /\ \A m \in Entries(s) : At(t, m) = IF m = l THEN e ELSE At(s, m)

\* The number of entries in a stream depends on where entries are.
LEMMA CountSame ==
    ASSUME NEW s \in Streams, NEW t \in Streams, NEW c \in Cluster,
           \A m : m[1] = c => (m \in Entries(s) <=> m \in Entries(t))
    PROVE  Count(t[c]) = Count(s[c])
<1> DEFINE In(u) == {i \in DOMAIN u[c] : Occupied(u[c][i])}
<1>1. \A i : i \in In(s) <=> <<c, i>> \in Entries(s)
  <2>1. ASSUME NEW i, <<c, i>> \in Locs(s) PROVE i \in DOMAIN s[c]
    BY <2>1, LocsFacts
  <2>2. \A i \in DOMAIN s[c] : <<c, i>> \in Locs(s)
    BY InLocs
  <2> QED BY <2>1, <2>2 DEF Entries, At
<1>2. \A i : i \in In(t) <=> <<c, i>> \in Entries(t)
  <2>1. ASSUME NEW i, <<c, i>> \in Locs(t) PROVE i \in DOMAIN t[c]
    BY <2>1, LocsFacts
  <2>2. \A i \in DOMAIN t[c] : <<c, i>> \in Locs(t)
    BY InLocs
  <2> QED BY <2>1, <2>2 DEF Entries, At
<1>3. \A i : <<c, i>> \in Entries(s) <=> <<c, i>> \in Entries(t)
  OBVIOUS
<1> HIDE DEF In
<1>4. In(s) = In(t)
  BY <1>1, <1>2, <1>3
<1> QED
  BY <1>4 DEF Count, In

\* Empty slots are no entries.
LEMMA GrownEntries ==
    ASSUME NEW s, NEW t, Grown(s, t)
    PROVE  Entries(t) = Entries(s) /\ \A m \in Entries(s) : At(t, m) = At(s, m)
<1>1. \A m \in Locs(t) : m \notin Locs(s) => ~Occupied(At(t, m))
  BY DEF Grown
<1> QED
  BY <1>1 DEF Grown, Entries

\* refresh_dir_size renews the size of one directory.
LEMMA RefreshEntries ==
    ASSUME NEW s \in Streams, NEW d \in Cluster
    PROVE  LET t == RefreshDirSize(s, d)
           IN  /\ t \in Streams /\ Entries(t) = Entries(s)
               /\ \A m \in Entries(s) : Renewed(s, t, d, m)
<1> DEFINE t == RefreshDirSize(s, d)
<1>1. /\ t \in Streams /\ SameShape(s, t) /\ Locs(t) = Locs(s)
      /\ \A m \in Locs(s) : At(t, m).kind = At(s, m).kind
  BY RefreshFacts
<1>2. Entries(t) = Entries(s)
  BY <1>1 DEF Entries, Occupied
<1>3. Count(t[d]) = Count(s[d])
  <2> HIDE DEF t
  <2> QED BY <1>1, <1>2, CountSame
<1>4. \A m \in Locs(s) : At(t, m) =
         IF At(s, m).kind = "Directory" /\ At(s, m).start = d
         THEN [At(s, m) EXCEPT !.size = Count(s[d])] ELSE At(s, m)
  BY LocsFacts DEF RefreshDirSize, At
<1> HIDE DEF t
<1>5. ASSUME NEW m \in Entries(s)
      PROVE  Renewed(s, t, d, m)
  <2>1. m \in Locs(s) /\ At(s, m) \in Slot
    BY LocsFacts DEF Entries
  <2> DEFINE e == [At(s, m) EXCEPT !.size = Count(s[d])]
  <2>2. /\ e.kind = At(s, m).kind /\ e.start = At(s, m).start /\ e.name = At(s, m).name
        /\ e.size = Count(s[d])
    BY <2>1 DEF Slot
  <2> HIDE DEF e
  <2>3. CASE At(s, m).kind = "Directory" /\ At(s, m).start = d
    <3>1. At(t, m) = e
      BY <2>1, <2>3, <1>4 DEF e
    <3> QED BY <3>1, <2>2, <2>3, <1>3 DEF Renewed
  <2>4. CASE ~ (At(s, m).kind = "Directory" /\ At(s, m).start = d)
    <3>1. At(t, m) = At(s, m)
      BY <2>1, <2>4, <1>4
    <3> QED BY <3>1, <2>4 DEF Renewed
  <2> QED BY <2>3, <2>4
<1> QED
  BY <1>1, <1>2, <1>5 DEF t

\* Adding an entry, as create_file and mkdir do.
LEMMA AddEntryAdds ==
    ASSUME NEW f \in [Cluster -> FatEntry], NEW s \in Streams, NEW d \in Cluster,
           NEW e \in Slot, Occupied(e), e.kind = "Directory" => e.start # d
    PROVE  LET r == FillFreeDirSlot(f, s, d)
               l == <<d, r.index>>
           IN  Added(s, RefreshDirSize(Put(r.slots, l, e), d), d, l, e)
<1> DEFINE r == FillFreeDirSlot(f, s, d)
           u == r.slots
           l == <<d, r.index>>
           t == Put(u, l, e)
           v == RefreshDirSize(t, d)
<1>1. u \in Streams /\ Grown(s, u) /\ l \in Locs(u) /\ ~Occupied(At(u, l)) /\ l[1] = d
  BY FillFacts
<1> HIDE DEF r, u, l
<1>2. Entries(u) = Entries(s) /\ \A m \in Entries(s) : At(u, m) = At(s, m)
  BY <1>1, GrownEntries
<1>3. /\ t \in Streams /\ Locs(t) = Locs(u)
      /\ \A m \in Locs(u) : At(t, m) = IF m = l THEN e ELSE At(u, m)
  BY <1>1, PutFacts
<1> HIDE DEF t
<1>4. /\ l \notin Entries(s) /\ Entries(t) = Entries(s) \cup {l} /\ At(t, l) = e
      /\ \A m \in Entries(s) : At(t, m) = At(s, m)
  BY <1>1, <1>2, <1>3 DEF Entries
<1>5. v \in Streams /\ Entries(v) = Entries(t) /\ \A m \in Entries(t) : Renewed(t, v, d, m)
  BY <1>3, RefreshEntries
<1> HIDE DEF v
<1>6. At(v, l) = e
  BY <1>4, <1>5 DEF Renewed
<1>7. \A m \in Entries(s) : Renewed(s, v, d, m)
  BY <1>4, <1>5 DEF Renewed
<1> QED
  BY <1>1, <1>4, <1>5, <1>6, <1>7 DEF Added, r, u, l, t, v

\* Removing an entry, as rm and rmdir do.
LEMMA RemoveEntryRemoves ==
    ASSUME Good(fat, slots, open), NEW l \in Locs(slots), Occupied(Entry(l)),
           Entry(l).kind = "Directory" => Count(slots[Entry(l).start]) = 0,
           RemoveEntry(l)
    PROVE  Removed(slots, slots', l)
<1> DEFINE w == Wipe(slots, ToSet(Chain(fat, Entry(l).start)))
           t == Put(w, l, Deleted)
<1>1. w \in Streams /\ Grown(w, slots) /\ l \in Locs(w) /\ l[1] \in Cluster
      /\ Occupied(At(slots, l))
  BY WipeGrown, LocsFacts DEF Good, Entry, At
<1>2. slots' = RefreshDirSize(t, l[1])
  BY DEF RemoveEntry, Put
<1> HIDE DEF w
<1>3. Entries(slots) = Entries(w) /\ \A m \in Entries(w) : At(slots, m) = At(w, m)
  BY <1>1, GrownEntries
<1>4. /\ t \in Streams /\ Locs(t) = Locs(w)
      /\ \A m \in Locs(w) : At(t, m) = IF m = l THEN Deleted ELSE At(w, m)
  BY <1>1, EmptyClusterType, PutFacts
<1> HIDE DEF t
<1>5. /\ l \in Entries(slots) /\ Entries(t) = Entries(slots) \ {l}
      /\ \A m \in Entries(t) : At(t, m) = At(slots, m)
  BY <1>1, <1>3, <1>4, EmptyClusterType DEF Entries
<1>6. /\ slots' \in Streams /\ Entries(slots') = Entries(t)
      /\ \A m \in Entries(t) : Renewed(t, slots', l[1], m)
  BY <1>1, <1>2, <1>4, RefreshEntries
<1>7. \A m \in Entries(slots') : Renewed(slots, slots', l[1], m)
  BY <1>5, <1>6 DEF Renewed
<1> QED
  BY <1>5, <1>6, <1>7 DEF Removed

\* Writing the entry of a file.
LEMMA PutRewrites ==
    ASSUME NEW s \in Streams, NEW l \in Locs(s), NEW e \in Slot,
           At(s, l).kind = "File", e.kind = "File", e.name = At(s, l).name
    PROVE  Rewritten(s, Put(s, l, e), l, e)
<1> DEFINE t == Put(s, l, e)
<1>1. Locs(t) = Locs(s) /\ \A m \in Locs(s) : At(t, m) = IF m = l THEN e ELSE At(s, m)
  BY PutFacts
<1> HIDE DEF t
<1> QED
  BY <1>1 DEF Rewritten, Entries, Occupied, t

\* An entry may be added under key k if the directory holds none of that name.
MayAdd(s, d, k, e) ==
    /\ e \in Slot /\ Occupied(e) /\ e.name = ShortName[k]
    /\ \A m \in Entries(s) : m[1] = d => At(s, m).name # k
    /\ e.kind = "Directory" => e.start \in Cluster \ HeadsOf(s) /\ e.size = 0

\* An entry may be removed if it is no directory that holds one.
MayRemove(s, l) ==
    At(s, l).kind = "Directory" => \A m \in Entries(s) : m[1] # At(s, l).start

\* What any call makes of the entries.
EntryStep(s, t) ==
    \/ t = s
    \/ \E l \in Entries(s), e \in Slot : Rewritten(s, t, l, e)
    \/ \E d \in Dirs(s), k \in Keys, l \in Locs(t), e \in Slot :
          MayAdd(s, d, k, e) /\ Added(s, t, d, l, e)
    \/ \E l \in Entries(s) : MayRemove(s, l) /\ Removed(s, t, l)

\* Exists in terms of entries.
LEMMA NotExists ==
    ASSUME Good(fat, slots, open), NEW d \in Cluster, NEW k, ~Exists(d, k)
    PROVE  \A m \in Entries(slots) : m[1] = d => At(slots, m).name # k
<1>1. ASSUME NEW m \in Entries(slots), m[1] = d
      PROVE  At(slots, m).name # k
  <2>1. m[2] \in DOMAIN slots[d] /\ At(slots, m) = slots[d][m[2]] /\ Occupied(At(slots, m))
    BY <1>1, LocsFacts DEF Good, Entries, At
  <2> QED BY <2>1 DEF Exists
<1> QED
  BY <1>1

\* create_file adds a file.
LEMMA CreateFileStep ==
    ASSUME Good(fat, slots, open), NEW d \in Dirs(slots), NEW k \in Keys, CreateFile(d, k)
    PROVE  EntryStep(slots, slots')
<1>0. d \in Cluster
  BY DirsAreHeads, HeadsType DEF Good
<1>1. CASE UNCHANGED slots
  BY <1>1 DEF EntryStep
<1>2. CASE ~Exists(d, k) /\ AddEntry(fat, slots, d, File(k))
  <2> DEFINE e == File(k)
             r == FillFreeDirSlot(fat, slots, d)
             l == <<d, r.index>>
  <2>1. e \in Slot /\ Occupied(e) /\ e.kind = "File" /\ e.name = ShortName[k]
    BY EmptyClusterType DEF File, Occupied
  <2>2. slots' = RefreshDirSize(Put(r.slots, l, e), d)
    BY <1>2 DEF AddEntry, Put
  <2> HIDE DEF e
  <2>3. Added(slots, slots', d, l, e)
    BY <2>1, <2>2, <1>0, AddEntryAdds DEF Good
  <2>4. MayAdd(slots, d, k, e)
    BY <2>1, <1>0, <1>2, NotExists DEF MayAdd
  <2>5. l \in Locs(slots')
    BY <2>3 DEF Added, Entries
  <2> HIDE DEF l
  <2> QED BY <2>1, <2>3, <2>4, <2>5 DEF EntryStep
<1> QED
  BY <1>1, <1>2 DEF CreateFile, Fail

\* mkdir adds a directory whose first cluster was free.
LEMMA MkdirStep ==
    ASSUME Good(fat, slots, open), NEW d \in Dirs(slots), NEW k \in Keys, Mkdir(d, k)
    PROVE  EntryStep(slots, slots')
<1> DEFINE new == Min(FreeClusters(fat))
           fat1 == Extend(fat, FREE, 1)
           slots1 == [slots EXCEPT ![new] = EmptyCluster]
<1>0. d \in Cluster /\ d \in HeadsOf(slots) /\ HeadsOf(slots) \in SUBSET Cluster
  BY DirsAreHeads, HeadsType DEF Good
<1>1. CASE UNCHANGED slots
  BY <1>1 DEF EntryStep
<1>2. CASE /\ ~Exists(d, k) /\ FreeClusters(fat) # {}
           /\ AddEntry(fat1, slots1, d, Directory(k, new))
  <2> DEFINE e == Directory(k, new)
             r == FillFreeDirSlot(fat1, slots1, d)
             l == <<d, r.index>>
  <2>1. new \in Cluster /\ new \notin HeadsOf(slots)
    <3>1. new \in Cluster /\ fat[new] = FREE
      BY <1>2, NewHeadsAre DEF Good
    <3> HIDE DEF new
    <3> QED BY <3>1, <1>0, FreeUnlinked DEF Good
  <2>2. slots' = RefreshDirSize(Put(r.slots, l, e), d)
    BY <1>2 DEF AddEntry, Put
  <2> HIDE DEF new
  <2>3. /\ e \in Slot /\ Occupied(e) /\ e.start = new /\ e.name = ShortName[k]
        /\ e.size = 0
    <3>1. e \in Slot
      BY <2>1, EmptyClusterType
    <3> QED BY <3>1 DEF Directory, File, Occupied
  <2> HIDE DEF e
  <2>4. fat1 \in [Cluster -> FatEntry]
    BY ExtendType DEF Good
  <2>5. slots1 \in Streams /\ Grown(slots, slots1)
    BY <2>1, NewStreamGrown
  <2> HIDE DEF slots1, fat1
  <2>6. Added(slots1, slots', d, l, e)
    BY <2>1, <2>2, <2>3, <2>4, <2>5, <1>0, AddEntryAdds
  <2>7. Entries(slots1) = Entries(slots)
        /\ \A m \in Entries(slots) : At(slots1, m) = At(slots, m)
    BY <2>5, GrownEntries
  <2>8. Added(slots, slots', d, l, e)
    BY <2>6, <2>7 DEF Added, Renewed
  <2>9. MayAdd(slots, d, k, e)
    BY <2>1, <2>3, <1>0, <1>2, NotExists DEF MayAdd
  <2>10. l \in Locs(slots')
    BY <2>8 DEF Added, Entries
  <2> HIDE DEF l
  <2> QED BY <2>3, <2>8, <2>9, <2>10 DEF EntryStep
<1> QED
  BY <1>1, <1>2 DEF Mkdir, Fail

\* rm removes a file.
LEMMA RmStep ==
    ASSUME Good(fat, slots, open), NEW l \in Locs(slots), Rm(l)
    PROVE  EntryStep(slots, slots')
<1>1. CASE Entry(l).kind = "File" /\ RemoveEntry(l)
  <2>1. Occupied(Entry(l)) /\ Entry(l).kind # "Directory" /\ Entry(l) = At(slots, l)
    BY <1>1 DEF Occupied, Entry, At
  <2>2. Removed(slots, slots', l)
    BY <2>1, <1>1, RemoveEntryRemoves
  <2> QED BY <2>1, <2>2 DEF EntryStep, MayRemove, Removed
<1> QED
  BY <1>1 DEF Rm, Fail, EntryStep

\* rmdir removes a directory that holds no entry.
LEMMA RmdirStep ==
    ASSUME Good(fat, slots, open), NEW l \in Locs(slots), Rmdir(l)
    PROVE  EntryStep(slots, slots')
<1>1. CASE /\ Entry(l).kind = "Directory" /\ Count(slots[Entry(l).start]) = 0
           /\ RemoveEntry(l)
  <2>1. Occupied(Entry(l)) /\ Entry(l) = At(slots, l)
    BY <1>1 DEF Occupied, Entry, At
  <2>2. Removed(slots, slots', l)
    BY <2>1, <1>1, RemoveEntryRemoves
  <2>3. ASSUME NEW m \in Entries(slots), m[1] = Entry(l).start
        PROVE  FALSE
    <3>1. /\ m[1] \in Cluster /\ m[2] \in DOMAIN slots[m[1]] /\ slots[m[1]] \in Seq(Slot)
          /\ Occupied(slots[m[1]][m[2]])
      BY LocsFacts DEF Good, Entries, At
    <3>2. Count(slots[m[1]]) = 0
      BY <1>1, <2>3
    <3> QED BY <3>1, <3>2, CountZero
  <2> QED BY <2>1, <2>2, <2>3 DEF EntryStep, MayRemove, Removed
<1> QED
  BY <1>1 DEF Rmdir, Fail, EntryStep

\* A growing write rewrites the entry of a file.
LEMMA GrowStep ==
    ASSUME Good(fat, slots, open), NEW l \in Locs(slots), Entry(l).kind = "File",
           NEW end \in Nat, CanWrite(Entry(l), end), WriteFcb(l, Written(Entry(l), end))
    PROVE  EntryStep(slots, slots')
<1> DEFINE e == Written(Entry(l), end)
<1>1. Entry(l) \in Slot /\ Entry(l) = At(slots, l)
  BY LocsFacts DEF Good, Entry, At
<1>2. e \in Slot /\ e.kind = "File"
  BY <1>1, WrittenFacts DEF Good
<1>3. e.name = Entry(l).name
  BY <1>1 DEF Written, Slot
<1>4. slots' = Put(slots, l, e)
  BY DEF WriteFcb, Put
<1> HIDE DEF e
<1>5. Rewritten(slots, slots', l, e)
  BY <1>1, <1>2, <1>3, <1>4, PutRewrites DEF Good
<1> QED
  BY <1>2, <1>5 DEF EntryStep, Rewritten

\* write_at.
LEMMA WriteAtStep ==
    ASSUME Good(fat, slots, open), NEW l \in Locs(slots), NEW offset \in Nat,
           NEW len \in Nat, WriteAt(l, offset, len)
    PROVE  EntryStep(slots, slots')
<1>1. offset + len \in Nat
  OBVIOUS
<1> QED
  BY <1>1, GrowStep DEF WriteAt, Fail, EntryStep

\* write_handle, at the place of the handle.
LEMMA WriteHandleStep ==
    ASSUME Good(fat, slots, open), NEW h \in Handle, NEW len \in Nat, WriteHandle(h, len)
    PROVE  EntryStep(slots, slots')
<1>1. CASE UNCHANGED slots
  BY <1>1 DEF EntryStep
<1>2. CASE /\ IsOpen(h) /\ CanWrite(Entry(LocOf(h)), open[h].cursor + len)
           /\ WriteFcb(LocOf(h), Written(Entry(LocOf(h)), open[h].cursor + len))
  <2>1. /\ LocOf(h) \in Locs(slots) /\ Entry(LocOf(h)).kind = "File"
        /\ open[h].cursor + len \in Nat
    BY <1>2, OpenTypes
  <2> QED BY <1>2, <2>1, GrowStep
<1> QED
  BY <1>1, <1>2 DEF WriteHandle, Fail

\* truncate.
LEMMA TruncateStep ==
    ASSUME Good(fat, slots, open), NEW l \in Locs(slots), NEW size \in Nat,
           Truncate(l, size) \/ Resize(l, size)
    PROVE  EntryStep(slots, slots')
<1>1. CASE UNCHANGED slots
  BY <1>1 DEF EntryStep
<1>2. CASE /\ Entry(l).kind = "File" /\ CanWrite(Entry(l), size)
           /\ WriteFcb(l, Written(Entry(l), size))
  BY <1>2, GrowStep
<1>3. CASE Entry(l).kind = "File" /\ Shrink(l, size)
  <2> DEFINE start == IF CeilDiv(size, ClusterSize) = 0 THEN FREE ELSE Entry(l).start
             e == [[Entry(l) EXCEPT !.size = size] EXCEPT !.start = start]
  <2>1. Entry(l) \in Slot /\ Entry(l) = At(slots, l)
    BY LocsFacts DEF Good, Entry, At
  <2>2. start \in Cluster \cup {FREE}
    BY <2>1 DEF Slot
  <2>3. slots' = Put(slots, l, e)
    BY <1>3, <2>1 DEF Shrink, WriteFcb, Put, Slot
  <2> HIDE DEF start
  <2>4. e \in Slot /\ e.kind = "File" /\ e.name = Entry(l).name
    BY <2>1, <2>2, <1>3 DEF Slot
  <2> HIDE DEF e
  <2>5. Rewritten(slots, slots', l, e)
    BY <2>1, <2>3, <2>4, <1>3, PutRewrites DEF Good
  <2> QED BY <2>4, <2>5 DEF EntryStep, Rewritten
<1> QED
  BY <1>1, <1>2, <1>3 DEF Truncate, Resize, Fail

\* What every call makes of the entries.
LEMMA EntriesChange ==
    ASSUME Good(fat, slots, open), [Next]_vars
    PROVE  EntryStep(slots, slots')
<1>1. CASE DirectoryStep
  BY <1>1, CreateFileStep, MkdirStep, RmStep, RmdirStep
     DEF DirectoryStep, Open, Fail, EntryStep
<1>2. CASE FileStep
  BY <1>2, WriteAtStep, TruncateStep, ParameterTypes DEF FileStep
<1>3. CASE HandleStep
  <2>1. ASSUME NEW h \in Handle, NEW size \in Nat, TruncateHandle(h, size)
        PROVE  EntryStep(slots, slots')
    <3>1. CASE IsOpen(h) /\ Truncate(LocOf(h), size)
      BY <3>1, OpenTypes, TruncateStep
    <3> QED BY <2>1, <3>1 DEF TruncateHandle, Fail, EntryStep
  <2>2. ASSUME NEW h \in Handle, CloseHandle(h) PROVE EntryStep(slots, slots')
    BY <2>2 DEF CloseHandle, Fail, EntryStep
  <2>3. ASSUME NEW h \in Handle, NEW pos, SeekHandle(h, pos) PROVE EntryStep(slots, slots')
    BY <2>3 DEF SeekHandle, MoveCursor, Fail, EntryStep
  <2>4. ASSUME NEW h \in Handle, NEW len, ReadHandle(h, len) PROVE EntryStep(slots, slots')
    BY <2>4 DEF ReadHandle, MoveCursor, Fail, EntryStep
  <2> QED BY <1>3, <2>1, <2>2, <2>3, <2>4, WriteHandleStep, ParameterTypes DEF HandleStep
<1>4. CASE UNCHANGED vars
  BY <1>4 DEF vars, EntryStep
<1> QED
  BY <1>1, <1>2, <1>3, <1>4 DEF Next

-----------------------------------------------------------------------------
(* Sizes, names and the tree.                                              *)

\* DirSizeCurrent, NamesUnique and TreeRooted in terms of entries.
SizesCurrent(s) ==
    \A l \in Entries(s) :
        At(s, l).kind = "Directory" => At(s, l).size = Count(s[At(s, l).start])
NamesApart(s) ==
    \A l, m \in Entries(s) : l[1] = m[1] /\ At(s, l).name = At(s, m).name => l = m
\* D has the root and, with a directory, those in it.
Closed(s, D) ==
    /\ Root \in D
    /\ \A l \in Entries(s) :
          At(s, l).kind = "Directory" /\ l[1] \in D => At(s, l).start \in D
Rooted(s) == \A D \in SUBSET Dirs(s) : Closed(s, D) => D = Dirs(s)

\* The directories are the root and those that entries name.
LEMMA DirsOfEntries ==
    ASSUME NEW s
    PROVE  /\ Root \in Dirs(s)
           /\ \A l \in Entries(s) :
                 At(s, l).kind = "Directory" => At(s, l).start \in Dirs(s)
           /\ \A d \in Dirs(s) : d # Root =>
                 \E l \in Entries(s) : At(s, l).kind = "Directory" /\ At(s, l).start = d
BY OwnersFacts DEF Entries, Occupied

\* An entry that names a cluster makes it a head, and is the only one to name it.
LEMMA EntryHeads ==
    ASSUME NEW s, StartsSound(s), NEW l \in Entries(s), At(s, l).kind = "Directory"
    PROVE  /\ At(s, l).start \in HeadsOf(s) \ {Root, FREE}
           /\ \A m \in Entries(s) : At(s, m).start = At(s, l).start => m = l
<1>1. l \in Owners(s) /\ At(s, l).start # FREE
  BY OwnersFacts DEF Owns, Entries
<1>2. ASSUME NEW m \in Entries(s), At(s, m).start = At(s, l).start
      PROVE  m = l
  <2>1. m \in Owners(s)
    BY <1>1, <1>2, OwnersFacts DEF Owns, Entries
  <2> QED BY <1>1, <1>2, <2>1, OwnersFacts
<1> QED
  BY <1>1, <1>2, OwnersFacts

\* DirSizeCurrent in terms of entries, ...
LEMMA DirSizeCurrentIs == DirSizeCurrent <=> SizesCurrent(slots)
BY DEF DirSizeCurrent, SizesCurrent, Entries, Entry, At, Occupied

\* ... and after a step.
LEMMA DirSizeCurrentNext == DirSizeCurrent' <=> SizesCurrent(slots')
BY DEF DirSizeCurrent, SizesCurrent, Entries, Entry, At, Occupied

\* Nothing is in a cluster that is no head.
LEMMA NothingElsewhere ==
    ASSUME NEW s \in Streams, StartsSound(s), StreamsOwned(s, {}),
           NEW c \in Cluster, c \notin HeadsOf(s)
    PROVE  \A m \in Entries(s) : m[1] # c
<1>1. s[c] = <<>>
  BY DirsAreHeads DEF StreamsOwned
<1>2. \A m \in Entries(s) : m[1] = c => m[2] \in DOMAIN s[c]
  BY LocsFacts DEF Entries
<1> QED
  BY <1>1, <1>2

\* A stream without entries counts none.
LEMMA CountNothing ==
    ASSUME NEW s \in Streams, NEW c \in Cluster, \A m \in Entries(s) : m[1] # c
    PROVE  Count(s[c]) = 0
<1>1. \A i \in DOMAIN s[c] : ~Occupied(s[c][i])
  <2>1. ASSUME NEW i \in DOMAIN s[c], Occupied(s[c][i]) PROVE FALSE
    <3>1. <<c, i>> \in Entries(s)
      BY <2>1, InLocs DEF Entries, At
    <3> QED BY <3>1
  <2> QED BY <2>1
<1>2. {i \in DOMAIN s[c] : Occupied(s[c][i])} = {}
  BY <1>1
<1> QED
  BY <1>2, FS_EmptySet DEF Count

\* Every call leaves the sizes of directories current.
LEMMA SizesKept ==
    ASSUME NEW s \in Streams, NEW t \in Streams, StartsSound(s), StreamsOwned(s, {}),
           EntryStep(s, t), SizesCurrent(s)
    PROVE  SizesCurrent(t)
<1>1. SUFFICES ASSUME NEW l \in Entries(t), At(t, l).kind = "Directory", t # s
               PROVE  At(t, l).size = Count(t[At(t, l).start])
  BY DEF SizesCurrent
<1>2. \A m \in Entries(s) : At(s, m).kind = "Directory" => At(s, m).start \in Cluster
  <2>1. \A m \in Entries(s) : At(s, m) \in Slot
    BY LocsFacts DEF Entries
  <2>2. \A m \in Entries(s) : At(s, m).kind = "Directory" => At(s, m).start # FREE
    BY EntryHeads
  <2> QED BY <2>1, <2>2 DEF Slot
<1>3. ASSUME NEW k \in Entries(s), NEW e \in Slot, Rewritten(s, t, k, e)
      PROVE  At(t, l).size = Count(t[At(t, l).start])
  <2>1. l # k /\ At(t, l) = At(s, l) /\ l \in Entries(s)
    BY <1>1, <1>3 DEF Rewritten
  <2>2. Count(t[At(s, l).start]) = Count(s[At(s, l).start])
    BY <2>1, <1>1, <1>2, <1>3, CountSame DEF Rewritten
  <2> QED BY <2>1, <2>2, <1>1 DEF SizesCurrent
\* The size was renewed if it is of the directory that changed, else nothing changed.
<1>4. ASSUME NEW d, Renewed(s, t, d, l), l \in Entries(s),
             \A m : m[1] # d => (m \in Entries(s) <=> m \in Entries(t))
      PROVE  At(t, l).size = Count(t[At(t, l).start])
  <2>1. At(s, l).kind = "Directory" /\ At(t, l).start = At(s, l).start
    BY <1>1, <1>4 DEF Renewed
  <2>2. CASE At(s, l).start = d
    BY <2>1, <2>2, <1>4 DEF Renewed
  <2>3. CASE At(s, l).start # d
    <3>1. Count(t[At(s, l).start]) = Count(s[At(s, l).start])
      BY <2>1, <2>3, <1>2, <1>4, CountSame
    <3> QED BY <2>1, <2>3, <3>1, <1>4 DEF Renewed, SizesCurrent
  <2> QED BY <2>2, <2>3
<1>5. ASSUME NEW d \in Dirs(s), NEW k \in Keys, NEW m \in Locs(t), NEW e \in Slot,
             MayAdd(s, d, k, e), Added(s, t, d, m, e)
      PROVE  At(t, l).size = Count(t[At(t, l).start])
  <2>1. CASE l = m
    <3>1. At(t, l) = e /\ e.start \in Cluster /\ e.start \notin HeadsOf(s) /\ e.size = 0
      BY <2>1, <1>1, <1>5 DEF Added, MayAdd
    <3>2. d # e.start
      BY <3>1, DirsAreHeads
    <3>3. \A n \in Entries(t) : n[1] # e.start
      BY <3>1, <3>2, <1>5, NothingElsewhere DEF Added
    <3> QED BY <3>1, <3>3, CountNothing
  <2>2. CASE l # m
    BY <2>2, <1>1, <1>4, <1>5 DEF Added
  <2> QED BY <2>1, <2>2
<1>6. ASSUME NEW m \in Entries(s), Removed(s, t, m)
      PROVE  At(t, l).size = Count(t[At(t, l).start])
  BY <1>1, <1>4, <1>6 DEF Removed
<1> QED
  BY <1>1, <1>3, <1>5, <1>6 DEF EntryStep

\* Formatting leaves no entry.
LEMMA InitEntries == Init => Entries(slots) = {}
<1> SUFFICES ASSUME Init PROVE Entries(slots) = {}
  OBVIOUS
<1>1. slots \in Streams
  BY InitGood DEF Good
<1>2. \A c \in Cluster : slots[c] = IF c = Root THEN EmptyCluster ELSE <<>>
  BY DEF Init
<1>3. ASSUME NEW l \in Locs(slots)
      PROVE  ~Occupied(At(slots, l))
  <2>1. l[1] \in Cluster /\ l[2] \in DOMAIN slots[l[1]]
    BY <1>1, LocsFacts
  <2>2. l[1] = Root
    BY <2>1, <1>2
  <2> QED BY <2>1, <2>2, <1>2, EmptyClusterType DEF At
<1> QED
  BY <1>3 DEF Entries

\* The size recorded for a directory is always the number of its entries.
THEOREM SizesStayCurrent == Spec => []DirSizeCurrent
<1>1. Init => DirSizeCurrent
  BY InitEntries, DirSizeCurrentIs DEF SizesCurrent
<1>2. IInv /\ IInv' /\ DirSizeCurrent /\ [Next]_vars => DirSizeCurrent'
  <2> SUFFICES ASSUME IInv, IInv', DirSizeCurrent, [Next]_vars PROVE DirSizeCurrent'
    OBVIOUS
  <2>1. Good(fat, slots, open) /\ slots' \in Streams
    BY GoodIs, GoodNext DEF Good
  <2>2. EntryStep(slots, slots')
    BY <2>1, EntriesChange
  <2> QED BY <2>1, <2>2, SizesKept, DirSizeCurrentIs, DirSizeCurrentNext DEF Good
<1> QED
  BY <1>1, <1>2, Invariance, PTL DEF Spec

\* NamesUnique in terms of entries.
LEMMA NamesUniqueIs ==
    ASSUME NEW s \in Streams
    PROVE  NamesApart(s) <=>
             \A d \in Cluster : \A i, j \in DOMAIN s[d] :
                Occupied(s[d][i]) /\ Occupied(s[d][j]) /\ s[d][i].name = s[d][j].name
                => i = j
<1>1. ASSUME NamesApart(s), NEW d \in Cluster, NEW i \in DOMAIN s[d], NEW j \in DOMAIN s[d],
             Occupied(s[d][i]), Occupied(s[d][j]), s[d][i].name = s[d][j].name
      PROVE  i = j
  <2>1. <<d, i>> \in Entries(s) /\ <<d, j>> \in Entries(s)
    BY <1>1, InLocs DEF Entries, At
  <2> DEFINE l == <<d, i>>
             m == <<d, j>>
  <2>2. l[1] = m[1] /\ At(s, l).name = At(s, m).name
    BY <1>1 DEF At
  <2>3. l = m
    BY <2>1, <2>2, <1>1 DEF NamesApart
  <2> QED BY <2>3
<1>2. ASSUME \A d \in Cluster : \A i, j \in DOMAIN s[d] :
                Occupied(s[d][i]) /\ Occupied(s[d][j]) /\ s[d][i].name = s[d][j].name
                => i = j,
             NEW l \in Entries(s), NEW m \in Entries(s),
             l[1] = m[1], At(s, l).name = At(s, m).name
      PROVE  l = m
  <2>1. /\ l[1] \in Cluster /\ l[2] \in DOMAIN s[l[1]] /\ l = <<l[1], l[2]>>
        /\ Occupied(s[l[1]][l[2]]) /\ At(s, l) = s[l[1]][l[2]]
    BY LocsFacts DEF Entries, At
  <2>2. /\ m[2] \in DOMAIN s[m[1]] /\ m = <<m[1], m[2]>>
        /\ Occupied(s[m[1]][m[2]]) /\ At(s, m) = s[m[1]][m[2]]
    BY LocsFacts DEF Entries, At
  <2>3. l[2] = m[2]
    BY <2>1, <2>2, <1>2
  <2> QED BY <2>1, <2>2, <2>3, <1>2
<1> QED
  BY <1>1, <1>2 DEF NamesApart

\* A call that adds an entry has looked for its name, if names are stored as they are.
LEMMA NamesKept ==
    ASSUME NEW s, NEW t, \A k \in Keys : ShortName[k] = k,
           EntryStep(s, t), NamesApart(s)
    PROVE  NamesApart(t)
<1>1. SUFFICES ASSUME NEW l \in Entries(t), NEW m \in Entries(t), l[1] = m[1],
                      At(t, l).name = At(t, m).name, t # s
               PROVE  l = m
  BY DEF NamesApart
<1>2. ASSUME NEW n \in Entries(s), NEW e \in Slot, Rewritten(s, t, n, e)
      PROVE  l = m
  <2>1. \A x \in Entries(s) : At(t, x).name = At(s, x).name
    BY <1>2 DEF Rewritten
  <2> QED BY <2>1, <1>1, <1>2 DEF Rewritten, NamesApart
<1>3. ASSUME NEW d \in Dirs(s), NEW k \in Keys, NEW n \in Locs(t), NEW e \in Slot,
             MayAdd(s, d, k, e), Added(s, t, d, n, e)
      PROVE  l = m
  <2>1. \A x \in Entries(s) : At(t, x).name = At(s, x).name
    BY <1>3 DEF Added, Renewed
  <2>2. At(t, n).name = k /\ n[1] = d
    BY <1>3 DEF Added, MayAdd
  <2>3. \A x \in Entries(s) : x[1] = n[1] => At(t, x).name # At(t, n).name
    BY <2>1, <2>2, <1>3 DEF MayAdd
  <2>4. l \in Entries(s) \cup {n} /\ m \in Entries(s) \cup {n}
    BY <1>1, <1>3 DEF Added
  <2> QED BY <2>1, <2>3, <2>4, <1>1 DEF NamesApart
<1>4. ASSUME NEW n \in Entries(s), Removed(s, t, n)
      PROVE  l = m
  <2>1. \A x \in Entries(t) : At(t, x).name = At(s, x).name /\ x \in Entries(s)
    BY <1>4 DEF Removed, Renewed
  <2> QED BY <2>1, <1>1 DEF NamesApart
<1> QED
  BY <1>1, <1>2, <1>3, <1>4 DEF EntryStep

\* No directory holds two entries of one name, for whatever keys are stored as they are
\* looked up.
THEOREM NamesStayUnique ==
    ASSUME \A k \in Keys : ShortName[k] = k
    PROVE  Spec => []NamesUnique
<1>1. IInv => (NamesUnique <=> NamesApart(slots))
  <2> SUFFICES ASSUME IInv PROVE NamesUnique <=> NamesApart(slots)
    OBVIOUS
  <2>1. slots \in Streams
    BY GoodIs DEF Good
  <2> QED BY <2>1, NamesUniqueIs DEF NamesUnique
<1>2. IInv' => (NamesUnique' <=> NamesApart(slots'))
  <2> SUFFICES ASSUME IInv' PROVE NamesUnique' <=> NamesApart(slots')
    OBVIOUS
  <2>1. slots' \in Streams
    BY GoodNext DEF Good
  <2> QED BY <2>1, NamesUniqueIs DEF NamesUnique
<1>3. Init /\ IInv => NamesUnique
  BY <1>1, InitEntries DEF NamesApart
<1>4. IInv /\ IInv' /\ NamesUnique /\ [Next]_vars => NamesUnique'
  <2> SUFFICES ASSUME IInv, IInv', NamesUnique, [Next]_vars PROVE NamesUnique'
    OBVIOUS
  <2>1. EntryStep(slots, slots')
    BY GoodIs, EntriesChange
  <2> QED BY <2>1, <1>1, <1>2, NamesKept
<1> QED
  BY <1>3, <1>4, Invariance, PTL DEF Spec

\* TreeRooted in terms of entries.
LEMMA TreeRootedIs == Good(fat, slots, open) => (TreeRooted <=> Rooted(slots))
<1> SUFFICES ASSUME Good(fat, slots, open) PROVE TreeRooted <=> Rooted(slots)
  OBVIOUS
<1>1. StartsSound(slots)
  BY DEF Good
<1>2. ~ \E l \in Locs(slots) : Entry(l).kind = "Directory" /\ Entry(l).start = Root
  BY <1>1, EntryHeads DEF Entries, Occupied, Entry, At
<1>3. ASSUME NEW l \in Entries(slots), At(slots, l).kind = "Directory"
      PROVE  Parent(At(slots, l).start) = l[1]
  <2> DEFINE P(m) == m \in Locs(slots) /\ Entry(m).kind = "Directory"
                     /\ Entry(m).start = At(slots, l).start
  <2>1. P(l) /\ \A m : P(m) => m = l
    BY <1>1, <1>3, EntryHeads DEF Entries, Occupied, Entry, At
  <2>2. (CHOOSE m \in Locs(slots) : Entry(m).kind = "Directory"
                     /\ Entry(m).start = At(slots, l).start) = l
    BY <2>1
  <2> QED BY <2>2 DEF Parent
<1>4. ASSUME NEW D \in SUBSET Dirs(slots)
      PROVE  Under(D) \subseteq D <=> Closed(slots, D)
  <2>1. ASSUME Under(D) \subseteq D
        PROVE  Closed(slots, D)
    <3>1. Root \in D
      BY <2>1, DirsOfEntries DEF Under
    <3>2. ASSUME NEW l \in Entries(slots), At(slots, l).kind = "Directory", l[1] \in D
          PROVE  At(slots, l).start \in D
      BY <2>1, <3>2, <1>3, DirsOfEntries DEF Under
    <3> QED BY <3>1, <3>2 DEF Closed
  <2>2. ASSUME Closed(slots, D), NEW d \in Under(D)
        PROVE  d \in D
    <3>1. d \in Dirs(slots) /\ (d = Root \/ Parent(d) \in D)
      BY <2>2 DEF Under
    <3>2. CASE d = Root
      BY <2>2, <3>2 DEF Closed
    <3>3. CASE d # Root
      <4>1. PICK l \in Entries(slots) : At(slots, l).kind = "Directory"
                                        /\ At(slots, l).start = d
        BY <3>1, <3>3, DirsOfEntries
      <4>2. l[1] \in D
        BY <4>1, <3>1, <3>3, <1>3
      <4> QED BY <4>1, <4>2, <2>2 DEF Closed
    <3> QED BY <3>2, <3>3
  <2> QED BY <2>1, <2>2
<1> QED
  BY <1>2, <1>4 DEF TreeRooted, Rooted

\* A call that changes no directory entry changes neither directories nor the tree.
LEMMA SameTree ==
    ASSUME NEW s, NEW t, Rooted(s),
           \A m : m \in Entries(s) /\ At(s, m).kind = "Directory"
                  <=> m \in Entries(t) /\ At(t, m).kind = "Directory",
           \A m \in Entries(s) :
              At(s, m).kind = "Directory" => At(t, m).start = At(s, m).start
    PROVE  Rooted(t)
<1>1. Dirs(t) = Dirs(s)
  <2>1. \A d \in Dirs(t) : d \in Dirs(s)
    BY DirsOfEntries
  <2>2. \A d \in Dirs(s) : d \in Dirs(t)
    BY DirsOfEntries
  <2> QED BY <2>1, <2>2
<1>2. \A D : Closed(t, D) => Closed(s, D)
  BY DEF Closed
<1> QED
  BY <1>1, <1>2 DEF Rooted

\* A new directory hangs in one that hangs in the tree.
LEMMA AddedTree ==
    ASSUME NEW s \in Streams, NEW t, StartsSound(s), Rooted(s), NEW d \in Dirs(s),
           NEW l, NEW e,
           Added(s, t, d, l, e), e.kind = "Directory", e.start \notin HeadsOf(s)
    PROVE  Rooted(t)
<1> DEFINE new == e.start
<1>1. /\ Entries(t) = Entries(s) \cup {l} /\ l \notin Entries(s)
      /\ At(t, l) = e /\ l[1] = d
      /\ \A m \in Entries(s) : At(t, m).kind = At(s, m).kind
            /\ At(t, m).start = At(s, m).start
  BY DEF Added, Renewed
<1>2. new \notin Dirs(s) /\ Root \in Dirs(s)
  BY DirsAreHeads, DirsOfEntries
<1>3. \A c \in Dirs(t) : c \in Dirs(s) \cup {new}
  BY <1>1, DirsOfEntries
<1>4. SUFFICES ASSUME NEW D \in SUBSET Dirs(t), Closed(t, D)
               PROVE  D = Dirs(t)
  BY DEF Rooted
<1>5. D \ {new} \in SUBSET Dirs(s)
  BY <1>3
<1>6. Closed(s, D \ {new})
  <2>1. Root \in D \ {new}
    BY <1>2, <1>4 DEF Closed
  <2>2. ASSUME NEW m \in Entries(s), At(s, m).kind = "Directory", m[1] \in D \ {new}
        PROVE  At(s, m).start \in D \ {new}
    <3>1. At(t, m).start \in D
      BY <2>2, <1>1, <1>4 DEF Closed
    <3>2. At(s, m).start \in Dirs(s)
      BY <2>2, DirsOfEntries
    <3> QED BY <3>1, <3>2, <1>1, <1>2
  <2> QED BY <2>1, <2>2 DEF Closed
<1>7. D \ {new} = Dirs(s)
  BY <1>5, <1>6 DEF Rooted
<1>8. new \in D
  BY <1>1, <1>4, <1>7 DEF Closed
<1> QED
  BY <1>3, <1>4, <1>7, <1>8

\* A removed directory was a leaf.
LEMMA RemovedTree ==
    ASSUME NEW s, NEW t, StartsSound(s), Rooted(s), NEW l, Removed(s, t, l),
           MayRemove(s, l), At(s, l).kind = "Directory"
    PROVE  Rooted(t)
<1> DEFINE gone == At(s, l).start
<1>1. /\ Entries(t) = Entries(s) \ {l} /\ l \in Entries(s)
      /\ \A m \in Entries(t) : At(t, m).kind = At(s, m).kind
            /\ At(t, m).start = At(s, m).start
  BY DEF Removed, Renewed
<1>2. gone # Root /\ \A m \in Entries(s) : At(s, m).start = gone => m = l
  BY <1>1, EntryHeads
<1>3. \A m \in Entries(s) : m[1] # gone
  BY DEF MayRemove
<1>4. Dirs(t) = Dirs(s) \ {gone}
  <2>1. \A c \in Dirs(t) : c \in Dirs(s) /\ c # gone
    BY <1>1, <1>2, DirsOfEntries
  <2>2. \A c \in Dirs(s) : c # gone => c \in Dirs(t)
    BY <1>1, DirsOfEntries
  <2> QED BY <2>1, <2>2
<1>5. SUFFICES ASSUME NEW D \in SUBSET Dirs(t), Closed(t, D)
               PROVE  D = Dirs(t)
  BY DEF Rooted
<1>6. D \cup {gone} \in SUBSET Dirs(s)
  BY <1>1, <1>4, DirsOfEntries
<1>7. Closed(s, D \cup {gone})
  <2>1. ASSUME NEW m \in Entries(s), At(s, m).kind = "Directory", m[1] \in D \cup {gone}
        PROVE  At(s, m).start \in D \cup {gone}
    <3>1. m[1] \in D
      BY <2>1, <1>3
    <3> QED BY <3>1, <2>1, <1>1, <1>5 DEF Closed
  <2> QED BY <2>1, <1>5 DEF Closed
<1>8. D \cup {gone} = Dirs(s)
  BY <1>6, <1>7 DEF Rooted
<1> QED
  BY <1>4, <1>5, <1>8

\* Every call leaves a tree.
LEMMA TreeKept ==
    ASSUME NEW s \in Streams, NEW t, StartsSound(s), EntryStep(s, t), Rooted(s)
    PROVE  Rooted(t)
<1>1. ASSUME NEW l \in Entries(s), NEW e \in Slot, Rewritten(s, t, l, e)
      PROVE  Rooted(t)
  <2>1. At(s, l).kind # "Directory" /\ At(t, l).kind # "Directory"
    BY <1>1 DEF Rewritten
  <2> QED BY <2>1, <1>1, SameTree DEF Rewritten
<1>2. ASSUME NEW d \in Dirs(s), NEW k \in Keys, NEW l \in Locs(t), NEW e \in Slot,
             MayAdd(s, d, k, e), Added(s, t, d, l, e)
      PROVE  Rooted(t)
  <2>1. CASE e.kind = "Directory"
    BY <2>1, <1>2, AddedTree DEF MayAdd
  <2>2. CASE e.kind # "Directory"
    BY <2>2, <1>2, SameTree DEF Added, Renewed
  <2> QED BY <2>1, <2>2
<1>3. ASSUME NEW l \in Entries(s), MayRemove(s, l), Removed(s, t, l)
      PROVE  Rooted(t)
  <2>1. CASE At(s, l).kind = "Directory"
    BY <2>1, <1>3, RemovedTree
  <2>2. CASE At(s, l).kind # "Directory"
    BY <2>2, <1>3, SameTree DEF Removed, Renewed
  <2> QED BY <2>1, <2>2
<1> QED
  BY <1>1, <1>2, <1>3 DEF EntryStep

\* The directories always form a tree under the root.
THEOREM TreeStaysRooted == Spec => []TreeRooted
<1>1. IInv' => (TreeRooted' <=> Rooted(slots'))
  <2>1. IInv => (TreeRooted <=> Rooted(slots))
    BY GoodIs, TreeRootedIs
  <2>2. (IInv => (TreeRooted <=> Rooted(slots)))'
    BY <2>1, PTL
  <2> QED BY <2>2
<1>2. Init /\ IInv => TreeRooted
  <2>1. ASSUME Init, IInv PROVE Rooted(slots)
    <3>1. Dirs(slots) = {Root}
      BY <2>1, InitEntries, DirsOfEntries
    <3> QED BY <3>1 DEF Rooted, Closed
  <2> QED BY <2>1, GoodIs, TreeRootedIs
<1>3. IInv /\ IInv' /\ TreeRooted /\ [Next]_vars => TreeRooted'
  <2> SUFFICES ASSUME IInv, IInv', TreeRooted, [Next]_vars PROVE TreeRooted'
    OBVIOUS
  <2>1. EntryStep(slots, slots') /\ slots \in Streams /\ StartsSound(slots)
    BY GoodIs, EntriesChange DEF Good
  <2> QED BY <2>1, <1>1, GoodIs, TreeRootedIs, TreeKept
<1> QED
  BY <1>2, <1>3, Invariance, PTL DEF Spec

-----------------------------------------------------------------------------
(* What an operation does to the chains.                                   *)

\* ChainMatchesSize for a table and directory streams.
FilesSized(f, s) ==
    \A m \in Entries(s) : At(s, m).kind = "File" =>
        Len(Chain(f, At(s, m).start)) = CeilDiv(At(s, m).size, ClusterSize)
StreamsSized(f, s) ==
    \A d \in Cluster :
        Len(s[d]) = IF d \in Dirs(s) THEN SlotsPerCluster * Len(Chain(f, d)) ELSE 0

\* The chains of the files whose entries stay as they are.
FilesKept(f, s, g, t) ==
    \A m \in Entries(s) : At(s, m).kind = "File" /\ m \in Entries(t) /\ At(t, m) = At(s, m)
        => Chain(g, At(s, m).start) = Chain(f, At(s, m).start)

\* The allocated clusters that are in no chain.
LostOf(f, H) == {x \in Cluster : f[x] # FREE /\ \A h \in H : x \notin Clusters(f, h)}

\* What every call does to the chains, and what a successful one does.
ChainsKept(f, s, g, t) ==
    FilesSized(g, t) /\ StreamsSized(g, t) /\ FilesKept(f, s, g, t)
ChainStep(f, s, g, t) ==
    ChainsKept(f, s, g, t) /\ LostOf(g, HeadsOf(t)) \subseteq LostOf(f, HeadsOf(s))

\* The heads are the first clusters that entries name.
LEMMA HeadsOfEntries ==
    ASSUME NEW s
    PROVE  /\ Root \in HeadsOf(s)
           /\ \A m \in Entries(s) : At(s, m).start # FREE => At(s, m).start \in HeadsOf(s)
           /\ \A c \in HeadsOf(s) : c # Root =>
                 \E m \in Entries(s) : At(s, m).start = c /\ c # FREE
BY OwnersFacts DEF Entries, Owns

\* No two entries name the same first cluster, and none names the root.
LEMMA StartsApart ==
    ASSUME NEW s, StartsSound(s), NEW l \in Entries(s), At(s, l).start # FREE
    PROVE  /\ At(s, l).start # Root
           /\ \A m \in Entries(s) : At(s, m).start = At(s, l).start => m = l
BY OwnersFacts DEF Entries, Owns

\* FREE is no chain's head.
LEMMA HeadsNotFree ==
    ASSUME NEW s \in Streams
    PROVE  FREE \notin HeadsOf(s) /\ HeadsOf(s) \in SUBSET Cluster
BY HeadsType, ClusterFacts

\* An entry is at a place of a stream, and is a slot.
LEMMA EntryType ==
    ASSUME NEW s \in Streams, NEW m \in Entries(s)
    PROVE  /\ At(s, m) \in Slot /\ At(s, m).start \in HeadsOf(s) \cup {FREE}
           /\ At(s, m).kind \in {"File", "Directory"} /\ m \in Locs(s)
BY LocsFacts, HeadsOfEntries DEF Entries, Occupied

\* A call that leaves the table and the streams alone.
LEMMA ChainStepNone ==
    ASSUME NEW f, NEW s, FilesSized(f, s), StreamsSized(f, s)
    PROVE  ChainStep(f, s, f, s)
BY DEF ChainStep, ChainsKept, FilesKept

\* The entry of a file is rewritten, with another chain or none.
LEMMA RewriteChains ==
    ASSUME NEW f \in [Cluster -> FatEntry], NEW g \in [Cluster -> FatEntry],
           NEW s \in Streams, StartsSound(s), FilesSized(f, s), StreamsSized(f, s),
           NEW l \in Entries(s), NEW e \in Slot, NEW a, a = At(s, l),
           a.kind = "File", e.kind = "File", e.name = a.name,
           \A c \in HeadsOf(s) : c # a.start => Chain(g, c) = Chain(f, c),
           Len(Chain(g, e.start)) = CeilDiv(e.size, ClusterSize),
           \A x \in Cluster : g[x] # FREE =>
              (f[x] # FREE /\ x \notin Clusters(f, a.start)) \/ x \in Clusters(g, e.start),
           e = a => g = f
    PROVE  ChainStep(f, s, g, Put(s, l, e))
<1> DEFINE t == Put(s, l, e)
<1>1. /\ t \in Streams /\ SameShape(s, t)
      /\ Entries(t) = Entries(s)
      /\ \A m \in Entries(s) : At(t, m) = IF m = l THEN e ELSE At(s, m)
  <2>1. t \in Streams /\ SameShape(s, t)
    BY EntryType, PutFacts
  <2>2. Rewritten(s, t, l, e)
    BY EntryType, PutRewrites
  <2> QED BY <2>1, <2>2 DEF Rewritten
<1> HIDE DEF t
<1>2. ASSUME NEW m \in Entries(s), m # l
      PROVE  Chain(g, At(s, m).start) = Chain(f, At(s, m).start)
  <2>1. CASE At(s, m).start = FREE
    BY <2>1, NoClusters
  <2>2. CASE At(s, m).start # FREE
    BY <2>2, <1>2, StartsApart, HeadsOfEntries
  <2> QED BY <2>1, <2>2
<1>3. FilesSized(g, t)
  <2>1. ASSUME NEW m \in Entries(t), At(t, m).kind = "File"
        PROVE  Len(Chain(g, At(t, m).start)) = CeilDiv(At(t, m).size, ClusterSize)
    <3>1. CASE m = l
      BY <3>1, <1>1
    <3>2. CASE m # l
      <4>1. At(t, m) = At(s, m) /\ m \in Entries(s)
        BY <3>2, <1>1
      <4>2. Len(Chain(f, At(s, m).start)) = CeilDiv(At(s, m).size, ClusterSize)
        BY <2>1, <4>1 DEF FilesSized
      <4> QED BY <3>2, <4>1, <4>2, <1>2
    <3> QED BY <3>1, <3>2
  <2> QED BY <2>1 DEF FilesSized
<1>4. Dirs(t) = Dirs(s)
  <2>1. ASSUME NEW m \in Entries(s)
        PROVE  /\ At(s, m).kind = "Directory" <=> At(t, m).kind = "Directory"
               /\ At(s, m).kind = "Directory" => At(t, m).start = At(s, m).start
    BY <2>1, <1>1
  <2>2. Dirs(t) \subseteq Dirs(s)
    <3>1. ASSUME NEW c \in Dirs(t), c # Root PROVE c \in Dirs(s)
      <4>1. PICK m \in Entries(t) : At(t, m).kind = "Directory" /\ At(t, m).start = c
        BY <3>1, DirsOfEntries
      <4> QED BY <4>1, <2>1, <1>1, DirsOfEntries
    <3> QED BY <3>1, DirsOfEntries
  <2>3. Dirs(s) \subseteq Dirs(t)
    <3>1. ASSUME NEW c \in Dirs(s), c # Root PROVE c \in Dirs(t)
      <4>1. PICK m \in Entries(s) : At(s, m).kind = "Directory" /\ At(s, m).start = c
        BY <3>1, DirsOfEntries
      <4> QED BY <4>1, <2>1, <1>1, DirsOfEntries
    <3> QED BY <3>1, DirsOfEntries
  <2> QED BY <2>2, <2>3
<1>5. StreamsSized(g, t)
  <2>1. ASSUME NEW d \in Cluster
        PROVE  Len(t[d]) = IF d \in Dirs(t) THEN SlotsPerCluster * Len(Chain(g, d)) ELSE 0
    <3>1. s[d] \in Seq(Slot) /\ t[d] \in Seq(Slot) /\ DOMAIN s[d] = DOMAIN t[d]
      BY <1>1 DEF Streams, SameShape
    <3>2. Len(t[d]) = Len(s[d])
      BY <3>1
    <3>3. d \in Dirs(s) => Chain(g, d) = Chain(f, d)
      <4>1. CASE d \in Dirs(s)
        <5>1. d \in HeadsOf(s)
          BY <4>1, DirsAreHeads
        <5>2. d # a.start
          <6>1. CASE d = Root
            BY <6>1, StartsApart, ClusterFacts
          <6>2. CASE d # Root
            <7>1. PICK m \in Entries(s) : At(s, m).kind = "Directory" /\ At(s, m).start = d
              BY <4>1, <6>2, DirsOfEntries
            <7> QED BY <7>1, StartsApart, ClusterFacts
          <6> QED BY <6>1, <6>2
        <5> QED BY <5>1, <5>2
      <4> QED BY <4>1
    <3> QED BY <3>2, <3>3, <1>4 DEF StreamsSized
  <2> QED BY <2>1 DEF StreamsSized
<1>6. FilesKept(f, s, g, t)
  <2>1. ASSUME NEW m \in Entries(s), At(t, m) = At(s, m)
        PROVE  Chain(g, At(s, m).start) = Chain(f, At(s, m).start)
    <3>1. CASE m = l
      <4>1. g = f
        BY <2>1, <3>1, <1>1
      <4> QED BY <4>1
    <3>2. CASE m # l
      BY <3>2, <1>2
    <3> QED BY <3>1, <3>2
  <2> QED BY <2>1 DEF FilesKept
<1>7. ASSUME NEW c \in HeadsOf(s), c # a.start
      PROVE  c \in HeadsOf(t)
  <2>1. CASE c = Root
    BY <2>1, HeadsOfEntries
  <2>2. CASE c # Root
    <3>1. PICK m \in Entries(s) : At(s, m).start = c /\ c # FREE
      BY <2>2, HeadsOfEntries
    <3>2. At(t, m) = At(s, m) /\ m \in Entries(t)
      BY <3>1, <1>1, <1>7
    <3> QED BY <3>1, <3>2, HeadsOfEntries
  <2> QED BY <2>1, <2>2
<1>8. e.start # FREE => e.start \in HeadsOf(t)
  <2>1. l \in Entries(t) /\ At(t, l) = e
    BY <1>1
  <2> QED BY <2>1, HeadsOfEntries
<1>9. LostOf(g, HeadsOf(t)) \subseteq LostOf(f, HeadsOf(s))
  <2>1. ASSUME NEW x \in LostOf(g, HeadsOf(t))
        PROVE  x \in LostOf(f, HeadsOf(s))
    <3>1. x \in Cluster /\ g[x] # FREE /\ \A c \in HeadsOf(t) : x \notin Clusters(g, c)
      BY <2>1 DEF LostOf
    <3>2. x \notin Clusters(g, e.start)
      <4>1. CASE e.start = FREE
        BY <4>1, NoClusters
      <4>2. CASE e.start # FREE
        BY <4>2, <3>1, <1>8
      <4> QED BY <4>1, <4>2
    <3>3. f[x] # FREE /\ x \notin Clusters(f, a.start)
      BY <3>1, <3>2
    <3>4. ASSUME NEW c \in HeadsOf(s), c # a.start
          PROVE  x \notin Clusters(f, c)
      BY <3>1, <3>4, <1>7 DEF Clusters
    <3> QED BY <3>1, <3>3, <3>4 DEF LostOf
  <2> QED BY <2>1
<1> QED
  BY <1>3, <1>5, <1>6, <1>9 DEF ChainStep, ChainsKept, t

\* A larger file needs no fewer clusters, ...
LEMMA CeilDivMonotone ==
    ASSUME NEW a \in Nat, NEW b \in Nat, a <= b
    PROVE  CeilDiv(a, ClusterSize) <= CeilDiv(b, ClusterSize)
<1> DEFINE m == ClusterSize
           x == a + m - 1
           y == b + m - 1
<1>1. m \in Nat \ {0}
  BY GeometryAssumption
<1>2. x \in Nat /\ y \in Nat /\ x <= y
  BY <1>1
<1> HIDE DEF m, x, y
<1>3. x \div m <= y \div m
  BY <1>1, <1>2
<1> QED
  BY <1>3 DEF CeilDiv, m, x, y

\* ... and an empty one none.
LEMMA CeilDivZero == CeilDiv(0, ClusterSize) = 0
<1> DEFINE m == ClusterSize
<1>1. m \in Nat \ {0}
  BY GeometryAssumption
<1> HIDE DEF m
<1>2. (m - 1) \div m = 0
  BY <1>1
<1>3. 0 + m - 1 = m - 1
  BY <1>1
<1> QED
  BY <1>2, <1>3 DEF CeilDiv, m

\* A growing write or truncation: the chain gets the clusters its new size needs.
LEMMA GrowChains ==
    ASSUME Good(fat, slots, open), FilesSized(fat, slots), StreamsSized(fat, slots),
           NEW l \in Locs(slots), Entry(l).kind = "File",
           NEW end \in Nat, CanWrite(Entry(l), end), GrowChain(Entry(l), end),
           WriteFcb(l, Written(Entry(l), end))
    PROVE  ChainStep(fat, slots, fat', slots')
<1> DEFINE a == Entry(l)
           k == CeilDiv(end, ClusterSize)
           old == Len(Chain(fat, a.start))
           e == Written(a, end)
           H == HeadsOf(slots)
<1>1. a \in Slot /\ a = At(slots, l) /\ l \in Entries(slots)
  BY LocsFacts DEF Good, Entry, At, Entries, Occupied
<1>2. a.size \in Nat /\ a.start \in H \cup {FREE} /\ H \in SUBSET Cluster
  BY <1>1, EntryType, HeadsType DEF Good, Slot
<1>3. /\ e \in Slot /\ e.kind = "File" /\ e.name = a.name
      /\ e.start = HeadWithCapacity(fat, a.start, k)
      /\ e.size = IF end > a.size THEN end ELSE a.size
  <2>1. e.name = a.name
    BY <1>1 DEF Written, Slot
  <2> QED BY <2>1, <1>1, WrittenFacts DEF Good
<1>4. k \in Nat /\ Fits(fat, a.start, k) /\ fat' = WithCapacity(fat, a.start, k)
  BY CeilDivType DEF CanWrite, GrowChain
<1>5. old = CeilDiv(a.size, ClusterSize)
  BY <1>1 DEF FilesSized
<1>6. slots' = Put(slots, l, e)
  BY DEF WriteFcb, Put
<1>7. fat' \in [Cluster -> FatEntry]
  BY <1>2, <1>4, CapacityLinks DEF Good
<1>8. /\ \A c \in H : c # a.start => Chain(fat', c) = Chain(fat, c)
      /\ Len(Chain(fat', e.start)) = IF k > old THEN k ELSE old
      /\ Clusters(fat, a.start) \subseteq Clusters(fat', e.start)
      /\ \A x \in Cluster : fat'[x] # FREE =>
            fat[x] # FREE \/ x \in Clusters(fat', e.start)
      /\ k <= old => fat' = fat
  BY <1>2, <1>3, <1>4, CapacityChain DEF Good
<1>9. Len(Chain(fat', e.start)) = CeilDiv(e.size, ClusterSize)
  <2>1. CASE end > a.size
    <3>1. old <= k
      BY <2>1, <1>2, <1>5, CeilDivMonotone
    <3>2. old \in Nat
      BY <1>2, <1>5, CeilDivType
    <3>3. CeilDiv(e.size, ClusterSize) = k
      BY <2>1, <1>3
    <3> HIDE DEF k, old
    <3> QED BY <3>1, <3>2, <3>3, <1>4, <1>8
  <2>2. CASE end <= a.size
    <3>1. k <= old
      BY <2>2, <1>2, <1>5, CeilDivMonotone
    <3>2. old \in Nat
      BY <1>2, <1>5, CeilDivType
    <3>3. CeilDiv(e.size, ClusterSize) = old
      BY <2>2, <1>2, <1>3, <1>5
    <3> HIDE DEF k, old
    <3> QED BY <3>1, <3>2, <3>3, <1>4, <1>8
  <2> QED BY <2>1, <2>2, <1>2
<1>10. e = a => fat' = fat
  <2>1. CASE e = a
    <3>1. end <= a.size
      BY <2>1, <1>2, <1>3
    <3>2. k <= old
      BY <3>1, <1>2, <1>5, CeilDivMonotone
    <3> QED BY <3>2, <1>8
  <2> QED BY <2>1
<1>11. \A x \in Cluster : fat'[x] # FREE =>
          (fat[x] # FREE /\ x \notin Clusters(fat, a.start))
             \/ x \in Clusters(fat', e.start)
  BY <1>8
<1> HIDE DEF e, a, k, old
<1>12. a.kind = "File"
  BY DEF a
<1> QED
  BY <1>1, <1>3, <1>6, <1>7, <1>8, <1>9, <1>10, <1>11, <1>12, RewriteChains DEF Good

\* A file that shrinks keeps the clusters its new size needs and no other.
LEMMA ShrinkChains ==
    ASSUME Good(fat, slots, open), FilesSized(fat, slots), StreamsSized(fat, slots),
           NEW l \in Locs(slots), Entry(l).kind = "File",
           NEW size \in Nat, size < Entry(l).size, Shrink(l, size)
    PROVE  ChainStep(fat, slots, fat', slots')
<1> DEFINE a == Entry(l)
           n == CeilDiv(size, ClusterSize)
           start == IF n = 0 THEN FREE ELSE a.start
           e == [[a EXCEPT !.size = size] EXCEPT !.start = start]
           H == HeadsOf(slots)
<1>1. a \in Slot /\ a = At(slots, l) /\ l \in Entries(slots)
  BY LocsFacts DEF Good, Entry, At, Entries, Occupied
<1>2. a.size \in Nat /\ a.start \in H \cup {FREE} /\ H \in SUBSET Cluster
  BY <1>1, EntryType, HeadsType DEF Good, Slot
<1>3. /\ fat' = IF n = 0 THEN FreeAll(fat, Clusters(fat, a.start))
                ELSE Trimmed(fat, a.start, n)
      /\ slots' = Put(slots, l, e)
  BY <1>1 DEF Shrink, WriteFcb, Put, Clusters, Slot
<1>4. n \in Nat /\ n <= Len(Chain(fat, a.start))
  <2>1. Len(Chain(fat, a.start)) = CeilDiv(a.size, ClusterSize)
    BY <1>1 DEF FilesSized
  <2>2. size <= a.size
    BY <1>2
  <2> QED BY <2>1, <2>2, <1>2, CeilDivType, CeilDivMonotone
<1> HIDE DEF n
<1>5. e \in Slot /\ e.start = start /\ e.kind = "File" /\ e.size = size /\ e.name = a.name
  <2>1. a.kind = "File" /\ start \in Cluster \cup {FREE}
    BY <1>1 DEF Slot
  <2> HIDE DEF a, start
  <2> QED BY <2>1, <1>1 DEF Slot
<1>6. e # a
  <2>1. size # a.size
    BY <1>2
  <2> QED BY <2>1, <1>5
<1>7. /\ fat' \in [Cluster -> FatEntry]
      /\ \A c \in H : c # a.start => Chain(fat', c) = Chain(fat, c)
      /\ Len(Chain(fat', e.start)) = n
      /\ \A x \in Cluster : fat'[x] # FREE =>
          (fat[x] # FREE /\ x \notin Clusters(fat, a.start))
             \/ x \in Clusters(fat', e.start)
  <2>1. CASE n = 0
    <3>1. fat' = FreeAll(fat, Clusters(fat, a.start)) /\ e.start = FREE
      BY <2>1, <1>3, <1>5
    <3>2. fat' \in [Cluster -> FatEntry]
      BY <3>1, FreeAllType DEF Good
    <3> HIDE DEF e, a
    <3>3. Len(Chain(fat', e.start)) = n
      BY <2>1, <3>1, <3>2, NoClusters
    <3> QED BY <3>1, <3>2, <3>3, <1>2, FreedChain DEF Good
  <2>2. CASE n # 0
    <3>1. fat' = Trimmed(fat, a.start, n) /\ e.start = a.start
      BY <2>2, <1>3, <1>5
    <3>2. a.start # FREE
      <4>1. CASE a.start = FREE
        <5>1. Len(Chain(fat, a.start)) = 0
          BY <4>1, NoClusters DEF Good
        <5> QED BY <5>1, <2>2, <1>4
      <4> QED BY <4>1
    <3>3. a.start \in H /\ n \in 1..Len(Chain(fat, a.start))
      <4>1. Len(Chain(fat, a.start)) \in Nat
        BY <1>1, ChainFacts DEF Good, Slot
      <4> QED BY <4>1, <2>2, <3>2, <1>2, <1>4
    <3>4. fat' \in [Cluster -> FatEntry]
      BY <3>1, TrimmedType DEF Good
    <3> HIDE DEF e, a
    <3> QED BY <3>1, <3>3, <3>4, <1>2, TrimmedChain DEF Good
  <2> QED BY <2>1, <2>2
<1>8. Len(Chain(fat', e.start)) = CeilDiv(e.size, ClusterSize)
  BY <1>5, <1>7 DEF n
<1> HIDE DEF e, a
<1>9. a.kind = "File"
  BY DEF a
<1> QED
  BY <1>1, <1>3, <1>5, <1>6, <1>7, <1>8, <1>9, RewriteChains DEF Good

\* A directory's chain is no file's.
LEMMA DirsNotFiles ==
    ASSUME NEW s \in Streams, StartsSound(s), NEW d \in Dirs(s),
           NEW m \in Entries(s), At(s, m).kind = "File"
    PROVE  At(s, m).start # d
<1>1. d \in HeadsOf(s) /\ d # FREE
  BY DirsAreHeads, HeadsNotFree
<1>2. CASE d = Root
  BY <1>1, <1>2, StartsApart
<1>3. CASE d # Root
  <2>1. PICK n \in Entries(s) : At(s, n).kind = "Directory" /\ At(s, n).start = d
    BY <1>3, DirsOfEntries
  <2> QED BY <2>1, <1>1, StartsApart
<1> QED
  BY <1>2, <1>3

\* An entry is removed and its chain freed.
LEMMA RemoveChains ==
    ASSUME Good(fat, slots, open), FilesSized(fat, slots), StreamsSized(fat, slots),
           NEW l \in Locs(slots), Occupied(Entry(l)),
           Entry(l).kind = "Directory" => Count(slots[Entry(l).start]) = 0,
           RemoveEntry(l)
    PROVE  ChainStep(fat, slots, fat', slots')
<1> DEFINE a == Entry(l)
           freed == Clusters(fat, a.start)
           w == Wipe(slots, freed)
           H == HeadsOf(slots)
           f == fat
           s == slots
           g == fat'
           t == slots'
<1>1. a \in Slot /\ a = At(s, l) /\ l \in Entries(s) /\ l[1] \in Cluster
  BY LocsFacts DEF Good, Entry, At, Entries
<1>2. /\ f \in [Cluster -> FatEntry] /\ s \in Streams /\ StartsSound(s)
      /\ LinksSound(f, H) /\ H \in SUBSET Cluster /\ a.start \in H \cup {FREE}
  BY <1>1, EntryType, HeadsNotFree DEF Good
<1>3. Removed(s, t, l)
  BY RemoveEntryRemoves
<1>4. g = FreeAll(f, freed) /\ t = RefreshDirSize(Put(w, l, Deleted), l[1])
  BY DEF RemoveEntry, Put, Clusters
<1>5. \A c \in Cluster : DOMAIN t[c] = DOMAIN w[c]
  <2>1. w \in Streams /\ l \in Locs(w)
    BY WipeGrown DEF Clusters
  <2> HIDE DEF w
  <2>2. Put(w, l, Deleted) \in Streams /\ SameShape(w, Put(w, l, Deleted))
    BY <2>1, EmptyClusterType, PutFacts
  <2>3. SameShape(Put(w, l, Deleted), t)
    BY <2>2, <1>1, <1>4, RefreshFacts
  <2> QED BY <2>2, <2>3 DEF SameShape
<1>6. t \in Streams
  BY RemoveEntryGood, <1>1, <1>4, WipeGrown, EmptyClusterType, PutFacts, RefreshFacts
     DEF Clusters
<1>7. freed \cap H \subseteq {a.start}
  BY <1>2, FreeChainLinks DEF Clusters
<1>8. \A c \in H : c # a.start => Chain(g, c) = Chain(f, c)
  BY <1>2, <1>4, FreedChain
<1>9. \A x \in Cluster : g[x] # FREE => f[x] # FREE /\ x \notin freed
  BY <1>2, <1>4, FreedChain
<1>10. a.start \in freed \cup {FREE}
  BY <1>2, ChainClosed
<1>11. g \in [Cluster -> FatEntry]
  BY <1>2, <1>4, FreeAllType
<1> HIDE DEF freed
<1>12. \A c \in Cluster : w[c] = IF c \in freed THEN <<>> ELSE s[c]
  BY DEF Wipe
<1> HIDE DEF a, w, f, s, g, t
<1>13. ASSUME NEW c \in Cluster
       PROVE  Len(t[c]) = IF c = a.start THEN 0 ELSE Len(s[c])
  <2>1. t[c] \in Seq(Slot) /\ s[c] \in Seq(Slot) /\ DOMAIN t[c] = DOMAIN w[c]
    BY <1>2, <1>5, <1>6 DEF Streams
  <2>2. CASE c \in freed
    <3>1. Len(t[c]) = 0
      BY <2>1, <2>2, <1>12
    <3>2. c # a.start => Len(s[c]) = 0
      <4>1. c # a.start => c \notin Dirs(s)
        BY <2>2, <1>2, <1>7, DirsAreHeads DEF s
      <4> QED BY <4>1 DEF StreamsSized, s
    <3> QED BY <3>1, <3>2
  <2>3. CASE c \notin freed
    <3>1. c # a.start
      BY <2>3, <1>10, ClusterFacts
    <3>2. DOMAIN t[c] = DOMAIN s[c]
      BY <2>1, <2>3, <1>12
    <3> QED BY <2>1, <3>1, <3>2
  <2> QED BY <2>2, <2>3
<1>14. ASSUME NEW m \in Entries(s), m # l
       PROVE  /\ m \in Entries(t) /\ At(t, m).kind = At(s, m).kind
              /\ At(t, m).start = At(s, m).start
              /\ At(s, m).kind = "File" => At(t, m) = At(s, m)
              /\ Chain(g, At(s, m).start) = Chain(f, At(s, m).start)
              /\ At(s, m).start # FREE => At(s, m).start # a.start
  <2>1. At(s, m).start # FREE => At(s, m).start # a.start
    BY <1>14, <1>1, <1>2, StartsApart
  <2>2. Chain(g, At(s, m).start) = Chain(f, At(s, m).start)
    <3>1. CASE At(s, m).start = FREE
      BY <3>1, <1>2, <1>11, NoClusters
    <3>2. CASE At(s, m).start # FREE
      BY <3>2, <2>1, <1>2, <1>8, EntryType DEF s
    <3> QED BY <3>1, <3>2
  <2> QED BY <2>1, <2>2, <1>3, <1>14 DEF Removed, Renewed
<1>15. \A m \in Entries(t) : m \in Entries(s) /\ m # l
  BY <1>3 DEF Removed
<1>16. Root # a.start
  BY <1>1, <1>2, StartsApart, ClusterFacts
<1>17. ASSUME NEW c \in Cluster
       PROVE  c \in Dirs(t) <=> c \in Dirs(s) /\ c # a.start
  <2>1. CASE c = Root
    BY <2>1, <1>16, DirsOfEntries
  <2>2. ASSUME c # Root, c \in Dirs(t)
        PROVE  c \in Dirs(s) /\ c # a.start
    <3>1. PICK m \in Entries(t) : At(t, m).kind = "Directory" /\ At(t, m).start = c
      BY <2>2, DirsOfEntries
    <3>2. m \in Entries(s) /\ m # l /\ At(s, m).kind = "Directory" /\ At(s, m).start = c
      BY <3>1, <1>14, <1>15
    <3>3. c # FREE
      BY ClusterFacts
    <3> QED BY <3>2, <3>3, <1>14, DirsOfEntries
  <2>3. ASSUME c # Root, c \in Dirs(s), c # a.start
        PROVE  c \in Dirs(t)
    <3>1. PICK m \in Entries(s) : At(s, m).kind = "Directory" /\ At(s, m).start = c
      BY <2>3, DirsOfEntries
    <3>2. m # l
      BY <3>1, <2>3, <1>1
    <3> QED BY <3>1, <3>2, <1>14, DirsOfEntries
  <2> QED BY <2>1, <2>2, <2>3
<1>18. FilesSized(g, t)
  <2>1. ASSUME NEW m \in Entries(t), At(t, m).kind = "File"
        PROVE  Len(Chain(g, At(t, m).start)) = CeilDiv(At(t, m).size, ClusterSize)
    <3>1. m \in Entries(s) /\ At(t, m) = At(s, m) /\ At(s, m).kind = "File"
          /\ Chain(g, At(s, m).start) = Chain(f, At(s, m).start)
      BY <2>1, <1>14, <1>15
    <3>2. Len(Chain(f, At(s, m).start)) = CeilDiv(At(s, m).size, ClusterSize)
      BY <3>1 DEF FilesSized, f, s
    <3> QED BY <3>1, <3>2
  <2> QED BY <2>1 DEF FilesSized
<1>19. StreamsSized(g, t)
  <2>1. ASSUME NEW d \in Cluster
        PROVE  Len(t[d]) = IF d \in Dirs(t) THEN SlotsPerCluster * Len(Chain(g, d)) ELSE 0
    <3>1. CASE d = a.start
      BY <3>1, <1>13, <1>17
    <3>2. CASE d # a.start
      <4>1. Len(t[d]) = Len(s[d]) /\ (d \in Dirs(t) <=> d \in Dirs(s))
        BY <3>2, <1>13, <1>17
      <4>2. d \in Dirs(s) => Chain(g, d) = Chain(f, d)
        BY <3>2, <1>2, <1>8, DirsAreHeads DEF s
      <4> QED BY <4>1, <4>2 DEF StreamsSized, f, s
    <3> QED BY <3>1, <3>2
  <2> QED BY <2>1 DEF StreamsSized
<1>20. FilesKept(f, s, g, t)
  BY <1>14, <1>15 DEF FilesKept
<1>21. LostOf(g, HeadsOf(t)) \subseteq LostOf(f, HeadsOf(s))
  <2>1. ASSUME NEW x \in LostOf(g, HeadsOf(t))
        PROVE  x \in LostOf(f, HeadsOf(s))
    <3>1. x \in Cluster /\ g[x] # FREE /\ \A c \in HeadsOf(t) : x \notin Clusters(g, c)
      BY <2>1 DEF LostOf
    <3>2. f[x] # FREE /\ x \notin Clusters(f, a.start)
      BY <3>1, <1>9 DEF freed, f, a
    <3>3. ASSUME NEW c \in HeadsOf(s), c # a.start
          PROVE  x \notin Clusters(f, c)
      <4>1. c \in HeadsOf(t)
        <5>1. CASE c = Root
          BY <5>1, HeadsOfEntries
        <5>2. CASE c # Root
          <6>1. PICK m \in Entries(s) : At(s, m).start = c /\ c # FREE
            BY <5>2, HeadsOfEntries
          <6>2. m # l
            BY <6>1, <3>3, <1>1
          <6> QED BY <6>1, <6>2, <1>14, HeadsOfEntries
        <5> QED BY <5>1, <5>2
      <4>2. Chain(g, c) = Chain(f, c)
        BY <3>3, <1>8 DEF s
      <4> QED BY <3>1, <4>1, <4>2 DEF Clusters
    <3> QED BY <3>1, <3>2, <3>3 DEF LostOf
  <2> QED BY <2>1
<1> QED
  BY <1>18, <1>19, <1>20, <1>21 DEF ChainStep, ChainsKept, f, s, g, t

\* An entry is added: the directory's chain grows with its stream, and a new directory
\* brings a chain of its own.
LEMMA AddChains ==
    ASSUME NEW f \in [Cluster -> FatEntry], NEW g \in [Cluster -> FatEntry],
           NEW s \in Streams, NEW t, StartsSound(s),
           FilesSized(f, s), StreamsSized(f, s),
           NEW d \in Dirs(s), NEW l, NEW e \in Slot, Added(s, t, d, l, e), NEW N,
           \/ e.kind = "File" /\ e.start = FREE /\ e.size = 0 /\ N = {}
           \/ e.kind = "Directory" /\ e.start \in Cluster \ HeadsOf(s) /\ N = {e.start},
           \A c \in HeadsOf(s) : c # d => Chain(g, c) = Chain(f, c),
           Clusters(f, d) \subseteq Clusters(g, d),
           \A c \in {d} \cup N : Len(t[c]) = SlotsPerCluster * Len(Chain(g, c)),
           \A c \in Cluster : c \notin {d} \cup N => Len(t[c]) = Len(s[c]),
           \A x \in Cluster : g[x] # FREE =>
              f[x] # FREE \/ \E c \in {d} \cup N : x \in Clusters(g, c)
    PROVE  ChainStep(f, s, g, t)
<1>1. d \in HeadsOf(s) /\ d \in Cluster /\ HeadsOf(s) \in SUBSET Cluster
  BY DirsAreHeads, HeadsType
<1>2. /\ Entries(t) = Entries(s) \cup {l} /\ l \notin Entries(s) /\ At(t, l) = e
      /\ \A m \in Entries(s) :
            /\ At(t, m).kind = At(s, m).kind /\ At(t, m).start = At(s, m).start
            /\ At(s, m).kind = "File" => At(t, m) = At(s, m)
  BY DEF Added, Renewed
<1>3. ASSUME NEW m \in Entries(s), At(s, m).kind = "File"
      PROVE  Chain(g, At(s, m).start) = Chain(f, At(s, m).start)
  <2>1. CASE At(s, m).start = FREE
    BY <2>1, NoClusters
  <2>2. CASE At(s, m).start # FREE
    BY <2>2, <1>3, DirsNotFiles, HeadsOfEntries
  <2> QED BY <2>1, <2>2
<1>4. FilesSized(g, t)
  <2>1. ASSUME NEW m \in Entries(t), At(t, m).kind = "File"
        PROVE  Len(Chain(g, At(t, m).start)) = CeilDiv(At(t, m).size, ClusterSize)
    <3>1. CASE m = l
      <4>1. At(t, m).start = FREE /\ At(t, m).size = 0
        BY <2>1, <3>1, <1>2
      <4> QED BY <4>1, NoClusters, CeilDivZero
    <3>2. CASE m # l
      <4>1. m \in Entries(s) /\ At(t, m) = At(s, m) /\ At(s, m).kind = "File"
        BY <2>1, <3>2, <1>2
      <4>2. Len(Chain(f, At(s, m).start)) = CeilDiv(At(s, m).size, ClusterSize)
        BY <4>1 DEF FilesSized
      <4> QED BY <4>1, <4>2, <1>3
    <3> QED BY <3>1, <3>2
  <2> QED BY <2>1 DEF FilesSized
<1>5. ASSUME NEW c \in Cluster
      PROVE  c \in Dirs(t) <=> c \in Dirs(s) \cup N
  <2>1. CASE c = Root
    BY <2>1, DirsOfEntries
  <2>2. ASSUME c # Root, c \in Dirs(t)
        PROVE  c \in Dirs(s) \cup N
    <3>1. PICK m \in Entries(t) : At(t, m).kind = "Directory" /\ At(t, m).start = c
      BY <2>2, DirsOfEntries
    <3>2. CASE m = l
      BY <3>1, <3>2, <1>2
    <3>3. CASE m # l
      BY <3>1, <3>3, <1>2, DirsOfEntries
    <3> QED BY <3>2, <3>3
  <2>3. ASSUME c # Root, c \in Dirs(s)
        PROVE  c \in Dirs(t)
    <3>1. PICK m \in Entries(s) : At(s, m).kind = "Directory" /\ At(s, m).start = c
      BY <2>3, DirsOfEntries
    <3> QED BY <3>1, <1>2, DirsOfEntries
  <2>4. ASSUME c \in N
        PROVE  c \in Dirs(t)
    <3>1. l \in Entries(t) /\ At(t, l).kind = "Directory" /\ At(t, l).start = c
      BY <2>4, <1>2
    <3> QED BY <3>1, DirsOfEntries
  <2> QED BY <2>1, <2>2, <2>3, <2>4, DirsOfEntries
<1>6. StreamsSized(g, t)
  <2>1. ASSUME NEW c \in Cluster
        PROVE  Len(t[c]) = IF c \in Dirs(t) THEN SlotsPerCluster * Len(Chain(g, c)) ELSE 0
    <3>1. CASE c \in {d} \cup N
      <4>1. c \in Dirs(t)
        BY <3>1, <1>5
      <4> QED BY <3>1, <4>1
    <3>2. CASE c \notin {d} \cup N
      <4>1. Len(t[c]) = Len(s[c]) /\ (c \in Dirs(t) <=> c \in Dirs(s))
        BY <3>2, <1>5
      <4>2. c \in Dirs(s) => Chain(g, c) = Chain(f, c)
        BY <3>2, DirsAreHeads
      <4> QED BY <4>1, <4>2 DEF StreamsSized
    <3> QED BY <3>1, <3>2
  <2> QED BY <2>1 DEF StreamsSized
<1>7. FilesKept(f, s, g, t)
  BY <1>3 DEF FilesKept
<1>8. HeadsOf(s) \cup N \subseteq HeadsOf(t)
  <2>1. ASSUME NEW c \in HeadsOf(s), c # Root
        PROVE  c \in HeadsOf(t)
    <3>1. PICK m \in Entries(s) : At(s, m).start = c /\ c # FREE
      BY <2>1, HeadsOfEntries
    <3> QED BY <3>1, <1>2, HeadsOfEntries
  <2>2. ASSUME NEW c \in N
        PROVE  c \in HeadsOf(t)
    <3>1. l \in Entries(t) /\ At(t, l).start = c /\ c # FREE
      BY <2>2, <1>2, ClusterFacts
    <3> QED BY <3>1, HeadsOfEntries
  <2> QED BY <2>1, <2>2, HeadsOfEntries
<1>9. LostOf(g, HeadsOf(t)) \subseteq LostOf(f, HeadsOf(s))
  <2>1. ASSUME NEW x \in LostOf(g, HeadsOf(t))
        PROVE  x \in LostOf(f, HeadsOf(s))
    <3>1. x \in Cluster /\ g[x] # FREE /\ \A c \in HeadsOf(t) : x \notin Clusters(g, c)
      BY <2>1 DEF LostOf
    <3>2. f[x] # FREE
      BY <3>1, <1>1, <1>8
    <3>3. ASSUME NEW c \in HeadsOf(s)
          PROVE  x \notin Clusters(f, c)
      BY <3>1, <3>3, <1>8 DEF Clusters
    <3> QED BY <3>1, <3>2, <3>3 DEF LostOf
  <2> QED BY <2>1
<1> QED
  BY <1>4, <1>6, <1>7, <1>9 DEF ChainStep, ChainsKept

\* find_free_slot appends a cluster to the directory's chain and the slots of one cluster
\* to its stream, or neither.
LEMMA FillChains ==
    ASSUME NEW f \in [Cluster -> FatEntry], NEW H \in SUBSET Cluster, LinksSound(f, H),
           NEW s \in Streams, NEW d \in H, HasRoom(f, s, d),
           Len(s[d]) = SlotsPerCluster * Len(Chain(f, d))
    PROVE  LET r == FillFreeDirSlot(f, s, d)
           IN  /\ r.fat \in [Cluster -> FatEntry]
               /\ \A c \in H : c # d => Chain(r.fat, c) = Chain(f, c)
               /\ Clusters(f, d) \subseteq Clusters(r.fat, d)
               /\ \A x \in Cluster : r.fat[x] # FREE =>
                     f[x] # FREE \/ x \in Clusters(r.fat, d)
               /\ Len(r.slots[d]) = SlotsPerCluster * Len(Chain(r.fat, d))
               /\ \A c \in Cluster : c # d => r.slots[c] = s[c]
<1> DEFINE r == FillFreeDirSlot(f, s, d)
           old == Len(Chain(f, d))
           k == old + 1
           S == FreeClusters(f)
<1>1. \A c \in Cluster : c # d => r.slots[c] = s[c]
  BY FillFacts
<1>2. CASE FreeSlots(s[d]) # {}
  BY <1>2, <1>1 DEF FillFreeDirSlot
<1>3. CASE FreeSlots(s[d]) = {}
  <2>1. r.fat = Extend(f, d, 1) /\ r.slots = [s EXCEPT ![d] = @ \o EmptyCluster]
    BY <1>3 DEF FillFreeDirSlot
  <2>2. S # {} /\ S \in SUBSET Cluster
    BY <1>3 DEF HasRoom, FreeClusters
  <2>3. old \in Nat /\ k \in Nat
    BY ChainFacts
  <2>4. Missing(f, d, k) = 1
    <3> HIDE DEF old
    <3> QED BY <2>3 DEF Missing, old
  <2>5. 1 <= Cardinality(S)
    <3> HIDE DEF S
    <3>1. IsFiniteSet(S) /\ Cardinality(S) \in Nat
      BY <2>2, FiniteClusters
    <3>2. Cardinality(S) # 0
      BY <2>2, <3>1, FS_EmptySet
    <3> QED BY <3>1, <3>2
  <2>6. Fits(f, d, k) /\ r.fat = WithCapacity(f, d, k)
    BY <2>1, <2>4, <2>5 DEF Fits, WithCapacity
  <2>7. HeadWithCapacity(f, d, k) = d
    BY ClusterFacts DEF HeadWithCapacity
  <2>8. r.fat \in [Cluster -> FatEntry]
    BY <2>1, ExtendType
  <2>9. Len(r.slots[d]) = Len(s[d]) + SlotsPerCluster
    <3>1. r.slots[d] = s[d] \o EmptyCluster
      BY <2>1 DEF Streams
    <3>2. s[d] \in Seq(Slot) /\ EmptyCluster \in Seq(Slot)
             /\ Len(EmptyCluster) = SlotsPerCluster
      BY EmptyClusterType DEF Streams
    <3>3. \A p, q \in Seq(Slot) : Len(p \o q) = Len(p) + Len(q)
      OBVIOUS
    <3>4. Len(s[d] \o EmptyCluster) = Len(s[d]) + SlotsPerCluster
      BY <3>2, <3>3
    <3> QED BY <3>1, <3>4
  <2> HIDE DEF r, k, old
  <2>10. /\ \A c \in H : c # d => Chain(r.fat, c) = Chain(f, c)
         /\ Len(Chain(r.fat, d)) = IF k > old THEN k ELSE old
         /\ Clusters(f, d) \subseteq Clusters(r.fat, d)
         /\ \A x \in Cluster : r.fat[x] # FREE => f[x] # FREE \/ x \in Clusters(r.fat, d)
    BY <2>3, <2>6, <2>7, CapacityChain DEF old
  <2>11. Len(Chain(r.fat, d)) = old + 1
    BY <2>3, <2>10 DEF k
  <2>12. SlotsPerCluster * (old + 1) = SlotsPerCluster * old + SlotsPerCluster
    BY <2>3, GeometryAssumption
  <2>13. Len(r.slots[d]) = SlotsPerCluster * Len(Chain(r.fat, d))
    BY <2>9, <2>11, <2>12 DEF old
  <2> QED BY <2>8, <2>10, <2>13, <1>1 DEF r
<1> QED
  BY <1>2, <1>3

\* Writing the entry keeps the lengths of the streams.
LEMMA AddedLengths ==
    ASSUME NEW f \in [Cluster -> FatEntry], NEW s \in Streams, NEW d \in Cluster,
           NEW e \in Slot
    PROVE  LET r == FillFreeDirSlot(f, s, d)
               t == RefreshDirSize(Put(r.slots, <<d, r.index>>, e), d)
           IN  t \in Streams /\ \A c \in Cluster : Len(t[c]) = Len(r.slots[c])
<1> DEFINE r == FillFreeDirSlot(f, s, d)
           u == r.slots
           l == <<d, r.index>>
           v == Put(u, l, e)
           t == RefreshDirSize(v, d)
<1>1. u \in Streams /\ l \in Locs(u)
  BY FillFacts
<1> HIDE DEF u, l
<1>2. v \in Streams /\ SameShape(u, v)
  BY <1>1, PutFacts
<1> HIDE DEF v
<1>3. t \in Streams /\ SameShape(v, t)
  BY <1>2, RefreshFacts
<1> HIDE DEF t
<1>4. ASSUME NEW c \in Cluster
      PROVE  Len(t[c]) = Len(u[c])
  <2>1. t[c] \in Seq(Slot) /\ u[c] \in Seq(Slot) /\ DOMAIN t[c] = DOMAIN u[c]
    BY <1>1, <1>2, <1>3 DEF Streams, SameShape
  <2> QED BY <2>1
<1> QED
  BY <1>3, <1>4 DEF t, v, u, l

\* A new empty file, as create_file makes it.
LEMMA NewFileChains ==
    ASSUME Good(fat, slots, open), FilesSized(fat, slots), StreamsSized(fat, slots),
           NEW d \in Dirs(slots), NEW k \in Keys, HasRoom(fat, slots, d),
           LET r == FillFreeDirSlot(fat, slots, d)
           IN  fat' = r.fat
               /\ slots' = RefreshDirSize([r.slots EXCEPT ![d][r.index] = File(k)], d)
    PROVE  ChainStep(fat, slots, fat', slots')
<1>0. d \in Cluster /\ d \in HeadsOf(slots) /\ HeadsOf(slots) \in SUBSET Cluster
  BY DirsAreHeads, HeadsType DEF Good
<1> DEFINE e == File(k)
           r == FillFreeDirSlot(fat, slots, d)
           l == <<d, r.index>>
<1>1. e \in Slot /\ Occupied(e) /\ e.kind = "File" /\ e.start = FREE /\ e.size = 0
  BY EmptyClusterType DEF File, Occupied
<1>2. fat' = r.fat /\ slots' = RefreshDirSize(Put(r.slots, l, e), d)
  BY DEF Put
<1> HIDE DEF e
<1>3. Added(slots, slots', d, l, e)
  BY <1>1, <1>2, <1>0, AddEntryAdds DEF Good
<1>4. Len(slots[d]) = SlotsPerCluster * Len(Chain(fat, d))
  BY <1>0 DEF StreamsSized
<1>5. /\ r.fat \in [Cluster -> FatEntry]
      /\ \A c \in HeadsOf(slots) : c # d => Chain(r.fat, c) = Chain(fat, c)
      /\ Clusters(fat, d) \subseteq Clusters(r.fat, d)
      /\ \A x \in Cluster : r.fat[x] # FREE => fat[x] # FREE \/ x \in Clusters(r.fat, d)
      /\ Len(r.slots[d]) = SlotsPerCluster * Len(Chain(r.fat, d))
      /\ \A c \in Cluster : c # d => r.slots[c] = slots[c]
  BY <1>4, <1>0, FillChains DEF Good
<1>6. \A c \in Cluster : Len(slots'[c]) = Len(r.slots[c])
  BY <1>1, <1>2, <1>0, AddedLengths DEF Good
<1> HIDE DEF r, l
<1>7. /\ \A c \in {d} \cup {} : Len(slots'[c]) = SlotsPerCluster * Len(Chain(fat', c))
      /\ \A c \in Cluster : c \notin {d} \cup {} => Len(slots'[c]) = Len(slots[c])
      /\ \A x \in Cluster : fat'[x] # FREE =>
            fat[x] # FREE \/ \E c \in {d} \cup {} : x \in Clusters(fat', c)
  BY <1>2, <1>5, <1>6, <1>0
<1> QED
  BY <1>1, <1>2, <1>3, <1>5, <1>7, AddChains DEF Good

\* create_file.
LEMMA CreateFileChains ==
    ASSUME Good(fat, slots, open), FilesSized(fat, slots), StreamsSized(fat, slots),
           NEW d \in Dirs(slots), NEW k \in Keys, CreateFile(d, k)
    PROVE  ChainStep(fat, slots, fat', slots')
<1>1. CASE UNCHANGED <<fat, slots>>
  BY <1>1, ChainStepNone
<1>2. CASE HasRoom(fat, slots, d) /\ AddEntry(fat, slots, d, File(k))
  BY <1>2, NewFileChains DEF AddEntry
<1> QED
  BY <1>1, <1>2 DEF CreateFile, Fail

\* A call that returns r: no chain is harmed, and none is lost if r is Ok.
CallStep(f, s, g, t, r) ==
    ChainsKept(f, s, g, t) /\ (r = "Ok" => ChainStep(f, s, g, t))

\* mkdir: the directory's own chain is allocated first.  Without room for its entry that
\* chain is lost, and the call does not return Ok.
LEMMA MkdirChains ==
    ASSUME Good(fat, slots, open), FilesSized(fat, slots), StreamsSized(fat, slots),
           NEW d \in Dirs(slots), NEW k \in Keys, Mkdir(d, k)
    PROVE  CallStep(fat, slots, fat', slots', ret')
<1> DEFINE S == FreeClusters(fat)
           new == Min(S)
           fat1 == Extend(fat, FREE, 1)
           slots1 == [slots EXCEPT ![new] = EmptyCluster]
           H == HeadsOf(slots)
           H1 == H \cup {new}
<1>0. /\ d \in Cluster /\ d \in H /\ H \in SUBSET Cluster /\ FREE \notin H
      /\ fat \in [Cluster -> FatEntry] /\ LinksSound(fat, H) /\ slots \in Streams
  BY DirsAreHeads, HeadsNotFree DEF Good
<1>1. CASE UNCHANGED <<fat, slots>>
  BY <1>1, ChainStepNone DEF CallStep, ChainStep
<1>2. ASSUME S # {}
      PROVE  /\ new \in Cluster /\ new \notin H
             /\ fat1 \in [Cluster -> FatEntry] /\ LinksSound(fat1, H1)
             /\ \A c \in H : Chain(fat1, c) = Chain(fat, c)
             /\ Len(Chain(fat1, new)) = 1
             /\ \A x \in Cluster : fat1[x] # FREE =>
                   fat[x] # FREE \/ x \in Clusters(fat1, new)
  <2>1. NewHeads(fat, FREE, 1) = {new} /\ new \in Cluster /\ fat[new] = FREE
    BY <1>0, <1>2, NewHeadsAre
  <2>2. fat1 \in [Cluster -> FatEntry] /\ LinksSound(fat1, H \cup NewHeads(fat, FREE, 1))
    BY <1>0, ExtendType, ExtendLinks
  <2>3. new \notin H
    BY <2>1, <1>0, FreeUnlinked
  <2>4. Missing(fat, FREE, 1) = 1
    BY <1>0, MissingType
  <2>5. 1 <= Cardinality(S)
    <3>1. S \in SUBSET Cluster
      BY DEF FreeClusters
    <3> HIDE DEF S
    <3>2. IsFiniteSet(S) /\ Cardinality(S) \in Nat
      BY <3>1, FiniteClusters
    <3>3. Cardinality(S) # 0
      BY <1>2, <3>2, FS_EmptySet
    <3> QED BY <3>2, <3>3
  <2>6. Fits(fat, FREE, 1) /\ WithCapacity(fat, FREE, 1) = fat1
        /\ HeadWithCapacity(fat, FREE, 1) = new
    BY <2>4, <2>5 DEF Fits, WithCapacity, HeadWithCapacity
  <2>7. Len(Chain(fat, FREE)) = 0
    BY <1>0, NoClusters
  <2> HIDE DEF new, fat1, H
  <2>8. /\ \A c \in H : c # FREE => Chain(fat1, c) = Chain(fat, c)
        /\ Len(Chain(fat1, new)) = 1
        /\ \A x \in Cluster : fat1[x] # FREE => fat[x] # FREE \/ x \in Clusters(fat1, new)
    <3> DEFINE one == 1
    <3>1. one \in Nat /\ FREE \in H \cup {FREE} /\ Fits(fat, FREE, one)
      BY <2>6
    <3> HIDE DEF one
    <3>2. LET g == WithCapacity(fat, FREE, one)
              head == HeadWithCapacity(fat, FREE, one)
              old == Len(Chain(fat, FREE))
          IN  /\ \A c \in H : c # FREE => Chain(g, c) = Chain(fat, c)
              /\ Len(Chain(g, head)) = IF one > old THEN one ELSE old
              /\ \A x \in Cluster : g[x] # FREE => fat[x] # FREE \/ x \in Clusters(g, head)
      BY <3>1, <1>0, CapacityChain
    <3> QED BY <3>2, <2>6, <2>7 DEF one
  <2> QED BY <2>1, <2>2, <2>3, <2>8, <1>0
<1>3. CASE S # {} /\ fat' = fat1 /\ slots' = slots /\ ret' = "NoSpace"
  <2>1. FilesSized(fat1, slots) /\ FilesKept(fat, slots, fat1, slots)
    <3>1. ASSUME NEW m \in Entries(slots)
          PROVE  Chain(fat1, At(slots, m).start) = Chain(fat, At(slots, m).start)
      <4>1. At(slots, m).start \in H \cup {FREE}
        BY <1>0, EntryType
      <4>2. CASE At(slots, m).start = FREE
        BY <4>2, <1>0, <1>2, <1>3, NoClusters
      <4>3. CASE At(slots, m).start # FREE
        BY <4>1, <4>3, <1>2, <1>3
      <4> QED BY <4>2, <4>3
    <3> QED BY <3>1 DEF FilesSized, FilesKept
  <2>2. StreamsSized(fat1, slots)
    <3>1. Dirs(slots) \subseteq H
      BY DirsAreHeads DEF Good
    <3>2. \A c \in Dirs(slots) : Chain(fat1, c) = Chain(fat, c)
      BY <3>1, <1>2, <1>3
    <3> QED BY <3>2 DEF StreamsSized
  <2> QED BY <2>1, <2>2, <1>3 DEF ChainsKept, CallStep
<1>4. CASE S # {} /\ HasRoom(fat1, slots, d) /\ AddEntry(fat1, slots1, d, Directory(k, new))
  <2> DEFINE e == Directory(k, new)
             r == FillFreeDirSlot(fat1, slots1, d)
             l == <<d, r.index>>
  <2>1. /\ new \in Cluster /\ new \notin H
        /\ fat1 \in [Cluster -> FatEntry] /\ LinksSound(fat1, H1)
        /\ \A c \in H : Chain(fat1, c) = Chain(fat, c)
        /\ Len(Chain(fat1, new)) = 1
        /\ \A x \in Cluster : fat1[x] # FREE => fat[x] # FREE \/ x \in Clusters(fat1, new)
    BY <1>2, <1>4
  <2>2. fat' = r.fat /\ slots' = RefreshDirSize(Put(r.slots, l, e), d)
    BY <1>4 DEF AddEntry, Put
  <2> HIDE DEF new
  <2>3. e \in Slot /\ Occupied(e) /\ e.kind = "Directory" /\ e.start = new
    <3>1. e \in Slot
      BY <2>1, EmptyClusterType
    <3> QED BY <3>1 DEF Directory, File, Occupied
  <2> HIDE DEF e
  <2>4. slots1 \in Streams /\ Grown(slots, slots1)
    BY <2>1, NewStreamGrown
  <2>5. slots1[new] = EmptyCluster /\ \A c \in Cluster : c # new => slots1[c] = slots[c]
    BY <2>1, <1>0 DEF Streams
  <2>6. d # new
    BY <2>1, <1>0
  <2>7. HasRoom(fat1, slots1, d)
    BY <2>5, <2>6, <1>0, <1>4 DEF HasRoom
  <2>8. Len(slots1[d]) = SlotsPerCluster * Len(Chain(fat1, d))
    BY <2>1, <2>5, <2>6, <1>0 DEF StreamsSized
  <2> HIDE DEF slots1, fat1
  <2>9. Added(slots, slots', d, l, e)
    <3>1. Added(slots1, slots', d, l, e)
      BY <2>1, <2>2, <2>3, <2>4, <2>6, <1>0, AddEntryAdds
    <3>2. /\ Entries(slots1) = Entries(slots)
          /\ \A m \in Entries(slots) : At(slots1, m) = At(slots, m)
      BY <2>4, GrownEntries
    <3> QED BY <3>1, <3>2 DEF Added, Renewed
  <2>10. /\ r.fat \in [Cluster -> FatEntry]
         /\ \A c \in H1 : c # d => Chain(r.fat, c) = Chain(fat1, c)
         /\ Clusters(fat1, d) \subseteq Clusters(r.fat, d)
         /\ \A x \in Cluster : r.fat[x] # FREE => fat1[x] # FREE \/ x \in Clusters(r.fat, d)
         /\ Len(r.slots[d]) = SlotsPerCluster * Len(Chain(r.fat, d))
         /\ \A c \in Cluster : c # d => r.slots[c] = slots1[c]
    <3>1. H1 \in SUBSET Cluster /\ d \in H1
      BY <2>1, <1>0
    <3> HIDE DEF H1
    <3> QED BY <3>1, <2>1, <2>4, <2>7, <2>8, FillChains
  <2>11. \A c \in Cluster : Len(slots'[c]) = Len(r.slots[c])
    BY <2>1, <2>2, <2>3, <2>4, <1>0, AddedLengths
  <2> HIDE DEF r, l
  <2>12. \A c \in H : c # d => Chain(fat', c) = Chain(fat, c)
    BY <2>1, <2>2, <2>10
  <2>13. Clusters(fat, d) \subseteq Clusters(fat', d)
    BY <2>1, <2>2, <2>10, <1>0 DEF Clusters
  <2>14. Chain(fat', new) = Chain(fat1, new)
    BY <2>2, <2>6, <2>10
  <2>15. Len(slots'[new]) = SlotsPerCluster * Len(Chain(fat', new))
    <3>1. Len(slots'[new]) = SlotsPerCluster
      BY <2>1, <2>5, <2>6, <2>10, <2>11, EmptyClusterType
    <3>2. SlotsPerCluster * 1 = SlotsPerCluster
      BY GeometryAssumption
    <3> QED BY <3>1, <3>2, <2>1, <2>14
  <2>16. Len(slots'[d]) = SlotsPerCluster * Len(Chain(fat', d))
    BY <2>2, <2>10, <2>11, <1>0
  <2>17. \A c \in Cluster : c \notin {d} \cup {new} => Len(slots'[c]) = Len(slots[c])
    BY <2>5, <2>10, <2>11
  <2>18. \A x \in Cluster : fat'[x] # FREE =>
            fat[x] # FREE \/ \E c \in {d} \cup {new} : x \in Clusters(fat', c)
    BY <2>1, <2>2, <2>10, <2>14 DEF Clusters
  <2>19. \A c \in {d} \cup {new} : Len(slots'[c]) = SlotsPerCluster * Len(Chain(fat', c))
    BY <2>15, <2>16
  <2>20. /\ fat' \in [Cluster -> FatEntry] /\ StartsSound(slots)
         /\ e.start \in Cluster \ HeadsOf(slots)
    BY <2>1, <2>2, <2>3, <2>10 DEF Good
  <2>21. ChainStep(fat, slots, fat', slots')
    BY ZenonT(30), <2>3, <2>9, <2>12, <2>13, <2>17, <2>18, <2>19, <2>20, <1>0, AddChains
  <2> QED BY <2>21 DEF ChainStep, CallStep
<1> QED
  BY <1>1, <1>3, <1>4 DEF Mkdir, Fail

\* The calls that write the entry of a file.
LEMMA WriteChains ==
    ASSUME Good(fat, slots, open), FilesSized(fat, slots), StreamsSized(fat, slots)
    PROVE  /\ \A l \in Locs(slots), offset \in Nat, len \in Nat :
                 WriteAt(l, offset, len) => ChainStep(fat, slots, fat', slots')
           /\ \A l \in Locs(slots), size \in Nat :
                 Truncate(l, size) \/ Resize(l, size) => ChainStep(fat, slots, fat', slots')
           /\ \A h \in Handle, len \in Nat :
                 WriteHandle(h, len) => ChainStep(fat, slots, fat', slots')
           /\ \A h \in Handle, size \in Nat :
                 TruncateHandle(h, size) => ChainStep(fat, slots, fat', slots')
<1>0. ASSUME UNCHANGED <<fat, slots>>
      PROVE  ChainStep(fat, slots, fat', slots')
  BY <1>0, ChainStepNone
<1>1. ASSUME NEW l \in Locs(slots), NEW offset \in Nat, NEW len \in Nat,
             WriteAt(l, offset, len)
      PROVE  ChainStep(fat, slots, fat', slots')
  <2>1. offset + len \in Nat
    OBVIOUS
  <2> QED BY <2>1, <1>0, <1>1, GrowChains DEF WriteAt, Fail
<1>2. ASSUME NEW l \in Locs(slots), NEW size \in Nat, Truncate(l, size) \/ Resize(l, size)
      PROVE  ChainStep(fat, slots, fat', slots')
  BY <1>0, <1>2, GrowChains, ShrinkChains DEF Truncate, Resize, Fail
<1>3. ASSUME NEW h \in Handle, NEW len \in Nat, WriteHandle(h, len)
      PROVE  ChainStep(fat, slots, fat', slots')
  <2>1. CASE IsOpen(h)
    <3>1. /\ LocOf(h) \in Locs(slots) /\ Entry(LocOf(h)).kind = "File"
          /\ open[h].cursor + len \in Nat
      BY <2>1, OpenTypes
    <3> QED BY <2>1, <3>1, <1>0, <1>3, GrowChains DEF WriteHandle, Fail
  <2>2. CASE ~ IsOpen(h)
    BY <2>2, <1>0, <1>3 DEF WriteHandle, Fail
  <2> QED BY <2>1, <2>2
<1>4. ASSUME NEW h \in Handle, NEW size \in Nat, TruncateHandle(h, size)
      PROVE  ChainStep(fat, slots, fat', slots')
  <2>1. CASE IsOpen(h) /\ Truncate(LocOf(h), size)
    BY <2>1, <1>2, OpenTypes
  <2> QED BY <2>1, <1>0, <1>4 DEF TruncateHandle, Fail
<1> QED
  BY <1>1, <1>2, <1>3, <1>4

\* rm and rmdir.
LEMMA RmChains ==
    ASSUME Good(fat, slots, open), FilesSized(fat, slots), StreamsSized(fat, slots),
           NEW l \in Locs(slots), Rm(l) \/ Rmdir(l)
    PROVE  ChainStep(fat, slots, fat', slots')
<1>1. CASE UNCHANGED <<fat, slots>>
  BY <1>1, ChainStepNone
<1>2. CASE Entry(l).kind = "File" /\ RemoveEntry(l)
  BY <1>2, RemoveChains DEF Occupied
<1>3. CASE /\ Entry(l).kind = "Directory" /\ Count(slots[Entry(l).start]) = 0
           /\ RemoveEntry(l)
  BY <1>3, RemoveChains DEF Occupied
<1> QED
  BY <1>1, <1>2, <1>3 DEF Rm, Rmdir, Fail

\* Every call.
LEMMA ChainsChange ==
    ASSUME Good(fat, slots, open), FilesSized(fat, slots), StreamsSized(fat, slots),
           [Next]_vars
    PROVE  CallStep(fat, slots, fat', slots', ret')
<1>0. ASSUME ChainStep(fat, slots, fat', slots')
      PROVE  CallStep(fat, slots, fat', slots', ret')
  BY <1>0 DEF ChainStep, CallStep
<1>1. ASSUME UNCHANGED <<fat, slots>>
      PROVE  CallStep(fat, slots, fat', slots', ret')
  BY <1>0, <1>1, ChainStepNone
<1>2. ASSUME NEW d \in Dirs(slots), NEW k \in Keys, Mkdir(d, k)
      PROVE  CallStep(fat, slots, fat', slots', ret')
  BY <1>2, MkdirChains
<1>3. ASSUME NEW d \in Dirs(slots), NEW k \in Keys, CreateFile(d, k)
      PROVE  CallStep(fat, slots, fat', slots', ret')
  BY <1>0, <1>3, CreateFileChains
<1>4. ASSUME NEW l \in Locs(slots), Rm(l) \/ Rmdir(l)
      PROVE  CallStep(fat, slots, fat', slots', ret')
  BY <1>0, <1>4, RmChains
<1>5. ASSUME NEW l, Open(l)
      PROVE  CallStep(fat, slots, fat', slots', ret')
  BY <1>1, <1>5 DEF Open, Fail
<1>6. ASSUME NEW h, CloseHandle(h)
      PROVE  CallStep(fat, slots, fat', slots', ret')
  BY <1>1, <1>6 DEF CloseHandle, Fail
<1>7. ASSUME NEW h, NEW pos, SeekHandle(h, pos)
      PROVE  CallStep(fat, slots, fat', slots', ret')
  BY <1>1, <1>7 DEF SeekHandle, MoveCursor, Fail
<1>8. ASSUME NEW h, NEW len, ReadHandle(h, len)
      PROVE  CallStep(fat, slots, fat', slots', ret')
  BY <1>1, <1>8 DEF ReadHandle, MoveCursor, Fail
<1>9. CASE UNCHANGED vars
  BY <1>1, <1>9 DEF vars
<1>10. CASE FileStep
  BY <1>0, <1>10, WriteChains, ParameterTypes DEF FileStep
<1>11. CASE HandleStep
  <2>1. ASSUME NEW h \in Handle, NEW len \in Nat, WriteHandle(h, len)
        PROVE  CallStep(fat, slots, fat', slots', ret')
    BY <2>1, <1>0, WriteChains
  <2>2. ASSUME NEW h \in Handle, NEW size \in Nat, TruncateHandle(h, size)
        PROVE  CallStep(fat, slots, fat', slots', ret')
    BY <2>2, <1>0, WriteChains
  <2> QED BY <2>1, <2>2, <1>6, <1>7, <1>8, <1>11, ParameterTypes DEF HandleStep
<1>12. CASE DirectoryStep
  BY <1>2, <1>3, <1>4, <1>5, <1>12 DEF DirectoryStep
<1> QED
  BY <1>9, <1>10, <1>11, <1>12 DEF Next

\* ChainMatchesSize in terms of entries.
LEMMA ChainMatchesSizeIs ==
    ChainMatchesSize <=> FilesSized(fat, slots) /\ StreamsSized(fat, slots)
BY DEF ChainMatchesSize, FilesSized, StreamsSized, Entries, Entry, At, Occupied

\* The same after a step.
LEMMA ChainMatchesSizeNext ==
    ChainMatchesSize' <=> FilesSized(fat', slots') /\ StreamsSized(fat', slots')
BY DEF ChainMatchesSize, FilesSized, StreamsSized, Entries, Entry, At, Occupied

\* The lost clusters of a state, ...
LEMMA LostIs == Lost = LostOf(fat, Heads)
BY DEF Lost, LostOf, Clusters

\* ... and of the next one.
LEMMA LostNext == Lost' = LostOf(fat', Heads')
BY DEF Lost, LostOf, Clusters

\* A fresh file system: the root's chain is one cluster and there is no entry.
LEMMA InitSized == Init => ChainMatchesSize
<1> SUFFICES ASSUME Init PROVE FilesSized(fat, slots) /\ StreamsSized(fat, slots)
  BY ChainMatchesSizeIs
<1>1. FilesSized(fat, slots)
  BY InitEntries DEF FilesSized
<1>2. Dirs(slots) = {Root}
  <2>1. ASSUME NEW d \in Dirs(slots), d # Root
        PROVE  FALSE
    BY <2>1, InitEntries, DirsOfEntries
  <2> QED BY <2>1, DirsOfEntries
<1>3. /\ fat \in [Cluster -> FatEntry] /\ LinksSound(fat, HeadsOf(slots))
      /\ HeadsOf(slots) \in SUBSET Cluster /\ Root \in HeadsOf(slots)
  BY InitGood, HeadsType, HeadsOfEntries DEF Good
<1>4. Len(Chain(fat, Root)) = 1
  <2> DEFINE X == {Root}
  <2>1. fat[Root] = EOC
    BY ClusterFacts DEF Init
  <2>2. Root \in X /\ \A x \in X \cap Cluster : fat[x] \in Cluster => fat[x] \in X
    BY <2>1, ClusterFacts
  <2> HIDE DEF X
  <2>3. Clusters(fat, Root) \subseteq X
    BY <2>2, <1>3, ChainLeast
  <2>4. Root \in Clusters(fat, Root)
    BY <1>3, ChainClosed
  <2>5. Clusters(fat, Root) = {Root}
    BY <2>3, <2>4 DEF X
  <2>6. Len(Chain(fat, Root)) = Cardinality(Clusters(fat, Root))
    BY <1>3, ChainCount
  <2> QED BY <2>5, <2>6, FS_Singleton
<1>5. StreamsSized(fat, slots)
  <2>1. \A d \in Cluster : Len(slots[d]) = IF d = Root THEN SlotsPerCluster ELSE 0
    BY EmptyClusterType DEF Init
  <2>2. SlotsPerCluster * 1 = SlotsPerCluster
    BY GeometryAssumption
  <2> QED BY <2>1, <2>2, <1>2, <1>4 DEF StreamsSized
<1> QED
  BY <1>1, <1>5

\* Every step, from a state in which the invariants hold.
LEMMA StepChains ==
    ASSUME IInv, ChainMatchesSize, [Next]_vars
    PROVE  CallStep(fat, slots, fat', slots', ret')
<1>1. Good(fat, slots, open) /\ FilesSized(fat, slots) /\ StreamsSized(fat, slots)
  BY GoodIs, ChainMatchesSizeIs
<1> QED
  BY <1>1, ChainsChange

\* A file's chain has exactly the clusters its size needs and a directory's stream exactly
\* the slots of its chain.
THEOREM ChainsMatchSizes == Spec => []ChainMatchesSize
<1>1. IInv /\ ChainMatchesSize /\ [Next]_vars => ChainMatchesSize'
  <2> SUFFICES ASSUME IInv, ChainMatchesSize, [Next]_vars PROVE ChainMatchesSize'
    OBVIOUS
  <2>1. CallStep(fat, slots, fat', slots', ret')
    BY StepChains
  <2> QED BY <2>1, ChainMatchesSizeNext DEF CallStep, ChainsKept
<1> QED
  BY <1>1, InitSized, Invariance, PTL DEF Spec

\* A step that keeps the chains of files keeps them in the terms of FatFs.
LEMMA ChainsUntouched ==
    ASSUME FilesKept(fat, slots, fat', slots'), NEW l \in Locs(slots), l \in Locs(slots'),
           Entry(l).kind = "File", slots'[l[1]][l[2]] = Entry(l)
    PROVE  Chain(fat', Entry(l).start) = Chain(fat, Entry(l).start)
<1>1. /\ l \in Entries(slots) /\ l \in Entries(slots')
      /\ At(slots, l) = Entry(l) /\ At(slots', l) = Entry(l)
  BY DEF Entries, At, Entry, Occupied
<1> QED
  BY <1>1 DEF FilesKept

\* A step that loses no cluster loses none in the terms of FatFs.
LEMMA NothingLost ==
    ASSUME ChainStep(fat, slots, fat', slots')
    PROVE  Lost' \subseteq Lost
<1>1. LostOf(fat', HeadsOf(slots')) \subseteq LostOf(fat, HeadsOf(slots))
  BY DEF ChainStep
<1>2. Heads = HeadsOf(slots) /\ Heads' = HeadsOf(slots')
  BY DEF Heads
<1> QED
  BY <1>1, <1>2, LostIs, LostNext

\* A call rewrites, frees or extends only the chain of the entry it writes.
THEOREM OthersStayUntouched == Spec => OthersUntouched
<1> DEFINE A == \A l \in Locs(slots) :
                   /\ l \in Locs(slots')
                   /\ Entry(l).kind = "File"
                   /\ slots'[l[1]][l[2]] = Entry(l)
                   => Chain(fat', Entry(l).start) = Chain(fat, Entry(l).start)
<1>1. IInv /\ ChainMatchesSize /\ [Next]_vars => [A]_vars
  <2> SUFFICES ASSUME IInv, ChainMatchesSize, [Next]_vars PROVE A
    OBVIOUS
  <2>1. FilesKept(fat, slots, fat', slots')
    BY StepChains DEF CallStep, ChainsKept
  <2> QED BY <2>1, ChainsUntouched
<1> QED
  BY <1>1, Invariance, ChainsMatchSizes, PTL DEF Spec, OthersUntouched

\* A call that succeeds loses no cluster.
THEOREM SuccessesLoseNothing == Spec => SuccessLosesNothing
<1>1. IInv /\ ChainMatchesSize /\ [Next]_vars => [ret' = "Ok" => Lost' \subseteq Lost]_vars
  BY StepChains, NothingLost DEF CallStep
<1> QED
  BY <1>1, Invariance, ChainsMatchSizes, PTL DEF Spec, SuccessLosesNothing
-----------------------------------------------------------------------------
(* The shell: where paths lead.                                            *)

\* Into and Resolve with the streams as a parameter.
IntoOf(s, x, k) ==
    LET N == {i \in DOMAIN s[x.start] : Occupied(s[x.start][i]) /\ s[x.start][i].name = k}
        l == <<x.start, Min(N)>>
    IN  IF ~x.found \/ x.start \notin Cluster THEN Nothing
        ELSE IF N = {} THEN Nothing
        ELSE [found |-> TRUE, loc |-> l, start |-> At(s, l).start, kind |-> At(s, l).kind]
Route(s) ==
    CHOOSE at : at = [p \in Seq(Keys) |->
        IF p = <<>> THEN AtRoot ELSE IntoOf(s, at[Front(p)], Last(p))]

\* Resolve is the function Route chooses, ...
LEMMA ResolveIs ==
    ASSUME NEW p
    PROVE  Resolve(p) = Route(slots)[p]
BY DEF Resolve, Route, Into, IntoOf, NamedIn, Entry, At

\* ... and after a step.
LEMMA ResolveNext == Resolve(cwd_path)' = Route(slots')[cwd_path']
BY DEF Resolve, Route, Into, IntoOf, NamedIn, Entry, At

\* A place a path can lead to: the root, an entry, or nothing.
PointAt(s, l) == [found |-> TRUE, loc |-> l, start |-> At(s, l).start, kind |-> At(s, l).kind]
Points(s) == {AtRoot, Nothing} \cup {PointAt(s, l) : l \in Entries(s)}

\* A name leads from a place to an entry of the directory there, or nowhere.
LEMMA IntoPoint ==
    ASSUME NEW s \in Streams, NEW x \in Points(s), NEW k
    PROVE  \/ IntoOf(s, x, k) = Nothing
           \/ \E l \in Entries(s) :
                 /\ IntoOf(s, x, k) = PointAt(s, l)
                 /\ x.found /\ x.start \in Cluster /\ l[1] = x.start /\ At(s, l).name = k
<1> DEFINE N == {i \in DOMAIN s[x.start] : Occupied(s[x.start][i]) /\ s[x.start][i].name = k}
           l == <<x.start, Min(N)>>
<1>1. CASE x.found /\ x.start \in Cluster /\ N # {}
  <2>1. N \in SUBSET Nat
    <3>1. s[x.start] \in Seq(Slot)
      BY <1>1 DEF Streams
    <3>2. DOMAIN s[x.start] \subseteq Nat
      BY <3>1
    <3> QED BY <3>2
  <2>2. Min(N) \in N
    <3> HIDE DEF N
    <3> QED BY <1>1, <2>1, MinIsLeast
  <2>3. IntoOf(s, x, k) = PointAt(s, l)
    BY <1>1 DEF IntoOf, PointAt
  <2> DEFINE i == Min(N)
  <2>4. i \in DOMAIN s[x.start] /\ Occupied(s[x.start][i]) /\ s[x.start][i].name = k
    BY <2>2
  <2>5. l = <<x.start, i>>
    OBVIOUS
  <2> HIDE DEF i, N, l
  <2>6. l \in Entries(s) /\ l[1] = x.start /\ At(s, l).name = k
    BY <1>1, <2>4, <2>5, InLocs DEF Entries, At
  <2> QED BY <1>1, <2>3, <2>6
<1>2. CASE ~(x.found /\ x.start \in Cluster /\ N # {})
  BY <1>2 DEF IntoOf
<1> QED
  BY <1>1, <1>2

\* Resolution follows a path name by name.
LEMMA Routes ==
    ASSUME NEW s \in Streams
    PROVE  /\ Route(s)[<<>>] = AtRoot
           /\ \A p \in Seq(Keys) : Route(s)[p] \in Points(s)
           /\ \A p \in Seq(Keys), k \in Keys :
                 Route(s)[Append(p, k)] = IntoOf(s, Route(s)[p], k)
<1> DEFINE S == Points(s)
           g == [xk \in S \X Keys |-> IntoOf(s, xk[1], xk[2])]
           Rec(at) == at = [p \in Seq(Keys) |->
                        IF p = <<>> THEN AtRoot ELSE IntoOf(s, at[Front(p)], Last(p))]
<1>1. AtRoot \in S /\ \A x \in S, k \in Keys : IntoOf(s, x, k) \in S
  <2>1. AtRoot \in S /\ Nothing \in S /\ \A l \in Entries(s) : PointAt(s, l) \in S
    BY DEF Points
  <2> HIDE DEF S
  <2>2. ASSUME NEW x \in S, NEW k \in Keys PROVE IntoOf(s, x, k) \in S
    BY <2>1, IntoPoint DEF S
  <2> QED BY <2>1, <2>2
<1> HIDE DEF S
<1>2. g \in [S \X Keys -> S] /\ \A x \in S, k \in Keys : g[<<x, k>>] = IntoOf(s, x, k)
  BY <1>1
<1> HIDE DEF g
<1>3. PICK F \in [Seq(Keys) -> S] : \A p \in Seq(Keys) :
         F[p] = IF p = <<>> THEN AtRoot ELSE g[<<F[Front(p)], Last(p)>>]
  <2>1. AtRoot \in S /\ g \in [S \X Keys -> S]
    BY <1>1, <1>2
  <2>2. Iterates(Keys, S, AtRoot, g)
    BY <2>1, Iterated
  <2> QED BY <2>2 DEF Iterates
<1>4. \A p \in Seq(Keys) : F[p] = IF p = <<>> THEN AtRoot ELSE IntoOf(s, F[Front(p)], Last(p))
  BY <1>2, <1>3, FrontLast
<1>5. Rec(F)
  <2> DEFINE G == [p \in Seq(Keys) |->
                     IF p = <<>> THEN AtRoot ELSE IntoOf(s, F[Front(p)], Last(p))]
  <2>1. \A p \in Seq(Keys) : F[p] = G[p]
    BY <1>4
  <2>2. F = G
    BY <1>3, <2>1
  <2> QED BY <2>2
<1>6. Rec(Route(s))
  <2>1. Route(s) = CHOOSE at : Rec(at)
    BY DEF Route
  <2> HIDE DEF Rec
  <2> QED BY <1>5, <2>1
<1> DEFINE at == Route(s)
<1>7. \A p \in Seq(Keys) : at[p] = IF p = <<>> THEN AtRoot ELSE IntoOf(s, at[Front(p)], Last(p))
  BY <1>6
<1> HIDE DEF at, Rec
<1>8. \A p \in Seq(Keys), k \in Keys : at[Append(p, k)] = IntoOf(s, at[p], k)
  <2>1. ASSUME NEW p \in Seq(Keys), NEW k \in Keys
        PROVE  at[Append(p, k)] = IntoOf(s, at[p], k)
    <3> DEFINE q == Append(p, k)
    <3>1. q \in Seq(Keys) /\ q # <<>> /\ Front(q) = p /\ Last(q) = k
      BY FrontLast
    <3> HIDE DEF q
    <3>2. at[q] = IntoOf(s, at[Front(q)], Last(q))
      BY <3>1, <1>7
    <3> QED BY <3>1, <3>2 DEF q
  <2> QED BY <2>1
<1>9. at[<<>>] = AtRoot
  <2>1. <<>> \in Seq(Keys)
    OBVIOUS
  <2> QED BY <2>1, <1>7
<1>10. \A p \in Seq(Keys) : at[p] \in S
  <2> DEFINE T == {p \in Seq(Keys) : at[p] \in S}
  <2>1. <<>> \in T
    BY <1>1, <1>9
  <2>2. \A p \in Seq(Keys), k \in Keys : p \in T => Append(p, k) \in T
    BY <1>1, <1>8, FrontLast
  <2> HIDE DEF T
  <2>3. \A p \in Seq(Keys) : p \in T
    BY <2>1, <2>2, EverySequence
  <2> QED BY <2>3 DEF T
<1> QED
  BY <1>8, <1>9, <1>10 DEF at, S

\* A place that is a directory, or has entries in it, is the root or an entry of a
\* directory of the tree, and the only place that starts there.
LEMMA DirPoint ==
    ASSUME NEW s \in Streams, StartsSound(s), StreamsOwned(s, {}), NEW x \in Points(s),
           x.kind = "Directory" \/ \E l \in Entries(s) : l[1] = x.start
    PROVE  /\ x.kind = "Directory" /\ x.found /\ x.start \in Dirs(s)
           /\ x.start = Root => x = AtRoot
           /\ x.start # Root => \E l \in Entries(s) :
                 x = PointAt(s, l) /\ At(s, l).kind = "Directory"
<1>1. CASE x = AtRoot
  BY <1>1, DirsOfEntries DEF AtRoot
<1>2. CASE x = Nothing
  <2>1. x.start = FREE /\ x.kind = "Unused"
    BY <1>2 DEF Nothing
  <2>2. PICK l \in Entries(s) : l[1] = x.start
    BY <2>1
  <2>3. l[1] \in Cluster
    BY LocsFacts DEF Entries
  <2> QED BY <2>1, <2>2, <2>3, ClusterFacts
<1>3. CASE \E m \in Entries(s) : x = PointAt(s, m)
  <2>1. PICK m \in Entries(s) : x = PointAt(s, m)
    BY <1>3
  <2>2. x.found /\ x.start = At(s, m).start /\ x.kind = At(s, m).kind
    BY <2>1 DEF PointAt
  <2>3. x.kind = "Directory"
    <3>1. SUFFICES ASSUME NEW l \in Entries(s), l[1] = x.start PROVE x.kind = "Directory"
      OBVIOUS
    <3>2. l[1] \in Cluster /\ l[2] \in DOMAIN s[l[1]]
      BY LocsFacts DEF Entries
    <3>3. l[1] \in Dirs(s)
      <4>1. s[l[1]] # <<>>
        BY <3>2
      <4> QED BY <4>1, <3>2 DEF StreamsOwned
    <3>4. x.start # Root
      <4>1. m \in Owners(s)
        BY <2>2, <3>1, <3>2, ClusterFacts, OwnersFacts DEF Owns, Entries
      <4> QED BY <4>1, <2>2, OwnersFacts
    <3>5. PICK n \in Entries(s) : At(s, n).kind = "Directory" /\ At(s, n).start = x.start
      BY <3>1, <3>3, <3>4, DirsOfEntries
    <3>6. m = n
      BY <3>5, <2>2, EntryHeads
    <3> QED BY <3>5, <3>6, <2>2
  <2>4. x.start # Root
    BY <2>2, <2>3, EntryHeads
  <2> QED BY <2>1, <2>2, <2>3, <2>4, DirsOfEntries
<1> QED
  BY <1>1, <1>2, <1>3 DEF Points

\* Canonical as a function of what was typed, from the path b on.
Stack(b) ==
    CHOOSE stack : stack = [p \in Seq(Keys \cup {Up}) |->
        IF p # <<>> THEN OnStack(stack[Front(p)], Last(p)) ELSE b]

\* What is typed is made a path of names, component by component.
LEMMA Stacks ==
    ASSUME NEW b \in Seq(Keys)
    PROVE  /\ Stack(b)[<<>>] = b
           /\ \A p \in Seq(Keys \cup {Up}) : Stack(b)[p] \in Seq(Keys)
           /\ \A p \in Seq(Keys \cup {Up}), k \in Keys \cup {Up} :
                 Stack(b)[Append(p, k)] = OnStack(Stack(b)[p], k)
<1> DEFINE A == Keys \cup {Up}
           S == Seq(Keys)
           g == [xk \in S \X A |-> OnStack(xk[1], xk[2])]
           Rec(st) == st = [p \in Seq(A) |->
                        IF p # <<>> THEN OnStack(st[Front(p)], Last(p)) ELSE b]
<1>1. ASSUME NEW x \in S, NEW k \in A PROVE OnStack(x, k) \in S
  <2>1. x # <<>> => Front(x) \in S
    BY FrontLast
  <2>2. k # Up => Append(x, k) \in S
    BY FrontLast
  <2> QED BY <2>1, <2>2 DEF OnStack
<1> HIDE DEF S
<1>2. g \in [S \X A -> S] /\ \A x \in S, k \in A : g[<<x, k>>] = OnStack(x, k)
  BY <1>1
<1> HIDE DEF g, A
<1>3. PICK F \in [Seq(A) -> S] : \A p \in Seq(A) :
         F[p] = IF p = <<>> THEN b ELSE g[<<F[Front(p)], Last(p)>>]
  <2>1. b \in S /\ g \in [S \X A -> S]
    BY <1>2 DEF S
  <2>2. Iterates(A, S, b, g)
    BY <2>1, Iterated
  <2> QED BY <2>2 DEF Iterates
<1>4. \A p \in Seq(A) : F[p] = IF p # <<>> THEN OnStack(F[Front(p)], Last(p)) ELSE b
  BY <1>2, <1>3, FrontLast
<1>5. Rec(F)
  <2> DEFINE G == [p \in Seq(A) |-> IF p # <<>> THEN OnStack(F[Front(p)], Last(p)) ELSE b]
  <2>1. \A p \in Seq(A) : F[p] = G[p]
    BY <1>4
  <2>2. F = G
    BY <1>3, <2>1
  <2> QED BY <2>2
<1>6. Rec(Stack(b))
  <2>1. Stack(b) = CHOOSE st : Rec(st)
    BY DEF Stack, A
  <2> HIDE DEF Rec
  <2> QED BY <1>5, <2>1
<1> DEFINE st == Stack(b)
<1>7. \A p \in Seq(A) : st[p] = IF p # <<>> THEN OnStack(st[Front(p)], Last(p)) ELSE b
  BY <1>6
<1> HIDE DEF st, Rec
<1>8. ASSUME NEW p \in Seq(A), NEW k \in A
      PROVE  st[Append(p, k)] = OnStack(st[p], k)
  <2> DEFINE q == Append(p, k)
  <2>1. q \in Seq(A) /\ q # <<>> /\ Front(q) = p /\ Last(q) = k
    BY FrontLast
  <2> HIDE DEF q
  <2>2. st[q] = OnStack(st[Front(q)], Last(q))
    BY <2>1, <1>7
  <2> QED BY <2>1, <2>2 DEF q
<1>9. st[<<>>] = b
  <2>1. <<>> \in Seq(A)
    OBVIOUS
  <2> QED BY <2>1, <1>7
<1>10. \A p \in Seq(A) : st[p] \in S
  <2> DEFINE T == {p \in Seq(A) : st[p] \in S}
  <2>1. <<>> \in T
    BY <1>9 DEF S
  <2>2. \A p \in Seq(A), k \in A : p \in T => Append(p, k) \in T
    BY <1>1, <1>8, FrontLast
  <2> HIDE DEF T
  <2>3. \A p \in Seq(A) : p \in T
    BY <2>1, <2>2, EverySequence
  <2> QED BY <2>3 DEF T
<1> QED
  BY <1>8, <1>9, <1>10 DEF st, S, A

\* Canonical is the stack that is left, from the current directory or the root.
LEMMA CanonicalIs ==
    ASSUME cwd_path \in Seq(Keys), NEW raw \in RawPath
    PROVE  /\ raw.parts \in Seq(Keys \cup {Up})
           /\ Canonical(raw) = Stack(IF raw.absolute THEN <<>> ELSE cwd_path)[raw.parts]
           /\ Canonical(raw) \in Seq(Keys)
<1> DEFINE b == IF raw.absolute THEN <<>> ELSE cwd_path
<1>1. raw.parts \in Seq(Keys \cup {Up})
  BY DEF RawPath
<1>2. Canonical(raw) = Stack(b)[raw.parts]
  BY DEF Canonical, Stack
<1>3. b \in Seq(Keys)
  OBVIOUS
<1> QED
  BY <1>1, <1>2, <1>3, Stacks

\* What commands find: the entry a path other than the root leads to, and the
\* directory that has it.
LEMMA TargetFacts ==
    ASSUME Good(fat, slots, open), cwd_path \in Seq(Keys), NEW raw \in RawPath
    PROVE  /\ Target(raw).found /\ ~NamesRoot(raw) => Target(raw).loc \in Entries(slots)
           /\ Target(raw) = Route(slots)[Canonical(raw)]
           /\ ~NamesRoot(raw) =>
                 /\ Last(Canonical(raw)) \in Keys
                 /\ ParentTarget(raw).kind = "Directory" =>
                       ParentTarget(raw).start \in Dirs(slots)
<1> DEFINE c == Canonical(raw)
<1>1. c \in Seq(Keys)
  BY CanonicalIs
<1>2. slots \in Streams /\ StartsSound(slots) /\ StreamsOwned(slots, {})
  BY DEF Good
<1>3. Target(raw) = Route(slots)[c] /\ ParentTarget(raw) = Route(slots)[Front(c)]
  BY ResolveIs DEF Target, ParentTarget
<1>4. NamesRoot(raw) <=> c = <<>>
  BY DEF NamesRoot
<1> HIDE DEF c
<1>5. ASSUME c # <<>>
      PROVE  /\ Front(c) \in Seq(Keys) /\ Last(c) \in Keys
             /\ Route(slots)[Front(c)] \in Points(slots)
             /\ Route(slots)[c] = IntoOf(slots, Route(slots)[Front(c)], Last(c))
  <2>1. Front(c) \in Seq(Keys) /\ Last(c) \in Keys /\ c = Append(Front(c), Last(c))
    BY <1>1, <1>5, FrontLast
  <2> QED BY <2>1, <1>2, Routes
<1>6. ASSUME c # <<>>, Route(slots)[c].found PROVE Route(slots)[c].loc \in Entries(slots)
  <2>1. ~Nothing.found
    BY DEF Nothing
  <2>2. PICK l \in Entries(slots) : Route(slots)[c] = PointAt(slots, l)
    BY <1>2, <1>5, <1>6, <2>1, IntoPoint
  <2> QED BY <2>2 DEF PointAt
<1>7. ASSUME c # <<>>, Route(slots)[Front(c)].kind = "Directory"
      PROVE  Route(slots)[Front(c)].start \in Dirs(slots)
  BY <1>2, <1>5, <1>7, DirPoint
<1> QED
  BY <1>3, <1>4, <1>5, <1>6, <1>7 DEF c

-----------------------------------------------------------------------------
(* What the front ends ask of the core.                                    *)

\* create of the FUSE front end: the two calls it makes under one lock.
CreateOpened(d, k) ==
    LET r == FillFreeDirSlot(fat, slots, d)
    IN  /\ ~Exists(d, k) /\ HasRoom(fat, slots, d)
        /\ fat' = r.fat
        /\ slots' = RefreshDirSize([r.slots EXCEPT ![d][r.index] = File(k)], d)
        /\ \/ Holes = {} /\ open' = open /\ ret' = "TooManyOpenFiles"
           \/ /\ Holes # {} /\ ret' = "Ok"
              /\ open' = [open EXCEPT ![Min(Holes)] =
                            [dir |-> d, index |-> r.index, cursor |-> 0, fcb |-> File(k)]]
\* setattr of the FUSE front end: a truncation that succeeds, and then a time that
\* is refused.
ResizeRefused(l, size) == Resize(l, size) /\ ret' = "InvalidConfig"
CoreStep ==
    \/ UNCHANGED <<fat, slots, open>>
    \/ Next
    \/ \E d \in Dirs(slots), k \in Keys : CreateOpened(d, k)
    \/ \E l \in Locs(slots), size \in Offsets : ResizeRefused(l, size)

\* A node that is a directory has a stream.
LEMMA DirNode ==
    ASSUME NEW n \in Nodes, IsDir(n)
    PROVE  DirCluster(n) \in Dirs(slots) /\ (n # RootNode => n \in Entries(slots))
<1>1. CASE n = RootNode
  BY <1>1, DirsOfEntries DEF DirCluster, Meta, Unused
<1>2. CASE n # RootNode
  <2>1. n \in Locs(slots) /\ Entry(n).kind = "Directory" /\ DirCluster(n) = Entry(n).start
    BY <1>2 DEF Nodes, IsDir, Meta, DirCluster
  <2>2. n \in Entries(slots) /\ Entry(n) = At(slots, n)
    BY <2>1 DEF Entries, Occupied, At, Entry
  <2> QED BY <2>1, <2>2, DirsOfEntries
<1> QED
  BY <1>1, <1>2

\* A command of the shell is a call of the core or fails before it makes one.
LEMMA ShellCore ==
    ASSUME Good(fat, slots, open), cwd_path \in Seq(Keys), ShellNext
    PROVE  UNCHANGED <<fat, slots, open>> \/ Next
<1>1. ASSUME NEW raw \in RawPath, Cd(raw) PROVE UNCHANGED <<fat, slots, open>>
  BY <1>1 DEF Cd, Fail
<1>2. ASSUME NEW raw \in RawPath, ShellMkdir(raw) \/ ShellCreate(raw)
      PROVE  UNCHANGED <<fat, slots, open>> \/ Next
  <2> DEFINE d == ParentTarget(raw).start
             k == Last(Canonical(raw))
  <2>1. CASE UNCHANGED <<fat, slots, open>>
    BY <2>1
  <2>2. CASE /\ ~NamesRoot(raw) /\ ParentTarget(raw).kind = "Directory"
             /\ Mkdir(d, k) \/ CreateFile(d, k)
    <3>1. d \in Dirs(slots) /\ k \in Keys
      BY <2>2, TargetFacts
    <3> HIDE DEF d, k
    <3> QED BY <3>1, <2>2 DEF Next, DirectoryStep
  <2> HIDE DEF d, k
  <2> QED BY <1>2, <2>1, <2>2 DEF ShellMkdir, ShellCreate, InParent, Fail, d, k
<1>3. ASSUME NEW raw \in RawPath, ShellRm(raw) \/ ShellRmdir(raw) \/ ShellOpen(raw)
      PROVE  UNCHANGED <<fat, slots, open>> \/ Next
  <2> DEFINE l == Target(raw).loc
  <2>1. CASE UNCHANGED <<fat, slots, open>>
    BY <2>1
  <2>2. CASE /\ ~NamesRoot(raw) /\ Target(raw).found
             /\ Rm(l) \/ Rmdir(l) \/ Open(l)
    <3>1. l \in Locs(slots)
      BY <2>2, TargetFacts DEF Entries
    <3> HIDE DEF l
    <3> QED BY <3>1, <2>2 DEF Next, DirectoryStep
  <2> HIDE DEF l
  <2> QED BY <1>3, <2>1, <2>2 DEF ShellRm, ShellRmdir, ShellOpen, OnEntry, Fail, l
<1>4. CASE ShellHandle
  BY <1>4 DEF ShellHandle, Next
<1> QED
  BY <1>1, <1>2, <1>3, <1>4 DEF ShellNext

\* The open files, each with its place.
HeldOf(o) == {<<h, Place(o, h)>> : h \in {x \in Handle : o[x] # NoFile}}

\* A request of the kernel is a call of the core, fails before it makes one, or is
\* the create that opens what it creates.
LEMMA FuseCore ==
    ASSUME Good(fat, slots, open), held = HeldOf(open), FuseNext
    PROVE  CoreStep
<1>1. ASSUME NEW p \in Nodes, NEW k \in Keys, Mknod(p, k) \/ FuseMkdir(p, k)
      PROVE  CoreStep
  <2> DEFINE d == DirCluster(p)
  <2>1. CASE UNCHANGED <<fat, slots, open>>
    BY <2>1 DEF CoreStep
  <2>2. CASE IsDir(p) /\ (CreateFile(d, k) \/ Mkdir(d, k))
    <3>1. d \in Dirs(slots)
      BY <2>2, DirNode
    <3> HIDE DEF d
    <3> QED BY <3>1, <2>2 DEF CoreStep, Next, DirectoryStep
  <2> HIDE DEF d
  <2> QED BY <1>1, <2>1, <2>2 DEF Mknod, FuseMkdir, NoSuchParent, Fail, d
<1>2. ASSUME NEW p \in Nodes, NEW k \in Keys, Unlink(p, k) \/ FuseRmdir(p, k)
      PROVE  CoreStep
  <2> DEFINE d == DirCluster(p)
  <2>1. CASE UNCHANGED <<fat, slots, open>>
    BY <2>1 DEF CoreStep
  <2>2. CASE IsDir(p) /\ \E l \in LocsNamed(d, k) : Rm(l) \/ Rmdir(l)
    <3>1. d \in Dirs(slots)
      BY <2>2, DirNode
    <3>2. d \in Cluster
      BY <3>1, DirsAreHeads, HeadsType DEF Good
    <3> HIDE DEF d
    <3>3. LocsNamed(d, k) \subseteq Locs(slots)
      BY <3>2, InLocs DEF LocsNamed
    <3>4. PICK l \in Locs(slots) : Rm(l) \/ Rmdir(l)
      BY <2>2, <3>3
    <3> QED BY <3>4 DEF CoreStep, Next, DirectoryStep
  <2> HIDE DEF d
  <2> QED BY <1>2, <2>1, <2>2 DEF Unlink, FuseRmdir, NoSuchParent, Fail, d
<1>3. ASSUME NEW p \in Nodes, NEW k \in Keys, Create(p, k) PROVE CoreStep
  <2> DEFINE d == DirCluster(p)
  <2>1. CASE UNCHANGED <<fat, slots, open>>
    BY <2>1 DEF CoreStep
  <2>2. CASE IsDir(p) /\ (CreateFile(d, k) \/ CreateOpened(d, k))
    <3>1. d \in Dirs(slots)
      BY <2>2, DirNode
    <3> HIDE DEF d
    <3> QED BY <3>1, <2>2 DEF CoreStep, Next, DirectoryStep
  <2> HIDE DEF d
  <2> QED BY <1>3, <2>1, <2>2 DEF Create, CreateOpened, NewLoc, NoSuchParent, Fail, d
<1>4. ASSUME NEW n \in Nodes, n # RootNode PROVE n \in Locs(slots)
  BY <1>4 DEF Nodes
<1>5. ASSUME NEW n \in Nodes, FuseOpen(n) PROVE CoreStep
  <2>1. CASE n # RootNode /\ Open(n)
    BY <2>1, <1>4 DEF CoreStep, Next, DirectoryStep
  <2> QED BY <1>5, <2>1 DEF FuseOpen, Fail, CoreStep
<1>6. ASSUME NEW n \in Nodes, NEW size \in Offsets, SetSize(n, size) PROVE CoreStep
  <2>1. CASE n # RootNode /\ Truncate(n, size)
    BY <2>1, <1>4 DEF CoreStep, Next, FileStep
  <2>2. CASE n # RootNode /\ Resize(n, size) /\ ret' = "InvalidConfig"
    BY <2>2, <1>4 DEF CoreStep, ResizeRefused
  <2> QED BY <1>6, <2>1, <2>2 DEF SetSize, Fail, CoreStep
<1>7. ASSUME NEW n \in Nodes, SetTime(n) PROVE CoreStep
  BY <1>7 DEF SetTime, Fail, CoreStep
<1>8. ASSUME NEW p \in held
      PROVE  p[1] \in Handle /\ IsOpen(p[1]) /\ p = <<p[1], LocOf(p[1])>>
             /\ LocOf(p[1]) \in Locs(slots)
  <2>1. p[1] \in Handle /\ IsOpen(p[1]) /\ p = <<p[1], LocOf(p[1])>>
    BY DEF HeldOf, IsOpen, LocOf, Place
  <2> QED BY <2>1, OpenTypes
<1>9. ASSUME NEW p \in held, NEW offset \in Offsets, NEW len \in Lengths,
             Write(p[1], offset, len)
      PROVE  CoreStep
  BY <1>8, <1>9 DEF Write, CoreStep, Next, FileStep
<1>10. ASSUME NEW p \in held, Release(p[1]) PROVE CoreStep
  BY <1>8, <1>10 DEF Release, CoreStep, Next, HandleStep
<1>11. ASSUME NEW n \in Nodes, Opendir(n) PROVE CoreStep
  BY <1>11 DEF Opendir, vars, CoreStep
<1>12. ASSUME NEW room, Readdir(room) PROVE CoreStep
  BY <1>12 DEF Readdir, vars, CoreStep
<1> QED
  BY <1>1, <1>2, <1>3, <1>5, <1>6, <1>7, <1>9, <1>10, <1>11, <1>12 DEF FuseNext

\* The create that opens leaves the core as good as a call of its own does.
LEMMA CreateOpenedGood ==
    ASSUME Good(fat, slots, open), NEW d \in Dirs(slots), NEW k \in Keys, CreateOpened(d, k)
    PROVE  /\ Good(fat', slots', open')
           /\ \E l \in Locs(slots') :
                 /\ MayAdd(slots, d, k, File(k)) /\ Added(slots, slots', d, l, File(k))
                 /\ l = <<d, FillFreeDirSlot(fat, slots, d).index>>
<1> DEFINE e == File(k)
           r == FillFreeDirSlot(fat, slots, d)
           l == <<d, r.index>>
           x == [dir |-> d, index |-> r.index, cursor |-> 0, fcb |-> e]
<1>0. d \in Cluster
  BY DirsAreHeads, HeadsType DEF Good
<1>1. e \in Slot /\ Occupied(e) /\ e.kind = "File" /\ e.start = FREE /\ e.size = 0
      /\ e.name = ShortName[k]
  BY EmptyClusterType DEF File, Occupied
<1>2. Brought(e) = {} /\ Named(e) = {}
  BY <1>1 DEF Brought, Named
<1>3. /\ slots' = RefreshDirSize(Put(r.slots, l, e), d) /\ fat' = r.fat
      /\ ~Exists(d, k)
      /\ \/ open' = open
         \/ Holes # {} /\ open' = [open EXCEPT ![Min(Holes)] = x]
  BY DEF CreateOpened, Put
<1> HIDE DEF e
<1>4. LinksSound(fat, HeadsOf(slots) \cup Brought(e))
  <2>1. HeadsOf(slots) \cup {} = HeadsOf(slots)
    OBVIOUS
  <2> QED BY <2>1, <1>2 DEF Good
<1>5. Good(fat', slots', open)
  BY <1>1, <1>2, <1>3, <1>4, AddEntryGood DEF Good
<1>6. Added(slots, slots', d, l, e)
  BY <1>0, <1>1, <1>3, AddEntryAdds DEF Good
<1>7. MayAdd(slots, d, k, e)
  BY <1>0, <1>1, <1>3, NotExists DEF MayAdd
<1>8. l \in Locs(slots') /\ l \in Entries(slots') /\ At(slots', l) = e /\ l \notin Entries(slots)
  BY <1>6 DEF Added, Entries
<1>9. CASE Holes # {} /\ open' = [open EXCEPT ![Min(Holes)] = x]
  <2> DEFINE h == Min(Holes)
  <2>1. h \in Handle /\ open[h] = NoFile
    <3>1. Holes \in SUBSET Handle
      BY DEF Holes
    <3>2. h \in Holes
      BY <3>1, <1>9, HandleFacts
    <3> QED BY <3>2 DEF Holes, IsOpen
  <2>2. x \in OpenFile /\ x.fcb = e /\ x.cursor = 0 /\ x.dir = d /\ x.index = r.index
    <3>1. r.index \in Nat
      BY <1>5, <1>8, LocsFacts DEF Good
    <3> QED BY <3>1, <1>0, <1>1 DEF OpenFile
  <2>3. l = <<x.dir, x.index>>
    BY <2>2
  <2> HIDE DEF x, h, l, r
  <2>4. open \in OpenTable
    BY DEF Good
  <2>5. open' \in OpenTable /\ open'[h] = x /\ \A g \in Handle : g # h => open'[g] = open[g]
    BY <1>9, <2>1, <2>2, <2>4 DEF OpenTable, h
  <2>6. x # NoFile /\ Place(open', h) = l
    BY <2>2, <2>3, <2>5, NoFileAssumption DEF Place
  <2>7. \A g \in Handle : g # h => Place(open', g) = Place(open, g)
    BY <2>5 DEF Place
  <2>8. \A g \in Handle : open[g] # NoFile => Place(open, g) # l
    <3>1. ASSUME NEW g \in Handle, open[g] # NoFile
          PROVE  Place(open, g) \in Entries(slots)
      <4>1. Place(open, g) \in Locs(slots) /\ At(slots, Place(open, g)).kind = "File"
        BY <3>1 DEF Good, OpenSound
      <4> QED BY <4>1 DEF Entries, Occupied
    <3> QED BY <3>1, <1>8
  <2>9. OpenSound(slots', open)
    BY <1>5 DEF Good
  <2>10. OpenSound(slots', open')
    <3> SUFFICES ASSUME NEW g \in Handle, open'[g] # NoFile
        PROVE  /\ Place(open', g) \in Locs(slots')
               /\ At(slots', Place(open', g)).kind = "File"
               /\ open'[g].fcb = At(slots', Place(open', g))
               /\ open'[g].cursor <= open'[g].fcb.size
               /\ \A f \in Handle : open'[f] # NoFile /\ Place(open', f) = Place(open', g)
                                    => f = g
      BY DEF OpenSound
    <3>1. CASE g = h
      <4>1. \A f \in Handle : open'[f] # NoFile /\ Place(open', f) = l => f = h
        BY <2>5, <2>7, <2>8
      <4> QED BY <3>1, <4>1, <1>1, <1>8, <2>2, <2>5, <2>6
    <3>2. CASE g # h
      <4>1. open'[g] = open[g] /\ Place(open', g) = Place(open, g) /\ open[g] # NoFile
        BY <3>2, <2>5, <2>7
      <4>2. \A f \in Handle : open'[f] # NoFile /\ Place(open', f) = Place(open, g) => f = g
        <5> SUFFICES ASSUME NEW f \in Handle, open'[f] # NoFile,
                            Place(open', f) = Place(open, g)
            PROVE  f = g
          OBVIOUS
        <5>1. f # h
          BY <2>6, <2>8, <4>1
        <5> QED BY <5>1, <2>5, <2>7, <2>9, <4>1 DEF OpenSound
      <4> QED BY <4>1, <4>2, <2>9 DEF OpenSound
    <3> QED BY <3>1, <3>2
  <2>11. open' \in OpenTable
    BY <2>5
  <2>12. Good(fat', slots', open')
    BY <2>10, <2>11, <1>5 DEF Good
  <2>13. l = <<d, r.index>>
    BY DEF l
  <2> QED BY <2>12, <2>13, <1>6, <1>7, <1>8 DEF e, r
<1> QED
  BY <1>3, <1>5, <1>6, <1>7, <1>8, <1>9 DEF e

\* What any step of the front ends makes of the core.
LEMMA CoreChange ==
    ASSUME Good(fat, slots, open), CoreStep
    PROVE  Good(fat', slots', open') /\ EntryStep(slots, slots')
<1>1. CASE UNCHANGED <<fat, slots, open>>
  BY <1>1 DEF EntryStep
<1>2. CASE Next
  BY <1>2, NextGood, EntriesChange
<1>3. CASE \E d \in Dirs(slots), k \in Keys : CreateOpened(d, k)
  <2>1. PICK d \in Dirs(slots), k \in Keys : CreateOpened(d, k)
    BY <1>3
  <2>2. File(k) \in Slot
    BY EmptyClusterType
  <2> QED BY <2>1, <2>2, CreateOpenedGood DEF EntryStep
<1>4. CASE \E l \in Locs(slots), size \in Offsets : ResizeRefused(l, size)
  <2>1. PICK l \in Locs(slots), size \in Nat : Resize(l, size)
    BY <1>4, ParameterTypes DEF ResizeRefused
  <2> QED BY <2>1, TruncateGood, TruncateStep DEF EntryStep
<1> QED
  BY <1>1, <1>2, <1>3, <1>4 DEF CoreStep

-----------------------------------------------------------------------------
(* The handles the kernel holds.                                           *)

\* What keeps every place keeps what is held.
LEMMA HeldSame ==
    ASSUME NEW o, NEW p,
           \A h \in Handle : /\ p[h] = NoFile <=> o[h] = NoFile
                             /\ o[h] # NoFile => Place(p, h) = Place(o, h)
    PROVE  HeldOf(p) = HeldOf(o)
BY DEF HeldOf

\* Handles that follow an entry keep their places.
LEMMA FollowsHeld ==
    ASSUME NEW l, NEW e, NEW p, Follows(l, e, p)
    PROVE  HeldOf(p) = HeldOf(open)
<1>1. ASSUME NEW h \in Handle
      PROVE  /\ p[h] = NoFile <=> open[h] = NoFile
             /\ open[h] # NoFile => Place(p, h) = Place(open, h)
  <2>1. CASE open[h] # NoFile /\ Place(open, h) = l
    BY <2>1 DEF Follows
  <2>2. CASE ~(open[h] # NoFile /\ Place(open, h) = l)
    <3>1. p[h] = open[h]
      BY <2>2 DEF Follows
    <3> QED BY <3>1 DEF Place
  <2> QED BY <2>1, <2>2
<1> QED
  BY <1>1, HeldSame

\* A write or truncation by path takes and gives no handle.
LEMMA FileStepHeld ==
    ASSUME Good(fat, slots, open)
    PROVE  /\ \A l \in Locs(slots), offset \in Nat, len \in Nat :
                 WriteAt(l, offset, len) => HeldOf(open') = HeldOf(open)
           /\ \A l \in Locs(slots), size \in Nat :
                 Truncate(l, size) \/ Resize(l, size) => HeldOf(open') = HeldOf(open)
<1>1. ASSUME NEW l \in Locs(slots), NEW end \in Nat, Entry(l).kind = "File",
             CanWrite(Entry(l), end), open' = Refreshed(l, Written(Entry(l), end))
      PROVE  HeldOf(open') = HeldOf(open)
  <2>1. Entry(l) \in Slot /\ fat \in [Cluster -> FatEntry]
    BY LocsFacts DEF Good, At, Entry
  <2>2. Written(Entry(l), end) \in Slot /\ Entry(l).size <= Written(Entry(l), end).size
    BY <1>1, <2>1, WrittenFacts
  <2> QED BY <1>1, <2>2, RefreshedFollows, FollowsHeld
<1>2. ASSUME NEW l \in Locs(slots), NEW size \in Nat, Entry(l).kind = "File",
             Shrink(l, size)
      PROVE  HeldOf(open') = HeldOf(open)
  <2> DEFINE e == [Entry(l) EXCEPT !.size = size,
                     !.start = IF CeilDiv(size, ClusterSize) = 0 THEN FREE ELSE @]
  <2>1. Entry(l) \in Slot
    BY LocsFacts DEF Good, At, Entry
  <2>2. e \in Slot
    BY <2>1 DEF Slot
  <2>3. open' = Clamped(l, e)
    BY <1>2 DEF Shrink
  <2> HIDE DEF e
  <2> QED BY <2>2, <2>3, ClampedFollows, FollowsHeld
<1>3. ASSUME NEW l \in Locs(slots), NEW offset \in Nat, NEW len \in Nat,
             WriteAt(l, offset, len)
      PROVE  HeldOf(open') = HeldOf(open)
  <2> DEFINE end == offset + len
  <2>1. end \in Nat
    OBVIOUS
  <2> HIDE DEF end
  <2> QED BY <1>3, <2>1, <1>1 DEF WriteAt, Fail, end
<1>4. ASSUME NEW l \in Locs(slots), NEW size \in Nat, Truncate(l, size) \/ Resize(l, size)
      PROVE  HeldOf(open') = HeldOf(open)
  BY <1>4, <1>1, <1>2 DEF Truncate, Resize, Fail
<1> QED
  BY <1>3, <1>4

\* A file in a hole of the table is one more that is held.
LEMMA HeldTaken ==
    ASSUME Good(fat, slots, open), Holes # {}, NEW x, x # NoFile,
           open' = [open EXCEPT ![Min(Holes)] = x]
    PROVE  HeldOf(open') = HeldOf(open) \cup {<<Min(Holes), <<x.dir, x.index>> >>}
<1> DEFINE h == Min(Holes)
<1>1. h \in Handle /\ open[h] = NoFile
  <2>1. Holes \in SUBSET Handle
    BY DEF Holes
  <2>2. h \in Holes
    BY <2>1, HandleFacts
  <2> QED BY <2>2 DEF Holes, IsOpen
<1> HIDE DEF h
<1>2. open'[h] = x /\ \A g \in Handle : g # h => open'[g] = open[g]
  BY <1>1 DEF Good, OpenTable, h
<1>3. Place(open', h) = <<x.dir, x.index>>
      /\ \A g \in Handle : g # h => Place(open', g) = Place(open, g)
  BY <1>2 DEF Place
<1>4. {g \in Handle : open'[g] # NoFile} = {g \in Handle : open[g] # NoFile} \cup {h}
  BY <1>1, <1>2
<1>5. HeldOf(open') = HeldOf(open) \cup {<<h, Place(open', h)>>}
  BY <1>1, <1>3, <1>4 DEF HeldOf
<1> QED
  BY <1>3, <1>5 DEF h

\* What the kernel holds stays what is open.
LEMMA FuseHeld ==
    ASSUME Good(fat, slots, open), held = HeldOf(open), FuseNext
    PROVE  held' = HeldOf(open')
<1>0. ASSUME UNCHANGED <<open, held>> PROVE held' = HeldOf(open')
  BY <1>0
<1>1. ASSUME NEW p \in Nodes, NEW k \in Keys, Mknod(p, k) \/ FuseMkdir(p, k)
      PROVE  UNCHANGED <<open, held>>
  BY <1>1 DEF Mknod, FuseMkdir, NoSuchParent, Fail, CreateFile, Mkdir, AddEntry
<1>2. ASSUME NEW p \in Nodes, NEW k \in Keys, Unlink(p, k) \/ FuseRmdir(p, k)
      PROVE  UNCHANGED <<open, held>>
  BY <1>2 DEF Unlink, FuseRmdir, NoSuchParent, Fail, Rm, Rmdir, RemoveEntry
<1>3. ASSUME NEW p \in Nodes, NEW k \in Keys, Create(p, k) PROVE held' = HeldOf(open')
  <2> DEFINE d == DirCluster(p)
             l == NewLoc(d)
             x == [dir |-> l[1], index |-> l[2], cursor |-> 0, fcb |-> File(k)]
  <2>1. CASE UNCHANGED <<open, held>>
    BY <2>1
  <2>2. CASE /\ IsDir(p) /\ Holes # {}
             /\ open' = [open EXCEPT ![Min(Holes)] = x]
             /\ held' = held \cup {<<Min(Holes), l>>}
    <3>1. d \in Dirs(slots)
      BY <2>2, DirNode
    <3>2. l[1] = d /\ l = <<l[1], l[2]>> /\ <<x.dir, x.index>> = l
      BY DEF NewLoc
    <3>3. x # NoFile
      <4>1. <<d, FillFreeDirSlot(fat, slots, d).index>> \in
               Locs(FillFreeDirSlot(fat, slots, d).slots)
            /\ FillFreeDirSlot(fat, slots, d).slots \in Streams /\ d \in Cluster
        BY <3>1, FillFacts, DirsAreHeads, HeadsType DEF Good
      <4>2. FillFreeDirSlot(fat, slots, d).index \in Nat
        BY <4>1, LocsFacts
      <4>3. x \in OpenFile
        BY <4>1, <4>2, EmptyClusterType DEF OpenFile, NewLoc
      <4> QED BY <4>3, NoFileAssumption
    <3> HIDE DEF x, l
    <3> QED BY <2>2, <3>2, <3>3, HeldTaken
  <2> QED BY <1>3, <2>1, <2>2 DEF Create, CreateFile, AddEntry, NoSuchParent, Fail
<1>4. ASSUME NEW n \in Nodes, n # RootNode PROVE n \in Locs(slots)
  BY <1>4 DEF Nodes
<1>5. ASSUME NEW n \in Nodes, FuseOpen(n) PROVE held' = HeldOf(open')
  <2> DEFINE x == [dir |-> n[1], index |-> n[2], cursor |-> 0, fcb |-> Entry(n)]
  <2>1. CASE ret' # "Ok"
    BY <1>5, <2>1 DEF FuseOpen, Open, Given, Fail
  <2>2. CASE ret' = "Ok"
    <3>1. /\ n # RootNode /\ Holes # {} /\ open' = [open EXCEPT ![Min(Holes)] = x]
          /\ held' = held \cup {<<Min(Holes), n>>}
      BY <1>5, <2>2 DEF FuseOpen, Open, Given, Fail
    <3>2. n \in Locs(slots) /\ n = <<n[1], n[2]>>
      BY <3>1, <1>4, LocsFacts DEF Good
    <3>3. x # NoFile
      <4>1. n[1] \in Cluster /\ n[2] \in Nat /\ Entry(n) \in Slot
        BY <3>2, LocsFacts DEF Good, At, Entry
      <4>2. x \in OpenFile
        BY <4>1 DEF OpenFile
      <4> QED BY <4>2, NoFileAssumption
    <3>4. <<x.dir, x.index>> = n
      BY <3>2
    <3> HIDE DEF x
    <3> QED BY <3>1, <3>3, <3>4, HeldTaken
  <2> QED BY <2>1, <2>2
<1>6. ASSUME NEW n \in Nodes, NEW size \in Offsets, SetSize(n, size)
      PROVE  held' = HeldOf(open')
  <2>1. CASE n # RootNode /\ (Truncate(n, size) \/ Resize(n, size))
    BY <2>1, <1>4, <1>6, FileStepHeld, ParameterTypes DEF SetSize
  <2> QED BY <1>6, <2>1 DEF SetSize, Fail
<1>7. ASSUME NEW n \in Nodes, SetTime(n) PROVE UNCHANGED <<open, held>>
  BY <1>7 DEF SetTime, Fail
<1>8. ASSUME NEW p \in held
      PROVE  p[1] \in Handle /\ IsOpen(p[1]) /\ LocOf(p[1]) \in Locs(slots)
  <2>1. p[1] \in Handle /\ IsOpen(p[1])
    BY DEF HeldOf, IsOpen
  <2> QED BY <2>1, OpenTypes
<1>9. ASSUME NEW p \in held, NEW offset \in Offsets, NEW len \in Lengths,
             Write(p[1], offset, len)
      PROVE  held' = HeldOf(open')
  BY <1>8, <1>9, FileStepHeld, ParameterTypes DEF Write
<1>10. ASSUME NEW p \in held, Release(p[1]) PROVE held' = HeldOf(open')
  <2> DEFINE h == p[1]
  <2>1. h \in Handle /\ IsOpen(h) /\ open' = [open EXCEPT ![h] = NoFile]
        /\ held' = {q \in held : q[1] # h}
    BY <1>8, <1>10 DEF Release, CloseHandle
  <2> HIDE DEF h
  <2>2. open'[h] = NoFile /\ \A g \in Handle : g # h => open'[g] = open[g]
    BY <2>1 DEF Good, OpenTable
  <2>3. \A g \in Handle : g # h => Place(open', g) = Place(open, g)
    BY <2>2 DEF Place
  <2>4. {g \in Handle : open'[g] # NoFile} = {g \in Handle : open[g] # NoFile} \ {h}
    BY <2>2
  <2>5. HeldOf(open') = {<<g, Place(open, g)>> : g \in {f \in Handle : open[f] # NoFile} \ {h}}
    BY <2>3, <2>4 DEF HeldOf
  <2>6. held = {<<g, Place(open, g)>> : g \in {f \in Handle : open[f] # NoFile}}
    BY DEF HeldOf
  <2>7. held' = HeldOf(open')
    <3> DEFINE pair(g) == <<g, Place(open, g)>>
               H == {f \in Handle : open[f] # NoFile}
    <3>1. \A g : pair(g)[1] = g
      OBVIOUS
    <3>2. held = {pair(g) : g \in H} /\ HeldOf(open') = {pair(g) : g \in H \ {h}}
      BY <2>5, <2>6
    <3> HIDE DEF pair, H
    <3>3. {q \in {pair(g) : g \in H} : q[1] # h} = {pair(g) : g \in H \ {h}}
      BY <3>1
    <3> QED BY <2>1, <3>2, <3>3
  <2> QED BY <2>7
<1>11. ASSUME NEW n \in Nodes, Opendir(n) PROVE UNCHANGED <<open, held>>
  BY <1>11 DEF Opendir, vars
<1>12. ASSUME NEW room, Readdir(room) PROVE UNCHANGED <<open, held>>
  BY <1>12 DEF Readdir, vars
<1> QED
  BY <1>0, <1>1, <1>2, <1>3, <1>5, <1>6, <1>7, <1>9, <1>10, <1>11, <1>12 DEF FuseNext

-----------------------------------------------------------------------------
(* The invariant of the front ends.                                        *)

\* What every request and command preserves: the core is as good as its own calls
\* keep it, the kernel holds the open files, and the path of the shell is one of
\* names.  The program that does not run keeps nothing.
FrontInv ==
    /\ Good(fat, slots, open) /\ SizesCurrent(slots)
    /\ cwd_path \in Seq(Keys) /\ program \in {"fuse", "shell"}
    /\ program = "fuse" => held = HeldOf(open) /\ cwd_path = <<>> /\ cwd_cluster = Root
    /\ program = "shell" => unset = {} /\ held = {} /\ listing = Idle

\* It holds in the beginning ...
LEMMA FrontInitInv == FrontInit => FrontInv
<1> SUFFICES ASSUME FrontInit PROVE FrontInv
  OBVIOUS
<1>1. Good(fat, slots, open) /\ SizesCurrent(slots)
  BY InitGood, InitEntries DEF FrontInit, SizesCurrent
<1>2. HeldOf(open) = {}
  BY DEF FrontInit, Init, HeldOf
<1> QED
  BY <1>1, <1>2 DEF FrontInit, FuseInit, ShellInit, FrontInv

\* ... every step is one of the core ...
LEMMA FrontCore ==
    ASSUME FrontInv, [FrontNext]_frontVars
    PROVE  CoreStep
<1>1. CASE program = "fuse" /\ FuseNext
  BY <1>1, FuseCore DEF FrontInv
<1>2. CASE program = "shell" /\ ShellNext
  BY <1>2, ShellCore DEF FrontInv, CoreStep
<1>3. CASE UNCHANGED frontVars
  BY <1>3 DEF frontVars, vars, CoreStep
<1> QED
  BY <1>1, <1>2, <1>3 DEF FrontNext

\* ... and preserves it.
LEMMA FrontStepInv ==
    ASSUME FrontInv, [FrontNext]_frontVars
    PROVE  FrontInv' /\ EntryStep(slots, slots')
<1>1. Good(fat', slots', open') /\ EntryStep(slots, slots')
  BY FrontCore, CoreChange DEF FrontInv
<1>2. SizesCurrent(slots')
  BY <1>1, SizesKept DEF FrontInv, Good
<1>3. CASE program = "fuse" /\ FuseNext /\ UNCHANGED <<shellVars, program>>
  BY <1>1, <1>2, <1>3, FuseHeld DEF FrontInv, shellVars
<1>4. CASE program = "shell" /\ ShellNext /\ UNCHANGED <<fuseVars, program>>
  <2>1. cwd_path' \in Seq(Keys)
    <3>1. \A raw \in RawPath : Canonical(raw) \in Seq(Keys)
      BY CanonicalIs DEF FrontInv
    <3>2. cwd_path' = cwd_path \/ \E raw \in RawPath : cwd_path' = Canonical(raw)
      <4>1. ASSUME NEW raw \in RawPath, Cd(raw)
            PROVE  cwd_path' = cwd_path \/ cwd_path' = Canonical(raw)
        BY <4>1 DEF Cd, shellVars
      <4>2. Stay => cwd_path' = cwd_path
        BY DEF Stay
      <4> QED
        BY <1>4, <4>1, <4>2 DEF ShellNext, ShellMkdir, ShellCreate, ShellRm, ShellRmdir,
           ShellOpen, ShellHandle, InParent, OnEntry
    <3> QED BY <3>1, <3>2 DEF FrontInv
  <2> QED BY <1>1, <1>2, <1>4, <2>1 DEF FrontInv, fuseVars
<1>5. CASE UNCHANGED frontVars
  BY <1>1, <1>2, <1>5 DEF FrontInv, frontVars, vars, fuseVars, shellVars
<1> QED
  BY <1>1, <1>3, <1>4, <1>5 DEF FrontNext

\* Whatever requests or commands come, the invariant holds.
LEMMA FrontInvariance == FrontSpec => []FrontInv
BY FrontInitInv, FrontStepInv, PTL DEF FrontSpec

\* The handles open in the file system are those the kernel was given, each on the
\* inode it was given for, and that inode is still a file.
THEOREM KernelHandlesAgree == FrontSpec => []HandlesAgree
<1>1. FrontInv => HandlesAgree
  <2> SUFFICES ASSUME FrontInv, program = "fuse" PROVE HandlesAgree
    BY DEF HandlesAgree
  <2>1. held = {<<h, LocOf(h)>> : h \in {x \in Handle : IsOpen(x)}}
    BY DEF FrontInv, HeldOf, Place, LocOf, IsOpen
  <2>2. ASSUME NEW p \in held PROVE Entry(p[2]).kind = "File"
    <3>1. PICK h \in Handle : IsOpen(h) /\ p = <<h, LocOf(h)>>
      BY <2>1
    <3>2. p[2] = LocOf(h)
      BY <3>1
    <3> QED BY <3>1, <3>2, OpenTypes DEF FrontInv
  <2> QED BY <2>1, <2>2 DEF HandlesAgree
<1> QED
  BY <1>1, FrontInvariance, PTL

\* A call of the core that fails leaves the streams and the open files.
LEMMA ErrorKeeps ==
    ASSUME Next, ret' # "Ok"
    PROVE  UNCHANGED <<slots, open>>
<1>1. \A d, k : CreateFile(d, k) => UNCHANGED <<slots, open>>
  BY DEF CreateFile, AddEntry, Fail
<1>2. \A d, k : Mkdir(d, k) => UNCHANGED <<slots, open>>
  BY DEF Mkdir, AddEntry, Fail
<1>3. \A l : Rm(l) \/ Rmdir(l) => UNCHANGED <<slots, open>>
  BY DEF Rm, Rmdir, RemoveEntry, Fail
<1>4. \A l : Open(l) => UNCHANGED <<slots, open>>
  BY DEF Open, Fail
<1>5. \A h : CloseHandle(h) => UNCHANGED <<slots, open>>
  BY DEF CloseHandle, Fail
<1>6. \A h, pos : SeekHandle(h, pos) => UNCHANGED <<slots, open>>
  BY DEF SeekHandle, MoveCursor, Fail
<1>7. \A h, len : ReadHandle(h, len) => UNCHANGED <<slots, open>>
  BY DEF ReadHandle, MoveCursor, Fail
<1>8. \A h, len : WriteHandle(h, len) => UNCHANGED <<slots, open>>
  BY DEF WriteHandle, Fail
<1>9. \A l, offset, len : WriteAt(l, offset, len) => UNCHANGED <<slots, open>>
  BY DEF WriteAt, Fail
<1>10. \A l, size : Truncate(l, size) => UNCHANGED <<slots, open>>
  BY DEF Truncate, Fail
<1>11. \A h, size : TruncateHandle(h, size) => UNCHANGED <<slots, open>>
  BY <1>10 DEF TruncateHandle, Fail
<1> QED
  BY <1>1, <1>2, <1>3, <1>4, <1>5, <1>6, <1>7, <1>8, <1>9, <1>10, <1>11
     DEF Next, DirectoryStep, FileStep, HandleStep

\* An entry that is added counts one more in its directory.
LEMMA CountAdded ==
    ASSUME NEW s \in Streams, NEW t \in Streams, NEW d \in Cluster, NEW l, NEW e,
           Added(s, t, d, l, e)
    PROVE  Count(t[d]) = Count(s[d]) + 1
<1> DEFINE P(u) == {i \in DOMAIN u[d] : Occupied(u[d][i])}
<1>1. \A u \in Streams : \A m : m[1] = d /\ m = <<m[1], m[2]>> =>
         (m \in Entries(u) <=> m[2] \in P(u))
  BY LocsFacts, InLocs DEF Entries, At
<1>2. l \in Entries(t) /\ l[1] = d /\ l = <<d, l[2]>>
  BY LocsFacts DEF Added, Entries
<1>3. P(t) = P(s) \cup {l[2]} /\ l[2] \notin P(s)
  <2>1. ASSUME NEW i PROVE i \in P(t) <=> i \in P(s) \/ i = l[2]
    <3> DEFINE m == <<d, i>>
    <3>1. m[1] = d /\ m[2] = i /\ m = <<m[1], m[2]>> /\ (m = l <=> i = l[2])
      BY <1>2
    <3> HIDE DEF m, P
    <3>2. m \in Entries(t) <=> m \in Entries(s) \/ m = l
      BY DEF Added
    <3> QED BY <1>1, <3>1, <3>2
  <2>2. l[2] \notin P(s)
    BY <1>1, <1>2 DEF Added
  <2> QED BY <2>1, <2>2
<1>4. IsFiniteSet(P(s))
  <2>1. DOMAIN s[d] = 1..Len(s[d]) /\ Len(s[d]) \in Nat
    BY DEF Streams
  <2>2. IsFiniteSet(DOMAIN s[d])
    BY <2>1, FS_Interval
  <2> QED BY <2>2, FS_Subset
<1>5. Count(s[d]) = Cardinality(P(s)) /\ Count(t[d]) = Cardinality(P(t))
  BY DEF Count
<1> HIDE DEF P
<1> QED
  BY <1>3, <1>4, <1>5, FS_AddElement

\* A truncation that succeeds rewrites one file, if any, and its handles follow.
LEMMA ResizeRewrites ==
    ASSUME Good(fat, slots, open), NEW l \in Locs(slots), NEW size \in Nat, Resize(l, size)
    PROVE  \/ UNCHANGED <<slots, open>>
           \/ \E e \in Slot :
                 /\ e = [Entry(l) EXCEPT !.size = e.size, !.start = e.start]
                 /\ slots' = Put(slots, l, e) /\ Follows(l, e, open')
<1>1. Entry(l) \in Slot /\ fat \in [Cluster -> FatEntry] /\ Entry(l).kind = "File"
  BY LocsFacts DEF Good, At, Entry, Resize
<1>2. CASE size = Entry(l).size /\ UNCHANGED <<fat, slots, open>>
  BY <1>2
<1>3. CASE /\ size > Entry(l).size /\ CanWrite(Entry(l), size)
           /\ WriteFcb(l, Written(Entry(l), size))
           /\ open' = Refreshed(l, Written(Entry(l), size))
  <2> DEFINE e == Written(Entry(l), size)
  <2>1. e \in Slot /\ Entry(l).size <= e.size
    BY <1>1, <1>3, WrittenFacts
  <2>2. Follows(l, e, open')
    BY <1>3, <2>1, RefreshedFollows
  <2>3. e = [Entry(l) EXCEPT !.size = e.size, !.start = e.start]
    BY <1>1 DEF Written, Slot
  <2>4. slots' = Put(slots, l, e)
    BY <1>3 DEF WriteFcb, Put
  <2> HIDE DEF e
  <2> QED BY <2>1, <2>2, <2>3, <2>4
<1>4. CASE size < Entry(l).size /\ Shrink(l, size)
  <2> DEFINE e == [Entry(l) EXCEPT !.size = size,
                     !.start = IF CeilDiv(size, ClusterSize) = 0 THEN FREE ELSE @]
  <2>1. e \in Slot /\ e = [Entry(l) EXCEPT !.size = e.size, !.start = e.start]
    BY <1>1 DEF Slot
  <2>2. slots' = Put(slots, l, e) /\ open' = Clamped(l, e)
    BY <1>4 DEF Shrink, WriteFcb, Put
  <2> HIDE DEF e
  <2> QED BY <2>1, <2>2, ClampedFollows
<1> QED
  BY <1>2, <1>3, <1>4 DEF Resize

\* A setattr whose time is refused leaves one file with the size it came with.
LEMMA RefusedLeaves ==
    ASSUME Good(fat, slots, open), NEW l \in Locs(slots), NEW size \in Nat,
           ResizeRefused(l, size)
    PROVE  /\ GoneNow = {}
           /\ \/ Changed = {} /\ NewNow = {} /\ open' = open
              \/ SizeLeft
<1>0. slots \in Streams /\ Entry(l).kind = "File" /\ ret' = "InvalidConfig"
  BY DEF Good, ResizeRefused, Resize
<1>1. CASE UNCHANGED <<slots, open>>
  BY <1>1 DEF GoneNow, NewNow, Changed, Now, Entry
<1>2. CASE \E e \in Slot :
              /\ e = [Entry(l) EXCEPT !.size = e.size, !.start = e.start]
              /\ slots' = Put(slots, l, e) /\ Follows(l, e, open')
  <2>1. PICK e \in Slot :
           /\ e = [Entry(l) EXCEPT !.size = e.size, !.start = e.start]
           /\ slots' = Put(slots, l, e) /\ Follows(l, e, open')
    BY <1>2
  <2>2. Locs(slots') = Locs(slots)
        /\ \A m \in Locs(slots) : Now(m) = IF m = l THEN e ELSE Entry(m)
    <3>1. \A m : Now(m) = At(slots', m) /\ Entry(m) = At(slots, m)
      BY DEF Now, Entry, At
    <3>2. Locs(slots') = Locs(slots)
          /\ \A m \in Locs(slots) : At(slots', m) = IF m = l THEN e ELSE At(slots, m)
      BY <1>0, <2>1, PutFacts
    <3> QED BY <3>1, <3>2
  <2>3. e.kind = "File"
    <3>1. Entry(l) \in Slot
      BY <1>0, LocsFacts DEF At, Entry
    <3> QED BY <1>0, <2>1, <3>1 DEF Slot
  <2>4. \A m \in Locs(slots) : Occupied(Now(m)) <=> Occupied(Entry(m))
    BY <1>0, <2>2, <2>3 DEF Occupied
  <2>5. GoneNow = {} /\ NewNow = {}
    BY <2>2, <2>4 DEF GoneNow, NewNow, Now
  <2>6. Changed \subseteq {l}
    BY <2>2 DEF Changed
  <2>7. Now(l) = e /\ Now(l) = [Entry(l) EXCEPT !.size = Now(l).size, !.start = Now(l).start]
    BY <2>1, <2>2
  <2>8. ASSUME NEW h \in Handle, open'[h] # open[h]
        PROVE  IsOpen(h) /\ LocOf(h) = l /\ open'[h].fcb = Now(l)
    BY <2>1, <2>7, <2>8 DEF Follows, IsOpen, LocOf, Place
  <2> QED BY <1>0, <2>5, <2>6, <2>7, <2>8 DEF SizeLeft
<1> QED
  BY <1>1, <1>2, ResizeRewrites DEF ResizeRefused

\* A create that finds the table of open files full leaves the file.
LEMMA CreateLeaves ==
    ASSUME Good(fat, slots, open), Good(fat', slots', open'), SizesCurrent(slots),
           NEW d \in Dirs(slots), NEW k \in Keys, CreateOpened(d, k), ret' # "Ok"
    PROVE  GoneNow = {} /\ FileLeft
<1>1. PICK x : Added(slots, slots', d, x, File(k))
  BY CreateOpenedGood
<1>2. slots \in Streams /\ slots' \in Streams /\ d \in Cluster
  BY DirsAreHeads, HeadsType DEF Good
<1>3. open' = open /\ ret' = "TooManyOpenFiles"
  BY DEF CreateOpened
<1>4. \A l : Now(l) = At(slots', l) /\ Entry(l) = At(slots, l)
  BY DEF At, Entry, Now
<1>5. Entries(slots') = Entries(slots) \cup {x} /\ x \notin Entries(slots) /\ x[1] = d
  BY <1>1 DEF Added
<1>6. GoneNow = Entries(slots) \ Entries(slots') /\ NewNow = Entries(slots') \ Entries(slots)
  BY DEF GoneNow, NewNow, Entries, Entry, At
<1>7. x \in Locs(slots') /\ Now(x).kind = "File" /\ Now(x).start = FREE /\ Now(x).size = 0
  BY <1>1, <1>4, <1>5 DEF Added, File, Entries
<1>8. ASSUME NEW l \in Changed
      PROVE  /\ Entry(l).kind = "Directory" /\ Entry(l).start = x[1]
             /\ Now(l) = [Entry(l) EXCEPT !.size = @ + 1]
  <2> DEFINE a == At(slots, l)
             b == At(slots', l)
  <2>1. l \in Entries(slots) /\ l \in Entries(slots') /\ a # b
    BY <1>4, <1>5 DEF Changed, Entries
  <2>2. Renewed(slots, slots', d, l)
    BY <1>1, <2>1 DEF Added
  <2>3. a \in Slot /\ b \in Slot
    BY <1>2, <2>1, EntryType
  <2>4. a.kind = "Directory" /\ a.start = d
    BY <2>1, <2>2 DEF Renewed
  <2>5. Count(slots'[d]) = Count(slots[d]) + 1
    BY <1>1, <1>2, CountAdded
  <2>6. a.size = Count(slots[d])
    BY <2>1, <2>4 DEF SizesCurrent
  <2>7. /\ b.kind = a.kind /\ b.start = a.start
        /\ b.name = a.name /\ b.size = a.size + 1
    BY <2>2, <2>4, <2>5, <2>6 DEF Renewed
  <2>8. Entry(l) = a /\ Now(l) = b
    BY <1>4
  <2> HIDE DEF a, b
  <2>9. b = [a EXCEPT !.size = @ + 1]
    BY <2>3, <2>7 DEF Slot
  <2> QED BY <1>5, <2>4, <2>8, <2>9
<1> QED
  BY <1>3, <1>5, <1>6, <1>7, <1>8 DEF FileLeft

\* A request or command that fails takes no entry away, and changes and adds none, but
\* for the file create leaves when the table of open files is full and the size setattr
\* leaves when the time it came with has no encoding.
THEOREM ErrorsLeaveTree == FrontSpec => ErrorLeavesTree
<1> DEFINE A ==
      ret' # "Ok" =>
          /\ GoneNow = {}
          /\ \/ Changed = {} /\ NewNow = {} /\ open' = open
             \/ FileLeft
             \/ SizeLeft
<1>1. FrontInv /\ [FrontNext]_frontVars => A
  <2> SUFFICES ASSUME FrontInv, [FrontNext]_frontVars, ret' # "Ok" PROVE A
    OBVIOUS
  <2>1. CASE UNCHANGED <<slots, open>>
    BY <2>1 DEF GoneNow, NewNow, Changed, Now, Entry
  <2>2. CASE \E d \in Dirs(slots), k \in Keys : CreateOpened(d, k)
    BY <2>2, FrontStepInv, CreateLeaves DEF FrontInv
  <2>3. CASE \E l \in Locs(slots), size \in Offsets : ResizeRefused(l, size)
    BY <2>3, RefusedLeaves, ParameterTypes DEF FrontInv
  <2> HIDE DEF A
  <2>4. CoreStep
    BY FrontCore
  <2> QED BY <2>1, <2>2, <2>3, <2>4, ErrorKeeps DEF CoreStep
<1>2. FrontInv /\ [FrontNext]_frontVars => [A]_frontVars
  BY <1>1
<1>3. ErrorLeavesTree <=> [][A]_frontVars
  BY DEF ErrorLeavesTree
<1> HIDE DEF A
<1> QED
  BY <1>2, <1>3, FrontInvariance, PTL DEF FrontSpec

-----------------------------------------------------------------------------
(* The core under the front ends.                                          *)

\* Every step of the front ends treats chains as a call does.
LEMMA CoreChains ==
    ASSUME Good(fat, slots, open), FilesSized(fat, slots), StreamsSized(fat, slots), CoreStep
    PROVE  CallStep(fat, slots, fat', slots', ret')
<1>1. CASE UNCHANGED <<fat, slots, open>>
  BY <1>1, ChainStepNone DEF CallStep, ChainStep
<1>2. CASE Next
  BY <1>2, ChainsChange
<1>3. CASE \E d \in Dirs(slots), k \in Keys : CreateOpened(d, k)
  <2>1. PICK d \in Dirs(slots), k \in Keys : CreateOpened(d, k)
    BY <1>3
  <2>2. ChainStep(fat, slots, fat', slots')
    BY <2>1, NewFileChains DEF CreateOpened
  <2> QED BY <2>2 DEF CallStep, ChainStep
<1>4. CASE \E l \in Locs(slots), size \in Offsets : ResizeRefused(l, size)
  <2>1. PICK l \in Locs(slots), size \in Nat : Resize(l, size)
    BY <1>4, ParameterTypes DEF ResizeRefused
  <2>2. ChainStep(fat, slots, fat', slots')
    BY <2>1, WriteChains
  <2> QED BY <2>2 DEF CallStep, ChainStep
<1> QED
  BY <1>1, <1>2, <1>3, <1>4 DEF CoreStep

\* The invariant with what FatFs says of sizes and of the tree.
CoreInv == FrontInv /\ ChainMatchesSize /\ Rooted(slots)

\* It holds whatever requests or commands come.
LEMMA CoreInvariance == FrontSpec => []CoreInv
<1>1. FrontInit => CoreInv
  <2>1. ASSUME Init PROVE Rooted(slots)
    <3>1. Dirs(slots) = {Root}
      BY <2>1, InitEntries, DirsOfEntries
    <3> QED BY <3>1 DEF Rooted, Closed
  <2> QED BY <2>1, FrontInitInv, InitSized DEF FrontInit, CoreInv
<1>2. CoreInv /\ [FrontNext]_frontVars => CoreInv'
  <2> SUFFICES ASSUME CoreInv, [FrontNext]_frontVars PROVE CoreInv'
    OBVIOUS
  <2>1. FrontInv /\ FrontInv' /\ EntryStep(slots, slots') /\ CoreStep
    BY FrontStepInv, FrontCore DEF CoreInv
  <2>2. FilesSized(fat, slots) /\ StreamsSized(fat, slots) /\ Rooted(slots)
    BY ChainMatchesSizeIs DEF CoreInv
  <2>3. CallStep(fat, slots, fat', slots', ret')
    BY <2>1, <2>2, CoreChains DEF FrontInv
  <2>4. ChainMatchesSize'
    BY <2>3, ChainMatchesSizeNext DEF CallStep, ChainsKept
  <2>5. Rooted(slots')
    BY <2>1, <2>2, TreeKept DEF FrontInv, Good
  <2> QED BY <2>1, <2>4, <2>5 DEF CoreInv
<1> QED
  BY <1>1, <1>2, PTL DEF FrontSpec

\* What is proved of the core's own calls holds under either front end, whose requests
\* and commands put calls together: create is two of them in one step.
THEOREM FrontEndsKeepCore ==
    FrontSpec => [](ChainsSound /\ ChainMatchesSize /\ TreeRooted /\ DirSizeCurrent
                    /\ OpenCoherent)
<1>1. CoreInv => ChainsSound /\ ChainMatchesSize /\ TreeRooted /\ DirSizeCurrent
                 /\ OpenCoherent
  BY GoodChains, TreeRootedIs, DirSizeCurrentIs, OpenCoherentIs DEF CoreInv, FrontInv, Good
<1> QED
  BY <1>1, CoreInvariance, PTL

\* No request or command harms the chain of a file whose entry it does not write, and
\* one that succeeds loses no cluster.
THEOREM FrontEndsHarmNothing == FrontSpec => OthersUntouched /\ SuccessLosesNothing
<1> DEFINE A == \A l \in Locs(slots) :
                   /\ l \in Locs(slots')
                   /\ Entry(l).kind = "File"
                   /\ slots'[l[1]][l[2]] = Entry(l)
                   => Chain(fat', Entry(l).start) = Chain(fat, Entry(l).start)
           B == ret' = "Ok" => Lost' \subseteq Lost
<1>1. CoreInv /\ [FrontNext]_frontVars => A /\ B
  <2> SUFFICES ASSUME CoreInv, [FrontNext]_frontVars PROVE A /\ B
    OBVIOUS
  <2>1. CallStep(fat, slots, fat', slots', ret')
    BY FrontCore, CoreChains, ChainMatchesSizeIs DEF CoreInv, FrontInv
  <2>2. A
    BY <2>1, ChainsUntouched DEF CallStep, ChainsKept
  <2>3. B
    BY <2>1, NothingLost DEF CallStep
  <2> QED BY <2>2, <2>3
<1>2. CoreInv /\ [FrontNext]_frontVars => [A]_vars /\ [B]_vars
  BY <1>1
<1>3. OthersUntouched <=> [][A]_vars
  BY DEF OthersUntouched
<1>4. SuccessLosesNothing <=> [][B]_vars
  BY DEF SuccessLosesNothing
<1> HIDE DEF A, B
<1> QED
  BY <1>2, <1>3, <1>4, CoreInvariance, PTL DEF FrontSpec

-----------------------------------------------------------------------------
(* The current directory.                                                  *)

\* A name leads to the entry that has it, when no other has.
LEMMA IntoEntry ==
    ASSUME NEW s \in Streams, NamesApart(s), NEW x \in Points(s), NEW l \in Entries(s),
           x.found, x.start = l[1]
    PROVE  IntoOf(s, x, At(s, l).name) = PointAt(s, l)
<1> DEFINE k == At(s, l).name
           N == {i \in DOMAIN s[x.start] : Occupied(s[x.start][i]) /\ s[x.start][i].name = k}
<1>1. l[1] \in Cluster /\ l[2] \in DOMAIN s[l[1]] /\ Occupied(At(s, l))
  BY LocsFacts DEF Entries
<1>2. l[2] \in N
  BY <1>1 DEF At
<1>3. IntoOf(s, x, k) # Nothing
  <2>1. N # {} /\ x.start \in Cluster
    BY <1>1, <1>2
  <2>2. IntoOf(s, x, k).found
    BY <2>1 DEF IntoOf
  <2> QED BY <2>2 DEF Nothing
<1>4. PICK m \in Entries(s) :
         IntoOf(s, x, k) = PointAt(s, m) /\ m[1] = x.start /\ At(s, m).name = k
  <2> HIDE DEF N, k
  <2> QED BY <1>3, IntoPoint
<1>5. m = l
  BY <1>4 DEF NamesApart
<1> QED
  BY <1>4, <1>5

\* A path that leads to a directory which stays leads there after the step too.
LEMMA RouteKept ==
    ASSUME NEW s \in Streams, StartsSound(s), StreamsOwned(s, {}),
           NEW t \in Streams, StartsSound(t), StreamsOwned(t, {}), NamesApart(t),
           EntryStep(s, t)
    PROVE  \A p \in Seq(Keys) :
              Route(s)[p].kind = "Directory" /\ Route(s)[p].start \in Dirs(t)
              => Route(t)[p] = Route(s)[p]
<1> DEFINE T == {p \in Seq(Keys) :
              Route(s)[p].kind = "Directory" /\ Route(s)[p].start \in Dirs(t)
              => Route(t)[p] = Route(s)[p]}
<1>1. <<>> \in T
  BY Routes
<1>2. ASSUME NEW l \in Entries(s), At(s, l).kind = "Directory", At(s, l).start \in Dirs(t)
      PROVE  /\ l \in Entries(t) /\ At(t, l).kind = "Directory"
             /\ At(t, l).start = At(s, l).start /\ At(t, l).name = At(s, l).name
  <2>1. CASE t = s
    BY <1>2, <2>1
  <2>2. ASSUME NEW m \in Entries(s), NEW e, Rewritten(s, t, m, e)
        PROVE  /\ l \in Entries(t) /\ At(t, l).kind = "Directory"
               /\ At(t, l).start = At(s, l).start /\ At(t, l).name = At(s, l).name
    BY <1>2, <2>2 DEF Rewritten
  <2>3. ASSUME NEW d, NEW m, NEW e, Added(s, t, d, m, e)
        PROVE  /\ l \in Entries(t) /\ At(t, l).kind = "Directory"
               /\ At(t, l).start = At(s, l).start /\ At(t, l).name = At(s, l).name
    BY <1>2, <2>3 DEF Added, Renewed
  <2>4. ASSUME NEW m \in Entries(s), Removed(s, t, m)
        PROVE  /\ l \in Entries(t) /\ At(t, l).kind = "Directory"
               /\ At(t, l).start = At(s, l).start /\ At(t, l).name = At(s, l).name
    <3>1. At(s, l).start # Root
      BY <1>2, EntryHeads
    <3>2. PICK n \in Entries(t) : At(t, n).start = At(s, l).start
      BY <1>2, <3>1, DirsOfEntries
    <3>3. n \in Entries(s) /\ At(s, n).start = At(s, l).start
      BY <2>4, <3>2 DEF Removed, Renewed
    <3>4. n = l
      BY <1>2, <3>3, EntryHeads
    <3> QED BY <1>2, <2>4, <3>2, <3>4 DEF Removed, Renewed
  <2> QED BY <2>1, <2>2, <2>3, <2>4 DEF EntryStep
<1>3. ASSUME NEW p \in Seq(Keys), NEW k \in Keys, p \in T,
             Route(s)[Append(p, k)].kind = "Directory",
             Route(s)[Append(p, k)].start \in Dirs(t)
      PROVE  Route(t)[Append(p, k)] = Route(s)[Append(p, k)]
  <2> DEFINE x == Route(s)[p]
             y == Route(t)[p]
  <2>1. x \in Points(s) /\ Route(s)[Append(p, k)] = IntoOf(s, x, k)
        /\ y \in Points(t) /\ Route(t)[Append(p, k)] = IntoOf(t, y, k)
    BY Routes
  <2>2. Nothing.kind # "Directory"
    BY DEF Nothing
  <2> HIDE DEF x, y
  <2>3. PICK l \in Entries(s) :
           IntoOf(s, x, k) = PointAt(s, l) /\ l[1] = x.start /\ At(s, l).name = k
    BY <1>3, <2>1, <2>2, IntoPoint
  <2>4. At(s, l).kind = "Directory" /\ At(s, l).start \in Dirs(t)
    BY <1>3, <2>1, <2>3 DEF PointAt
  <2>5. /\ l \in Entries(t) /\ At(t, l).kind = "Directory"
        /\ At(t, l).start = At(s, l).start /\ At(t, l).name = k
    BY <1>2, <2>3, <2>4
  <2>6. x.kind = "Directory"
    BY <2>1, <2>3, DirPoint
  <2>7. x.start \in Dirs(t)
    <3>1. l[1] \in Cluster /\ l[2] \in DOMAIN t[l[1]]
      BY <2>5, LocsFacts DEF Entries
    <3>2. t[l[1]] # <<>>
      BY <3>1
    <3> QED BY <2>3, <3>1, <3>2 DEF StreamsOwned
  <2>8. y = x
    BY <1>3, <2>6, <2>7 DEF x, y
  <2>9. y.found
    BY <2>1, <2>3, <2>6, <2>8, DirPoint
  <2>10. IntoOf(t, y, k) = PointAt(t, l)
    BY <2>1, <2>3, <2>5, <2>8, <2>9, IntoEntry
  <2>11. PointAt(t, l) = PointAt(s, l)
    BY <2>4, <2>5 DEF PointAt
  <2> QED BY <2>1, <2>3, <2>10, <2>11
<1>4. \A p \in Seq(Keys), k \in Keys : p \in T => Append(p, k) \in T
  <2>1. ASSUME NEW p \in Seq(Keys), NEW k \in Keys, p \in T PROVE Append(p, k) \in T
    <3>1. Append(p, k) \in Seq(Keys)
      OBVIOUS
    <3> QED BY <1>3, <2>1, <3>1
  <2> QED BY <2>1
<1> HIDE DEF T
<1>5. \A p \in Seq(Keys) : p \in T
  BY <1>1, <1>4, EverySequence
<1> QED
  BY <1>5 DEF T

\* Names are apart, and the path of the shell leads to its current directory.
CwdInv ==
    /\ FrontInv /\ NamesApart(slots)
    /\ program = "shell" /\ ~cwd_gone =>
          LET t == Route(slots)[cwd_path] IN t.kind = "Directory" /\ t.start = cwd_cluster

\* Both hold always, for keys that are stored as they are looked up.
LEMMA CwdInvariance ==
    ASSUME \A k \in Keys : ShortName[k] = k
    PROVE  FrontSpec => []CwdInv
<1>1. FrontInit => CwdInv
  <2> SUFFICES ASSUME FrontInit PROVE CwdInv
    OBVIOUS
  <2>1. FrontInv /\ slots \in Streams
    BY FrontInitInv DEF FrontInv, Good
  <2>2. NamesApart(slots)
    BY InitEntries DEF NamesApart, FrontInit
  <2>3. Route(slots)[<<>>] = AtRoot
    BY <2>1, Routes
  <2> QED BY <2>1, <2>2, <2>3 DEF CwdInv, FrontInit, ShellInit, AtRoot
<1>2. CwdInv /\ [FrontNext]_frontVars => CwdInv'
  <2> SUFFICES ASSUME CwdInv, [FrontNext]_frontVars PROVE CwdInv'
    OBVIOUS
  <2>1. FrontInv /\ FrontInv' /\ EntryStep(slots, slots')
    BY FrontStepInv DEF CwdInv
  <2>2. NamesApart(slots')
    BY <2>1, NamesKept DEF CwdInv
  <2>3. /\ slots \in Streams /\ StartsSound(slots) /\ StreamsOwned(slots, {})
        /\ slots' \in Streams /\ StartsSound(slots') /\ StreamsOwned(slots', {})
    BY <2>1 DEF FrontInv, Good
  <2>4. cwd_path \in Seq(Keys)
    BY <2>1 DEF FrontInv
  <2>5. ASSUME program = "shell", ~cwd_gone, cwd_path' = cwd_path,
               cwd_cluster' = cwd_cluster, cwd_cluster \in Dirs(slots')
        PROVE  LET t == Route(slots')[cwd_path']
               IN  t.kind = "Directory" /\ t.start = cwd_cluster'
    <3>1. Route(slots)[cwd_path].kind = "Directory"
          /\ Route(slots)[cwd_path].start = cwd_cluster
      BY <2>5 DEF CwdInv
    <3>2. Route(slots')[cwd_path] = Route(slots)[cwd_path]
      BY <2>1, <2>2, <2>3, <2>4, <2>5, <3>1, RouteKept
    <3> QED BY <2>5, <3>1, <3>2
  <2>6. ASSUME program = "shell", ShellNext, program' = "shell", ~cwd_gone'
        PROVE  LET t == Route(slots')[cwd_path']
               IN  t.kind = "Directory" /\ t.start = cwd_cluster'
    <3>1. CASE Stay
      BY <2>5, <2>6, <3>1 DEF Stay
    <3>2. CASE \E raw \in RawPath : Cd(raw)
      <4>1. PICK raw \in RawPath : Cd(raw)
        BY <3>2
      <4>2. CASE UNCHANGED <<slots, cwd_path, cwd_cluster, cwd_gone>>
        BY <2>6, <4>2 DEF CwdInv
      <4>3. CASE /\ Target(raw).kind = "Directory" /\ slots' = slots
                 /\ cwd_path' = Canonical(raw) /\ cwd_cluster' = Target(raw).start
        BY <2>1, <4>3, TargetFacts DEF FrontInv
      <4> QED BY <4>1, <4>2, <4>3 DEF Cd, Fail, shellVars
    <3>3. Stay \/ \E raw \in RawPath : Cd(raw)
      BY <2>6 DEF ShellNext, ShellMkdir, ShellCreate, ShellRm, ShellRmdir, ShellOpen,
         ShellHandle, InParent, OnEntry
    <3> QED BY <3>1, <3>2, <3>3
  <2>7. ASSUME program' = "shell", ~cwd_gone'
        PROVE  LET t == Route(slots')[cwd_path']
               IN  t.kind = "Directory" /\ t.start = cwd_cluster'
    <3>1. CASE UNCHANGED frontVars
      BY <2>7, <3>1 DEF CwdInv, frontVars, vars, shellVars
    <3>2. CASE program = "shell" /\ ShellNext
      BY <2>6, <2>7, <3>2
    <3>3. CASE program = "fuse" /\ program' = program
      BY <2>7, <3>3
    <3> QED BY <3>1, <3>2, <3>3 DEF FrontNext
  <2> QED BY <2>1, <2>2, <2>7 DEF CwdInv
<1> QED
  BY <1>1, <1>2, PTL DEF FrontSpec

\* As long as the current directory has not been removed, the path the shell shows
\* leads to the directory that `ls` lists.  Names must be told apart by what an entry
\* keeps of them, as for NamesStayUnique.
THEOREM CwdStaysOnPath ==
    ASSUME \A k \in Keys : ShortName[k] = k
    PROVE  FrontSpec => []CwdFollowsPath
<1>1. CwdInv => CwdFollowsPath
  <2> DEFINE t == Resolve(cwd_path)
  <2>1. t = Route(slots)[cwd_path]
    BY ResolveIs
  <2> QED BY <2>1 DEF CwdInv, CwdFollowsPath
<1> QED
  BY <1>1, CwdInvariance, PTL

-----------------------------------------------------------------------------
(* Resolving by text and walking.                                          *)

\* The entry of a directory is found by where it starts.
LEMMA NodeOfDir ==
    ASSUME Good(fat, slots, open), NEW l \in Entries(slots), At(slots, l).kind = "Directory"
    PROVE  /\ At(slots, l).start # Root /\ Parent(At(slots, l).start) = l[1]
           /\ NodeOf(At(slots, l).start) = l
<1> DEFINE d == At(slots, l).start
           Is(m) == Entry(m).kind = "Directory" /\ Entry(m).start = d
<1>1. d # Root
  BY EntryHeads DEF Good
<1>2. l \in Locs(slots) /\ Is(l)
  BY DEF Entries, Entry, At
<1>3. ASSUME NEW m \in Locs(slots), Is(m) PROVE m = l
  <2>1. m \in Entries(slots) /\ At(slots, m).start = d
    BY <1>3 DEF Entries, Entry, At, Occupied
  <2> QED BY <2>1, EntryHeads DEF Good
<1>4. (CHOOSE m \in Locs(slots) : Is(m)) = l
  <2> HIDE DEF Is
  <2> QED BY <1>2, <1>3
<1>5. Parent(d) = l[1]
  BY <1>4 DEF Parent
<1>6. NodeOf(d) = l
  BY <1>1, <1>4 DEF NodeOf
<1> QED
  BY <1>1, <1>5, <1>6

\* The place of a directory, by where it starts.
Place0(d) ==
    IF d = Root THEN AtRoot
    ELSE LET l == NodeOf(d)
         IN  [found |-> TRUE, loc |-> l, start |-> d, kind |-> "Directory"]

\* It is the point of the entry that names the directory.
LEMMA DirPlace ==
    ASSUME Good(fat, slots, open)
    PROVE  /\ \A x \in Points(slots) : x.kind = "Directory" => x = Place0(x.start)
           /\ \A d \in Dirs(slots) : Place0(d) \in Points(slots)
<1>0. slots \in Streams /\ StartsSound(slots) /\ StreamsOwned(slots, {})
  BY DEF Good
<1>1. ASSUME NEW l \in Entries(slots), At(slots, l).kind = "Directory"
      PROVE  Place0(At(slots, l).start) = PointAt(slots, l)
  BY <1>1, NodeOfDir DEF Place0, PointAt
<1>2. ASSUME NEW x \in Points(slots), x.kind = "Directory" PROVE x = Place0(x.start)
  <2>1. CASE x.start = Root
    BY <1>0, <1>2, <2>1, DirPoint DEF Place0
  <2>2. CASE x.start # Root
    <3>1. PICK l \in Entries(slots) : x = PointAt(slots, l) /\ At(slots, l).kind = "Directory"
      BY <1>0, <1>2, <2>2, DirPoint
    <3>2. x.start = At(slots, l).start
      BY <3>1 DEF PointAt
    <3> QED BY <1>1, <3>1, <3>2
  <2> QED BY <2>1, <2>2
<1>3. ASSUME NEW d \in Dirs(slots) PROVE Place0(d) \in Points(slots)
  <2>1. CASE d = Root
    BY <2>1 DEF Place0, Points
  <2>2. CASE d # Root
    <3>1. PICK l \in Entries(slots) :
             At(slots, l).kind = "Directory" /\ At(slots, l).start = d
      BY <2>2, DirsOfEntries
    <3> QED BY <1>1, <3>1 DEF Points
  <2> QED BY <2>1, <2>2
<1> QED
  BY <1>2, <1>3

\* One step of a walk leads to a place; a step up leads to the directory the place
\* was found in.
LEMMA OneStepPoint ==
    ASSUME Good(fat, slots, open), NEW x \in Points(slots), NEW k
    PROVE  /\ OneStep(x, k) \in Points(slots)
           /\ OneStep(x, k).found => x.kind = "Directory" /\ x.found
           /\ k # Up /\ x.kind = "Directory" => OneStep(x, k) = IntoOf(slots, x, k)
           /\ k = Up /\ x = AtRoot => OneStep(x, k) = AtRoot
           /\ \A y \in Points(slots), l \in Entries(slots) :
                 k = Up /\ x.kind = "Directory" /\ x = PointAt(slots, l)
                 /\ l[1] = y.start /\ y.kind = "Directory"
                 => OneStep(x, k) = y
<1>0. slots \in Streams /\ StartsSound(slots) /\ StreamsOwned(slots, {})
  BY DEF Good
<1>1. Nothing \in Points(slots) /\ ~Nothing.found /\ AtRoot \in Points(slots)
  BY DEF Points, Nothing
<1>2. k # Up /\ x.kind = "Directory" => OneStep(x, k) = IntoOf(slots, x, k)
  BY DEF OneStep, Into, IntoOf, NamedIn, Entry, At
<1>3. IntoOf(slots, x, k) \in Points(slots)
  BY <1>0, IntoPoint DEF Points
<1>4. x.kind # "Directory" => OneStep(x, k) = Nothing
  BY DEF OneStep
<1>5. ASSUME k = Up, x.kind = "Directory", x.start = Root PROVE OneStep(x, k) = AtRoot
  BY <1>5 DEF OneStep
<1>6. ASSUME k = Up, x.kind = "Directory", NEW l \in Entries(slots), x = PointAt(slots, l)
      PROVE  OneStep(x, k) = Place0(l[1]) /\ l[1] \in Dirs(slots)
  <2>1. At(slots, l).kind = "Directory" /\ x.start = At(slots, l).start
    BY <1>6 DEF PointAt
  <2>2. x.start # Root /\ Parent(x.start) = l[1]
    BY <2>1, NodeOfDir
  <2>3. l[1] \in Dirs(slots)
    <3>1. l[1] \in Cluster /\ l[2] \in DOMAIN slots[l[1]]
      BY <1>0, LocsFacts DEF Entries
    <3>2. slots[l[1]] # <<>>
      BY <3>1
    <3> QED BY <1>0, <3>1, <3>2 DEF StreamsOwned
  <2>4. CASE l[1] = Root
    BY <1>6, <2>2, <2>3, <2>4 DEF OneStep, Place0
  <2>5. CASE l[1] # Root
    <3>1. PICK m \in Entries(slots) :
             At(slots, m).kind = "Directory" /\ At(slots, m).start = l[1]
      BY <2>3, <2>5, DirsOfEntries
    <3>2. NodeOf(l[1]) = m /\ Entry(m).start = l[1]
      BY <3>1, NodeOfDir DEF Entry, At
    <3> QED BY <1>6, <2>2, <2>3, <2>5, <3>2 DEF OneStep, Place0
  <2> QED BY <2>4, <2>5
<1>7. x.kind = "Directory" =>
         /\ x.found
         /\ x.start = Root \/ \E l \in Entries(slots) : x = PointAt(slots, l)
  BY <1>0, DirPoint
<1>8. AtRoot.kind = "Directory" /\ AtRoot.start = Root
  BY DEF AtRoot
<1>9. ASSUME k = Up, x.kind = "Directory", NEW y \in Points(slots),
             NEW l \in Entries(slots), x = PointAt(slots, l), l[1] = y.start,
             y.kind = "Directory"
      PROVE  OneStep(x, k) = y
  BY <1>6, <1>9, DirPlace
<1>10. OneStep(x, k) \in Points(slots)
  <2>1. CASE x.kind = "Directory" /\ k = Up
    BY <2>1, <1>1, <1>5, <1>6, <1>7, DirPlace
  <2> QED BY <2>1, <1>1, <1>2, <1>3, <1>4
<1>11. OneStep(x, k).found => x.kind = "Directory" /\ x.found
  BY <1>1, <1>4, <1>7
<1>12. k = Up /\ x = AtRoot => OneStep(x, k) = AtRoot
  BY <1>5, <1>8
<1> QED
  BY <1>2, <1>9, <1>10, <1>11, <1>12

\* The walk, from a place.
Steps(a) ==
    CHOOSE at : at = [p \in Seq(Keys \cup {Up}) |->
        IF p # <<>> THEN OneStep(at[Front(p)], Last(p)) ELSE a]

\* The walk follows what was typed component by component, from point to point.
LEMMA Walked ==
    ASSUME Good(fat, slots, open), NEW a \in Points(slots)
    PROVE  /\ Steps(a)[<<>>] = a
           /\ \A p \in Seq(Keys \cup {Up}) : Steps(a)[p] \in Points(slots)
           /\ \A p \in Seq(Keys \cup {Up}), k \in Keys \cup {Up} :
                 Steps(a)[Append(p, k)] = OneStep(Steps(a)[p], k)
<1> DEFINE A == Keys \cup {Up}
           S == Points(slots)
           g == [xk \in S \X A |-> OneStep(xk[1], xk[2])]
           Rec(st) == st = [p \in Seq(A) |->
                        IF p # <<>> THEN OneStep(st[Front(p)], Last(p)) ELSE a]
<1>1. ASSUME NEW x \in S, NEW k \in A PROVE OneStep(x, k) \in S
  BY OneStepPoint
<1> HIDE DEF S
<1>2. g \in [S \X A -> S] /\ \A x \in S, k \in A : g[<<x, k>>] = OneStep(x, k)
  BY <1>1
<1> HIDE DEF g, A
<1>3. PICK F \in [Seq(A) -> S] : \A p \in Seq(A) :
         F[p] = IF p = <<>> THEN a ELSE g[<<F[Front(p)], Last(p)>>]
  <2>1. a \in S /\ g \in [S \X A -> S]
    BY <1>2 DEF S
  <2>2. Iterates(A, S, a, g)
    BY <2>1, Iterated
  <2> QED BY <2>2 DEF Iterates
<1>4. \A p \in Seq(A) : F[p] = IF p # <<>> THEN OneStep(F[Front(p)], Last(p)) ELSE a
  BY <1>2, <1>3, FrontLast
<1>5. Rec(F)
  <2> DEFINE G == [p \in Seq(A) |-> IF p # <<>> THEN OneStep(F[Front(p)], Last(p)) ELSE a]
  <2>1. \A p \in Seq(A) : F[p] = G[p]
    BY <1>4
  <2>2. F = G
    BY <1>3, <2>1
  <2> QED BY <2>2
<1>6. Rec(Steps(a))
  <2>1. Steps(a) = CHOOSE st : Rec(st)
    BY DEF Steps, A
  <2> HIDE DEF Rec
  <2> QED BY <1>5, <2>1
<1> DEFINE st == Steps(a)
<1>7. \A p \in Seq(A) : st[p] = IF p # <<>> THEN OneStep(st[Front(p)], Last(p)) ELSE a
  BY <1>6
<1> HIDE DEF st, Rec
<1>8. ASSUME NEW p \in Seq(A), NEW k \in A
      PROVE  st[Append(p, k)] = OneStep(st[p], k)
  <2> DEFINE q == Append(p, k)
  <2>1. q \in Seq(A) /\ q # <<>> /\ Front(q) = p /\ Last(q) = k
    BY FrontLast
  <2> HIDE DEF q
  <2>2. st[q] = OneStep(st[Front(q)], Last(q))
    BY <2>1, <1>7
  <2> QED BY <2>1, <2>2 DEF q
<1>9. st[<<>>] = a
  <2>1. <<>> \in Seq(A)
    OBVIOUS
  <2> QED BY <2>1, <1>7
<1>10. \A p \in Seq(A) : st[p] \in S
  <2> DEFINE T == {p \in Seq(A) : st[p] \in S}
  <2>1. <<>> \in T
    BY <1>9 DEF S
  <2>2. \A p \in Seq(A), k \in A : p \in T => Append(p, k) \in T
    BY <1>1, <1>8, FrontLast
  <2> HIDE DEF T
  <2>3. \A p \in Seq(A) : p \in T
    BY <2>1, <2>2, EverySequence
  <2> QED BY <2>3 DEF T
<1> QED
  BY <1>8, <1>9, <1>10 DEF st, S, A

\* From one place, walking and resolving what the text becomes lead to one place, as
\* long as there is a place to walk to.
LEMMA TextAgrees ==
    ASSUME Good(fat, slots, open), NEW b \in Seq(Keys), NEW a \in Points(slots),
           Route(slots)[b] = a
    PROVE  \A p \in Seq(Keys \cup {Up}) :
              Steps(a)[p].found => Route(slots)[Stack(b)[p]] = Steps(a)[p]
<1> DEFINE A == Keys \cup {Up}
           T == {p \in Seq(A) :
                    Steps(a)[p].found => Route(slots)[Stack(b)[p]] = Steps(a)[p]}
<1>0. slots \in Streams /\ StartsSound(slots) /\ StreamsOwned(slots, {})
  BY DEF Good
<1>1. <<>> \in T
  BY Walked, Stacks
<1>2. ASSUME NEW p \in Seq(A), NEW k \in A, p \in T, Steps(a)[Append(p, k)].found
      PROVE  Route(slots)[Stack(b)[Append(p, k)]] = Steps(a)[Append(p, k)]
  <2> DEFINE x == Steps(a)[p]
             c == Stack(b)[p]
  <2>1. x \in Points(slots) /\ Steps(a)[Append(p, k)] = OneStep(x, k)
    BY Walked
  <2>2. c \in Seq(Keys) /\ Stack(b)[Append(p, k)] = OnStack(c, k)
    BY Stacks
  <2>3. x.found => Route(slots)[c] = x
    BY <1>2
  <2> HIDE DEF x, c, A, T
  <2>4. x.kind = "Directory" /\ x.found /\ Route(slots)[c] = x
    BY <1>2, <2>1, <2>3, OneStepPoint
  <2>5. CASE k # Up
    <3>1. k \in Keys /\ OnStack(c, k) = Append(c, k)
      BY <2>5 DEF OnStack, A
    <3>2. Route(slots)[Append(c, k)] = IntoOf(slots, x, k)
      BY <1>0, <2>2, <2>4, <3>1, Routes
    <3>3. OneStep(x, k) = IntoOf(slots, x, k)
      BY <2>1, <2>4, <2>5, OneStepPoint
    <3> QED BY <2>1, <2>2, <3>1, <3>2, <3>3
  <2>6. CASE k = Up /\ c = <<>>
    <3>1. OnStack(c, k) = <<>>
      BY <2>6 DEF OnStack
    <3>2. x = AtRoot /\ Route(slots)[<<>>] = AtRoot
      BY <1>0, <2>4, <2>6, Routes
    <3>3. OneStep(x, k) = AtRoot
      BY <2>1, <2>6, <3>2, OneStepPoint
    <3> QED BY <2>1, <2>2, <3>1, <3>2, <3>3
  <2>7. CASE k = Up /\ c # <<>>
    <3> DEFINE q == Front(c)
               y == Route(slots)[q]
    <3>1. q \in Seq(Keys) /\ Last(c) \in Keys /\ c = Append(q, Last(c))
      BY <2>2, <2>7, FrontLast
    <3>2. OnStack(c, k) = q
      BY <2>7 DEF OnStack
    <3>3. y \in Points(slots) /\ x = IntoOf(slots, y, Last(c))
      BY <1>0, <2>4, <3>1, Routes
    <3> HIDE DEF y, q
    <3>4. x # Nothing
      BY <2>4 DEF Nothing
    <3>5. PICK l \in Entries(slots) : x = PointAt(slots, l) /\ l[1] = y.start
      BY <1>0, <3>3, <3>4, IntoPoint
    <3>6. y.kind = "Directory"
      BY <1>0, <3>3, <3>5, DirPoint
    <3>7. OneStep(x, k) = y
      BY <2>1, <2>4, <2>7, <3>3, <3>5, <3>6, OneStepPoint
    <3> QED BY <2>1, <2>2, <3>2, <3>7 DEF y
  <2> QED BY <2>5, <2>6, <2>7
<1>3. \A p \in Seq(A), k \in A : p \in T => Append(p, k) \in T
  <2>1. ASSUME NEW p \in Seq(A), NEW k \in A, p \in T PROVE Append(p, k) \in T
    <3>1. Append(p, k) \in Seq(A)
      BY FrontLast
    <3> QED BY <1>2, <2>1, <3>1
  <2> QED BY <2>1
<1> HIDE DEF T, A
<1>4. \A p \in Seq(A) : p \in T
  BY <1>1, <1>3, EverySequence
<1> QED
  BY <1>4 DEF T, A

\* Resolution by text from the root finds what walking from the current directory
\* finds, for every path that can be walked, of any length.
THEOREM ResolutionAgrees ==
    ASSUME \A k \in Keys : ShortName[k] = k
    PROVE  FrontSpec => []ResolveAgrees
<1>1. CwdInv => ResolveAgrees
  <2> SUFFICES ASSUME CwdInv, program = "shell", ~cwd_gone, NEW raw \in RawPath,
                      OnFoot(raw).found
      PROVE  Target(raw) = OnFoot(raw)
    BY DEF ResolveAgrees
  <2> DEFINE a == IF raw.absolute THEN AtRoot ELSE Place0(cwd_cluster)
             b == IF raw.absolute THEN <<>> ELSE cwd_path
  <2>1. Good(fat, slots, open) /\ cwd_path \in Seq(Keys) /\ slots \in Streams
    BY DEF CwdInv, FrontInv, Good
  <2>2. OnFoot(raw) = Steps(a)[raw.parts]
    BY DEF OnFoot, Steps, Place0
  <2>3. raw.parts \in Seq(Keys \cup {Up}) /\ Canonical(raw) = Stack(b)[raw.parts]
    BY <2>1, CanonicalIs
  <2>4. Target(raw) = Route(slots)[Canonical(raw)]
    BY <2>1, TargetFacts
  <2>5. b \in Seq(Keys) /\ a \in Points(slots) /\ Route(slots)[b] = a
    <3>1. CASE raw.absolute
      BY <2>1, <3>1, Routes DEF Points
    <3>2. CASE ~raw.absolute
      <4> DEFINE t == Route(slots)[cwd_path]
      <4>1. t \in Points(slots) /\ t.kind = "Directory" /\ t.start = cwd_cluster
        BY <2>1, Routes DEF CwdInv
      <4> HIDE DEF t
      <4>2. t = Place0(cwd_cluster)
        BY <2>1, <4>1, DirPlace
      <4> QED BY <2>1, <3>2, <4>1, <4>2 DEF t
    <3> QED BY <3>1, <3>2
  <2> HIDE DEF a, b
  <2> QED BY <2>1, <2>2, <2>3, <2>4, <2>5, TextAgrees
<1> QED
  BY <1>1, CwdInvariance, PTL

-----------------------------------------------------------------------------
(* Reading a directory page by page.                                       *)

\* The places of the entries in directory d.
Places(s, d) == {i \in DOMAIN s[d] : Occupied(s[d][i])}

\* They are finitely many numbers.
LEMMA PlacesFacts ==
    ASSUME NEW s \in Streams, NEW d \in Cluster
    PROVE  /\ Places(s, d) \in SUBSET Nat /\ IsFiniteSet(Places(s, d))
           /\ Cardinality(Places(s, d)) \in Nat
           /\ \A i : i \in Places(s, d) <=> <<d, i>> \in Entries(s)
<1>1. DOMAIN s[d] = 1..Len(s[d]) /\ Len(s[d]) \in Nat
  BY DEF Streams
<1>2. IsFiniteSet(DOMAIN s[d]) /\ DOMAIN s[d] \in SUBSET Nat
  BY <1>1, FS_Interval
<1>3. Places(s, d) \in SUBSET DOMAIN s[d]
  BY DEF Places
<1>4. IsFiniteSet(Places(s, d)) /\ Cardinality(Places(s, d)) \in Nat
  BY <1>2, <1>3, FS_Subset, FS_CardinalityType
<1>5. ASSUME NEW i PROVE i \in Places(s, d) <=> <<d, i>> \in Entries(s)
  <2> DEFINE l == <<d, i>>
  <2>1. l[1] = d /\ l[2] = i
    OBVIOUS
  <2>2. l \in Locs(s) <=> i \in DOMAIN s[d]
    <3> HIDE DEF l
    <3>1. l = <<d, i>>
      BY DEF l
    <3> QED BY <2>1, <3>1, LocsFacts, InLocs
  <2> QED BY <2>1, <2>2 DEF Places, Entries, At
<1> QED
  BY <1>2, <1>3, <1>4, <1>5

\* EntriesOf has the entry at each place where the rank of the place says.
LEMMA EntriesOfIs ==
    ASSUME slots \in Streams, NEW d \in Cluster
    PROVE  LET P == Places(slots, d)
               E == EntriesOf(d)
               m == Cardinality(P)
           IN  /\ m \in Nat /\ DOMAIN E = 1..m /\ Len(E) = m
               /\ \A i \in 1..m :
                     \E x \in P : E[i] = <<d, x>> /\ Rank(P, x) = i - 1
               /\ \A x \in P : Rank(P, x) + 1 \in 1..m /\ E[Rank(P, x) + 1] = <<d, x>>
<1> DEFINE P == Places(slots, d)
           E == EntriesOf(d)
           m == Cardinality(P)
           asc == Ascending(P)
<1>1. P \in SUBSET Nat /\ IsFiniteSet(P)
  BY PlacesFacts
<1>2. E = [n \in DOMAIN asc |-> <<d, asc[n]>>]
  BY DEF EntriesOf, Places
<1> HIDE DEF E, P
<1>3. /\ m \in Nat /\ DOMAIN asc = 1..m
      /\ \A i \in 1..m : asc[i] \in P /\ Rank(P, asc[i]) = i - 1
      /\ \A x \in P : Rank(P, x) + 1 \in 1..m /\ asc[Rank(P, x) + 1] = x
  BY <1>1, Ranks
<1> HIDE DEF asc, m
<1>4. DOMAIN E = 1..m /\ \A i \in 1..m : E[i] = <<d, asc[i]>>
  BY <1>2, <1>3
<1>5. Len(E) = m
  <2>1. E \in Seq({<<d, x>> : x \in P})
    BY <1>3, <1>2
  <2> QED BY <2>1, <1>3, <1>4
<1>6. \A i \in 1..m : \E x \in P : E[i] = <<d, x>> /\ Rank(P, x) = i - 1
  BY <1>3, <1>4
<1>7. \A x \in P : Rank(P, x) + 1 \in 1..m /\ E[Rank(P, x) + 1] = <<d, x>>
  BY <1>3, <1>4
<1> QED
  BY <1>3, <1>4, <1>5, <1>6, <1>7 DEF E, P, m

\* Ranks are naturals, and do not fall when a set grows.
LEMMA RankMore ==
    ASSUME NEW S, NEW R, IsFiniteSet(R), S \subseteq R, NEW x
    PROVE  /\ Rank(S, x) \in Nat /\ Rank(R, x) \in Nat /\ Rank(S, x) <= Rank(R, x)
           /\ Cardinality(S) \in Nat /\ Cardinality(R) \in Nat
           /\ Cardinality(S) <= Cardinality(R)
<1> DEFINE B == {y \in S : y < x}
           C == {y \in R : y < x}
<1>1. Rank(S, x) = Cardinality(B) /\ Rank(R, x) = Cardinality(C)
  BY DEF Rank
<1>2. IsFiniteSet(C) /\ C \subseteq R /\ B \in SUBSET C
  BY FS_Subset
<1> HIDE DEF B, C
<1>3. Cardinality(B) <= Cardinality(C) /\ Cardinality(B) \in Nat /\ Cardinality(C) \in Nat
  BY <1>2, FS_Subset, FS_CardinalityType
<1>4. Cardinality(S) <= Cardinality(R) /\ Cardinality(S) \in Nat /\ Cardinality(R) \in Nat
  BY FS_Subset, FS_CardinalityType
<1> QED
  BY <1>1, <1>3, <1>4

\* Without a member that is not among the first k, the first k stay.
LEMMA RankLess ==
    ASSUME NEW S \in SUBSET Nat, IsFiniteSet(S), NEW y \in S, NEW k \in Nat,
           ~(Rank(S, y) < k), k <= Cardinality(S)
    PROVE  /\ k <= Cardinality(S \ {y})
           /\ \A x \in S \ {y} : Rank(S \ {y}, x) < k <=> Rank(S, x) < k
<1> DEFINE R == S \ {y}
           m == Cardinality(S)
<1>1. IsFiniteSet(R) /\ Cardinality(R) = m - 1 /\ R \subseteq S /\ m \in Nat
  BY FS_RemoveElement, FS_CardinalityType
<1>2. Rank(S, y) \in Nat /\ Rank(S, y) < m
  <2>1. Rank(S, y) + 1 \in 1..m /\ m \in Nat
    BY Ranks
  <2> DEFINE r == Rank(S, y)
  <2>2. r \in Nat
    BY RankMore
  <2> HIDE DEF r, m
  <2> QED BY <2>1, <2>2 DEF r
<1>3. k <= Cardinality(R)
  BY <1>1, <1>2
<1>4. ASSUME NEW x \in R PROVE Rank(R, x) < k <=> Rank(S, x) < k
  <2>1. x \in Nat /\ y \in Nat /\ x # y
    OBVIOUS
  <2> DEFINE B == {z \in S : z < x}
             C == {z \in R : z < x}
  <2>2. Rank(S, x) = Cardinality(B) /\ Rank(R, x) = Cardinality(C)
    BY DEF Rank
  <2>3. Rank(S, x) \in Nat /\ Rank(R, x) \in Nat
    BY <1>1, RankMore
  <2>4. CASE x < y
    <3>1. \A z \in S : z < x => z # y
      BY <2>1, <2>4
    <3>2. B = C
      BY <3>1
    <3> QED BY <2>2, <3>2
  <2>5. CASE y < x
    <3>1. y \in B /\ C = B \ {y} /\ IsFiniteSet(B)
      BY <2>5, FS_Subset
    <3> HIDE DEF B, C
    <3>2. Cardinality(C) = Cardinality(B) - 1
      BY <3>1, FS_RemoveElement
    <3>3. Rank(S, y) < Rank(S, x)
      BY <2>5, Ranks
    <3> HIDE DEF R
    <3> QED BY <1>2, <2>2, <2>3, <3>2, <3>3
  <2> QED BY <2>1, <2>4, <2>5
<1> QED
  BY <1>3, <1>4

\* What holds of the reading r of directory d: it has passed as many entries as its
\* offset says; those it expects and has passed it has returned, and unless entries
\* were added it has returned none that is still to come.
ReadingSound(s, d, r) ==
    LET P == Places(s, d)
        Early(i) == Rank(P, i) < Skip(r.offset)
    IN  /\ Skip(r.offset) <= Cardinality(P)
        /\ r.start \subseteq {<<d, i>> : i \in P}
        /\ \A i \in P : Early(i) /\ <<d, i>> \in r.start => <<d, i>> \in r.seen
        /\ r.added \/ \A i \in P : <<d, i>> \in r.seen => Early(i)

ListingType ==
    [node : {RootNode} \cup (Cluster \X Nat), offset : Nat, start : SUBSET (Cluster \X Nat),
     seen : SUBSET (Cluster \X Nat), added : BOOLEAN, again : BOOLEAN,
     status : {"idle", "reading", "done", "failed"}]

\* What every request keeps of the reading and of the stamps.
ListingInv ==
    /\ listing \in ListingType /\ unset \subseteq Entries(slots)
    /\ listing.again => listing.added
    /\ listing.status = "done" => listing.start \subseteq listing.seen
    /\ Reading => /\ listing.node \in Nodes /\ IsDir(listing.node)
                  /\ ReadingSound(slots, DirCluster(listing.node), listing)

\* The first positions, as a number.
LEMMA SkipType ==
    ASSUME NEW offset \in Nat
    PROVE  Skip(offset) \in Nat
BY DEF Skip

\* An entry was passed when its rank says so.
LEMMA PassedIs ==
    ASSUME slots \in Streams, NEW d \in Cluster, NEW i \in Places(slots, d),
           listing.offset \in Nat
    PROVE  Passed(<<d, i>>) <=> Rank(Places(slots, d), i) < Skip(listing.offset)
<1> DEFINE P == Places(slots, d)
           E == EntriesOf(d)
           k == Skip(listing.offset)
           m == Cardinality(P)
           r == Rank(P, i)
<1>1. k \in Nat
  BY SkipType
<1>2. P \in SUBSET Nat /\ IsFiniteSet(P)
  BY PlacesFacts
<1>3. /\ m \in Nat /\ DOMAIN E = 1..m
      /\ \A n \in 1..m : \E x \in P : E[n] = <<d, x>> /\ Rank(P, x) = n - 1
      /\ r + 1 \in 1..m /\ E[r + 1] = <<d, i>>
  BY EntriesOfIs
<1>4. r \in Nat
  BY <1>2, RankMore
<1>5. Passed(<<d, i>>) <=> \E n \in 1..k : n \in DOMAIN E /\ E[n] = <<d, i>>
  BY DEF Passed
<1> HIDE DEF k, m, E, P
<1>6. ASSUME NEW n \in 1..m, E[n] = <<d, i>> PROVE n = r + 1
  <2>1. PICK x \in P : E[n] = <<d, x>> /\ Rank(P, x) = n - 1
    BY <1>3
  <2>2. x = i
    BY <1>6, <2>1
  <2>3. r = n - 1
    BY <2>1, <2>2
  <2> HIDE DEF r
  <2> QED BY <2>3, <1>3
<1> HIDE DEF r
<1>7. Passed(<<d, i>>) => r < k
  BY <1>1, <1>3, <1>4, <1>5, <1>6
<1>8. r < k => r + 1 \in 1..k
  BY <1>1, <1>4
<1>9. r < k => Passed(<<d, i>>)
  BY <1>3, <1>5, <1>8
<1> QED
  BY <1>7, <1>9 DEF r, k, P

\* A directory that is not removed stays the directory it is.
LEMMA DirectoryKept ==
    ASSUME NEW s, NEW t, EntryStep(s, t), NEW l \in Entries(s), l \in Entries(t),
           At(s, l).kind = "Directory"
    PROVE  At(t, l).kind = "Directory" /\ At(t, l).start = At(s, l).start
<1>1. \A m, e : Rewritten(s, t, m, e) =>
         At(t, l).kind = "Directory" /\ At(t, l).start = At(s, l).start
  BY DEF Rewritten
<1>2. \A d, m, e : Added(s, t, d, m, e) =>
         At(t, l).kind = "Directory" /\ At(t, l).start = At(s, l).start
  BY DEF Added, Renewed
<1>3. \A m : Removed(s, t, m) =>
         At(t, l).kind = "Directory" /\ At(t, l).start = At(s, l).start
  BY DEF Removed, Renewed
<1> QED
  BY <1>1, <1>2, <1>3 DEF EntryStep

\* The places of a directory change by one entry at most.
LEMMA PlacesStep ==
    ASSUME NEW s \in Streams, NEW t \in Streams, EntryStep(s, t), NEW d \in Cluster
    PROVE  \/ Places(t, d) = Places(s, d)
           \/ \E i : /\ i \notin Places(s, d) /\ Places(t, d) = Places(s, d) \cup {i}
                     /\ <<d, i>> \in Entries(t) \ Entries(s)
           \/ \E i \in Places(s, d) :
                 Places(t, d) = Places(s, d) \ {i} /\ <<d, i>> \in Entries(s) \ Entries(t)
<1> DEFINE S == Places(s, d)
           T == Places(t, d)
<1>1. /\ \A i : i \in S <=> <<d, i>> \in Entries(s)
      /\ \A i : i \in T <=> <<d, i>> \in Entries(t)
  BY PlacesFacts
<1> HIDE DEF S, T
<1>2. CASE Entries(t) = Entries(s)
  <2>1. S = T
    BY <1>1, <1>2
  <2> QED BY <2>1 DEF S, T
<1>3. ASSUME NEW l \in Locs(t), l \notin Entries(s), Entries(t) = Entries(s) \cup {l}
      PROVE  T = S \/ \E i : i \notin S /\ T = S \cup {i} /\ <<d, i>> \in Entries(t) \ Entries(s)
  <2>1. \A i : <<d, i>> = l <=> l[1] = d /\ i = l[2]
    BY LocsFacts
  <2>2. CASE l[1] = d
    <3>1. l[2] \notin S /\ T = S \cup {l[2]}
      BY <1>1, <1>3, <2>1, <2>2
    <3> QED BY <1>3, <2>1, <2>2, <3>1
  <2>3. CASE l[1] # d
    <3>1. T = S
      BY <1>1, <1>3, <2>1, <2>3
    <3> QED BY <3>1
  <2> QED BY <2>2, <2>3
<1>4. ASSUME NEW l \in Entries(s), Entries(t) = Entries(s) \ {l}
      PROVE  T = S \/ \E i \in S : T = S \ {i} /\ <<d, i>> \in Entries(s) \ Entries(t)
  <2>1. \A i : <<d, i>> = l <=> l[1] = d /\ i = l[2]
    BY LocsFacts DEF Entries
  <2>2. CASE l[1] = d
    <3>1. <<d, l[2]>> = l
      BY <2>1, <2>2
    <3>2. \A i : i \in T <=> i \in S /\ i # l[2]
      BY <1>1, <1>4, <2>1, <2>2
    <3>3. l[2] \in S /\ T = S \ {l[2]}
      BY <1>1, <1>4, <3>1, <3>2
    <3> QED BY <1>4, <3>1, <3>3
  <2>3. CASE l[1] # d
    <3>1. T = S
      BY <1>1, <1>4, <2>1, <2>3
    <3> QED BY <3>1
  <2> QED BY <2>2, <2>3
<1>5. \/ Entries(t) = Entries(s)
      \/ \E l \in Locs(t) : l \notin Entries(s) /\ Entries(t) = Entries(s) \cup {l}
      \/ \E l \in Entries(s) : Entries(t) = Entries(s) \ {l}
  BY DEF EntryStep, Rewritten, Added, Removed
<1> QED
  BY <1>2, <1>3, <1>4, <1>5 DEF S, T

\* A reading that goes on after a request is still sound.
LEMMA ObservedSound ==
    ASSUME Good(fat, slots, open), Good(fat', slots', open'), EntryStep(slots, slots'),
           ListingInv, unset' \subseteq Entries(slots'), Observed
    PROVE  ListingInv'
<1> DEFINE r == listing
           r2 == listing'
           n == listing.node
           d == DirCluster(n)
           S == Places(slots, d)
           T == Places(slots', d)
           k == Skip(listing.offset)
<1>0. slots \in Streams /\ slots' \in Streams
  BY DEF Good
<1>1. GoneNow = Entries(slots) \ Entries(slots') /\ NewNow = Entries(slots') \ Entries(slots)
  <2>1. \A l : Entry(l) = At(slots, l) /\ slots'[l[1]][l[2]] = At(slots', l)
    BY DEF Entry, At
  <2> QED BY <2>1 DEF GoneNow, NewNow, Entries
<1>2. CASE listing' = Idle
  <2>1. Idle \in ListingType /\ ~Idle.again /\ Idle.status = "idle" /\ Idle.start = {}
    BY DEF Idle, ListingType
  <2> HIDE DEF Idle
  <2> QED BY <1>2, <2>1 DEF ListingInv, Reading
<1>3. CASE listing' # Idle
  <2>1. /\ Reading /\ n \notin GoneNow
        /\ ~ \E l \in GoneNow : l[1] = d /\ Passed(l)
        /\ listing' = [listing EXCEPT !.start = @ \ GoneNow,
                                      !.added = @ \/ \E l \in NewNow : l[1] = d]
    BY <1>3 DEF Observed
  <2>2. listing \in ListingType /\ n \in Nodes /\ IsDir(n) /\ ReadingSound(slots, d, listing)
        /\ listing.status = "reading" /\ (listing.again => listing.added)
    BY <2>1 DEF ListingInv, Reading
  <2>3. /\ r2 \in ListingType /\ r2.node = n /\ r2.offset = r.offset /\ r2.seen = r.seen
        /\ r2.start = r.start \ GoneNow /\ r2.again = r.again /\ r2.status = "reading"
        /\ r2.added <=> r.added \/ \E l \in NewNow : l[1] = d
    BY <2>1, <2>2 DEF ListingType
  <2>4. d \in Dirs(slots) /\ d \in Cluster /\ (n # RootNode => n \in Entries(slots))
    BY <2>2, DirNode, DirsAreHeads, HeadsType DEF Good
  <2>5. n \in Nodes' /\ IsDir(listing.node)' /\ DirCluster(listing.node)' = d
    <3>0. listing'.node = n
      BY <2>3
    <3>1. CASE n = RootNode
      <4>1. Meta(listing.node)' = Meta(listing.node)
        BY <3>0, <3>1 DEF Meta
      <4> QED BY <3>1, <4>1, <2>2 DEF Nodes, IsDir, DirCluster
    <3>2. CASE n # RootNode
      <4>1. n \in Entries(slots) /\ n \in Entries(slots')
        BY <3>2, <1>1, <2>1, <2>4
      <4>2. Meta(listing.node)' = At(slots', n) /\ Meta(n) = At(slots, n)
        BY <3>0, <3>2 DEF Meta, Entry, At
      <4>3. At(slots, n).kind = "Directory" /\ At(slots, n).start = d
        BY <4>2, <2>2 DEF IsDir, DirCluster
      <4>4. At(slots', n).kind = "Directory" /\ At(slots', n).start = d
        BY <4>1, <4>3, DirectoryKept
      <4>5. n \in Locs(slots')
        BY <4>1 DEF Entries
      <4> QED BY <4>2, <4>4, <4>5 DEF Nodes, IsDir, DirCluster
    <3> QED BY <3>1, <3>2
  <2> HIDE DEF r2, n, d
  <2>6. /\ S \in SUBSET Nat /\ IsFiniteSet(S) /\ Cardinality(S) \in Nat
        /\ T \in SUBSET Nat /\ IsFiniteSet(T) /\ Cardinality(T) \in Nat
        /\ \A i : i \in S <=> <<d, i>> \in Entries(slots)
        /\ \A i : i \in T <=> <<d, i>> \in Entries(slots')
    BY <1>0, <2>4, PlacesFacts
  <2>7. k \in Nat /\ Skip(r2.offset) = k
    BY <2>2, <2>3, SkipType DEF ListingType
  <2>8. /\ k <= Cardinality(S) /\ r.start \subseteq {<<d, i>> : i \in S}
        /\ \A i \in S : Rank(S, i) < k /\ <<d, i>> \in r.start => <<d, i>> \in r.seen
        /\ r.added \/ \A i \in S : <<d, i>> \in r.seen => Rank(S, i) < k
    BY <2>2 DEF ReadingSound
  <2>9. \A i \in S : <<d, i>> \in GoneNow => ~(Rank(S, i) < k)
    <3> SUFFICES ASSUME NEW i \in S, <<d, i>> \in GoneNow PROVE ~(Rank(S, i) < k)
      OBVIOUS
    <3>1. ~Passed(<<d, i>>)
      BY <2>1
    <3>2. listing.offset \in Nat
      BY <2>2 DEF ListingType
    <3> QED BY <3>1, <3>2, <1>0, <2>4, PassedIs
  <2>10. ASSUME T = S
         PROVE  ReadingSound(slots', d, r2)
    <3>1. r2.start \subseteq {<<d, i>> : i \in T}
      BY <2>3, <2>8, <2>10
    <3>2. ReadingSound(slots', d, r2)
      BY <2>3, <2>7, <2>8, <2>10, <3>1 DEF ReadingSound
    <3> QED BY <3>2
  <2>11. ASSUME NEW i, i \notin S, T = S \cup {i}, <<d, i>> \in NewNow
         PROVE  ReadingSound(slots', d, r2)
    <3>1. k <= Cardinality(T) /\ \A x \in S : Rank(T, x) < k => Rank(S, x) < k
      <4>1. \A x : Rank(S, x) \in Nat /\ Rank(T, x) \in Nat /\ Rank(S, x) <= Rank(T, x)
            /\ Cardinality(S) <= Cardinality(T)
        BY <2>6, <2>11, RankMore
      <4>2. k <= Cardinality(T)
        BY <2>6, <2>7, <2>8, <4>1
      <4>3. ASSUME NEW x \in S, Rank(T, x) < k PROVE Rank(S, x) < k
        <5> DEFINE a == Rank(S, x)
                   b == Rank(T, x)
        <5>1. a \in Nat /\ b \in Nat /\ a <= b /\ b < k
          BY <4>1, <4>3
        <5> HIDE DEF a, b
        <5> QED BY <5>1, <2>7 DEF a
      <4> QED BY <4>2, <4>3
    <3>2. r2.start \subseteq {<<d, x>> : x \in S} /\ r2.start \subseteq {<<d, x>> : x \in T}
      BY <2>3, <2>8, <2>11
    <3>3. <<d, i>> \notin r2.start
      BY <2>11, <3>2
    <3>4. r2.added
      <4>1. <<d, i>>[1] = d
        OBVIOUS
      <4> QED BY <2>3, <2>11, <4>1
    <3>5. \A x \in T : Rank(T, x) < k /\ <<d, x>> \in r2.start => <<d, x>> \in r2.seen
      BY <2>3, <2>8, <2>11, <3>1, <3>3
    <3> HIDE DEF T
    <3> QED BY <2>7, <3>1, <3>2, <3>4, <3>5 DEF ReadingSound, T
  <2>12. ASSUME NEW i \in S, T = S \ {i}, <<d, i>> \in GoneNow
         PROVE  ReadingSound(slots', d, r2)
    <3>1. ~(Rank(S, i) < k)
      BY <2>9, <2>12
    <3>2. k <= Cardinality(T) /\ \A x \in T : Rank(T, x) < k <=> Rank(S, x) < k
      BY <2>6, <2>7, <2>8, <2>12, <3>1, RankLess
    <3>3. r2.start \subseteq {<<d, x>> : x \in T}
      BY <2>3, <2>8, <2>12
    <3>4. \A x \in T : Rank(T, x) < k /\ <<d, x>> \in r2.start => <<d, x>> \in r2.seen
      BY <2>3, <2>8, <2>12, <3>2
    <3>5. r2.added \/ \A x \in T : <<d, x>> \in r2.seen => Rank(T, x) < k
      BY <2>3, <2>8, <2>12, <3>2
    <3> HIDE DEF T
    <3> QED BY <2>7, <3>2, <3>3, <3>4, <3>5 DEF ReadingSound, T
  <2>13. ReadingSound(slots', d, r2)
    BY <1>0, <1>1, <2>4, <2>10, <2>11, <2>12, PlacesStep
  <2>14. listing' \in ListingType /\ (listing'.again => listing'.added)
         /\ listing'.status = "reading" /\ listing'.node = n
    BY <2>2, <2>3 DEF r2
  <2> QED BY <2>5, <2>13, <2>14 DEF ListingInv, Reading, r2
<1> QED
  BY <1>2, <1>3

\* Stamps stay on entries: a request stamps what it leaves occupied.
LEMMA StampsKept ==
    ASSUME Good(fat, slots, open), held = HeldOf(open), unset \subseteq Entries(slots),
           FuseNext
    PROVE  unset' \subseteq Entries(slots')
<1> DEFINE U == unset' \subseteq Entries(slots')
           K == ret' # "Ok" => slots' = slots
<1>0. /\ UNCHANGED <<unset, slots>> => U
      /\ \A S : Stamped(S) => U
      /\ \A S : StampIfOk(S) /\ K => U
  <2>1. ASSUME NEW S, Stamped(S) PROVE U
    BY <2>1 DEF Stamped, Entries, At
  <2>2. ASSUME NEW S, StampIfOk(S), K PROVE U
    BY <2>1, <2>2 DEF StampIfOk
  <2>3. UNCHANGED <<unset, slots>> => U
    OBVIOUS
  <2> HIDE DEF K, U
  <2>4. \A S : Stamped(S) => U
    BY <2>1
  <2>5. \A S : StampIfOk(S) /\ K => U
    BY <2>2
  <2> QED BY <2>3, <2>4, <2>5
<1> HIDE DEF U
<1>1. /\ \A d, k : CreateFile(d, k) \/ Mkdir(d, k) => K
      /\ \A l : Rm(l) \/ Rmdir(l) => K
      /\ \A l, size : Truncate(l, size) => K
      /\ \A l, offset, len : WriteAt(l, offset, len) => K
  <2>1. \A d, k : CreateFile(d, k) \/ Mkdir(d, k) => K
    BY DEF CreateFile, Mkdir, AddEntry, Fail
  <2>2. \A l : Rm(l) \/ Rmdir(l) => K
    BY DEF Rm, Rmdir, RemoveEntry, Fail
  <2>3. \A l, size : Truncate(l, size) => K
    BY DEF Truncate, Fail
  <2>4. \A l, offset, len : WriteAt(l, offset, len) => K
    BY DEF WriteAt, Fail
  <2> QED BY <2>1, <2>2, <2>3, <2>4
<1> HIDE DEF K
<1>2. ASSUME NEW p, NEW k, Mknod(p, k) \/ FuseMkdir(p, k) PROVE U
  BY <1>0, <1>1, <1>2 DEF Mknod, FuseMkdir, NoSuchParent, Fail
<1>3. ASSUME NEW p, NEW k, Unlink(p, k) \/ FuseRmdir(p, k) PROVE U
  BY <1>0, <1>1, <1>3 DEF Unlink, FuseRmdir, NoSuchParent, Fail
<1>4. ASSUME NEW p, NEW k, Create(p, k) PROVE U
  <2>1. CASE \E S : Stamped(S)
    BY <2>1, <1>0
  <2>2. CASE UNCHANGED <<unset, slots>>
    BY <2>2, <1>0
  <2> QED BY <1>4, <2>1, <2>2 DEF Create, CreateFile, NoSuchParent, Fail
<1>5. ASSUME NEW n, FuseOpen(n) PROVE U
  BY <1>0, <1>5 DEF FuseOpen, Open, Fail
<1>6. ASSUME NEW n, NEW size \in Offsets, SetSize(n, size) PROVE U
  <2>1. CASE Resize(n, size) /\ size = Entry(n).size /\ UNCHANGED unset
    <3>1. size \in Nat /\ ~(size > size) /\ ~(size < size)
      BY ParameterTypes
    <3>2. UNCHANGED slots
      BY <2>1, <3>1 DEF Resize
    <3> QED BY <2>1, <3>2, <1>0
  <2>2. CASE Truncate(n, size) /\ StampIfOk({n})
    BY <2>2, <1>0, <1>1
  <2>3. CASE Stamped({n})
    BY <2>3, <1>0
  <2>4. CASE UNCHANGED <<unset, slots>>
    BY <2>4, <1>0
  <2> QED BY <1>6, <2>1, <2>2, <2>3, <2>4 DEF SetSize, Fail
<1>7. ASSUME NEW n, SetTime(n) PROVE U
  BY <1>0, <1>7 DEF SetTime, Fail
<1>8. ASSUME NEW h, NEW offset, NEW len, Write(h, offset, len) PROVE U
  BY <1>0, <1>1, <1>8 DEF Write
<1>9. ASSUME NEW h, Release(h) PROVE U
  BY <1>0, <1>9 DEF Release, CloseHandle, Fail
<1>10. ASSUME NEW n, Opendir(n) PROVE U
  BY <1>0, <1>10 DEF Opendir, vars
<1>11. ASSUME NEW room, Readdir(room) PROVE U
  BY <1>0, <1>11 DEF Readdir, vars
<1>12. U
  BY <1>2, <1>3, <1>4, <1>5, <1>6, <1>7, <1>8, <1>9, <1>10, <1>11 DEF FuseNext
<1> QED
  BY <1>12 DEF U

\* Writing and truncating leave entries where they are.
LEMMA FileStepEntries ==
    ASSUME Good(fat, slots, open)
    PROVE  /\ \A l \in Locs(slots), offset \in Nat, len \in Nat :
                 WriteAt(l, offset, len) => Entries(slots') = Entries(slots)
           /\ \A l \in Locs(slots), size \in Nat :
                 Truncate(l, size) \/ Resize(l, size) => Entries(slots') = Entries(slots)
<1>0. slots \in Streams /\ fat \in [Cluster -> FatEntry]
  BY DEF Good
<1>1. ASSUME NEW l \in Locs(slots), NEW e \in Slot, Entry(l).kind = "File",
             e.kind = "File", WriteFcb(l, e)
      PROVE  Entries(slots') = Entries(slots)
  <2>1. slots' = Put(slots, l, e) /\ Entry(l) = At(slots, l)
    BY <1>1 DEF WriteFcb, Put, Entry, At
  <2>2. Locs(slots') = Locs(slots)
        /\ \A m \in Locs(slots) : At(slots', m) = IF m = l THEN e ELSE At(slots, m)
    BY <1>0, <2>1, PutFacts
  <2> QED BY <1>1, <2>1, <2>2 DEF Entries, Occupied
<1>2. ASSUME NEW l \in Locs(slots), NEW end \in Nat, Entry(l).kind = "File",
             CanWrite(Entry(l), end), WriteFcb(l, Written(Entry(l), end))
      PROVE  Entries(slots') = Entries(slots)
  <2>1. Entry(l) \in Slot
    BY <1>0, LocsFacts DEF At, Entry
  <2>2. Written(Entry(l), end) \in Slot /\ Written(Entry(l), end).kind = "File"
    BY <1>0, <1>2, <2>1, WrittenFacts
  <2> QED BY <1>1, <1>2, <2>2
<1>3. ASSUME NEW l \in Locs(slots), NEW size \in Nat, Entry(l).kind = "File",
             Shrink(l, size)
      PROVE  Entries(slots') = Entries(slots)
  <2> DEFINE e == [Entry(l) EXCEPT !.size = size,
                     !.start = IF CeilDiv(size, ClusterSize) = 0 THEN FREE ELSE @]
  <2>1. Entry(l) \in Slot
    BY <1>0, LocsFacts DEF At, Entry
  <2>2. e \in Slot /\ e.kind = "File"
    BY <1>3, <2>1 DEF Slot
  <2>3. WriteFcb(l, e)
    BY <1>3 DEF Shrink
  <2> HIDE DEF e
  <2> QED BY <1>1, <1>3, <2>2, <2>3
<1>4. ASSUME NEW l \in Locs(slots), NEW offset \in Nat, NEW len \in Nat,
             WriteAt(l, offset, len)
      PROVE  Entries(slots') = Entries(slots)
  <2> DEFINE end == offset + len
  <2>1. end \in Nat
    OBVIOUS
  <2> HIDE DEF end
  <2> QED BY <1>2, <1>4, <2>1 DEF WriteAt, Fail, end
<1>5. ASSUME NEW l \in Locs(slots), NEW size \in Nat, Truncate(l, size) \/ Resize(l, size)
      PROVE  Entries(slots') = Entries(slots)
  BY <1>2, <1>3, <1>5 DEF Truncate, Resize, Fail
<1> QED
  BY <1>4, <1>5

\* A request that leaves entries where they are leaves a reading as sound as it was.
LEMMA ReadingKept ==
    ASSUME Good(fat, slots, open), Good(fat', slots', open'), EntryStep(slots, slots'),
           ListingInv, unset' \subseteq Entries(slots'),
           Entries(slots') = Entries(slots), UNCHANGED listing
    PROVE  ListingInv'
<1>1. CASE Reading
  <2>1. GoneNow = {} /\ NewNow = {}
    <3>1. \A l : Entry(l) = At(slots, l) /\ slots'[l[1]][l[2]] = At(slots', l)
      BY DEF Entry, At
    <3> QED BY <3>1 DEF GoneNow, NewNow, Entries
  <2>2. listing \in ListingType
    BY DEF ListingInv
  <2>3. listing = [listing EXCEPT !.start = @ \ {}, !.added = @ \/ FALSE]
    BY <2>2 DEF ListingType
  <2>4. Observed
    BY <1>1, <2>1, <2>3 DEF Observed
  <2> QED BY <2>4, ObservedSound
<1>2. CASE ~Reading
  BY <1>2 DEF ListingInv, Reading
<1> QED
  BY <1>1, <1>2

\* A reading that is opened expects what is there.
LEMMA OpendirSound ==
    ASSUME Good(fat, slots, open), ListingInv, NEW n \in Nodes, Opendir(n)
    PROVE  ListingInv'
<1> DEFINE d == DirCluster(n)
           P == Places(slots, d)
           E == EntriesOf(d)
           r == [Idle EXCEPT !.node = n, !.start = ToSet(E), !.status = "reading"]
<1>1. IsDir(n) /\ listing' = r /\ UNCHANGED <<slots, unset>>
  BY DEF Opendir, vars
<1>2. slots \in Streams /\ d \in Cluster
  BY <1>1, DirNode, DirsAreHeads, HeadsType DEF Good
<1>3. n \in {RootNode} \cup (Cluster \X Nat)
  BY <1>2, LocsFacts DEF Nodes
<1>4. ToSet(E) \subseteq {<<d, i>> : i \in P}
  <2> HIDE DEF d, P, E
  <2>1. \A i \in DOMAIN E : \E x \in P : E[i] = <<d, x>>
    BY <1>2, EntriesOfIs DEF P, E
  <2> QED BY <2>1 DEF ToSet
<1>5. P \in SUBSET Nat /\ IsFiniteSet(P) /\ Cardinality(P) \in Nat
  BY <1>2, PlacesFacts
<1>6. ToSet(E) \in SUBSET (Cluster \X Nat)
  <2> HIDE DEF d, P, E
  <2> QED BY <1>2, <1>4, <1>5
<1> HIDE DEF E
<1>7. /\ r \in ListingType /\ r.node = n /\ r.offset = 0 /\ r.start = ToSet(E) /\ r.seen = {}
      /\ r.again = FALSE /\ r.status = "reading"
  BY <1>3, <1>6 DEF Idle, ListingType
<1> HIDE DEF r
<1>8. Skip(0) = 0 /\ \A i : Rank(P, i) \in Nat
  BY <1>5, RankMore DEF Skip
<1>9. ReadingSound(slots, d, r)
  <2>1. Skip(r.offset) = 0
    BY <1>7, <1>8
  <2>2. \A i \in P : ~(Rank(P, i) < 0)
    BY <1>8
  <2> HIDE DEF P, d
  <2>3. /\ 0 <= Cardinality(P) /\ r.start \subseteq {<<d, i>> : i \in P}
        /\ \A i \in P : <<d, i>> \notin r.seen
    BY <1>4, <1>5, <1>7
  <2> QED BY <2>1, <2>2, <2>3 DEF ReadingSound, P
<1>10. listing'.node = n /\ Nodes' = Nodes /\ IsDir(listing.node)'
       /\ DirCluster(listing.node)' = d
  <2>1. listing'.node = n /\ slots' = slots
    BY <1>1, <1>7
  <2>2. Meta(listing.node)' = Meta(n)
    BY <2>1 DEF Meta, Entry
  <2> QED BY <1>1, <2>1, <2>2 DEF Nodes, IsDir, DirCluster
<1>11. unset' \subseteq Entries(slots')
  BY <1>1 DEF ListingInv
<1> QED
  BY <1>1, <1>7, <1>9, <1>10, <1>11 DEF ListingInv, Reading

\* The numbers of one reply: it goes on after the entries it returns, and there are
\* that many left.
LEMMA PageNumbers ==
    ASSUME NEW o \in Nat, NEW m \in Nat, NEW room \in Nat, Skip(o) <= m
    PROVE  LET dots == IF o < 2 THEN 2 - o ELSE 0
               left == m - Skip(o)
               fit == IF room > dots THEN room - dots ELSE 0
               count == IF fit < left THEN fit ELSE left
               o2 == IF room < dots THEN o + room ELSE o + dots + count
           IN  /\ count \in Nat /\ Skip(o) + count <= m
               /\ o2 \in Nat /\ Skip(o2) = Skip(o) + count
BY DEF Skip

\* One reply goes on where the last one ended.
LEMMA ReaddirSound ==
    ASSUME Good(fat, slots, open), ListingInv, NEW room \in 1..MaxRoom, Readdir(room)
    PROVE  ListingInv'
<1> DEFINE r == listing
           r2 == listing'
           n == listing.node
           d == DirCluster(n)
           P == Places(slots, d)
           E == EntriesOf(d)
           m == Cardinality(P)
           o == listing.offset
           dots == IF o < 2 THEN 2 - o ELSE 0
           k == Skip(o)
           left == Len(E) - k
           fit == IF room > dots THEN room - dots ELSE 0
           count == IF fit < left THEN fit ELSE left
           new == {E[i] : i \in k + 1..k + count}
           o2 == IF room < dots THEN o + room ELSE o + dots + count
<1>1. /\ Reading /\ UNCHANGED <<slots, unset>>
      /\ \/ listing' = [listing EXCEPT !.status = "failed"]
         \/ dots = 0 /\ left = 0 /\ listing' = [listing EXCEPT !.status = "done"]
         \/ listing' = [listing EXCEPT !.offset = IF room < dots THEN @ + room
                                                   ELSE @ + dots + count,
                                       !.seen = @ \cup new,
                                       !.again = @ \/ new \cap listing.seen # {}]
  BY DEF Readdir, vars
<1>2. /\ r \in ListingType /\ n \in Nodes /\ IsDir(n) /\ ReadingSound(slots, d, r)
      /\ r.again => r.added
      /\ r.status = "reading"
  BY <1>1 DEF ListingInv, Reading
<1>3. slots \in Streams /\ d \in Cluster
  BY <1>2, DirNode, DirsAreHeads, HeadsType DEF Good
<1>4. P \in SUBSET Nat /\ IsFiniteSet(P)
  BY <1>3, PlacesFacts
<1>5. /\ m \in Nat /\ DOMAIN E = 1..m /\ Len(E) = m
      /\ \A i \in 1..m : \E x \in P : E[i] = <<d, x>> /\ Rank(P, x) = i - 1
      /\ \A x \in P : Rank(P, x) + 1 \in 1..m /\ E[Rank(P, x) + 1] = <<d, x>>
  BY <1>3, EntriesOfIs
<1>6. o \in Nat /\ k \in Nat /\ room \in Nat /\ room >= 1
  <2>1. o \in Nat
    BY <1>2 DEF ListingType
  <2> QED BY <2>1, SkipType, ReplyAssumption
<1>7. /\ k <= m /\ r.start \subseteq {<<d, i>> : i \in P}
      /\ \A i \in P : Rank(P, i) < k /\ <<d, i>> \in r.start => <<d, i>> \in r.seen
      /\ r.added \/ \A i \in P : <<d, i>> \in r.seen => Rank(P, i) < k
  BY <1>2 DEF ReadingSound
<1>8. \A i \in P : Rank(P, i) \in Nat
  BY <1>4, RankMore
<1>9. \A p : listing'.node = n /\ p = n =>
         /\ Nodes' = Nodes /\ (IsDir(listing.node)' <=> IsDir(p))
         /\ DirCluster(listing.node)' = DirCluster(p)
  BY <1>1 DEF Nodes, IsDir, DirCluster, Meta, Entry
<1>10. unset' \subseteq Entries(slots')
  BY <1>1 DEF ListingInv
<1>11. CASE listing' = [listing EXCEPT !.status = "failed"]
  <2>1. r2 \in ListingType /\ r2.again = r.again /\ r2.added = r.added
        /\ r2.status = "failed"
    BY <1>2, <1>11 DEF ListingType
  <2> QED BY <1>2, <1>10, <2>1 DEF ListingInv, Reading
<1>12. CASE left = 0 /\ listing' = [listing EXCEPT !.status = "done"]
  <2>1. r2 \in ListingType /\ r2.again = r.again /\ r2.added = r.added
        /\ r2.status = "done" /\ r2.start = r.start /\ r2.seen = r.seen
    BY <1>2, <1>12 DEF ListingType
  <2>2. k = m
    BY <1>5, <1>6, <1>12
  <2> HIDE DEF k, m, P, d, r2, r, E
  <2>3. ASSUME NEW i \in P PROVE Rank(P, i) < k
    <3> DEFINE x == Rank(P, i)
    <3>1. x + 1 \in 1..m /\ x \in Nat
      BY <1>5, <1>8
    <3> HIDE DEF x
    <3>2. x < k
      BY <3>1, <2>2, <1>6
    <3> QED BY <3>2 DEF x
  <2>4. r.start \subseteq r.seen
    BY <1>7, <2>3
  <2> QED BY <1>2, <1>10, <2>1, <2>4 DEF ListingInv, Reading, r, r2
<1>13. CASE listing' = [listing EXCEPT !.offset = IF room < dots THEN @ + room
                                                   ELSE @ + dots + count,
                                       !.seen = @ \cup new,
                                       !.again = @ \/ new \cap listing.seen # {}]
  <2>1. count \in Nat /\ k + count <= m /\ o2 \in Nat /\ Skip(o2) = k + count
    BY <1>5, <1>6, <1>7, PageNumbers
  <2> DEFINE c == count
  <2> HIDE DEF c
  <2>2. listing' = [listing EXCEPT !.offset = o2, !.seen = @ \cup new,
                                   !.again = @ \/ new \cap listing.seen # {}]
    BY <1>13
  <2>3. \A x \in P : <<d, x>> \in new <=> ~(Rank(P, x) < k) /\ Rank(P, x) < k + c
    <3> HIDE DEF count, k, E, P, d, m
    <3>1. new = {E[i] : i \in k + 1..k + c}
      BY DEF c
    <3> HIDE DEF new
    <3>2. c \in Nat /\ k + c <= m
      BY <2>1 DEF c
    <3>3. ASSUME NEW x \in P, <<d, x>> \in new
          PROVE  ~(Rank(P, x) < k) /\ Rank(P, x) < k + c
      <4>1. PICK i \in k + 1..k + c : E[i] = <<d, x>>
        BY <3>1, <3>3
      <4>2. i \in 1..m
        BY <3>2, <1>5, <1>6
      <4>3. PICK y \in P : E[i] = <<d, y>> /\ Rank(P, y) = i - 1
        BY <4>2, <1>5
      <4>4. Rank(P, x) = i - 1
        BY <4>1, <4>3
      <4> QED BY <4>4, <3>2, <1>6
    <3>4. ASSUME NEW x \in P, ~(Rank(P, x) < k), Rank(P, x) < k + c
          PROVE  <<d, x>> \in new
      <4> DEFINE i == Rank(P, x) + 1
      <4>1. i \in k + 1..k + c
        <5> DEFINE z == Rank(P, x)
        <5>1. z \in Nat /\ ~(z < k) /\ z < k + c
          BY <1>8, <3>4
        <5> HIDE DEF z
        <5>2. z + 1 \in k + 1..k + c
          BY <5>1, <3>2, <1>6
        <5> QED BY <5>2 DEF z
      <4>2. E[i] = <<d, x>>
        BY <1>5
      <4> HIDE DEF i
      <4> QED BY <3>1, <4>1, <4>2
    <3> QED BY <3>3, <3>4
  <2>4. new \subseteq {<<d, x>> : x \in P}
    <3> HIDE DEF count, k, E, P, d, m
    <3>1. \A i \in k + 1..k + count : i \in 1..m
      BY <2>1, <1>5, <1>6
    <3> QED BY <3>1, <1>5
  <2> HIDE DEF new, o2
  <2>5. /\ r2 \in ListingType /\ r2.node = n /\ r2.offset = o2 /\ r2.start = r.start
        /\ r2.seen = r.seen \cup new /\ r2.added = r.added /\ r2.status = "reading"
        /\ r2.again <=> r.again \/ new \cap r.seen # {}
    <3>1. new \in SUBSET (Cluster \X Nat)
      <4> HIDE DEF P, d
      <4> QED BY <2>4, <1>3, <1>4
    <3> QED BY <1>2, <2>1, <2>2, <3>1 DEF ListingType
  <2> HIDE DEF count, k, m, P, d, r2, r, E
  <2>6. r2.again => r2.added
    <3>1. ASSUME ~r.added, NEW l \in new \cap r.seen PROVE FALSE
      <4>1. PICK x \in P : l = <<d, x>>
        BY <2>4
      <4>2. Rank(P, x) < k
        BY <1>7, <3>1, <4>1
      <4> QED BY <2>3, <3>1, <4>1, <4>2
    <3> QED BY <1>2, <2>5, <3>1
  <2>7. Skip(r2.offset) = k + c /\ k + c <= m /\ c \in Nat
    BY <2>1, <2>5 DEF c
  <2>8. \A i \in P : Rank(P, i) < k + c /\ <<d, i>> \in r2.start => <<d, i>> \in r2.seen
    BY <1>7, <2>3, <2>5
  <2>9. r2.added \/ \A i \in P : <<d, i>> \in r2.seen => Rank(P, i) < k + c
    <3>1. \A i \in P : Rank(P, i) < k => Rank(P, i) < k + c
      BY <1>6, <1>8, <2>7
    <3> QED BY <1>7, <2>3, <2>5, <3>1
  <2>10. ReadingSound(slots', d, r2)
    <3>1. Places(slots', d) = P
      BY <1>1 DEF P
    <3>2. r2.start \subseteq {<<d, i>> : i \in P}
      BY <1>7, <2>5
    <3> QED BY <2>7, <2>8, <2>9, <3>1, <3>2 DEF ReadingSound, m
  <2>11. listing'.node = n /\ listing' = r2 /\ listing = r
    BY <2>5 DEF r2, r
  <2>12. listing'.node \in Nodes' /\ IsDir(listing.node)'
         /\ DirCluster(listing.node)' = d
    BY <1>2, <1>9, <2>11 DEF d
  <2> QED BY <1>10, <2>5, <2>6, <2>10, <2>11, <2>12 DEF ListingInv, Reading
<1> QED
  BY <1>1, <1>11, <1>12, <1>13
\* Every request keeps what a reading goes by.
LEMMA FuseListing ==
    ASSUME Good(fat, slots, open), Good(fat', slots', open'), EntryStep(slots, slots'),
           held = HeldOf(open), ListingInv, FuseNext
    PROVE  ListingInv'
<1>1. unset' \subseteq Entries(slots')
  BY StampsKept DEF ListingInv
<1>2. Observed => ListingInv'
  BY <1>1, ObservedSound
<1>3. Entries(slots') = Entries(slots) /\ UNCHANGED listing => ListingInv'
  BY <1>1, ReadingKept
<1>4. ASSUME NEW p, NEW k,
             Mknod(p, k) \/ FuseMkdir(p, k) \/ Unlink(p, k) \/ FuseRmdir(p, k) \/ Create(p, k)
      PROVE  Observed
  BY <1>4 DEF Mknod, FuseMkdir, Unlink, FuseRmdir, Create
<1>5. ASSUME NEW n \in Nodes, n # RootNode PROVE n \in Locs(slots)
  BY <1>5 DEF Nodes
<1>6. ASSUME NEW n \in Nodes, FuseOpen(n) \/ SetTime(n) PROVE UNCHANGED <<slots, listing>>
  BY <1>6 DEF FuseOpen, SetTime, Open, Fail
<1>7. ASSUME NEW n \in Nodes, NEW size \in Offsets, SetSize(n, size)
      PROVE  Entries(slots') = Entries(slots) /\ UNCHANGED listing
  <2>1. UNCHANGED listing
    BY <1>7 DEF SetSize
  <2>2. CASE n # RootNode /\ (Truncate(n, size) \/ Resize(n, size))
    BY <2>1, <2>2, <1>5, FileStepEntries, ParameterTypes
  <2>3. CASE UNCHANGED slots
    BY <2>1, <2>3
  <2> QED BY <1>7, <2>2, <2>3 DEF SetSize, Fail
<1>8. ASSUME NEW p \in held PROVE LocOf(p[1]) \in Locs(slots)
  <2>1. p[1] \in Handle /\ IsOpen(p[1])
    BY DEF HeldOf, IsOpen
  <2> QED BY <2>1, OpenTypes
<1>9. ASSUME NEW p \in held, NEW offset \in Offsets, NEW len \in Lengths,
             Write(p[1], offset, len)
      PROVE  Entries(slots') = Entries(slots) /\ UNCHANGED listing
  BY <1>8, <1>9, FileStepEntries, ParameterTypes DEF Write
<1>10. ASSUME NEW h, Release(h) PROVE UNCHANGED <<slots, listing>>
  BY <1>10 DEF Release, CloseHandle, Fail
<1>11. ASSUME NEW n \in Nodes, Opendir(n) PROVE ListingInv'
  BY <1>11, OpendirSound
<1>12. ASSUME NEW room \in 1..MaxRoom, Readdir(room) PROVE ListingInv'
  BY <1>12, ReaddirSound
<1>13. UNCHANGED <<slots, listing>> => ListingInv'
  BY <1>3
<1> HIDE DEF ListingInv
<1> QED
  BY <1>2, <1>3, <1>4, <1>6, <1>7, <1>9, <1>10, <1>11, <1>12, <1>13 DEF FuseNext

\* The invariant of what the programs keep: FrontInv, the reading of the directory,
\* and a current directory that is a cluster.
KeptInv ==
    /\ FrontInv /\ (program = "fuse" => ListingInv)
    /\ cwd_cluster \in Cluster /\ cwd_gone \in BOOLEAN

\* A directory the shell is sent to has a cluster.
LEMMA CdCluster ==
    ASSUME Good(fat, slots, open), cwd_path \in Seq(Keys), NEW raw \in RawPath,
           Target(raw).kind = "Directory"
    PROVE  Target(raw).start \in Cluster
<1>1. slots \in Streams /\ StartsSound(slots) /\ StreamsOwned(slots, {})
  BY DEF Good
<1>2. Target(raw) = Route(slots)[Canonical(raw)] /\ Canonical(raw) \in Seq(Keys)
  BY TargetFacts, CanonicalIs
<1>3. Target(raw) \in Points(slots)
  BY <1>1, <1>2, Routes
<1>4. Target(raw).start \in Dirs(slots)
  BY <1>1, <1>3, DirPoint
<1> QED
  BY <1>4, DirsAreHeads, HeadsType DEF Good

\* KeptInv holds whatever requests or commands come.
LEMMA KeptInvariance == FrontSpec => []KeptInv
<1>1. FrontInit => KeptInv
  <2> SUFFICES ASSUME FrontInit PROVE KeptInv
    OBVIOUS
  <2>1. Idle \in ListingType /\ ~Idle.again /\ Idle.status = "idle"
    BY DEF Idle, ListingType
  <2>2. ListingInv
    <3> HIDE DEF Idle
    <3> QED BY <2>1 DEF FrontInit, FuseInit, ListingInv, Reading
  <2>3. Root \in Cluster
    BY TableAssumption DEF Cluster, Root
  <2> QED BY <2>2, <2>3, FrontInitInv DEF KeptInv, FrontInit, ShellInit
<1>2. KeptInv /\ [FrontNext]_frontVars => KeptInv'
  <2> SUFFICES ASSUME KeptInv, [FrontNext]_frontVars PROVE KeptInv'
    OBVIOUS
  <2>1. FrontInv /\ FrontInv' /\ EntryStep(slots, slots')
    BY FrontStepInv DEF KeptInv
  <2>2. CASE program = "fuse" /\ FuseNext /\ UNCHANGED <<shellVars, program>>
    <3>1. ListingInv'
      BY <2>1, <2>2, FuseListing DEF FrontInv, KeptInv
    <3> QED BY <2>1, <2>2, <3>1 DEF KeptInv, shellVars
  <2>3. CASE program = "shell" /\ ShellNext /\ UNCHANGED <<fuseVars, program>>
    <3>1. ASSUME NEW raw \in RawPath, Cd(raw)
          PROVE  cwd_cluster' \in Cluster /\ cwd_gone' \in BOOLEAN
      <4>1. CASE Target(raw).kind = "Directory" /\ cwd_cluster' = Target(raw).start
                 /\ cwd_gone' = FALSE
        BY <2>1, <4>1, CdCluster DEF FrontInv
      <4>2. CASE UNCHANGED shellVars
        BY <4>2 DEF KeptInv, shellVars
      <4> QED BY <3>1, <4>1, <4>2 DEF Cd
    <3>2. Stay => cwd_cluster' \in Cluster /\ cwd_gone' \in BOOLEAN
      BY DEF Stay, KeptInv
    <3>3. cwd_cluster' \in Cluster /\ cwd_gone' \in BOOLEAN
      BY <2>3, <3>1, <3>2 DEF ShellNext, ShellMkdir, ShellCreate, ShellRm, ShellRmdir,
         ShellOpen, ShellHandle, InParent, OnEntry
    <3> QED BY <2>1, <2>3, <3>3 DEF KeptInv
  <2>4. CASE UNCHANGED frontVars
    <3>1. program = "fuse" => ListingInv'
      <4>1. /\ UNCHANGED <<fat, slots, open, unset, held, listing, program>>
        BY <2>4 DEF frontVars, vars, fuseVars
      <4>2. ListingInv => ListingInv'
        BY <4>1 DEF ListingInv, Reading, Nodes, IsDir, DirCluster, Meta, Entry
      <4> QED BY <4>2 DEF KeptInv
    <3> QED BY <2>1, <2>4, <3>1 DEF KeptInv, frontVars, shellVars
  <2> QED BY <2>2, <2>3, <2>4 DEF FrontNext
<1> QED
  BY <1>1, <1>2, PTL DEF FrontSpec

\* Stamps are of occupied entries, handles of locations, a reading of the entries of
\* directories, and the current directory is a path of names with a cluster.
THEOREM FrontTypeCorrect == FrontSpec => []FrontTypeOK
<1>1. KeptInv => FrontTypeOK
  <2> SUFFICES ASSUME KeptInv PROVE FrontTypeOK
    OBVIOUS
  <2>1. FrontInv /\ cwd_path \in Seq(Keys) /\ program \in {"fuse", "shell"}
        /\ Good(fat, slots, open)
    BY DEF KeptInv, FrontInv
  <2>2. \A l : Entry(l) = At(slots, l)
    BY DEF Entry, At
  <2>3. Idle \in ListingType
    BY DEF Idle, ListingType
  <2>4. listing \in ListingType /\ unset \subseteq Entries(slots)
    BY <2>1, <2>3 DEF KeptInv, FrontInv, ListingInv
  <2>5. held \subseteq Handle \X Locs(slots)
    <3>1. CASE program = "fuse"
      <4>1. ASSUME NEW h \in Handle, open[h] # NoFile PROVE Place(open, h) \in Locs(slots)
        <5>1. LocOf(h) \in Locs(slots)
          BY <2>1, <4>1, OpenTypes DEF IsOpen
        <5> QED BY <5>1 DEF LocOf, Place
      <4> QED BY <2>1, <3>1, <4>1 DEF FrontInv, HeldOf
    <3>2. CASE program = "shell"
      BY <2>1, <3>2 DEF FrontInv
    <3> QED BY <2>1, <3>1, <3>2
  <2>6. unset \subseteq {l \in Locs(slots) : Occupied(Entry(l))}
    BY <2>2, <2>4 DEF Entries
  <2>7. listing.status \in {"idle", "reading", "done", "failed"}
        /\ listing.start \cup listing.seen \subseteq Cluster \X Nat
    BY <2>4 DEF ListingType
  <2> QED BY <2>1, <2>5, <2>6, <2>7 DEF FrontTypeOK, KeptInv
<1> QED
  BY <1>1, KeptInvariance, PTL

\* A directory that is read page by page while requests change it is returned whole:
\* when the reading ends, every entry that was there all along has been returned, and
\* none was returned twice unless entries were added meanwhile.
THEOREM ListingsFaithful == FrontSpec => []ListingFaithful
<1>1. KeptInv => ListingFaithful
  BY DEF KeptInv, FrontInv, ListingInv, ListingFaithful, Idle
<1> QED
  BY <1>1, KeptInvariance, PTL
=============================================================================

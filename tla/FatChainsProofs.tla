-------------------------- MODULE FatChainsProofs --------------------------
(***************************************************************************)
(* Lemmas about chains of clusters, for the theorems of FatFs and FatDisk: *)
(* how many clusters some data needs, where a walk along a chain comes to, *)
(* and what allocation, freeing and cutting make of a table.               *)
(***************************************************************************)
EXTENDS FatChains, FiniteSetTheorems, FunctionTheorems, WellFoundedInduction,
        NaturalsInduction, TLAPS

-----------------------------------------------------------------------------
(* Numbers and finite sets.                                                *)

\* What Min returns for a set of numbers: its least member.
LEMMA MinIsLeast ==
    ASSUME NEW S \in SUBSET Nat, S # {}
    PROVE  Min(S) \in S /\ \A x \in S : Min(S) <= x
<1> DEFINE R == {ss \in Nat \X Nat : ss[1] < ss[2]}
<1>1. IsWellFoundedOn(R, Nat)
  BY NatLessThanWellFounded DEF OpToRel
<1>2. PICK m \in S : \A y \in S : ~ (<<y, m>> \in R)
  <2> HIDE DEF R
  <2> QED BY <1>1, WFMin
<1>3. ASSUME NEW y \in S
      PROVE  m <= y
  <2>1. <<y, m>> \notin R
    BY <1>2
  <2>2. y \in Nat /\ m \in Nat
    OBVIOUS
  <2>3. ~ (y < m)
    BY <2>1, <2>2
  <2> QED BY <2>2, <2>3
<1> HIDE DEF R
<1>4. QED
  BY <1>3 DEF Min

\* n different values are n.
LEMMA Injected ==
    ASSUME NEW s, NEW n \in Nat, \A i, j \in 1..n : s[i] = s[j] => i = j
    PROVE  Cardinality({s[i] : i \in 1..n}) = n
<1> DEFINE S == 1..n
           T == {s[i] : i \in S}
           t == [i \in S |-> s[i]]
<1>1. IsFiniteSet(S) /\ Cardinality(S) = n
  <2>1. 1 \in Int /\ n \in Int
    OBVIOUS
  <2>2. IsFiniteSet(1..n) /\ Cardinality(1..n) = IF 1 > n THEN 0 ELSE n - 1 + 1
    BY <2>1, FS_Interval
  <2> QED BY <2>2
<1>2. \A i, j \in S : s[i] = s[j] => i = j
  OBVIOUS
<1> HIDE DEF S
<1>3. t \in Bijection(S, T)
  <2>1. t \in Injection(S, T)
    BY <1>2 DEF Injection, IsInjective
  <2>2. t \in Surjection(S, T)
    BY DEF Surjection
  <2> QED BY <2>1, <2>2 DEF Bijection
<1>4. ExistsBijection(S, T)
  BY <1>3 DEF ExistsBijection
<1> HIDE DEF T
<1>5. Cardinality(T) = n
  BY <1>1, <1>4, FS_Bijection
<1> QED
  BY <1>5 DEF T, S


\* How often m goes into n.
LEMMA DivFacts ==
    ASSUME NEW n \in Nat, NEW m \in Nat \ {0}
    PROVE  /\ n \div m \in Nat /\ (n \div m) * m <= n /\ n < (n \div m) * m + m
           /\ n % m = n - (n \div m) * m /\ n % m \in 0..(m - 1)
  OBVIOUS

\* Division of naturals stays in the naturals.
LEMMA DivType ==
    ASSUME NEW n \in Nat, NEW m \in Nat \ {0}
    PROVE  n \div m \in Nat
  OBVIOUS

\* A larger multiple.
LEMMA TimesMonotone ==
    ASSUME NEW a \in Int, NEW b \in Int, NEW m \in Nat, a <= b
    PROVE  a * m <= b * m /\ a * m \in Int /\ b * m \in Int
  OBVIOUS

\* What is less than n times m has m less than n times.
LEMMA DivBelow ==
    ASSUME NEW x \in Nat, NEW n \in Nat, NEW m \in Nat \ {0}, x < n * m
    PROVE  x \div m < n
<1> DEFINE q == x \div m
<1>1. q \in Nat /\ q * m <= x
  BY DivFacts
<1> HIDE DEF q
<1>2. SUFFICES ASSUME q >= n PROVE FALSE
  BY <1>1 DEF q
<1>3. n * m <= q * m /\ n * m \in Int /\ q * m \in Int
  BY <1>1, <1>2, TimesMonotone
<1> QED
  BY <1>1, <1>3

\* Fewer bytes need no more blocks.
LEMMA DivMonotone ==
    ASSUME NEW x \in Nat, NEW y \in Nat, NEW m \in Nat \ {0}, x <= y
    PROVE  x \div m <= y \div m
<1> DEFINE p == x \div m
           q == y \div m
<1>1. p \in Nat /\ p * m <= x /\ q \in Nat /\ y < q * m + m
  BY DivFacts
<1> HIDE DEF p, q
<1>2. SUFFICES ASSUME p >= q + 1 PROVE FALSE
  BY <1>1 DEF p, q
<1> DEFINE r == q + 1
<1>3. r \in Int /\ r <= p /\ r * m = q * m + m /\ q * m \in Nat
  BY <1>1, <1>2
<1> HIDE DEF r
<1>4. r * m <= p * m /\ r * m \in Int /\ p * m \in Int
  BY <1>1, <1>3, TimesMonotone
<1> QED
  BY <1>1, <1>3, <1>4

\* A product divided by a factor, and a number by one or itself.
LEMMA DivExact ==
    ASSUME NEW n \in Nat, NEW m \in Nat \ {0}
    PROVE  (m * n) % m = 0 /\ (m * n) \div m = n
<1> DEFINE x == m * n
           q == x \div m
<1>1. x \in Nat /\ x = n * m
  OBVIOUS
<1> HIDE DEF x
<1>2. q \in Nat /\ q * m <= x /\ x < q * m + m /\ x % m = x - q * m
  BY <1>1, DivFacts
<1> HIDE DEF q
<1>3. ~(q <= n - 1)
  <2> DEFINE r == q + 1
  <2>1. ASSUME q <= n - 1 PROVE FALSE
    <3>1. r \in Int /\ r <= n /\ r * m = q * m + m /\ q * m \in Int
      BY <1>2, <2>1
    <3> HIDE DEF r
    <3>2. r * m <= n * m /\ r * m \in Int
      BY <3>1, TimesMonotone
    <3> QED BY <1>1, <1>2, <3>1, <3>2
  <2> QED BY <2>1
<1>4. ~(n <= q - 1)
  <2> DEFINE r == n + 1
  <2>1. ASSUME n <= q - 1 PROVE FALSE
    <3>1. r \in Int /\ r <= q /\ r * m = n * m + m /\ n * m \in Int
      BY <1>2, <2>1
    <3> HIDE DEF r
    <3>2. r * m <= q * m /\ r * m \in Int /\ q * m \in Int
      BY <1>2, <3>1, TimesMonotone
    <3> QED BY <1>1, <1>2, <3>1, <3>2
  <2> QED BY <2>1
<1>5. q = n
  BY <1>2, <1>3, <1>4
<1>6. x % m = 0
  BY <1>1, <1>2, <1>5
<1> QED
  BY <1>5, <1>6 DEF q, x

\* Division by one and by the number itself.
LEMMA DivTrivial ==
    ASSUME NEW n \in Nat
    PROVE  n % 1 = 0 /\ n \div 1 = n /\ (n # 0 => n \div n = 1 /\ n % n = 0)
<1>1. n % 1 = 0 /\ n \div 1 = n
  OBVIOUS
<1>2. ASSUME n # 0 PROVE n \div n = 1 /\ n % n = 0
  <2> DEFINE one == 1
  <2>1. one \in Nat /\ n \in Nat \ {0}
    BY <1>2
  <2> HIDE DEF one
  <2>2. (n * one) % n = 0 /\ (n * one) \div n = one
    BY <2>1, DivExact
  <2>3. n * one = n
    BY DEF one
  <2> QED BY <2>2, <2>3 DEF one
<1> QED
  BY <1>1, <1>2

\* As many as CeilDiv says are enough.
LEMMA CeilDivFacts ==
    ASSUME NEW n \in Nat, NEW m \in Nat \ {0}
    PROVE  CeilDiv(n, m) \in Nat /\ CeilDiv(n, m) * m >= n /\ CeilDiv(n, m) * m < n + m
<1> DEFINE k == n + m - 1
           q == k \div m
<1>1. k \in Nat /\ k = n + m - 1
  OBVIOUS
<1> HIDE DEF k
<1>2. q \in Nat /\ q * m <= k /\ k < q * m + m
  BY <1>1, DivFacts
<1>3. CeilDiv(n, m) = q
  BY DEF CeilDiv, k
<1> HIDE DEF q
<1>4. q * m \in Nat
  BY <1>2
<1> QED
  BY <1>1, <1>2, <1>3, <1>4

\* The clusters are numbers from 2 on, finitely many, and neither mark is one.
LEMMA ClusterFacts ==
    /\ Root \in Cluster /\ Cluster \subseteq Nat
    /\ FREE \notin Cluster /\ EOC \notin Cluster /\ FREE # EOC
    /\ IsFiniteSet(Cluster)
<1>1. IsFiniteSet(Cluster)
  BY FS_Interval, TableAssumption DEF Cluster, Root
<1> QED
  BY <1>1, TableAssumption DEF Cluster, Root, FREE, EOC

\* A set of clusters is finite, and Min returns a member of it.
LEMMA FiniteClusters ==
    ASSUME NEW S \in SUBSET Cluster
    PROVE  IsFiniteSet(S) /\ Cardinality(S) \in Nat /\ (S # {} => Min(S) \in S)
<1>1. IsFiniteSet(S)
  BY ClusterFacts, FS_Subset
<1>2. S \in SUBSET Nat
  BY ClusterFacts
<1> QED
  BY <1>1, <1>2, FS_CardinalityType, MinIsLeast

\* A set of clusters has a greatest member.
LEMMA Greatest ==
    ASSUME NEW P \in SUBSET Cluster, P # {}
    PROVE  \E p \in P : \A q \in P : q <= p
<1> DEFINE D == {MaxCluster - y : y \in P}
<1>0. MaxCluster \in Nat /\ \A y \in P : y \in Nat /\ y <= MaxCluster
  BY TableAssumption DEF Cluster, Root
<1>1. D \in SUBSET Nat /\ D # {}
  BY <1>0
<1>2. PICK d \in D : \A x \in D : d <= x
  <2> HIDE DEF D
  <2> QED BY <1>1, MinIsLeast
<1>3. PICK p \in P : d = MaxCluster - p
  BY <1>2
<1>4. ASSUME NEW q \in P PROVE q <= p
  <2>1. d <= MaxCluster - q
    BY <1>2
  <2> QED BY <2>1, <1>0, <1>3
<1> QED
  BY <1>3, <1>4
-----------------------------------------------------------------------------
(* Sequences that are built from their first part and their last element.  *)

\* Taking a sequence apart and putting it together.
LEMMA FrontLast ==
    ASSUME NEW A
    PROVE  /\ \A p \in Seq(A) : p # <<>> =>
                 /\ Front(p) \in Seq(A) /\ Last(p) \in A
                 /\ p = Append(Front(p), Last(p)) /\ Len(Front(p)) = Len(p) - 1
           /\ \A p \in Seq(A), x \in A :
                 /\ Append(p, x) \in Seq(A) /\ Append(p, x) # <<>>
                 /\ Front(Append(p, x)) = p /\ Last(Append(p, x)) = x
<1>1. ASSUME NEW p \in Seq(A), p # <<>>
      PROVE  /\ Front(p) \in Seq(A) /\ Last(p) \in A
             /\ p = Append(Front(p), Last(p)) /\ Len(Front(p)) = Len(p) - 1
  <2>1. Len(p) \in Nat /\ Len(p) >= 1 /\ DOMAIN p = 1..Len(p) /\ \A i \in 1..Len(p) : p[i] \in A
    BY <1>1
  <2>2. /\ Front(p) \in Seq(A) /\ Len(Front(p)) = Len(p) - 1
        /\ \A i \in 1..(Len(p) - 1) : Front(p)[i] = p[i]
    BY <2>1 DEF Front
  <2>3. Last(p) = p[Len(p)] /\ Last(p) \in A
    BY <2>1 DEF Last
  <2>4. p = Append(Front(p), Last(p))
    <3> DEFINE N == Len(p)
               q == Front(p)
               x == Last(p)
               r == Append(q, x)
    <3>1. /\ q \in Seq(A) /\ Len(q) = N - 1 /\ x \in A /\ x = p[N] /\ N \in Nat \ {0}
          /\ \A i \in 1..(N - 1) : q[i] = p[i]
      BY <2>1, <2>2, <2>3
    <3> HIDE DEF q, x, N
    <3>2. Len(r) = Len(q) + 1 /\ r[Len(q) + 1] = x /\ \A i \in 1..Len(q) : r[i] = q[i]
      BY <3>1
    <3>3. r \in Seq(A)
      BY <3>1
    <3> HIDE DEF r
    <3>4. Len(r) = N /\ r[N] = x
      BY <3>1, <3>2
    <3>5. ASSUME NEW i \in 1..N PROVE r[i] = p[i]
      <4>1. i = N \/ i \in 1..(N - 1)
        BY <3>1
      <4>2. CASE i = N
        BY <4>2, <3>1, <3>4
      <4>3. CASE i \in 1..(N - 1)
        BY <4>3, <3>1, <3>2
      <4> QED BY <4>1, <4>2, <4>3
    <3>6. p = r
      <4>1. p \in Seq(A) /\ Len(p) = N
        BY DEF N
      <4> QED BY <4>1, <3>3, <3>4, <3>5
    <3> QED BY <3>6 DEF q, x, r
  <2> QED BY <2>2, <2>3, <2>4
<1>2. ASSUME NEW p \in Seq(A), NEW x \in A
      PROVE  /\ Append(p, x) \in Seq(A) /\ Append(p, x) # <<>>
             /\ Front(Append(p, x)) = p /\ Last(Append(p, x)) = x
  <2> DEFINE q == Append(p, x)
  <2>1. /\ q \in Seq(A) /\ Len(q) = Len(p) + 1 /\ Len(p) \in Nat /\ q[Len(p) + 1] = x
        /\ \A i \in 1..Len(p) : q[i] = p[i]
    OBVIOUS
  <2> HIDE DEF q
  <2>2. q # <<>>
    BY <2>1
  <2>3. Len(SubSeq(q, 1, Len(p))) = Len(p)
        /\ \A i \in 1..Len(p) : SubSeq(q, 1, Len(p))[i] = p[i]
        /\ SubSeq(q, 1, Len(p)) \in Seq(A)
    BY <2>1
  <2>4. SubSeq(q, 1, Len(p)) = p
    BY <2>3
  <2>5. Front(q) = p
    BY <2>1, <2>4 DEF Front
  <2>6. Last(q) = x
    BY <2>1 DEF Last
  <2> QED BY <2>1, <2>2, <2>5, <2>6 DEF q
<1> QED
  BY <1>1, <1>2

\* A set that has the empty sequence and, with a sequence, those one longer has
\* every sequence.
LEMMA EverySequence ==
    ASSUME NEW A, NEW T, <<>> \in T,
           \A p \in Seq(A), x \in A : p \in T => Append(p, x) \in T
    PROVE  \A p \in Seq(A) : p \in T
<1> DEFINE L == {Len(p) : p \in {q \in Seq(A) : q \notin T}}
<1>1. SUFFICES ASSUME L # {} PROVE FALSE
  OBVIOUS
<1>2. L \in SUBSET Nat
  OBVIOUS
<1>3. PICK n \in L : \A m \in L : n <= m
  <2> HIDE DEF L
  <2> QED BY <1>1, <1>2, MinIsLeast
<1>4. PICK p \in Seq(A) : p \notin T /\ Len(p) = n
  BY <1>3
<1>5. p # <<>>
  BY <1>4
<1>6. /\ Front(p) \in Seq(A) /\ Last(p) \in A
      /\ p = Append(Front(p), Last(p)) /\ Len(Front(p)) = Len(p) - 1
  BY <1>4, <1>5, FrontLast
<1>7. Front(p) \notin T
  BY <1>4, <1>6
<1>8. Len(Front(p)) \in L
  BY <1>6, <1>7
<1>9. n <= n - 1 /\ n \in Nat
  BY <1>3, <1>4, <1>6, <1>8
<1> QED
  BY <1>9

\* Some function of sequences makes a of the empty one, and of a longer one what g
\* makes of its first part's value and of its last element.
Iterates(A, S, a, g) ==
    \E F \in [Seq(A) -> S] : \A p \in Seq(A) :
        F[p] = IF p = <<>> THEN a ELSE g[<<F[Front(p)], Last(p)>>]

\* For any a and g there is such a function.
LEMMA Iterated ==
    ASSUME NEW A, NEW S, NEW a \in S, NEW g \in [S \X A -> S]
    PROVE  Iterates(A, S, a, g)
<1> DEFINE Run(p, h) == /\ h \in [0..Len(p) -> S] /\ h[0] = a
                        /\ \A n \in 1..Len(p) : h[n] = g[<<h[n - 1], p[n]>>]
           T == {p \in Seq(A) : \E h : Run(p, h)}
           U == {p \in Seq(A) : \A h, k : Run(p, h) /\ Run(p, k) => h[Len(p)] = k[Len(p)]}
           Part(h, p) == [n \in 0..Len(p) |-> h[n]]
\* A run along a longer sequence begins with one along its first part.
<1>1. ASSUME NEW p \in Seq(A), NEW x \in A, NEW h, Run(Append(p, x), h)
      PROVE  /\ Run(p, Part(h, p)) /\ Part(h, p)[Len(p)] \in S
             /\ h[Len(Append(p, x))] = g[<<Part(h, p)[Len(p)], x>>]
  <2> DEFINE N == Len(p)
             r == Append(p, x)
             q == Part(h, p)
  <2>1. N \in Nat /\ Len(r) = N + 1 /\ r[N + 1] = x /\ \A i \in 1..N : r[i] = p[i]
    OBVIOUS
  <2>2. h \in [0..Len(r) -> S] /\ h[0] = a /\ \A n \in 1..Len(r) : h[n] = g[<<h[n - 1], r[n]>>]
    BY <1>1
  <2>3. q = [n \in 0..N |-> h[n]]
    OBVIOUS
  <2>4. Run(p, q) <=> /\ q \in [0..N -> S] /\ q[0] = a
                      /\ \A n \in 1..N : q[n] = g[<<q[n - 1], p[n]>>]
    OBVIOUS
  <2> HIDE DEF q, N, r, Run, Part
  <2>5. /\ N \in Nat /\ N + 1 \in 1..(N + 1) /\ N + 1 - 1 = N /\ 0 \in 0..N /\ N \in 0..N
        /\ \A n \in 0..N : n \in 0..(N + 1)
        /\ \A n \in 1..N : n \in 1..(N + 1) /\ n \in 0..N /\ n - 1 \in 0..N
    BY <2>1
  <2>6. \A n \in 0..N : h[n] \in S /\ q[n] = h[n]
    BY <2>1, <2>2, <2>3, <2>5
  <2>7. q \in [0..N -> S] /\ q[0] = a /\ q[N] = h[N] /\ q[N] \in S
    <3>1. q \in [0..N -> S]
      BY <2>3, <2>6
    <3> QED BY <3>1, <2>2, <2>5, <2>6
  <2>8. ASSUME NEW n \in 1..N PROVE q[n] = g[<<q[n - 1], p[n]>>]
    <3>1. h[n] = g[<<h[n - 1], r[n]>>]
      BY <2>1, <2>2, <2>5
    <3>2. r[n] = p[n]
      BY <2>1
    <3>3. q[n] = h[n] /\ q[n - 1] = h[n - 1]
      BY <2>5, <2>6
    <3> QED BY <3>1, <3>2, <3>3
  <2>9. h[Len(r)] = g[<<h[N], x>>]
    <3> DEFINE n == N + 1
    <3>1. n \in 1..n /\ n - 1 = N /\ n = Len(r)
      BY <2>1
    <3> HIDE DEF n
    <3>2. h[n] = g[<<h[n - 1], r[n]>>]
      BY <3>1, <2>2
    <3>3. r[n] = x
      BY <2>1 DEF n
    <3> QED BY <3>1, <3>2, <3>3
  <2> QED BY <2>4, <2>7, <2>8, <2>9 DEF N, r, q
<1>2. ASSUME NEW p \in Seq(A), NEW x \in A, NEW h, Run(p, h)
      PROVE  \E k : Run(Append(p, x), k)
  <2> DEFINE N == Len(p)
             q == Append(p, x)
             y == g[<<h[N], x>>]
             k == [n \in 0..(N + 1) |-> IF n = N + 1 THEN y ELSE h[n]]
  <2>1. N \in Nat /\ Len(q) = N + 1 /\ q[N + 1] = x /\ \A i \in 1..N : q[i] = p[i]
    OBVIOUS
  <2>2. h \in [0..N -> S] /\ h[0] = a /\ \A n \in 1..N : h[n] = g[<<h[n - 1], p[n]>>]
    BY <1>2
  <2>3. \A m : Run(q, m) <=> /\ m \in [0..Len(q) -> S] /\ m[0] = a
                             /\ \A n \in 1..Len(q) : m[n] = g[<<m[n - 1], q[n]>>]
    OBVIOUS
  <2> HIDE DEF N, q, Run
  <2>4. /\ N \in Nat /\ 0 \in 0..N /\ N \in 0..N /\ N # N + 1 /\ 0 # N + 1
        /\ \A n \in 0..(N + 1) : n # N + 1 => n \in 0..N
        /\ \A n \in 1..(N + 1) : /\ n \in 0..(N + 1) /\ n - 1 \in 0..(N + 1)
              /\ n # N + 1 => n \in 1..N /\ n - 1 # N + 1
    BY <2>1
  <2>5. y \in S /\ \A n \in 0..N : h[n] \in S
    BY <2>2, <2>4
  <2>6. /\ DOMAIN k = 0..(N + 1) /\ k = [n \in 0..(N + 1) |-> k[n]]
        /\ \A n \in 0..(N + 1) : k[n] = IF n = N + 1 THEN y ELSE h[n]
    OBVIOUS
  <2>7. y = g[<<h[N], x>>]
    OBVIOUS
  <2> HIDE DEF k, y
  <2>8. k \in [0..(N + 1) -> S] /\ k[0] = a
    <3>1. \A n \in 0..(N + 1) : k[n] \in S
      BY <2>4, <2>5, <2>6
    <3>2. 0 \in 0..(N + 1)
      BY <2>1
    <3>3. k[0] = h[0]
      BY <3>2, <2>4, <2>6
    <3> QED BY <3>1, <3>3, <2>2, <2>6
  <2>9. ASSUME NEW n \in 1..(N + 1) PROVE k[n] = g[<<k[n - 1], q[n]>>]
    <3>1. n \in 0..(N + 1) /\ n - 1 \in 0..(N + 1)
      BY <2>4
    <3>2. CASE n = N + 1
      <4>1. n - 1 = N
        BY <3>2, <2>1
      <4>2. k[n] = y /\ k[n - 1] = h[N] /\ q[n] = x
        BY <2>1, <2>4, <2>6, <3>1, <3>2, <4>1
      <4> QED BY <4>2, <2>7
    <3>3. CASE n # N + 1
      <4>1. n \in 1..N /\ n - 1 # N + 1
        BY <2>4, <3>3
      <4>2. k[n] = h[n] /\ k[n - 1] = h[n - 1]
        BY <2>6, <3>1, <3>3, <4>1
      <4>3. q[n] = p[n] /\ h[n] = g[<<h[n - 1], p[n]>>]
        BY <2>1, <2>2, <4>1
      <4> QED BY <4>2, <4>3
    <3> QED BY <3>2, <3>3
  <2>10. Run(q, k)
    BY <2>1, <2>3, <2>8, <2>9
  <2> QED BY <2>10 DEF q
<1>3. \A p \in Seq(A) : \E h : Run(p, h)
  <2>1. <<>> \in T
    <3> DEFINE h == [n \in 0..0 |-> a]
    <3>1. Len(<<>>) = 0 /\ <<>> \in Seq(A) /\ 1..0 = {} /\ 0 \in 0..0
      OBVIOUS
    <3>2. h \in [0..0 -> S] /\ h[0] = a
      BY <3>1
    <3> HIDE DEF h
    <3>3. Run(<<>>, h)
      BY <3>1, <3>2
    <3> HIDE DEF Run
    <3> QED BY <3>1, <3>3
  <2>2. \A p \in Seq(A), x \in A : p \in T => Append(p, x) \in T
    <3> HIDE DEF Run
    <3> QED BY <1>2, FrontLast
  <2> HIDE DEF T
  <2>3. \A p \in Seq(A) : p \in T
    BY <2>1, <2>2, EverySequence
  <2> QED BY <2>3 DEF T
<1>4. \A p \in Seq(A) : \A h, k : Run(p, h) /\ Run(p, k) => h[Len(p)] = k[Len(p)]
  <2>1. <<>> \in U
    <3>1. Len(<<>>) = 0 /\ <<>> \in Seq(A)
      OBVIOUS
    <3>2. \A h : Run(<<>>, h) => h[0] = a
      OBVIOUS
    <3> HIDE DEF Run
    <3> QED BY <3>1, <3>2
  <2>2. ASSUME NEW p \in Seq(A), NEW x \in A, p \in U,
               NEW h, NEW k, Run(Append(p, x), h), Run(Append(p, x), k)
        PROVE  h[Len(Append(p, x))] = k[Len(Append(p, x))]
    <3> HIDE DEF Run, Part
    <3>1. /\ Run(p, Part(h, p)) /\ h[Len(Append(p, x))] = g[<<Part(h, p)[Len(p)], x>>]
          /\ Run(p, Part(k, p)) /\ k[Len(Append(p, x))] = g[<<Part(k, p)[Len(p)], x>>]
      BY <1>1, <2>2
    <3> QED BY <3>1, <2>2
  <2>3. \A p \in Seq(A), x \in A : p \in U => Append(p, x) \in U
    <3> HIDE DEF Run
    <3> QED BY <2>2, FrontLast
  <2> HIDE DEF U
  <2>4. \A p \in Seq(A) : p \in U
    BY <2>1, <2>3, EverySequence
  <2> QED BY <2>4 DEF U
<1> DEFINE R(p) == CHOOSE h : Run(p, h)
           F == [p \in Seq(A) |-> R(p)[Len(p)]]
<1>5. \A p \in Seq(A) : Run(p, R(p))
  <2> HIDE DEF Run
  <2> QED BY <1>3
<1> HIDE DEF R
<1>6. F \in [Seq(A) -> S]
  <2>1. ASSUME NEW p \in Seq(A) PROVE R(p)[Len(p)] \in S
    <3>1. R(p) \in [0..Len(p) -> S]
      BY <1>5
    <3>2. Len(p) \in 0..Len(p)
      OBVIOUS
    <3> QED BY <3>1, <3>2
  <2> QED BY <2>1
<1>7. ASSUME NEW p \in Seq(A)
      PROVE  F[p] = IF p = <<>> THEN a ELSE g[<<F[Front(p)], Last(p)>>]
  <2>1. CASE p = <<>>
    BY <2>1, <1>5
  <2>2. CASE p # <<>>
    <3> DEFINE q == Front(p)
               x == Last(p)
    <3>1. q \in Seq(A) /\ x \in A /\ p = Append(q, x)
      BY <2>2, FrontLast
    <3> HIDE DEF q, x, Run, Part
    <3>2. Run(q, Part(R(p), q)) /\ R(p)[Len(p)] = g[<<Part(R(p), q)[Len(q)], x>>]
      BY <3>1, <1>1, <1>5
    <3>3. R(q)[Len(q)] = Part(R(p), q)[Len(q)]
      BY <3>1, <3>2, <1>4, <1>5
    <3> QED BY <3>1, <3>2, <3>3, <2>2 DEF q, x
  <2> QED BY <2>1, <2>2
<1> HIDE DEF F
<1> QED
  BY <1>6, <1>7 DEF Iterates

-----------------------------------------------------------------------------
(* Ascending.                                                              *)

\* How many members of S are less than x.
Rank(S, x) == Cardinality({y \in S : y < x})

\* Ascending puts each member where its rank says.
LEMMA Ranks ==
    ASSUME NEW S \in SUBSET Nat, IsFiniteSet(S)
    PROVE  LET asc == Ascending(S)
               m == Cardinality(S)
           IN  /\ m \in Nat /\ DOMAIN asc = 1..m
               /\ \A i \in 1..m : asc[i] \in S /\ Rank(S, asc[i]) = i - 1
               /\ \A x \in S : Rank(S, x) + 1 \in 1..m /\ asc[Rank(S, x) + 1] = x
               /\ \A x, y \in S : x < y => Rank(S, x) < Rank(S, y)
               /\ \A x, y \in S : Rank(S, x) = Rank(S, y) => x = y
<1> DEFINE asc == Ascending(S)
           m == Cardinality(S)
           Less(x) == {y \in S : y < x}
           R == [x \in S |-> Rank(S, x) + 1]
<1>1. m \in Nat /\ S \subseteq Nat
  BY FS_CardinalityType
<1>2. \A x : Less(x) \subseteq S /\ IsFiniteSet(Less(x)) /\ Rank(S, x) \in Nat
                /\ Rank(S, x) = Cardinality(Less(x))
  <2>1. \A x : Less(x) \subseteq S /\ Rank(S, x) = Cardinality(Less(x))
    BY DEF Rank
  <2> HIDE DEF Less
  <2> QED BY <2>1, FS_Subset, FS_CardinalityType
<1>21. \A x : Rank(S, x) \in Nat
  BY <1>2
<1>3. ASSUME NEW x \in S, NEW y \in S, x < y
      PROVE  Rank(S, x) < Rank(S, y)
  <2>1. x \notin Less(x) /\ Less(x) \cup {x} \subseteq Less(y)
    <3>1. \A z \in S : z \in Nat
      BY <1>1
    <3>2. x \in Nat /\ y \in Nat /\ ~(x < x) /\ \A z \in Nat : z < x => z < y
      BY <1>1, <1>3
    <3> QED BY <1>3, <3>1, <3>2
  <2> HIDE DEF Less
  <2>2. Cardinality(Less(x) \cup {x}) = Rank(S, x) + 1
    BY <1>2, <2>1, FS_AddElement
  <2>3. Cardinality(Less(x) \cup {x}) <= Rank(S, y)
    BY <1>2, <2>1, FS_Subset
  <2> QED BY <1>2, <2>2, <2>3
<1>4. ASSUME NEW x \in S PROVE Rank(S, x) + 1 \in 1..m
  <2>1. x \notin Less(x) /\ Less(x) \cup {x} \subseteq S
    BY <1>1
  <2> HIDE DEF Less
  <2>2. Cardinality(Less(x) \cup {x}) = Rank(S, x) + 1
    BY <1>2, <2>1, FS_AddElement
  <2>3. Cardinality(Less(x) \cup {x}) <= m
    BY <1>1, <2>1, FS_Subset
  <2> QED BY <1>1, <1>2, <2>2, <2>3
<1>5. ASSUME NEW x \in S, NEW y \in S, Rank(S, x) = Rank(S, y)
      PROVE  x = y
  <2>1. x < y \/ y < x \/ x = y
    BY <1>1
  <2>2. ~(x < y) /\ ~(y < x)
    BY <1>21, <1>3, <1>5
  <2> QED BY <2>1, <2>2
<1>6. \A i \in 1..m : \E x \in S : Rank(S, x) = i - 1
  <2> DEFINE T == 1..m
  <2>1. IsFiniteSet(T) /\ Cardinality(T) = m
    <3>1. 1 \in Int /\ m \in Int
      BY <1>1
    <3>2. IsFiniteSet(1..m) /\ Cardinality(1..m) = IF 1 > m THEN 0 ELSE m - 1 + 1
      BY <3>1, FS_Interval
    <3> QED BY <1>1, <3>2
  <2>2. R \in [S -> T]
    BY <1>4
  <2>3. \A x, y \in S : R[x] = R[y] => x = y
    <3>1. \A x \in S : R[x] = Rank(S, x) + 1
      OBVIOUS
    <3> HIDE DEF R
    <3>2. \A x, y \in S : R[x] = R[y] => Rank(S, x) = Rank(S, y)
      BY <1>21, <3>1
    <3> QED BY <1>5, <3>2
  <2>4. R \in Injection(S, T)
    BY <2>2, <2>3 DEF Injection, IsInjective
  <2> HIDE DEF R, T
  <2>5. R \in Surjection(S, T)
    BY <1>1, <2>1, <2>4, FS_Injection
  <2>6. \A i \in T : \E x \in S : R[x] = i
    BY <2>5 DEF Surjection
  <2>7. \A x \in S : R[x] = Rank(S, x) + 1
    BY DEF R
  <2> QED BY <1>21, <2>6, <2>7 DEF T
<1>7. /\ DOMAIN asc = 1..m
      /\ \A i \in 1..m : asc[i] = CHOOSE x \in S : Rank(S, x) = i - 1
  BY DEF Ascending, Rank
<1> HIDE DEF asc
<1>8. \A i \in 1..m : asc[i] \in S /\ Rank(S, asc[i]) = i - 1
  BY <1>6, <1>7
<1>9. ASSUME NEW x \in S PROVE asc[Rank(S, x) + 1] = x
  <2> DEFINE i == Rank(S, x) + 1
  <2>1. i \in 1..m /\ i - 1 = Rank(S, x)
    BY <1>21, <1>4
  <2> HIDE DEF i
  <2>2. asc[i] \in S /\ Rank(S, asc[i]) = Rank(S, x)
    BY <2>1, <1>8
  <2>3. asc[i] = x
    BY <2>2, <1>5
  <2> QED BY <2>3 DEF i
<1> QED
  BY <1>1, <1>3, <1>4, <1>5, <1>7, <1>8, <1>9 DEF asc
-----------------------------------------------------------------------------
(* Chains.                                                                 *)

\* The recursive function in Chain: the k-th cluster of a walk from h.
IsWalk(f, h, at) ==
    at = [k \in 0..MaxCluster |-> IF k = 0 THEN h ELSE Follow(f)[at[k - 1]]]
Walk(f, h) == CHOOSE at : IsWalk(f, h, at)
WalkLen(f, h) == Cardinality({k \in 0..MaxCluster : Walk(f, h)[k] \in Cluster})

\* A chain is the first steps of a walk.
LEMMA ChainIsWalk ==
    ASSUME NEW f, NEW h
    PROVE  Chain(f, h) = [i \in 1..WalkLen(f, h) |-> Walk(f, h)[i - 1]]
BY DEF Chain, WalkLen, Walk, IsWalk

\* The length of a chain is a number.
LEMMA WalkLenType ==
    ASSUME NEW f, NEW h
    PROVE  WalkLen(f, h) \in 0..(MaxCluster + 1)
<1> DEFINE S == {k \in 0..MaxCluster : Walk(f, h)[k] \in Cluster}
<1>1. IsFiniteSet(0..MaxCluster) /\ Cardinality(0..MaxCluster) = MaxCluster + 1
  BY FS_Interval, TableAssumption
<1>2. Cardinality(S) <= MaxCluster + 1 /\ Cardinality(S) \in Nat
  BY <1>1, FS_Subset, FS_CardinalityType
<1> QED
  BY <1>2, TableAssumption DEF WalkLen

\* A walk exists, stays among FAT entries and follows the links.
LEMMA WalkFacts ==
    ASSUME NEW f \in [Cluster -> FatEntry], NEW h \in FatEntry
    PROVE  /\ Walk(f, h) \in [0..MaxCluster -> FatEntry]
           /\ Walk(f, h)[0] = h
           /\ \A k \in 1..MaxCluster : Walk(f, h)[k] = Follow(f)[Walk(f, h)[k - 1]]
<1> DEFINE Step(g, k) == g[k] = Follow(f)[g[k - 1]]
           Partial(g, n) == /\ g \in [0..n -> FatEntry] /\ g[0] = h
                            /\ \A k \in 1..n : Step(g, k)
           S == {n \in 0..MaxCluster : ~ \E g : Partial(g, n)}
<1>0. MaxCluster \in Nat
  BY TableAssumption
<1>1. \A x \in FatEntry : Follow(f)[x] \in FatEntry
  BY ClusterFacts DEF Follow, FatEntry
<1>2. S = {}
  <2>1. SUFFICES ASSUME S # {} PROVE FALSE
    OBVIOUS
  <2>2. PICK m \in S : \A x \in S : m <= x
    <3>1. S \in SUBSET Nat
      BY <1>0
    <3> HIDE DEF S
    <3> QED BY <2>1, <3>1, MinIsLeast
  <2>3. CASE m = 0
    <3>1. Partial([k \in 0..0 |-> h], 0)
      OBVIOUS
    <3> QED BY <2>2, <2>3, <3>1
  <2>4. CASE m # 0
    <3>1. m - 1 \in 0..MaxCluster /\ ~ (m <= m - 1)
      BY <2>2, <2>4, <1>0
    <3>2. m - 1 \notin S
      BY <2>2, <3>1
    <3>3. PICK g : Partial(g, m - 1)
      BY <3>1, <3>2
    <3> DEFINE g1 == [k \in 0..m |-> IF k = m THEN Follow(f)[g[m - 1]] ELSE g[k]]
    <3>4. g[m - 1] \in FatEntry
      BY <3>1, <3>3
    <3>5. g1 \in [0..m -> FatEntry] /\ g1[0] = h
      BY <3>1, <3>3, <3>4, <1>1, <2>4, <1>0
    <3>6. ASSUME NEW k \in 1..m
          PROVE  Step(g1, k)
      <4>1. CASE k = m
        BY <4>1, <1>0, <2>4
      <4>2. CASE k # m
        <5>1. k \in 1..(m - 1) /\ k \in 0..m /\ k - 1 \in 0..m /\ k - 1 # m
          BY <4>2, <1>0
        <5> QED BY <4>2, <5>1, <3>3
      <4> QED BY <4>1, <4>2
    <3>7. Partial(g1, m)
      BY <3>5, <3>6
    <3> QED BY <3>7, <2>2
  <2> QED BY <2>3, <2>4
<1>3. PICK g : Partial(g, MaxCluster)
  BY <1>2, <1>0
<1>4. IsWalk(f, h, g)
  <2> DEFINE w == [k \in 0..MaxCluster |-> IF k = 0 THEN h ELSE Follow(f)[g[k - 1]]]
  <2>1. \A k \in 0..MaxCluster : g[k] = w[k]
    BY <1>3, <1>0
  <2>2. g = w
    BY <2>1, <1>3
  <2> QED BY <2>2 DEF IsWalk
<1> DEFINE W == Walk(f, h)
<1>5. IsWalk(f, h, W)
  BY <1>4 DEF Walk
<1> HIDE DEF W
<1>6. /\ W[0] = h
      /\ \A k \in 1..MaxCluster : W[k] = Follow(f)[W[k - 1]]
      /\ DOMAIN W = 0..MaxCluster
      /\ W = [k \in 0..MaxCluster |-> W[k]]
  BY <1>5, <1>0 DEF IsWalk
<1>7. \A k \in 0..MaxCluster : W[k] \in FatEntry
  <2> DEFINE B == {k \in 0..MaxCluster : W[k] \notin FatEntry}
  <2>1. SUFFICES ASSUME B # {} PROVE FALSE
    OBVIOUS
  <2>2. PICK m \in B : \A x \in B : m <= x
    <3>1. B \in SUBSET Nat
      BY <1>0
    <3> HIDE DEF B
    <3> QED BY <2>1, <3>1, MinIsLeast
  <2>3. m # 0
    BY <2>2, <1>6
  <2>4. m - 1 \in 0..MaxCluster /\ ~ (m <= m - 1) /\ m \in 1..MaxCluster
    BY <2>2, <2>3, <1>0
  <2>5. W[m - 1] \in FatEntry
    BY <2>2, <2>4
  <2> QED BY <2>2, <2>4, <2>5, <1>1, <1>6
<1> QED
  BY <1>6, <1>7 DEF W

\* The steps of a walk that are at clusters are the first ones.
LEMMA WalkPrefix ==
    ASSUME NEW f \in [Cluster -> FatEntry], NEW h \in FatEntry
    PROVE  \A k \in 0..MaxCluster : k < WalkLen(f, h) <=> Walk(f, h)[k] \in Cluster
<1> DEFINE W == Walk(f, h)
           In == {k \in 0..MaxCluster : W[k] \in Cluster}
           Out == (0..(MaxCluster + 1)) \ In
<1>0. MaxCluster \in Nat
  BY TableAssumption
<1>1. /\ W \in [0..MaxCluster -> FatEntry]
      /\ \A k \in 1..MaxCluster : W[k] = Follow(f)[W[k - 1]]
  BY WalkFacts
<1>2. WalkLen(f, h) = Cardinality(In)
  BY DEF WalkLen
<1> HIDE DEF W
<1>3. PICK m \in Out : \A k \in Out : m <= k
  <2>1. Out \in SUBSET Nat /\ MaxCluster + 1 \in Out
    BY <1>0
  <2> HIDE DEF Out
  <2> QED BY <2>1, MinIsLeast
<1>4. m \in 0..(MaxCluster + 1)
  OBVIOUS
<1>5. \A k \in 0..MaxCluster : k < m => k \in In
  BY <1>0, <1>3, <1>4
<1>6. \A k \in 0..MaxCluster : k >= m => k \notin In
  <2> DEFINE B == {k \in 0..MaxCluster : k >= m /\ k \in In}
  <2>1. SUFFICES ASSUME B # {} PROVE FALSE
    OBVIOUS
  <2>2. PICK b \in B : \A k \in B : b <= k
    <3>1. B \in SUBSET Nat
      BY <1>0
    <3> HIDE DEF B
    <3> QED BY <2>1, <3>1, MinIsLeast
  <2>3. b # m
    BY <2>2, <1>3
  <2>4. b \in 1..MaxCluster /\ b - 1 \in 0..MaxCluster /\ b - 1 >= m /\ ~ (b <= b - 1)
    BY <2>2, <2>3, <1>0, <1>4
  <2>5. W[b - 1] \in FatEntry /\ W[b - 1] \notin Cluster
    BY <2>2, <2>4, <1>1
  <2>6. W[b] \notin Cluster
    BY <2>4, <2>5, <1>1 DEF Follow
  <2> QED BY <2>2, <2>6
<1>7. In = 0..(m - 1)
  BY <1>0, <1>4, <1>5, <1>6
<1>8. Cardinality(0..(m - 1)) = m
  <2>1. 0 \in Int /\ m - 1 \in Int
    BY <1>0, <1>4
  <2>2. Cardinality(0..(m - 1)) = IF 0 > m - 1 THEN 0 ELSE (m - 1) - 0 + 1
    BY <2>1, FS_Interval
  <2> QED BY <2>2, <1>0, <1>4
<1>9. WalkLen(f, h) = m
  BY <1>2, <1>7, <1>8
<1> QED
  BY <1>0, <1>4, <1>5, <1>6, <1>9 DEF W

\* A chain starts at its head, and each cluster in it is where the one before leads.
LEMMA ChainFacts ==
    ASSUME NEW f \in [Cluster -> FatEntry], NEW h \in Cluster \cup {FREE}
    PROVE  /\ Chain(f, h) \in Seq(FatEntry) /\ Len(Chain(f, h)) \in Nat
           /\ h = FREE => Chain(f, h) = <<>>
           /\ h # FREE => Len(Chain(f, h)) >= 1 /\ Chain(f, h)[1] = h
           /\ \A i \in 2..Len(Chain(f, h)) : Chain(f, h)[i] \in Cluster =>
                 /\ Chain(f, h)[i - 1] \in Cluster
                 /\ f[Chain(f, h)[i - 1]] = Chain(f, h)[i]
<1> DEFINE W == Walk(f, h)
           n == WalkLen(f, h)
           In == {k \in 0..MaxCluster : W[k] \in Cluster}
<1>0. MaxCluster \in Nat /\ h \in FatEntry
  BY TableAssumption DEF FatEntry
<1>1. /\ W \in [0..MaxCluster -> FatEntry] /\ W[0] = h
      /\ \A k \in 1..MaxCluster : W[k] = Follow(f)[W[k - 1]]
  BY <1>0, WalkFacts
<1>2. n \in 0..(MaxCluster + 1) /\ Chain(f, h) = [i \in 1..n |-> W[i - 1]]
  BY WalkLenType, ChainIsWalk
<1>3. n = Cardinality(In)
  BY DEF WalkLen
<1>4. IsFiniteSet(In)
  <2>1. IsFiniteSet(0..MaxCluster) /\ In \subseteq 0..MaxCluster
    BY <1>0, FS_Interval
  <2> HIDE DEF In
  <2> QED BY <2>1, FS_Subset
<1> HIDE DEF W, n
<1>5. \A i \in 1..n : i - 1 \in 0..MaxCluster
  BY <1>0, <1>2
<1>6. Chain(f, h) \in Seq(FatEntry) /\ Len(Chain(f, h)) = n
  BY <1>1, <1>2, <1>5
<1>7. ASSUME h = FREE
      PROVE  Chain(f, h) = <<>>
  <2>1. In = {}
    <3>1. SUFFICES ASSUME In # {} PROVE FALSE
      OBVIOUS
    <3>2. PICK m \in In : \A x \in In : m <= x
      <4>1. In \in SUBSET Nat
        BY <1>0
      <4> HIDE DEF In
      <4> QED BY <3>1, <4>1, MinIsLeast
    <3>3. m # 0
      BY <3>2, <1>7, <1>1, ClusterFacts
    <3>4. m - 1 \in 0..MaxCluster /\ ~ (m <= m - 1) /\ m \in 1..MaxCluster
      BY <3>2, <3>3, <1>0
    <3>5. W[m - 1] \in FatEntry \ Cluster
      BY <3>2, <3>4, <1>1
    <3> QED BY <3>2, <3>4, <3>5, <1>1 DEF Follow
  <2>2. n = 0
    BY <2>1, <1>3, FS_EmptySet
  <2> QED BY <2>2, <1>6
<1>8. ASSUME h # FREE
      PROVE  n >= 1 /\ Chain(f, h)[1] = h
  <2>1. 0 \in In
    BY <1>8, <1>1, <1>0
  <2>2. n # 0
    <3> HIDE DEF In
    <3> QED BY <2>1, <1>3, <1>4, FS_EmptySet
  <2> QED BY <2>2, <1>1, <1>2
<1>9. ASSUME NEW i \in 2..n, W[i - 1] \in Cluster
      PROVE  W[i - 2] \in Cluster /\ f[W[i - 2]] = W[i - 1]
  <2>1. i - 1 \in 1..MaxCluster /\ i - 2 \in 0..MaxCluster /\ (i - 1) - 1 = i - 2
    BY <1>0, <1>2
  <2>2. W[i - 1] = Follow(f)[W[i - 2]] /\ W[i - 2] \in FatEntry
    BY <2>1, <1>1
  <2> QED BY <2>2, <1>9 DEF Follow
<1>10. ASSUME NEW i \in 2..n, Chain(f, h)[i] \in Cluster
       PROVE  Chain(f, h)[i - 1] \in Cluster /\ f[Chain(f, h)[i - 1]] = Chain(f, h)[i]
  <2>1. i \in 1..n /\ i - 1 \in 1..n /\ (i - 1) - 1 = i - 2
    BY <1>2
  <2>2. Chain(f, h)[i] = W[i - 1] /\ Chain(f, h)[i - 1] = W[i - 2]
    BY <2>1, <1>2
  <2> QED BY <2>2, <1>9, <1>10
<1>11. \A i \in 2..Len(Chain(f, h)) : Chain(f, h)[i] \in Cluster =>
          Chain(f, h)[i - 1] \in Cluster /\ f[Chain(f, h)[i - 1]] = Chain(f, h)[i]
  BY <1>6, <1>10
<1>12. Len(Chain(f, h)) \in Nat
  BY <1>2, <1>6
<1> QED
  BY <1>6, <1>7, <1>8, <1>11, <1>12

\* A chain depends on the entries of its own clusters only.
LEMMA ChainLocal ==
    ASSUME NEW f \in [Cluster -> FatEntry], NEW g \in [Cluster -> FatEntry],
           NEW h \in FatEntry, \A x \in ToSet(Chain(f, h)) \cap Cluster : g[x] = f[x]
    PROVE  Chain(g, h) = Chain(f, h)
<1> DEFINE V == Walk(g, h)
           W == Walk(f, h)
           n == WalkLen(f, h)
           Bad == {k \in 0..MaxCluster : V[k] # W[k]}
<1>0. MaxCluster \in Nat
  BY TableAssumption
<1>1. /\ W \in [0..MaxCluster -> FatEntry] /\ W[0] = h
      /\ \A k \in 1..MaxCluster : W[k] = Follow(f)[W[k - 1]]
  BY WalkFacts
<1>2. /\ V \in [0..MaxCluster -> FatEntry] /\ V[0] = h
      /\ \A k \in 1..MaxCluster : V[k] = Follow(g)[V[k - 1]]
  BY WalkFacts
<1>3. n \in 0..(MaxCluster + 1) /\ Chain(f, h) = [i \in 1..n |-> W[i - 1]]
  BY WalkLenType, ChainIsWalk
<1>4. \A k \in 0..MaxCluster : k < n <=> W[k] \in Cluster
  BY WalkPrefix
<1> HIDE DEF V, W, n
<1>5. ASSUME NEW k \in 0..MaxCluster, W[k] \in Cluster
      PROVE  g[W[k]] = f[W[k]]
  <2>1. k < n /\ k + 1 \in 1..n /\ (k + 1) - 1 = k
    BY <1>0, <1>3, <1>4, <1>5
  <2>2. Chain(f, h)[k + 1] = W[k] /\ k + 1 \in DOMAIN Chain(f, h)
    BY <2>1, <1>3
  <2>3. W[k] \in ToSet(Chain(f, h))
    BY <2>2 DEF ToSet
  <2> QED BY <2>3, <1>5
<1>6. Bad = {}
  <2>1. SUFFICES ASSUME Bad # {} PROVE FALSE
    OBVIOUS
  <2>2. PICK b \in Bad : \A i \in Bad : b <= i
    <3>1. Bad \in SUBSET Nat
      BY <1>0
    <3> HIDE DEF Bad
    <3> QED BY <2>1, <3>1, MinIsLeast
  <2>3. b # 0
    BY <2>2, <1>1, <1>2
  <2>4. b \in 1..MaxCluster /\ b - 1 \in 0..MaxCluster /\ ~ (b <= b - 1)
    BY <2>2, <2>3, <1>0
  <2>5. V[b - 1] = W[b - 1] /\ W[b - 1] \in FatEntry
    BY <2>2, <2>4, <1>1
  <2>6. V[b] = Follow(g)[W[b - 1]] /\ W[b] = Follow(f)[W[b - 1]]
    BY <2>4, <2>5, <1>1, <1>2
  <2>7. Follow(g)[W[b - 1]] = Follow(f)[W[b - 1]]
    BY <2>4, <2>5, <1>5 DEF Follow
  <2> QED BY <2>2, <2>6, <2>7
<1>7. V = W
  <2>1. \A k \in 0..MaxCluster : V[k] = W[k]
    BY <1>6
  <2>2. V = [k \in 0..MaxCluster |-> V[k]] /\ W = [k \in 0..MaxCluster |-> W[k]]
    BY <1>1, <1>2
  <2> QED BY <2>1, <2>2
<1>8. WalkLen(g, h) = WalkLen(f, h)
  BY <1>7 DEF WalkLen, V, W
<1> QED
  BY <1>7, <1>8, ChainIsWalk DEF V, W
-----------------------------------------------------------------------------
(* The table.                                                              *)

\* Allocation, freeing and cutting leave a FAT.
LEMMA ExtendType ==
    ASSUME NEW f \in [Cluster -> FatEntry], NEW h, NEW n
    PROVE  Extend(f, h, n) \in [Cluster -> FatEntry]
<1> DEFINE new == Lowest(n, FreeClusters(f))
           After(c) == {x \in new : x > c}
<1>1. new \subseteq Cluster
  BY DEF Lowest, FreeClusters
<1> HIDE DEF new
<1>2. \A S \in SUBSET Cluster : S # {} => Min(S) \in FatEntry
  BY FiniteClusters DEF FatEntry
<1>3. new # {} => Min(new) \in FatEntry
  BY <1>1, <1>2
<1>4. \A c \in Cluster : After(c) # {} => Min(After(c)) \in FatEntry
  BY <1>1, <1>2
<1> HIDE DEF After
<1>5. \A c \in Cluster :
        (IF c \in new THEN IF After(c) = {} THEN EOC ELSE Min(After(c))
            ELSE IF h # FREE /\ new # {} /\ c = Last(Chain(f, h)) THEN Min(new)
            ELSE f[c]) \in FatEntry
  BY <1>3, <1>4 DEF FatEntry
<1>6. QED
  BY <1>5 DEF Extend, new, After

\* Freeing leaves a FAT.
LEMMA FreeAllType ==
    ASSUME NEW f \in [Cluster -> FatEntry], NEW S
    PROVE  FreeAll(f, S) \in [Cluster -> FatEntry]
BY DEF FreeAll, FatEntry

\* Cutting a chain leaves a FAT.
LEMMA TrimmedType ==
    ASSUME NEW f \in [Cluster -> FatEntry], NEW h, NEW n
    PROVE  Trimmed(f, h, n) \in [Cluster -> FatEntry]
<1> DEFINE s == Chain(f, h)
           g == FreeAll(f, ToSet(SubSeq(s, n + 1, Len(s))))
<1>1. g \in [Cluster -> FatEntry]
  BY FreeAllType
<1> HIDE DEF g
<1>2. [g EXCEPT ![s[n]] = EOC] \in [Cluster -> FatEntry]
  BY <1>1 DEF FatEntry
<1> QED
  BY <1>2 DEF Trimmed, g

\* allocate_clusters starts with the lowest free cluster.
LEMMA LowestFacts ==
    ASSUME NEW S \in SUBSET Cluster, NEW n \in Nat
    PROVE  /\ n = 0 => Lowest(n, S) = {}
           /\ n > 0 /\ S # {} => Lowest(n, S) # {} /\ Min(Lowest(n, S)) = Min(S)
<1> DEFINE Below(c) == {x \in S : x < c}
           L == Lowest(n, S)
<1>1. L = {c \in S : Cardinality(Below(c)) < n}
  BY DEF Lowest
<1>2. \A c \in S : Cardinality(Below(c)) \in Nat
  <2>1. \A c \in S : Below(c) \in SUBSET Cluster
    OBVIOUS
  <2> HIDE DEF Below
  <2> QED BY <2>1, FiniteClusters
<1>3. ASSUME n = 0 PROVE L = {}
  <2> HIDE DEF Below
  <2> QED BY <1>1, <1>2, <1>3
<1>4. ASSUME n > 0, S # {}
      PROVE  L # {} /\ Min(L) = Min(S)
  <2>1. Min(S) \in S /\ \A x \in S : Min(S) <= x
    BY <1>4, ClusterFacts, MinIsLeast
  <2>2. S \subseteq Nat
    BY ClusterFacts
  <2>3. Below(Min(S)) = {}
    <3>1. ASSUME NEW x \in S PROVE ~ (x < Min(S))
      <4>1. x \in Nat /\ Min(S) \in Nat /\ Min(S) <= x
        BY <2>1, <2>2
      <4> QED BY <4>1
    <3> QED BY <3>1
  <2>4. Cardinality(Below(Min(S))) = 0
    <3> HIDE DEF Below
    <3> QED BY <2>3, FS_EmptySet
  <2> HIDE DEF Below
  <2>5. Min(S) \in L
    BY <1>1, <1>4, <2>1, <2>4
  <2>6. L \subseteq S
    BY <1>1
  <2> HIDE DEF L
  <2>7. Min(L) \in L /\ \A x \in L : Min(L) <= x
    <3>1. L \in SUBSET Nat /\ L # {}
      BY <2>2, <2>5, <2>6
    <3> QED BY <3>1, MinIsLeast
  <2>8. Min(L) <= Min(S) /\ Min(S) <= Min(L) /\ Min(L) \in Nat /\ Min(S) \in Nat
    BY <2>1, <2>2, <2>5, <2>6, <2>7
  <2> QED BY <2>5, <2>8
<1> QED
  BY <1>3, <1>4

\* allocate_clusters takes as many clusters as it is asked for, if there are so many.
LEMMA LowestCount ==
    ASSUME NEW S \in SUBSET Cluster, NEW n \in Nat, n <= Cardinality(S)
    PROVE  Cardinality(Lowest(n, S)) = n
<1> DEFINE Bad == {m \in 0..Cardinality(S) : Cardinality(Lowest(m, S)) # m}
           Below(c) == {x \in S : x < c}
<1>0. IsFiniteSet(S) /\ Cardinality(S) \in Nat /\ S \subseteq Nat
  BY FiniteClusters, ClusterFacts
<1>1. \A m : Lowest(m, S) = {c \in S : Cardinality(Below(c)) < m}
  BY DEF Lowest
<1>2. \A c \in S : IsFiniteSet(Below(c)) /\ Cardinality(Below(c)) \in Nat
  <2>1. \A c \in S : Below(c) \in SUBSET Cluster
    OBVIOUS
  <2> HIDE DEF Below
  <2> QED BY <2>1, FiniteClusters
<1>3. Bad = {}
  <2>1. SUFFICES ASSUME Bad # {} PROVE FALSE
    OBVIOUS
  <2>2. PICK b \in Bad : \A x \in Bad : b <= x
    <3>1. Bad \in SUBSET Nat
      BY <1>0
    <3> HIDE DEF Bad
    <3> QED BY <2>1, <3>1, MinIsLeast
  <2>3. b # 0
    <3>1. Lowest(0, S) = {}
      BY LowestFacts
    <3> QED BY <2>2, <3>1, FS_EmptySet
  <2> DEFINE L == Lowest(b - 1, S)
  <2>4. b \in Nat /\ b - 1 \in 0..Cardinality(S) /\ ~ (b <= b - 1) /\ b - 1 < Cardinality(S)
    BY <2>2, <2>3, <1>0
  <2>5. Cardinality(L) = b - 1 /\ L \subseteq S
    <3>1. b - 1 \notin Bad
      BY <2>2, <2>4
    <3> QED BY <2>4, <3>1, <1>1
  <2>6. L = {c \in S : Cardinality(Below(c)) < b - 1}
    BY <1>1
  <2> HIDE DEF L
  <2>7. S \ L # {}
    <3>1. L # S
      BY <2>4, <2>5
    <3> QED BY <2>5, <3>1
  <2>8. PICK a \in S \ L : \A x \in S \ L : a <= x
    <3>1. S \ L \in SUBSET Nat
      BY <1>0
    <3> QED BY <2>7, <3>1, MinIsLeast
  <2>9. Below(a) = L
    <3>1. ASSUME NEW x \in Below(a) PROVE x \in L
      <4>1. x \in Nat /\ a \in Nat /\ x < a /\ x \in S
        BY <3>1, <2>8, <1>0
      <4>2. ~ (a <= x)
        BY <4>1
      <4> QED BY <4>1, <4>2, <2>8
    <3>2. ASSUME NEW x \in L PROVE x \in Below(a)
      <4>1. x \in Nat /\ a \in Nat /\ x \in S /\ x # a
        BY <3>2, <2>5, <2>8, <1>0
      <4>2. CASE x < a
        BY <4>1, <4>2
      <4>3. CASE a < x
        <5>1. Below(a) \subseteq Below(x)
          <6>1. ASSUME NEW y \in Below(a) PROVE y < x
            <7>1. y \in Nat /\ y < a
              BY <6>1, <1>0
            <7> QED BY <7>1, <4>1, <4>3
          <6> QED BY <6>1
        <5> HIDE DEF Below
        <5>2. Cardinality(Below(a)) <= Cardinality(Below(x))
          BY <4>1, <5>1, <1>2, FS_Subset
        <5>3. Cardinality(Below(x)) < b - 1 /\ ~ (Cardinality(Below(a)) < b - 1)
          BY <3>2, <2>6, <2>8
        <5> QED BY <5>2, <5>3, <4>1, <2>4, <2>8, <1>2
      <4> QED BY <4>1, <4>2, <4>3
    <3> QED BY <3>1, <3>2
  <2>10. Cardinality(L \cup {a}) = b
    <3>1. IsFiniteSet(L)
      BY <2>5, <1>0, FS_Subset
    <3>2. a \notin L
      BY <2>8
    <3>3. Cardinality(L \cup {a}) = Cardinality(L) + 1
      BY <3>1, <3>2, FS_AddElement
    <3> QED BY <3>3, <2>4, <2>5
  <2>11. Lowest(b, S) = L \cup {a}
    <3>1. ASSUME NEW c \in L PROVE c \in Lowest(b, S)
      <4>1. c \in S /\ Cardinality(Below(c)) < b - 1 /\ Cardinality(Below(c)) \in Nat
        BY <3>1, <2>6, <1>2
      <4> QED BY <4>1, <2>4, <1>1
    <3>2. a \in Lowest(b, S)
      <4>1. Cardinality(Below(a)) < b
        BY <2>4, <2>5, <2>9
      <4> QED BY <4>1, <2>8, <1>1
    <3>3. ASSUME NEW c \in Lowest(b, S), c \notin L, c # a PROVE FALSE
      <4>1. c \in S /\ Cardinality(Below(c)) < b /\ c \in Nat /\ a \in Nat
        BY <3>3, <2>8, <1>0, <1>1
      <4>2. a < c
        <5>1. a <= c
          BY <3>3, <4>1, <2>8
        <5> QED BY <3>3, <4>1, <5>1
      <4>3. L \cup {a} \subseteq Below(c)
        <5>1. ASSUME NEW y \in L PROVE y < c
          <6>1. y \in Nat /\ y < a
            BY <5>1, <2>9, <1>0
          <6> QED BY <6>1, <4>1, <4>2
        <5> QED BY <5>1, <4>2, <2>5, <2>8
      <4>4. Cardinality(L \cup {a}) = b
        BY <2>10
      <4> HIDE DEF Below
      <4>5. Cardinality(L \cup {a}) <= Cardinality(Below(c))
        BY <4>1, <4>3, <1>2, FS_Subset
      <4> QED BY <4>1, <4>4, <4>5, <2>4, <1>2
    <3> QED BY <3>1, <3>2, <3>3
  <2> QED BY <2>2, <2>11, <2>10
<1>4. n \in 0..Cardinality(S)
  BY <1>0
<1> QED
  BY <1>3, <1>4

\* Allocation that takes no cluster leaves the table alone.
LEMMA ExtendByNone ==
    ASSUME NEW f \in [Cluster -> FatEntry], NEW h
    PROVE  Extend(f, h, 0) = f
<1>1. FreeClusters(f) \in SUBSET Cluster
  BY DEF FreeClusters
<1>2. Lowest(0, FreeClusters(f)) = {}
  BY <1>1, LowestFacts
<1>3. Extend(f, h, 0) = [c \in Cluster |-> f[c]]
  BY <1>2 DEF Extend
<1> QED
  BY <1>3

\* The number of clusters a chain lacks; an empty chain lacks all.
LEMMA MissingType ==
    ASSUME NEW f \in [Cluster -> FatEntry], NEW h \in Cluster \cup {FREE}, NEW n \in Nat
    PROVE  Missing(f, h, n) \in Nat /\ (h = FREE => Missing(f, h, n) = n)
<1> DEFINE len == Len(Chain(f, h))
<1>1. len \in Nat /\ (h = FREE => len = 0)
  BY ChainFacts
<1> QED
  BY <1>1 DEF Missing
=============================================================================

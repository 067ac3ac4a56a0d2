----------------------------- MODULE FatChains -----------------------------
(***************************************************************************)
(* The file allocation table of libmyfs as a value: which cluster follows  *)
(* which, and what the chain operations of lib.rs make of a table.  A      *)
(* table f gives every data cluster the next one, FREE or EOC.             *)
(***************************************************************************)
EXTENDS Integers, SequencesExt

CONSTANT MaxCluster  \* the highest data cluster (the first is the root, 2)

Root == 2
Cluster == Root..MaxCluster
FREE == 0
EOC == 65535
FatEntry == Cluster \cup {FREE, EOC}

ASSUME TableAssumption == MaxCluster \in Nat /\ Root <= MaxCluster /\ MaxCluster < EOC

CeilDiv(n, m) == (n + m - 1) \div m

\* The members of a set of numbers in order.
Ascending(S) ==
    [i \in 1..Cardinality(S) |->
        CHOOSE x \in S : Cardinality({y \in S : y < x}) = i - 1]
-----------------------------------------------------------------------------
\* Where each step of ChainIter leads: from a cluster to its FAT entry, and
\* nowhere from FREE or EOC.
Follow(f) == [x \in FatEntry |-> IF x \in Cluster THEN f[x] ELSE x]

\* The clusters ChainIter yields from h, in order.  A chain that loops or
\* meets a free entry shows as one whose last cluster is not marked EOC.
Chain(f, h) ==
    LET at[k \in 0..MaxCluster] == IF k = 0 THEN h ELSE Follow(f)[at[k - 1]]
        len == Cardinality({k \in 0..MaxCluster : at[k] \in Cluster})
    IN  [i \in 1..len |-> at[i - 1]]

\* Faulty form: takes the ends of chains for free clusters.
FreeClustersAndEnds(f) == {c \in Cluster \ {Root} : f[c] \in {FREE, EOC}}

FreeClusters(f) == {c \in Cluster : f[c] = FREE}

\* allocate_clusters takes the lowest free ids.
Lowest(n, S) == {c \in S : Cardinality({x \in S : x < c}) < n}

\* Faulty form: links each new cluster to the one numbered after it.
ExtendContiguous(f, h, n) ==
    LET new == Lowest(n, FreeClusters(f))
    IN  [c \in Cluster |->
            IF c \in new THEN c + 1
            ELSE IF h # FREE /\ new # {} /\ c = Last(Chain(f, h)) THEN Min(new)
            ELSE f[c]]

\* Allocates n clusters, links them in order and hangs them on the end of
\* the chain that starts at h (on nothing when h is FREE).
Extend(f, h, n) ==
    LET new == Lowest(n, FreeClusters(f))
        After(c) == {x \in new : x > c}
    IN  [c \in Cluster |->
            IF c \in new THEN IF After(c) = {} THEN EOC ELSE Min(After(c))
            ELSE IF h # FREE /\ new # {} /\ c = Last(Chain(f, h)) THEN Min(new)
            ELSE f[c]]

FreeAll(f, S) == [c \in Cluster |-> IF c \in S THEN FREE ELSE f[c]]

\* ensure_fcb_chain_capacity can be satisfied, and what it leaves.
Missing(f, h, n) == LET len == Len(Chain(f, h)) IN IF n > len THEN n - len ELSE 0
Fits(f, h, n) == Missing(f, h, n) <= Cardinality(FreeClusters(f))
WithCapacity(f, h, n) == Extend(f, h, Missing(f, h, n))
HeadWithCapacity(f, h, n) ==
    IF h = FREE /\ n > 0 THEN Min(FreeClusters(f)) ELSE h

\* Faulty form: the last cluster kept still points to what was freed.
TrimmedOpenEnd(f, h, n) ==
    LET s == Chain(f, h) IN FreeAll(f, ToSet(SubSeq(s, n + 1, Len(s))))
\* Faulty form: the tail is cut off and not freed.
TrimmedKeepTail(f, h, n) == [f EXCEPT ![Chain(f, h)[n]] = EOC]

\* Cut the chain after its first n clusters and free the rest.
Trimmed(f, h, n) ==
    LET s == Chain(f, h)
    IN  [FreeAll(f, ToSet(SubSeq(s, n + 1, Len(s)))) EXCEPT ![s[n]] = EOC]
\* trim_chain_len, with nothing kept too.
Trim(f, h, n) ==
    IF h = FREE THEN f
    ELSE IF n = 0 THEN FreeAll(f, ToSet(Chain(f, h)))
    ELSE Trimmed(f, h, n)
=============================================================================

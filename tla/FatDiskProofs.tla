--------------------------- MODULE FatDiskProofs ---------------------------
(***************************************************************************)
(* Proofs about FatDisk: the layout of the image, the inductive invariant  *)
(* of its blocks, its FAT and the writes of the call in progress, and from *)
(* it what a caller reads, what a crash leaves and what a failure rolls    *)
(* back, for every number of slots, clusters and units and every           *)
(* configuration that validate accepts.                                    *)
(*                                                                         *)
(* The invariant speaks of the state as it is and as the writes to come    *)
(* will leave it.  The proof takes both as operators of parameters, so     *)
(* that the state after a step is an instance of the same operators:       *)
(* Open(d, b, f, y, t, k, x, n, v) of the blocks, boot sector, FAT, dirty  *)
(* flag, steps, call, files, sound and safe slots, and Idle and Closed     *)
(* where there are no steps or no open file system.                        *)
(***************************************************************************)
EXTENDS FatDisk, FatChainsProofs

-----------------------------------------------------------------------------
(* The layout.                                                             *)

\* Two copies of the FAT.
LEMMA TwoCopies == Cardinality(FatCopies) = 2
<1>1. 1 \in Int /\ 2 \in Int
  OBVIOUS
<1>2. Cardinality(1..2) = IF 1 > 2 THEN 0 ELSE 2 - 1 + 1
  BY <1>1, FS_Interval
<1> QED
  BY <1>2 DEF FatCopies

\* A round of the loop in get_fat_block_count.
Round(cfg, n) == IF BlocksNeeded(cfg, n) <= n THEN n ELSE BlocksNeeded(cfg, n)

\* What a configuration that is not all zero gives a round.
Proper(cfg) == cfg \in FsConfig /\ cfg.block_size > 0 /\ cfg.blocks_per_cluster > 0

\* A 16-bit number.
LEMMA WordType ==
    ASSUME NEW n \in Word
    PROVE  n \in Nat /\ n <= 65535
<1> DEFINE m == MaxWord
<1>1. m \in Nat /\ m = 65535
  BY DEF MaxWord
<1> HIDE DEF m
<1>2. n \in 0..m
  BY DEF Word, m
<1> QED
  BY <1>1, <1>2

\* The numbers of a configuration that is not all zero.
LEMMA ProperType ==
    ASSUME NEW cfg, Proper(cfg)
    PROVE  /\ cfg.block_size \in Nat \ {0} /\ cfg.blocks_per_cluster \in Nat \ {0}
           /\ cfg.block_count \in Nat /\ cfg.block_count <= 65535
<1>1. cfg.block_size \in Word /\ cfg.block_count \in Word /\ cfg.blocks_per_cluster \in Word
  BY DEF Proper, FsConfig
<1> QED
  BY <1>1, WordType DEF Proper

\* The sizes of the structures on the image.
LEMMA SizesType ==
    EntrySize \in Nat \ {0} /\ FcbSize \in Nat \ {0} /\ BootSize \in Nat \ {0}
  BY SizeAssumption

\* The loop of get_fat_block_count stays within the naturals.
LEMMA NeededType ==
    ASSUME NEW cfg, Proper(cfg), NEW n \in Nat
    PROVE  BlocksNeeded(cfg, n) \in Nat
<1> DEFINE start == 1 + 2 * n
           clusters == (cfg.block_count - start) \div cfg.blocks_per_cluster
           bytes == (Root + clusters) * EntrySize
           need == CeilDiv(bytes, cfg.block_size)
<1>1. /\ cfg.block_count \in Nat /\ cfg.block_size \in Nat \ {0}
      /\ cfg.blocks_per_cluster \in Nat \ {0} /\ EntrySize \in Nat
  BY SizesType, ProperType
<1>2. BlocksNeeded(cfg, n) = IF start >= cfg.block_count THEN n ELSE need % 65536
  BY TwoCopies DEF BlocksNeeded
<1>3. CASE start >= cfg.block_count
  BY <1>2, <1>3
<1>4. CASE ~(start >= cfg.block_count)
  <2>1. cfg.block_count - start \in Nat
    BY <1>1, <1>4
  <2>2. clusters \in Nat
    <3> DEFINE k == cfg.block_count - start
    <3> HIDE DEF k
    <3> QED BY <1>1, <2>1, DivFacts DEF k
  <2> HIDE DEF clusters
  <2>3. bytes \in Nat
    <3>1. Root + clusters \in Nat
      BY <2>2 DEF Root
    <3> DEFINE k == Root + clusters
    <3> HIDE DEF k
    <3>2. k * EntrySize \in Nat
      BY <1>1, <3>1 DEF k
    <3> QED BY <3>2 DEF k
  <2> HIDE DEF bytes
  <2>4. need \in Nat
    BY <1>1, <2>3, CeilDivFacts
  <2> HIDE DEF need
  <2>5. need % 65536 \in Nat
    BY <2>4
  <2> QED BY <1>2, <1>4, <2>5
<1> QED
  BY <1>3, <1>4

\* The loop counts up from one.
LEMMA CountRounds ==
    ASSUME NEW cfg, Proper(cfg)
    PROVE  /\ GetFatBlockCount(cfg) = Round(cfg, Round(cfg, Round(cfg, 1)))
           /\ GetFatBlockCount(cfg) \in Nat /\ GetFatBlockCount(cfg) >= 1
<1> DEFINE r1 == Round(cfg, 1)
           r2 == Round(cfg, r1)
           r3 == Round(cfg, r2)
           g == [i \in 0..3 |-> IF i = 0 THEN 1 ELSE IF i = 1 THEN r1 ELSE IF i = 2 THEN r2 ELSE r3]
           Loop(h) == h = [i \in 0..3 |-> IF i = 0 THEN 1 ELSE Round(cfg, h[i - 1])]
           w == CHOOSE h : Loop(h)
<1>1. ASSUME NEW n \in Nat, n >= 1
      PROVE  Round(cfg, n) \in Nat /\ Round(cfg, n) >= 1
  BY <1>1, NeededType DEF Round
<1>2. r1 \in Nat /\ r1 >= 1
  <2> DEFINE one == 1
  <2>1. one \in Nat /\ one >= 1
    OBVIOUS
  <2> HIDE DEF one
  <2>2. Round(cfg, one) \in Nat /\ Round(cfg, one) >= 1
    BY <2>1, <1>1
  <2> QED BY <2>2 DEF one
<1> HIDE DEF r1
<1>3. r2 \in Nat /\ r2 >= 1
  BY <1>1, <1>2
<1> HIDE DEF r2
<1>4. r3 \in Nat /\ r3 >= 1
  BY <1>1, <1>3
<1> HIDE DEF r3
<1>5. Loop(g)
  <2>1. \A i \in 0..3 : g[i] = IF i = 0 THEN 1 ELSE Round(cfg, g[i - 1])
    BY DEF r1, r2, r3
  <2> QED BY <2>1
<1> HIDE DEF g
<1>6. Loop(w)
  BY <1>5
<1>7. GetFatBlockCount(cfg) = w[3]
  BY DEF GetFatBlockCount, Rounds, Round
<1> HIDE DEF w
<1>8. w[0] = 1 /\ w[1] = Round(cfg, w[0]) /\ w[2] = Round(cfg, w[1]) /\ w[3] = Round(cfg, w[2])
  BY <1>6
<1> QED
  BY <1>4, <1>7, <1>8 DEF r1, r2, r3

\* A configuration that validate accepts.
LEMMA ValidFacts ==
    ASSUME NEW cfg \in FsConfig, Validate(cfg)
    PROVE  /\ Proper(cfg)
           /\ LET n == GetFatBlockCount(cfg)
                  d == (cfg.block_count - (1 + 2 * n)) \div cfg.blocks_per_cluster
              IN  /\ n \in Nat /\ n >= 1 /\ 1 + 2 * n < cfg.block_count
                  /\ d \in Nat /\ d >= 1 /\ d <= 65532
                  /\ d * cfg.blocks_per_cluster <= cfg.block_count - (1 + 2 * n)
                  /\ (Root + d) * EntrySize <= n * cfg.block_size
<1>1. /\ cfg.block_size \in Nat /\ cfg.block_count \in Nat /\ cfg.block_count <= 65535
      /\ cfg.blocks_per_cluster \in Nat
  <2>1. cfg.block_size \in Word /\ cfg.block_count \in Word /\ cfg.blocks_per_cluster \in Word
    BY DEF FsConfig
  <2> QED BY <2>1, WordType
<1>2. cfg.block_size >= BootSize /\ cfg.block_size * cfg.blocks_per_cluster >= FcbSize
  BY DEF Validate
<1>3. cfg.block_size # 0 /\ cfg.blocks_per_cluster # 0
  <2>1. cfg.block_size # 0
    BY <1>1, <1>2, SizesType
  <2>2. ASSUME cfg.blocks_per_cluster = 0 PROVE FALSE
    <3>1. cfg.block_size * 0 = 0
      BY <1>1
    <3> QED BY <1>2, <2>2, <3>1, SizesType
  <2> QED BY <2>1, <2>2
<1>4. Proper(cfg)
  BY <1>1, <1>3 DEF Proper
<1> DEFINE n == GetFatBlockCount(cfg)
           k == cfg.block_count - (1 + 2 * n)
           m == cfg.blocks_per_cluster
           d == k \div m
           e == cfg.block_size * n
<1>5. k > 0 /\ k >= m /\ FatEntryCount(cfg, n) >= Root + d
  BY DEF Validate
<1>6. n \in Nat /\ n >= 1
  BY <1>4, CountRounds
<1>7. FatEntryCount(cfg, n) = e \div EntrySize
  BY DEF FatEntryCount
<1>8. m \in Nat \ {0} /\ m >= 1
  BY <1>1, <1>3
<1> HIDE DEF m, n
<1>9. k \in Nat /\ k <= 65532
  BY <1>1, <1>5, <1>6
<1>10. e \in Nat
  BY <1>1, <1>6
<1> HIDE DEF k, e
<1>11. d \in Nat /\ d * m <= k /\ k < d * m + m
  BY <1>8, <1>9, DivFacts
<1> HIDE DEF d
<1>12. d >= 1
  <2>1. ASSUME d = 0 PROVE FALSE
    <3>1. 0 * m = 0
      BY <1>8
    <3> QED BY <1>5, <1>8, <1>9, <1>11, <2>1, <3>1
  <2> QED BY <2>1, <1>11
<1>13. d <= 65532
  <2>1. d <= d * m /\ d * m \in Nat
    BY <1>8, <1>11
  <2> QED BY <2>1, <1>9, <1>11
<1>14. (Root + d) * EntrySize <= e
  <2> DEFINE q == e \div EntrySize
             r == Root + d
  <2>1. q \in Nat /\ q * EntrySize <= e
    BY <1>10, DivFacts, SizesType
  <2>2. q >= r /\ r \in Nat
    BY <1>5, <1>7, <1>11 DEF Root
  <2> HIDE DEF q, r
  <2>3. r * EntrySize <= q * EntrySize /\ r * EntrySize \in Int /\ q * EntrySize \in Int
    BY <2>1, <2>2, SizesType, TimesMonotone
  <2>4. r * EntrySize <= e
    BY <1>10, <2>1, <2>3
  <2> QED BY <2>4 DEF r
<1>15. e = n * cfg.block_size
  BY <1>1, <1>6 DEF e
<1> HIDE DEF d
<1>16. n \in Nat /\ n >= 1 /\ 1 + 2 * n < cfg.block_count
  BY <1>1, <1>5, <1>6 DEF k
<1>17. (Root + d) * EntrySize <= n * cfg.block_size
  BY <1>14, <1>15
<1> QED
  BY <1>4, <1>11, <1>12, <1>13, <1>16, <1>17 DEF d, k, n, m

\* The layout in plain numbers: no sum wraps around.
LEMMA LayoutFacts ==
    ASSUME NEW cfg \in FsConfig, Validate(cfg)
    PROVE  LET b == Layout(cfg)
           IN  /\ b.block_size \in Nat \ {0} /\ b.blocks_per_cluster \in Nat \ {0}
               /\ b.block_count \in Nat /\ b.fat_blocks \in Nat /\ b.fat_blocks >= 1
               /\ b.data_start = 1 + 2 * b.fat_blocks /\ b.data_start < b.block_count
               /\ b.block_count <= 65535
               /\ MaxClusterId(b) \in Nat /\ MaxClusterId(b) >= Root /\ MaxClusterId(b) <= 65533
               /\ (MaxClusterId(b) - Root + 1) * b.blocks_per_cluster <= b.block_count - b.data_start
               /\ (MaxClusterId(b) + 1) * EntrySize <= b.fat_blocks * b.block_size
               /\ \A copy \in FatCopies : FatStart(b, copy) = 1 + (copy - 1) * b.fat_blocks
<1> DEFINE n == GetFatBlockCount(cfg)
           b == Layout(cfg)
           m == cfg.blocks_per_cluster
           d == (cfg.block_count - (1 + 2 * n)) \div m
<1>1. Proper(cfg)
  BY ValidFacts
<1>2. /\ cfg.block_size \in Nat \ {0} /\ m \in Nat \ {0}
      /\ cfg.block_count \in Nat /\ cfg.block_count <= 65535
  BY <1>1, ProperType
<1>3. /\ n \in Nat /\ n >= 1 /\ 1 + 2 * n < cfg.block_count
      /\ d \in Nat /\ d >= 1 /\ d <= 65532
      /\ d * m <= cfg.block_count - (1 + 2 * n)
      /\ (Root + d) * EntrySize <= n * cfg.block_size
  BY ValidFacts
<1>4. /\ b.block_size = cfg.block_size /\ b.block_count = cfg.block_count
      /\ b.blocks_per_cluster = m /\ b.fat_blocks = n /\ b.fat_start = 1
      /\ b.data_start = (1 + n * 2) % 65536
  BY DEF Layout
<1>5. MaxClusterId(b) = Root + (b.block_count - b.data_start) \div b.blocks_per_cluster - 1
  BY DEF MaxClusterId
<1> HIDE DEF b, n, m
<1>6. (1 + n * 2) % 65536 = 1 + 2 * n
  BY <1>2, <1>3
<1>7. b.data_start = 1 + 2 * n
  BY <1>4, <1>6
<1>8. MaxClusterId(b) = Root + d - 1
  BY <1>4, <1>5, <1>7
<1> HIDE DEF d
<1>9. MaxClusterId(b) \in Nat /\ MaxClusterId(b) >= Root /\ MaxClusterId(b) <= 65533
  BY <1>3, <1>8 DEF Root
<1>10. MaxClusterId(b) - Root + 1 = d /\ MaxClusterId(b) + 1 = Root + d
  BY <1>3, <1>8 DEF Root
<1>11. ASSUME NEW copy \in FatCopies
       PROVE  FatStart(b, copy) = 1 + (copy - 1) * b.fat_blocks
  <2>1. FatStart(b, copy) = (1 + (copy - 1) * n) % 65536
    BY <1>4 DEF FatStart
  <2>2. copy = 1 \/ copy = 2
    BY DEF FatCopies
  <2>3. (copy - 1) * n = 0 \/ (copy - 1) * n = n
    BY <1>3, <2>2
  <2>4. (1 + (copy - 1) * n) % 65536 = 1 + (copy - 1) * n
    BY <1>2, <1>3, <2>3
  <2> QED BY <1>4, <2>1, <2>4
<1>12. (MaxClusterId(b) - Root + 1) * b.blocks_per_cluster <= b.block_count - b.data_start
  BY <1>3, <1>4, <1>7, <1>10
<1>13. (MaxClusterId(b) + 1) * EntrySize <= b.fat_blocks * b.block_size
  BY <1>3, <1>4, <1>10
<1>14. b.data_start < b.block_count /\ b.data_start = 1 + 2 * b.fat_blocks
  BY <1>3, <1>4, <1>7
<1> QED
  BY <1>2, <1>3, <1>4, <1>9, <1>11, <1>12, <1>13, <1>14 DEF b

\* The address of a cluster.
LEMMA ClusterAddress ==
    ASSUME NEW cfg \in FsConfig, Validate(cfg), NEW c \in Root..MaxClusterId(Layout(cfg))
    PROVE  LET b == Layout(cfg)
               m == b.blocks_per_cluster
           IN  /\ FirstBlock(b, c) = b.data_start + (c - Root) * m
               /\ (c - Root) * m \in Nat /\ b.data_start + (c - Root) * m + m <= b.block_count
               /\ FatBlock(b, c) \in Nat /\ FatBlock(b, c) < b.fat_blocks
<1> DEFINE b == Layout(cfg)
           m == b.blocks_per_cluster
           k == c - Root
           max == MaxClusterId(b)
           start == b.data_start
<1>1. /\ b.block_size \in Nat \ {0} /\ m \in Nat \ {0}
      /\ b.block_count \in Nat /\ b.fat_blocks \in Nat /\ b.fat_blocks >= 1
      /\ start = 1 + 2 * b.fat_blocks /\ start < b.block_count
      /\ b.block_count <= 65535
      /\ max \in Nat /\ max >= Root
      /\ (max - Root + 1) * m <= b.block_count - start
      /\ (max + 1) * EntrySize <= b.fat_blocks * b.block_size
  BY LayoutFacts
<1>2. FirstBlock(b, c) = (start + k * m) % 65536 /\ FatBlock(b, c) = (c * EntrySize) \div b.block_size
  BY DEF FirstBlock, FatBlock
<1>3. c \in max..max \/ (c \in Nat /\ c >= Root /\ c <= max)
  BY <1>1 DEF Root
<1> HIDE DEF b, m, max, start
<1>4. c \in Nat /\ c <= max /\ k \in Nat /\ k + 1 <= max - Root + 1
  BY <1>1, <1>3 DEF Root
<1>5. (k + 1) * m <= (max - Root + 1) * m /\ (k + 1) * m \in Int /\ (max - Root + 1) * m \in Int
  <2> DEFINE x == k + 1
             y == max - Root + 1
  <2>1. x \in Int /\ y \in Int /\ x <= y
    BY <1>1, <1>4 DEF Root
  <2> HIDE DEF x, y
  <2>2. x * m <= y * m /\ x * m \in Int /\ y * m \in Int
    BY <1>1, <2>1, TimesMonotone
  <2> QED BY <2>2 DEF x, y
<1> HIDE DEF k
<1>6. (k + 1) * m = k * m + m /\ k * m \in Nat
  BY <1>1, <1>4
<1>7. start + k * m + m <= b.block_count
  BY <1>1, <1>5, <1>6
<1>8. (start + k * m) % 65536 = start + k * m
  <2> DEFINE x == start + k * m
  <2>1. x \in Nat /\ x < 65536
    BY <1>1, <1>6, <1>7
  <2> HIDE DEF x
  <2>2. x % 65536 = x
    BY <2>1
  <2> QED BY <2>2 DEF x
<1>9. FatBlock(b, c) \in Nat /\ FatBlock(b, c) < b.fat_blocks
  <2> DEFINE x == c * EntrySize
  <2>1. (c + 1) * EntrySize <= (max + 1) * EntrySize
        /\ (c + 1) * EntrySize \in Int /\ (max + 1) * EntrySize \in Int
    <3> DEFINE y == c + 1
               z == max + 1
    <3>1. y \in Int /\ z \in Int /\ y <= z
      BY <1>1, <1>4
    <3> HIDE DEF y, z
    <3>2. y * EntrySize <= z * EntrySize /\ y * EntrySize \in Int /\ z * EntrySize \in Int
      BY <3>1, SizesType, TimesMonotone
    <3> QED BY <3>2 DEF y, z
  <2>2. (c + 1) * EntrySize = x + EntrySize /\ x \in Nat
    BY <1>4, SizesType
  <2> HIDE DEF x
  <2>3. b.fat_blocks * b.block_size \in Nat
    BY <1>1
  <2>4. x < b.fat_blocks * b.block_size
    BY <1>1, <2>1, <2>2, <2>3, SizesType
  <2>5. x \div b.block_size < b.fat_blocks
    BY <1>1, <2>2, <2>4, DivBelow
  <2>6. x \div b.block_size \in Nat
    BY <1>1, <2>2, DivType
  <2> QED BY <1>2, <2>5, <2>6 DEF x
<1> QED
  BY <1>2, <1>6, <1>7, <1>8, <1>9 DEF b, m, start, k

\* The regions of every layout.
LEMMA LayoutRegions ==
    ASSUME NEW cfg \in FsConfig, Validate(cfg)
    PROVE  RegionsSound(Layout(cfg))
<1> DEFINE b == Layout(cfg)
           m == b.blocks_per_cluster
<1>1. /\ m \in Nat \ {0}
      /\ b.block_count \in Nat /\ b.fat_blocks \in Nat /\ b.fat_blocks >= 1
      /\ b.data_start = 1 + 2 * b.fat_blocks /\ b.data_start < b.block_count
      /\ MaxClusterId(b) \in Nat /\ MaxClusterId(b) >= Root /\ MaxClusterId(b) <= 65533
      /\ \A copy \in FatCopies : FatStart(b, copy) = 1 + (copy - 1) * b.fat_blocks
  BY LayoutFacts
<1>2. \A c \in Root..MaxClusterId(b) :
          /\ FirstBlock(b, c) = b.data_start + (c - Root) * m
          /\ (c - Root) * m \in Nat /\ b.data_start + (c - Root) * m + m <= b.block_count
          /\ FatBlock(b, c) \in Nat /\ FatBlock(b, c) < b.fat_blocks
  BY ClusterAddress
<1> HIDE DEF b, m
<1>3. MaxClusterId(b) \in Root..(EOC - 1)
  <2> DEFINE top == EOC - 1
             max == MaxClusterId(b)
  <2>1. top \in Int /\ 65533 <= top /\ Root \in Int
    BY DEF EOC, Root
  <2>2. max \in Nat /\ max >= Root /\ max <= 65533
    BY <1>1
  <2> HIDE DEF top, max
  <2>3. max \in Root..top
    BY <2>1, <2>2
  <2> QED BY <2>3 DEF top, max
<1>4. ASSUME NEW c \in Root..MaxClusterId(b)
      PROVE  ClusterBlocks(b, c) \subseteq b.data_start..(b.block_count - 1)
  <2> DEFINE x == (c - Root) * m
  <2>1. /\ FirstBlock(b, c) = b.data_start + x /\ x \in Nat
        /\ b.data_start + x + m <= b.block_count
    BY <1>2
  <2> HIDE DEF x
  <2>2. \A i \in 0..(m - 1) : FirstBlock(b, c) + i \in b.data_start..(b.block_count - 1)
    BY <1>1, <2>1
  <2> QED BY <2>2 DEF ClusterBlocks, m
<1>5. \A c \in Root..MaxClusterId(b) : FirstBlock(b, c) = b.data_start + (c - Root) * b.blocks_per_cluster
  BY <1>2 DEF m
<1> QED
  BY <1>1, <1>2, <1>3, <1>4, <1>5 DEF RegionsSound, b

\* A larger FAT leaves fewer clusters and so needs no more blocks than a smaller one.
LEMMA NeededLess ==
    ASSUME NEW cfg, Proper(cfg), cfg.block_size >= BootSize, NEW n \in Nat, n >= 1,
           NEW k \in Nat, n <= k,
           1 + 2 * k < cfg.block_count
    PROVE  BlocksNeeded(cfg, k) <= BlocksNeeded(cfg, n)
<1> DEFINE size == cfg.block_size
           m == cfg.blocks_per_cluster
           clusters(i) == (cfg.block_count - (1 + 2 * i)) \div m
           bytes(i) == (Root + clusters(i)) * EntrySize
           need(i) == CeilDiv(bytes(i), size)
<1>1. /\ cfg.block_count \in Nat /\ cfg.block_count <= 65535 /\ size \in Nat \ {0}
      /\ m \in Nat \ {0} /\ EntrySize \in Nat \ {0} /\ EntrySize <= size
  BY SizesType, SizeAssumption, ProperType
<1>2. ASSUME NEW i \in Nat, i >= 1, i <= k
      PROVE  BlocksNeeded(cfg, i) = need(i) % 65536
  <2>1. ~(1 + 2 * i >= cfg.block_count)
    BY <1>1, <1>2
  <2> HIDE DEF need
  <2> QED BY <2>1, TwoCopies DEF BlocksNeeded, need
<1> HIDE DEF size, m
<1>3. ASSUME NEW i \in Nat, i >= 1, i <= k
      PROVE  clusters(i) \in Nat /\ clusters(i) <= 65533
  <2> DEFINE x == cfg.block_count - (1 + 2 * i)
             q == x \div m
  <2>1. x \in Nat /\ x <= 65533
    BY <1>1, <1>3
  <2> HIDE DEF x
  <2>2. q \in Nat /\ q * m <= x
    <3>1. m \in Nat \ {0}
      BY <1>1
    <3>2. x \in Nat
      BY <2>1
    <3> QED BY <3>1, <3>2, DivFacts
  <2> HIDE DEF q
  <2>3. q <= q * m /\ q * m \in Nat
    BY <1>1, <2>2
  <2>4. q <= 65533
    BY <2>1, <2>2, <2>3
  <2> QED BY <2>2, <2>4 DEF q, x
<1>4. clusters(k) <= clusters(n)
  <2> DEFINE x == cfg.block_count - (1 + 2 * k)
             y == cfg.block_count - (1 + 2 * n)
  <2>1. x \in Nat /\ y \in Nat /\ x <= y
    BY <1>1
  <2> HIDE DEF x, y
  <2>2. x \div m <= y \div m
    <3>1. m \in Nat \ {0}
      BY <1>1
    <3> QED BY <2>1, <3>1, DivMonotone
  <2> QED BY <2>2 DEF x, y
<1> HIDE DEF clusters
<1>5. ASSUME NEW i \in Nat, i >= 1, i <= k
      PROVE  bytes(i) \in Nat /\ bytes(i) <= 65535 * size
  <2> DEFINE r == Root + clusters(i)
             top == 65535
  <2>1. r \in Nat /\ r <= top /\ top \in Nat
    BY <1>3, <1>5 DEF Root
  <2> HIDE DEF r, top
  <2>2. r * EntrySize <= top * EntrySize /\ r * EntrySize \in Int /\ top * EntrySize \in Int
    BY <1>1, <2>1, TimesMonotone
  <2>3. EntrySize * top <= size * top /\ EntrySize * top \in Int /\ size * top \in Int
    BY <1>1, <2>1, TimesMonotone
  <2>4. EntrySize * top = top * EntrySize /\ size * top = top * size
    BY <1>1, <2>1
  <2>5. r * EntrySize \in Nat /\ r * EntrySize <= top * size
    <3>1. r * EntrySize \in Nat
      BY <1>1, <2>1
    <3> QED BY <3>1, <2>2, <2>3, <2>4
  <2> QED BY <2>5 DEF r, top
<1>6. bytes(k) <= bytes(n)
  <2> DEFINE x == Root + clusters(k)
             y == Root + clusters(n)
  <2>1. x \in Int /\ y \in Int /\ x <= y
    BY <1>3, <1>4 DEF Root
  <2> HIDE DEF x, y
  <2>2. x * EntrySize <= y * EntrySize
    BY <1>1, <2>1, TimesMonotone
  <2> QED BY <2>2 DEF x, y
<1> HIDE DEF bytes
<1>7. need(k) <= need(n)
  <2> DEFINE x == bytes(k) + size - 1
             y == bytes(n) + size - 1
  <2>1. x \in Nat /\ y \in Nat /\ x <= y
    BY <1>1, <1>5, <1>6
  <2> HIDE DEF x, y
  <2>2. x \div size <= y \div size
    BY <1>1, <2>1, DivMonotone
  <2> QED BY <2>2 DEF x, y, CeilDiv
<1>8. ASSUME NEW i \in Nat, i >= 1, i <= k
      PROVE  need(i) \in Nat /\ need(i) < 65536
  <2>1. need(i) \in Nat /\ need(i) * size < bytes(i) + size
    <3> DEFINE x == bytes(i)
    <3>1. x \in Nat /\ size \in Nat \ {0}
      BY <1>1, <1>5, <1>8
    <3> HIDE DEF x
    <3>2. CeilDiv(x, size) \in Nat /\ CeilDiv(x, size) * size < x + size
      BY <3>1, CeilDivFacts
    <3> QED BY <3>2 DEF x
  <2> HIDE DEF need
  <2>2. bytes(i) \in Nat /\ bytes(i) <= 65535 * size
    BY <1>5, <1>8
  <2>3. need(i) * size < 65536 * size
    BY <1>1, <2>1, <2>2
  <2>4. ASSUME need(i) >= 65536 PROVE FALSE
    <3> DEFINE top == 65536
               x == need(i)
    <3>1. top \in Int /\ x \in Int /\ top <= x
      BY <2>1, <2>4
    <3> HIDE DEF top, x
    <3>2. top * size <= x * size /\ top * size \in Int /\ x * size \in Int
      BY <1>1, <3>1, TimesMonotone
    <3>3. x * size < top * size
      BY <2>3 DEF top, x
    <3> QED BY <3>2, <3>3
  <2> QED BY <2>1, <2>4
<1> HIDE DEF need
<1>9. \A i \in Nat : i >= 1 /\ i <= k => BlocksNeeded(cfg, i) = need(i)
  <2> TAKE i \in Nat
  <2> HAVE i >= 1 /\ i <= k
  <2>1. need(i) \in Nat /\ need(i) < 65536 /\ BlocksNeeded(cfg, i) = need(i) % 65536
    BY <1>2, <1>8
  <2> DEFINE x == need(i)
  <2> HIDE DEF x
  <2>2. x \in Nat /\ x < 65536
    BY <2>1 DEF x
  <2>3. x % 65536 = x
    BY <2>2
  <2> QED BY <2>1, <2>3 DEF x
<1> QED
  BY <1>7, <1>9

\* Three rounds are enough: the second finds what it needs.
LEMMA LoopSettles ==
    ASSUME NEW cfg \in FsConfig, Validate(cfg)
    PROVE  Settled(cfg)
<1> DEFINE B(n) == BlocksNeeded(cfg, n)
           n3 == GetFatBlockCount(cfg)
           one == 1
<1>1. Proper(cfg) /\ cfg.block_size >= BootSize /\ 1 + 2 * n3 < cfg.block_count
  BY ValidFacts DEF Validate
<1>2. n3 = Round(cfg, Round(cfg, Round(cfg, one)))
  BY <1>1, CountRounds
<1>3. one \in Nat /\ one >= 1
  OBVIOUS
<1> HIDE DEF one, n3
<1>4. CASE B(one) <= one
  <2>1. Round(cfg, one) = one
    BY <1>4 DEF Round
  <2>2. n3 = one
    BY <1>2, <2>1
  <2> QED BY <1>4, <2>2 DEF Settled, n3
<1>5. CASE ~(B(one) <= one)
  <2> DEFINE k == B(one)
  <2>1. Round(cfg, one) = k
    BY <1>5 DEF Round
  <2>2. k \in Nat /\ B(k) \in Nat
    BY <1>1, <1>3, NeededType
  <2>3. one <= k
    BY <1>3, <1>5, <2>2
  <2> HIDE DEF k
  <2>4. cfg.block_count \in Nat
    BY <1>1, ProperType
  <2>5. CASE 1 + 2 * k < cfg.block_count
    <3>1. B(k) <= B(one)
      BY <1>1, <1>3, <2>2, <2>3, <2>5, NeededLess
    <3>2. B(k) <= k
      BY <3>1 DEF k
    <3>3. Round(cfg, k) = k
      BY <3>2 DEF Round
    <3>4. n3 = k
      BY <1>2, <2>1, <3>3
    <3> QED BY <3>2, <3>4 DEF Settled, n3
  <2>6. CASE ~(1 + 2 * k < cfg.block_count)
    <3>1. B(k) = k
      BY <2>2, <2>4, <2>6, TwoCopies DEF BlocksNeeded
    <3>2. Round(cfg, k) = k
      BY <2>2, <3>1 DEF Round
    <3>3. n3 = k
      BY <1>2, <2>1, <3>2
    <3> QED BY <2>6, <3>3, <1>1
  <2> QED BY <2>5, <2>6
<1> QED
  BY <1>4, <1>5

\* Blocks of `size` bytes over blocks of one byte are runs of `size` of these, and
\* cover the device without meeting.
LEMMA BlocksCover ==
    ASSUME NEW d, d.block_size = 1, NEW size \in Nat \ {0}, NEW n \in Nat
    PROVE  Cardinality(UNION {PhysicalBlocks(d, size, i) : i \in 0..(n - 1)}) = n * size
<1> DEFINE U == UNION {PhysicalBlocks(d, size, i) : i \in 0..(n - 1)}
<1>1. \A i : PhysicalBlocks(d, size, i) = {i * size + j : j \in 0..(size - 1)}
  <2>1. Ratio(d, size) = size
    BY DivTrivial DEF Ratio
  <2> QED BY <2>1 DEF PhysicalBlocks
<1>2. ASSUME NEW x \in U PROVE x \in 0..(n * size - 1)
  <2>1. PICK i \in 0..(n - 1) : x \in PhysicalBlocks(d, size, i)
    OBVIOUS
  <2>2. PICK j \in 0..(size - 1) : x = i * size + j
    BY <1>1, <2>1
  <2> DEFINE r == i + 1
  <2>3. r \in Int /\ r <= n /\ r * size = i * size + size /\ i * size \in Nat
    OBVIOUS
  <2> HIDE DEF r
  <2>4. r * size <= n * size /\ r * size \in Int /\ n * size \in Int
    BY <2>3, TimesMonotone
  <2> QED BY <2>2, <2>3, <2>4
<1>3. ASSUME NEW x \in 0..(n * size - 1) PROVE x \in U
  <2> DEFINE q == x \div size
             j == x % size
  <2>1. n * size \in Nat
    OBVIOUS
  <2>2. x \in Nat /\ x < n * size
    BY <2>1
  <2>3. q \in Nat /\ j = x - q * size /\ j \in 0..(size - 1) /\ q * size \in Int
    <3>1. q \in Nat /\ j = x - q * size /\ j \in 0..(size - 1)
      BY <2>2, DivFacts
    <3> HIDE DEF q
    <3>2. q * size \in Int
      BY <3>1
    <3> QED BY <3>1, <3>2
  <2>4. q < n
    BY <2>2, DivBelow
  <2> HIDE DEF q, j
  <2>5. q \in 0..(n - 1) /\ x = q * size + j
    BY <2>2, <2>3, <2>4
  <2>6. x \in PhysicalBlocks(d, size, q)
    BY <1>1, <2>3, <2>5
  <2> QED BY <2>5, <2>6
<1>4. U = 0..(n * size - 1)
  BY <1>2, <1>3
<1>5. Cardinality(0..(n * size - 1)) = n * size
  <2> DEFINE x == n * size
  <2>1. x \in Nat
    OBVIOUS
  <2> HIDE DEF x
  <2>2. 0 \in Int /\ x - 1 \in Int
    BY <2>1
  <2>3. Cardinality(0..(x - 1)) = IF 0 > x - 1 THEN 0 ELSE (x - 1) - 0 + 1
    BY <2>2, FS_Interval
  <2>4. Cardinality(0..(x - 1)) = x
    BY <2>1, <2>3
  <2> QED BY <2>4 DEF x
<1> QED
  BY <1>4, <1>5

\* mkfs_myfs makes an image that a later open takes.
LEMMA ImageReopens ==
    ASSUME NEW cfg \in FsConfig, Validate(cfg)
    PROVE  Reopens(cfg)
<1> DEFINE b == Layout(cfg)
           size == cfg.block_size
           count == cfg.block_count
           bytes == size * count
           d == FileDevice(bytes, b.block_size)
           small == FileDevice(bytes, 1)
<1>1. /\ size \in Nat \ {0} /\ count \in Nat /\ count > 0 /\ bytes \in Nat
      /\ cfg = [block_size |-> size, block_count |-> count,
                blocks_per_cluster |-> cfg.blocks_per_cluster]
  <2>1. size \in Nat \ {0} /\ count \in Nat
    BY ValidFacts, ProperType
  <2>2. count > 0
    BY ValidFacts, <2>1
  <2>3. bytes \in Nat
    BY <2>1
  <2> QED BY <2>1, <2>2, <2>3 DEF FsConfig
<1>2. b.block_size = size /\ b.block_count = count
  BY DEF Layout
<1>3. bytes % size = 0 /\ bytes \div size = count
  BY <1>1, DivExact
<1>4. d = [block_size |-> size, block_count |-> count]
  BY <1>1, <1>2, <1>3 DEF FileDevice
<1>5. d # NoDevice
  <2>1. NoDevice.block_size = 0 /\ d.block_size # 0
    BY <1>1, <1>4 DEF NoDevice
  <2> QED BY <2>1
<1> HIDE DEF d
<1>6. LogicalDevice(d, size) = d
  <2>1. d.block_size = size /\ d.block_count = count
    BY <1>4
  <2>2. Ratio(d, size) = 1
    BY <1>1, <2>1, DivTrivial DEF Ratio
  <2>3. size % size = 0 /\ count % 1 = 0 /\ count \div 1 = count
    BY <1>1, DivTrivial
  <2>4. ~(size < size)
    BY <1>1
  <2> QED BY <1>4, <1>5, <2>1, <2>2, <2>3, <2>4 DEF LogicalDevice
<1>7. BootAccepted(b, d)
  <2>1. CanFormat(cfg, d)
    BY <1>1, <1>4 DEF CanFormat
  <2>2. [block_size |-> b.block_size, block_count |-> b.block_count,
         blocks_per_cluster |-> b.blocks_per_cluster] = cfg
    BY <1>1, <1>2 DEF Layout
  <2>3. /\ b.fat_blocks = GetFatBlockCount(cfg) /\ b.fat_start = 1 /\ b.root = Root
        /\ b.data_start = (1 + GetFatBlockCount(cfg) * 2) % 65536 /\ b.fat_copies = 2
    BY DEF Layout
  <2>4. GetFatBlockCount(cfg) \in Nat
    BY ValidFacts
  <2>5. GetFatBlockCount(cfg) * 2 = 2 * GetFatBlockCount(cfg)
    BY <2>4
  <2> HIDE DEF b
  <2> QED BY <2>1, <2>2, <2>3, <2>5 DEF BootAccepted
<1>8. ~BootAccepted(ZeroBoot, d)
  <2>1. ~(0 >= BootSize)
    BY SizesType
  <2>2. ZeroBoot.block_size = 0
    BY DEF ZeroBoot
  <2> QED BY <2>1, <2>2 DEF BootAccepted, CanFormat, Validate
<1>9. small = [block_size |-> 1, block_count |-> bytes]
  <2>1. bytes % 1 = 0 /\ bytes \div 1 = bytes
    BY <1>1, DivTrivial
  <2> QED BY <2>1 DEF FileDevice
<1>10. LogicalDevice(small, size) = d
  <2>1. small.block_size = 1 /\ small.block_count = bytes
    BY <1>9
  <2>2. small # NoDevice
    <3>1. NoDevice.block_size = 0 /\ small.block_size # 0
      BY <1>9 DEF NoDevice
    <3> QED BY <3>1
  <2> HIDE DEF small, bytes
  <2>3. Ratio(small, size) = size
    BY <1>1, <2>1, DivTrivial DEF Ratio
  <2>4. size % 1 = 0 /\ ~(size < 1)
    BY <1>1, DivTrivial
  <2> QED BY <1>3, <1>4, <2>1, <2>2, <2>3, <2>4 DEF LogicalDevice
<1>11. Cardinality(UNION {PhysicalBlocks(small, size, i) : i \in 0..(count - 1)}) = count * size
  <2>1. small.block_size = 1
    BY <1>9
  <2> HIDE DEF small
  <2> QED BY <1>1, <2>1, BlocksCover
<1> HIDE DEF b, small, bytes
<1>12. /\ BootAccepted(b, LogicalDevice(d, b.block_size)) /\ ~BootAccepted(ZeroBoot, d)
       /\ LogicalDevice(small, b.block_size) = d
       /\ Cardinality(UNION {PhysicalBlocks(small, b.block_size, i) : i \in 0..(b.block_count - 1)})
             = b.block_count * b.block_size
  BY <1>2, <1>6, <1>7, <1>8, <1>10, <1>11
<1> QED
  BY <1>12 DEF Reopens, b, d, small, bytes

\* get_fat_block_count has converged after three rounds on every configuration that
\* validate accepts; the layout it gives keeps both FATs and all clusters apart and on
\* the device, without a wrap around 16 bits; and the image that mkfs_myfs makes of it is
\* one that open_on_device accepts.
THEOREM LayoutSound ==
    \A cfg \in FsConfig : Validate(cfg) =>
        Settled(cfg) /\ RegionsSound(Layout(cfg)) /\ Reopens(cfg)
  BY LoopSettles, LayoutRegions, ImageReopens

-----------------------------------------------------------------------------
(* Addresses on an image of FatDisk.                                       *)

\* A boot sector of the image: one block to a cluster, and as many clusters as the table
\* has.
LEMMA BootFacts ==
    ASSUME NEW b \in BootSectors
    PROVE  /\ b # ZeroBoot /\ b.block_size \in Nat \ {0}
           /\ b.block_count \in Nat /\ b.fat_blocks \in Nat /\ b.fat_blocks >= 1
           /\ b.data_start = 1 + 2 * b.fat_blocks /\ b.data_start < b.block_count
           /\ FatStart(b, 1) = 1 /\ FatStart(b, 2) = 1 + b.fat_blocks
           /\ \A c \in Cluster :
                 /\ FirstBlock(b, c) = b.data_start + (c - Root)
                 /\ c - Root \in Nat /\ b.data_start + (c - Root) < b.block_count
                 /\ FatBlock(b, c) \in Nat /\ FatBlock(b, c) < b.fat_blocks
<1>1. PICK cfg \in Configs : Validate(cfg) /\ b = Layout(cfg)
  BY DEF BootSectors
<1>2. /\ cfg \in FsConfig /\ cfg.blocks_per_cluster = 1
      /\ MaxClusterId(Layout(cfg)) = MaxCluster
  BY <1>1, ImageAssumption
<1>3. /\ b.block_size \in Nat \ {0}
      /\ b.block_count \in Nat /\ b.fat_blocks \in Nat /\ b.fat_blocks >= 1
      /\ b.data_start = 1 + 2 * b.fat_blocks /\ b.data_start < b.block_count
      /\ \A copy \in FatCopies : FatStart(b, copy) = 1 + (copy - 1) * b.fat_blocks
  BY <1>1, <1>2, LayoutFacts
<1>4. b # ZeroBoot
  BY <1>3 DEF ZeroBoot
<1>5. b.blocks_per_cluster = 1
  BY <1>1, <1>2 DEF Layout
<1>6. ASSUME NEW c \in Cluster
      PROVE  /\ FirstBlock(b, c) = b.data_start + (c - Root)
             /\ c - Root \in Nat /\ b.data_start + (c - Root) < b.block_count
             /\ FatBlock(b, c) \in Nat /\ FatBlock(b, c) < b.fat_blocks
  <2>1. c \in Root..MaxClusterId(Layout(cfg))
    BY <1>2 DEF Cluster
  <2>2. /\ FirstBlock(b, c) = b.data_start + (c - Root) * 1
        /\ b.data_start + (c - Root) * 1 + 1 <= b.block_count
        /\ FatBlock(b, c) \in Nat /\ FatBlock(b, c) < b.fat_blocks
    BY <1>1, <1>2, <1>5, <2>1, ClusterAddress
  <2>3. c - Root \in Nat
    BY TableAssumption DEF Cluster, Root
  <2>4. (c - Root) * 1 = c - Root
    BY <2>3
  <2> QED BY <1>3, <2>2, <2>3, <2>4
<1>7. FatStart(b, 1) = 1 /\ FatStart(b, 2) = 1 + b.fat_blocks
  BY <1>3 DEF FatCopies
<1> QED
  BY <1>3, <1>4, <1>6, <1>7

\* The blocks of clusters are different blocks, and none is block 0.
LEMMA ClusterBlock ==
    ASSUME NEW b \in BootSectors, NEW c \in Cluster
    PROVE  /\ FirstBlock(b, c) \in 0..(b.block_count - 1) /\ FirstBlock(b, c) # 0
           /\ FirstBlock(b, c) >= b.data_start
           /\ \A x \in Cluster : FirstBlock(b, x) = FirstBlock(b, c) => x = c
<1>1. /\ b.block_count \in Nat /\ b.fat_blocks \in Nat /\ b.fat_blocks >= 1
      /\ b.data_start = 1 + 2 * b.fat_blocks
      /\ \A x \in Cluster :
            /\ FirstBlock(b, x) = b.data_start + (x - Root)
            /\ x - Root \in Nat /\ b.data_start + (x - Root) < b.block_count
  BY BootFacts
<1>2. \A x \in Cluster : x \in Nat
  BY ClusterFacts
<1>3. ASSUME NEW x \in Cluster, FirstBlock(b, x) = FirstBlock(b, c) PROVE x = c
  <2>1. x \in Nat /\ c \in Nat /\ b.data_start + (x - Root) = b.data_start + (c - Root)
    BY <1>1, <1>2, <1>3
  <2> QED BY <1>1, <2>1 DEF Root
<1> QED
  BY <1>1, <1>3

\* Where the table keeps the entry of a cluster: before the clusters, after block 0, and
\* no two entries at one place.
LEMMA EntryPlace ==
    ASSUME NEW b \in BootSectors, NEW copy \in FatCopies, NEW c \in Cluster
    PROVE  /\ FatBlockOf(b, copy, c) \in 0..(b.block_count - 1) /\ FatBlockOf(b, copy, c) # 0
           /\ \A x \in Cluster : FatBlockOf(b, copy, c) # FirstBlock(b, x)
           /\ \A k \in FatCopies, x \in Cluster :
                 FatBlockOf(b, k, x) = FatBlockOf(b, copy, c) /\ FatOffset(b, x) = FatOffset(b, c)
                    => k = copy /\ x = c
<1> DEFINE n == b.fat_blocks
           at(x) == FatBlock(b, x)
<1>1. /\ b.block_size \in Nat \ {0} /\ b.block_count \in Nat /\ n \in Nat /\ n >= 1
      /\ b.data_start = 1 + 2 * n /\ b.data_start < b.block_count
      /\ FatStart(b, 1) = 1 /\ FatStart(b, 2) = 1 + n
      /\ \A x \in Cluster : at(x) \in Nat /\ at(x) < n
  BY BootFacts
<1> HIDE DEF n, at
<1>2. \A k \in FatCopies, x \in Cluster :
         FatBlockOf(b, k, x) = IF k = 1 THEN 1 + at(x) ELSE 1 + n + at(x)
  BY <1>1 DEF FatCopies, FatBlockOf, at
<1>3. \A k \in FatCopies : k = 1 \/ k = 2
  BY DEF FatCopies
<1>4. FatBlockOf(b, copy, c) \in 1..(2 * n)
  BY <1>1, <1>2
<1>5. \A x \in Cluster : FirstBlock(b, x) >= 1 + 2 * n /\ FirstBlock(b, x) \in Int
  BY <1>1, ClusterBlock
<1>6. ASSUME NEW k \in FatCopies, NEW x \in Cluster,
             FatBlockOf(b, k, x) = FatBlockOf(b, copy, c), FatOffset(b, x) = FatOffset(b, c)
      PROVE  k = copy /\ x = c
  <2>1. k = copy /\ at(x) = at(c)
    BY <1>1, <1>2, <1>3, <1>6
  <2> DEFINE size == b.block_size
             X == x * EntrySize
             C == c * EntrySize
             q == X \div size
  <2>2. x \in Nat /\ c \in Nat /\ X \in Nat /\ C \in Nat
    <3>1. x \in Nat /\ c \in Nat
      BY ClusterFacts
    <3> QED BY <3>1, SizesType
  <2>3. X \div size = C \div size /\ X % size = C % size
    BY <1>6, <2>1 DEF at, FatBlock, FatOffset
  <2> HIDE DEF X, C
  <2>4. size \in Nat \ {0}
    BY <1>1
  <2> HIDE DEF size
  <2>5. X % size = X - (X \div size) * size /\ X \div size \in Nat
    BY <2>2, <2>4, DivFacts
  <2>6. C % size = C - (C \div size) * size
    BY <2>2, <2>4, DivFacts
  <2> HIDE DEF q
  <2>7. X = C
    <3> DEFINE p == (X \div size) * size
    <3>1. p \in Int
      BY <2>4, <2>5
    <3>2. X % size = X - p /\ C % size = C - p
      BY <2>3, <2>5, <2>6
    <3> HIDE DEF p
    <3> QED BY <2>2, <2>3, <3>1, <3>2
  <2>8. x = c
    <3>1. EntrySize \in Nat \ {0}
      BY SizesType
    <3>2. (EntrySize * x) \div EntrySize = x /\ (EntrySize * c) \div EntrySize = c
      BY <2>2, <3>1, DivExact
    <3>3. EntrySize * x = X /\ EntrySize * c = C
      BY <2>2, <3>1 DEF X, C
    <3> QED BY <2>7, <3>2, <3>3
  <2> QED BY <2>1, <2>8
<1>7. /\ FatBlockOf(b, copy, c) \in 0..(b.block_count - 1) /\ FatBlockOf(b, copy, c) # 0
      /\ \A x \in Cluster : FatBlockOf(b, copy, c) # FirstBlock(b, x)
  BY <1>1, <1>4, <1>5
<1> QED
  BY <1>6, <1>7
-----------------------------------------------------------------------------
(* Maps.                                                                   *)

\* A map of one key.
LEMMA SingleFacts ==
    ASSUME NEW x, NEW y
    PROVE  DOMAIN Single(x, y) = {x} /\ Single(x, y)[x] = y
  BY DEF Single

\* A map laid over another.
LEMMA OverlayFacts ==
    ASSUME NEW f, NEW g
    PROVE  /\ DOMAIN Overlay(f, g) = DOMAIN f \cup DOMAIN g
           /\ \A x \in DOMAIN f : Overlay(f, g)[x] = f[x]
           /\ \A x \in DOMAIN g : x \notin DOMAIN f => Overlay(f, g)[x] = g[x]
  BY DEF Overlay

\* A table with some entries put into it.
LEMMA PutTable ==
    ASSUME NEW f \in [Cluster -> FatEntry], NEW put,
           DOMAIN put \subseteq Cluster, \A c \in DOMAIN put : put[c] \in FatEntry
    PROVE  /\ Overlay(put, f) \in [Cluster -> FatEntry]
           /\ \A c \in Cluster :
                 Overlay(put, f)[c] = IF c \in DOMAIN put THEN put[c] ELSE f[c]
<1>1. Overlay(put, f) = [c \in Cluster |-> IF c \in DOMAIN put THEN put[c] ELSE f[c]]
  BY DEF Overlay
<1> QED
  BY <1>1

\* Nothing put.
LEMMA EmptyMap == DOMAIN <<>> = {}
  OBVIOUS

-----------------------------------------------------------------------------
(* Chains as paths: the clusters of a file, each led to by the entry of    *)
(* the one before.                                                         *)

Links(f, p) ==
    /\ p \in Seq(Cluster \ {Root})
    /\ \A i, j \in 1..Len(p) : p[i] = p[j] => i = j
    /\ \A i \in 1..(Len(p) - 1) : f[p[i]] = p[i + 1]
    /\ Len(p) > 0 => f[p[Len(p)]] = EOC
HeadOf(p) == IF Len(p) = 0 THEN FREE ELSE p[1]

\* A path is shorter than the table.
LEMMA PathShort ==
    ASSUME NEW p \in Seq(Cluster \ {Root}), \A i, j \in 1..Len(p) : p[i] = p[j] => i = j
    PROVE  Len(p) \in Nat /\ Len(p) < MaxCluster
<1> DEFINE n == Len(p)
           T == {p[i] : i \in 1..n}
<1>1. n \in Nat /\ \A i \in 1..n : p[i] \in Cluster
  OBVIOUS
<1>2. Cardinality(T) = n
  BY <1>1, Injected
<1>3. T \subseteq Cluster
  BY <1>1
<1> HIDE DEF T
<1>4. IsFiniteSet(Cluster) /\ Cardinality(Cluster) = MaxCluster - 1
  <2>1. Root \in Int /\ MaxCluster \in Int /\ Root = 2 /\ Root <= MaxCluster
    BY TableAssumption DEF Root
  <2>2. IsFiniteSet(Root..MaxCluster)
        /\ Cardinality(Root..MaxCluster) = IF Root > MaxCluster THEN 0 ELSE MaxCluster - Root + 1
    BY <2>1, FS_Interval
  <2> QED BY <2>1, <2>2 DEF Cluster
<1>5. Cardinality(T) <= Cardinality(Cluster)
  BY <1>3, <1>4, FS_Subset
<1> QED
  BY <1>1, <1>2, <1>4, <1>5, TableAssumption

\* Such a path is the chain from its head.
LEMMA PathChain ==
    ASSUME NEW f \in [Cluster -> FatEntry], NEW p, Links(f, p)
    PROVE  Chain(f, HeadOf(p)) = p
<1> DEFINE h == HeadOf(p)
           n == Len(p)
           W == Walk(f, h)
           l == WalkLen(f, h)
           Bad == {k \in 0..(n - 1) : W[k] # p[k + 1]}
<1>1. /\ p \in Seq(Cluster \ {Root}) /\ n \in Nat /\ n < MaxCluster
      /\ MaxCluster \in Nat
  BY PathShort, TableAssumption DEF Links
<1>2. CASE n = 0
  <2>1. h = FREE /\ p = <<>>
    BY <1>1, <1>2 DEF HeadOf
  <2>2. Chain(f, FREE) = <<>>
    BY ChainFacts
  <2> QED BY <2>1, <2>2
<1>3. CASE n > 0
  <2>1. h = p[1] /\ h \in FatEntry
    BY <1>1, <1>3 DEF HeadOf, FatEntry
  <2>2. /\ W \in [0..MaxCluster -> FatEntry] /\ W[0] = h
        /\ \A k \in 1..MaxCluster : W[k] = Follow(f)[W[k - 1]]
    BY <2>1, WalkFacts
  <2>3. l \in 0..(MaxCluster + 1) /\ Chain(f, h) = [i \in 1..l |-> W[i - 1]]
    BY WalkLenType, ChainIsWalk
  <2>4. \A k \in 0..MaxCluster : k < l <=> W[k] \in Cluster
    BY <2>1, WalkPrefix
  <2> HIDE DEF W, l, h
  <2>5. Bad = {}
    <3>1. SUFFICES ASSUME Bad # {} PROVE FALSE
      OBVIOUS
    <3>2. PICK b \in Bad : \A k \in Bad : b <= k
      <4>1. Bad \in SUBSET Nat
        BY <1>1
      <4> HIDE DEF Bad
      <4> QED BY <3>1, <4>1, MinIsLeast
    <3>3. b # 0
      BY <3>2, <2>1, <2>2
    <3>4. b \in 1..MaxCluster /\ b - 1 \in 0..(n - 1) /\ ~(b <= b - 1) /\ b \in 1..(n - 1)
          /\ b \in 1..n /\ (b - 1) + 1 = b
      BY <1>1, <3>2, <3>3
    <3>5. W[b - 1] = p[b]
      BY <3>2, <3>4
    <3>6. p[b] \in Cluster /\ f[p[b]] = p[b + 1]
      BY <1>1, <3>4 DEF Links
    <3>7. W[b] = f[p[b]]
      BY <2>2, <3>4, <3>5, <3>6 DEF Follow, FatEntry
    <3> QED BY <3>2, <3>6, <3>7
  <2>6. \A k \in 0..(n - 1) : W[k] = p[k + 1] /\ W[k] \in Cluster
    BY <1>1, <2>5
  <2>7. W[n] = EOC
    <3>1. n \in 1..MaxCluster /\ n - 1 \in 0..(n - 1) /\ (n - 1) + 1 = n
      BY <1>1, <1>3
    <3>2. W[n - 1] = p[n] /\ W[n - 1] \in Cluster
      BY <2>6, <3>1
    <3>3. f[p[n]] = EOC
      BY <1>3 DEF Links
    <3> QED BY <2>2, <3>1, <3>2, <3>3 DEF Follow, FatEntry
  <2>8. l = n
    <3>1. ~(n < l)
      BY <1>1, <2>4, <2>7, ClusterFacts
    <3>2. n - 1 < l
      <4>1. n - 1 \in 0..MaxCluster /\ n - 1 \in 0..(n - 1)
        BY <1>1, <1>3
      <4> QED BY <2>4, <2>6, <4>1
    <3> QED BY <1>1, <2>3, <3>1, <3>2
  <2>9. \A i \in 1..n : W[i - 1] = p[i]
    <3> TAKE i \in 1..n
    <3>1. i - 1 \in 0..(n - 1) /\ (i - 1) + 1 = i
      BY <1>1
    <3> QED BY <2>6, <3>1
  <2>10. p = [i \in 1..n |-> p[i]]
    BY <1>1
  <2> QED BY <2>3, <2>8, <2>9, <2>10 DEF h
<1> QED
  BY <1>1, <1>2, <1>3

\* So it is a whole chain, ...
LEMMA PathWhole ==
    ASSUME NEW f \in [Cluster -> FatEntry], NEW p, Links(f, p), NEW n, n = Len(p)
    PROVE  Chain(f, HeadOf(p)) = p /\ Whole(f, HeadOf(p), n)
           /\ HeadOf(p) \in Cluster \cup {FREE} /\ n \in Nat
<1>1. p \in Seq(Cluster \ {Root}) /\ n \in Nat
  BY DEF Links
<1>2. Chain(f, HeadOf(p)) = p
  BY PathChain
<1>3. n = 0 => HeadOf(p) = FREE
  BY DEF HeadOf
<1>4. n > 0 => HeadOf(p) \in Cluster /\ HeadOf(p) # FREE
  BY <1>1, ClusterFacts DEF HeadOf
<1>5. HeadOf(p) = FREE <=> n = 0
  BY <1>1, <1>3, <1>4
<1>6. HeadOf(p) \in Cluster \cup {FREE}
  BY <1>1, <1>3, <1>4
<1> QED
  BY <1>1, <1>2, <1>5, <1>6 DEF Whole, Links

\* ... and a whole chain is such a path.
LEMMA WholePath ==
    ASSUME NEW f \in [Cluster -> FatEntry], NEW h \in Cluster \cup {FREE}, NEW n,
           Whole(f, h, n)
    PROVE  Links(f, Chain(f, h)) /\ h = HeadOf(Chain(f, h)) /\ Len(Chain(f, h)) = n /\ n \in Nat
<1> DEFINE p == Chain(f, h)
<1>1. /\ p \in Seq(Cluster \ {Root}) /\ Len(p) = n /\ (h = FREE <=> n = 0)
      /\ \A i, j \in 1..n : p[i] = p[j] => i = j
      /\ n > 0 => f[p[n]] = EOC
  BY DEF Whole
<1>2. /\ h # FREE => p[1] = h
      /\ \A i \in 2..Len(p) : p[i] \in Cluster => f[p[i - 1]] = p[i]
  BY ChainFacts
<1> HIDE DEF p
<1>3. n \in Nat
  BY <1>1
<1>4. ASSUME NEW i \in 1..(Len(p) - 1) PROVE f[p[i]] = p[i + 1]
  <2>1. i + 1 \in 2..Len(p) /\ i + 1 \in 1..Len(p) /\ (i + 1) - 1 = i
    BY <1>1, <1>3
  <2>2. p[i + 1] \in Cluster
    BY <1>1, <2>1
  <2>3. f[p[(i + 1) - 1]] = p[i + 1]
    BY <1>2, <2>1, <2>2
  <2> QED BY <2>1, <2>3
<1>5. h = HeadOf(p)
  BY <1>1, <1>2 DEF HeadOf
<1> QED
  BY <1>1, <1>3, <1>4, <1>5 DEF Links, p

\* A path is one in every table that agrees on its clusters.
LEMMA PathLocal ==
    ASSUME NEW f, NEW g, NEW p, Links(f, p), \A x \in ToSet(p) : g[x] = f[x]
    PROVE  Links(g, p)
<1>1. p \in Seq(Cluster \ {Root}) /\ Len(p) \in Nat /\ DOMAIN p = 1..Len(p)
  BY DEF Links
<1>2. \A i \in 1..Len(p) : g[p[i]] = f[p[i]]
  BY <1>1 DEF ToSet
<1>3. \A i \in 1..(Len(p) - 1) : i \in 1..Len(p)
  BY <1>1
<1>4. Len(p) > 0 => Len(p) \in 1..Len(p)
  BY <1>1
<1> QED
  BY <1>2, <1>3, <1>4 DEF Links

\* The first clusters of a path, when the last of them ends it.
LEMMA PathCut ==
    ASSUME NEW f, NEW g, NEW p, Links(f, p), NEW n \in 0..Len(p),
           \A i \in 1..(n - 1) : g[p[i]] = f[p[i]], n > 0 => g[p[n]] = EOC
    PROVE  LET q == [i \in 1..n |-> p[i]]
           IN  Links(g, q) /\ Len(q) = n /\ q = SubSeq(p, 1, n)
<1> DEFINE q == [i \in 1..n |-> p[i]]
<1>1. p \in Seq(Cluster \ {Root}) /\ Len(p) \in Nat /\ n \in Nat /\ n <= Len(p)
  BY DEF Links
<1>2. \A i \in 1..n : i \in 1..Len(p) /\ p[i] \in Cluster \ {Root}
  BY <1>1
<1>3. q \in Seq(Cluster \ {Root}) /\ Len(q) = n
  BY <1>1, <1>2
<1>4. q = SubSeq(p, 1, n)
  BY <1>1
<1>5. \A i \in 1..(n - 1) : i \in 1..n /\ i + 1 \in 1..n /\ i \in 1..(Len(p) - 1)
  BY <1>1
<1>6. n > 0 => n \in 1..n
  BY <1>1
<1> QED
  BY <1>2, <1>3, <1>4, <1>5, <1>6 DEF Links

-----------------------------------------------------------------------------
(* Growth, and taking it back.                                             *)

\* Clusters in order: each of them once, from the least to the greatest.
LEMMA AscendingFacts ==
    ASSUME NEW S \in SUBSET Cluster
    PROVE  LET asc == Ascending(S)
               m == Cardinality(S)
           IN  /\ m \in Nat /\ asc \in Seq(S) /\ Len(asc) = m /\ DOMAIN asc = 1..m
               /\ \A x \in S : \E i \in 1..m : asc[i] = x
               /\ \A i, j \in 1..m : asc[i] = asc[j] => i = j
               /\ m > 0 => asc[1] = Min(S) /\ {x \in S : x > asc[m]} = {}
               /\ \A i \in 1..(m - 1) :
                     {x \in S : x > asc[i]} # {} /\ Min({x \in S : x > asc[i]}) = asc[i + 1]
<1> DEFINE asc == Ascending(S)
           m == Cardinality(S)
           Below(x) == {y \in S : y < x}
           r(x) == Cardinality(Below(x))
           R == [x \in S |-> r(x) + 1]
<1>1. IsFiniteSet(S) /\ m \in Nat /\ S \subseteq Nat
  BY FiniteClusters, ClusterFacts
<1>2. \A x : Below(x) \subseteq S /\ IsFiniteSet(Below(x)) /\ r(x) \in Nat
  <2>1. \A x : Below(x) \in SUBSET Cluster /\ Below(x) \subseteq S
    OBVIOUS
  <2> HIDE DEF Below
  <2> QED BY <2>1, FiniteClusters
<1>3. ASSUME NEW x \in S, NEW y \in S, x < y
      PROVE  r(x) < r(y)
  <2>1. x \notin Below(x) /\ Below(x) \cup {x} \subseteq Below(y)
    <3>1. \A z \in S : z \in Nat
      BY <1>1
    <3>2. x \in Nat /\ y \in Nat /\ ~(x < x) /\ \A z \in Nat : z < x => z < y
      BY <1>1, <1>3
    <3> QED BY <1>3, <3>1, <3>2
  <2> HIDE DEF Below
  <2>2. Cardinality(Below(x) \cup {x}) = r(x) + 1
    BY <1>2, <2>1, FS_AddElement
  <2>3. Cardinality(Below(x) \cup {x}) <= r(y)
    BY <1>2, <2>1, FS_Subset
  <2> QED BY <1>2, <2>2, <2>3
<1>4. ASSUME NEW x \in S PROVE r(x) + 1 \in 1..m
  <2>1. x \notin Below(x) /\ Below(x) \cup {x} \subseteq S
    BY <1>1
  <2> HIDE DEF Below
  <2>2. Cardinality(Below(x) \cup {x}) = r(x) + 1
    BY <1>2, <2>1, FS_AddElement
  <2>3. Cardinality(Below(x) \cup {x}) <= m
    BY <1>1, <2>1, FS_Subset
  <2> QED BY <1>1, <1>2, <2>2, <2>3
<1>31. \A x : r(x) \in Nat
  BY <1>2
<1> HIDE DEF r
<1>5. \A x, y \in S : r(x) = r(y) => x = y
  <2>1. \A x, y \in S : x < y \/ y < x \/ x = y
    BY <1>1
  <2>2. \A x, y \in S : x < y => r(x) < r(y)
    BY <1>3
  <2>3. \A x \in S : r(x) \in Nat
    BY <1>2
  <2> QED BY <2>1, <2>2, <2>3
<1>6. \A i \in 1..m : \E x \in S : r(x) = i - 1
  <2> DEFINE T == 1..m
  <2>1. IsFiniteSet(T) /\ Cardinality(T) = m
    <3>1. 1 \in Int /\ m \in Int
      BY <1>1
    <3>2. IsFiniteSet(1..m) /\ Cardinality(1..m) = IF 1 > m THEN 0 ELSE m - 1 + 1
      BY <3>1, FS_Interval
    <3> QED BY <1>1, <3>2
  <2>2. R \in [S -> T]
    BY <1>4
  <2>3. \A x, y \in S : R[x] = R[y] => x = y
    <3>1. \A x \in S : R[x] = r(x) + 1
      OBVIOUS
    <3> HIDE DEF R
    <3>2. \A x, y \in S : R[x] = R[y] => r(x) = r(y)
      BY <1>31, <3>1
    <3> QED BY <1>5, <3>2
  <2>4. R \in Injection(S, T)
    BY <2>2, <2>3 DEF Injection, IsInjective
  <2> HIDE DEF R, T
  <2>5. R \in Surjection(S, T)
    BY <1>1, <2>1, <2>4, FS_Injection
  <2>6. \A i \in T : \E x \in S : R[x] = i
    BY <2>5 DEF Surjection
  <2>7. \A x \in S : R[x] = r(x) + 1
    BY DEF R
  <2> QED BY <1>31, <2>6, <2>7 DEF T
<1>61. asc = [i \in 1..m |-> CHOOSE x \in S : r(x) = i - 1]
  BY DEF Ascending, r
<1> HIDE DEF asc
<1>7. \A i \in 1..m : asc[i] = CHOOSE x \in S : r(x) = i - 1
  BY <1>61
<1>8. DOMAIN asc = 1..m /\ asc = [i \in 1..m |-> asc[i]]
  BY <1>61
<1>9. \A i \in 1..m : asc[i] \in S /\ r(asc[i]) = i - 1
  BY <1>6, <1>7
<1> HIDE DEF m
<1>10. asc \in Seq(S) /\ Len(asc) = m
  BY <1>1, <1>8, <1>9
<1>11. ASSUME NEW x \in S PROVE \E i \in 1..m : asc[i] = x
  <2> DEFINE i == r(x) + 1
  <2>1. i \in 1..m /\ i - 1 = r(x)
    BY <1>31, <1>4
  <2> HIDE DEF i
  <2>2. asc[i] = x
    BY <1>5, <1>9, <2>1
  <2> QED BY <2>1, <2>2
<1>12. ASSUME NEW i \in 1..m, NEW j \in 1..m PROVE (asc[i] = asc[j] => i = j) /\ (i < j <=> asc[i] < asc[j])
  <2>1. asc[i] \in S /\ asc[j] \in S /\ asc[i] \in Nat /\ asc[j] \in Nat
    BY <1>1, <1>9
  <2>2. r(asc[i]) = i - 1 /\ r(asc[j]) = j - 1 /\ i \in Int /\ j \in Int
    BY <1>9
  <2>3. /\ asc[i] < asc[j] => r(asc[i]) < r(asc[j])
        /\ asc[j] < asc[i] => r(asc[j]) < r(asc[i])
    BY <1>3, <2>1
  <2>4. asc[i] < asc[j] \/ asc[j] < asc[i] \/ asc[i] = asc[j]
    BY <2>1
  <2> QED BY <2>1, <2>2, <2>3, <2>4
<1>13. ASSUME m > 0 PROVE asc[1] = Min(S) /\ {x \in S : x > asc[m]} = {}
  <2>1. 1 \in 1..m /\ m \in 1..m
    BY <1>1, <1>13
  <2>2. Min(S) \in S /\ \A x \in S : Min(S) <= x
    <3>1. S # {}
      BY <1>9, <2>1
    <3> QED BY <1>1, <3>1, MinIsLeast
  <2>3. PICK i \in 1..m : asc[i] = Min(S)
    BY <1>11, <2>2
  <2>4. i = 1
    <3>1. ~(1 < i)
      <4>1. ASSUME 1 < i PROVE FALSE
        <5>1. asc[1] < Min(S) /\ Min(S) <= asc[1]
          BY <1>9, <1>12, <2>1, <2>2, <2>3, <4>1
        <5>2. asc[1] \in Nat /\ Min(S) \in Nat
          BY <1>1, <1>9, <2>1, <2>2
        <5> QED BY <5>1, <5>2
      <4> QED BY <4>1
    <3> QED BY <1>1, <3>1
  <2>5. ASSUME NEW x \in S PROVE ~(x > asc[m])
    <3>1. PICK j \in 1..m : asc[j] = x
      BY <1>11
    <3>2. ~(m < j)
      BY <1>1
    <3>3. ~(asc[m] < asc[j])
      BY <1>12, <2>1, <3>2
    <3>4. asc[m] \in Nat /\ x \in Nat
      BY <1>1, <1>9, <2>1
    <3> QED BY <3>1, <3>3, <3>4
  <2> QED BY <2>3, <2>4, <2>5
<1>14. ASSUME NEW i \in 1..(m - 1)
       PROVE  {x \in S : x > asc[i]} # {} /\ Min({x \in S : x > asc[i]}) = asc[i + 1]
  <2> DEFINE A == {x \in S : x > asc[i]}
  <2>1. i \in 1..m /\ i + 1 \in 1..m /\ i < i + 1
    BY <1>1
  <2>2. asc[i + 1] \in S /\ asc[i] \in S /\ asc[i] < asc[i + 1]
    BY <1>9, <1>12, <2>1
  <2>3. asc[i + 1] \in A
    BY <1>1, <2>2
  <2>4. A \in SUBSET Nat /\ A \subseteq S /\ \A x \in A : asc[i] < x
    BY <1>1, <2>2
  <2> HIDE DEF A
  <2>5. Min(A) \in A /\ \A x \in A : Min(A) <= x
    BY <2>3, <2>4, MinIsLeast
  <2>6. PICK j \in 1..m : asc[j] = Min(A)
    BY <1>11, <2>4, <2>5
  <2>7. i < j
    BY <1>12, <2>1, <2>4, <2>5, <2>6
  <2>8. ~(asc[i + 1] < asc[j])
    <3>1. Min(A) <= asc[i + 1] /\ Min(A) \in Nat /\ asc[i + 1] \in Nat
      BY <2>3, <2>4, <2>5
    <3> QED BY <2>6, <3>1
  <2>9. ~(i + 1 < j)
    BY <1>12, <2>1, <2>8
  <2>10. j = i + 1
    BY <2>1, <2>7, <2>9
  <2> QED BY <2>3, <2>6, <2>10 DEF A
<1> QED
  BY <1>1, <1>8, <1>10, <1>11, <1>12, <1>13, <1>14 DEF asc, m

\* The clusters that ensure_fcb_chain_capacity gives a file, and the table after: the
\* path goes on over them, no other entry changes, and trim_chain_len takes it all back.
LEMMA GrowFacts ==
    ASSUME NEW f \in [Cluster -> FatEntry], f[Root] # FREE, NEW p, Links(f, p),
           NEW need \in Nat, Fits(f, HeadOf(p), need)
    PROVE  LET k == Len(p)
               m == Missing(f, HeadOf(p), need)
               new == Lowest(m, FreeClusters(f))
               asc == Ascending(new)
           IN  /\ k \in Nat /\ m \in Nat /\ m = IF need > k THEN need - k ELSE 0
               /\ new \subseteq Cluster \ {Root} /\ \A x \in new : f[x] = FREE
               /\ \A i \in 1..k : p[i] \notin new
               /\ asc \in Seq(new) /\ Len(asc) = m /\ DOMAIN asc = 1..m
               /\ \A x \in new : \E i \in 1..m : asc[i] = x
               /\ \A i, j \in 1..m : asc[i] = asc[j] => i = j
               /\ new = {} <=> m = 0
<1> DEFINE k == Len(p)
           h == HeadOf(p)
           m == Missing(f, h, need)
           new == Lowest(m, FreeClusters(f))
           asc == Ascending(new)
<1>1. Chain(f, h) = p /\ k \in Nat
  BY PathWhole
<1>2. m \in Nat /\ m = IF need > k THEN need - k ELSE 0
  BY <1>1 DEF Missing
<1>3. FreeClusters(f) \in SUBSET Cluster /\ m <= Cardinality(FreeClusters(f))
  BY DEF Fits, FreeClusters
<1> HIDE DEF m
<1>4. Cardinality(new) = m
  BY <1>2, <1>3, LowestCount
<1>5. new \in SUBSET Cluster /\ \A x \in new : f[x] = FREE
  BY DEF Lowest, FreeClusters
<1> HIDE DEF new
<1>6. /\ asc \in Seq(new) /\ Len(asc) = m /\ DOMAIN asc = 1..m
      /\ \A x \in new : \E i \in 1..m : asc[i] = x
      /\ \A i, j \in 1..m : asc[i] = asc[j] => i = j
  BY <1>4, <1>5, AscendingFacts
<1> HIDE DEF asc
<1>7. \A i \in 1..k : f[p[i]] # FREE
  <2> TAKE i \in 1..k
  <2>1. CASE i = k
    <3>1. f[p[i]] = EOC
      BY <1>1, <2>1 DEF Links
    <3> QED BY <3>1, ClusterFacts
  <2>2. CASE i # k
    <3>1. i \in 1..(k - 1) /\ i + 1 \in 1..k
      BY <1>1, <2>2
    <3>2. f[p[i]] = p[i + 1] /\ p[i + 1] \in Cluster
      BY <3>1 DEF Links
    <3> QED BY <3>2, ClusterFacts
  <2> QED BY <2>1, <2>2
<1>8. \A i \in 1..k : p[i] \notin new
  BY <1>5, <1>7
<1>9. new \subseteq Cluster \ {Root}
  BY <1>5
<1>10. new = {} <=> m = 0
  <2>1. IsFiniteSet(new)
    BY <1>5, FiniteClusters
  <2> QED BY <1>4, <2>1, FS_EmptySet
<1> QED
  BY <1>1, <1>2, <1>5, <1>6, <1>8, <1>9, <1>10 DEF m, new, asc

\* The table after ensure_fcb_chain_capacity.
LEMMA GrowTable ==
    ASSUME NEW f \in [Cluster -> FatEntry], f[Root] # FREE, NEW p, Links(f, p),
           NEW need \in Nat, Fits(f, HeadOf(p), need)
    PROVE  LET k == Len(p)
               h == HeadOf(p)
               m == Missing(f, h, need)
               new == Lowest(m, FreeClusters(f))
               table == WithCapacity(f, h, need)
               head == HeadWithCapacity(f, h, need)
               q == p \o Ascending(new)
           IN  /\ table \in [Cluster -> FatEntry] /\ Links(table, q) /\ head = HeadOf(q)
               /\ \A x \in Cluster : x \notin new /\ ~(k > 0 /\ x = p[k]) => table[x] = f[x]
               /\ new = {} => table = f
               /\ Trim(table, head, k) = f
<1> DEFINE k == Len(p)
           h == HeadOf(p)
           m == Missing(f, h, need)
           free == FreeClusters(f)
           new == Lowest(m, free)
           asc == Ascending(new)
           table == WithCapacity(f, h, need)
           head == HeadWithCapacity(f, h, need)
           q == p \o asc
           After(c) == {x \in new : x > c}
<1>1. Chain(f, h) = p /\ k \in Nat /\ h \in Cluster \cup {FREE} /\ (h = FREE <=> k = 0)
  BY PathWhole DEF Whole
<1>2. /\ m \in Nat /\ m = IF need > k THEN need - k ELSE 0
      /\ new \subseteq Cluster \ {Root} /\ \A x \in new : f[x] = FREE
      /\ \A i \in 1..k : p[i] \notin new
      /\ asc \in Seq(new) /\ Len(asc) = m /\ DOMAIN asc = 1..m
      /\ \A x \in new : \E i \in 1..m : asc[i] = x
      /\ \A i, j \in 1..m : asc[i] = asc[j] => i = j
      /\ new = {} <=> m = 0
  BY GrowFacts
<1>3. /\ p \in Seq(Cluster \ {Root})
      /\ \A i, j \in 1..k : p[i] = p[j] => i = j
      /\ \A i \in 1..(k - 1) : f[p[i]] = p[i + 1]
      /\ k > 0 => f[p[k]] = EOC
  BY DEF Links
<1>4. table = Extend(f, h, m)
  BY DEF WithCapacity
<1>5. \A c \in Cluster : table[c] =
         IF c \in new THEN IF After(c) = {} THEN EOC ELSE Min(After(c))
         ELSE IF h # FREE /\ new # {} /\ c = Last(p) THEN Min(new)
         ELSE f[c]
  BY <1>1, <1>4 DEF Extend
<1>6. table \in [Cluster -> FatEntry]
  BY <1>4, ExtendType
<1>7. Last(p) = p[k]
  BY DEF Last
<1>8. free \in SUBSET Cluster /\ new \in SUBSET Cluster
  BY <1>2 DEF FreeClusters
<1> HIDE DEF free
<1>9. new # {} => Min(new) = Min(free) /\ Min(new) \in new
  <2>1. ASSUME new # {} PROVE Min(new) = Min(free)
    <3>1. free # {}
      <4> HIDE DEF m
      <4> QED BY <2>1 DEF Lowest
    <3>2. m \in Nat /\ m > 0
      <4>1. m \in Nat /\ m # 0
        BY <1>2, <2>1
      <4> HIDE DEF m
      <4> QED BY <4>1
    <3> HIDE DEF m
    <3> QED BY <1>8, <3>1, <3>2, LowestFacts
  <2>2. ASSUME new # {} PROVE Min(new) \in new
    <3> HIDE DEF new
    <3> QED BY <1>8, <2>2, FiniteClusters
  <2> QED BY <2>1, <2>2
<1> HIDE DEF new
<1>10. Cardinality(new) = m
  <2>1. Len(asc) = Cardinality(new)
    BY <1>8, AscendingFacts
  <2> QED BY <1>2, <2>1
<1>11. /\ m > 0 => asc[1] = Min(new) /\ After(asc[m]) = {}
       /\ \A i \in 1..(m - 1) : After(asc[i]) # {} /\ Min(After(asc[i])) = asc[i + 1]
  <2> DEFINE c == Cardinality(new)
  <2>1. /\ c > 0 => asc[1] = Min(new) /\ After(asc[c]) = {}
        /\ \A i \in 1..(c - 1) : After(asc[i]) # {} /\ Min(After(asc[i])) = asc[i + 1]
    BY <1>8, AscendingFacts
  <2> HIDE DEF After, asc, m
  <2> QED BY <1>10, <2>1
<1>30. k \in Nat /\ m \in Nat
  BY <1>1, <1>2
<1> HIDE DEF asc, After, table, h, head, m
<1>12. /\ q \in Seq(Cluster \ {Root}) /\ Len(q) = k + m
       /\ \A i \in 1..k : q[i] = p[i]
       /\ \A i \in 1..m : q[k + i] = asc[i] /\ asc[i] \in new
  <2>1. /\ asc \in Seq(Cluster \ {Root}) /\ p \in Seq(Cluster \ {Root})
        /\ Len(p) = k /\ Len(asc) = m /\ k \in Nat /\ m \in Nat
    BY <1>1, <1>2, <1>3
  <2>2. \A i \in 1..m : asc[i] \in new
    BY <1>2
  <2> HIDE DEF k
  <2>3. q \in Seq(Cluster \ {Root}) /\ Len(q) = k + m
    BY <2>1
  <2>4. \A i \in 1..k : q[i] = p[i]
    BY <2>1
  <2>5. \A i \in 1..m : q[k + i] = asc[i]
    BY <2>1
  <2> QED BY <2>2, <2>3, <2>4, <2>5
<1> HIDE DEF q, k
<1>13. \A i \in 1..(k + m) : i \in 1..k \/ (i - k \in 1..m /\ q[i] = asc[i - k])
  <2> TAKE i \in 1..(k + m)
  <2>1. CASE i <= k
    BY <1>1, <1>2, <2>1
  <2>2. CASE ~(i <= k)
    <3>1. i - k \in 1..m /\ k + (i - k) = i
      BY <1>1, <1>2, <2>2
    <3> QED BY <1>12, <3>1
  <2> QED BY <2>1, <2>2
<1>14. ASSUME NEW i \in 1..(k + m), NEW j \in 1..(k + m), q[i] = q[j] PROVE i = j
  <2>1. CASE i \in 1..k /\ j \in 1..k
    BY <1>3, <1>12, <1>14, <2>1
  <2>2. CASE i \in 1..k /\ j - k \in 1..m /\ q[j] = asc[j - k]
    BY <1>2, <1>12, <1>14, <2>2
  <2>3. CASE j \in 1..k /\ i - k \in 1..m /\ q[i] = asc[i - k]
    BY <1>2, <1>12, <1>14, <2>3
  <2>4. CASE i - k \in 1..m /\ q[i] = asc[i - k] /\ j - k \in 1..m /\ q[j] = asc[j - k]
    <3>1. i - k = j - k
      BY <1>2, <1>14, <2>4
    <3> QED BY <1>1, <1>2, <3>1
  <2> QED BY <1>13, <2>1, <2>2, <2>3, <2>4
<1>15. ASSUME NEW i \in 1..(k + m - 1) PROVE table[q[i]] = q[i + 1]
  <2>1. CASE i < k
    <3>1. i \in 1..(k - 1) /\ i \in 1..k /\ i + 1 \in 1..k /\ k \in 1..k /\ i # k
      BY <1>1, <1>2, <2>1
    <3>2. q[i] = p[i] /\ q[i + 1] = p[i + 1]
      BY <1>12, <3>1
    <3>21. p[i] \notin new /\ p[i] # p[k]
      BY <1>2, <1>3, <3>1
    <3>22. p[i] \in Cluster
      BY <1>3, <3>1 DEF k
    <3>3. table[p[i]] = f[p[i]]
      BY <1>5, <1>7, <3>21, <3>22
    <3> QED BY <1>3, <3>1, <3>2, <3>3
  <2>2. CASE i = k
    <3>1. i \in 1..k /\ 1 \in 1..m /\ m > 0 /\ k # 0
      BY <1>1, <1>2, <2>2
    <3>2. q[i] = p[k] /\ q[i + 1] = asc[1]
      BY <1>12, <2>2, <3>1
    <3>21. p[k] \notin new
      BY <1>2, <2>2, <3>1
    <3>22. p[k] \in Cluster
      BY <1>3, <2>2, <3>1 DEF k
    <3>3. new # {} /\ h # FREE
      BY <1>1, <1>2, <3>1
    <3>4. table[p[k]] = Min(new)
      BY <1>5, <1>7, <3>21, <3>22, <3>3
    <3> QED BY <1>11, <3>1, <3>2, <3>4
  <2>3. CASE i > k
    <3>1. i - k \in 1..(m - 1) /\ i - k \in 1..m /\ (i - k) + 1 \in 1..m
          /\ k + (i - k) = i /\ k + ((i - k) + 1) = i + 1
      BY <1>30, <2>3
    <3>2. q[i] = asc[i - k] /\ q[i + 1] = asc[(i - k) + 1] /\ asc[i - k] \in new
      BY <1>12, <3>1
    <3>3. After(asc[i - k]) # {} /\ Min(After(asc[i - k])) = asc[(i - k) + 1]
      BY <1>11, <3>1
    <3>4. table[asc[i - k]] = asc[(i - k) + 1]
      BY <1>5, <1>8, <3>2, <3>3
    <3> QED BY <3>2, <3>4
  <2> QED BY <1>1, <1>2, <2>1, <2>2, <2>3
<1>16. ASSUME k + m > 0 PROVE table[q[k + m]] = EOC
  <2>1. CASE m > 0
    <3>1. m \in 1..m
      BY <1>2, <2>1
    <3>2. q[k + m] = asc[m] /\ asc[m] \in new /\ After(asc[m]) = {}
      BY <1>11, <1>12, <2>1, <3>1
    <3> QED BY <1>5, <1>8, <3>2
  <2>2. CASE m = 0
    <3>1. k \in 1..k /\ k > 0 /\ k + m = k
      BY <1>1, <1>16, <2>2
    <3>2. q[k + m] = p[k] /\ p[k] \in Cluster /\ f[p[k]] = EOC
      BY <1>3, <1>12, <3>1
    <3>3. new = {}
      BY <1>2, <2>2
    <3> QED BY <1>5, <3>2, <3>3
  <2> QED BY <1>2, <2>1, <2>2
<1>17. Links(table, q)
  <2> DEFINE n == k + m
  <2>1. Len(q) = n /\ q \in Seq(Cluster \ {Root})
        /\ (\A i, j \in 1..n : q[i] = q[j] => i = j)
        /\ (\A i \in 1..(n - 1) : table[q[i]] = q[i + 1])
        /\ (n > 0 => table[q[n]] = EOC)
    <3>1. Len(q) = n /\ q \in Seq(Cluster \ {Root})
      BY <1>12
    <3>2. \A i, j \in 1..n : q[i] = q[j] => i = j
      BY <1>14
    <3>3. \A i \in 1..(n - 1) : table[q[i]] = q[i + 1]
      <4>1. n - 1 = k + m - 1
        BY <1>30
      <4> QED BY <1>15, <4>1
    <3>4. n > 0 => table[q[n]] = EOC
      BY <1>16
    <3> QED BY <3>1, <3>2, <3>3, <3>4
  <2> HIDE DEF n
  <2> QED BY <2>1 DEF Links
<1>18. head = HeadOf(q)
  <2>1. CASE k > 0
    <3>1. h # FREE /\ h = p[1] /\ 1 \in 1..k /\ k + m # 0
      BY <1>1, <1>2, <2>1 DEF h, HeadOf
    <3> QED BY <1>12, <3>1 DEF head, HeadWithCapacity, HeadOf
  <2>2. CASE k = 0 /\ m = 0
    <3>1. h = FREE /\ ~(need > 0)
      BY <1>1, <1>2, <2>2
    <3> QED BY <1>12, <2>2, <3>1 DEF head, HeadWithCapacity, HeadOf
  <2>3. CASE k = 0 /\ m > 0
    <3>1. h = FREE /\ need > 0 /\ new # {} /\ 1 \in 1..m
      BY <1>1, <1>2, <2>3
    <3>2. q[k + 1] = asc[1] /\ asc[1] = Min(new)
      BY <1>11, <1>12, <2>3, <3>1
    <3>3. q[1] = Min(free)
      BY <1>9, <2>3, <3>1, <3>2
    <3>4. head = Min(free)
      BY <3>1 DEF head, HeadWithCapacity, free
    <3> QED BY <1>2, <1>12, <2>3, <3>3, <3>4 DEF HeadOf
  <2> QED BY <1>1, <1>2, <2>1, <2>2, <2>3
<1>19. \A x \in Cluster : x \notin new /\ ~(k > 0 /\ x = p[k]) => table[x] = f[x]
  BY <1>1, <1>5, <1>7
<1>20. new = {} => table = f
  <2>1. new = {} => \A x \in Cluster : table[x] = f[x]
    BY <1>5
  <2> QED BY <1>6, <2>1
<1>21. Trim(table, head, k) = f
  <2>1. Chain(table, head) = q /\ (head = FREE <=> k + m = 0)
    BY <1>6, <1>12, <1>17, <1>18, PathWhole DEF Whole
  <2>2. CASE head = FREE
    <3>1. Trim(table, head, k) = table
      BY <2>2 DEF Trim
    <3>2. m = 0
      BY <1>1, <1>2, <2>1, <2>2
    <3> QED BY <1>2, <1>20, <3>1, <3>2
  <2>3. CASE head # FREE /\ k = 0
    <3>1. ToSet(q) = new
      <4>1. DOMAIN q = 1..m /\ \A i \in 1..m : q[i] = asc[i]
        <5>1. \A i \in 1..m : k + i = i
          BY <2>3
        <5> QED BY <1>2, <1>12, <2>3, <5>1
      <4> QED BY <1>2, <1>12, <4>1 DEF ToSet
    <3>2. Trim(table, head, k) = FreeAll(table, new)
      BY <2>1, <2>3, <3>1 DEF Trim
    <3>3. \A x \in Cluster : FreeAll(table, new)[x] = f[x]
      BY <1>2, <1>19, <2>3 DEF FreeAll
    <3>4. FreeAll(table, new) \in [Cluster -> FatEntry]
      BY <1>6, FreeAllType
    <3>5. FreeAll(table, new) = f
      BY <3>3, <3>4
    <3> QED BY <3>2, <3>5
  <2>4. CASE head # FREE /\ k > 0
    <3> DEFINE t == SubSeq(q, k + 1, Len(q))
               g == FreeAll(table, new)
    <3>1. ToSet(t) = new
      <4>1. /\ t \in Seq(Cluster \ {Root}) /\ DOMAIN t = 1..m
            /\ \A i \in 1..m : t[i] = q[k + i]
        <5> USE DEF k
        <5>1. k + 1 \in 1..(Len(q) + 1) /\ Len(q) \in k..Len(q) /\ Len(q) - (k + 1) + 1 = m
              /\ \A i \in 1..m : (k + 1) + i - 1 = k + i
          BY <1>1, <1>2, <1>12
        <5>2. \A i \in (k + 1)..Len(q) : q[i] \in Cluster \ {Root}
          BY <1>1, <1>12
        <5>3. /\ t \in Seq(Cluster \ {Root}) /\ Len(t) = Len(q) - (k + 1) + 1
              /\ \A i \in 1..(Len(q) - (k + 1) + 1) : t[i] = q[(k + 1) + i - 1]
          BY <1>1, <1>2, <1>12, <5>1, <5>2
        <5> QED BY <5>1, <5>3
      <4> HIDE DEF t
      <4>2. \A i \in 1..m : t[i] = asc[i] /\ asc[i] \in new
        BY <1>12, <4>1
      <4>3. ToSet(t) = {t[i] : i \in 1..m}
        BY <4>1 DEF ToSet
      <4>4. \A x \in new : \E i \in 1..m : asc[i] = x
        BY <1>2
      <4> QED BY <4>2, <4>3, <4>4
    <3>2. q[k] = p[k] /\ p[k] \in Cluster /\ f[p[k]] = EOC /\ p[k] \notin new
      <4>1. k \in 1..k
        BY <1>1, <2>4
      <4> QED BY SMTT(20), <1>2, <1>3, <1>12, <2>4, <4>1
    <3>3. Trim(table, head, k) = [g EXCEPT ![q[k]] = EOC]
      <4>1. k # 0
        BY <2>4
      <4> QED BY <2>1, <2>4, <3>1, <4>1 DEF Trim, Trimmed
    <3>4. g \in [Cluster -> FatEntry] /\ \A x \in Cluster : g[x] = IF x \in new THEN FREE ELSE table[x]
      BY <1>6, FreeAllType DEF FreeAll
    <3> HIDE DEF g
    <3>5. \A x \in Cluster : [g EXCEPT ![q[k]] = EOC][x] = f[x]
      BY <1>2, <1>19, <3>2, <3>4
    <3>6. [g EXCEPT ![q[k]] = EOC] = f
      BY <3>4, <3>5
    <3> QED BY <3>3, <3>6
  <2> QED BY <1>1, <2>2, <2>3, <2>4
<1> QED
  BY <1>6, <1>17, <1>18, <1>19, <1>20, <1>21 DEF k, h, m, free, new, asc, table, head, q

-----------------------------------------------------------------------------
(* The operators that read the state, of the state as a parameter: blocks  *)
(* d, boot sector b, table f, steps t, expected files x.                   *)

CellIn(d, block, k, zero) == IF k \in DOMAIN d[block] THEN d[block][k] ELSE zero
BootIn(d) == CellIn(d, 0, 0, ZeroBoot)
EntriesIn(d, b) == [s \in Slots |-> CellIn(d, FirstBlock(b, Root), s, Unused)]
DataIn(d, b) == [c \in Cluster |-> [k \in Units |-> CellIn(d, FirstBlock(b, c), k, 0)]]
CopyIn(d, b, copy) == [c \in Cluster |-> CellIn(d, FatBlockOf(b, copy, c), FatOffset(b, c), FREE)]
TablesIn(d, b) == [copy \in FatCopies |-> CopyIn(d, b, copy)]

Touching(t, block, k) == {i \in DOMAIN t : Touches(t[i], block, k)}
Putting(t, c) == {i \in DOMAIN t : c \in DOMAIN t[i].put}
Written(step, k, zero) == IF k \in DOMAIN step.cells THEN step.cells[k] ELSE zero
CellAfterIn(d, t, block, k, zero) ==
    IF Touching(t, block, k) = {} THEN CellIn(d, block, k, zero)
    ELSE Written(t[Latest(Touching(t, block, k))], k, zero)
FatAfterIn(f, t) ==
    [c \in Cluster |->
        IF Putting(t, c) = {} THEN f[c] ELSE t[Latest(Putting(t, c))].put[c]]
EntriesAfterIn(d, t, b) == [s \in Slots |-> CellAfterIn(d, t, FirstBlock(b, Root), s, Unused)]
DataAfterIn(d, t, b) ==
    [c \in Cluster |-> [k \in Units |-> CellAfterIn(d, t, FirstBlock(b, c), k, 0)]]
CopyAfterIn(d, t, b, copy) ==
    [c \in Cluster |-> CellAfterIn(d, t, FatBlockOf(b, copy, c), FatOffset(b, c), FREE)]

\* The image has the shape boot sector b says.
Shape(d, b) ==
    /\ b \in BootSectors /\ DOMAIN d = 0..(b.block_count - 1)
    /\ EntriesIn(d, b) \in [Slots -> Entry]
    /\ TablesIn(d, b) \in [FatCopies -> [Cluster -> FatEntry]]

StepShapeIn(step, d, b, f, op) ==
    /\ step.block \in DOMAIN d
    /\ step.block = 0 => op = "Format" /\ step.cells = Single(0, b) /\ step.zeros = {}
    /\ \A s \in Slots \cap DOMAIN step.cells :
          step.block = FirstBlock(b, Root) => step.cells[s] \in Entry
    /\ \A copy \in FatCopies, c \in Cluster :
          Touches(step, FatBlockOf(b, copy, c), FatOffset(b, c)) =>
             /\ op \in {"Format", "Sync"} /\ FatOffset(b, c) \in DOMAIN step.cells
             /\ step.cells[FatOffset(b, c)] \in FatEntry
             /\ op = "Sync" => step.cells[FatOffset(b, c)] = f[c]
    /\ \A m \in {step.put, step.undo} :
          DOMAIN m \subseteq Cluster /\ \A c \in DOMAIN m : m[c] \in FatEntry
    /\ op = "Sync" => DOMAIN step.put = {} /\ DOMAIN step.undo = {}
    /\ step.wipe \subseteq Cluster \ {Root}

StepClearIn(step, d, b, f, x, s) ==
    /\ ~Touches(step, FirstBlock(b, Root), s)
    /\ s \in DOMAIN x => \A c \in ChainOf(EntriesIn(d, b), f, s) :
          /\ \A k \in Units : ~Touches(step, FirstBlock(b, c), k)
          /\ \A m \in {step.put, step.undo} : c \in DOMAIN m => m[c] = f[c]
          /\ c \notin step.wipe

RollbackSoundIn(f, t, call_) ==
    \A i \in DOMAIN t : RolledBack(call_.op, t, i) => \A c \in Cluster :
        IF c \in DOMAIN t[i].undo THEN t[i].undo[c] = call_.fat[c]
        ELSE f[c] = call_.fat[c] /\ \A j \in 1..i : c \notin DOMAIN t[j].put

StepIntactIn(step, d, b, g, x, s) ==
    /\ ~Touches(step, FirstBlock(b, Root), s)
    /\ s \in DOMAIN x => \A c \in ChainOf(EntriesIn(d, b), g, s), k \in Units :
          Touches(step, FirstBlock(b, c), k) =>
             k \notin DOMAIN step.cells /\ CellIn(d, FirstBlock(b, c), k, 0) = 0
StepsIntactIn(t, d, b, g, x, s) ==
    \A i \in DOMAIN t : t[i].intact =>
        /\ \A j \in 1..(i - 1) : t[j].intact /\ StepIntactIn(t[j], d, b, g, x, s)
        /\ s \in DOMAIN x =>
              /\ DOMAIN t[i].undo # {}
              /\ t[i].wipe \cap ChainOf(EntriesIn(d, b), g, s) = {}
SlotIntactIn(d, b, f, g, x, others, s) ==
    /\ Holds(EntriesIn(d, b), DataIn(d, b), g, s, x)
    /\ s \in DOMAIN x => \A u \in others \cap DOMAIN x :
          ChainOf(EntriesIn(d, b), f, u) \cap ChainOf(EntriesIn(d, b), g, s) = {}

CallShapeIn(y, t, k, x, n, v) ==
    /\ k.fat \in [Cluster -> FatEntry] /\ DOMAIN k.files \subseteq Slots
    /\ t \in Seq(ToSet(t)) /\ (t = <<>> => k = NoCall)
    /\ k.op = "Format" => v = {} /\ x = <<>>
    /\ k.op = "Sync" => y
    /\ k.op \in {"None", "Format", "Sync"} => k.slot = 0
    /\ v \subseteq n \ {k.slot}

\* The inductive invariant while no file system is open, and while one is.
Closed(d, x, v) ==
    /\ BootIn(d) \in BootSectors \cup {ZeroBoot}
    /\ BootIn(d) = ZeroBoot => v = {}
    /\ BootIn(d) # ZeroBoot =>
          LET b == BootIn(d)
              f == CopyIn(d, b, 1)
          IN  /\ Shape(d, b)
              /\ Sound(EntriesIn(d, b), DataIn(d, b), f, v, x)
              /\ Stored(EntriesIn(d, b), f, TablesIn(d, b), DOMAIN x \cap v)
    /\ v \subseteq Slots /\ DOMAIN x \subseteq v

Plan(d, b, f, t, k, x, n) ==
    /\ \A i \in DOMAIN t : StepShapeIn(t[i], d, b, f, k.op)
    /\ k.op # "Format" =>
          \A s \in n \ {k.slot}, i \in DOMAIN t : StepClearIn(t[i], d, b, f, x, s)
    /\ RollbackSoundIn(f, t, k)
    /\ k.slot \in n =>
          /\ StepsIntactIn(t, d, b, k.fat, x, k.slot)
          /\ (\E i \in DOMAIN t : t[i].intact) =>
                SlotIntactIn(d, b, f, k.fat, x, n \ {k.slot}, k.slot)
Now(d, b, f, y, k, x, n, v) ==
    /\ k.op # "Format" => Sound(EntriesIn(d, b), DataIn(d, b), f, n \ {k.slot}, x)
    /\ Stored(EntriesIn(d, b), f, TablesIn(d, b),
              DOMAIN x \cap (IF k.op # "Format" /\ ~y THEN n \ {k.slot} ELSE v))
    /\ k.op # "Format" /\ ~y => CopyIn(d, b, 1) = f
After(d, b, f, y, t, k, x, n) ==
    LET after == IF t = <<>> THEN x ELSE k.files
    IN  /\ Sound(EntriesAfterIn(d, t, b), DataAfterIn(d, t, b), FatAfterIn(f, t), n, after)
        /\ k.op # "Format" /\ ~y /\ (\A i \in DOMAIN t : DOMAIN t[i].put = {}) =>
              Stored(EntriesAfterIn(d, t, b), f, TablesIn(d, b), n \cap DOMAIN after)
        /\ k.op \in {"Format", "Sync"} =>
              \A copy \in FatCopies : CopyAfterIn(d, t, b, copy) = FatAfterIn(f, t)
        /\ k.op = "Format" => CellAfterIn(d, t, 0, 0, ZeroBoot) = b
Open(d, b, f, y, t, k, x, n, v) ==
    /\ f \in [Cluster -> FatEntry] /\ y \in BOOLEAN
    /\ v \subseteq n /\ n \subseteq Slots /\ DOMAIN x \subseteq Slots
    /\ Shape(d, b) /\ BootIn(d) \in {ZeroBoot, b} /\ (k.op # "Format" => BootIn(d) = b)
    /\ CallShapeIn(y, t, k, x, n, v)
    /\ Plan(d, b, f, t, k, x, n)
    /\ Now(d, b, f, y, k, x, n, v)
    /\ After(d, b, f, y, t, k, x, n)

Returned(r) == r \in {"Ok", "NoSpace", "InvalidConfig", "CorruptFs", "DeviceError"}
ClosedState ==
    /\ Closed(disk, files, safe) /\ Returned(ret)
    /\ boot = ZeroBoot /\ fat = NoFat /\ dirty = FALSE /\ todo = <<>> /\ call = NoCall
    /\ sound = safe
OpenState == Open(disk, boot, fat, dirty, todo, call, files, sound, safe) /\ Returned(ret)

\* The table of no file system is one.
LEMMA NoFatType == NoFat \in [Cluster -> FatEntry]
  BY DEF NoFat, FatEntry

\* A boot sector of mkfs_myfs is not that of an empty image.
LEMMA BootNotZero == ZeroBoot \notin BootSectors
  BY BootFacts

\* The decoded image is the same however it is read.
LEMMA Decoded ==
    ASSUME NEW b
    PROVE  /\ Entries(b) = EntriesIn(disk, b) /\ Data(b) = DataIn(disk, b)
           /\ Copies(b) = TablesIn(disk, b) /\ BootOnDisk = BootIn(disk)
           /\ \A copy \in FatCopies : FatOnDisk(b, copy) = CopyIn(disk, b, copy)
           /\ \A s \in Slots : EntryAt(b, s) = EntriesIn(disk, b)[s]
           /\ \A c, k : Unit(b, c, k) = CellIn(disk, FirstBlock(b, c), k, 0)
<1>1. BootOnDisk = BootIn(disk) /\ \A x, y, z : Cell(x, y, z) = CellIn(disk, x, y, z)
  BY DEF BootOnDisk, BootIn, Cell, CellIn
<1>2. \A copy : FatOnDisk(b, copy) = CopyIn(disk, b, copy)
  BY <1>1 DEF FatOnDisk, CopyIn, FatBlockOf
<1>3. Copies(b) = TablesIn(disk, b)
  BY <1>2 DEF Copies, TablesIn
<1>4. \A s : EntryAt(b, s) = CellIn(disk, FirstBlock(b, Root), s, Unused)
  BY <1>1 DEF EntryAt
<1>5. \A c, k : Unit(b, c, k) = CellIn(disk, FirstBlock(b, c), k, 0)
  BY <1>1 DEF Unit
<1>6. Entries(b) = EntriesIn(disk, b)
  BY <1>4 DEF Entries, EntriesIn
<1>7. Data(b) = DataIn(disk, b)
  BY <1>5 DEF Data, DataIn
<1> QED
  BY <1>1, <1>2, <1>3, <1>4, <1>5, <1>6, <1>7 DEF EntriesIn

\* So is what the steps leave.
LEMMA DecodedAfter ==
    ASSUME NEW t, NEW b
    PROVE  /\ EntriesAfter(t, b) = EntriesAfterIn(disk, t, b)
           /\ DataAfter(t, b) = DataAfterIn(disk, t, b)
           /\ FatAfter(t) = FatAfterIn(fat, t)
           /\ \A copy \in FatCopies : CopiesAfter(t, b)[copy] = CopyAfterIn(disk, t, b, copy)
           /\ CellAfter(t, 0, 0, ZeroBoot) = CellAfterIn(disk, t, 0, 0, ZeroBoot)
<1>1. \A block, k, zero : CellAfter(t, block, k, zero) = CellAfterIn(disk, t, block, k, zero)
  BY DEF CellAfter, CellAfterIn, Cell, CellIn, Touching, Written
<1>2. FatAfter(t) = FatAfterIn(fat, t)
  BY DEF FatAfter, FatAfterIn, Putting
<1>3. EntriesAfter(t, b) = EntriesAfterIn(disk, t, b)
  BY <1>1 DEF EntriesAfter, EntriesAfterIn
<1>4. DataAfter(t, b) = DataAfterIn(disk, t, b)
  BY <1>1 DEF DataAfter, DataAfterIn
<1>5. \A copy \in FatCopies : CopiesAfter(t, b)[copy] = CopyAfterIn(disk, t, b, copy)
  BY <1>1 DEF CopiesAfter, CopyAfterIn
<1> QED
  BY <1>1, <1>2, <1>3, <1>4, <1>5

\* Slot 0 stands for no slot.
LEMMA SlotsFacts == 0 \notin Slots /\ Slots \subseteq Nat
  BY ImageAssumption

\* No steps leave everything as it is.
LEMMA EmptySteps ==
    /\ DOMAIN <<>> = {}
    /\ \A block, k : Touching(<<>>, block, k) = {}
    /\ \A c : Putting(<<>>, c) = {}
    /\ \A d, block, k, zero : CellAfterIn(d, <<>>, block, k, zero) = CellIn(d, block, k, zero)
    /\ \A f \in [Cluster -> FatEntry] : FatAfterIn(f, <<>>) = f
    /\ \A d, b : EntriesAfterIn(d, <<>>, b) = EntriesIn(d, b)
    /\ \A d, b : DataAfterIn(d, <<>>, b) = DataIn(d, b)
    /\ \A d, b, copy : CopyAfterIn(d, <<>>, b, copy) = CopyIn(d, b, copy)
<1>1. DOMAIN <<>> = {}
  OBVIOUS
<1>2. /\ \A block, k : Touching(<<>>, block, k) = {}
      /\ \A c : Putting(<<>>, c) = {}
  BY <1>1 DEF Touching, Putting
<1>3. \A d, block, k, zero : CellAfterIn(d, <<>>, block, k, zero) = CellIn(d, block, k, zero)
  BY <1>2 DEF CellAfterIn
<1>4. \A f \in [Cluster -> FatEntry] : FatAfterIn(f, <<>>) = f
  <2> TAKE f \in [Cluster -> FatEntry]
  <2>1. FatAfterIn(f, <<>>) = [c \in Cluster |-> f[c]]
    BY <1>2 DEF FatAfterIn
  <2> QED BY <2>1
<1>5. \A d, b : EntriesAfterIn(d, <<>>, b) = EntriesIn(d, b)
  BY <1>3 DEF EntriesAfterIn, EntriesIn
<1>6. \A d, b : DataAfterIn(d, <<>>, b) = DataIn(d, b)
  BY <1>3 DEF DataAfterIn, DataIn
<1>7. \A d, b, copy : CopyAfterIn(d, <<>>, b, copy) = CopyIn(d, b, copy)
  BY <1>3 DEF CopyAfterIn, CopyIn
<1> QED
  BY <1>1, <1>2, <1>3, <1>4, <1>5, <1>6, <1>7

\* No slots are sound and stored.
LEMMA NothingSound ==
    ASSUME NEW entries, NEW data, NEW f, NEW copies, NEW x
    PROVE  Sound(entries, data, f, {}, x) /\ Stored(entries, f, copies, {})
  BY DEF Sound, Stored, Apart

\* The copies are tables when each of them is one.
LEMMA CopiesShape ==
    ASSUME NEW d, NEW b, Shape(d, b)
    PROVE  /\ \A copy \in FatCopies : TablesIn(d, b)[copy] = CopyIn(d, b, copy)
           /\ \A copy \in FatCopies : CopyIn(d, b, copy) \in [Cluster -> FatEntry]
           /\ 1 \in FatCopies /\ CopyIn(d, b, 1) \in [Cluster -> FatEntry]
<1>1. \A copy \in FatCopies : TablesIn(d, b)[copy] = CopyIn(d, b, copy)
  BY DEF TablesIn
<1>2. 1 \in FatCopies
  BY DEF FatCopies
<1> QED
  BY <1>1, <1>2 DEF Shape

\* The invariant while no file system is open, assembled from its parts ...
LEMMA ClosedInv == ClosedState => IInv
<1> SUFFICES ASSUME ClosedState PROVE IInv
  OBVIOUS
<1> DEFINE b == BootIn(disk)
           f == CopyIn(disk, b, 1)
<1>1. /\ Closed(disk, files, safe) /\ Returned(ret)
      /\ boot = ZeroBoot /\ fat = NoFat /\ dirty = FALSE /\ todo = <<>> /\ call = NoCall
      /\ sound = safe
  BY DEF ClosedState
<1>2. Image = b /\ BootOnDisk = b
  BY <1>1, Decoded DEF Image
<1>3. /\ Entries(b) = EntriesIn(disk, b) /\ Data(b) = DataIn(disk, b)
      /\ Copies(b) = TablesIn(disk, b) /\ 1 \in FatCopies /\ FatOnDisk(b, 1) = f
  <2>1. 1 \in FatCopies
    BY DEF FatCopies
  <2> QED BY <2>1, Decoded
<1>4. Table = f
  BY <1>1, <1>2, <1>3 DEF Table
<1>5. /\ b \in BootSectors \cup {ZeroBoot} /\ (b = ZeroBoot => safe = {})
      /\ safe \subseteq Slots /\ DOMAIN files \subseteq safe
  BY <1>1 DEF Closed
<1>6. b # ZeroBoot =>
         /\ Shape(disk, b)
         /\ Sound(EntriesIn(disk, b), DataIn(disk, b), f, safe, files)
         /\ Stored(EntriesIn(disk, b), f, TablesIn(disk, b), DOMAIN files \cap safe)
  BY <1>1 DEF Closed
<1>7. /\ call.op = "None" /\ call.slot = 0 /\ call.fat = NoFat /\ call.files = <<>>
      /\ DOMAIN todo = {} /\ ~Ready
  BY <1>1, EmptySteps DEF NoCall, Ready
<1>8. TypeOK
  <2>1. /\ fat \in [Cluster -> FatEntry] /\ dirty \in BOOLEAN
        /\ safe \subseteq sound /\ sound \subseteq Slots /\ DOMAIN files \subseteq Slots
    BY <1>1, <1>5, NoFatType
  <2> QED BY <1>1, <1>7, <2>1 DEF TypeOK, Returned
<1>9. ImageShape
  BY <1>1, <1>2, <1>3, <1>5, <1>6, <1>7 DEF ImageShape, Shape
<1>10. Others = safe
  BY <1>1, <1>5, <1>7, SlotsFacts DEF Others
<1>11. CallShape
  <2>1. DOMAIN call.files = {} /\ todo \in Seq(ToSet(todo))
    BY <1>1, <1>7, EmptySteps
  <2> QED BY <1>1, <1>7, <1>10, <2>1, NoFatType DEF CallShape
<1>12. RollbackSound /\ IntactSound
  BY <1>7 DEF RollbackSound, IntactSound, StepsIntact
<1>13. NowSound /\ NowStored
  <2>1. Sound(EntriesIn(disk, b), DataIn(disk, b), f, safe, files)
        /\ Stored(EntriesIn(disk, b), f, TablesIn(disk, b), DOMAIN files \cap safe)
    <3>1. CASE b = ZeroBoot
      <4>1. safe = {} /\ DOMAIN files \cap safe = {}
        BY <1>5, <3>1
      <4> QED BY <4>1, NothingSound
    <3> QED BY <1>6, <3>1
  <2> QED BY <1>2, <1>3, <1>4, <1>7, <1>10, <2>1 DEF NowSound, NowStored
<1>14. AfterSound /\ AfterStored /\ CleanSound /\ AfterSync
  BY <1>1, <1>7 DEF AfterSound, AfterStored, CleanSound, AfterSync
<1> QED
  BY <1>1, <1>7, <1>8, <1>9, <1>11, <1>12, <1>13, <1>14 DEF IInv

\* ... and taken apart.
LEMMA InvClosed == IInv /\ boot = ZeroBoot => ClosedState
<1> SUFFICES ASSUME IInv, boot = ZeroBoot PROVE ClosedState
  OBVIOUS
<1> DEFINE b == BootIn(disk)
           f == CopyIn(disk, b, 1)
<1>1. Image = b /\ BootOnDisk = b
  BY Decoded DEF Image
<1>2. /\ Entries(b) = EntriesIn(disk, b) /\ Data(b) = DataIn(disk, b)
      /\ Copies(b) = TablesIn(disk, b) /\ 1 \in FatCopies /\ FatOnDisk(b, 1) = f
  <2>1. 1 \in FatCopies
    BY DEF FatCopies
  <2> QED BY <2>1, Decoded
<1>3. Table = f
  BY <1>1, <1>2 DEF Table
<1>4. ImageShape /\ CallShape /\ TypeOK /\ NowSound /\ NowStored
  BY DEF IInv
<1>5. /\ fat = NoFat /\ dirty = FALSE /\ todo = <<>> /\ sound = safe /\ DOMAIN files \subseteq safe
      /\ b \in BootSectors \cup {ZeroBoot} /\ (b = ZeroBoot => safe = {})
      /\ call = NoCall
  BY <1>1, <1>4 DEF ImageShape, CallShape, TypeOK
<1>6. call.op = "None" /\ call.slot = 0 /\ ~Ready
  BY <1>5 DEF NoCall, Ready
<1>7. safe \subseteq Slots /\ Returned(ret)
  BY <1>4, <1>5 DEF TypeOK, Returned
<1>8. Others = safe
  BY <1>5, <1>6, <1>7, SlotsFacts DEF Others
<1>9. b # ZeroBoot => Shape(disk, b)
  BY <1>1, <1>2, <1>4 DEF ImageShape, Shape
<1>10. /\ Sound(EntriesIn(disk, b), DataIn(disk, b), f, safe, files)
       /\ Stored(EntriesIn(disk, b), f, TablesIn(disk, b), DOMAIN files \cap safe)
  BY <1>1, <1>2, <1>3, <1>4, <1>6, <1>8 DEF NowSound, NowStored
<1> QED
  BY <1>5, <1>7, <1>9, <1>10 DEF ClosedState, Closed

\* The predicates on steps, of the state and of parameters.
LEMMA StepForms ==
    ASSUME NEW step, NEW s, NEW g
    PROVE  /\ StepShape(step) <=> StepShapeIn(step, disk, boot, fat, call.op)
           /\ StepClear(step, s) <=> StepClearIn(step, disk, boot, fat, files, s)
           /\ StepIntact(step, g, s) <=> StepIntactIn(step, disk, boot, g, files, s)
<1>1. StepShape(step) <=> StepShapeIn(step, disk, boot, fat, call.op)
  BY DEF StepShape, StepShapeIn
<1>2. Entries(boot) = EntriesIn(disk, boot)
      /\ \A c, k : Unit(boot, c, k) = CellIn(disk, FirstBlock(boot, c), k, 0)
  BY Decoded
<1>3. StepClear(step, s) <=> StepClearIn(step, disk, boot, fat, files, s)
  BY <1>2 DEF StepClear, StepClearIn
<1>4. StepIntact(step, g, s) <=> StepIntactIn(step, disk, boot, g, files, s)
  BY <1>2 DEF StepIntact, StepIntactIn
<1> QED
  BY <1>1, <1>3, <1>4

\* The predicates on the steps of a call, of the state and of parameters.
LEMMA PlanForms ==
    ASSUME boot # ZeroBoot
    PROVE  Plan(disk, boot, fat, todo, call, files, sound) <=>
             /\ \A i \in DOMAIN todo : StepShape(todo[i])
             /\ Ready => \A s \in Others, i \in DOMAIN todo : StepClear(todo[i], s)
             /\ RollbackSound /\ IntactSound
<1>1. (\A i \in DOMAIN todo : StepShape(todo[i])) <=>
      (\A i \in DOMAIN todo : StepShapeIn(todo[i], disk, boot, fat, call.op))
  BY StepForms
<1>2. (Ready => \A s \in Others, i \in DOMAIN todo : StepClear(todo[i], s)) <=>
      (call.op # "Format" => \A s \in sound \ {call.slot}, i \in DOMAIN todo :
                               StepClearIn(todo[i], disk, boot, fat, files, s))
  BY StepForms DEF Ready, Others
<1>3. RollbackSound <=> RollbackSoundIn(fat, todo, call)
  BY DEF RollbackSound, RollbackSoundIn
<1>4. Entries(boot) = EntriesIn(disk, boot) /\ Data(boot) = DataIn(disk, boot)
  BY Decoded
<1>5. StepsIntact(todo, call.fat, call.slot) <=>
      StepsIntactIn(todo, disk, boot, call.fat, files, call.slot)
  <2>1. \A j : StepIntact(todo[j], call.fat, call.slot) <=>
               StepIntactIn(todo[j], disk, boot, call.fat, files, call.slot)
    BY StepForms
  <2> QED BY <1>4, <2>1 DEF StepsIntact, StepsIntactIn
<1>6. SlotIntact(call.fat, call.slot) <=>
      SlotIntactIn(disk, boot, fat, call.fat, files, sound \ {call.slot}, call.slot)
  BY <1>4 DEF SlotIntact, SlotIntactIn, Others
<1> QED
  BY <1>1, <1>2, <1>3, <1>5, <1>6 DEF Plan, IntactSound

\* The predicates on now and after, of the state and of parameters.
LEMMA OpenForms ==
    ASSUME boot # ZeroBoot
    PROVE  /\ Now(disk, boot, fat, dirty, call, files, sound, safe) <=>
                NowSound /\ NowStored /\ CleanSound
           /\ After(disk, boot, fat, dirty, todo, call, files, sound) <=>
                AfterSound /\ AfterStored /\ AfterSync
<1>1. Image = boot /\ Table = fat
  BY DEF Image, Table
<1>2. /\ Entries(boot) = EntriesIn(disk, boot) /\ Data(boot) = DataIn(disk, boot)
      /\ Copies(boot) = TablesIn(disk, boot) /\ FatOnDisk(boot, 1) = CopyIn(disk, boot, 1)
  BY Decoded DEF FatCopies
<1>3. /\ EntriesAfter(todo, boot) = EntriesAfterIn(disk, todo, boot)
      /\ DataAfter(todo, boot) = DataAfterIn(disk, todo, boot)
      /\ FatAfter(todo) = FatAfterIn(fat, todo)
      /\ \A copy \in FatCopies :
            CopiesAfter(todo, boot)[copy] = CopyAfterIn(disk, todo, boot, copy)
      /\ CellAfter(todo, 0, 0, ZeroBoot) = CellAfterIn(disk, todo, 0, 0, ZeroBoot)
  BY DecodedAfter
<1>4. Ready <=> call.op # "Format"
  BY DEF Ready
<1>5. NowSound <=>
      (call.op # "Format" => Sound(EntriesIn(disk, boot), DataIn(disk, boot), fat,
                                   sound \ {call.slot}, files))
  BY <1>1, <1>2 DEF NowSound, Others
<1>6. NowStored <=>
      Stored(EntriesIn(disk, boot), fat, TablesIn(disk, boot),
             DOMAIN files \cap (IF call.op # "Format" /\ ~dirty THEN sound \ {call.slot} ELSE safe))
  BY <1>1, <1>2, <1>4 DEF NowStored, Others
<1>7. CleanSound <=> (call.op # "Format" /\ ~dirty => CopyIn(disk, boot, 1) = fat)
  BY <1>2, <1>4 DEF CleanSound
<1>8. Now(disk, boot, fat, dirty, call, files, sound, safe) <=> NowSound /\ NowStored /\ CleanSound
  BY <1>5, <1>6, <1>7 DEF Now
<1>9. AfterSound <=>
      Sound(EntriesAfterIn(disk, todo, boot), DataAfterIn(disk, todo, boot),
            FatAfterIn(fat, todo), sound, FilesAfter)
  BY <1>3 DEF AfterSound
<1>10. AfterStored <=>
       (call.op # "Format" /\ ~dirty /\ (\A i \in DOMAIN todo : DOMAIN todo[i].put = {}) =>
          Stored(EntriesAfterIn(disk, todo, boot), fat, TablesIn(disk, boot),
                 sound \cap DOMAIN FilesAfter))
  BY <1>2, <1>3, <1>4 DEF AfterStored
<1>11. AfterSync <=>
       /\ call.op \in {"Format", "Sync"} =>
             \A copy \in FatCopies : CopyAfterIn(disk, todo, boot, copy) = FatAfterIn(fat, todo)
       /\ call.op = "Format" => CellAfterIn(disk, todo, 0, 0, ZeroBoot) = boot
  BY <1>3 DEF AfterSync
<1>12. After(disk, boot, fat, dirty, todo, call, files, sound) <=>
       AfterSound /\ AfterStored /\ AfterSync
  BY <1>9, <1>10, <1>11 DEF After, FilesAfter
<1> QED
  BY <1>8, <1>12

\* The invariant while a file system is open, assembled from its parts ...
LEMMA OpenInv == OpenState => IInv
<1> SUFFICES ASSUME OpenState PROVE IInv
  OBVIOUS
<1>1. /\ fat \in [Cluster -> FatEntry] /\ dirty \in BOOLEAN
      /\ safe \subseteq sound /\ sound \subseteq Slots /\ DOMAIN files \subseteq Slots
      /\ Shape(disk, boot) /\ BootIn(disk) \in {ZeroBoot, boot}
      /\ (call.op # "Format" => BootIn(disk) = boot)
      /\ CallShapeIn(dirty, todo, call, files, sound, safe)
      /\ Plan(disk, boot, fat, todo, call, files, sound)
      /\ Now(disk, boot, fat, dirty, call, files, sound, safe)
      /\ After(disk, boot, fat, dirty, todo, call, files, sound)
      /\ Returned(ret)
  BY DEF OpenState, Open
<1>2. boot # ZeroBoot /\ boot \in BootSectors
  BY <1>1, BootNotZero DEF Shape
<1>3. Image = boot /\ BootOnDisk = BootIn(disk) /\ Entries(boot) = EntriesIn(disk, boot)
      /\ Copies(boot) = TablesIn(disk, boot)
  BY <1>2, Decoded DEF Image
<1>4. ImageShape
  BY <1>1, <1>2, <1>3 DEF ImageShape, Shape, Ready
<1>5. CallShape
  BY <1>1 DEF CallShape, CallShapeIn, Others
<1>6. /\ \A i \in DOMAIN todo : StepShape(todo[i])
      /\ Ready => \A s \in Others, i \in DOMAIN todo : StepClear(todo[i], s)
      /\ RollbackSound /\ IntactSound
  BY <1>1, <1>2, PlanForms
<1>7. NowSound /\ NowStored /\ CleanSound /\ AfterSound /\ AfterStored /\ AfterSync
  BY <1>1, <1>2, OpenForms
<1>8. TypeOK
  <2>1. \A s \in Slots : EntryAt(boot, s) \in Entry
    BY <1>1, Decoded DEF Shape
  <2>2. \A i \in DOMAIN todo : todo[i].block \in DOMAIN disk
    BY <1>6 DEF StepShape
  <2> QED BY <1>1, <1>2, <2>1, <2>2 DEF TypeOK, BootSectors, Returned
<1> QED
  BY <1>4, <1>5, <1>6, <1>7, <1>8 DEF IInv

\* ... and taken apart.
LEMMA InvOpen == IInv /\ boot # ZeroBoot => OpenState
<1> SUFFICES ASSUME IInv, boot # ZeroBoot PROVE OpenState
  OBVIOUS
<1>1. ImageShape /\ CallShape /\ TypeOK /\ NowSound /\ NowStored /\ CleanSound
      /\ AfterSound /\ AfterStored /\ AfterSync
  BY DEF IInv
<1>2. Plan(disk, boot, fat, todo, call, files, sound)
  BY PlanForms DEF IInv
<1>3. Now(disk, boot, fat, dirty, call, files, sound, safe)
      /\ After(disk, boot, fat, dirty, todo, call, files, sound)
  BY <1>1, OpenForms
<1>4. Image = boot /\ BootOnDisk = BootIn(disk) /\ Entries(boot) = EntriesIn(disk, boot)
      /\ Copies(boot) = TablesIn(disk, boot)
  BY Decoded DEF Image
<1>5. /\ fat \in [Cluster -> FatEntry] /\ dirty \in BOOLEAN
      /\ safe \subseteq sound /\ sound \subseteq Slots /\ DOMAIN files \subseteq Slots
      /\ Returned(ret)
  BY <1>1 DEF TypeOK, Returned
<1>6. Shape(disk, boot) /\ BootIn(disk) \in {ZeroBoot, boot}
      /\ (call.op # "Format" => BootIn(disk) = boot)
  BY <1>1, <1>4 DEF ImageShape, Shape, Ready
<1>7. CallShapeIn(dirty, todo, call, files, sound, safe)
  BY <1>1 DEF CallShape, CallShapeIn, Others
<1> QED
  BY <1>2, <1>3, <1>5, <1>6, <1>7 DEF OpenState, Open

\* The invariant is that of a closed or that of an open file system ...
LEMMA InvForms == IInv <=> ClosedState \/ OpenState
  BY ClosedInv, InvClosed, OpenInv, InvOpen

\* In the next state too.
LEMMA InvNext == IInv' <=> ClosedState' \/ OpenState'
  BY InvForms, PTL

\* The invariant of an open file system in the next state.
LEMMA OpenNext ==
    OpenState' <=>
      Open(disk', boot', fat', dirty', todo', call', files', sound', safe') /\ Returned(ret')
  BY DEF OpenState

\* The invariant of a closed one in the next state.
LEMMA ClosedNext ==
    ClosedState' <=>
      /\ Closed(disk', files', safe') /\ Returned(ret')
      /\ boot' = ZeroBoot /\ fat' = NoFat /\ dirty' = FALSE /\ todo' = <<>> /\ call' = NoCall
      /\ sound' = safe'
  BY DEF ClosedState

\* The inductive invariant between the calls of an open file system.
Idle(d, b, f, y, x, n, v) ==
    /\ f \in [Cluster -> FatEntry] /\ y \in BOOLEAN
    /\ v \subseteq n /\ n \subseteq Slots /\ DOMAIN x \subseteq Slots
    /\ Shape(d, b) /\ BootIn(d) = b
    /\ Sound(EntriesIn(d, b), DataIn(d, b), f, n, x)
    /\ Stored(EntriesIn(d, b), f, TablesIn(d, b), DOMAIN x \cap (IF ~y THEN n ELSE v))
    /\ ~y => CopyIn(d, b, 1) = f

\* The fields of no call.
LEMMA NoCallFacts ==
    /\ NoCall.op = "None" /\ NoCall.slot = 0 /\ NoCall.fat = NoFat /\ NoCall.files = <<>>
    /\ NoCall.fat \in [Cluster -> FatEntry] /\ DOMAIN NoCall.files = {}
<1>1. NoCall.op = "None" /\ NoCall.slot = 0 /\ NoCall.fat = NoFat /\ NoCall.files = <<>>
  BY DEF NoCall
<1> QED
  BY <1>1, NoFatType, EmptyMap

\* A part of what is sound or stored is.
LEMMA Part ==
    ASSUME NEW S, NEW P, P \subseteq S, NEW entries, NEW data, NEW f, NEW copies, NEW x
    PROVE  /\ Sound(entries, data, f, S, x) => Sound(entries, data, f, P, x)
           /\ Stored(entries, f, copies, S) => Stored(entries, f, copies, P)
  BY DEF Sound, Apart, Stored

\* Between calls there are no steps, and the invariant says less.
LEMMA OpenIdle ==
    ASSUME NEW d, NEW b, NEW f, NEW y, NEW x, NEW n, NEW v
    PROVE  Open(d, b, f, y, <<>>, NoCall, x, n, v) <=> Idle(d, b, f, y, x, n, v)
<1>1. ASSUME Open(d, b, f, y, <<>>, NoCall, x, n, v) PROVE Idle(d, b, f, y, x, n, v)
  <2>1. /\ f \in [Cluster -> FatEntry] /\ y \in BOOLEAN
        /\ v \subseteq n /\ n \subseteq Slots /\ DOMAIN x \subseteq Slots
        /\ Shape(d, b) /\ (NoCall.op # "Format" => BootIn(d) = b)
        /\ Now(d, b, f, y, NoCall, x, n, v)
    BY <1>1 DEF Open
  <2>2. n \ {NoCall.slot} = n /\ NoCall.op # "Format"
    BY <2>1, NoCallFacts, SlotsFacts
  <2> QED BY <2>1, <2>2 DEF Idle, Now
<1>2. ASSUME Idle(d, b, f, y, x, n, v) PROVE Open(d, b, f, y, <<>>, NoCall, x, n, v)
  <2>1. /\ f \in [Cluster -> FatEntry] /\ y \in BOOLEAN
        /\ v \subseteq n /\ n \subseteq Slots /\ DOMAIN x \subseteq Slots
        /\ Shape(d, b) /\ BootIn(d) = b
        /\ Sound(EntriesIn(d, b), DataIn(d, b), f, n, x)
        /\ Stored(EntriesIn(d, b), f, TablesIn(d, b), DOMAIN x \cap (IF ~y THEN n ELSE v))
        /\ (~y => CopyIn(d, b, 1) = f)
    BY <1>2 DEF Idle
  <2>2. n \ {NoCall.slot} = n /\ NoCall.op = "None" /\ DOMAIN <<>> = {}
    BY <2>1, NoCallFacts, SlotsFacts, EmptySteps
  <2>3. CallShapeIn(y, <<>>, NoCall, x, n, v)
    <3>1. <<>> \in Seq(ToSet(<<>>))
      OBVIOUS
    <3> QED BY <2>1, <2>2, <3>1, NoCallFacts DEF CallShapeIn
  <2>4. Plan(d, b, f, <<>>, NoCall, x, n)
    BY <2>2 DEF Plan, RollbackSoundIn, StepsIntactIn
  <2>5. Now(d, b, f, y, NoCall, x, n, v)
    BY <2>1, <2>2 DEF Now
  <2>6. /\ EntriesAfterIn(d, <<>>, b) = EntriesIn(d, b) /\ DataAfterIn(d, <<>>, b) = DataIn(d, b)
        /\ FatAfterIn(f, <<>>) = f
    BY <2>1, EmptySteps
  <2>7. ~y => Stored(EntriesIn(d, b), f, TablesIn(d, b), n \cap DOMAIN x)
    BY <2>1, Part
  <2>8. After(d, b, f, y, <<>>, NoCall, x, n)
    BY <2>1, <2>2, <2>6, <2>7 DEF After
  <2> QED BY <2>1, <2>2, <2>3, <2>4, <2>5, <2>8 DEF Open
<1> QED
  BY <1>1, <1>2

-----------------------------------------------------------------------------
(* What a slot holds depends on its entry, its chain and its clusters.     *)

PathOf(entries, f, s) == Chain(f, entries[s].start)

\* The chain of a slot with a file, as a path.
Chained(entries, f, x, s) ==
    LET p == PathOf(entries, f, s)
    IN  /\ Links(f, p) /\ entries[s].start = HeadOf(p) /\ Len(p) \in Nat
        /\ Len(p) = Clusters(entries[s].size) /\ entries[s].size = Len(x[s])
        /\ x[s] \in Seq(Nat) /\ Occupied(entries[s])
        /\ ChainOf(entries, f, s) = {p[i] : i \in 1..Len(p)}
        /\ ChainOf(entries, f, s) \subseteq Cluster \ {Root}
        /\ \A c \in ChainOf(entries, f, s) : f[c] # FREE

\* The chain of a slot that holds what is expected.
LEMMA HoldsChain ==
    ASSUME NEW entries, NEW data, NEW f \in [Cluster -> FatEntry], NEW s, NEW x,
           Holds(entries, data, f, s, x), s \in DOMAIN x,
           entries[s].start \in Cluster \cup {FREE}
    PROVE  Chained(entries, f, x, s)
<1> DEFINE h == entries[s].start
           p == PathOf(entries, f, s)
           size == entries[s].size
<1>1. /\ x[s] \in Seq(Nat) /\ size = Len(x[s]) /\ Whole(f, h, Clusters(size))
      /\ Occupied(entries[s])
  BY DEF Holds
<1> HIDE DEF h
<1>2. h \in Cluster \cup {FREE}
  BY DEF h
<1>3. Links(f, p) /\ h = HeadOf(p) /\ Len(p) = Clusters(size) /\ Clusters(size) \in Nat
  BY <1>1, <1>2, WholePath DEF PathOf, h
<1>4. ChainOf(entries, f, s) = {p[i] : i \in 1..Len(p)}
  <2>1. DOMAIN p = 1..Len(p)
    BY <1>3 DEF Links
  <2> QED BY <2>1 DEF ChainOf, ToSet, PathOf, h
<1>5. \A i \in 1..Len(p) : p[i] \in Cluster \ {Root}
  BY <1>3 DEF Links
<1> HIDE DEF p
<1>6. \A i \in 1..Len(p) : f[p[i]] # FREE
  <2> TAKE i \in 1..Len(p)
  <2>1. CASE i = Len(p)
    <3>1. f[p[i]] = EOC
      BY <1>3, <2>1 DEF Links
    <3> QED BY <3>1, ClusterFacts
  <2>2. CASE i # Len(p)
    <3>1. i \in 1..(Len(p) - 1) /\ i + 1 \in 1..Len(p)
      BY <1>3, <2>2
    <3>2. f[p[i]] = p[i + 1] /\ p[i + 1] \in Cluster
      BY <1>3, <1>5, <3>1 DEF Links
    <3> QED BY <3>2, ClusterFacts
  <2> QED BY <2>1, <2>2
<1>7. ChainOf(entries, f, s) \subseteq Cluster \ {Root}
      /\ \A c \in ChainOf(entries, f, s) : f[c] # FREE
  BY <1>4, <1>5, <1>6
<1> QED
  BY <1>1, <1>3, <1>4, <1>7 DEF Chained, h, p

Kept(entries, data, f, x, others, units, g, y, s) ==
    /\ others[s] = entries[s] /\ (s \in DOMAIN y <=> s \in DOMAIN x)
    /\ s \in DOMAIN x => y[s] = x[s]
    /\ s \in DOMAIN x => \A c \in ChainOf(entries, f, s) :
          g[c] = f[c] /\ \A k \in Units : units[c][k] = data[c][k]

\* A slot holds the same file where its entry, chain and clusters are the same.
LEMMA HoldsLocal ==
    ASSUME NEW entries, NEW data, NEW f \in [Cluster -> FatEntry], NEW s, NEW x,
           Holds(entries, data, f, s, x), entries[s].start \in Cluster \cup {FREE},
           NEW others, NEW units, NEW g \in [Cluster -> FatEntry], NEW y,
           Kept(entries, data, f, x, others, units, g, y, s)
    PROVE  /\ Holds(others, units, g, s, y)
           /\ s \in DOMAIN x => ChainOf(others, g, s) = ChainOf(entries, f, s)
<1> DEFINE h == entries[s].start
           p == PathOf(entries, f, s)
           n == Clusters(entries[s].size)
<1>3. /\ others[s] = entries[s] /\ (s \in DOMAIN y <=> s \in DOMAIN x)
      /\ (s \in DOMAIN x => y[s] = x[s])
      /\ s \in DOMAIN x => \A c \in ChainOf(entries, f, s) :
            g[c] = f[c] /\ \A k \in Units : units[c][k] = data[c][k]
  BY DEF Kept
<1>1. CASE s \notin DOMAIN x
  BY <1>1, <1>3 DEF Holds
<1>2. CASE s \in DOMAIN x
  <2>1. /\ Links(f, p) /\ h = HeadOf(p) /\ Len(p) = n /\ Len(p) \in Nat
        /\ ChainOf(entries, f, s) = {p[i] : i \in 1..Len(p)}
    <3>1. Chained(entries, f, x, s)
      BY <1>2, HoldsChain
    <3> QED BY <3>1 DEF Chained
  <2>2. DOMAIN p = 1..Len(p)
    BY <2>1 DEF Links
  <2> HIDE DEF p, h, n
  <2>3. \A c \in ToSet(p) : g[c] = f[c]
    BY <1>2, <1>3, <2>1, <2>2 DEF ToSet
  <2>4. Links(g, p)
    BY <2>1, <2>3, PathLocal
  <2>5. Chain(g, h) = p /\ Whole(g, h, n) /\ p = Chain(f, h)
    BY <2>1, <2>4, PathWhole DEF PathOf, p, h
  <2>6. ChainOf(others, g, s) = ChainOf(entries, f, s)
    BY <1>3, <2>5 DEF ChainOf, h, p
  <2>7. /\ x[s] \in Seq(Nat) /\ entries[s].size = Len(x[s]) /\ Occupied(entries[s])
        /\ \A i \in 1..n, k \in Units : data[p[i]][k] = At(x[s], (i - 1) * ClusterSize + k)
    BY <1>2 DEF Holds, PathOf, h, p, n
  <2>8. \A i \in 1..n, k \in Units : units[p[i]][k] = At(x[s], (i - 1) * ClusterSize + k)
    BY <1>2, <1>3, <2>1, <2>7
  <2>9. Holds(others, units, g, s, y)
    BY <1>2, <1>3, <2>5, <2>7, <2>8 DEF Holds, h, n
  <2> QED BY <2>6, <2>9
<1> QED
  BY <1>1, <1>2

\* Where the chain of an entry starts.
LEMMA EntryStart ==
    ASSUME NEW entries \in [Slots -> Entry], NEW s \in Slots
    PROVE  entries[s].start \in Cluster \cup {FREE} /\ entries[s].size \in Nat
  BY DEF Entry

AllKept(entries, data, f, x, others, units, g, y, P) ==
    \A s \in P : Kept(entries, data, f, x, others, units, g, y, s)

\* So do all slots.
LEMMA SoundLocal ==
    ASSUME NEW entries \in [Slots -> Entry], NEW data, NEW f \in [Cluster -> FatEntry],
           NEW S \in SUBSET Slots, NEW x, Sound(entries, data, f, S, x),
           NEW others, NEW units, NEW g \in [Cluster -> FatEntry], NEW y,
           NEW P \in SUBSET S,
           AllKept(entries, data, f, x, others, units, g, y, P)
    PROVE  /\ Sound(others, units, g, P, y)
           /\ \A s \in P \cap DOMAIN x : ChainOf(others, g, s) = ChainOf(entries, f, s)
<1>1. ASSUME NEW s \in P
      PROVE  /\ Holds(others, units, g, s, y)
             /\ s \in DOMAIN x => ChainOf(others, g, s) = ChainOf(entries, f, s)
  <2>1. Holds(entries, data, f, s, x) /\ entries[s].start \in Cluster \cup {FREE}
    BY EntryStart DEF Sound
  <2>2. Kept(entries, data, f, x, others, units, g, y, s)
    BY DEF AllKept
  <2> QED BY <2>1, <2>2, HoldsLocal
<1>2. Apart(others, g, P \cap DOMAIN y)
  <2>1. Apart(entries, f, S \cap DOMAIN x)
    BY DEF Sound
  <2>2. \A s \in P \cap DOMAIN y :
           s \in S \cap DOMAIN x /\ ChainOf(others, g, s) = ChainOf(entries, f, s)
    BY <1>1 DEF AllKept, Kept
  <2> QED BY <2>1, <2>2 DEF Apart
<1> QED
  BY <1>1, <1>2 DEF Sound

\* What is stored stays so where the chains, the table and the copies do.
LEMMA StoredLocal ==
    ASSUME NEW entries, NEW others, NEW f, NEW g, NEW copies, NEW saved, NEW S,
           Stored(entries, f, copies, S),
           \A s \in S : /\ ChainOf(others, g, s) = ChainOf(entries, f, s)
                        /\ \A c \in ChainOf(entries, f, s) : g[c] = f[c],
           \A s \in S : \A c \in ChainOf(entries, f, s), copy \in FatCopies :
              saved[copy][c] = copies[copy][c] \/ saved[copy][c] = f[c]
    PROVE  Stored(others, g, saved, S)
  BY DEF Stored

-----------------------------------------------------------------------------
(* The last of some steps.                                                 *)

\* The largest of a set of places is one of them.
LEMMA LatestFacts ==
    ASSUME NEW n \in Nat, NEW T \in SUBSET (1..n), T # {}
    PROVE  Latest(T) \in T /\ \A j \in T : j <= Latest(T)
<1> DEFINE S == {n - i : i \in T}
<1>1. S \in SUBSET Nat /\ S # {}
  <2>1. \A i \in T : n - i \in Nat
    OBVIOUS
  <2>2. S \subseteq Nat
    BY <2>1
  <2>3. PICK i : i \in T
    OBVIOUS
  <2>4. n - i \in S
    BY <2>3
  <2> QED BY <2>2, <2>4
<1>2. Min(S) \in S /\ \A x \in S : Min(S) <= x
  BY <1>1, MinIsLeast
<1> HIDE DEF S
<1>3. PICK i \in T : Min(S) = n - i
  BY <1>2 DEF S
<1>4. \A j \in T : n - i <= n - j
  BY <1>2, <1>3 DEF S
<1>5. \A j \in T : j <= i
  <2> TAKE j \in T
  <2>1. n - i <= n - j /\ i \in Nat /\ j \in Nat
    BY <1>4
  <2> QED BY <2>1
<1> QED
  BY <1>5 DEF Latest

\* ... and is the place that no other exceeds.
LEMMA LatestIs ==
    ASSUME NEW n \in Nat, NEW T \in SUBSET (1..n), NEW i \in T, \A j \in T : j <= i
    PROVE  Latest(T) = i
<1>1. Latest(T) \in T /\ \A j \in T : j <= Latest(T)
  BY LatestFacts
<1> DEFINE l == Latest(T)
<1>2. l <= i /\ i <= l /\ i \in 1..n /\ l \in 1..n
  BY <1>1
<1> HIDE DEF l
<1>3. l = i
  BY <1>2
<1> QED
  BY <1>3 DEF l

\* The steps of a call, one by one.
Steps(t) == t \in Seq(ToSet(t))

\* Sequences of steps: their domain, and what is left of them without the first.
LEMMA StepsFacts ==
    ASSUME NEW t, Steps(t)
    PROVE  /\ Len(t) \in Nat /\ DOMAIN t = 1..Len(t)
           /\ t # <<>> <=> Len(t) > 0
           /\ t # <<>> =>
                 /\ 1 \in DOMAIN t /\ Head(t) = t[1] /\ Steps(Tail(t))
                 /\ Len(Tail(t)) = Len(t) - 1 /\ DOMAIN Tail(t) = 1..(Len(t) - 1)
                 /\ \A i \in DOMAIN Tail(t) : Tail(t)[i] = t[i + 1] /\ i + 1 \in DOMAIN t
                 /\ \A i \in DOMAIN t : i = 1 \/ (i - 1 \in DOMAIN Tail(t) /\ (i - 1) + 1 = i)
<1> DEFINE S == ToSet(t)
<1>1. t \in Seq(S)
  BY DEF Steps
<1> HIDE DEF S
<1>2. Len(t) \in Nat /\ DOMAIN t = 1..Len(t) /\ (t # <<>> <=> Len(t) > 0)
  BY <1>1
<1>3. ASSUME t # <<>>
      PROVE  /\ 1 \in DOMAIN t /\ Head(t) = t[1]
             /\ Len(Tail(t)) = Len(t) - 1 /\ DOMAIN Tail(t) = 1..(Len(t) - 1)
             /\ \A i \in DOMAIN Tail(t) : Tail(t)[i] = t[i + 1] /\ i + 1 \in DOMAIN t
             /\ \A i \in DOMAIN t : i = 1 \/ (i - 1 \in DOMAIN Tail(t) /\ (i - 1) + 1 = i)
             /\ Tail(t) \in Seq(S)
  BY <1>1, <1>2, <1>3
<1>4. ASSUME t # <<>> PROVE Steps(Tail(t))
  <2>1. Tail(t) \in Seq(S) /\ Len(Tail(t)) \in Nat /\ DOMAIN Tail(t) = 1..Len(Tail(t))
    BY <1>2, <1>3, <1>4
  <2>2. \A i \in 1..Len(Tail(t)) : Tail(t)[i] \in ToSet(Tail(t))
    BY <2>1 DEF ToSet
  <2> DEFINE u == Tail(t)
  <2>3. u \in Seq(S) /\ Len(u) \in Nat /\ \A i \in 1..Len(u) : u[i] \in ToSet(u)
    BY <2>1, <2>2
  <2> HIDE DEF u
  <2>4. u \in Seq(ToSet(u))
    BY <2>3
  <2> QED BY <2>4 DEF Steps, u
<1> QED
  BY <1>2, <1>3, <1>4

\* What every step of a set leaves is what the steps together leave.
LEMMA Untouched ==
    ASSUME NEW d, NEW t, NEW block, NEW k, NEW zero,
           \A i \in DOMAIN t : ~Touches(t[i], block, k)
    PROVE  CellAfterIn(d, t, block, k, zero) = CellIn(d, block, k, zero)
  BY DEF CellAfterIn, Touching

\* Step i is the last to touch a cell, or to put an entry.
LastTouch(t, i, block, k) ==
    /\ i \in DOMAIN t /\ Touches(t[i], block, k)
    /\ \A j \in DOMAIN t : j > i => ~Touches(t[j], block, k)
LastPut(t, i, c) ==
    /\ i \in DOMAIN t /\ c \in DOMAIN t[i].put
    /\ \A j \in DOMAIN t : j > i => c \notin DOMAIN t[j].put

\* Whatever steps do to a cell, or to an entry, leaves it with one value.
TouchesLeave(d, t, block, k, zero, v) ==
    /\ \A i \in DOMAIN t : Touches(t[i], block, k) => Written(t[i], k, zero) = v
    /\ CellIn(d, block, k, zero) = v \/ \E i \in DOMAIN t : Touches(t[i], block, k)
PutsLeave(f, t, c, v) ==
    /\ \A i \in DOMAIN t : c \in DOMAIN t[i].put => t[i].put[c] = v
    /\ f[c] = v \/ \E i \in DOMAIN t : c \in DOMAIN t[i].put

\* The last step that touches a cell decides what is in it.
LEMMA TouchedLast ==
    ASSUME NEW d, NEW t, Steps(t), NEW block, NEW k, NEW zero, NEW i, LastTouch(t, i, block, k)
    PROVE  CellAfterIn(d, t, block, k, zero) = Written(t[i], k, zero)
<1> DEFINE T == Touching(t, block, k)
           n == Len(t)
<1>1. n \in Nat /\ DOMAIN t = 1..n
  BY StepsFacts
<1>2. T \in SUBSET (1..n) /\ i \in T
  BY <1>1 DEF Touching, LastTouch
<1>3. \A j \in T : j <= i
  <2>1. \A j \in T : j \in DOMAIN t /\ ~(j > i)
    BY DEF Touching, LastTouch
  <2> HIDE DEF T, n
  <2> QED BY <1>1, <1>2, <2>1
<1>4. Latest(T) = i
  BY <1>1, <1>2, <1>3, LatestIs
<1> QED
  BY <1>2, <1>4 DEF CellAfterIn

\* A cell whose steps all leave it some value has that value after them.
LEMMA TouchedSame ==
    ASSUME NEW d, NEW t, Steps(t), NEW block, NEW k, NEW zero, NEW v,
           TouchesLeave(d, t, block, k, zero, v)
    PROVE  CellAfterIn(d, t, block, k, zero) = v
<1> DEFINE T == Touching(t, block, k)
           n == Len(t)
<1>1. n \in Nat /\ DOMAIN t = 1..n
  BY StepsFacts
<1>2. T \in SUBSET (1..n)
  BY <1>1 DEF Touching
<1>3. CASE T = {}
  BY <1>3 DEF CellAfterIn, Touching, TouchesLeave
<1>4. CASE T # {}
  <2>1. Latest(T) \in T
    BY <1>1, <1>2, <1>4, LatestFacts
  <2>2. Written(t[Latest(T)], k, zero) = v
    BY <2>1 DEF Touching, TouchesLeave
  <2> QED BY <1>4, <2>2 DEF CellAfterIn
<1> QED
  BY <1>3, <1>4

\* The same for the table.
LEMMA PutLast ==
    ASSUME NEW f, NEW t, Steps(t), NEW c \in Cluster, NEW i, LastPut(t, i, c)
    PROVE  FatAfterIn(f, t)[c] = t[i].put[c]
<1> DEFINE T == Putting(t, c)
           n == Len(t)
<1>1. n \in Nat /\ DOMAIN t = 1..n
  BY StepsFacts
<1>2. T \in SUBSET (1..n) /\ i \in T
  BY <1>1 DEF Putting, LastPut
<1>3. \A j \in T : j <= i
  <2>1. \A j \in T : j \in DOMAIN t /\ ~(j > i)
    BY DEF Putting, LastPut
  <2> HIDE DEF T, n
  <2> QED BY <1>1, <1>2, <2>1
<1>4. Latest(T) = i
  BY <1>1, <1>2, <1>3, LatestIs
<1> QED
  BY <1>2, <1>4 DEF FatAfterIn

\* The same of an entry of the table.
LEMMA PutSame ==
    ASSUME NEW f, NEW t, Steps(t), NEW c \in Cluster, NEW v, PutsLeave(f, t, c, v)
    PROVE  FatAfterIn(f, t)[c] = v
<1> DEFINE T == Putting(t, c)
           n == Len(t)
<1>1. n \in Nat /\ DOMAIN t = 1..n
  BY StepsFacts
<1>2. T \in SUBSET (1..n)
  BY <1>1 DEF Putting
<1>3. CASE T = {}
  BY <1>3 DEF FatAfterIn, Putting, PutsLeave
<1>4. CASE T # {}
  <2>1. Latest(T) \in T
    BY <1>1, <1>2, <1>4, LatestFacts
  <2>2. t[Latest(T)].put[c] = v
    BY <2>1 DEF Putting, PutsLeave
  <2> QED BY <1>4, <2>2 DEF FatAfterIn
<1> QED
  BY <1>3, <1>4

\* The table that steps leave is a table.
LEMMA FatAfterType ==
    ASSUME NEW f \in [Cluster -> FatEntry], NEW t, Steps(t),
           \A i \in DOMAIN t : \A c \in DOMAIN t[i].put : t[i].put[c] \in FatEntry
    PROVE  FatAfterIn(f, t) \in [Cluster -> FatEntry]
<1> SUFFICES ASSUME NEW c \in Cluster
             PROVE  (IF Putting(t, c) = {} THEN f[c] ELSE t[Latest(Putting(t, c))].put[c])
                       \in FatEntry
  BY DEF FatAfterIn
<1>1. Len(t) \in Nat /\ DOMAIN t = 1..Len(t)
  BY StepsFacts
<1>2. Putting(t, c) \in SUBSET (1..Len(t))
  BY <1>1 DEF Putting
<1>3. CASE Putting(t, c) # {}
  <2>1. Latest(Putting(t, c)) \in Putting(t, c)
    BY <1>1, <1>2, <1>3, LatestFacts
  <2> QED BY <1>3, <2>1 DEF Putting
<1> QED
  BY <1>3

-----------------------------------------------------------------------------
(* The image after one write.                                              *)

WriteTo(d, step) ==
    [d EXCEPT ![step.block] = Overlay(step.cells, [k \in DOMAIN @ \ step.zeros |-> @[k]])]

\* What a block write changes.
LEMMA WriteFacts ==
    ASSUME NEW d, NEW step, step.block \in DOMAIN d
    PROVE  /\ DOMAIN WriteTo(d, step) = DOMAIN d
           /\ \A block \in DOMAIN d : \A k, zero :
                 CellIn(WriteTo(d, step), block, k, zero) =
                    IF Touches(step, block, k) THEN Written(step, k, zero)
                    ELSE CellIn(d, block, k, zero)
<1> DEFINE old == d[step.block]
           rest == [k \in DOMAIN old \ step.zeros |-> old[k]]
           new == Overlay(step.cells, rest)
<1>1. WriteTo(d, step) = [d EXCEPT ![step.block] = new]
  BY DEF WriteTo
<1>3. DOMAIN rest = DOMAIN old \ step.zeros /\ \A k \in DOMAIN rest : rest[k] = old[k]
  OBVIOUS
<1> HIDE DEF rest
<1>2. /\ DOMAIN new = DOMAIN step.cells \cup DOMAIN rest
      /\ \A k \in DOMAIN step.cells : new[k] = step.cells[k]
      /\ \A k \in DOMAIN rest : k \notin DOMAIN step.cells => new[k] = rest[k]
  BY OverlayFacts
<1> HIDE DEF new
<1>4. /\ DOMAIN WriteTo(d, step) = DOMAIN d /\ WriteTo(d, step)[step.block] = new
      /\ \A block \in DOMAIN d : block # step.block => WriteTo(d, step)[block] = d[block]
  BY <1>1
<1>5. ASSUME NEW block \in DOMAIN d, NEW k, NEW zero
      PROVE  CellIn(WriteTo(d, step), block, k, zero) =
                IF Touches(step, block, k) THEN Written(step, k, zero)
                ELSE CellIn(d, block, k, zero)
  <2>1. CASE block # step.block
    BY <1>4, <2>1 DEF CellIn, Touches
  <2>2. CASE block = step.block
    <3>1. CellIn(WriteTo(d, step), block, k, zero) = IF k \in DOMAIN new THEN new[k] ELSE zero
      BY <1>4, <2>2 DEF CellIn
    <3>2. Touches(step, block, k) <=> k \in DOMAIN step.cells \cup step.zeros
      BY <2>2 DEF Touches
    <3>3. CellIn(d, block, k, zero) = IF k \in DOMAIN old THEN old[k] ELSE zero
      BY <2>2 DEF CellIn
    <3> HIDE DEF old
    <3> QED BY <1>2, <1>3, <3>1, <3>2, <3>3 DEF Written
  <2> QED BY <2>1, <2>2
<1> QED
  BY <1>4, <1>5

\* The first step, then the others: the cells they leave ...
LEMMA CellAfterTail ==
    ASSUME NEW d, NEW t, Steps(t), t # <<>>, t[1].block \in DOMAIN d,
           NEW block \in DOMAIN d, NEW k, NEW zero
    PROVE  CellAfterIn(WriteTo(d, t[1]), Tail(t), block, k, zero) =
           CellAfterIn(d, t, block, k, zero)
<1> DEFINE u == Tail(t)
           e == WriteTo(d, t[1])
           n == Len(t)
<1>1. /\ n \in Nat /\ n > 0 /\ DOMAIN t = 1..n /\ 1 \in DOMAIN t /\ Steps(u)
      /\ DOMAIN u = 1..(n - 1)
      /\ \A i \in DOMAIN u : u[i] = t[i + 1] /\ i + 1 \in DOMAIN t
      /\ \A i \in DOMAIN t : i = 1 \/ (i - 1 \in DOMAIN u /\ (i - 1) + 1 = i)
  BY StepsFacts
<1>2. CellIn(e, block, k, zero) =
         IF Touches(t[1], block, k) THEN Written(t[1], k, zero) ELSE CellIn(d, block, k, zero)
  BY WriteFacts
<1> HIDE DEF u, e, n
<1>3. CASE \A i \in DOMAIN u : ~Touches(u[i], block, k)
  <2>1. CellAfterIn(e, u, block, k, zero) = CellIn(e, block, k, zero)
    BY <1>3, Untouched
  <2>2. \A i \in DOMAIN t : i = 1 \/ ~Touches(t[i], block, k)
    <3> TAKE i \in DOMAIN t
    <3>1. CASE i # 1
      <4>1. i - 1 \in DOMAIN u /\ u[i - 1] = t[i]
        BY <1>1, <3>1
      <4> QED BY <1>3, <4>1
    <3> QED BY <3>1
  <2>3. CASE Touches(t[1], block, k)
    <3>1. \A j \in DOMAIN t : j > 1 => ~Touches(t[j], block, k)
      BY <1>1, <2>2
    <3>2. CellAfterIn(d, t, block, k, zero) = Written(t[1], k, zero)
      <4>1. LastTouch(t, 1, block, k)
        BY <1>1, <2>3, <3>1 DEF LastTouch
      <4> QED BY <4>1, TouchedLast
    <3> QED BY <1>2, <2>1, <2>3, <3>2 DEF u, e
  <2>4. CASE ~Touches(t[1], block, k)
    <3>1. \A i \in DOMAIN t : ~Touches(t[i], block, k)
      BY <2>2, <2>4
    <3>2. CellAfterIn(d, t, block, k, zero) = CellIn(d, block, k, zero)
      BY <3>1, Untouched
    <3> QED BY <1>2, <2>1, <2>4, <3>2 DEF u, e
  <2> QED BY <2>3, <2>4
<1>4. CASE \E i \in DOMAIN u : Touches(u[i], block, k)
  <2> DEFINE U == Touching(u, block, k)
             l == Latest(U)
  <2>1. U \in SUBSET (1..(n - 1)) /\ U # {} /\ n - 1 \in Nat
    BY <1>1, <1>4 DEF Touching
  <2>2. l \in U /\ \A j \in U : j <= l
    BY <2>1, LatestFacts
  <2>3. l \in DOMAIN u /\ Touches(u[l], block, k)
    BY <2>2 DEF Touching
  <2>4. \A j \in DOMAIN u : j > l => ~Touches(u[j], block, k)
    <3>1. \A j \in DOMAIN u : Touches(u[j], block, k) => j <= l
      BY <2>2 DEF Touching
    <3> HIDE DEF l
    <3> QED BY <1>1, <2>3, <3>1
  <2> HIDE DEF l
  <2>5. CellAfterIn(e, u, block, k, zero) = Written(u[l], k, zero)
    <3>1. LastTouch(u, l, block, k)
      BY <2>3, <2>4 DEF LastTouch
    <3> QED BY <1>1, <3>1, TouchedLast
  <2>6. l + 1 \in DOMAIN t /\ u[l] = t[l + 1] /\ Touches(t[l + 1], block, k) /\ l \in Nat
    BY <1>1, <2>3
  <2>7. \A j \in DOMAIN t : j > l + 1 => ~Touches(t[j], block, k)
    <3> SUFFICES ASSUME NEW j \in DOMAIN t, j > l + 1 PROVE ~Touches(t[j], block, k)
      OBVIOUS
    <3>1. j - 1 \in DOMAIN u /\ u[j - 1] = t[j] /\ j - 1 > l
      BY <1>1, <2>6
    <3> QED BY <2>4, <3>1
  <2>8. CellAfterIn(d, t, block, k, zero) = Written(t[l + 1], k, zero)
    <3>1. LastTouch(t, l + 1, block, k)
      BY <2>6, <2>7 DEF LastTouch
    <3> QED BY <3>1, TouchedLast
  <2> QED BY <2>5, <2>6, <2>8 DEF u, e
<1> QED
  BY <1>3, <1>4

\* ... and the table.
LEMMA FatAfterTail ==
    ASSUME NEW f \in [Cluster -> FatEntry], NEW t, Steps(t), t # <<>>,
           DOMAIN t[1].put \subseteq Cluster, \A c \in DOMAIN t[1].put : t[1].put[c] \in FatEntry
    PROVE  FatAfterIn(Overlay(t[1].put, f), Tail(t)) = FatAfterIn(f, t)
<1> DEFINE u == Tail(t)
           g == Overlay(t[1].put, f)
           n == Len(t)
<1>1. /\ n \in Nat /\ n > 0 /\ DOMAIN t = 1..n /\ 1 \in DOMAIN t /\ Steps(u)
      /\ DOMAIN u = 1..(n - 1)
      /\ \A i \in DOMAIN u : u[i] = t[i + 1] /\ i + 1 \in DOMAIN t
      /\ \A i \in DOMAIN t : i = 1 \/ (i - 1 \in DOMAIN u /\ (i - 1) + 1 = i)
  BY StepsFacts
<1>2. \A c \in Cluster : g[c] = IF c \in DOMAIN t[1].put THEN t[1].put[c] ELSE f[c]
  BY PutTable
<1> HIDE DEF u, g, n
<1>3. ASSUME NEW c \in Cluster PROVE FatAfterIn(g, u)[c] = FatAfterIn(f, t)[c]
  <2>1. CASE \A i \in DOMAIN u : c \notin DOMAIN u[i].put
    <3>1. FatAfterIn(g, u)[c] = g[c]
      <4>1. PutsLeave(g, u, c, g[c])
        BY <2>1 DEF PutsLeave
      <4> QED BY <1>1, <4>1, PutSame
    <3>2. \A i \in DOMAIN t : i = 1 \/ c \notin DOMAIN t[i].put
      <4> TAKE i \in DOMAIN t
      <4>1. CASE i # 1
        <5>1. i - 1 \in DOMAIN u /\ u[i - 1] = t[i]
          BY <1>1, <4>1
        <5> QED BY <2>1, <5>1
      <4> QED BY <4>1
    <3>3. FatAfterIn(f, t)[c] = g[c]
      <4>1. PutsLeave(f, t, c, g[c])
        BY <1>1, <1>2, <3>2 DEF PutsLeave
      <4> QED BY <4>1, PutSame
    <3> QED BY <3>1, <3>3
  <2>2. CASE \E i \in DOMAIN u : c \in DOMAIN u[i].put
    <3> DEFINE U == Putting(u, c)
               l == Latest(U)
    <3>1. U \in SUBSET (1..(n - 1)) /\ U # {} /\ n - 1 \in Nat
      BY <1>1, <2>2 DEF Putting
    <3>2. l \in U /\ \A j \in U : j <= l
      BY <3>1, LatestFacts
    <3>3. l \in DOMAIN u /\ c \in DOMAIN u[l].put
      BY <3>2 DEF Putting
    <3>4. \A j \in DOMAIN u : j > l => c \notin DOMAIN u[j].put
      <4>1. \A j \in DOMAIN u : c \in DOMAIN u[j].put => j <= l
        BY <3>2 DEF Putting
      <4> HIDE DEF l
      <4> QED BY <1>1, <3>3, <4>1
    <3> HIDE DEF l
    <3>5. FatAfterIn(g, u)[c] = u[l].put[c]
      <4>1. LastPut(u, l, c)
        BY <3>3, <3>4 DEF LastPut
      <4> QED BY <1>1, <4>1, PutLast
    <3>6. l + 1 \in DOMAIN t /\ u[l] = t[l + 1] /\ c \in DOMAIN t[l + 1].put /\ l \in Nat
      BY <1>1, <3>3
    <3>7. \A j \in DOMAIN t : j > l + 1 => c \notin DOMAIN t[j].put
      <4> SUFFICES ASSUME NEW j \in DOMAIN t, j > l + 1 PROVE c \notin DOMAIN t[j].put
        OBVIOUS
      <4>1. j - 1 \in DOMAIN u /\ u[j - 1] = t[j] /\ j - 1 > l
        BY <1>1, <3>6
      <4> QED BY <3>4, <4>1
    <3>8. FatAfterIn(f, t)[c] = t[l + 1].put[c]
      <4>1. LastPut(t, l + 1, c)
        BY <3>6, <3>7 DEF LastPut
      <4> QED BY <4>1, PutLast
    <3> QED BY <3>5, <3>6, <3>8
  <2> QED BY <2>1, <2>2
<1>4. FatAfterIn(g, u) = [c \in Cluster |-> FatAfterIn(g, u)[c]]
      /\ FatAfterIn(f, t) = [c \in Cluster |-> FatAfterIn(f, t)[c]]
  BY DEF FatAfterIn
<1>5. FatAfterIn(g, u) = FatAfterIn(f, t)
  BY <1>3, <1>4
<1> QED
  BY <1>5 DEF g, u

\* The boot sector, the copies of the table and the clusters do not meet.
LEMMA Places ==
    ASSUME NEW d, NEW b, Shape(d, b)
    PROVE  /\ 0 \in DOMAIN d /\ Root \in Cluster /\ FirstBlock(b, Root) # 0
           /\ \A c \in Cluster :
                 /\ FirstBlock(b, c) \in DOMAIN d /\ FirstBlock(b, c) # 0
                 /\ \A x \in Cluster : FirstBlock(b, x) = FirstBlock(b, c) => x = c
           /\ \A copy \in FatCopies, c \in Cluster :
                 /\ FatBlockOf(b, copy, c) \in DOMAIN d /\ FatBlockOf(b, copy, c) # 0
                 /\ \A x \in Cluster : FatBlockOf(b, copy, c) # FirstBlock(b, x)
<1>1. b \in BootSectors /\ DOMAIN d = 0..(b.block_count - 1)
  BY DEF Shape
<1>2. Root \in Cluster
  BY ClusterFacts
<1>3. \A c \in Cluster :
         /\ FirstBlock(b, c) \in DOMAIN d /\ FirstBlock(b, c) # 0
         /\ \A x \in Cluster : FirstBlock(b, x) = FirstBlock(b, c) => x = c
  BY <1>1, ClusterBlock
<1>4. \A copy \in FatCopies, c \in Cluster :
         /\ FatBlockOf(b, copy, c) \in DOMAIN d /\ FatBlockOf(b, copy, c) # 0
         /\ \A x \in Cluster : FatBlockOf(b, copy, c) # FirstBlock(b, x)
  BY <1>1, EntryPlace
<1>5. 0 \in DOMAIN d
  <2>1. b.block_count \in Nat /\ b.data_start = 1 + 2 * b.fat_blocks /\ b.fat_blocks \in Nat
        /\ b.data_start < b.block_count
    BY <1>1, BootFacts
  <2> QED BY <1>1, <2>1
<1> QED
  BY <1>2, <1>3, <1>4, <1>5

\* What the steps will leave is the same once the first of them is made.
LEMMA AfterTail ==
    ASSUME NEW d, NEW b, Shape(d, b), NEW f \in [Cluster -> FatEntry],
           NEW t, Steps(t), t # <<>>, t[1].block \in DOMAIN d,
           DOMAIN t[1].put \subseteq Cluster, \A c \in DOMAIN t[1].put : t[1].put[c] \in FatEntry
    PROVE  LET e == WriteTo(d, t[1])
               g == Overlay(t[1].put, f)
           IN  /\ EntriesAfterIn(e, Tail(t), b) = EntriesAfterIn(d, t, b)
               /\ DataAfterIn(e, Tail(t), b) = DataAfterIn(d, t, b)
               /\ \A copy \in FatCopies :
                     CopyAfterIn(e, Tail(t), b, copy) = CopyAfterIn(d, t, b, copy)
               /\ FatAfterIn(g, Tail(t)) = FatAfterIn(f, t)
               /\ CellAfterIn(e, Tail(t), 0, 0, ZeroBoot) = CellAfterIn(d, t, 0, 0, ZeroBoot)
<1> DEFINE e == WriteTo(d, t[1])
           u == Tail(t)
<1>1. \A block \in DOMAIN d : \A k, zero :
         CellAfterIn(e, u, block, k, zero) = CellAfterIn(d, t, block, k, zero)
  BY CellAfterTail
<1> HIDE DEF e, u
<1>2. EntriesAfterIn(e, u, b) = EntriesAfterIn(d, t, b)
  BY <1>1, Places DEF EntriesAfterIn
<1>3. DataAfterIn(e, u, b) = DataAfterIn(d, t, b)
  BY <1>1, Places DEF DataAfterIn
<1>4. \A copy \in FatCopies : CopyAfterIn(e, u, b, copy) = CopyAfterIn(d, t, b, copy)
  BY <1>1, Places DEF CopyAfterIn
<1>5. FatAfterIn(Overlay(t[1].put, f), u) = FatAfterIn(f, t)
  BY FatAfterTail DEF u
<1>6. CellAfterIn(e, u, 0, 0, ZeroBoot) = CellAfterIn(d, t, 0, 0, ZeroBoot)
  BY <1>1, Places
<1> QED
  BY <1>2, <1>3, <1>4, <1>5, <1>6 DEF e, u

\* The image with the clusters of W zeroed.
Wiped(d, b, W) == [i \in DOMAIN d |-> IF \E c \in W : FirstBlock(b, c) = i THEN <<>> ELSE d[i]]

\* What wiping clusters changes.
LEMMA WipeFacts ==
    ASSUME NEW d, NEW b, Shape(d, b), NEW W \in SUBSET (Cluster \ {Root})
    PROVE  LET e == Wiped(d, b, W)
           IN  /\ DOMAIN e = DOMAIN d /\ BootIn(e) = BootIn(d)
               /\ EntriesIn(e, b) = EntriesIn(d, b)
               /\ \A copy \in FatCopies : CopyIn(e, b, copy) = CopyIn(d, b, copy)
               /\ \A c \in Cluster \ W : DataIn(e, b)[c] = DataIn(d, b)[c]
               /\ Shape(e, b)
<1> DEFINE e == Wiped(d, b, W)
<1>1. DOMAIN e = DOMAIN d
      /\ \A i \in DOMAIN d : (\A c \in W : FirstBlock(b, c) # i) => e[i] = d[i]
  BY DEF Wiped
<1> HIDE DEF e
<1>2. \A i \in DOMAIN d : \A k, zero : (\A c \in W : FirstBlock(b, c) # i) =>
         CellIn(e, i, k, zero) = CellIn(d, i, k, zero)
  BY <1>1 DEF CellIn
<1>3. BootIn(e) = BootIn(d)
  BY <1>2, Places DEF BootIn
<1>4. EntriesIn(e, b) = EntriesIn(d, b)
  <2>1. FirstBlock(b, Root) \in DOMAIN d /\ \A c \in W : FirstBlock(b, c) # FirstBlock(b, Root)
    BY Places
  <2> QED BY <1>2, <2>1 DEF EntriesIn
<1>5. \A copy \in FatCopies : CopyIn(e, b, copy) = CopyIn(d, b, copy)
  <2>1. \A copy \in FatCopies, x \in Cluster :
           /\ FatBlockOf(b, copy, x) \in DOMAIN d
           /\ \A c \in W : FirstBlock(b, c) # FatBlockOf(b, copy, x)
    BY Places
  <2> QED BY <1>2, <2>1 DEF CopyIn
<1>6. \A c \in Cluster \ W : DataIn(e, b)[c] = DataIn(d, b)[c]
  <2> TAKE x \in Cluster \ W
  <2>1. FirstBlock(b, x) \in DOMAIN d /\ \A c \in W : FirstBlock(b, c) # FirstBlock(b, x)
    BY Places
  <2> QED BY <1>2, <2>1 DEF DataIn
<1>7. TablesIn(e, b) = TablesIn(d, b)
  BY <1>5 DEF TablesIn
<1>8. Shape(e, b)
  BY <1>1, <1>4, <1>7 DEF Shape
<1> QED
  BY <1>1, <1>3, <1>4, <1>5, <1>6, <1>8 DEF e

-----------------------------------------------------------------------------
(* The steps of Next that are not about one file.                          *)

\* The process ends.
LEMMA StopClosed ==
    ASSUME NEW d, NEW b, NEW f, NEW y, NEW t, NEW k, NEW x, NEW n, NEW v,
           Open(d, b, f, y, t, k, x, n, v)
    PROVE  Closed(d, [s \in DOMAIN x \cap v |-> x[s]], v)
<1> DEFINE z == [s \in DOMAIN x \cap v |-> x[s]]
           entries == EntriesIn(d, b)
           data == DataIn(d, b)
           g == CopyIn(d, b, 1)
<1>1. /\ f \in [Cluster -> FatEntry] /\ v \subseteq n /\ n \subseteq Slots
      /\ Shape(d, b) /\ BootIn(d) \in {ZeroBoot, b} /\ (k.op # "Format" => BootIn(d) = b)
      /\ CallShapeIn(y, t, k, x, n, v) /\ Now(d, b, f, y, k, x, n, v)
  BY DEF Open
<1>2. b \in BootSectors /\ b # ZeroBoot /\ g \in [Cluster -> FatEntry] /\ 1 \in FatCopies
      /\ entries \in [Slots -> Entry] /\ TablesIn(d, b)[1] = g
  BY <1>1, BootNotZero, CopiesShape DEF Shape
<1>3. DOMAIN z = DOMAIN x \cap v /\ \A s \in DOMAIN z : z[s] = x[s]
  OBVIOUS
<1> HIDE DEF z, entries, data, g
<1>4. CASE k.op = "Format"
  <2>1. v = {}
    BY <1>1, <1>4 DEF CallShapeIn
  <2>2. DOMAIN z = {} /\ DOMAIN z \cap v = {}
    BY <1>3, <2>1
  <2> QED BY <1>1, <1>2, <2>1, <2>2, NothingSound DEF Closed, z
<1>5. CASE k.op # "Format"
  <2>1. v \subseteq n \ {k.slot} /\ BootIn(d) = b
    BY <1>1, <1>5 DEF CallShapeIn
  <2>2. Sound(entries, data, f, n \ {k.slot}, x)
    BY <1>1, <1>5 DEF Now, entries, data
  <2>3. Stored(entries, f, TablesIn(d, b), DOMAIN x \cap v)
    <3>1. Stored(entries, f, TablesIn(d, b),
                 DOMAIN x \cap (IF k.op # "Format" /\ ~y THEN n \ {k.slot} ELSE v))
      BY <1>1 DEF Now, entries
    <3>2. DOMAIN x \cap v \subseteq
          DOMAIN x \cap (IF k.op # "Format" /\ ~y THEN n \ {k.slot} ELSE v)
      BY <2>1
    <3> QED BY <3>1, <3>2, Part
  <2>4. AllKept(entries, data, f, x, entries, data, g, z, v)
    <3> SUFFICES ASSUME NEW s \in v PROVE Kept(entries, data, f, x, entries, data, g, z, s)
      BY DEF AllKept
    <3>1. s \in DOMAIN x => \A c \in ChainOf(entries, f, s) : g[c] = f[c]
      BY <1>2, <2>3 DEF Stored
    <3> QED BY <1>3, <3>1 DEF Kept
  <2>5. /\ Sound(entries, data, g, v, z)
        /\ \A s \in v \cap DOMAIN x : ChainOf(entries, g, s) = ChainOf(entries, f, s)
    <3> DEFINE P == n \ {k.slot}
    <3>1. P \in SUBSET Slots /\ v \in SUBSET P /\ Sound(entries, data, f, P, x)
      BY <1>1, <2>1, <2>2
    <3> HIDE DEF P
    <3> QED BY <1>1, <1>2, <2>4, <3>1, SoundLocal
  <2>6. Stored(entries, g, TablesIn(d, b), DOMAIN z \cap v)
    <3>1. \A s \in DOMAIN x \cap v : \A c \in ChainOf(entries, f, s) :
             TablesIn(d, b)[1][c] = f[c] /\ \A copy \in FatCopies : TablesIn(d, b)[copy][c] = f[c]
      BY <1>2, <2>3 DEF Stored
    <3>2. \A s \in DOMAIN z \cap v : s \in DOMAIN x \cap v /\ ChainOf(entries, g, s) = ChainOf(entries, f, s)
      BY <1>3, <2>5
    <3> QED BY <1>2, <3>1, <3>2 DEF Stored
  <2> QED BY <1>1, <1>2, <1>3, <2>1, <2>5, <2>6 DEF Closed, entries, data, g, z
<1> QED
  BY <1>4, <1>5

\* A file system is opened.
LEMMA MountIdle ==
    ASSUME NEW d, NEW x, NEW v, Closed(d, x, v), BootIn(d) # ZeroBoot
    PROVE  LET b == BootIn(d)
           IN  Idle(d, b, CopyIn(d, b, 1), FALSE, x,
                    v \cup {s \in Slots : ~Occupied(EntriesIn(d, b)[s])}, v)
<1> DEFINE b == BootIn(d)
           entries == EntriesIn(d, b)
           data == DataIn(d, b)
           f == CopyIn(d, b, 1)
           n == v \cup {s \in Slots : ~Occupied(entries[s])}
<1>1. /\ Shape(d, b) /\ Sound(entries, data, f, v, x)
      /\ Stored(entries, f, TablesIn(d, b), DOMAIN x \cap v)
      /\ v \subseteq Slots /\ DOMAIN x \subseteq v
  BY DEF Closed
<1>2. f \in [Cluster -> FatEntry]
  BY <1>1, CopiesShape
<1> HIDE DEF b, entries, data, f
<1>3. n \cap DOMAIN x = DOMAIN x \cap v /\ v \cap DOMAIN x = DOMAIN x \cap v
  BY <1>1
<1>4. Sound(entries, data, f, n, x)
  <2>1. \A s \in n : Holds(entries, data, f, s, x)
    <3> SUFFICES ASSUME NEW s \in n PROVE Holds(entries, data, f, s, x)
      OBVIOUS
    <3>1. CASE s \in v
      BY <1>1, <3>1 DEF Sound
    <3>2. CASE s \notin v
      BY <1>1, <3>2 DEF Holds
    <3> QED BY <3>1, <3>2
  <2>2. Apart(entries, f, n \cap DOMAIN x)
    BY <1>1, <1>3 DEF Sound
  <2> QED BY <2>1, <2>2 DEF Sound
<1>5. Stored(entries, f, TablesIn(d, b), DOMAIN x \cap n)
  BY <1>1, <1>3
<1> QED
  BY <1>1, <1>2, <1>4, <1>5 DEF Idle, b, entries, data, f

\* sync of a clean file system.
LEMMA SyncIdle ==
    ASSUME NEW d, NEW b, NEW f, NEW x, NEW n, NEW v, Idle(d, b, f, FALSE, x, n, v)
    PROVE  Idle(d, b, f, FALSE, x, n, n)
  BY DEF Idle

\* One slot more.
LEMMA SoundAndOne ==
    ASSUME NEW entries, NEW data, NEW f, NEW P, NEW x, Sound(entries, data, f, P, x),
           NEW s, Holds(entries, data, f, s, x),
           s \in DOMAIN x => \A u \in P \cap DOMAIN x :
              ChainOf(entries, f, u) \cap ChainOf(entries, f, s) = {}
    PROVE  Sound(entries, data, f, P \cup {s}, x)
<1>1. \A u \in P \cup {s} : Holds(entries, data, f, u, x)
  BY DEF Sound
<1>2. Apart(entries, f, P \cap DOMAIN x)
  BY DEF Sound
<1>3. Apart(entries, f, (P \cup {s}) \cap DOMAIN x)
  <2> SUFFICES ASSUME NEW u \in (P \cup {s}) \cap DOMAIN x, NEW w \in (P \cup {s}) \cap DOMAIN x,
                      u # w
               PROVE  ChainOf(entries, f, u) \cap ChainOf(entries, f, w) = {}
    BY DEF Apart
  <2>1. CASE u \in P /\ w \in P
    BY <1>2, <2>1 DEF Apart
  <2>2. CASE u = s
    <3>1. w \in P \cap DOMAIN x
      BY <2>2
    <3> QED BY <2>2, <3>1
  <2>3. CASE w = s
    <3>1. u \in P \cap DOMAIN x
      BY <2>3
    <3> QED BY <2>3, <3>1
  <2> QED BY <2>1, <2>2, <2>3
<1> QED
  BY <1>1, <1>3 DEF Sound

\* A block write fails.
LEMMA FaultIdle ==
    ASSUME NEW d, NEW b, NEW f, NEW y, NEW t, NEW k, NEW x, NEW n, NEW v,
           Open(d, b, f, y, t, k, x, n, v), t # <<>>, k.op # "Format"
    PROVE  LET step == Head(t)
               torn == IF step.intact THEN {} ELSE {k.slot}
           IN  Idle(Wiped(d, b, step.wipe), b, Overlay(step.undo, Overlay(step.put, f)),
                    (y \/ DOMAIN step.put \cup DOMAIN step.undo # {}),
                    [s \in DOMAIN x \ torn |-> x[s]], n \ torn, v)
<1> DEFINE step == Head(t)
           torn == IF step.intact THEN {} ELSE {k.slot}
           e == Wiped(d, b, step.wipe)
           f1 == Overlay(step.put, f)
           g == Overlay(step.undo, f1)
           w == (y \/ DOMAIN step.put \cup DOMAIN step.undo # {})
           z == [s \in DOMAIN x \ torn |-> x[s]]
           P == n \ {k.slot}
           entries == EntriesIn(d, b)
           data == DataIn(d, b)
           units == DataIn(e, b)
<1>1. /\ f \in [Cluster -> FatEntry] /\ v \subseteq n /\ n \subseteq Slots
      /\ DOMAIN x \subseteq Slots /\ y \in BOOLEAN
      /\ Shape(d, b) /\ BootIn(d) = b
      /\ CallShapeIn(y, t, k, x, n, v) /\ Plan(d, b, f, t, k, x, n)
      /\ Now(d, b, f, y, k, x, n, v)
  BY DEF Open
<1>2. Steps(t) /\ v \subseteq P /\ P \subseteq Slots
  BY <1>1 DEF CallShapeIn, Steps
<1>3. /\ 1 \in DOMAIN t /\ step = t[1]
      /\ StepShapeIn(step, d, b, f, k.op)
      /\ \A s \in P : StepClearIn(step, d, b, f, x, s)
  BY <1>1, <1>2, StepsFacts DEF Plan
<1>4. /\ DOMAIN step.put \subseteq Cluster /\ \A c \in DOMAIN step.put : step.put[c] \in FatEntry
      /\ DOMAIN step.undo \subseteq Cluster /\ \A c \in DOMAIN step.undo : step.undo[c] \in FatEntry
      /\ step.wipe \in SUBSET (Cluster \ {Root})
  BY <1>3 DEF StepShapeIn
<1>5. /\ entries \in [Slots -> Entry]
      /\ Sound(entries, data, f, P, x)
      /\ Stored(entries, f, TablesIn(d, b), DOMAIN x \cap (IF ~y THEN P ELSE v))
      /\ (~y => CopyIn(d, b, 1) = f)
  BY <1>1 DEF Shape, Now
<1> HIDE DEF step
<1>6. /\ f1 \in [Cluster -> FatEntry]
      /\ \A c \in Cluster : f1[c] = IF c \in DOMAIN step.put THEN step.put[c] ELSE f[c]
  BY <1>1, <1>4, PutTable
<1> HIDE DEF f1
<1>7. /\ g \in [Cluster -> FatEntry]
      /\ \A c \in Cluster : g[c] = IF c \in DOMAIN step.undo THEN step.undo[c] ELSE f1[c]
  BY <1>4, <1>6, PutTable
<1>8. /\ BootIn(e) = BootIn(d) /\ EntriesIn(e, b) = entries
      /\ \A copy \in FatCopies : CopyIn(e, b, copy) = CopyIn(d, b, copy)
      /\ \A c \in Cluster \ step.wipe : units[c] = data[c]
      /\ Shape(e, b)
  BY <1>1, <1>4, WipeFacts
<1>9. TablesIn(e, b) = TablesIn(d, b)
  BY <1>8 DEF TablesIn
<1>10. DOMAIN z = DOMAIN x \ torn /\ \A s \in DOMAIN z : z[s] = x[s]
  OBVIOUS
<1>11. torn \subseteq {k.slot} /\ (step.intact => torn = {})
  OBVIOUS
<1> HIDE DEF g, e, z, units, entries, data
<1>12. ASSUME NEW s \in P, s \in DOMAIN x, NEW c \in ChainOf(entries, f, s)
       PROVE  c \in Cluster /\ g[c] = f[c] /\ units[c] = data[c]
  <2>1. /\ \A m \in {step.put, step.undo} : c \in DOMAIN m => m[c] = f[c]
        /\ c \notin step.wipe
    BY <1>3, <1>12 DEF StepClearIn, entries
  <2>2. c \in Cluster
    <3>1. Holds(entries, data, f, s, x) /\ entries[s].start \in Cluster \cup {FREE}
      BY <1>2, <1>5, EntryStart DEF Sound
    <3>2. Chained(entries, f, x, s)
      BY <1>1, <1>12, <3>1, HoldsChain
    <3> QED BY <1>12, <3>2 DEF Chained
  <2> QED BY <1>6, <1>7, <1>8, <2>1, <2>2
<1>13. AllKept(entries, data, f, x, entries, units, g, z, P)
  BY <1>10, <1>11, <1>12 DEF AllKept, Kept
<1>14. /\ Sound(entries, units, g, P, z)
       /\ \A s \in P \cap DOMAIN x : ChainOf(entries, g, s) = ChainOf(entries, f, s)
  <2>1. P \in SUBSET Slots /\ P \in SUBSET P
    BY <1>2
  <2> HIDE DEF P
  <2> QED BY <1>1, <1>5, <1>7, <1>13, <2>1, SoundLocal
<1>15. Sound(entries, units, g, n \ torn, z)
  <2>1. CASE ~step.intact \/ k.slot \notin n
    <3>1. n \ torn = P
      BY <2>1
    <3> QED BY <1>14, <3>1
  <2>2. CASE step.intact /\ k.slot \in n
    <3> DEFINE s == k.slot
    <3>1. /\ SlotIntactIn(d, b, f, k.fat, x, P, s)
          /\ StepsIntactIn(t, d, b, k.fat, x, s) /\ RollbackSoundIn(f, t, k)
      BY <1>1, <1>3, <2>2 DEF Plan
    <3>2. g = k.fat
      <4>1. \A c \in Cluster :
               IF c \in DOMAIN step.undo THEN step.undo[c] = k.fat[c]
               ELSE f[c] = k.fat[c] /\ \A j \in 1..1 : c \notin DOMAIN t[j].put
        BY <1>3, <2>2, <3>1 DEF RollbackSoundIn, RolledBack
      <4>2. \A c \in Cluster : g[c] = k.fat[c]
        <5> TAKE c \in Cluster
        <5>1. CASE c \in DOMAIN step.undo
          BY <1>7, <4>1, <5>1
        <5>2. CASE c \notin DOMAIN step.undo
          <6>1. f[c] = k.fat[c] /\ c \notin DOMAIN step.put
            BY <1>3, <4>1, <5>2
          <6> QED BY <1>6, <1>7, <5>2, <6>1
        <5> QED BY <5>1, <5>2
      <4>3. k.fat \in [Cluster -> FatEntry]
        BY <1>1 DEF CallShapeIn
      <4> QED BY <1>7, <4>2, <4>3
    <3>3. Holds(entries, data, g, s, x)
          /\ (s \in DOMAIN x => \A u \in P \cap DOMAIN x :
                 ChainOf(entries, f, u) \cap ChainOf(entries, g, s) = {})
      BY <3>1, <3>2 DEF SlotIntactIn, entries, data
    <3>4. s \in DOMAIN x => step.wipe \cap ChainOf(entries, g, s) = {}
      BY <1>3, <2>2, <3>1, <3>2 DEF StepsIntactIn, entries
    <3>5. s \in Slots /\ entries[s].start \in Cluster \cup {FREE}
      BY <1>1, <1>5, <2>2, EntryStart
    <3>6. s \in DOMAIN x => ChainOf(entries, g, s) \subseteq Cluster
      <4>1. s \in DOMAIN x => Chained(entries, g, x, s)
        BY <1>7, <3>3, <3>5, HoldsChain
      <4> QED BY <4>1 DEF Chained
    <3>7. Kept(entries, data, g, x, entries, units, g, z, s)
      BY <1>8, <1>10, <1>11, <2>2, <3>4, <3>6 DEF Kept
    <3>8. Holds(entries, units, g, s, z)
      BY <1>7, <3>3, <3>5, <3>7, HoldsLocal
    <3>9. s \in DOMAIN z => \A u \in P \cap DOMAIN z :
             ChainOf(entries, g, u) \cap ChainOf(entries, g, s) = {}
      BY <1>10, <1>14, <3>3
    <3>10. Sound(entries, units, g, P \cup {s}, z)
      BY <1>14, <3>8, <3>9, SoundAndOne
    <3>11. P \cup {s} = n \ torn
      BY <1>11, <2>2
    <3> QED BY <3>10, <3>11
  <2> QED BY <2>1, <2>2
<1>16. w \in BOOLEAN /\ (~w => ~y /\ DOMAIN step.put = {} /\ DOMAIN step.undo = {})
  <2>1. w \in BOOLEAN
    BY DEF w
  <2>2. ~w => ~y /\ DOMAIN step.put = {} /\ DOMAIN step.undo = {}
    OBVIOUS
  <2> QED BY <2>1, <2>2
<1> HIDE DEF w
<1>17. ~w => g = f
  <2>1. ~w => \A c \in Cluster : g[c] = f[c]
    BY <1>6, <1>7, <1>16
  <2> QED BY <1>1, <1>7, <2>1
<1>18. ~w => CopyIn(e, b, 1) = g
  <2>1. 1 \in FatCopies
    BY DEF FatCopies
  <2> QED BY <1>5, <1>8, <1>16, <1>17, <2>1
<1>19. Stored(entries, g, TablesIn(e, b), DOMAIN z \cap (IF ~w THEN n \ torn ELSE v))
  <2> DEFINE Q == DOMAIN z \cap (IF ~w THEN n \ torn ELSE v)
  <2>1. \A s \in Q : s \in DOMAIN x \cap P /\ (s \in v \/ ~y)
    <3> SUFFICES ASSUME NEW s \in Q PROVE s \in DOMAIN x \cap P /\ (s \in v \/ ~y)
      OBVIOUS
    <3>1. CASE w
      BY <1>2, <1>10, <3>1
    <3>2. CASE ~w
      <4>1. s \in n \ torn /\ s \in DOMAIN x /\ ~y
        BY <1>10, <1>16, <3>2
      <4>2. CASE s = k.slot
        <5>1. step.intact /\ s \in n \cap DOMAIN x
          BY <4>1, <4>2
        <5>2. StepsIntactIn(t, d, b, k.fat, x, s)
          BY <1>1, <4>1, <4>2 DEF Plan
        <5>3. DOMAIN step.undo # {}
          BY <1>3, <5>1, <5>2 DEF StepsIntactIn
        <5> QED BY <1>16, <3>2, <5>3
      <4> QED BY <4>1, <4>2
    <3> QED BY <3>1, <3>2
  <2>2. \A s \in Q : s \in DOMAIN x \cap (IF ~y THEN P ELSE v)
    BY <1>2, <2>1
  <2>3. \A s \in Q : ChainOf(entries, g, s) = ChainOf(entries, f, s)
          /\ \A c \in ChainOf(entries, f, s) : g[c] = f[c]
    BY <1>12, <1>14, <2>1
  <2> HIDE DEF Q
  <2>4. Stored(entries, f, TablesIn(d, b), Q)
    BY <1>5, <2>2 DEF Stored
  <2>5. Stored(entries, g, TablesIn(e, b), Q)
    BY <1>9, <2>3, <2>4, StoredLocal
  <2> QED BY <2>5 DEF Q
<1>20. DOMAIN z \subseteq Slots /\ v \subseteq n \ torn /\ n \ torn \subseteq Slots
  BY <1>1, <1>2, <1>10, <1>11
<1>21. Idle(e, b, g, w, z, n \ torn, v)
  <2>1. EntriesIn(e, b) = entries /\ DataIn(e, b) = units /\ BootIn(e) = b
    BY <1>1, <1>8 DEF units
  <2> HIDE DEF torn
  <2> QED BY <1>7, <1>8, <1>15, <1>16, <1>18, <1>19, <1>20, <2>1 DEF Idle
<1> QED
  BY <1>21 DEF e, g, f1, w, z, step

-----------------------------------------------------------------------------
(* A block write succeeds.                                                 *)

\* Empty entries.
LEMMA UnusedEntry == Unused \in Entry /\ Deleted \in Entry
<1>1. FREE \in Cluster \cup {FREE} /\ 0 \in Nat
  OBVIOUS
<1> QED
  BY <1>1 DEF Unused, Deleted, Entry

\* The image keeps its shape.
LEMMA WriteShape ==
    ASSUME NEW d, NEW b, Shape(d, b), NEW f, NEW op, NEW step, StepShapeIn(step, d, b, f, op),
           BootIn(d) \in {ZeroBoot, b}
    PROVE  LET e == WriteTo(d, step)
           IN  /\ Shape(e, b) /\ BootIn(e) \in {ZeroBoot, b}
               /\ op # "Format" => BootIn(e) = BootIn(d)
               /\ \A copy \in FatCopies, c \in Cluster :
                     CopyIn(e, b, copy)[c] # CopyIn(d, b, copy)[c] =>
                        /\ op \in {"Format", "Sync"}
                        /\ op = "Sync" => CopyIn(e, b, copy)[c] = f[c]
<1> DEFINE e == WriteTo(d, step)
<1>1. /\ step.block \in DOMAIN d
      /\ (step.block = 0 => op = "Format" /\ step.cells = Single(0, b) /\ step.zeros = {})
      /\ \A s \in Slots \cap DOMAIN step.cells :
            step.block = FirstBlock(b, Root) => step.cells[s] \in Entry
      /\ \A copy \in FatCopies, c \in Cluster :
            Touches(step, FatBlockOf(b, copy, c), FatOffset(b, c)) =>
               /\ op \in {"Format", "Sync"} /\ FatOffset(b, c) \in DOMAIN step.cells
               /\ step.cells[FatOffset(b, c)] \in FatEntry
               /\ op = "Sync" => step.cells[FatOffset(b, c)] = f[c]
  BY DEF StepShapeIn
<1>2. /\ DOMAIN e = DOMAIN d
      /\ \A block \in DOMAIN d : \A k, zero :
            CellIn(e, block, k, zero) = IF Touches(step, block, k) THEN Written(step, k, zero)
                                        ELSE CellIn(d, block, k, zero)
  BY <1>1, WriteFacts
<1> HIDE DEF e
<1>3. BootIn(e) \in {ZeroBoot, b} /\ (op # "Format" => BootIn(e) = BootIn(d))
  <2>1. 0 \in DOMAIN d
    BY Places
  <2>2. BootIn(e) = IF Touches(step, 0, 0) THEN Written(step, 0, ZeroBoot) ELSE BootIn(d)
    BY <1>2, <2>1 DEF BootIn
  <2>3. CASE Touches(step, 0, 0)
    <3>1. op = "Format" /\ step.cells = Single(0, b)
      BY <1>1, <2>3 DEF Touches
    <3>2. Written(step, 0, ZeroBoot) = b
      <4>1. DOMAIN Single(0, b) = {0} /\ Single(0, b)[0] = b
        BY SingleFacts
      <4> QED BY <3>1, <4>1 DEF Written
    <3> QED BY <2>2, <2>3, <3>1, <3>2
  <2> QED BY <2>2, <2>3
<1>4. ASSUME NEW s \in Slots PROVE EntriesIn(e, b)[s] \in Entry
  <2>1. EntriesIn(d, b)[s] \in Entry /\ FirstBlock(b, Root) \in DOMAIN d
    BY Places DEF Shape
  <2>2. EntriesIn(e, b)[s] = IF Touches(step, FirstBlock(b, Root), s) THEN Written(step, s, Unused)
                             ELSE EntriesIn(d, b)[s]
    BY <1>2, <2>1 DEF EntriesIn
  <2>3. CASE Touches(step, FirstBlock(b, Root), s)
    BY <1>1, <2>2, <2>3, UnusedEntry DEF Touches, Written
  <2> QED BY <2>1, <2>2, <2>3
<1>5. ASSUME NEW copy \in FatCopies, NEW c \in Cluster
      PROVE  /\ CopyIn(e, b, copy)[c] \in FatEntry
             /\ CopyIn(e, b, copy)[c] # CopyIn(d, b, copy)[c] =>
                   /\ op \in {"Format", "Sync"}
                   /\ op = "Sync" => CopyIn(e, b, copy)[c] = f[c]
  <2> DEFINE block == FatBlockOf(b, copy, c)
             off == FatOffset(b, c)
  <2>1. CopyIn(d, b, copy)[c] \in FatEntry /\ block \in DOMAIN d
    BY Places, CopiesShape
  <2>2. CopyIn(e, b, copy)[c] = IF Touches(step, block, off) THEN Written(step, off, FREE)
                                ELSE CopyIn(d, b, copy)[c]
    BY <1>2, <2>1 DEF CopyIn
  <2>3. CASE Touches(step, block, off)
    <3>1. /\ op \in {"Format", "Sync"} /\ off \in DOMAIN step.cells
          /\ step.cells[off] \in FatEntry /\ (op = "Sync" => step.cells[off] = f[c])
      BY <1>1, <2>3
    <3>2. CopyIn(e, b, copy)[c] = step.cells[off]
      BY <2>2, <2>3, <3>1 DEF Written
    <3> QED BY <3>1, <3>2
  <2> QED BY <2>1, <2>2, <2>3
<1>6. EntriesIn(e, b) \in [Slots -> Entry]
  <2>1. EntriesIn(e, b) = [s \in Slots |-> EntriesIn(e, b)[s]]
    BY DEF EntriesIn
  <2> QED BY <1>4, <2>1
<1>7. TablesIn(e, b) \in [FatCopies -> [Cluster -> FatEntry]]
  <2>1. \A copy \in FatCopies : CopyIn(e, b, copy) = [c \in Cluster |-> CopyIn(e, b, copy)[c]]
    BY DEF CopyIn
  <2>2. \A copy \in FatCopies : CopyIn(e, b, copy) \in [Cluster -> FatEntry]
    BY <1>5, <2>1
  <2> QED BY <2>2 DEF TablesIn
<1>8. Shape(e, b)
  BY <1>2, <1>6, <1>7 DEF Shape
<1> QED
  BY <1>3, <1>5, <1>8 DEF e

\* A write leaves the files of the slots it is clear of.
LEMMA WriteKeeps ==
    ASSUME NEW d, NEW b, Shape(d, b), NEW f \in [Cluster -> FatEntry], NEW P \in SUBSET Slots,
           NEW x, Sound(EntriesIn(d, b), DataIn(d, b), f, P, x), NEW step,
           step.block \in DOMAIN d,
           DOMAIN step.put \subseteq Cluster, \A c \in DOMAIN step.put : step.put[c] \in FatEntry,
           \A s \in P : StepClearIn(step, d, b, f, x, s)
    PROVE  /\ AllKept(EntriesIn(d, b), DataIn(d, b), f, x,
                      EntriesIn(WriteTo(d, step), b), DataIn(WriteTo(d, step), b),
                      Overlay(step.put, f), x, P)
           /\ \A s \in P \cap DOMAIN x : ChainOf(EntriesIn(d, b), f, s) \subseteq Cluster
<1> DEFINE e == WriteTo(d, step)
           g == Overlay(step.put, f)
           entries == EntriesIn(d, b)
<1>1. /\ \A block \in DOMAIN d : \A k, zero :
            CellIn(e, block, k, zero) = IF Touches(step, block, k) THEN Written(step, k, zero)
                                        ELSE CellIn(d, block, k, zero)
  BY WriteFacts
<1>2. \A c \in Cluster : g[c] = IF c \in DOMAIN step.put THEN step.put[c] ELSE f[c]
  BY PutTable
<1> HIDE DEF e, g
<1>3. entries \in [Slots -> Entry]
  BY DEF Shape
<1>4. ASSUME NEW s \in P, s \in DOMAIN x PROVE ChainOf(entries, f, s) \subseteq Cluster
  <2>1. Holds(entries, DataIn(d, b), f, s, x) /\ entries[s].start \in Cluster \cup {FREE}
    BY <1>3, EntryStart DEF Sound
  <2>2. Chained(entries, f, x, s)
    BY <1>4, <2>1, HoldsChain
  <2> QED BY <2>2 DEF Chained
<1>5. ASSUME NEW s \in P
      PROVE  Kept(entries, DataIn(d, b), f, x, EntriesIn(e, b), DataIn(e, b), g, x, s)
  <2>1. StepClearIn(step, d, b, f, x, s)
    OBVIOUS
  <2>2. EntriesIn(e, b)[s] = entries[s]
    <3>1. FirstBlock(b, Root) \in DOMAIN d /\ ~Touches(step, FirstBlock(b, Root), s)
      BY <2>1, Places DEF StepClearIn
    <3> QED BY <1>1, <3>1 DEF EntriesIn
  <2>3. ASSUME s \in DOMAIN x, NEW c \in ChainOf(entries, f, s)
        PROVE  g[c] = f[c] /\ \A k \in Units : DataIn(e, b)[c][k] = DataIn(d, b)[c][k]
    <3>1. /\ \A k \in Units : ~Touches(step, FirstBlock(b, c), k)
          /\ c \in DOMAIN step.put => step.put[c] = f[c]
      BY <2>1, <2>3 DEF StepClearIn
    <3>2. c \in Cluster /\ FirstBlock(b, c) \in DOMAIN d
      BY <1>4, <2>3, Places
    <3>3. g[c] = f[c]
      BY <1>2, <3>1, <3>2
    <3>4. \A k \in Units : CellIn(e, FirstBlock(b, c), k, 0) = CellIn(d, FirstBlock(b, c), k, 0)
      BY <1>1, <3>1, <3>2
    <3> QED BY <3>2, <3>3, <3>4 DEF DataIn
  <2> QED BY <2>2, <2>3 DEF Kept
<1> QED
  BY <1>4, <1>5 DEF AllKept, e, g

\* What a write leaves, whether it is the last of the call or not.
Wrote(d, b, f, y, t, k, x, n, v, e, g, w) ==
    /\ g \in [Cluster -> FatEntry] /\ v \subseteq n \ {k.slot} /\ v \subseteq n
    /\ n \subseteq Slots /\ DOMAIN x \subseteq Slots
    /\ Shape(e, b) /\ BootIn(e) \in {ZeroBoot, b}
    /\ k.op # "Format" => BootIn(e) = b
    /\ k.op # "Format" =>
          /\ Sound(EntriesIn(e, b), DataIn(e, b), g, n \ {k.slot}, x)
          /\ \A s \in (n \ {k.slot}) \cap DOMAIN x :
                /\ ChainOf(EntriesIn(e, b), g, s) = ChainOf(EntriesIn(d, b), f, s)
                /\ \A c \in ChainOf(EntriesIn(d, b), f, s) : g[c] = f[c]
    /\ k.op # "Format" => \A s \in n \ {k.slot} : EntriesIn(e, b)[s] = EntriesIn(d, b)[s]
    /\ k.op = "Sync" => g = f
    /\ k.op \notin {"Format", "Sync"} => TablesIn(e, b) = TablesIn(d, b)
    /\ ~w => g = f
    /\ k.op # "Format" =>
          Stored(EntriesIn(e, b), g, TablesIn(e, b),
                 DOMAIN x \cap (IF ~w THEN n \ {k.slot} ELSE v))
    /\ k.op # "Format" /\ ~w => CopyIn(e, b, 1) = g
    /\ Sound(EntriesAfterIn(e, Tail(t), b), DataAfterIn(e, Tail(t), b), FatAfterIn(g, Tail(t)),
             n, k.files)
    /\ k.op # "Format" /\ ~w /\ (\A i \in DOMAIN Tail(t) : DOMAIN Tail(t)[i].put = {}) =>
          Stored(EntriesAfterIn(e, Tail(t), b), g, TablesIn(e, b), n \cap DOMAIN k.files)
    /\ k.op \in {"Format", "Sync"} =>
          \A copy \in FatCopies : CopyAfterIn(e, Tail(t), b, copy) = FatAfterIn(g, Tail(t))
    /\ k.op = "Format" => CellAfterIn(e, Tail(t), 0, 0, ZeroBoot) = b

\* A block write leaves the invariant of the steps that follow it.
LEMMA WriteLeaves ==
    ASSUME NEW d, NEW b, NEW f, NEW y, NEW t, NEW k, NEW x, NEW n, NEW v,
           Open(d, b, f, y, t, k, x, n, v), t # <<>>,
           NEW w \in BOOLEAN, w <=> y \/ DOMAIN t[1].put # {}
    PROVE  Wrote(d, b, f, y, t, k, x, n, v, WriteTo(d, t[1]), Overlay(t[1].put, f), w)
<1> DEFINE step == t[1]
           e == WriteTo(d, step)
           g == Overlay(step.put, f)
           P == n \ {k.slot}
           entries == EntriesIn(d, b)
           data == DataIn(d, b)
           u == Tail(t)
<1>1. /\ f \in [Cluster -> FatEntry] /\ v \subseteq n /\ n \subseteq Slots
      /\ DOMAIN x \subseteq Slots /\ y \in BOOLEAN
      /\ Shape(d, b) /\ BootIn(d) \in {ZeroBoot, b} /\ (k.op # "Format" => BootIn(d) = b)
      /\ CallShapeIn(y, t, k, x, n, v) /\ Plan(d, b, f, t, k, x, n)
      /\ Now(d, b, f, y, k, x, n, v) /\ After(d, b, f, y, t, k, x, n)
  BY DEF Open
<1>2. Steps(t) /\ v \subseteq P /\ P \in SUBSET Slots /\ (k.op = "Sync" => y)
  BY <1>1 DEF CallShapeIn, Steps
<1>3. /\ 1 \in DOMAIN t /\ StepShapeIn(step, d, b, f, k.op)
      /\ (k.op # "Format" => \A s \in P : StepClearIn(step, d, b, f, x, s))
  BY <1>1, <1>2, StepsFacts DEF Plan
<1>4. /\ step.block \in DOMAIN d
      /\ DOMAIN step.put \subseteq Cluster /\ \A c \in DOMAIN step.put : step.put[c] \in FatEntry
      /\ (k.op = "Sync" => DOMAIN step.put = {})
  BY <1>3 DEF StepShapeIn
<1>5. /\ g \in [Cluster -> FatEntry]
      /\ \A c \in Cluster : g[c] = IF c \in DOMAIN step.put THEN step.put[c] ELSE f[c]
  BY <1>1, <1>4, PutTable
<1>6. /\ Shape(e, b) /\ BootIn(e) \in {ZeroBoot, b}
      /\ (k.op # "Format" => BootIn(e) = BootIn(d))
      /\ \A copy \in FatCopies, c \in Cluster :
            CopyIn(e, b, copy)[c] # CopyIn(d, b, copy)[c] =>
               /\ k.op \in {"Format", "Sync"}
               /\ k.op = "Sync" => CopyIn(e, b, copy)[c] = f[c]
  BY <1>1, <1>3, WriteShape
<1>7. DOMAIN step.put = {} => g = f
  <2>1. DOMAIN step.put = {} => \A c \in Cluster : g[c] = f[c]
    BY <1>5
  <2> QED BY <1>1, <1>5, <2>1
<1>8. k.op \notin {"Format", "Sync"} => TablesIn(e, b) = TablesIn(d, b)
  <2> SUFFICES ASSUME k.op \notin {"Format", "Sync"} PROVE TablesIn(e, b) = TablesIn(d, b)
    OBVIOUS
  <2>1. \A copy \in FatCopies, c \in Cluster : CopyIn(e, b, copy)[c] = CopyIn(d, b, copy)[c]
    BY <1>6
  <2>2. \A copy \in FatCopies : CopyIn(e, b, copy) \in [Cluster -> FatEntry]
                                /\ CopyIn(d, b, copy) \in [Cluster -> FatEntry]
    BY <1>1, <1>6, CopiesShape
  <2>3. \A copy \in FatCopies : CopyIn(e, b, copy) = CopyIn(d, b, copy)
    BY <2>1, <2>2
  <2> QED BY <2>3 DEF TablesIn
<1>9. /\ EntriesAfterIn(e, u, b) = EntriesAfterIn(d, t, b)
      /\ DataAfterIn(e, u, b) = DataAfterIn(d, t, b)
      /\ \A copy \in FatCopies : CopyAfterIn(e, u, b, copy) = CopyAfterIn(d, t, b, copy)
      /\ FatAfterIn(g, u) = FatAfterIn(f, t)
      /\ CellAfterIn(e, u, 0, 0, ZeroBoot) = CellAfterIn(d, t, 0, 0, ZeroBoot)
  BY <1>1, <1>2, <1>4, AfterTail
<1>10. entries \in [Slots -> Entry]
  BY <1>1 DEF Shape
<1>11. k.op # "Format" =>
          /\ AllKept(entries, data, f, x, EntriesIn(e, b), DataIn(e, b), g, x, P)
          /\ \A s \in P \cap DOMAIN x : ChainOf(entries, f, s) \subseteq Cluster
          /\ Sound(entries, data, f, P, x)
  <2> SUFFICES ASSUME k.op # "Format"
               PROVE  /\ AllKept(entries, data, f, x, EntriesIn(e, b), DataIn(e, b), g, x, P)
                      /\ \A s \in P \cap DOMAIN x : ChainOf(entries, f, s) \subseteq Cluster
                      /\ Sound(entries, data, f, P, x)
    OBVIOUS
  <2>1. Sound(entries, data, f, P, x) /\ \A s \in P : StepClearIn(step, d, b, f, x, s)
    BY <1>1, <1>3 DEF Now
  <2> HIDE DEF step, P
  <2>2. /\ AllKept(entries, data, f, x, EntriesIn(e, b), DataIn(e, b), g, x, P)
        /\ \A s \in P \cap DOMAIN x : ChainOf(entries, f, s) \subseteq Cluster
    BY <1>1, <1>2, <1>4, <2>1, WriteKeeps
  <2> QED BY <2>1, <2>2
<1> HIDE DEF e, g, entries, data, u
<1>12. k.op # "Format" =>
          /\ Sound(EntriesIn(e, b), DataIn(e, b), g, P, x)
          /\ \A s \in P \cap DOMAIN x :
                /\ ChainOf(EntriesIn(e, b), g, s) = ChainOf(entries, f, s)
                /\ \A c \in ChainOf(entries, f, s) : g[c] = f[c]
          /\ \A s \in P : EntriesIn(e, b)[s] = entries[s]
  <2> SUFFICES ASSUME k.op # "Format"
               PROVE  /\ Sound(EntriesIn(e, b), DataIn(e, b), g, P, x)
                      /\ \A s \in P \cap DOMAIN x :
                            /\ ChainOf(EntriesIn(e, b), g, s) = ChainOf(entries, f, s)
                            /\ \A c \in ChainOf(entries, f, s) : g[c] = f[c]
                      /\ \A s \in P : EntriesIn(e, b)[s] = entries[s]
    OBVIOUS
  <2> HIDE DEF P
  <2>1. AllKept(entries, data, f, x, EntriesIn(e, b), DataIn(e, b), g, x, P)
        /\ Sound(entries, data, f, P, x) /\ P \in SUBSET P
    BY <1>11
  <2>2. /\ Sound(EntriesIn(e, b), DataIn(e, b), g, P, x)
        /\ \A s \in P \cap DOMAIN x : ChainOf(EntriesIn(e, b), g, s) = ChainOf(entries, f, s)
    BY <1>1, <1>2, <1>5, <1>10, <2>1, SoundLocal
  <2> QED BY <2>1, <2>2 DEF AllKept, Kept
<1>13. ~w => ~y /\ DOMAIN step.put = {} /\ g = f
  BY <1>7
<1>14. k.op # "Format" =>
          Stored(EntriesIn(e, b), g, TablesIn(e, b), DOMAIN x \cap (IF ~w THEN P ELSE v))
  <2> SUFFICES ASSUME k.op # "Format"
               PROVE  Stored(EntriesIn(e, b), g, TablesIn(e, b), DOMAIN x \cap (IF ~w THEN P ELSE v))
    OBVIOUS
  <2> DEFINE Q == DOMAIN x \cap (IF ~w THEN P ELSE v)
  <2>1. Stored(entries, f, TablesIn(d, b), DOMAIN x \cap (IF ~y THEN P ELSE v))
    BY <1>1 DEF Now, entries
  <2>2. Q \subseteq DOMAIN x \cap (IF ~y THEN P ELSE v) /\ Q \subseteq P \cap DOMAIN x
    BY <1>2, <1>13
  <2> HIDE DEF Q, P
  <2>3. Stored(entries, f, TablesIn(d, b), Q)
    BY <2>1, <2>2 DEF Stored
  <2>4. \A s \in Q : /\ ChainOf(EntriesIn(e, b), g, s) = ChainOf(entries, f, s)
                     /\ \A c \in ChainOf(entries, f, s) : g[c] = f[c]
    BY <1>12, <2>2
  <2>5. \A s \in Q : \A c \in ChainOf(entries, f, s), copy \in FatCopies :
           TablesIn(e, b)[copy][c] = TablesIn(d, b)[copy][c] \/ TablesIn(e, b)[copy][c] = f[c]
    <3>1. \A copy \in FatCopies : TablesIn(e, b)[copy] = CopyIn(e, b, copy)
                                  /\ TablesIn(d, b)[copy] = CopyIn(d, b, copy)
      BY <1>1, <1>6, CopiesShape
    <3>2. \A s \in Q : ChainOf(entries, f, s) \subseteq Cluster
      BY <1>11, <2>2
    <3>3. \A copy \in FatCopies, c \in Cluster :
             CopyIn(e, b, copy)[c] = CopyIn(d, b, copy)[c] \/ CopyIn(e, b, copy)[c] = f[c]
      BY <1>6
    <3> QED BY <3>1, <3>2, <3>3
  <2>6. Stored(EntriesIn(e, b), g, TablesIn(e, b), Q)
    BY <2>3, <2>4, <2>5, StoredLocal
  <2> QED BY <2>6 DEF Q
<1>15. k.op # "Format" /\ ~w => CopyIn(e, b, 1) = g
  <2> SUFFICES ASSUME k.op # "Format", ~w PROVE CopyIn(e, b, 1) = g
    OBVIOUS
  <2>1. CopyIn(d, b, 1) = f /\ k.op \notin {"Format", "Sync"}
    BY <1>1, <1>2, <1>13 DEF Now
  <2>2. CopyIn(e, b, 1) = CopyIn(d, b, 1)
    BY <1>1, <1>6, <1>8, <2>1, CopiesShape
  <2> QED BY <1>13, <2>1, <2>2
<1>16. Sound(EntriesAfterIn(e, u, b), DataAfterIn(e, u, b), FatAfterIn(g, u), n, k.files)
  BY <1>1, <1>9 DEF After
<1>17. k.op # "Format" /\ ~w /\ (\A i \in DOMAIN u : DOMAIN u[i].put = {}) =>
          Stored(EntriesAfterIn(e, u, b), g, TablesIn(e, b), n \cap DOMAIN k.files)
  <2> SUFFICES ASSUME k.op # "Format", ~w, \A i \in DOMAIN u : DOMAIN u[i].put = {}
               PROVE  Stored(EntriesAfterIn(e, u, b), g, TablesIn(e, b), n \cap DOMAIN k.files)
    OBVIOUS
  <2>1. \A i \in DOMAIN t : DOMAIN t[i].put = {}
    <3> TAKE i \in DOMAIN t
    <3>1. CASE i = 1
      BY <1>13, <3>1
    <3>2. CASE i # 1
      <4>1. i - 1 \in DOMAIN u /\ u[i - 1] = t[(i - 1) + 1] /\ (i - 1) + 1 = i
        BY <1>2, <3>2, StepsFacts DEF u
      <4> QED BY <4>1
    <3> QED BY <3>1, <3>2
  <2>2. Stored(EntriesAfterIn(d, t, b), f, TablesIn(d, b), n \cap DOMAIN k.files)
    BY <1>1, <1>13, <2>1 DEF After
  <2>3. k.op \notin {"Format", "Sync"}
    BY <1>2, <1>13
  <2> QED BY <1>8, <1>9, <1>13, <2>2, <2>3
<1>18. /\ k.op \in {"Format", "Sync"} =>
             \A copy \in FatCopies : CopyAfterIn(e, u, b, copy) = FatAfterIn(g, u)
       /\ k.op = "Format" => CellAfterIn(e, u, 0, 0, ZeroBoot) = b
  BY <1>1, <1>9 DEF After
<1>19. k.op = "Sync" => g = f
  BY <1>4, <1>7
<1>20. Wrote(d, b, f, y, t, k, x, n, v, e, g, w)
  BY <1>1, <1>2, <1>5, <1>6, <1>8, <1>12, <1>13, <1>14, <1>15, <1>16, <1>17, <1>18, <1>19
     DEF Wrote, entries, u
<1> QED
  BY <1>20 DEF e, g

\* A step that leaves a slot as it was, although a failure may follow it, leaves what the
\* slot holds.
LEMMA IntactKeeps ==
    ASSUME NEW d, NEW b, Shape(d, b), NEW g \in [Cluster -> FatEntry], NEW s \in Slots,
           NEW x, Holds(EntriesIn(d, b), DataIn(d, b), g, s, x), NEW step,
           step.block \in DOMAIN d, StepIntactIn(step, d, b, g, x, s)
    PROVE  LET e == WriteTo(d, step)
           IN  /\ Holds(EntriesIn(e, b), DataIn(e, b), g, s, x)
               /\ EntriesIn(e, b)[s] = EntriesIn(d, b)[s]
               /\ ChainOf(EntriesIn(e, b), g, s) = ChainOf(EntriesIn(d, b), g, s)
               /\ s \in DOMAIN x => \A c \in ChainOf(EntriesIn(d, b), g, s), k \in Units :
                     CellIn(d, FirstBlock(b, c), k, 0) = 0 => CellIn(e, FirstBlock(b, c), k, 0) = 0
<1> DEFINE e == WriteTo(d, step)
           entries == EntriesIn(d, b)
<1>1. /\ \A block \in DOMAIN d : \A k, zero :
            CellIn(e, block, k, zero) = IF Touches(step, block, k) THEN Written(step, k, zero)
                                        ELSE CellIn(d, block, k, zero)
  BY WriteFacts
<1> HIDE DEF e
<1>2. entries \in [Slots -> Entry] /\ entries[s].start \in Cluster \cup {FREE}
  BY EntryStart DEF Shape
<1>3. EntriesIn(e, b)[s] = entries[s]
  <2>1. FirstBlock(b, Root) \in DOMAIN d /\ ~Touches(step, FirstBlock(b, Root), s)
    BY Places DEF StepIntactIn
  <2> QED BY <1>1, <2>1 DEF EntriesIn
<1>4. s \in DOMAIN x => ChainOf(entries, g, s) \subseteq Cluster
  <2>1. s \in DOMAIN x => Chained(entries, g, x, s)
    BY <1>2, HoldsChain
  <2> QED BY <2>1 DEF Chained
<1>5. ASSUME s \in DOMAIN x, NEW c \in ChainOf(entries, g, s), NEW k \in Units
      PROVE  CellIn(e, FirstBlock(b, c), k, 0) = CellIn(d, FirstBlock(b, c), k, 0)
  <2>1. c \in Cluster /\ FirstBlock(b, c) \in DOMAIN d
    BY <1>4, <1>5, Places
  <2>2. Touches(step, FirstBlock(b, c), k) =>
           k \notin DOMAIN step.cells /\ CellIn(d, FirstBlock(b, c), k, 0) = 0
    BY <1>5 DEF StepIntactIn
  <2> QED BY <1>1, <2>1, <2>2 DEF Written
<1>6. Kept(entries, DataIn(d, b), g, x, EntriesIn(e, b), DataIn(e, b), g, x, s)
  BY <1>3, <1>4, <1>5 DEF Kept, DataIn
<1>7. Holds(EntriesIn(e, b), DataIn(e, b), g, s, x)
  BY <1>2, <1>6, HoldsLocal
<1>8. ChainOf(EntriesIn(e, b), g, s) = ChainOf(entries, g, s)
  BY <1>3 DEF ChainOf
<1> QED
  BY <1>3, <1>5, <1>7, <1>8 DEF e

\* The steps after the first are a plan from the state it leaves.
LEMMA PlanTail ==
    ASSUME NEW d, NEW b, NEW f, NEW y, NEW t, NEW k, NEW x, NEW n, NEW v,
           Open(d, b, f, y, t, k, x, n, v), t # <<>>,
           NEW e, e = WriteTo(d, t[1]), NEW g, g = Overlay(t[1].put, f), NEW w,
           Wrote(d, b, f, y, t, k, x, n, v, e, g, w)
    PROVE  Plan(e, b, g, Tail(t), k, x, n)
<1> DEFINE u == Tail(t)
           P == n \ {k.slot}
           s0 == k.slot
           entries == EntriesIn(d, b)
<1>1. /\ f \in [Cluster -> FatEntry] /\ n \subseteq Slots /\ DOMAIN x \subseteq Slots
      /\ Shape(d, b) /\ CallShapeIn(y, t, k, x, n, v) /\ Plan(d, b, f, t, k, x, n)
  BY DEF Open
<1>2. Steps(t) /\ k.fat \in [Cluster -> FatEntry]
  BY <1>1 DEF CallShapeIn, Steps
<1>3. /\ 1 \in DOMAIN t /\ Len(t) \in Nat /\ Len(u) = Len(t) - 1 /\ DOMAIN u = 1..(Len(t) - 1)
      /\ \A i \in DOMAIN u : u[i] = t[i + 1] /\ i + 1 \in DOMAIN t
  BY <1>2, StepsFacts
<1>4. /\ Shape(e, b) /\ (k.op = "Sync" => g = f)
      /\ (k.op # "Format" => \A s \in P : EntriesIn(e, b)[s] = entries[s])
      /\ (k.op # "Format" => \A s \in P \cap DOMAIN x :
             /\ ChainOf(EntriesIn(e, b), g, s) = ChainOf(entries, f, s)
             /\ \A c \in ChainOf(entries, f, s) : g[c] = f[c])
  BY DEF Wrote
<1>5. DOMAIN e = DOMAIN d
  BY <1>1, <1>4 DEF Shape
<1>6. \A i \in DOMAIN t : StepShapeIn(t[i], d, b, f, k.op)
  BY <1>1 DEF Plan
<1>7. /\ DOMAIN t[1].put \subseteq Cluster /\ \A c \in DOMAIN t[1].put : t[1].put[c] \in FatEntry
      /\ t[1].block \in DOMAIN d
  BY <1>3, <1>6 DEF StepShapeIn
<1>8. \A c \in Cluster : g[c] = IF c \in DOMAIN t[1].put THEN t[1].put[c] ELSE f[c]
  BY <1>1, <1>7, PutTable
<1> HIDE DEF u, entries
<1>9. \A i \in DOMAIN u : StepShapeIn(u[i], e, b, g, k.op)
  <2> TAKE i \in DOMAIN u
  <2>1. StepShapeIn(u[i], d, b, f, k.op)
    BY <1>3, <1>6
  <2> QED BY <1>4, <1>5, <2>1 DEF StepShapeIn
<1>10. k.op # "Format" => \A s \in P, i \in DOMAIN u : StepClearIn(u[i], e, b, g, x, s)
  <2> SUFFICES ASSUME k.op # "Format", NEW s \in P, NEW i \in DOMAIN u
               PROVE  StepClearIn(u[i], e, b, g, x, s)
    OBVIOUS
  <2>1. StepClearIn(u[i], d, b, f, x, s)
    BY <1>1, <1>3 DEF Plan
  <2> QED BY <1>4, <2>1 DEF StepClearIn, entries
<1>11. RollbackSoundIn(g, u, k)
  <2> SUFFICES ASSUME NEW i \in DOMAIN u, RolledBack(k.op, u, i), NEW c \in Cluster
               PROVE  IF c \in DOMAIN u[i].undo THEN u[i].undo[c] = k.fat[c]
                      ELSE g[c] = k.fat[c] /\ \A j \in 1..i : c \notin DOMAIN u[j].put
    BY DEF RollbackSoundIn
  <2>1. i \in Nat /\ u[i] = t[i + 1] /\ i + 1 \in DOMAIN t /\ (i < Len(u) => i + 1 < Len(t))
    BY <1>3
  <2>2. RolledBack(k.op, t, i + 1)
    BY <2>1 DEF RolledBack
  <2>3. IF c \in DOMAIN u[i].undo THEN u[i].undo[c] = k.fat[c]
        ELSE f[c] = k.fat[c] /\ \A j \in 1..(i + 1) : c \notin DOMAIN t[j].put
    BY <1>1, <2>1, <2>2 DEF Plan, RollbackSoundIn
  <2>4. CASE c \notin DOMAIN u[i].undo
    <3>1. 1 \in 1..(i + 1) /\ \A j \in 1..i : j + 1 \in 1..(i + 1) /\ j \in DOMAIN u
      BY <1>3, <2>1
    <3>2. \A j \in 1..i : u[j] = t[j + 1]
      BY <1>3, <3>1
    <3> QED BY <1>8, <2>3, <2>4, <3>1, <3>2
  <2> QED BY <2>3, <2>4
<1>12. ASSUME s0 \in n, NEW i \in DOMAIN u, u[i].intact
       PROVE  /\ t[1].intact /\ StepIntactIn(t[1], d, b, k.fat, x, s0)
              /\ SlotIntactIn(d, b, f, k.fat, x, P, s0)
              /\ \A j \in 1..(i - 1) : j \in DOMAIN u /\ u[j].intact
                                        /\ StepIntactIn(u[j], d, b, k.fat, x, s0)
              /\ s0 \in DOMAIN x =>
                    /\ DOMAIN u[i].undo # {}
                    /\ u[i].wipe \cap ChainOf(entries, k.fat, s0) = {}
  <2>1. StepsIntactIn(t, d, b, k.fat, x, s0)
        /\ ((\E j \in DOMAIN t : t[j].intact) => SlotIntactIn(d, b, f, k.fat, x, P, s0))
    BY <1>1, <1>12 DEF Plan
  <2>2. i \in Nat /\ u[i] = t[i + 1] /\ i + 1 \in DOMAIN t
    BY <1>3
  <2>3. 1 \in 1..((i + 1) - 1) /\ \A j \in 1..(i - 1) : j + 1 \in 1..((i + 1) - 1) /\ j \in DOMAIN u
    BY <1>3, <2>2
  <2>4. /\ \A j \in 1..((i + 1) - 1) : t[j].intact /\ StepIntactIn(t[j], d, b, k.fat, x, s0)
        /\ s0 \in DOMAIN x =>
              /\ DOMAIN t[i + 1].undo # {}
              /\ t[i + 1].wipe \cap ChainOf(entries, k.fat, s0) = {}
    BY <1>12, <2>1, <2>2 DEF StepsIntactIn, entries
  <2>5. \A j \in 1..(i - 1) : u[j] = t[j + 1]
    BY <1>3, <2>3
  <2> QED BY <1>12, <2>1, <2>2, <2>3, <2>4, <2>5
<1>13. s0 \in n /\ (\E i \in DOMAIN u : u[i].intact) =>
          /\ Holds(EntriesIn(e, b), DataIn(e, b), k.fat, s0, x)
          /\ EntriesIn(e, b)[s0] = entries[s0]
          /\ ChainOf(EntriesIn(e, b), k.fat, s0) = ChainOf(entries, k.fat, s0)
          /\ s0 \in DOMAIN x => \A c \in ChainOf(entries, k.fat, s0), q \in Units :
                CellIn(d, FirstBlock(b, c), q, 0) = 0 => CellIn(e, FirstBlock(b, c), q, 0) = 0
  <2> SUFFICES ASSUME s0 \in n, \E i \in DOMAIN u : u[i].intact
               PROVE  /\ Holds(EntriesIn(e, b), DataIn(e, b), k.fat, s0, x)
                      /\ EntriesIn(e, b)[s0] = entries[s0]
                      /\ ChainOf(EntriesIn(e, b), k.fat, s0) = ChainOf(entries, k.fat, s0)
                      /\ s0 \in DOMAIN x => \A c \in ChainOf(entries, k.fat, s0), q \in Units :
                            CellIn(d, FirstBlock(b, c), q, 0) = 0 => CellIn(e, FirstBlock(b, c), q, 0) = 0
    OBVIOUS
  <2> HIDE DEF s0
  <2>1. StepIntactIn(t[1], d, b, k.fat, x, s0) /\ Holds(entries, DataIn(d, b), k.fat, s0, x)
    BY <1>12 DEF SlotIntactIn, entries
  <2>2. s0 \in Slots
    BY <1>1
  <2> QED BY <1>1, <1>2, <1>7, <2>1, <2>2, IntactKeeps DEF entries
<1>14. s0 \in n => StepsIntactIn(u, e, b, k.fat, x, s0)
  <2> SUFFICES ASSUME s0 \in n, NEW i \in DOMAIN u, u[i].intact
               PROVE  /\ \A j \in 1..(i - 1) : u[j].intact /\ StepIntactIn(u[j], e, b, k.fat, x, s0)
                      /\ s0 \in DOMAIN x =>
                            /\ DOMAIN u[i].undo # {}
                            /\ u[i].wipe \cap ChainOf(EntriesIn(e, b), k.fat, s0) = {}
    BY DEF StepsIntactIn
  <2> HIDE DEF s0
  <2>1. /\ ChainOf(EntriesIn(e, b), k.fat, s0) = ChainOf(entries, k.fat, s0)
        /\ s0 \in DOMAIN x => \A c \in ChainOf(entries, k.fat, s0), q \in Units :
              CellIn(d, FirstBlock(b, c), q, 0) = 0 => CellIn(e, FirstBlock(b, c), q, 0) = 0
    BY <1>13
  <2>2. \A j \in 1..(i - 1) : StepIntactIn(u[j], e, b, k.fat, x, s0)
    <3> TAKE j \in 1..(i - 1)
    <3>1. StepIntactIn(u[j], d, b, k.fat, x, s0)
      BY <1>12
    <3> QED BY <2>1, <3>1 DEF StepIntactIn, entries
  <2> QED BY <1>12, <2>1, <2>2
<1>15. s0 \in n /\ (\E i \in DOMAIN u : u[i].intact) =>
          SlotIntactIn(e, b, g, k.fat, x, P, s0)
  <2> SUFFICES ASSUME s0 \in n, \E i \in DOMAIN u : u[i].intact
               PROVE  SlotIntactIn(e, b, g, k.fat, x, P, s0)
    OBVIOUS
  <2>1. SlotIntactIn(d, b, f, k.fat, x, P, s0)
    BY <1>12
  <2>2. k.op # "Format"
    <3>1. s0 # 0
      BY <1>1, SlotsFacts
    <3> QED BY <1>1, <3>1 DEF CallShapeIn
  <2> HIDE DEF s0, P
  <2>3. s0 \in DOMAIN x => \A z \in P \cap DOMAIN x :
           ChainOf(EntriesIn(e, b), g, z) \cap ChainOf(EntriesIn(e, b), k.fat, s0) = {}
    BY <1>4, <1>13, <2>1, <2>2 DEF SlotIntactIn, entries
  <2> QED BY <1>13, <2>3 DEF SlotIntactIn
<1> QED
  BY <1>9, <1>10, <1>11, <1>14, <1>15 DEF Plan, u

\* A write that is not the call's last.
LEMMA WriteOpen ==
    ASSUME NEW d, NEW b, NEW f, NEW y, NEW t, NEW k, NEW x, NEW n, NEW v,
           Open(d, b, f, y, t, k, x, n, v), t # <<>>, Len(t) # 1,
           NEW w \in BOOLEAN, w <=> y \/ DOMAIN t[1].put # {}
    PROVE  Open(WriteTo(d, t[1]), b, Overlay(t[1].put, f), w, Tail(t), k, x, n, v)
<1> DEFINE e == WriteTo(d, t[1])
           g == Overlay(t[1].put, f)
           u == Tail(t)
<1>1. Wrote(d, b, f, y, t, k, x, n, v, e, g, w)
  BY WriteLeaves
<1>2. CallShapeIn(y, t, k, x, n, v) /\ y \in BOOLEAN
  BY DEF Open
<1>3. Plan(e, b, g, u, k, x, n)
  BY <1>1, PlanTail
<1> HIDE DEF e, g
<1>4. Steps(u) /\ u # <<>>
  <2>1. Steps(t)
    BY <1>2 DEF CallShapeIn, Steps
  <2>2. Len(t) \in Nat /\ Len(t) > 0 /\ Steps(u) /\ Len(u) = Len(t) - 1
    BY <2>1, StepsFacts
  <2> HIDE DEF u
  <2>3. Len(u) > 0
    BY <2>2
  <2> QED BY <2>2, <2>3, StepsFacts
<1> HIDE DEF u
<1>5. CallShapeIn(w, u, k, x, n, v)
  BY <1>2, <1>4 DEF CallShapeIn, Steps
<1>6. Now(e, b, g, w, k, x, n, v)
  <2>1. CASE k.op # "Format"
    BY <1>1, <2>1 DEF Wrote, Now
  <2>2. CASE k.op = "Format"
    <3>1. v = {}
      BY <1>2, <2>2 DEF CallShapeIn
    <3>2. DOMAIN x \cap (IF k.op # "Format" /\ ~w THEN n \ {k.slot} ELSE v) = {}
      BY <2>2, <3>1
    <3>3. Stored(EntriesIn(e, b), g, TablesIn(e, b), {})
      BY NothingSound
    <3> QED BY <2>2, <3>2, <3>3 DEF Now
  <2> QED BY <2>1, <2>2
<1>7. After(e, b, g, w, u, k, x, n)
  BY <1>1, <1>4 DEF Wrote, After, u
<1>8. Open(e, b, g, w, u, k, x, n, v)
  BY <1>1, <1>3, <1>5, <1>6, <1>7 DEF Wrote, Open
<1> QED
  BY <1>8 DEF e, g, u

\* The call's last write.
LEMMA WriteIdle ==
    ASSUME NEW d, NEW b, NEW f, NEW y, NEW t, NEW k, NEW x, NEW n, NEW v,
           Open(d, b, f, y, t, k, x, n, v), t # <<>>, Len(t) = 1,
           NEW w \in BOOLEAN,
           w <=> (y \/ DOMAIN t[1].put # {}) /\ k.op \notin {"Format", "Sync"}
    PROVE  Idle(WriteTo(d, t[1]), b, Overlay(t[1].put, f), w, k.files, n,
                IF k.op \in {"Format", "Sync"} THEN n ELSE v)
<1> DEFINE e == WriteTo(d, t[1])
           g == Overlay(t[1].put, f)
           m == (y \/ DOMAIN t[1].put # {})
           v2 == IF k.op \in {"Format", "Sync"} THEN n ELSE v
           P == n \ {k.slot}
<1>1. m \in BOOLEAN /\ (m <=> y \/ DOMAIN t[1].put # {})
      /\ (w <=> m /\ k.op \notin {"Format", "Sync"})
  OBVIOUS
<1> HIDE DEF m
<1>2. Wrote(d, b, f, y, t, k, x, n, v, e, g, m)
  BY <1>1, WriteLeaves
<1>3. CallShapeIn(y, t, k, x, n, v)
  BY DEF Open
<1>4. Tail(t) = <<>>
  <2>1. Steps(t)
    BY <1>3 DEF CallShapeIn, Steps
  <2>2. Steps(Tail(t)) /\ Len(Tail(t)) = Len(t) - 1
    BY <2>1, StepsFacts
  <2> DEFINE l == Len(Tail(t))
  <2>3. l = 1 - 1
    BY <2>2
  <2> HIDE DEF l
  <2>4. ~(l > 0)
    BY <2>3
  <2>5. ~(Len(Tail(t)) > 0)
    BY <2>4 DEF l
  <2> QED BY <2>2, <2>5, StepsFacts
<1> HIDE DEF e, g
<1>5. g \in [Cluster -> FatEntry]
  BY <1>2 DEF Wrote
<1>6. /\ EntriesAfterIn(e, Tail(t), b) = EntriesIn(e, b)
      /\ DataAfterIn(e, Tail(t), b) = DataIn(e, b) /\ FatAfterIn(g, Tail(t)) = g
      /\ \A copy : CopyAfterIn(e, Tail(t), b, copy) = CopyIn(e, b, copy)
      /\ CellAfterIn(e, Tail(t), 0, 0, ZeroBoot) = BootIn(e)
      /\ DOMAIN Tail(t) = {}
  BY <1>4, <1>5, EmptySteps DEF BootIn
<1>7. /\ Shape(e, b) /\ n \subseteq Slots /\ v \subseteq P /\ v \subseteq n
      /\ (k.op # "Format" => BootIn(e) = b) /\ (k.op = "Format" => BootIn(e) = b)
      /\ Sound(EntriesIn(e, b), DataIn(e, b), g, n, k.files)
      /\ DOMAIN k.files \subseteq Slots
  BY <1>2, <1>3, <1>6 DEF Wrote, CallShapeIn
<1>8. CASE k.op \in {"Format", "Sync"}
  <2>1. ~w /\ v2 = n
    BY <1>1, <1>8
  <2>2. \A copy \in FatCopies : CopyIn(e, b, copy) = g
    BY <1>2, <1>6, <1>8 DEF Wrote
  <2>3. \A copy \in FatCopies : TablesIn(e, b)[copy] = g
    BY <2>2 DEF TablesIn
  <2>4. Stored(EntriesIn(e, b), g, TablesIn(e, b), DOMAIN k.files \cap (IF ~w THEN n ELSE v2))
    BY <2>3 DEF Stored
  <2>5. CopyIn(e, b, 1) = g
    BY <2>2 DEF FatCopies
  <2>6. Idle(e, b, g, w, k.files, n, v2)
    BY <1>5, <1>7, <2>1, <2>4, <2>5 DEF Idle
  <2> QED BY <2>6 DEF e, g
<1>9. CASE k.op \notin {"Format", "Sync"}
  <2>1. w = m /\ v2 = v /\ k.op # "Format"
    BY <1>1, <1>9
  <2>2. Stored(EntriesIn(e, b), g, TablesIn(e, b), DOMAIN k.files \cap (IF ~w THEN n ELSE v2))
    <3>1. CASE ~m
      <4>1. Stored(EntriesIn(e, b), g, TablesIn(e, b), n \cap DOMAIN k.files)
        BY <1>2, <1>6, <2>1, <3>1 DEF Wrote
      <4>2. ~w
        BY <2>1, <3>1
      <4>3. DOMAIN k.files \cap (IF ~w THEN n ELSE v2) = n \cap DOMAIN k.files
        BY <4>2
      <4> HIDE DEF e, g, v2
      <4> QED BY <4>1, <4>3
    <3>2. CASE m
      <4>1. Stored(EntriesIn(e, b), g, TablesIn(e, b), DOMAIN x \cap v)
            /\ Sound(EntriesIn(e, b), DataIn(e, b), g, P, x)
        BY <1>2, <2>1, <3>2 DEF Wrote
      <4>2. \A s \in v : s \in DOMAIN k.files => s \in DOMAIN x
        BY <1>7, <4>1 DEF Sound, Holds
      <4>3. DOMAIN k.files \cap v \subseteq DOMAIN x \cap v
        BY <4>2
      <4>4. Stored(EntriesIn(e, b), g, TablesIn(e, b), DOMAIN k.files \cap v)
        BY <4>1, <4>3, Part
      <4> QED BY <2>1, <3>2, <4>4
    <3> QED BY <3>1, <3>2
  <2>3. ~w => CopyIn(e, b, 1) = g
    BY <1>2, <2>1 DEF Wrote
  <2>4. Idle(e, b, g, w, k.files, n, v2)
    BY <1>5, <1>7, <2>1, <2>2, <2>3 DEF Idle
  <2> QED BY <2>4 DEF e, g
<1> QED
  BY <1>8, <1>9

(* A call begins.                                                          *)

\* A step that writes the entry of slot s, or a cluster of C, and that changes the table
\* for C only.
LocalStep(step, b, f, s, C) ==
    /\ \/ /\ step.block = FirstBlock(b, Root) /\ step.zeros = {}
          /\ DOMAIN step.cells = {s} /\ step.cells[s] \in Entry
       \/ \E c \in C : step.block = FirstBlock(b, c)
    /\ \A m \in {step.put, step.undo} :
          /\ DOMAIN m \subseteq Cluster
          /\ \A c \in DOMAIN m : m[c] \in FatEntry /\ (c \in C \/ m[c] = f[c])
    /\ step.wipe \subseteq C

\* No other slot has a cluster of C.
Mine(entries, f, x, P, C) ==
    C \subseteq Cluster \ {Root}
    /\ \A u \in P \cap DOMAIN x : ChainOf(entries, f, u) \cap C = {}

\* A step that is local to a slot writes what belongs where it writes it.
LEMMA LocalShape ==
    ASSUME NEW d, NEW b, Shape(d, b), NEW f, NEW s \in Slots, NEW C \in SUBSET (Cluster \ {Root}),
           NEW step, LocalStep(step, b, f, s, C), NEW op, op # "Sync"
    PROVE  StepShapeIn(step, d, b, f, op)
<1>1. /\ 0 \in DOMAIN d /\ Root \in Cluster /\ FirstBlock(b, Root) # 0
      /\ \A c \in Cluster :
            /\ FirstBlock(b, c) \in DOMAIN d /\ FirstBlock(b, c) # 0
            /\ \A z \in Cluster : FirstBlock(b, z) = FirstBlock(b, c) => z = c
      /\ \A copy \in FatCopies, c \in Cluster :
            \A z \in Cluster : FatBlockOf(b, copy, c) # FirstBlock(b, z)
  BY Places
<1>2. PICK c \in Cluster : step.block = FirstBlock(b, c)
  BY <1>1 DEF LocalStep
<1>3. step.block \in DOMAIN d /\ step.block # 0
  BY <1>1, <1>2
<1>4. ASSUME NEW u \in Slots \cap DOMAIN step.cells, step.block = FirstBlock(b, Root)
      PROVE  step.cells[u] \in Entry
  <2>1. ~(\E z \in C : step.block = FirstBlock(b, z))
    BY <1>1, <1>4
  <2> QED BY <1>4, <2>1 DEF LocalStep
<1>5. \A copy \in FatCopies, z \in Cluster :
         ~Touches(step, FatBlockOf(b, copy, z), FatOffset(b, z))
  BY <1>1, <1>2 DEF Touches
<1>6. /\ \A m \in {step.put, step.undo} :
            DOMAIN m \subseteq Cluster /\ \A z \in DOMAIN m : m[z] \in FatEntry
      /\ step.wipe \subseteq Cluster \ {Root}
  BY DEF LocalStep
<1> QED
  BY <1>3, <1>4, <1>5, <1>6 DEF StepShapeIn

\* It leaves the slots alone that have none of its clusters.
LEMMA LocalClear ==
    ASSUME NEW d, NEW b, Shape(d, b), NEW f, NEW s \in Slots, NEW C \in SUBSET (Cluster \ {Root}),
           NEW step, LocalStep(step, b, f, s, C), NEW x, NEW u \in Slots, u # s,
           u \in DOMAIN x => /\ ChainOf(EntriesIn(d, b), f, u) \cap C = {}
                             /\ ChainOf(EntriesIn(d, b), f, u) \subseteq Cluster \ {Root}
    PROVE  StepClearIn(step, d, b, f, x, u)
<1>1. /\ Root \in Cluster
      /\ \A c \in Cluster : \A z \in Cluster : FirstBlock(b, z) = FirstBlock(b, c) => z = c
  BY Places
<1>2. ~Touches(step, FirstBlock(b, Root), u)
  <2>1. CASE \E c \in C : step.block = FirstBlock(b, c)
    BY <1>1, <2>1 DEF Touches
  <2>2. CASE step.zeros = {} /\ DOMAIN step.cells = {s}
    BY <2>2 DEF Touches
  <2> QED BY <2>1, <2>2 DEF LocalStep
<1>3. ASSUME u \in DOMAIN x, NEW c \in ChainOf(EntriesIn(d, b), f, u)
      PROVE  /\ \A k \in Units : ~Touches(step, FirstBlock(b, c), k)
             /\ \A m \in {step.put, step.undo} : c \in DOMAIN m => m[c] = f[c]
             /\ c \notin step.wipe
  <2>1. c \in Cluster /\ c # Root /\ c \notin C
    BY <1>3
  <2>2. step.block # FirstBlock(b, c)
    BY <1>1, <2>1 DEF LocalStep
  <2>3. \A m \in {step.put, step.undo} : c \in DOMAIN m => m[c] = f[c]
    BY <2>1 DEF LocalStep
  <2>4. c \notin step.wipe
    BY <2>1 DEF LocalStep
  <2> QED BY <2>2, <2>3, <2>4 DEF Touches
<1> QED
  BY <1>2, <1>3 DEF StepClearIn

\* What no step touches is kept.
LEMMA ClearKept ==
    ASSUME NEW d, NEW b, Shape(d, b), NEW f \in [Cluster -> FatEntry], NEW t, Steps(t),
           NEW P \in SUBSET Slots, NEW x,
           Sound(EntriesIn(d, b), DataIn(d, b), f, P, x),
           \A u \in P, i \in DOMAIN t : StepClearIn(t[i], d, b, f, x, u),
           NEW after,
           \A u \in P : (u \in DOMAIN after <=> u \in DOMAIN x) /\ (u \in DOMAIN x => after[u] = x[u])
    PROVE  AllKept(EntriesIn(d, b), DataIn(d, b), f, x,
                   EntriesAfterIn(d, t, b), DataAfterIn(d, t, b), FatAfterIn(f, t), after, P)
<1> DEFINE entries == EntriesIn(d, b)
           data == DataIn(d, b)
           others == EntriesAfterIn(d, t, b)
           units == DataAfterIn(d, t, b)
           g == FatAfterIn(f, t)
<1> SUFFICES ASSUME NEW u \in P PROVE Kept(entries, data, f, x, others, units, g, after, u)
  BY DEF AllKept
<1>1. u \in Slots /\ (u \in DOMAIN after <=> u \in DOMAIN x) /\ (u \in DOMAIN x => after[u] = x[u])
  OBVIOUS
<1>2. others[u] = entries[u]
  <2>1. \A i \in DOMAIN t : ~Touches(t[i], FirstBlock(b, Root), u)
    BY DEF StepClearIn
  <2>2. CellAfterIn(d, t, FirstBlock(b, Root), u, Unused) =
        CellIn(d, FirstBlock(b, Root), u, Unused)
    BY <2>1, Untouched
  <2> QED BY <1>1, <2>2 DEF EntriesAfterIn, EntriesIn
<1>3. ASSUME u \in DOMAIN x, NEW c \in ChainOf(entries, f, u)
      PROVE  g[c] = f[c] /\ \A k \in Units : units[c][k] = data[c][k]
  <2>1. c \in Cluster
    <3>1. entries \in [Slots -> Entry] /\ Holds(entries, data, f, u, x)
      BY DEF Shape, Sound
    <3>2. entries[u].start \in Cluster \cup {FREE}
      BY <1>1, <3>1, EntryStart
    <3>3. Chained(entries, f, x, u)
      BY <1>3, <3>1, <3>2, HoldsChain
    <3> QED BY <1>3, <3>3 DEF Chained
  <2>2. \A i \in DOMAIN t :
           (\A k \in Units : ~Touches(t[i], FirstBlock(b, c), k))
           /\ (c \in DOMAIN t[i].put => t[i].put[c] = f[c])
    BY <1>3 DEF StepClearIn
  <2>3. PutsLeave(f, t, c, f[c])
    BY <2>2 DEF PutsLeave
  <2>4. g[c] = f[c]
    BY <2>1, <2>3, PutSame
  <2>5. ASSUME NEW k \in Units PROVE units[c][k] = data[c][k]
    <3>1. CellAfterIn(d, t, FirstBlock(b, c), k, 0) = CellIn(d, FirstBlock(b, c), k, 0)
      BY <2>2, Untouched
    <3> QED BY <2>1, <3>1 DEF DataAfterIn, DataIn
  <2> QED BY <2>4, <2>5
<1> QED
  BY <1>1, <1>2, <1>3 DEF Kept

\* The files after a call about slot s: those of other slots are the same.
OffSlot(x, after, s) ==
    /\ DOMAIN after \subseteq Slots
    /\ \A u \in Slots \ {s} :
          (u \in DOMAIN after <=> u \in DOMAIN x) /\ (u \in DOMAIN x => after[u] = x[u])
\* What the slot holds after the call: in clusters of C.
HeldAfter(d, b, f, t, after, s, C) ==
    /\ Holds(EntriesAfterIn(d, t, b), DataAfterIn(d, t, b), FatAfterIn(f, t), s, after)
    /\ s \in DOMAIN after => ChainOf(EntriesAfterIn(d, t, b), FatAfterIn(f, t), s) \subseteq C
\* A call that does not change the table leaves the slot no cluster it had not.
SameClusters(d, b, f, t, x, after, s) ==
    (\A i \in DOMAIN t : DOMAIN t[i].put = {}) =>
        (s \in DOMAIN after => \A c \in ChainOf(EntriesAfterIn(d, t, b), f, s) :
            s \in DOMAIN x /\ c \in ChainOf(EntriesIn(d, b), f, s))

\* The copies of a clean table have the chains of the sound slots after the call too, when
\* it leaves the table as it is.
StoredAfter(d, b, f, y, t, n, after) ==
    ~y /\ (\A i \in DOMAIN t : DOMAIN t[i].put = {}) =>
        Stored(EntriesAfterIn(d, t, b), f, TablesIn(d, b), n \cap DOMAIN after)

\* Steps that put nothing leave the table as it is.
LEMMA NoPuts ==
    ASSUME NEW f \in [Cluster -> FatEntry], NEW t, \A i \in DOMAIN t : DOMAIN t[i].put = {}
    PROVE  FatAfterIn(f, t) = f
<1>1. \A c \in Cluster : Putting(t, c) = {}
  BY DEF Putting
<1> QED
  BY <1>1 DEF FatAfterIn

\* Local steps leave the files of all other slots alone.
LEMMA LocalClears ==
    ASSUME NEW d, NEW b, NEW f, NEW y, NEW x, NEW n, NEW v, Idle(d, b, f, y, x, n, v),
           NEW s \in Slots, NEW C, Mine(EntriesIn(d, b), f, x, n \ {s}, C),
           NEW step, LocalStep(step, b, f, s, C), NEW u \in n \ {s}
    PROVE  StepClearIn(step, d, b, f, x, u)
<1>1. /\ f \in [Cluster -> FatEntry] /\ u \in Slots /\ u # s /\ Shape(d, b)
      /\ EntriesIn(d, b) \in [Slots -> Entry]
      /\ Holds(EntriesIn(d, b), DataIn(d, b), f, u, x)
      /\ C \in SUBSET (Cluster \ {Root})
  BY DEF Idle, Shape, Sound, Mine
<1>2. u \in DOMAIN x => /\ ChainOf(EntriesIn(d, b), f, u) \cap C = {}
                        /\ ChainOf(EntriesIn(d, b), f, u) \subseteq Cluster \ {Root}
  <2> HAVE u \in DOMAIN x
  <2>1. ChainOf(EntriesIn(d, b), f, u) \cap C = {}
    BY DEF Mine
  <2>2. EntriesIn(d, b)[u].start \in Cluster \cup {FREE}
    BY <1>1, EntryStart
  <2>3. Chained(EntriesIn(d, b), f, x, u)
    BY <1>1, <2>2, HoldsChain
  <2> QED BY <2>1, <2>3 DEF Chained
<1> QED
  BY <1>1, <1>2, LocalClear

\* What local steps will leave: the other slots as they were, and the slot of the call.
LEMMA BeginAfter ==
    ASSUME NEW d, NEW b, NEW f, NEW y, NEW x, NEW n, NEW v, Idle(d, b, f, y, x, n, v),
           NEW s \in Slots, NEW t, Steps(t), t # <<>>, NEW after, OffSlot(x, after, s),
           NEW C, Mine(EntriesIn(d, b), f, x, n \ {s}, C),
           \A i \in DOMAIN t : LocalStep(t[i], b, f, s, C),
           s \in n => HeldAfter(d, b, f, t, after, s, C),
           s \in n => SameClusters(d, b, f, t, x, after, s)
    PROVE  /\ Sound(EntriesAfterIn(d, t, b), DataAfterIn(d, t, b), FatAfterIn(f, t), n, after)
           /\ StoredAfter(d, b, f, y, t, n, after)
<1> DEFINE entries == EntriesIn(d, b)
           data == DataIn(d, b)
           others == EntriesAfterIn(d, t, b)
           units == DataAfterIn(d, t, b)
           g == FatAfterIn(f, t)
           P == n \ {s}
<1>1. /\ f \in [Cluster -> FatEntry] /\ n \in SUBSET Slots /\ P \in SUBSET n /\ Shape(d, b)
      /\ P \in SUBSET Slots /\ entries \in [Slots -> Entry]
      /\ Sound(entries, data, f, n, x)
      /\ Stored(entries, f, TablesIn(d, b), DOMAIN x \cap (IF ~y THEN n ELSE v))
  BY DEF Idle, Shape
<1>2. Sound(entries, data, f, P, x)
  BY <1>1, Part
<1>3. \A u \in P : (u \in DOMAIN after <=> u \in DOMAIN x) /\ (u \in DOMAIN x => after[u] = x[u])
  BY <1>1 DEF OffSlot
<1>4. \A u \in P, i \in DOMAIN t : StepClearIn(t[i], d, b, f, x, u)
  BY LocalClears
<1>5. P = n \ {s}
  OBVIOUS
<1> HIDE DEF P
<1>6. AllKept(entries, data, f, x, others, units, g, after, P)
  BY <1>1, <1>2, <1>3, <1>4, ClearKept
<1>7. g \in [Cluster -> FatEntry]
  <2>1. \A i \in DOMAIN t : \A c \in DOMAIN t[i].put : t[i].put[c] \in FatEntry
    BY DEF LocalStep
  <2> QED BY <1>1, <2>1, FatAfterType
<1> HIDE DEF g, others, units, entries, data
<1>8. /\ Sound(others, units, g, P, after)
      /\ \A u \in P \cap DOMAIN x : ChainOf(others, g, u) = ChainOf(entries, f, u)
  <2>1. P \in SUBSET n /\ n \in SUBSET Slots /\ Sound(entries, data, f, n, x)
        /\ entries \in [Slots -> Entry] /\ f \in [Cluster -> FatEntry]
    BY <1>1
  <2> QED BY ONLY <2>1, <1>6, <1>7, SoundLocal
<1>9. Sound(others, units, g, n, after)
  <2>1. CASE s \in n
    <3>1. Holds(others, units, g, s, after)
          /\ (s \in DOMAIN after => ChainOf(others, g, s) \subseteq C)
      BY <2>1 DEF HeldAfter, g, others, units
    <3>2. s \in DOMAIN after => \A u \in P \cap DOMAIN after :
             ChainOf(others, g, u) \cap ChainOf(others, g, s) = {}
      <4> SUFFICES ASSUME s \in DOMAIN after, NEW u \in P \cap DOMAIN after
                   PROVE  ChainOf(others, g, u) \cap ChainOf(others, g, s) = {}
        OBVIOUS
      <4>1. u \in P \cap DOMAIN x
        BY <1>3
      <4>2. ChainOf(entries, f, u) \cap C = {}
        BY <1>5, <4>1 DEF Mine, entries
      <4> QED BY <1>8, <3>1, <4>1, <4>2
    <3>3. Sound(others, units, g, P \cup {s}, after)
      BY <1>8, <3>1, <3>2, SoundAndOne
    <3>4. P \cup {s} = n
      BY <1>5, <2>1
    <3> QED BY <3>3, <3>4
  <2>2. CASE s \notin n
    <3>1. P = n
      BY <1>5, <2>2
    <3> QED BY <1>8, <3>1
  <2> QED BY <2>1, <2>2
<1>10. ASSUME ~y, \A i \in DOMAIN t : DOMAIN t[i].put = {}
       PROVE  Stored(others, f, TablesIn(d, b), n \cap DOMAIN after)
  <2>1. g = f
    BY <1>1, <1>10, NoPuts DEF g
  <2>2. Stored(entries, f, TablesIn(d, b), DOMAIN x \cap n)
    BY <1>1, <1>10
  <2> SUFFICES ASSUME NEW u \in n \cap DOMAIN after, NEW c \in ChainOf(others, f, u)
               PROVE  \A copy \in FatCopies : TablesIn(d, b)[copy][c] = f[c]
    BY DEF Stored
  <2>3. u \in DOMAIN x /\ c \in ChainOf(entries, f, u)
    <3>1. CASE u = s
      BY <1>10, <3>1 DEF SameClusters, others, entries
    <3>2. CASE u # s
      <4>1. u \in P /\ u \in DOMAIN x
        BY <1>3, <1>5, <3>2
      <4> QED BY <1>8, <2>1, <4>1
    <3> QED BY <3>1, <3>2
  <2> QED BY <2>2, <2>3 DEF Stored
<1> QED
  BY <1>9, <1>10 DEF StoredAfter, g, others, units, entries, data

\* A call with local steps begins.
LEMMA BeginOpen ==
    ASSUME NEW d, NEW b, NEW f, NEW y, NEW x, NEW n, NEW v, Idle(d, b, f, y, x, n, v),
           NEW s \in Slots, NEW op, op \notin {"None", "Format", "Sync"},
           NEW t, Steps(t), t # <<>>, NEW after, OffSlot(x, after, s),
           NEW C, Mine(EntriesIn(d, b), f, x, n \ {s}, C),
           \A i \in DOMAIN t : LocalStep(t[i], b, f, s, C),
           NEW k, k = [op |-> op, slot |-> s, fat |-> f, files |-> after],
           RollbackSoundIn(f, t, k),
           s \in n => StepsIntactIn(t, d, b, f, x, s),
           s \in n => HeldAfter(d, b, f, t, after, s, C),
           s \in n => SameClusters(d, b, f, t, x, after, s)
    PROVE  Open(d, b, f, y, t, k, x, n, v \ {s})
<1>1. /\ f \in [Cluster -> FatEntry] /\ y \in BOOLEAN
      /\ v \subseteq n /\ n \subseteq Slots /\ DOMAIN x \subseteq Slots
      /\ Shape(d, b) /\ BootIn(d) = b
      /\ Sound(EntriesIn(d, b), DataIn(d, b), f, n, x)
      /\ Stored(EntriesIn(d, b), f, TablesIn(d, b), DOMAIN x \cap (IF ~y THEN n ELSE v))
      /\ ~y => CopyIn(d, b, 1) = f
  BY DEF Idle
<1>2. k.op = op /\ k.slot = s /\ k.fat = f /\ k.files = after
  OBVIOUS
<1>3. CallShapeIn(y, t, k, x, n, v \ {s})
  BY <1>1, <1>2 DEF CallShapeIn, OffSlot, Steps
<1>4. Plan(d, b, f, t, k, x, n)
  <2>1. \A i \in DOMAIN t : StepShapeIn(t[i], d, b, f, k.op)
    <3>1. C \in SUBSET (Cluster \ {Root})
      BY DEF Mine
    <3> QED BY <1>1, <1>2, <3>1, LocalShape
  <2>2. \A u \in n \ {k.slot}, i \in DOMAIN t : StepClearIn(t[i], d, b, f, x, u)
    BY <1>2, LocalClears
  <2>3. k.slot \in n => StepsIntactIn(t, d, b, k.fat, x, k.slot)
    BY <1>2
  <2>4. k.slot \in n => SlotIntactIn(d, b, f, k.fat, x, n \ {k.slot}, k.slot)
    BY <1>1, <1>2 DEF SlotIntactIn, Sound, Apart
  <2> QED BY <2>1, <2>2, <2>3, <2>4 DEF Plan
<1>5. Now(d, b, f, y, k, x, n, v \ {s})
  <2>1. Sound(EntriesIn(d, b), DataIn(d, b), f, n \ {k.slot}, x)
    BY <1>1, Part
  <2>2. Stored(EntriesIn(d, b), f, TablesIn(d, b),
               DOMAIN x \cap (IF k.op # "Format" /\ ~y THEN n \ {k.slot} ELSE v \ {s}))
    <3>1. DOMAIN x \cap (IF k.op # "Format" /\ ~y THEN n \ {k.slot} ELSE v \ {s})
             \subseteq DOMAIN x \cap (IF ~y THEN n ELSE v)
      BY <1>2
    <3> QED BY <1>1, <3>1, Part
  <2> QED BY <1>1, <2>1, <2>2 DEF Now
<1>6. After(d, b, f, y, t, k, x, n)
  <2>1. /\ Sound(EntriesAfterIn(d, t, b), DataAfterIn(d, t, b), FatAfterIn(f, t), n, after)
        /\ StoredAfter(d, b, f, y, t, n, after)
    BY BeginAfter
  <2> QED BY <1>2, <2>1 DEF After, StoredAfter
<1> QED
  BY <1>1, <1>2, <1>3, <1>4, <1>5, <1>6 DEF Open

\* A file's units, cluster by cluster.
UnitsHeld(data, p, file) ==
    \A i \in 1..Len(p), k \in Units : data[p[i]][k] = At(file, (i - 1) * ClusterSize + k)

\* The slot of a known file, its path, and that the other slots have none of its clusters
\* and no free one.
LEMMA KnownFacts ==
    ASSUME NEW d, NEW b, NEW f, NEW y, NEW x, NEW n, NEW v, Idle(d, b, f, y, x, n, v),
           NEW s \in n, s \in DOMAIN x
    PROVE  /\ s \in Slots /\ Chained(EntriesIn(d, b), f, x, s)
           /\ EntriesIn(d, b)[s] \in Entry
           /\ UnitsHeld(DataIn(d, b), PathOf(EntriesIn(d, b), f, s), x[s])
           /\ \A C : (\A c \in C : c \in Cluster \ {Root} /\
                        (c \in ChainOf(EntriesIn(d, b), f, s) \/ f[c] = FREE))
                     => Mine(EntriesIn(d, b), f, x, n \ {s}, C)
<1> DEFINE entries == EntriesIn(d, b)
           p == PathOf(entries, f, s)
<1>1. /\ f \in [Cluster -> FatEntry] /\ s \in Slots /\ n \subseteq Slots
      /\ entries \in [Slots -> Entry] /\ Sound(entries, DataIn(d, b), f, n, x)
  BY DEF Idle, Shape
<1> HIDE DEF entries
<1>2. \A u \in n \cap DOMAIN x : Chained(entries, f, x, u)
  <2> TAKE u \in n \cap DOMAIN x
  <2>1. entries[u].start \in Cluster \cup {FREE} /\ Holds(entries, DataIn(d, b), f, u, x)
    BY <1>1, EntryStart DEF Sound
  <2> QED BY <1>1, <2>1, HoldsChain
<1>3. Chained(entries, f, x, s) /\ entries[s] \in Entry
  BY <1>1, <1>2
<1>4. UnitsHeld(DataIn(d, b), p, x[s])
  <2>1. Len(p) = Clusters(entries[s].size)
    BY <1>3 DEF Chained
  <2>2. Holds(entries, DataIn(d, b), f, s, x)
    BY <1>1 DEF Sound
  <2> QED BY <2>1, <2>2 DEF Holds, PathOf, UnitsHeld
<1>5. ASSUME NEW C, \A c \in C : c \in Cluster \ {Root} /\
                       (c \in ChainOf(entries, f, s) \/ f[c] = FREE)
      PROVE  Mine(entries, f, x, n \ {s}, C)
  <2> SUFFICES ASSUME NEW u \in (n \ {s}) \cap DOMAIN x, NEW c \in ChainOf(entries, f, u), c \in C
               PROVE  FALSE
    BY <1>5 DEF Mine
  <2>1. f[c] # FREE
    BY <1>2 DEF Chained
  <2>2. c \notin ChainOf(entries, f, s)
    BY <1>1 DEF Sound, Apart
  <2> QED BY <1>5, <2>1, <2>2
<1> QED
  BY <1>1, <1>3, <1>4, <1>5 DEF entries

\* What a slot holds after a call, along a path.
LEMMA HeldByPath ==
    ASSUME NEW d, NEW b, NEW f \in [Cluster -> FatEntry], NEW t, Steps(t),
           \A i \in DOMAIN t : \A c \in DOMAIN t[i].put : t[i].put[c] \in FatEntry,
           NEW after, NEW s \in DOMAIN after, NEW C, NEW q, Links(FatAfterIn(f, t), q),
           NEW e, EntriesAfterIn(d, t, b)[s] = e, Occupied(e), e.start = HeadOf(q),
           e.size = Len(after[s]), after[s] \in Seq(Nat), Len(q) = Clusters(e.size),
           \A i \in 1..Len(q) : q[i] \in C,
           \A i \in 1..Len(q), k \in Units :
              DataAfterIn(d, t, b)[q[i]][k] = At(after[s], (i - 1) * ClusterSize + k)
    PROVE  /\ HeldAfter(d, b, f, t, after, s, C)
           /\ ChainOf(EntriesAfterIn(d, t, b), FatAfterIn(f, t), s) = ToSet(q)
<1> DEFINE g == FatAfterIn(f, t)
           others == EntriesAfterIn(d, t, b)
<1>1. g \in [Cluster -> FatEntry]
  BY FatAfterType
<1> HIDE DEF g, others
<1>2. Links(g, q) /\ others[s] = e
  BY DEF g, others
<1>3. Chain(g, e.start) = q /\ Whole(g, e.start, Clusters(e.size))
  BY <1>1, <1>2, PathWhole
<1>4. ChainOf(others, g, s) = ToSet(q)
  BY <1>2, <1>3 DEF ChainOf
<1>5. ToSet(q) \subseteq C
  BY <1>2 DEF Links, ToSet
<1>6. Holds(others, DataAfterIn(d, t, b), g, s, after)
  BY <1>2, <1>3 DEF Holds
<1> QED
  BY <1>4, <1>5, <1>6 DEF HeldAfter, g, others

\* The clusters of a size.
LEMMA ClustersFacts ==
    /\ ClusterSize \in Nat \ {0} /\ Clusters(0) = 0
    /\ \A size \in Nat : Clusters(size) \in Nat
<1>1. ClusterSize \in Nat \ {0}
  BY ImageAssumption
<1> DEFINE m == ClusterSize
<1> HIDE DEF m
<1>2. m \in Nat \ {0}
  BY <1>1 DEF m
<1>3. \A size \in Nat : (size + m - 1) \div m \in Nat
  BY <1>2
<1>4. (0 + m - 1) \div m = 0
  BY <1>2
<1> QED
  BY <1>1, <1>3, <1>4 DEF Clusters, CeilDiv, m

\* Sequences of steps.
LEMMA StepsOf ==
    ASSUME NEW S, NEW t \in Seq(S)
    PROVE  Steps(t) /\ Len(t) \in Nat /\ DOMAIN t = 1..Len(t)
<1>1. Len(t) \in Nat /\ DOMAIN t = 1..Len(t) /\ t = [i \in 1..Len(t) |-> t[i]]
  OBVIOUS
<1>2. \A i \in 1..Len(t) : t[i] \in ToSet(t)
  BY <1>1 DEF ToSet
<1>3. [i \in 1..Len(t) |-> t[i]] \in Seq(ToSet(t))
  BY <1>1, <1>2
<1> QED
  BY <1>1, <1>3 DEF Steps

\* Steps followed by steps.
LEMMA StepsJoin ==
    ASSUME NEW t, Steps(t), NEW u, Steps(u)
    PROVE  LET w == t \o u
           IN  /\ Steps(w) /\ Len(w) = Len(t) + Len(u) /\ DOMAIN w = 1..Len(w)
               /\ \A i \in 1..Len(t) : w[i] = t[i] /\ i \in DOMAIN w
               /\ \A i \in 1..Len(u) : w[Len(t) + i] = u[i] /\ Len(t) + i \in DOMAIN w
               /\ \A i \in DOMAIN w :
                     i \in 1..Len(t) \/ (i - Len(t) \in 1..Len(u) /\ Len(t) + (i - Len(t)) = i)
<1> DEFINE S == ToSet(t) \cup ToSet(u)
           w == t \o u
<1>1. t \in Seq(S) /\ u \in Seq(S)
  BY DEF Steps
<1> HIDE DEF S
<1>2. w \in Seq(S) /\ Len(w) = Len(t) + Len(u) /\ Len(t) \in Nat /\ Len(u) \in Nat
  BY <1>1
<1>3. Steps(w) /\ DOMAIN w = 1..Len(w)
  BY <1>2, StepsOf
<1>4. \A i \in 1..Len(t) : w[i] = t[i]
  BY <1>1
<1>5. \A i \in 1..Len(u) : w[Len(t) + i] = u[i]
  BY <1>1
<1> HIDE DEF w
<1> DEFINE k == Len(t)
           l == Len(u)
<1>6. k \in Nat /\ l \in Nat /\ DOMAIN w = 1..(k + l)
  BY <1>2, <1>3
<1> HIDE DEF k, l
<1>7. /\ \A i \in 1..k : i \in DOMAIN w
      /\ \A i \in 1..l : k + i \in DOMAIN w
      /\ \A i \in DOMAIN w : i \in 1..k \/ (i - k \in 1..l /\ k + (i - k) = i)
  BY <1>6
<1> QED
  BY <1>2, <1>3, <1>4, <1>5, <1>7 DEF w, k, l

\* One step.
LEMMA OneStep ==
    ASSUME NEW step
    PROVE  Steps(<<step>>) /\ Len(<<step>>) = 1 /\ <<step>>[1] = step /\ DOMAIN <<step>> = {1}
           /\ <<step>> # <<>>
<1>1. <<step>> \in Seq({step})
  OBVIOUS
<1>2. Steps(<<step>>)
  BY <1>1, StepsOf
<1> QED
  BY <1>2

\* The step after all others.
LEMMA LastStep ==
    ASSUME NEW t, Steps(t), NEW step
    PROVE  LET w == t \o <<step>>
           IN  /\ Steps(w) /\ w # <<>> /\ Len(w) = Len(t) + 1 /\ DOMAIN w = 1..Len(w)
               /\ w[Len(w)] = step /\ Len(w) \in DOMAIN w
               /\ \A i \in 1..Len(t) : w[i] = t[i] /\ i \in DOMAIN w
               /\ \A i \in DOMAIN w : i <= Len(w) /\ (i \in 1..Len(t) \/ i = Len(w))
<1> DEFINE w == t \o <<step>>
           one == <<step>>
           k == Len(t)
<1>1. Steps(one) /\ Len(one) = 1 /\ one[1] = step
  BY OneStep
<1>2. k \in Nat
  BY StepsFacts
<1> HIDE DEF one
<1>3. /\ Steps(t \o one) /\ Len(t \o one) = Len(t) + Len(one) /\ DOMAIN (t \o one) = 1..Len(t \o one)
      /\ \A i \in 1..Len(t) : (t \o one)[i] = t[i] /\ i \in DOMAIN (t \o one)
      /\ \A i \in 1..Len(one) : (t \o one)[Len(t) + i] = one[i]
  <2>1. Steps(one)
    BY <1>1
  <2>2. Steps(t \o one) /\ Len(t \o one) = Len(t) + Len(one)
    BY <2>1, StepsJoin
  <2>3. DOMAIN (t \o one) = 1..Len(t \o one)
    BY <2>1, StepsJoin
  <2>4. \A i \in 1..Len(t) : (t \o one)[i] = t[i] /\ i \in DOMAIN (t \o one)
    BY <2>1, StepsJoin
  <2>5. \A i \in 1..Len(one) : (t \o one)[Len(t) + i] = one[i]
    BY <2>1, StepsJoin
  <2> QED BY <2>2, <2>3, <2>4, <2>5
<1> DEFINE z == t \o one
<1> HIDE DEF z
<1>4. Steps(z) /\ Len(z) = k + 1 /\ DOMAIN z = 1..(k + 1) /\ z[k + 1] = step
      /\ \A i \in 1..k : z[i] = t[i] /\ i \in DOMAIN z
  BY <1>1, <1>3 DEF z
<1> HIDE DEF k
<1>5. /\ k + 1 \in 1..(k + 1) /\ k + 1 > 0
      /\ \A i \in 1..(k + 1) : i <= k + 1 /\ (i \in 1..k \/ i = k + 1)
  BY <1>2
<1>6. z # <<>>
  BY <1>4, <1>5, StepsFacts
<1>7. w = z
  BY DEF z, one
<1> HIDE DEF w
<1> QED
  BY <1>4, <1>5, <1>6, <1>7 DEF w, k

\* The entry of a slot after a call that writes it last.
LEMMA EntryLast ==
    ASSUME NEW d, NEW b, NEW t, Steps(t), t # <<>>, NEW s \in Slots, NEW e,
           t[Len(t)].block = FirstBlock(b, Root), t[Len(t)].cells = Single(s, e)
    PROVE  EntriesAfterIn(d, t, b)[s] = e
<1> DEFINE l == Len(t)
<1>1. l \in Nat /\ DOMAIN t = 1..l /\ l > 0
  BY StepsFacts
<1>3. t[l].block = FirstBlock(b, Root) /\ t[l].cells = Single(s, e)
  OBVIOUS
<1> HIDE DEF l
<1>2. s \in DOMAIN t[l].cells /\ t[l].cells[s] = e
  <2>1. DOMAIN Single(s, e) = {s} /\ Single(s, e)[s] = e
    BY SingleFacts
  <2> QED BY <1>3, <2>1
<1>4. l \in DOMAIN t /\ ~(\E j \in DOMAIN t : j > l)
  BY <1>1
<1>5. LastTouch(t, l, FirstBlock(b, Root), s)
  BY <1>2, <1>3, <1>4 DEF LastTouch, Touches
<1>6. CellAfterIn(d, t, FirstBlock(b, Root), s, Unused) = Written(t[l], s, Unused)
  BY <1>5, TouchedLast
<1> QED
  BY <1>2, <1>6 DEF EntriesAfterIn, Written

\* The write of an entry is local to its slot.
LEMMA EntryStep ==
    ASSUME NEW b, NEW f, NEW s, NEW e \in Entry, NEW C, NEW step,
           step.block = FirstBlock(b, Root), step.zeros = {}, step.cells = Single(s, e),
           step.put = <<>>, step.undo = <<>>, step.wipe = {}
    PROVE  LocalStep(step, b, f, s, C)
<1>1. DOMAIN step.cells = {s} /\ step.cells[s] = e
  <2>1. DOMAIN Single(s, e) = {s} /\ Single(s, e)[s] = e
    BY SingleFacts
  <2> QED BY <2>1
<1>2. DOMAIN step.put = {} /\ DOMAIN step.undo = {}
  BY EmptyMap
<1> QED
  BY <1>1, <1>2 DEF LocalStep

\* The fields of the write of an entry.
LEMMA WriteEntryFacts ==
    ASSUME NEW b, NEW s, NEW e
    PROVE  LET step == WriteEntry(b, s, e)
           IN  /\ step.block = FirstBlock(b, Root) /\ step.zeros = {} /\ step.cells = Single(s, e)
               /\ step.put = <<>> /\ step.undo = <<>> /\ step.wipe = {} /\ step.intact = FALSE
  BY DEF WriteEntry, Step

\* create_file.
LEMMA CreateOpen ==
    ASSUME NEW d, NEW b, NEW f, NEW y, NEW x, NEW n, NEW v, Idle(d, b, f, y, x, n, v),
           NEW s \in Slots, ~Occupied(EntriesIn(d, b)[s]),
           NEW after, after = Overlay(Single(s, <<>>), x),
           NEW step, step = [WriteEntry(b, s, File(FREE, 0)) EXCEPT !.intact = TRUE],
           NEW k, k = [op |-> "Create", slot |-> s, fat |-> f, files |-> after]
    PROVE  Open(d, b, f, y, <<step>>, k, x, n, v \ {s})
<1> DEFINE t == <<step>>
           e == File(FREE, 0)
<1>1. /\ step.block = FirstBlock(b, Root) /\ step.zeros = {} /\ step.cells = Single(s, e)
      /\ step.put = <<>> /\ step.undo = <<>> /\ step.wipe = {} /\ step.intact = TRUE
  BY DEF WriteEntry, Step
<1>2. e \in Entry /\ Occupied(e) /\ e.start = FREE /\ e.size = 0
  BY DEF Entry, File, Occupied
<1>3. /\ f \in [Cluster -> FatEntry] /\ n \subseteq Slots /\ DOMAIN x \subseteq Slots
      /\ Sound(EntriesIn(d, b), DataIn(d, b), f, n, x)
  BY DEF Idle
<1>4. s \in n => s \notin DOMAIN x
  BY <1>3 DEF Sound, Holds
<1>5. OffSlot(x, after, s) /\ s \in DOMAIN after /\ after[s] = <<>>
  <2>1. /\ DOMAIN after = DOMAIN Single(s, <<>>) \cup DOMAIN x
        /\ \A u \in DOMAIN Single(s, <<>>) : after[u] = Single(s, <<>>)[u]
        /\ \A u \in DOMAIN x : u \notin DOMAIN Single(s, <<>>) => after[u] = x[u]
    <3> DEFINE m == Single(s, <<>>)
    <3> HIDE DEF m
    <3>1. /\ DOMAIN Overlay(m, x) = DOMAIN m \cup DOMAIN x
          /\ \A u \in DOMAIN m : Overlay(m, x)[u] = m[u]
          /\ \A u \in DOMAIN x : u \notin DOMAIN m => Overlay(m, x)[u] = x[u]
      BY OverlayFacts
    <3>2. after = Overlay(m, x)
      BY DEF m
    <3> QED BY <3>1, <3>2 DEF m
  <2>2. DOMAIN Single(s, <<>>) = {s} /\ Single(s, <<>>)[s] = <<>>
    BY SingleFacts
  <2> QED BY <1>3, <2>1, <2>2 DEF OffSlot
<1>6. Steps(t) /\ Len(t) = 1 /\ t[1] = step /\ DOMAIN t = {1} /\ t # <<>>
  BY OneStep
<1>7. Mine(EntriesIn(d, b), f, x, n \ {s}, {})
  BY DEF Mine
<1> HIDE DEF t, e
<1>8. \A i \in DOMAIN t : LocalStep(t[i], b, f, s, {})
  <2>1. LocalStep(step, b, f, s, {})
    BY <1>1, <1>2, EntryStep
  <2> QED BY <1>6, <2>1
<1>9. RollbackSoundIn(f, t, k)
  <2>1. k.fat = f
    OBVIOUS
  <2> QED BY ONLY <1>1, <1>6, <2>1, EmptyMap DEF RollbackSoundIn
<1>10. s \in n => StepsIntactIn(t, d, b, f, x, s)
  BY <1>4, <1>6 DEF StepsIntactIn
<1>11. FatAfterIn(f, t) = f
  <2>1. \A i \in DOMAIN t : DOMAIN t[i].put = {}
    BY <1>1, <1>6, EmptyMap
  <2> QED BY <1>3, <2>1, NoPuts
<1>12. EntriesAfterIn(d, t, b)[s] = e
  <2>1. t[Len(t)].block = FirstBlock(b, Root) /\ t[Len(t)].cells = Single(s, e)
    BY <1>1, <1>6
  <2>2. s \in Slots
    OBVIOUS
  <2> QED BY ONLY <1>6, <2>1, <2>2, EntryLast
<1>13. HeldAfter(d, b, f, t, after, s, {}) /\ SameClusters(d, b, f, t, x, after, s)
  <2> DEFINE q == <<>>
  <2>1. Links(f, q) /\ HeadOf(q) = FREE /\ Len(q) = 0 /\ ToSet(q) = {}
    BY DEF Links, HeadOf, ToSet
  <2> HIDE DEF q
  <2>2. e.start = HeadOf(q) /\ Len(q) = Clusters(e.size) /\ e.size = Len(after[s])
        /\ after[s] \in Seq(Nat)
    <3>1. e.start = HeadOf(q) /\ Len(q) = Clusters(e.size)
      BY <1>2, <2>1, ClustersFacts
    <3>2. after[s] \in Seq(Nat) /\ Len(after[s]) = 0
      <4>1. <<>> \in Seq(Nat) /\ Len(<<>>) = 0
        OBVIOUS
      <4> QED BY <1>5, <4>1
    <3> QED BY <1>2, <3>1, <3>2
  <2>3. \A i \in DOMAIN t : \A c \in DOMAIN t[i].put : t[i].put[c] \in FatEntry
    BY <1>8 DEF LocalStep
  <2>4. ~(\E i \in 1..Len(q) : TRUE)
    BY <2>1
  <2>5. Links(FatAfterIn(f, t), q)
    BY <1>11, <2>1
  <2>6. \A i \in 1..Len(q) : q[i] \in {}
    BY <2>4
  <2>7. \A i \in 1..Len(q), j \in Units :
           DataAfterIn(d, t, b)[q[i]][j] = At(after[s], (i - 1) * ClusterSize + j)
    BY <2>4
  <2>8. HeldAfter(d, b, f, t, after, s, {})
    BY <1>2, <1>3, <1>5, <1>6, <1>12, <2>2, <2>3, <2>5, <2>6, <2>7, HeldByPath
  <2> QED BY <1>5, <1>11, <2>8 DEF HeldAfter, SameClusters
<1>14. "Create" \notin {"None", "Format", "Sync"}
  OBVIOUS
<1>15. Open(d, b, f, y, t, k, x, n, v \ {s})
  BY <1>5, <1>6, <1>7, <1>8, <1>9, <1>10, <1>13, <1>14, BeginOpen
<1> QED
  BY <1>15 DEF t

\* The root has a cluster.
LEMMA RootIn == Root \in Cluster /\ Root \in Nat
  BY TableAssumption DEF Root, Cluster

\* The steps that free a path.
LEMMA FreeFacts ==
    ASSUME NEW p \in Seq(Cluster \ {Root})
    PROVE  LET t == FreeChain(p)
           IN  /\ Steps(t) /\ Len(t) = Len(p) /\ DOMAIN t = 1..Len(p)
               /\ \A i \in 1..Len(p) :
                     LET j == (Len(p) - i) + 1
                     IN  /\ j \in 1..Len(p)
                         /\ t[i] = [ZeroCluster(boot, p[j]) EXCEPT !.put = Single(p[j], FREE)]
                         /\ t[j] = [ZeroCluster(boot, p[i]) EXCEPT !.put = Single(p[i], FREE)]
<1> DEFINE t == FreeChain(p)
           l == Len(p)
           F(c) == [ZeroCluster(boot, c) EXCEPT !.put = Single(c, FREE)]
<1>1. l \in Nat /\ DOMAIN p = 1..l
  OBVIOUS
<1>2. t = [i \in 1..l |-> F(Reverse(p)[i])]
  BY <1>1 DEF FreeChain
<1>3. \A i \in 1..l : Reverse(p)[i] = p[(l - i) + 1]
  BY DEF Reverse
<1> HIDE DEF t, F
<1>4. t = [i \in 1..l |-> F(p[(l - i) + 1])]
  BY <1>2, <1>3
<1>5. \A i \in 1..l : (l - i) + 1 \in 1..l /\ (l - ((l - i) + 1)) + 1 = i
  <2> HIDE DEF l
  <2> QED BY <1>1
<1>6. Len(t) = l /\ DOMAIN t = 1..l /\ Steps(t)
  <2> DEFINE S == {F(p[(l - i) + 1]) : i \in 1..l}
  <2>3. \A i \in 1..l : F(p[(l - i) + 1]) \in S
    OBVIOUS
  <2> HIDE DEF S
  <2>1. t \in Seq(S)
    BY <1>1, <1>4, <2>3
  <2>2. Len(t) = l
    BY <1>1, <1>4
  <2> QED BY <1>4, <2>1, <2>2, StepsOf
<1>7. \A i \in 1..l : t[i] = F(p[(l - i) + 1])
  BY <1>4
<1>8. \A i \in 1..l : t[(l - i) + 1] = F(p[i])
  BY <1>5, <1>7
<1> QED
  BY <1>5, <1>6, <1>7, <1>8 DEF t, F

\* A map that frees a cluster and has some other entries.
FreePut(put, c, end) ==
    DOMAIN put = {c} \cup DOMAIN end /\ put[c] = FREE
    /\ \A z \in DOMAIN end : z # c => put[z] = end[z]

\* A table put over another frees clusters.
LEMMA FreeMap ==
    ASSUME NEW c, NEW end
    PROVE  FreePut(Overlay(Single(c, FREE), end), c, end)
<1> DEFINE m == Single(c, FREE)
<1>1. DOMAIN m = {c} /\ m[c] = FREE
  BY SingleFacts
<1> HIDE DEF m
<1>2. /\ DOMAIN Overlay(m, end) = DOMAIN m \cup DOMAIN end
      /\ \A u \in DOMAIN m : Overlay(m, end)[u] = m[u]
      /\ \A u \in DOMAIN end : u \notin DOMAIN m => Overlay(m, end)[u] = end[u]
  BY OverlayFacts
<1> QED BY <1>1, <1>2 DEF FreePut, m

\* A step on a cluster of C.
LEMMA ClusterStep ==
    ASSUME NEW b, NEW f, NEW s, NEW C \in SUBSET (Cluster \ {Root}), NEW c \in C,
           NEW step, step.block = FirstBlock(b, c), step.wipe \subseteq C,
           DOMAIN step.put \subseteq C, \A z \in DOMAIN step.put : step.put[z] \in FatEntry,
           step.undo = <<>>
    PROVE  LocalStep(step, b, f, s, C)
<1>1. DOMAIN step.undo = {}
  BY EmptyMap
<1> QED
  BY <1>1 DEF LocalStep

ZeroStep(step, c, put) ==
    /\ step.block = FirstBlock(boot, c) /\ step.zeros = Units /\ step.cells = <<>>
    /\ step.put = put /\ step.undo = <<>> /\ step.wipe = {} /\ step.intact = FALSE

\* The fields of the step that zeroes a cluster.
LEMMA ZeroClusterFacts ==
    ASSUME NEW c, c # Root, NEW put
    PROVE  ZeroStep([ZeroCluster(boot, c) EXCEPT !.put = put], c, put)
  BY DEF ZeroStep, ZeroCluster, Step

\* When no table entry is changed the clusters are the same.
LEMMA SameByHeld ==
    ASSUME NEW d, NEW b, NEW f \in [Cluster -> FatEntry], NEW t, NEW x, NEW s \in DOMAIN x,
           NEW after, NEW C, HeldAfter(d, b, f, t, after, s, C),
           (\A i \in DOMAIN t : DOMAIN t[i].put = {}) => C \subseteq ChainOf(EntriesIn(d, b), f, s)
    PROVE  SameClusters(d, b, f, t, x, after, s)
  BY NoPuts DEF HeldAfter, SameClusters

\* rm.
LEMMA RmOpen ==
    ASSUME NEW d, NEW f, NEW y, NEW x, NEW n, NEW v, Idle(d, boot, f, y, x, n, v),
           NEW s \in n, s \in DOMAIN x,
           NEW p, p = Chain(f, EntriesIn(d, boot)[s].start),
           NEW after, after = [u \in DOMAIN x \ {s} |-> x[u]],
           NEW k, k = [op |-> "Rm", slot |-> s, fat |-> f, files |-> after]
    PROVE  Open(d, boot, f, y, FreeChain(p) \o <<WriteEntry(boot, s, Deleted)>>,
                k, x, n, v \ {s})
<1> DEFINE b == boot
           entries == EntriesIn(d, b)
           last == WriteEntry(b, s, Deleted)
           t == FreeChain(p) \o <<last>>
           C == ChainOf(entries, f, s)
<1>1. /\ s \in Slots /\ Chained(entries, f, x, s) /\ p = PathOf(entries, f, s)
      /\ \A D : (\A c \in D : c \in Cluster \ {Root} /\ (c \in C \/ f[c] = FREE))
            => Mine(entries, f, x, n \ {s}, D)
  BY KnownFacts DEF PathOf
<1>2. /\ f \in [Cluster -> FatEntry] /\ DOMAIN x \subseteq Slots
  BY DEF Idle
<1>3. /\ p \in Seq(Cluster \ {Root}) /\ Len(p) \in Nat /\ C = {p[i] : i \in 1..Len(p)}
      /\ C \in SUBSET (Cluster \ {Root})
  BY <1>1 DEF Chained, Links
<1>4. Mine(entries, f, x, n \ {s}, C)
  BY <1>1, <1>3
<1> HIDE DEF C
<1>5. /\ Steps(FreeChain(p)) /\ Len(FreeChain(p)) = Len(p)
      /\ \A i \in 1..Len(p) : \E j \in 1..Len(p) :
            FreeChain(p)[i] = [ZeroCluster(boot, p[j]) EXCEPT !.put = Single(p[j], FREE)]
  <2>1. Steps(FreeChain(p)) /\ Len(FreeChain(p)) = Len(p)
    BY <1>3, FreeFacts
  <2>2. ASSUME NEW i \in 1..Len(p)
        PROVE  \E j \in 1..Len(p) :
                  FreeChain(p)[i] = [ZeroCluster(boot, p[j]) EXCEPT !.put = Single(p[j], FREE)]
    <3> DEFINE j == (Len(p) - i) + 1
    <3>1. j \in 1..Len(p)
          /\ FreeChain(p)[i] = [ZeroCluster(boot, p[j]) EXCEPT !.put = Single(p[j], FREE)]
      BY <1>3, FreeFacts
    <3> QED BY <3>1
  <2> QED BY <2>1, <2>2
<1>6. /\ last.block = FirstBlock(b, Root) /\ last.zeros = {} /\ last.cells = Single(s, Deleted)
      /\ last.put = <<>> /\ last.undo = <<>> /\ last.wipe = {} /\ last.intact = FALSE
  BY WriteEntryFacts
<1> HIDE DEF last
<1>7. /\ Steps(t) /\ t # <<>> /\ t[Len(t)] = last
      /\ \A i \in 1..Len(p) : t[i] = FreeChain(p)[i]
      /\ \A i \in DOMAIN t : i \in 1..Len(p) \/ i = Len(t)
  <2> DEFINE r == FreeChain(p)
  <2>1. Steps(r) /\ Len(r) = Len(p)
    BY <1>5
  <2> HIDE DEF r
  <2>2. /\ Steps(r \o <<last>>) /\ r \o <<last>> # <<>>
        /\ (r \o <<last>>)[Len(r \o <<last>>)] = last
    BY <2>1, LastStep
  <2>3. \A i \in 1..Len(r) : (r \o <<last>>)[i] = r[i]
    BY <2>1, LastStep
  <2>4. \A i \in DOMAIN (r \o <<last>>) : i \in 1..Len(r) \/ i = Len(r \o <<last>>)
    BY <2>1, LastStep
  <2> QED BY <2>1, <2>2, <2>3, <2>4 DEF r
<1> HIDE DEF t
<1>8. ASSUME NEW i \in DOMAIN t
      PROVE  LocalStep(t[i], b, f, s, C) /\ t[i].intact = FALSE
  <2>1. CASE i \in 1..Len(p)
    <3>1. PICK j \in 1..Len(p) :
             t[i] = [ZeroCluster(boot, p[j]) EXCEPT !.put = Single(p[j], FREE)]
      BY ONLY <1>5, <1>7, <2>1
    <3>2. p[j] \in C /\ p[j] # Root
      BY <1>3
    <3>3. /\ t[i].block = FirstBlock(b, p[j]) /\ t[i].put = Single(p[j], FREE)
          /\ t[i].undo = <<>> /\ t[i].wipe = {} /\ t[i].intact = FALSE
      <4> DEFINE step == [ZeroCluster(boot, p[j]) EXCEPT !.put = Single(p[j], FREE)]
      <4>1. /\ step.block = FirstBlock(b, p[j]) /\ step.put = Single(p[j], FREE)
            /\ step.undo = <<>> /\ step.wipe = {} /\ step.intact = FALSE
        <5>1. ZeroStep(step, p[j], Single(p[j], FREE))
          BY <3>2, ZeroClusterFacts
        <5> HIDE DEF step
        <5> QED BY <5>1 DEF ZeroStep
      <4>2. t[i] = step
        BY <3>1
      <4> HIDE DEF step
      <4> QED BY <4>1, <4>2
    <3>4. DOMAIN t[i].put \subseteq C /\ \A z \in DOMAIN t[i].put : t[i].put[z] \in FatEntry
      <4>1. DOMAIN Single(p[j], FREE) = {p[j]} /\ Single(p[j], FREE)[p[j]] = FREE
        BY SingleFacts
      <4> QED BY <3>2, <3>3, <4>1 DEF FatEntry
    <3>5. t[i].wipe \subseteq C
      BY <3>3
    <3> QED BY <1>3, <3>2, <3>3, <3>4, <3>5, ClusterStep
  <2>2. CASE i = Len(t)
    <3>1. LocalStep(last, b, f, s, C)
      BY <1>6, UnusedEntry, EntryStep
    <3> QED BY <1>6, <1>7, <2>2, <3>1
  <2> QED BY <1>7, <2>1, <2>2
<1>9. OffSlot(x, after, s) /\ s \notin DOMAIN after
  BY <1>2 DEF OffSlot
<1>10. RollbackSoundIn(f, t, k) /\ StepsIntactIn(t, d, b, f, x, s)
  <2>1. k.op = "Rm"
    OBVIOUS
  <2> QED BY <1>8, <2>1 DEF RollbackSoundIn, RolledBack, StepsIntactIn
<1>11. HeldAfter(d, b, f, t, after, s, C)
  <2>1. t[Len(t)].block = FirstBlock(b, Root) /\ t[Len(t)].cells = Single(s, Deleted)
    BY <1>6, <1>7
  <2>2. EntriesAfterIn(d, t, b)[s] = Deleted
    BY <1>1, <1>7, <2>1, EntryLast
  <2>3. ~Occupied(Deleted)
    BY DEF Occupied, Deleted, Unused
  <2> QED BY <1>9, <2>2, <2>3 DEF HeldAfter, Holds
<1>12. SameClusters(d, b, f, t, x, after, s)
  BY <1>9 DEF SameClusters
<1>13. "Rm" \notin {"None", "Format", "Sync"}
  OBVIOUS
<1>14. Open(d, b, f, y, t, k, x, n, v \ {s})
  BY <1>1, <1>4, <1>7, <1>8, <1>9, <1>10, <1>11, <1>12, <1>13, BeginOpen
<1> QED
  BY <1>14 DEF t, last

(* Units within clusters.                                                  *)

\* Multiples in order.
LEMMA TimesOrder ==
    ASSUME NEW a \in Nat, NEW c \in Nat, NEW m \in Nat
    PROVE  /\ a * m \in Nat /\ c * m \in Nat
           /\ a < c => a * m + m <= c * m
           /\ a <= c => a * m <= c * m
<1>1. a <= c => a * m <= c * m
  BY TimesMonotone
<1>2. ASSUME a < c PROVE a * m + m <= c * m
  <2>1. a + 1 <= c /\ a + 1 \in Int /\ c \in Int
    BY <1>2
  <2>2. (a + 1) * m <= c * m
    BY <2>1, TimesMonotone
  <2>3. (a + 1) * m = a * m + m
    OBVIOUS
  <2> QED BY <2>2, <2>3
<1>3. a * m \in Nat /\ c * m \in Nat
  OBVIOUS
<1> QED
  BY <1>1, <1>2, <1>3

\* The number of a unit of a cluster.
LEMMA UnitFacts ==
    ASSUME NEW i \in Nat \ {0}, NEW k \in Units
    PROVE  LET m == ClusterSize
               u == (i - 1) * ClusterSize + k
           IN  /\ u \in Nat \ {0} /\ (i - 1) * m \in Nat /\ u > (i - 1) * m /\ u <= i * m
               /\ i * m \in Nat /\ i * m = (i - 1) * m + m
<1> DEFINE m == ClusterSize
           a == (i - 1) * m
<1>1. m \in Nat \ {0} /\ k \in 1..m
  BY ClustersFacts DEF Units
<1>2. i - 1 \in Nat
  OBVIOUS
<1>3. a \in Nat
  BY <1>1, <1>2
<1>4. i * m = a + m
  BY <1>1
<1> HIDE DEF a
<1> DEFINE z == i * m
<1> HIDE DEF m, z
<1>5. z = a + m
  BY <1>4 DEF z
<1>6. a + k \in Nat \ {0} /\ a + k > a /\ a + k <= z /\ z \in Nat
  BY <1>1, <1>3, <1>5
<1> QED
  BY <1>3, <1>5, <1>6 DEF a, m, z

\* The clusters of a size: full ones, and a last one that is full or holds the rest.
LEMMA SizeFacts ==
    ASSUME NEW size \in Nat, NEW i \in Nat \ {0}, NEW k \in Units
    PROVE  LET n == Clusters(size)
               u == (i - 1) * ClusterSize + k
               r == size % ClusterSize
           IN  /\ n \in Nat /\ r \in Nat
               /\ i < n => u <= size
               /\ i > n => u > size
               /\ i = n /\ r = 0 => u <= size
               /\ i = n /\ r # 0 => (u <= size <=> k <= r)
<1> DEFINE m == ClusterSize
           n == Clusters(size)
           u == (i - 1) * ClusterSize + k
           r == size % ClusterSize
           q == size \div ClusterSize
<1>1. m \in Nat \ {0} /\ k \in 1..m /\ n \in Nat
  BY ClustersFacts DEF Units
<1>2. n * m >= size /\ n * m < size + m
  BY <1>1, CeilDivFacts DEF Clusters
<1>3. /\ u \in Nat \ {0} /\ (i - 1) * m \in Nat /\ u > (i - 1) * m /\ u <= i * m
      /\ i * m \in Nat /\ i * m = (i - 1) * m + m /\ u = (i - 1) * m + k
  BY UnitFacts
<1>4. size = q * m + r /\ r \in 0..(m - 1) /\ q \in Nat
  BY <1>1
<1> HIDE DEF m, n, u, r, q
<1> DEFINE nm == n * m
           qm == q * m
           im == i * m
           jm == (i - 1) * m
<1>5. /\ nm \in Nat /\ qm \in Nat /\ im \in Nat /\ jm \in Nat
      /\ i - 1 \in Nat /\ i \in Nat /\ m \in Nat
  BY <1>1, <1>3, <1>4, TimesOrder
<1>6. nm >= size /\ nm < size + m /\ size = qm + r /\ im = jm + m /\ u = jm + k /\ u <= im
  BY <1>2, <1>3, <1>4
<1>7. (i < n => im + m <= nm) /\ (n < i => nm + m <= im) /\ (i = n => im = nm)
  BY <1>1, <1>5, TimesOrder
<1>8. (n < q => nm + m <= qm) /\ (q < n => qm + m <= nm) /\ (q = n => qm = nm)
  BY <1>1, <1>4, TimesOrder
<1>9. (i - 1 < q => jm + m <= qm) /\ (q < i - 1 => qm + m <= jm) /\ (i - 1 = q => jm = qm)
  BY <1>4, <1>5, TimesOrder
<1> HIDE DEF nm, qm, im, jm
<1>10. i < n => u <= size
  BY <1>1, <1>4, <1>5, <1>6, <1>7
<1>11. i > n => u > size
  BY <1>1, <1>4, <1>5, <1>6, <1>7
<1>12. i = n /\ r = 0 => u <= size
  BY <1>1, <1>4, <1>5, <1>6, <1>7, <1>8
<1>13. i = n /\ r # 0 => (u <= size <=> k <= r)
  <2> HAVE i = n /\ r # 0
  <2>1. im = nm /\ r > 0 /\ r < m
    BY <1>1, <1>4, <1>7
  <2>2. jm = qm
    <3>1. ~(i - 1 < q) /\ ~(q < i - 1)
      BY <1>1, <1>4, <1>5, <1>6, <1>9, <2>1
    <3> QED BY <1>4, <1>5, <1>9, <3>1
  <2> QED BY <1>1, <1>4, <1>5, <1>6, <2>2
<1>14. n \in Nat /\ r \in Nat
  BY <1>1, <1>4
<1> QED
  BY <1>10, <1>11, <1>12, <1>13, <1>14 DEF n, u, r

(* truncate to a smaller size.                                             *)

\* A step that frees a cluster beyond the kept ones, and one that zeroes the rest of the
\* last of these.
CutStep(step, p, kept, end) ==
    \E j \in (kept + 1)..Len(p) : ZeroStep(step, p[j], Overlay(Single(p[j], FREE), end))
TailStep(step, p, kept, size, end) ==
    /\ kept > 0 /\ size % ClusterSize # 0
    /\ step.block = FirstBlock(boot, p[kept])
    /\ step.zeros = {k \in Units : k > size % ClusterSize} /\ step.cells = <<>>
    /\ step.put = end /\ step.undo = <<>> /\ step.wipe = {} /\ step.intact = FALSE

FreeingPlan(t, p, kept, end) ==
    /\ Steps(t) /\ Len(t) = Len(p) - kept
    /\ \A i \in 1..Len(t) : CutStep(t[i], p, kept, end)
\* All writes of a truncation but the entry's.
CutPlan(t, p, kept, end, size) ==
    /\ Steps(t)
    /\ \A i \in DOMAIN t :
          CutStep(t[i], p, kept, end) \/ TailStep(t[i], p, kept, size, end)
    /\ kept < Len(p) => \E i \in DOMAIN t : CutStep(t[i], p, kept, end)
    /\ kept > 0 /\ size % ClusterSize # 0 =>
          \E i \in DOMAIN t : TailStep(t[i], p, kept, size, end)

\* The steps that free what a truncation cuts off.
LEMMA FreeingFacts ==
    ASSUME NEW p \in Seq(Cluster \ {Root}), NEW kept \in 0..Len(p), NEW end,
           NEW freed, freed = FreeChain(SubSeq(p, kept + 1, Len(p)))
    PROVE  FreeingPlan([i \in DOMAIN freed |-> [freed[i] EXCEPT !.put = Overlay(@, end)]],
                       p, kept, end)
<1> DEFINE rest == SubSeq(p, kept + 1, Len(p))
           l == Len(rest)
           F(step) == [step EXCEPT !.put = Overlay(@, end)]
           t == [i \in DOMAIN freed |-> F(freed[i])]
<1>1. Len(p) \in Nat /\ kept \in Nat /\ kept <= Len(p)
  OBVIOUS
<1>2. rest \in Seq(Cluster \ {Root}) /\ l = Len(p) - kept /\ l \in Nat
      /\ \A i \in 1..l : rest[i] = p[kept + i]
  <2>1. rest \in Seq(Cluster \ {Root})
    BY <1>1
  <2>2. l = Len(p) - kept
    BY <1>1
  <2>3. \A i \in 1..l : rest[i] = p[kept + i]
    BY <1>1, <2>2
  <2> QED BY <1>1, <2>1, <2>2, <2>3
<1>3. freed = FreeChain(rest)
  OBVIOUS
<1> HIDE DEF rest
<1> DEFINE back(i) == (l - i) + 1
<1>4. /\ DOMAIN freed = 1..l
      /\ \A i \in 1..l :
            /\ back(i) \in 1..l
            /\ freed[i] =
                  [ZeroCluster(boot, rest[back(i)]) EXCEPT !.put = Single(rest[back(i)], FREE)]
  <2>1. DOMAIN freed = 1..l
    BY <1>2, <1>3, FreeFacts
  <2>2. \A i \in 1..l : back(i) \in 1..l
    BY <1>2
  <2>3. \A i \in 1..l : freed[i] =
          [ZeroCluster(boot, rest[back(i)]) EXCEPT !.put = Single(rest[back(i)], FREE)]
    BY ONLY <1>2, <1>3, FreeFacts
  <2> QED BY <2>1, <2>2, <2>3
<1>5. ASSUME NEW i \in 1..l PROVE CutStep(F(freed[i]), p, kept, end)
  <2> DEFINE j == kept + back(i)
             c == rest[back(i)]
             one == [ZeroCluster(boot, c) EXCEPT !.put = Single(c, FREE)]
  <2>1. j \in (kept + 1)..Len(p) /\ c = p[j] /\ c # Root /\ freed[i] = one
    <3>1. back(i) \in 1..l /\ freed[i] = one
      BY <1>4
    <3>2. c = p[j] /\ c # Root
      BY <1>2, <3>1
    <3>3. j \in (kept + 1)..Len(p)
      <4> HIDE DEF back, l
      <4> QED BY <1>1, <1>2, <3>1
    <3> QED BY <3>1, <3>2, <3>3
  <2> HIDE DEF c
  <2>2. ZeroStep(one, c, Single(c, FREE))
    BY <2>1, ZeroClusterFacts
  <2>3. ZeroStep(F(one), c, Overlay(Single(c, FREE), end))
    BY <2>2 DEF ZeroStep, ZeroCluster, Step
  <2> HIDE DEF one, F
  <2>4. ZeroStep(F(freed[i]), p[j], Overlay(Single(p[j], FREE), end))
    BY <2>1, <2>3
  <2> HIDE DEF j
  <2> QED BY <2>1, <2>4 DEF CutStep
<1> HIDE DEF F
<1>6. t = [i \in 1..l |-> F(freed[i])]
  BY <1>4
<1> HIDE DEF t
<1>7. Steps(t) /\ Len(t) = l
  <2> DEFINE S == {F(freed[i]) : i \in 1..l}
  <2>1. \A i \in 1..l : F(freed[i]) \in S
    OBVIOUS
  <2> HIDE DEF S
  <2>2. t \in Seq(S)
    BY <1>2, <1>6, <2>1
  <2>3. Len(t) = l
    BY <1>2, <1>6
  <2> QED BY <2>2, <2>3, StepsOf
<1>8. \A i \in 1..l : CutStep(t[i], p, kept, end)
  BY <1>5, <1>6
<1> QED
  BY <1>2, <1>7, <1>8 DEF FreeingPlan, t, F

\* The writes before the entry's.
LEMMA ShrinkSteps ==
    ASSUME NEW p \in Seq(Cluster \ {Root}), NEW kept \in 0..Len(p), NEW end, NEW size,
           NEW freeing, FreeingPlan(freeing, p, kept, end),
           NEW tail, tail = IF kept = 0 THEN <<>> ELSE ZeroTail(boot, p[kept], size, end)
    PROVE  CutPlan(freeing \o tail, p, kept, end, size)
<1> DEFINE r == size % ClusterSize
           step == [Step(FirstBlock(boot, p[kept]), {k \in Units : k > r}, <<>>)
                       EXCEPT !.put = end]
           l == Len(freeing)
           t == freeing \o tail
<1>1. Len(p) \in Nat /\ kept \in Nat /\ kept <= Len(p)
  OBVIOUS
<1>2. kept > 0 /\ r # 0 => TailStep(step, p, kept, size, end)
  BY DEF TailStep, Step
<1>3. tail = IF kept > 0 /\ r # 0 THEN <<step>> ELSE <<>>
  BY <1>1 DEF ZeroTail
<1> HIDE DEF step
<1>4. /\ Steps(tail) /\ Len(tail) \in Nat
      /\ \A i \in 1..Len(tail) : TailStep(tail[i], p, kept, size, end)
      /\ kept > 0 /\ r # 0 => 1 \in 1..Len(tail)
  <2>1. CASE kept > 0 /\ r # 0
    <3>1. Steps(<<step>>) /\ Len(<<step>>) = 1 /\ <<step>>[1] = step
      BY OneStep
    <3>2. tail = <<step>>
      BY ONLY <1>3, <2>1
    <3> QED BY ONLY <1>2, <2>1, <3>1, <3>2
  <2>2. CASE ~(kept > 0 /\ r # 0)
    <3>1. Steps(<<>>) /\ Len(<<>>) = 0
      BY DEF Steps
    <3> QED BY <1>3, <2>2, <3>1
  <2> QED BY <2>1, <2>2
<1>5. /\ l \in Nat /\ l = Len(p) - kept /\ Steps(freeing)
      /\ \A i \in 1..Len(freeing) : CutStep(freeing[i], p, kept, end)
  BY <1>1 DEF FreeingPlan
<1>6. Steps(t)
  BY ONLY <1>4, <1>5, StepsJoin
<1>7. \A i \in 1..Len(freeing) : t[i] = freeing[i] /\ i \in DOMAIN t
  BY ONLY <1>4, <1>5, StepsJoin
<1>8. \A i \in 1..Len(tail) : t[Len(freeing) + i] = tail[i] /\ Len(freeing) + i \in DOMAIN t
  BY ONLY <1>4, <1>5, StepsJoin
<1>9. \A i \in DOMAIN t : i \in 1..Len(freeing)
         \/ (i - Len(freeing) \in 1..Len(tail) /\ Len(freeing) + (i - Len(freeing)) = i)
  BY ONLY <1>4, <1>5, StepsJoin
<1> HIDE DEF t
<1>10. ASSUME NEW i \in DOMAIN t
       PROVE  CutStep(t[i], p, kept, end) \/ TailStep(t[i], p, kept, size, end)
  <2>1. CASE i \in 1..Len(freeing)
    BY <1>5, <1>7, <2>1
  <2>2. CASE i - Len(freeing) \in 1..Len(tail) /\ Len(freeing) + (i - Len(freeing)) = i
    <3> DEFINE j == i - Len(freeing)
    <3> HIDE DEF j
    <3>1. j \in 1..Len(tail) /\ Len(freeing) + j = i
      BY <2>2 DEF j
    <3> QED BY <1>4, <1>8, <3>1
  <2> QED BY <1>9, <2>1, <2>2
<1>11. kept < Len(p) => \E i \in DOMAIN t : CutStep(t[i], p, kept, end)
  <2> HAVE kept < Len(p)
  <2>1. 1 \in 1..l
    BY <1>1, <1>5
  <2> QED BY <1>5, <1>7, <2>1
<1>12. kept > 0 /\ r # 0 => \E i \in DOMAIN t : TailStep(t[i], p, kept, size, end)
  BY <1>4, <1>8
<1> QED
  BY <1>6, <1>10, <1>11, <1>12 DEF CutPlan, t

\* What the end map says.
LEMMA EndFacts ==
    ASSUME NEW c
    PROVE  LET end == Single(c, EOC) IN DOMAIN end = {c} /\ end[c] = EOC
  BY SingleFacts

\* The steps of a truncation: all but the last cut clusters off or zero the rest of the last
\* one kept.
ShrinkPlan(t, b, p, kept, end, size, s, e) ==
    /\ Steps(t) /\ t # <<>>
    /\ \A i \in DOMAIN t :
          \/ CutStep(t[i], p, kept, end) \/ TailStep(t[i], p, kept, size, end)
          \/ i = Len(t)
    /\ kept < Len(p) => \E i \in DOMAIN t : CutStep(t[i], p, kept, end)
    /\ kept > 0 /\ size % ClusterSize # 0 =>
          \E i \in DOMAIN t : TailStep(t[i], p, kept, size, end)
    /\ t[Len(t)] = WriteEntry(b, s, e)

\* They are about the file alone and leave it the kept clusters.
ShrinkKeeps(t, f, s, C, p, kept) ==
    /\ \A i \in DOMAIN t : LocalStep(t[i], boot, f, s, C) /\ t[i].intact = FALSE
    /\ LET q == [i \in 1..kept |-> p[i]]
       IN  Links(FatAfterIn(f, t), q) /\ Len(q) = kept /\ q = SubSeq(p, 1, kept)

\* The steps of a truncation to a smaller size are local and leave the path cut.
LEMMA ShrinkLocal ==
    ASSUME NEW f \in [Cluster -> FatEntry], NEW p, Links(f, p), NEW kept \in 0..Len(p), NEW end,
           end = IF kept = 0 THEN <<>> ELSE Single(p[kept], EOC),
           NEW size, NEW s, NEW e \in Entry, NEW t, ShrinkPlan(t, boot, p, kept, end, size, s, e),
           NEW C, C = {p[i] : i \in 1..Len(p)}
    PROVE  ShrinkKeeps(t, f, s, C, p, kept)
<1> DEFINE last == WriteEntry(boot, s, e)
           g == FatAfterIn(f, t)
<1>1. /\ p \in Seq(Cluster \ {Root}) /\ Len(p) \in Nat
      /\ \A i, j \in 1..Len(p) : p[i] = p[j] => i = j
      /\ \A i \in 1..(Len(p) - 1) : f[p[i]] = p[i + 1]
      /\ Len(p) > 0 => f[p[Len(p)]] = EOC
  BY DEF Links
<1>2. C \in SUBSET (Cluster \ {Root}) /\ \A i \in 1..Len(p) : p[i] \in C
  BY <1>1
<1>3. kept \in Nat /\ kept <= Len(p) /\ (kept > 0 => kept \in 1..Len(p))
  BY <1>1
<1>4. DOMAIN end = IF kept = 0 THEN {} ELSE {p[kept]}
  BY EndFacts, EmptyMap
<1>5. kept # 0 => end[p[kept]] = EOC
  BY EndFacts
<1>6. /\ last.block = FirstBlock(boot, Root) /\ last.zeros = {} /\ last.cells = Single(s, e)
      /\ last.put = <<>> /\ last.undo = <<>> /\ last.wipe = {} /\ last.intact = FALSE
  BY WriteEntryFacts
<1> HIDE DEF last
<1>7. /\ Steps(t) /\ t # <<>> /\ t[Len(t)] = last
      /\ \A i \in DOMAIN t :
            CutStep(t[i], p, kept, end) \/ TailStep(t[i], p, kept, size, end) \/ i = Len(t)
  BY DEF ShrinkPlan, last
<1>9. FREE \in FatEntry /\ EOC \in FatEntry
  BY DEF FatEntry
\* What a step puts: kept clusters stay, but for the last of them, which becomes the end.
<1>10. ASSUME NEW i \in DOMAIN t
       PROVE  /\ DOMAIN t[i].put \subseteq C
              /\ \A z \in DOMAIN t[i].put : t[i].put[z] \in FatEntry
              /\ \A j \in 1..kept : p[j] \in DOMAIN t[i].put => j = kept /\ t[i].put[p[j]] = EOC
              /\ t[i].intact = FALSE /\ LocalStep(t[i], boot, f, s, C)
  <2>1. CASE CutStep(t[i], p, kept, end)
    <3>1. PICK j \in (kept + 1)..Len(p) :
             ZeroStep(t[i], p[j], Overlay(Single(p[j], FREE), end))
      BY <2>1 DEF CutStep
    <3>2. j \in 1..Len(p) /\ j > kept /\ j # kept
      BY <1>1, <1>3
    <3>3. /\ t[i].block = FirstBlock(boot, p[j]) /\ t[i].undo = <<>> /\ t[i].wipe = {}
          /\ t[i].intact = FALSE /\ DOMAIN t[i].put = {p[j]} \cup DOMAIN end
          /\ t[i].put[p[j]] = FREE
          /\ \A z \in DOMAIN end : z # p[j] => t[i].put[z] = end[z]
      <4> DEFINE P == Overlay(Single(p[j], FREE), end)
      <4>1. FreePut(P, p[j], end)
        BY FreeMap
      <4> HIDE DEF P
      <4>2. ZeroStep(t[i], p[j], P)
        BY <3>1 DEF P
      <4> QED BY <4>1, <4>2 DEF ZeroStep, FreePut
    <3>4. p[j] \in C /\ (kept # 0 => p[kept] \in C)
      BY <1>2, <1>3, <3>2
    <3>5. DOMAIN t[i].put \subseteq C
      BY <1>4, <3>3, <3>4
    <3>6. \A z \in DOMAIN t[i].put : t[i].put[z] \in FatEntry
      BY <1>4, <1>5, <1>9, <3>3
    <3>7. ASSUME NEW m \in 1..kept, p[m] \in DOMAIN t[i].put
          PROVE  m = kept /\ t[i].put[p[m]] = EOC
      <4>1. m \in 1..Len(p) /\ m # j /\ kept # 0 /\ kept \in 1..Len(p)
        BY <1>1, <1>3, <3>2
      <4>2. p[m] # p[j] /\ p[kept] # p[j]
        BY <1>1, <3>2, <4>1
      <4>3. p[m] = p[kept]
        BY <1>4, <3>3, <3>7, <4>1, <4>2
      <4>4. m = kept
        BY <1>1, <4>1, <4>3
      <4> QED BY <1>4, <1>5, <3>3, <4>1, <4>2, <4>4
    <3>8. t[i].wipe \subseteq C
      BY <3>3
    <3>9. LocalStep(t[i], boot, f, s, C)
      BY <1>2, <3>3, <3>4, <3>5, <3>6, <3>8, ClusterStep
    <3> QED BY <3>3, <3>5, <3>6, <3>7, <3>9
  <2>2. CASE TailStep(t[i], p, kept, size, end)
    <3>1. /\ kept # 0 /\ t[i].block = FirstBlock(boot, p[kept]) /\ t[i].put = end
          /\ t[i].undo = <<>> /\ t[i].wipe = {} /\ t[i].intact = FALSE
      BY <1>3, <2>2 DEF TailStep
    <3>2. p[kept] \in C /\ kept \in 1..Len(p)
      BY <1>2, <1>3, <3>1
    <3>3. DOMAIN t[i].put \subseteq C /\ \A z \in DOMAIN t[i].put : t[i].put[z] \in FatEntry
      BY <1>4, <1>5, <1>9, <3>1, <3>2
    <3>4. ASSUME NEW m \in 1..kept, p[m] \in DOMAIN t[i].put
          PROVE  m = kept /\ t[i].put[p[m]] = EOC
      <4>1. m \in 1..Len(p)
        BY <1>1, <1>3
      <4>2. p[m] = p[kept]
        BY <1>4, <3>1, <3>4
      <4> QED BY <1>1, <1>5, <3>1, <3>2, <4>1, <4>2
    <3>5. t[i].wipe \subseteq C
      BY <3>1
    <3>6. LocalStep(t[i], boot, f, s, C)
      BY <1>2, <3>1, <3>2, <3>3, <3>5, ClusterStep
    <3> QED BY <3>1, <3>3, <3>4, <3>6
  <2>3. CASE i = Len(t)
    <3>1. t[i] = last /\ DOMAIN t[i].put = {} /\ t[i].intact = FALSE
      BY <1>6, <1>7, <2>3, EmptyMap
    <3>2. LocalStep(last, boot, f, s, C)
      BY <1>6, EntryStep
    <3> QED BY <3>1, <3>2
  <2> QED BY <1>7, <2>1, <2>2, <2>3
<1>11. \A i \in 1..(kept - 1) : g[p[i]] = f[p[i]]
  <2> TAKE i \in 1..(kept - 1)
  <2>1. i \in 1..kept /\ i # kept /\ i \in 1..Len(p)
    BY <1>1, <1>3
  <2>2. p[i] \in Cluster
    BY <1>1, <2>1
  <2>3. PutsLeave(f, t, p[i], f[p[i]])
    BY <1>10, <2>1 DEF PutsLeave
  <2> QED BY <1>7, <2>2, <2>3, PutSame
<1>12. kept > 0 => g[p[kept]] = EOC
  <2> HAVE kept > 0
  <2>1. kept \in 1..kept /\ kept \in 1..Len(p) /\ kept # 0
    BY <1>3
  <2>2. p[kept] \in Cluster
    BY <1>1, <2>1
  <2>3. f[p[kept]] = EOC \/ \E i \in DOMAIN t : p[kept] \in DOMAIN t[i].put
    <3>1. CASE kept < Len(p)
      <4>1. PICK i \in DOMAIN t : CutStep(t[i], p, kept, end)
        BY <3>1 DEF ShrinkPlan
      <4>2. PICK j \in (kept + 1)..Len(p) :
             ZeroStep(t[i], p[j], Overlay(Single(p[j], FREE), end))
        BY <4>1 DEF CutStep
      <4> DEFINE P == Overlay(Single(p[j], FREE), end)
      <4>3. FreePut(P, p[j], end)
        BY FreeMap
      <4> HIDE DEF P
      <4>4. ZeroStep(t[i], p[j], P)
        BY <4>2 DEF P
      <4> QED BY <1>4, <2>1, <4>3, <4>4 DEF ZeroStep, FreePut
    <3>2. CASE kept = Len(p)
      BY <1>1, <2>1, <3>2
    <3> QED BY <1>1, <1>3, <3>1, <3>2
  <2>4. PutsLeave(f, t, p[kept], EOC)
    BY <1>10, <2>1, <2>3 DEF PutsLeave
  <2> QED BY <1>7, <2>2, <2>4, PutSame
<1> HIDE DEF g
<1>13. LET q == [i \in 1..kept |-> p[i]]
       IN  Links(g, q) /\ Len(q) = kept /\ q = SubSeq(p, 1, kept)
  <2>1. Links(f, p) /\ kept \in 0..Len(p)
    OBVIOUS
  <2> DEFINE q == [i \in 1..kept |-> p[i]]
  <2>2. Links(g, q)
    BY ONLY <1>11, <1>12, <2>1, PathCut
  <2>3. Len(q) = kept
    BY ONLY <1>11, <1>12, <2>1, PathCut
  <2>4. q = SubSeq(p, 1, kept)
    BY ONLY <1>11, <1>12, <2>1, PathCut
  <2> QED BY <2>2, <2>3, <2>4
<1> QED
  BY <1>10, <1>13 DEF ShrinkKeeps, g

\* What a unit of a file is after a truncation.
LEMMA ShrinkUnit ==
    ASSUME NEW d, Shape(d, boot), NEW f, NEW p, Links(f, p), NEW kept, kept <= Len(p),
           NEW size \in Nat, kept = Clusters(size), NEW end,
           NEW s, NEW e, NEW t, ShrinkPlan(t, boot, p, kept, end, size, s, e),
           NEW file \in Seq(Nat), size <= Len(file), NEW i \in 1..kept, NEW k \in Units,
           DataIn(d, boot)[p[i]][k] = At(file, (i - 1) * ClusterSize + k)
    PROVE  DataAfterIn(d, t, boot)[p[i]][k] =
              At(SubSeq(file, 1, size), (i - 1) * ClusterSize + k)
<1> DEFINE u == (i - 1) * ClusterSize + k
           r == size % ClusterSize
           w == At(SubSeq(file, 1, size), u)
           block == FirstBlock(boot, p[i])
<1>1. /\ p \in Seq(Cluster \ {Root}) /\ Len(p) \in Nat
      /\ \A h, j \in 1..Len(p) : p[h] = p[j] => h = j
  BY DEF Links
<1>2. kept \in Nat /\ i \in Nat \ {0} /\ i <= kept /\ i \in 1..Len(p)
  BY <1>1, ClustersFacts
<1>3. p[i] \in Cluster /\ p[i] # Root
  BY <1>1, <1>2
<1>4. /\ u \in Nat \ {0} /\ (i < kept => u <= size) /\ (i = kept /\ r = 0 => u <= size)
      /\ (i = kept /\ r # 0 => (u <= size <=> k <= r)) /\ r \in Nat
  BY <1>2, SizeFacts, UnitFacts
<1>5. w = IF u <= size THEN file[u] ELSE 0
  <2>1. Len(SubSeq(file, 1, size)) = size
        /\ \A j \in 1..size : SubSeq(file, 1, size)[j] = file[j]
    OBVIOUS
  <2> HIDE DEF u
  <2>2. u <= size => u \in 1..size
    BY <1>4
  <2> QED BY <2>1, <2>2 DEF At
<1>6. CellIn(d, block, k, 0) = At(file, u)
  BY <1>3 DEF DataIn
<1>7. /\ Root \in Cluster
      /\ \A c \in Cluster : \A z \in Cluster : FirstBlock(boot, z) = FirstBlock(boot, c) => z = c
  BY Places
<1>8. k \in Nat /\ k \in Units
  BY DEF Units
<1> HIDE DEF u, r, w, block
<1>9. /\ Steps(t) /\ t # <<>> /\ t[Len(t)] = WriteEntry(boot, s, e)
      /\ \A j \in DOMAIN t :
            CutStep(t[j], p, kept, end) \/ TailStep(t[j], p, kept, size, end) \/ j = Len(t)
  BY DEF ShrinkPlan
<1>10. ASSUME NEW j \in DOMAIN t, Touches(t[j], block, k)
       PROVE  /\ TailStep(t[j], p, kept, size, end) /\ i = kept /\ r # 0 /\ k > r
              /\ Written(t[j], k, 0) = 0
  <2>1. t[j].block = FirstBlock(boot, p[i]) /\ k \in DOMAIN t[j].cells \cup t[j].zeros
    BY <1>10 DEF Touches, block
  <2>2. ~CutStep(t[j], p, kept, end)
    <3> SUFFICES ASSUME NEW m \in (kept + 1)..Len(p), t[j].block = FirstBlock(boot, p[m])
                 PROVE  FALSE
      BY DEF CutStep, ZeroStep
    <3>1. m \in 1..Len(p) /\ m # i
      BY <1>1, <1>2
    <3>2. p[m] \in Cluster /\ p[m] # p[i]
      BY <1>1, <1>2, <3>1
    <3> QED BY <1>3, <1>7, <2>1, <3>2
  <2>3. j # Len(t)
    <3>1. t[Len(t)].block = FirstBlock(boot, Root)
      BY <1>9 DEF WriteEntry, Step
    <3> QED BY <1>3, <1>7, <2>1, <3>1
  <2>4. TailStep(t[j], p, kept, size, end)
    BY <1>9, <2>2, <2>3
  <2>5. p[kept] \in Cluster /\ kept \in 1..Len(p)
    BY <1>1, <1>2
  <2>6. p[kept] = p[i]
    BY <1>3, <1>7, <2>1, <2>4, <2>5 DEF TailStep
  <2>7. i = kept
    BY <1>1, <1>2, <2>5, <2>6
  <2>8. r # 0 /\ k \notin DOMAIN t[j].cells /\ k > r
    BY <2>1, <2>4, EmptyMap DEF TailStep, r
  <2> QED BY <2>4, <2>7, <2>8 DEF Written
<1>11. TouchesLeave(d, t, block, k, 0, w)
  <2>1. \A j \in DOMAIN t : Touches(t[j], block, k) => Written(t[j], k, 0) = w
    <3> SUFFICES ASSUME NEW j \in DOMAIN t, Touches(t[j], block, k)
                 PROVE  Written(t[j], k, 0) = w
      OBVIOUS
    <3>1. i = kept /\ r # 0 /\ k > r /\ Written(t[j], k, 0) = 0
      BY <1>10
    <3>2. ~(k <= r)
      BY <1>4, <1>8, <3>1
    <3> QED BY <1>4, <1>5, <3>1, <3>2
  <2>2. CASE u <= size
    <3>1. At(file, u) = w
      BY <1>4, <1>5, <2>2 DEF At
    <3> QED BY <1>6, <2>1, <3>1 DEF TouchesLeave
  <2>3. CASE ~(u <= size)
    <3>1. i = kept /\ r # 0 /\ ~(k <= r)
      BY <1>2, <1>4, <2>3
    <3>2. k > r /\ kept > 0
      BY <1>2, <1>4, <1>8, <3>1
    <3>3. PICK j \in DOMAIN t : TailStep(t[j], p, kept, size, end)
      BY <3>1, <3>2 DEF ShrinkPlan, r
    <3>4. Touches(t[j], block, k)
      BY <1>8, <3>1, <3>2, <3>3 DEF TailStep, Touches, block, r
    <3> QED BY <2>1, <3>4 DEF TouchesLeave
  <2> QED BY <2>2, <2>3
<1>12. CellAfterIn(d, t, block, k, 0) = w
  BY <1>9, <1>11, TouchedSame
<1> QED
  BY <1>3, <1>12 DEF DataAfterIn, block, w, u

\* A smaller size has no more clusters.
LEMMA SizeKept ==
    ASSUME NEW a \in Nat, NEW c \in Nat, a <= c
    PROVE  Clusters(a) \in Nat /\ Clusters(c) \in Nat /\ Clusters(a) <= Clusters(c)
<1> DEFINE m == ClusterSize
<1>1. m \in Nat \ {0}
  BY ClustersFacts
<1> HIDE DEF m
<1>2. a + m - 1 \in Nat /\ c + m - 1 \in Nat /\ a + m - 1 <= c + m - 1
  BY <1>1
<1>3. (a + m - 1) \div m <= (c + m - 1) \div m
  BY <1>1, <1>2, DivMonotone
<1>4. Clusters(a) <= Clusters(c)
  BY <1>3 DEF Clusters, CeilDiv, m
<1> QED
  BY <1>4, ClustersFacts

\* The writes that free the cut clusters, and mark the end of the chain that is left.
Freeing(freed, end) ==
    [i \in DOMAIN freed |-> [freed[i] EXCEPT !.put = Overlay(@, end)]]

\* A cut of the file of slot s, with entry h and path p, to a size.
Cut(f, h, p, size, kept, end, freed, freeing, tail, e, x, s, after, k) ==
    /\ p = Chain(f, h.start) /\ kept = Clusters(size)
    /\ end = (IF kept = 0 THEN <<>> ELSE Single(p[kept], EOC))
    /\ freed = FreeChain(SubSeq(p, kept + 1, Len(p))) /\ freeing = Freeing(freed, end)
    /\ tail = (IF kept = 0 THEN <<>> ELSE ZeroTail(boot, p[kept], size, end))
    /\ e = File(IF kept = 0 THEN FREE ELSE h.start, size)
    /\ after = [x EXCEPT ![s] = SubSeq(@, 1, size)]
    /\ k = [op |-> "Shrink", slot |-> s, fat |-> f, files |-> after]

\* truncate to a smaller size.
LEMMA ShrinkOpen ==
    ASSUME NEW d, NEW f, NEW y, NEW x, NEW n, NEW v, Idle(d, boot, f, y, x, n, v),
           NEW s \in n, s \in DOMAIN x,
           NEW h, NEW p, NEW size \in Nat, size < h.size, NEW kept, NEW end, NEW freed,
           NEW freeing, NEW tail, NEW e, NEW after, NEW k, h = EntriesIn(d, boot)[s],
           Cut(f, h, p, size, kept, end, freed, freeing, tail, e, x, s, after, k)
    PROVE  Open(d, boot, f, y, (freeing \o tail) \o <<WriteEntry(boot, s, e)>>,
                k, x, n, v \ {s})
<1> DEFINE entries == EntriesIn(d, boot)
           last == WriteEntry(boot, s, e)
           body == freeing \o tail
           t == body \o <<last>>
           C == {p[i] : i \in 1..Len(p)}
           file == x[s]
<1>a. p = Chain(f, h.start)
  BY DEF Cut
<1>b. kept = Clusters(size) /\ end = (IF kept = 0 THEN <<>> ELSE Single(p[kept], EOC))
  BY DEF Cut
<1>c. freed = FreeChain(SubSeq(p, kept + 1, Len(p)))
  BY DEF Cut
<1>d0. freeing = Freeing(freed, end)
  BY DEF Cut
<1>e0. tail = (IF kept = 0 THEN <<>> ELSE ZeroTail(boot, p[kept], size, end))
  BY DEF Cut
<1>f0. e = File(IF kept = 0 THEN FREE ELSE h.start, size)
  BY DEF Cut
<1>g. after = [x EXCEPT ![s] = SubSeq(@, 1, size)]
  BY DEF Cut
<1>k0. k = [op |-> "Shrink", slot |-> s, fat |-> f, files |-> after]
  BY DEF Cut
<1> USE <1>a, <1>b, <1>c, <1>d0, <1>e0, <1>f0, <1>g, <1>k0
<1>1. /\ s \in Slots /\ Chained(entries, f, x, s) /\ p = PathOf(entries, f, s)
      /\ \A D : (\A c \in D : c \in Cluster \ {Root} /\ (c \in ChainOf(entries, f, s) \/ f[c] = FREE))
            => Mine(entries, f, x, n \ {s}, D)
  BY KnownFacts DEF PathOf
<1>2. /\ f \in [Cluster -> FatEntry] /\ DOMAIN x \subseteq Slots /\ Shape(d, boot)
  BY DEF Idle
<1>3. /\ Links(f, p) /\ h.start = HeadOf(p) /\ Len(p) \in Nat /\ Len(p) = Clusters(h.size)
      /\ h.size = Len(file) /\ file \in Seq(Nat) /\ ChainOf(entries, f, s) = C
      /\ C \subseteq Cluster \ {Root}
  BY <1>1 DEF Chained
<1>4. p \in Seq(Cluster \ {Root})
  BY <1>3 DEF Links
<1>5. \A i \in 1..Len(p), j \in Units :
         DataIn(d, boot)[p[i]][j] = At(file, (i - 1) * ClusterSize + j)
  <2>1. UnitsHeld(DataIn(d, boot), PathOf(entries, f, s), x[s])
    BY KnownFacts
  <2> QED BY <1>1, <2>1 DEF UnitsHeld
<1>6. kept \in Nat /\ kept <= Len(p) /\ kept \in 0..Len(p) /\ size <= Len(file)
  BY <1>3, SizeKept
<1>7. Mine(entries, f, x, n \ {s}, C)
  BY <1>1, <1>3
<1>8. e \in Entry /\ Occupied(e) /\ e.size = size /\ e.start = IF kept = 0 THEN FREE ELSE h.start
  <2>1. h.start \in Cluster \cup {FREE}
    BY <1>1, <1>2, EntryStart DEF Shape
  <2> QED BY <2>1 DEF Entry, File, Occupied
<1> HIDE <1>a
<1> HIDE <1>f0
<1>9. FreeingPlan(freeing, p, kept, end)
  BY <1>4, <1>6, FreeingFacts DEF Freeing
<1> HIDE <1>d0
<1> HIDE <1>c
<1>10. CutPlan(body, p, kept, end, size) /\ Steps(body)
  <2>1. CutPlan(body, p, kept, end, size)
    BY <1>4, <1>6, <1>9, ShrinkSteps
  <2> QED BY <2>1 DEF CutPlan
<1> HIDE <1>e0
<1> HIDE DEF body
<1>11. /\ Steps(t) /\ t # <<>> /\ t[Len(t)] = last
       /\ \A i \in 1..Len(body) : t[i] = body[i] /\ i \in DOMAIN t
       /\ \A i \in DOMAIN t : i \in 1..Len(body) \/ i = Len(t)
  <2> HIDE DEF last
  <2>1. Steps(t) /\ t # <<>> /\ t[Len(t)] = last
    BY <1>10, LastStep
  <2>2. \A i \in 1..Len(body) : t[i] = body[i] /\ i \in DOMAIN t
    BY <1>10, LastStep
  <2>3. \A i \in DOMAIN t : i \in 1..Len(body) \/ i = Len(t)
    BY <1>10, LastStep
  <2> QED BY <2>1, <2>2, <2>3
<1>12. DOMAIN body = 1..Len(body)
  BY <1>10, StepsFacts
<1> HIDE DEF t
<1>13. ShrinkPlan(t, boot, p, kept, end, size, s, e)
  BY <1>10, <1>11, <1>12 DEF ShrinkPlan, CutPlan
<1>14. ShrinkKeeps(t, f, s, C, p, kept)
  <2>1. C = {p[i] : i \in 1..Len(p)}
    OBVIOUS
  <2> HIDE DEF C
  <2> QED BY <1>2, <1>3, <1>6, <1>8, <1>13, <2>1, ShrinkLocal
<1> DEFINE q == [i \in 1..kept |-> p[i]]
<1>15. OffSlot(x, after, s) /\ s \in DOMAIN after /\ after[s] = SubSeq(file, 1, size)
  BY <1>2 DEF OffSlot
<1>16. after[s] \in Seq(Nat) /\ Len(after[s]) = size
  BY <1>3, <1>6, <1>15
<1> HIDE <1>g
<1> HIDE DEF C, file
<1>17. RollbackSoundIn(f, t, k) /\ StepsIntactIn(t, d, boot, f, x, s)
  <2>1. k.op = "Shrink"
    OBVIOUS
  <2> QED BY <1>14, <2>1 DEF ShrinkKeeps, RollbackSoundIn, RolledBack, StepsIntactIn
<1>18. HeldAfter(d, boot, f, t, after, s, C)
  <2>1. t[Len(t)].block = FirstBlock(boot, Root) /\ t[Len(t)].cells = Single(s, e)
    BY <1>11 DEF WriteEntry, Step
  <2>2. EntriesAfterIn(d, t, boot)[s] = e
    BY <1>1, <1>11, <2>1, EntryLast
  <2>3. Links(FatAfterIn(f, t), q) /\ Len(q) = kept
    BY <1>14 DEF ShrinkKeeps
  <2>4. e.start = HeadOf(q)
    <3>1. kept > 0 => Len(p) # 0 /\ q[1] = p[1]
      BY <1>3, <1>6
    <3> QED BY <1>3, <1>6, <1>8, <2>3, <3>1 DEF HeadOf
  <2>5. \A i \in 1..Len(q) : q[i] = p[i] /\ i \in 1..kept /\ i \in 1..Len(p)
    BY <1>3, <1>6, <2>3
  <2> HIDE DEF q
  <2>6. \A i \in 1..Len(q), j \in Units :
           DataAfterIn(d, t, boot)[q[i]][j] = At(after[s], (i - 1) * ClusterSize + j)
    <3> TAKE i \in 1..Len(q), j \in Units
    <3>1. i \in 1..kept /\ i \in 1..Len(p) /\ q[i] = p[i]
      BY <2>5
    <3>2. DataIn(d, boot)[p[i]][j] = At(file, (i - 1) * ClusterSize + j)
      BY <1>5, <3>1 DEF file
    <3>3. file \in Seq(Nat) /\ size <= Len(file)
      BY <1>3, <1>6 DEF file
    <3>4. DataAfterIn(d, t, boot)[p[i]][j] =
              At(SubSeq(file, 1, size), (i - 1) * ClusterSize + j)
      <4>1. size \in Nat /\ j \in Units /\ kept = Clusters(size)
        OBVIOUS
      <4> QED BY ONLY <1>2, <1>3, <1>6, <1>13, <3>1, <3>2, <3>3, <4>1, ShrinkUnit
    <3> QED BY <1>15, <3>1, <3>4
  <2>7. \A i \in 1..Len(q) : q[i] \in C
    BY <2>5 DEF C
  <2>8. \A i \in DOMAIN t : \A c \in DOMAIN t[i].put : t[i].put[c] \in FatEntry
    BY <1>14 DEF ShrinkKeeps, LocalStep
  <2>9. e.size = Len(after[s]) /\ Len(q) = Clusters(e.size)
    BY <1>8, <1>16, <2>3
  <2> QED BY <1>2, <1>8, <1>11, <1>15, <1>16, <2>2, <2>3, <2>4, <2>6, <2>7, <2>8, <2>9, HeldByPath
<1>19. SameClusters(d, boot, f, t, x, after, s)
  <2>1. C \subseteq ChainOf(entries, f, s)
    BY <1>3 DEF C
  <2> QED BY <1>2, <1>18, <2>1, SameByHeld
<1>20. "Shrink" \notin {"None", "Format", "Sync"}
  OBVIOUS
<1>21. Open(d, boot, f, y, t, k, x, n, v \ {s})
  <2>1. \A i \in DOMAIN t : LocalStep(t[i], boot, f, s, C)
    BY <1>14 DEF ShrinkKeeps
  <2> QED BY <1>1, <1>7, <1>11, <1>15, <1>17, <1>18, <1>19, <1>20, <2>1, BeginOpen DEF C
<1> QED
  BY <1>21 DEF t, last, body

(* Writes, and truncation to a larger size.                                *)

\* The file's path p goes on over the clusters of `new`, in the order asc, to the path q of
\* the table that ensure_fcb_chain_capacity leaves.
Growth(f, p, new, asc, table, q) ==
    /\ f \in [Cluster -> FatEntry] /\ table \in [Cluster -> FatEntry]
    /\ Links(f, p) /\ Links(table, q)
    /\ new \subseteq Cluster \ {Root} /\ \A c \in new : f[c] = FREE
    /\ \A i \in 1..Len(p) : p[i] \notin new
    /\ asc \in Seq(new) /\ Len(asc) \in Nat /\ DOMAIN asc = 1..Len(asc)
    /\ new = {} <=> Len(asc) = 0
    /\ \A c \in new : \E i \in 1..Len(asc) : asc[i] = c
    /\ Len(p) \in Nat /\ Len(q) = Len(p) + Len(asc)
    /\ \A i \in 1..Len(p) : q[i] = p[i]
    /\ \A i \in 1..Len(asc) : q[Len(p) + i] = asc[i]
    /\ \A c \in Cluster : c \notin new /\ ~(Len(p) > 0 /\ c = p[Len(p)]) => table[c] = f[c]
    /\ new = {} => table = f

\* ensure_fcb_chain_capacity appends the lowest free clusters to a path, and cutting
\* the chain back to its old length restores the table.
LEMMA GrowthFacts ==
    ASSUME NEW f \in [Cluster -> FatEntry], f[Root] # FREE, NEW p, Links(f, p),
           NEW need \in Nat, Fits(f, HeadOf(p), need),
           NEW new, new = Lowest(Missing(f, HeadOf(p), need), FreeClusters(f))
    PROVE  /\ Growth(f, p, new, Ascending(new), WithCapacity(f, HeadOf(p), need),
                     p \o Ascending(new))
           /\ Len(Ascending(new)) = IF need > Len(p) THEN need - Len(p) ELSE 0
           /\ HeadWithCapacity(f, HeadOf(p), need) = HeadOf(p \o Ascending(new))
           /\ Trim(WithCapacity(f, HeadOf(p), need), HeadWithCapacity(f, HeadOf(p), need),
                   Len(p)) = f
<1> DEFINE k == Len(p)
           m == Missing(f, HeadOf(p), need)
           asc == Ascending(new)
           table == WithCapacity(f, HeadOf(p), need)
           head == HeadWithCapacity(f, HeadOf(p), need)
           q == p \o asc
<1>1. /\ k \in Nat /\ m \in Nat /\ m = IF need > k THEN need - k ELSE 0
      /\ new \subseteq Cluster \ {Root} /\ \A x \in new : f[x] = FREE
      /\ \A i \in 1..k : p[i] \notin new
      /\ asc \in Seq(new) /\ Len(asc) = m /\ DOMAIN asc = 1..m
      /\ \A x \in new : \E i \in 1..m : asc[i] = x
      /\ new = {} <=> m = 0
  BY SMTT(20), GrowFacts
<1>2. /\ table \in [Cluster -> FatEntry] /\ Links(table, q) /\ head = HeadOf(q)
      /\ \A x \in Cluster : x \notin new /\ ~(k > 0 /\ x = p[k]) => table[x] = f[x]
      /\ new = {} => table = f
      /\ Trim(table, head, k) = f
  BY GrowTable
<1>3. /\ Len(q) = k + Len(asc) /\ \A i \in 1..k : q[i] = p[i]
      /\ \A i \in 1..Len(asc) : q[k + i] = asc[i]
  <2> HIDE DEF asc
  <2>1. p \in Seq(Cluster)
    BY DEF Links
  <2>2. asc \in Seq(Cluster)
    BY <1>1
  <2> QED BY <2>1, <2>2
<1> HIDE DEF table, head, q, asc, m
<1>4. Growth(f, p, new, asc, table, q)
  BY <1>1, <1>2, <1>3 DEF Growth
<1> QED
  BY <1>1, <1>2, <1>4 DEF table, head, q, asc

\* The write that marks and zeroes the i-th new cluster.
AllocStep(step, asc, i) ==
    /\ step.block = FirstBlock(boot, asc[i]) /\ step.zeros = Units /\ step.cells = <<>>
    /\ step.put = Single(asc[i], EOC)
    /\ step.undo = [c \in ToSet(SubSeq(asc, 1, i)) |-> FREE]
    /\ step.wipe = {} /\ step.intact = TRUE
\* The units of the c-th cluster that units from..upto-1 of the file are.
InChunk(from, upto, c) == {k \in Units : (c - 1) * ClusterSize + k \in (from + 1)..upto}
\* A step has these fields and no other.
IsStep(step) ==
    step = [block |-> step.block, zeros |-> step.zeros, cells |-> step.cells,
            put |-> step.put, undo |-> step.undo, wipe |-> step.wipe, intact |-> step.intact]
\* The write of these units of the c-th cluster.
ChunkStep(step, f, new, table, q, from, upto, fill, c) ==
    /\ step.block = FirstBlock(boot, q[c])
    /\ step.zeros = (IF fill = 0 THEN InChunk(from, upto, c) ELSE {})
    /\ step.cells = (IF fill = 0 THEN <<>> ELSE [k \in InChunk(from, upto, c) |-> fill])
    /\ step.put = (IF new = {} THEN <<>> ELSE table)
    /\ step.undo = f /\ step.wipe = new
    /\ fill = 0 => step.intact = TRUE
    /\ IsStep(step)
FillPlan(t, f, new, asc, table, q, from, upto, fill, first, need) ==
    /\ Steps(t) /\ Len(t) = Len(asc) + (need - first)
    /\ \A i \in 1..Len(asc) : AllocStep(t[i], asc, i)
    /\ \A i \in 1..(need - first) :
          /\ ChunkStep(t[Len(asc) + i], f, new, table, q, from, upto, fill, first + i)
          /\ i # 1 /\ fill # 0 => t[Len(asc) + i].intact = FALSE

\* The steps of allocate_clusters.
LEMMA AllocFacts ==
    ASSUME NEW new \in SUBSET (Cluster \ {Root}), NEW asc \in Seq(new)
    PROVE  LET t == Allocate(asc)
           IN  Steps(t) /\ Len(t) = Len(asc) /\ \A i \in 1..Len(asc) : AllocStep(t[i], asc, i)
<1> DEFINE l == Len(asc)
           F(i) == [ZeroCluster(boot, asc[i]) EXCEPT
                       !.put = Single(asc[i], EOC),
                       !.undo = [c \in ToSet(SubSeq(asc, 1, i)) |-> FREE],
                       !.intact = TRUE]
           t == Allocate(asc)
           S == {F(i) : i \in 1..l}
<1>1. l \in Nat /\ DOMAIN asc = 1..l
  OBVIOUS
<1>2. t = [i \in 1..l |-> F(i)]
  BY <1>1 DEF Allocate
<1>3. \A i \in 1..l : AllocStep(F(i), asc, i)
  <2> TAKE i \in 1..l
  <2>1. asc[i] # Root
    BY <1>1
  <2> QED BY <2>1 DEF AllocStep, ZeroCluster, Step
<1>4. \A i \in 1..l : F(i) \in S
  OBVIOUS
<1> HIDE DEF F, S, t
<1>5. t \in Seq(S)
  BY <1>1, <1>2, <1>4
<1>6. Len(t) = l
  BY <1>1, <1>2
<1>7. \A i \in 1..l : AllocStep(t[i], asc, i)
  BY <1>2, <1>3
<1> QED
  BY <1>5, <1>6, <1>7, StepsOf DEF t

StepOf(block, zeros, cells, put, undo, wipe, intact) ==
    [Step(block, zeros, cells) EXCEPT
        !.put = put, !.undo = undo, !.wipe = wipe, !.intact = intact]

\* A step by its fields.
LEMMA StepWith ==
    ASSUME NEW block, NEW zeros, NEW cells, NEW put, NEW undo, NEW wipe, NEW intact
    PROVE  StepOf(block, zeros, cells, put, undo, wipe, intact)
           = [block |-> block, zeros |-> zeros, cells |-> cells, put |-> put, undo |-> undo,
              wipe |-> wipe, intact |-> intact]
<1> DEFINE a == Step(block, zeros, cells)
           r == [block |-> block, zeros |-> zeros, cells |-> cells, put |-> put, undo |-> undo,
                 wipe |-> wipe, intact |-> intact]
           w == [a EXCEPT !.put = put, !.undo = undo, !.wipe = wipe, !.intact = intact]
           N == {"block", "zeros", "cells", "put", "undo", "wipe", "intact"}
<1>1. DOMAIN a = N
  BY DEF Step
<1>2. DOMAIN r = N
  OBVIOUS
<1>3. DOMAIN w = N
  BY <1>1
<1>4. r = [n \in N |-> r[n]]
  BY <1>2
<1>5. w = [n \in N |-> w[n]]
  BY <1>3
<1>6. /\ w.block = block /\ w.zeros = zeros /\ w.cells = cells /\ w.put = put
      /\ w.undo = undo /\ w.wipe = wipe /\ w.intact = intact
  BY DEF Step
<1>7. /\ r.block = block /\ r.zeros = zeros /\ r.cells = cells /\ r.put = put
      /\ r.undo = undo /\ r.wipe = wipe /\ r.intact = intact
  OBVIOUS
<1> HIDE DEF w, r
<1>8. \A n \in N : w[n] = r[n]
  BY <1>6, <1>7
<1> HIDE DEF N
<1>9. w = r
  BY <1>4, <1>5, <1>8
<1> QED
  BY <1>9 DEF w, r, StepOf

\* The steps that allocate and fill.
LEMMA FillFacts ==
    ASSUME NEW e, NEW from \in Nat, NEW upto \in Nat, NEW fill,
           NEW first \in Nat, first = from \div ClusterSize,
           NEW need \in Nat, need = Clusters(upto), first <= need,
           NEW f, f = fat, NEW p, NEW new, NEW asc, NEW table, NEW q, NEW head,
           new = Lowest(Missing(f, e.start, need), FreeClusters(f)),
           asc = Ascending(new), table = WithCapacity(f, e.start, need),
           head = HeadWithCapacity(f, e.start, need), Chain(table, head) = q,
           Growth(f, p, new, asc, table, q),
           Trim(table, head, Clusters(e.size)) = f
    PROVE  FillPlan(GrowAndFill(e, from, upto, fill), f, new, asc, table, q,
                    from, upto, fill, first, need)
<1> DEFINE In(i) == {k \in Units :
                       (first + i - 1) * ClusterSize + k - 1 \in from..(upto - 1)}
           Chunk(i) ==
               [Step(FirstBlock(boot, q[first + i]),
                     IF fill = 0 THEN In(i) ELSE {},
                     IF fill = 0 THEN <<>> ELSE [k \in In(i) |-> fill]) EXCEPT
                   !.put = IF new = {} THEN <<>> ELSE table,
                   !.undo = f,
                   !.wipe = new,
                   !.intact = (fill = 0 \/ i = 1)]
           c == need - first
           body == [i \in 1..c |-> Chunk(i)]
           t == Allocate(asc) \o body
<1>1. GrowAndFill(e, from, upto, fill) = t
  BY DEF GrowAndFill
<1>2. c \in Nat
  OBVIOUS
<1>3. ASSUME NEW i \in 1..c PROVE In(i) = InChunk(from, upto, first + i)
  <2> DEFINE z == (first + i - 1) * ClusterSize
  <2>1. z \in Nat
    <3>1. first + i - 1 \in Nat /\ ClusterSize \in Nat
      BY ClustersFacts
    <3> QED BY <3>1, TimesOrder
  <2>2. z = ((first + i) - 1) * ClusterSize
    OBVIOUS
  <2>3. In(i) = {k \in Units : z + k - 1 \in from..(upto - 1)}
        /\ InChunk(from, upto, first + i) = {k \in Units : z + k \in (from + 1)..upto}
    BY <2>2 DEF InChunk
  <2> HIDE DEF z, In
  <2>4. \A k \in Units : z + k - 1 \in from..(upto - 1) <=> z + k \in (from + 1)..upto
    <3> TAKE k \in Units
    <3>1. k \in Nat \ {0}
      BY ClustersFacts DEF Units
    <3> QED BY <2>1, <3>1
  <2> QED BY <2>3, <2>4
<1>4. ASSUME NEW i \in 1..c
      PROVE  /\ ChunkStep(Chunk(i), f, new, table, q, from, upto, fill, first + i)
             /\ i # 1 /\ fill # 0 => Chunk(i).intact = FALSE
  <2>1. In(i) = InChunk(from, upto, first + i)
    BY <1>3
  <2> HIDE DEF In
  <2> DEFINE at == FirstBlock(boot, q[first + i])
             zeros == IF fill = 0 THEN In(i) ELSE {}
             cells == IF fill = 0 THEN <<>> ELSE [k \in In(i) |-> fill]
             put == IF new = {} THEN <<>> ELSE table
             intact == fill = 0 \/ i = 1
             r == [block |-> at, zeros |-> zeros, cells |-> cells, put |-> put,
                   undo |-> f, wipe |-> new, intact |-> intact]
  <2>2. Chunk(i) = StepOf(at, zeros, cells, put, f, new, intact)
    BY DEF StepOf
  <2> HIDE DEF Chunk
  <2>3. IsStep(r)
    BY DEF IsStep
  <2> HIDE DEF at, zeros, cells, put, intact
  <2>5. Chunk(i) = r
    BY <2>2, StepWith
  <2> USE DEF at, zeros, cells, put, intact
  <2>4. /\ ChunkStep(r, f, new, table, q, from, upto, fill, first + i)
        /\ i # 1 /\ fill # 0 => r.intact = FALSE
    BY <2>1, <2>3 DEF ChunkStep
  <2> QED BY <2>4, <2>5
<1> HIDE DEF Chunk
<1>5. Steps(body) /\ Len(body) = c
  <2> DEFINE S == {Chunk(i) : i \in 1..c}
  <2>1. \A i \in 1..c : Chunk(i) \in S
    OBVIOUS
  <2> HIDE DEF S
  <2>2. body \in Seq(S)
    BY <1>2, <2>1
  <2>3. Len(body) = c
    BY <1>2
  <2> QED BY <2>2, <2>3, StepsOf
<1>6. \A i \in 1..c : body[i] = Chunk(i)
  OBVIOUS
<1> HIDE DEF body
<1>7. /\ Steps(Allocate(asc)) /\ Len(Allocate(asc)) = Len(asc)
      /\ \A i \in 1..Len(asc) : AllocStep(Allocate(asc)[i], asc, i)
  <2>1. new \in SUBSET (Cluster \ {Root}) /\ asc \in Seq(new)
    BY DEF Growth
  <2> QED BY <2>1, AllocFacts
<1> DEFINE a == Allocate(asc)
<1> HIDE DEF a
<1>8. Steps(a) /\ Len(a) = Len(asc) /\ \A i \in 1..Len(asc) : AllocStep(a[i], asc, i)
  BY <1>7 DEF a
<1>9. Steps(a \o body) /\ Len(a \o body) = Len(a) + Len(body)
  <2>1. Steps(a) /\ Steps(body)
    BY <1>5, <1>8
  <2>2. Steps(a \o body)
    BY ONLY <2>1, StepsJoin
  <2>3. Len(a \o body) = Len(a) + Len(body)
    BY ONLY <2>1, StepsJoin
  <2> QED BY <2>2, <2>3
<1>10. \A i \in 1..Len(a) : (a \o body)[i] = a[i]
  <2>1. Steps(a) /\ Steps(body)
    BY <1>5, <1>8
  <2> QED BY ONLY <2>1, StepsJoin
<1>11. \A i \in 1..Len(body) : (a \o body)[Len(a) + i] = body[i]
  <2>1. Steps(a) /\ Steps(body)
    BY <1>5, <1>8
  <2> QED BY ONLY <2>1, StepsJoin
<1>12. FillPlan(a \o body, f, new, asc, table, q, from, upto, fill, first, need)
  <2> DEFINE w == a \o body
  <2>1. Steps(w) /\ Len(w) = Len(asc) + c
    BY <1>5, <1>8, <1>9
  <2>2. \A i \in 1..Len(asc) : AllocStep(w[i], asc, i)
    BY <1>8, <1>10
  <2>3. \A i \in 1..c : w[Len(asc) + i] = Chunk(i)
    BY <1>5, <1>6, <1>8, <1>11
  <2> HIDE DEF w
  <2> QED BY <1>4, <2>1, <2>2, <2>3 DEF FillPlan, w
<1> QED
  BY <1>1, <1>12 DEF a

\* The write of the entry.
EntryPut(step, f, new, table, s, e, fill, op) ==
    /\ step.block = FirstBlock(boot, Root) /\ step.zeros = {} /\ step.cells = Single(s, e)
    /\ \/ /\ op = "Write" /\ step.put = <<>> /\ step.undo = <<>> /\ step.wipe = {}
          /\ step.intact = FALSE
       \/ /\ op = "Grow" /\ fill = 0 /\ step.put = (IF new = {} THEN <<>> ELSE table)
          /\ step.undo = f /\ step.wipe = new /\ step.intact = TRUE
GrowPlan(t, f, new, asc, table, q, from, upto, fill, first, need, s, e, op) ==
    /\ Steps(t) /\ t # <<>> /\ Len(t) = Len(asc) + (need - first) + 1
    /\ \A i \in 1..Len(asc) : AllocStep(t[i], asc, i)
    /\ \A i \in 1..(need - first) :
          /\ ChunkStep(t[Len(asc) + i], f, new, table, q, from, upto, fill, first + i)
          /\ i # 1 /\ fill # 0 => t[Len(asc) + i].intact = FALSE
    /\ EntryPut(t[Len(t)], f, new, table, s, e, fill, op)

\* With the write of the entry after them.
LEMMA GrowLast ==
    ASSUME NEW f, NEW new, NEW asc, Len(asc) \in Nat, NEW table, NEW q, NEW from, NEW upto, NEW fill,
           NEW first \in Nat, NEW need \in Nat, first <= need, NEW s, NEW e, NEW op, NEW u,
           FillPlan(u, f, new, asc, table, q, from, upto, fill, first, need),
           NEW step, EntryPut(step, f, new, table, s, e, fill, op)
    PROVE  GrowPlan(u \o <<step>>, f, new, asc, table, q, from, upto, fill, first, need, s, e, op)
<1> DEFINE t == u \o <<step>>
           m == Len(asc)
           c == need - first
<1>1. m \in Nat /\ c \in Nat
  OBVIOUS
<1>2. /\ Steps(u) /\ Len(u) = m + c
      /\ \A i \in 1..m : AllocStep(u[i], asc, i)
      /\ \A i \in 1..c :
            /\ ChunkStep(u[m + i], f, new, table, q, from, upto, fill, first + i)
            /\ i # 1 /\ fill # 0 => u[m + i].intact = FALSE
  BY DEF FillPlan
<1>3. Steps(t) /\ t # <<>> /\ Len(t) = Len(u) + 1 /\ t[Len(t)] = step
  BY <1>2, LastStep
<1>4. \A i \in 1..Len(u) : t[i] = u[i]
  BY <1>2, LastStep
<1> HIDE DEF t
<1>5. \A i \in 1..m : i \in 1..Len(u)
  BY <1>1, <1>2
<1>6. \A i \in 1..c : m + i \in 1..Len(u)
  BY <1>1, <1>2
<1>7. \A i \in 1..m : t[i] = u[i]
  BY <1>4, <1>5
<1>8. \A i \in 1..c : t[m + i] = u[m + i]
  BY <1>4, <1>6
<1>9. Len(t) = m + c + 1
  BY <1>2, <1>3
<1>10. /\ \A i \in 1..m : AllocStep(t[i], asc, i)
       /\ \A i \in 1..c :
            /\ ChunkStep(t[m + i], f, new, table, q, from, upto, fill, first + i)
            /\ i # 1 /\ fill # 0 => t[m + i].intact = FALSE
  BY <1>2, <1>7, <1>8
<1> QED
  BY <1>3, <1>9, <1>10 DEF GrowPlan, t

\* Each step is one of three kinds.
GrowKind(t, i, f, new, asc, table, q, from, upto, fill, first, need, s, e, op) ==
    \/ i \in 1..Len(asc) /\ i < Len(t) /\ AllocStep(t[i], asc, i)
    \/ /\ i > Len(asc) /\ i < Len(t)
       /\ \E j \in 1..(need - first) :
             /\ i = Len(asc) + j
             /\ ChunkStep(t[i], f, new, table, q, from, upto, fill, first + j)
             /\ j # 1 /\ fill # 0 => t[i].intact = FALSE
    \/ i = Len(t) /\ i > Len(asc) /\ EntryPut(t[i], f, new, table, s, e, fill, op)

AllKinds(t, f, new, asc, table, q, from, upto, fill, first, need, s, e, op) ==
    /\ Len(t) \in Nat /\ DOMAIN t = 1..Len(t)
    /\ \A i \in DOMAIN t :
          GrowKind(t, i, f, new, asc, table, q, from, upto, fill, first, need, s, e, op)
    /\ \A i \in 1..Len(asc) : i \in DOMAIN t
    /\ \A i \in 1..(need - first) : Len(asc) + i \in DOMAIN t

\* Each step allocates a cluster, fills one, or writes the entry.
LEMMA GrowKinds ==
    ASSUME NEW f, NEW new, NEW asc, Len(asc) \in Nat, NEW table, NEW q, NEW from, NEW upto, NEW fill,
           NEW first \in Nat, NEW need \in Nat, first <= need, NEW s, NEW e, NEW op, NEW t,
           GrowPlan(t, f, new, asc, table, q, from, upto, fill, first, need, s, e, op)
    PROVE  AllKinds(t, f, new, asc, table, q, from, upto, fill, first, need, s, e, op)
<1> DEFINE m == Len(asc)
           c == need - first
           l == Len(t)
<1>1. m \in Nat /\ c \in Nat
  OBVIOUS
<1>2. /\ Steps(t) /\ l = m + c + 1
      /\ \A i \in 1..m : AllocStep(t[i], asc, i)
      /\ \A i \in 1..c :
            /\ ChunkStep(t[m + i], f, new, table, q, from, upto, fill, first + i)
            /\ i # 1 /\ fill # 0 => t[m + i].intact = FALSE
      /\ EntryPut(t[l], f, new, table, s, e, fill, op)
  BY DEF GrowPlan
<1>3. l \in Nat /\ DOMAIN t = 1..l
  BY <1>2, StepsFacts
<1> HIDE DEF m, c, l
<1>4. ASSUME NEW i \in 1..l
      PROVE  GrowKind(t, i, f, new, asc, table, q, from, upto, fill, first, need, s, e, op)
  <2>1. CASE i <= m
    <3>1. i \in 1..m /\ i < l
      BY <1>1, <1>2, <2>1
    <3> QED BY <1>2, <3>1 DEF GrowKind, m, l
  <2>2. CASE i > m /\ i < l
    <3> DEFINE j == i - m
    <3>1. j \in 1..c /\ i = m + j
      BY <1>1, <1>2, <2>2
    <3> HIDE DEF j
    <3> QED BY <1>2, <2>2, <3>1 DEF GrowKind, m, l, c
  <2>3. CASE i = l
    <3>1. i > m
      BY <1>1, <1>2, <2>3
    <3> QED BY <1>2, <2>3, <3>1 DEF GrowKind, m, l
  <2> QED BY <1>1, <1>3, <2>1, <2>2, <2>3
<1>5. /\ \A i \in 1..m : i \in 1..l
      /\ \A i \in 1..c : m + i \in 1..l
  BY <1>1, <1>2
<1> QED
  BY <1>3, <1>4, <1>5 DEF AllKinds, m, c, l

\* Each of them is local to the slot.
LEMMA GrowLocal ==
    ASSUME NEW f, NEW p, NEW new, NEW asc, NEW table, NEW q,
           Growth(f, p, new, asc, table, q), NEW from, NEW upto, NEW fill,
           NEW first \in Nat, NEW need \in Nat, first <= need, need <= Len(q),
           NEW s, NEW e \in Entry, NEW op, NEW t, NEW i \in DOMAIN t,
           GrowKind(t, i, f, new, asc, table, q, from, upto, fill, first, need, s, e, op),
           NEW C \in SUBSET (Cluster \ {Root}), new \subseteq C, \A j \in 1..Len(p) : p[j] \in C
    PROVE  LocalStep(t[i], boot, f, s, C)
<1>1. /\ f \in [Cluster -> FatEntry] /\ table \in [Cluster -> FatEntry]
      /\ asc \in Seq(new) /\ Len(asc) \in Nat /\ DOMAIN asc = 1..Len(asc)
      /\ Len(p) \in Nat /\ Len(q) = Len(p) + Len(asc)
  BY DEF Growth
<1>2. \A j \in 1..Len(asc) : asc[j] \in new /\ asc[j] \in C
  BY <1>1
<1>3. \A j \in 1..Len(q) : q[j] \in C
  <2> TAKE j \in 1..Len(q)
  <2>1. CASE j <= Len(p)
    <3>1. j \in 1..Len(p)
      BY <1>1, <2>1
    <3>2. q[j] = p[j]
      BY <3>1 DEF Growth
    <3> QED BY <3>1, <3>2
  <2>2. CASE j > Len(p)
    <3> DEFINE z == j - Len(p)
    <3>1. z \in 1..Len(asc) /\ Len(p) + z = j
      BY <1>1, <2>2
    <3> HIDE DEF z
    <3> QED BY <1>2, <3>1 DEF Growth
  <2> QED BY <1>1, <2>1, <2>2
<1>4. DOMAIN f = Cluster /\ \A c \in DOMAIN f : f[c] \in FatEntry
  BY <1>1
<1>5. DOMAIN table = Cluster /\ \A c \in DOMAIN table : table[c] \in FatEntry
  BY <1>1
<1>6. \A c \in Cluster : c \in C \/ table[c] = f[c]
  <2> TAKE c \in Cluster
  <2>1. Len(p) > 0 /\ c = p[Len(p)] => c \in C
    BY <1>1
  <2> QED BY <2>1 DEF Growth
<1>7. DOMAIN <<>> = {}
  BY EmptyMap
<1>8. CASE i \in 1..Len(asc) /\ AllocStep(t[i], asc, i)
  <2>1. /\ t[i].block = FirstBlock(boot, asc[i]) /\ t[i].put = Single(asc[i], EOC)
        /\ t[i].undo = [c \in ToSet(SubSeq(asc, 1, i)) |-> FREE] /\ t[i].wipe = {}
    BY <1>8 DEF AllocStep
  <2>2. ToSet(SubSeq(asc, 1, i)) \subseteq C
    <3>1. SubSeq(asc, 1, i) \in Seq(new)
      BY <1>1, <1>8
    <3> QED BY <3>1 DEF ToSet
  <2>3. DOMAIN t[i].undo \subseteq C /\ \A c \in DOMAIN t[i].undo : t[i].undo[c] = FREE
    BY <2>1, <2>2
  <2>4. DOMAIN t[i].put = {asc[i]} /\ t[i].put[asc[i]] = EOC
    <3>1. DOMAIN Single(asc[i], EOC) = {asc[i]} /\ Single(asc[i], EOC)[asc[i]] = EOC
      BY SingleFacts
    <3> QED BY <2>1, <3>1
  <2>5. asc[i] \in C
    BY <1>2, <1>8
  <2>6. \A z \in {t[i].put, t[i].undo} :
           /\ DOMAIN z \subseteq Cluster
           /\ \A c \in DOMAIN z : z[c] \in FatEntry /\ (c \in C \/ z[c] = f[c])
    BY <2>3, <2>4, <2>5 DEF FatEntry
  <2>7. t[i].wipe \subseteq C
    BY <2>1
  <2> QED BY <2>1, <2>5, <2>6, <2>7 DEF LocalStep
<1>9. CASE \E j \in 1..(need - first) :
              ChunkStep(t[i], f, new, table, q, from, upto, fill, first + j)
  <2>1. PICK j \in 1..(need - first) :
           ChunkStep(t[i], f, new, table, q, from, upto, fill, first + j)
    BY <1>9
  <2>2. first + j \in 1..Len(q)
    BY <1>1
  <2>3. /\ t[i].block = FirstBlock(boot, q[first + j])
        /\ (t[i].put = <<>> \/ t[i].put = table) /\ t[i].undo = f /\ t[i].wipe = new
    BY <2>1 DEF ChunkStep
  <2>4. q[first + j] \in C
    BY <1>3, <2>2
  <2>5. \A z \in {t[i].put, t[i].undo} :
           /\ DOMAIN z \subseteq Cluster
           /\ \A c \in DOMAIN z : z[c] \in FatEntry /\ (c \in C \/ z[c] = f[c])
    BY <1>4, <1>5, <1>6, <1>7, <2>3
  <2> QED BY <2>3, <2>4, <2>5 DEF LocalStep
<1>10. CASE EntryPut(t[i], f, new, table, s, e, fill, op)
  <2>1. /\ t[i].block = FirstBlock(boot, Root) /\ t[i].zeros = {} /\ t[i].cells = Single(s, e)
        /\ (t[i].put = <<>> \/ t[i].put = table) /\ (t[i].undo = <<>> \/ t[i].undo = f)
        /\ (t[i].wipe = {} \/ t[i].wipe = new)
    BY <1>10 DEF EntryPut
  <2>2. DOMAIN t[i].cells = {s} /\ t[i].cells[s] \in Entry
    <3>1. DOMAIN Single(s, e) = {s} /\ Single(s, e)[s] = e
      BY SingleFacts
    <3> QED BY <2>1, <3>1
  <2>3. \A z \in {t[i].put, t[i].undo} :
           /\ DOMAIN z \subseteq Cluster
           /\ \A c \in DOMAIN z : z[c] \in FatEntry /\ (c \in C \/ z[c] = f[c])
    BY <1>4, <1>5, <1>6, <1>7, <2>1
  <2>4. t[i].wipe \subseteq C
    BY <2>1
  <2> QED BY <2>1, <2>2, <2>3, <2>4 DEF LocalStep
<1> QED
  BY <1>8, <1>9, <1>10 DEF GrowKind

\* The table after the call.
LEMMA GrowFat ==
    ASSUME NEW f, NEW p, NEW new, NEW asc, NEW table, NEW q,
           Growth(f, p, new, asc, table, q), NEW from, NEW upto, NEW fill,
           NEW first \in Nat, NEW need \in Nat, first < need,
           NEW s, NEW e, NEW op, NEW t,
           GrowPlan(t, f, new, asc, table, q, from, upto, fill, first, need, s, e, op)
    PROVE  FatAfterIn(f, t) = table
           /\ ((\A i \in DOMAIN t : DOMAIN t[i].put = {}) => new = {})
<1> DEFINE m == Len(asc)
           c == need - first
           l == Len(t)
<1>1. /\ f \in [Cluster -> FatEntry] /\ table \in [Cluster -> FatEntry] /\ m \in Nat
      /\ (new = {} <=> m = 0) /\ (new = {} => table = f)
  BY DEF Growth
<1>2. c \in Nat /\ c >= 1
  OBVIOUS
<1>3. /\ Steps(t) /\ l = m + c + 1
      /\ ChunkStep(t[m + c], f, new, table, q, from, upto, fill, first + c)
      /\ EntryPut(t[l], f, new, table, s, e, fill, op)
  <2>1. c \in 1..c
    BY <1>2
  <2> QED BY <2>1 DEF GrowPlan
<1>4. l \in Nat /\ DOMAIN t = 1..l
  BY <1>3, StepsFacts
<1>5. \A i \in DOMAIN t :
         GrowKind(t, i, f, new, asc, table, q, from, upto, fill, first, need, s, e, op)
  <2>1. first <= need /\ Len(asc) \in Nat
    BY <1>1
  <2>2. AllKinds(t, f, new, asc, table, q, from, upto, fill, first, need, s, e, op)
    BY <2>1, GrowKinds
  <2> QED BY <2>2 DEF AllKinds
<1> HIDE DEF m, l, c
<1>6. m + c \in 1..l /\ l \in 1..l /\ m + c < l /\ \A j \in 1..l : j > m + c => j = l
  BY <1>1, <1>2, <1>3
<1>7. DOMAIN <<>> = {} /\ DOMAIN table = Cluster
  BY <1>1, EmptyMap
<1>8. CASE new = {}
  <2>1. \A i \in DOMAIN t : DOMAIN t[i].put = {}
    <3> TAKE i \in DOMAIN t
    <3>1. t[i].put = <<>>
      <4>1. ~(i \in 1..Len(asc))
        BY <1>1, <1>8 DEF m
      <4> QED BY <1>5, <1>8, <4>1 DEF GrowKind, ChunkStep, EntryPut
    <3> QED BY <1>7, <3>1
  <2> QED BY <1>1, <1>8, <2>1, NoPuts
<1>9. CASE new # {}
  <2>1. t[m + c].put = table /\ (t[l].put = <<>> \/ t[l].put = table)
    BY <1>3, <1>9 DEF ChunkStep, EntryPut
  <2>2. \A z \in Cluster : FatAfterIn(f, t)[z] = table[z]
    <3> TAKE z \in Cluster
    <3>1. CASE t[l].put = table
      <4>1. LastPut(t, l, z)
        <5>1. \A j \in 1..l : ~(j > l)
          BY <1>4
        <5> QED BY <1>4, <1>6, <1>7, <3>1, <5>1 DEF LastPut
      <4> QED BY <1>1, <1>3, <3>1, <4>1, PutLast
    <3>2. CASE t[l].put = <<>>
      <4>1. LastPut(t, m + c, z)
        BY <1>4, <1>6, <1>7, <2>1, <3>2 DEF LastPut
      <4> QED BY <1>1, <1>3, <2>1, <4>1, PutLast
    <3> QED BY <2>1, <3>1, <3>2
  <2>3. FatAfterIn(f, t) = table
    <3>1. table = [z \in Cluster |-> table[z]]
      BY <1>1
    <3>2. FatAfterIn(f, t) = [z \in Cluster |-> FatAfterIn(f, t)[z]]
      BY DEF FatAfterIn
    <3> QED BY <2>2, <3>1, <3>2
  <2>4. ~(\A i \in DOMAIN t : DOMAIN t[i].put = {})
    <3>1. m + c \in DOMAIN t /\ DOMAIN t[m + c].put # {}
      BY <1>4, <1>6, <1>7, <2>1, RootIn
    <3> QED BY <3>1
  <2> QED BY <2>3, <2>4
<1> QED
  BY <1>8, <1>9

\* Every failure but that of the entry's write in write_at takes the growth back.
LEMMA GrowBack ==
    ASSUME NEW f, NEW p, NEW new, NEW asc, NEW table, NEW q,
           Growth(f, p, new, asc, table, q), NEW from, NEW upto, NEW fill,
           NEW first \in Nat, NEW need \in Nat, first <= need,
           NEW s, NEW e, NEW op, NEW t,
           GrowPlan(t, f, new, asc, table, q, from, upto, fill, first, need, s, e, op),
           NEW k, k.op = op, k.fat = f
    PROVE  RollbackSoundIn(f, t, k)
<1>1. /\ Len(t) \in Nat /\ DOMAIN t = 1..Len(t)
      /\ \A i \in DOMAIN t :
            GrowKind(t, i, f, new, asc, table, q, from, upto, fill, first, need, s, e, op)
  <2>1. Len(asc) \in Nat
    BY DEF Growth
  <2>2. AllKinds(t, f, new, asc, table, q, from, upto, fill, first, need, s, e, op)
    BY <2>1, GrowKinds
  <2> QED BY <2>2 DEF AllKinds
<1>2. /\ f \in [Cluster -> FatEntry] /\ \A c \in new : f[c] = FREE
      /\ asc \in Seq(new) /\ Len(asc) \in Nat /\ DOMAIN asc = 1..Len(asc)
  BY DEF Growth
<1>3. DOMAIN f = Cluster
  BY <1>2
<1> SUFFICES ASSUME NEW i \in DOMAIN t, RolledBack(k.op, t, i), NEW c \in Cluster
             PROVE  IF c \in DOMAIN t[i].undo THEN t[i].undo[c] = k.fat[c]
                    ELSE f[c] = k.fat[c] /\ \A j \in 1..i : c \notin DOMAIN t[j].put
  BY DEF RollbackSoundIn
<1>4. CASE i \in 1..Len(asc) /\ AllocStep(t[i], asc, i)
  <2>1. t[i].undo = [z \in ToSet(SubSeq(asc, 1, i)) |-> FREE]
    BY <1>4 DEF AllocStep
  <2>2. SubSeq(asc, 1, i) \in Seq(new) /\ Len(SubSeq(asc, 1, i)) = i
        /\ \A j \in 1..i : SubSeq(asc, 1, i)[j] = asc[j]
    BY <1>2, <1>4
  <2>3. ToSet(SubSeq(asc, 1, i)) \subseteq new /\ \A j \in 1..i : asc[j] \in ToSet(SubSeq(asc, 1, i))
    <3> DEFINE z == SubSeq(asc, 1, i)
    <3>1. z \in Seq(new) /\ Len(z) = i /\ \A j \in 1..i : z[j] = asc[j]
      BY <2>2
    <3> HIDE DEF z
    <3>2. DOMAIN z = 1..i
      BY <3>1
    <3>3. ToSet(z) \subseteq new /\ \A j \in 1..i : asc[j] \in ToSet(z)
      BY <3>1, <3>2 DEF ToSet
    <3> QED BY <3>3 DEF z
  <2>4. ASSUME NEW j \in 1..i PROVE DOMAIN t[j].put \subseteq ToSet(SubSeq(asc, 1, i))
    <3>1. j \in 1..Len(asc)
      BY <1>2, <1>4
    <3>2. AllocStep(t[j], asc, j)
      BY <3>1 DEF GrowPlan
    <3>3. DOMAIN Single(asc[j], EOC) = {asc[j]}
      BY SingleFacts
    <3> QED BY <2>3, <3>2, <3>3 DEF AllocStep
  <2>5. CASE c \in ToSet(SubSeq(asc, 1, i))
    <3>1. c \in DOMAIN t[i].undo /\ t[i].undo[c] = FREE
      BY <2>1, <2>5
    <3>2. f[c] = FREE
      BY <1>2, <2>3, <2>5
    <3> QED BY <3>1, <3>2
  <2>6. CASE c \notin ToSet(SubSeq(asc, 1, i))
    <3>1. c \notin DOMAIN t[i].undo
      BY <2>1, <2>6
    <3> QED BY <2>4, <2>6, <3>1
  <2> QED BY <2>5, <2>6
<1>5. CASE t[i].undo = f
  BY <1>3, <1>5
<1>6. (i \in 1..Len(asc) /\ AllocStep(t[i], asc, i)) \/ t[i].undo = f
  <2>1. CASE i = Len(t) /\ EntryPut(t[i], f, new, table, s, e, fill, op)
    <3>1. ~(t[i].intact = FALSE /\ op = "Write")
      BY <1>1, <2>1 DEF RolledBack
    <3> QED BY <2>1, <3>1 DEF EntryPut
  <2> QED BY <1>1, <2>1 DEF GrowKind, ChunkStep
<1> QED
  BY <1>4, <1>5, <1>6

\* The clusters of the grown path are those of the old one and the new ones.
LEMMA GrownPath ==
    ASSUME NEW f, NEW p, NEW new, NEW asc, NEW table, NEW q,
           Growth(f, p, new, asc, table, q)
    PROVE  /\ \A i \in 1..Len(q) : q[i] \in Cluster /\ q[i] # Root
           /\ \A i, j \in 1..Len(q) : q[i] = q[j] => i = j
           /\ \A i \in 1..Len(p) : i \in 1..Len(q) /\ q[i] = p[i]
           /\ \A i \in 1..Len(asc) :
                 /\ asc[i] \in new /\ asc[i] \in Cluster /\ asc[i] # Root
                 /\ Len(p) + i \in 1..Len(q) /\ q[Len(p) + i] = asc[i]
                 /\ \A j \in 1..Len(p) : p[j] # asc[i]
<1>1. /\ Links(table, q) /\ asc \in Seq(new) /\ Len(asc) \in Nat /\ DOMAIN asc = 1..Len(asc)
      /\ new \subseteq Cluster \ {Root} /\ \A i \in 1..Len(p) : p[i] \notin new
      /\ Len(p) \in Nat /\ Len(q) = Len(p) + Len(asc)
      /\ \A i \in 1..Len(p) : q[i] = p[i]
      /\ \A i \in 1..Len(asc) : q[Len(p) + i] = asc[i]
  BY DEF Growth
<1>2. /\ q \in Seq(Cluster \ {Root}) /\ \A i, j \in 1..Len(q) : q[i] = q[j] => i = j
  BY <1>1 DEF Links
<1>3. \A i \in 1..Len(q) : q[i] \in Cluster /\ q[i] # Root
  BY <1>2
<1>4. \A i \in 1..Len(p) : i \in 1..Len(q) /\ q[i] = p[i]
  BY <1>1
<1>5. \A i \in 1..Len(asc) : asc[i] \in new /\ Len(p) + i \in 1..Len(q)
  BY <1>1
<1> QED
  BY <1>1, <1>2, <1>3, <1>4, <1>5

\* Zeroing a new cluster, or units beyond the end of the file, leaves the file as it was.
LEMMA QuietStep ==
    ASSUME NEW d, Shape(d, boot), NEW f, NEW p, NEW new, NEW asc, NEW table, NEW q,
           Growth(f, p, new, asc, table, q), NEW x, NEW s \in Slots, NEW file,
           Len(file) \in Nat, NEW from \in Nat, NEW upto \in Nat, NEW fill,
           UnitsHeld(DataIn(d, boot), p, file),
           ChainOf(EntriesIn(d, boot), f, s) = {p[i] : i \in 1..Len(p)},
           NEW step,
           \/ \E i \in 1..Len(asc) : AllocStep(step, asc, i)
           \/ /\ fill = 0 /\ Len(file) <= from
              /\ \E c \in 1..Len(q) : ChunkStep(step, f, new, table, q, from, upto, fill, c)
    PROVE  StepIntactIn(step, d, boot, f, x, s)
<1>1. /\ \A i \in 1..Len(q) : q[i] \in Cluster /\ q[i] # Root
      /\ \A i, j \in 1..Len(q) : q[i] = q[j] => i = j
      /\ \A i \in 1..Len(p) : i \in 1..Len(q) /\ q[i] = p[i]
      /\ \A i \in 1..Len(asc) :
            /\ asc[i] \in Cluster /\ asc[i] # Root /\ \A j \in 1..Len(p) : p[j] # asc[i]
  BY GrownPath
<1>2. /\ Root \in Cluster
      /\ \A c \in Cluster : \A z \in Cluster : FirstBlock(boot, z) = FirstBlock(boot, c) => z = c
  BY Places
<1>3. CASE \E i \in 1..Len(asc) : AllocStep(step, asc, i)
  <2>1. PICK i \in 1..Len(asc) : AllocStep(step, asc, i)
    BY <1>3
  <2>2. asc[i] \in Cluster /\ asc[i] # Root /\ \A j \in 1..Len(p) : p[j] # asc[i]
    BY <1>1
  <2>3. step.block = FirstBlock(boot, asc[i])
    BY <2>1 DEF AllocStep
  <2>4. \A j \in 1..Len(p) : p[j] \in Cluster
    BY <1>1
  <2> QED BY <1>2, <2>2, <2>3, <2>4 DEF StepIntactIn, Touches
<1>4. CASE /\ fill = 0 /\ Len(file) <= from
           /\ \E c \in 1..Len(q) : ChunkStep(step, f, new, table, q, from, upto, fill, c)
  <2>1. PICK c \in 1..Len(q) : ChunkStep(step, f, new, table, q, from, upto, fill, c)
    BY <1>4
  <2>2. /\ step.block = FirstBlock(boot, q[c]) /\ step.zeros = InChunk(from, upto, c)
        /\ step.cells = <<>> /\ q[c] \in Cluster /\ q[c] # Root
    BY <1>1, <1>4, <2>1 DEF ChunkStep
  <2>3. DOMAIN step.cells = {}
    BY <2>2, EmptyMap
  <2>4. ASSUME NEW i \in 1..Len(p), NEW k \in Units, Touches(step, FirstBlock(boot, p[i]), k)
        PROVE  CellIn(d, FirstBlock(boot, p[i]), k, 0) = 0
    <3>1. p[i] \in Cluster /\ p[i] = q[i] /\ i \in 1..Len(q) /\ step.block = FirstBlock(boot, p[i])
          /\ k \in InChunk(from, upto, c)
      BY <1>1, <2>2, <2>3, <2>4 DEF Touches
    <3>2. p[i] = q[c]
      BY <1>2, <2>2, <3>1
    <3>3. i = c
      BY <1>1, <3>1, <3>2
    <3> DEFINE u == (i - 1) * ClusterSize + k
    <3>4. u \in (from + 1)..upto /\ u \in Nat
      BY <3>1, <3>3, UnitFacts DEF InChunk
    <3>5. DataIn(d, boot)[p[i]][k] = At(file, u)
      BY DEF UnitsHeld
    <3>6. DataIn(d, boot)[p[i]][k] = CellIn(d, FirstBlock(boot, p[i]), k, 0)
      BY <3>1 DEF DataIn
    <3> HIDE DEF u
    <3>7. ~(u <= Len(file))
      BY <1>4, <3>4
    <3> QED BY <3>5, <3>6, <3>7 DEF At
  <2>5. ~Touches(step, FirstBlock(boot, Root), s)
    BY <1>2, <2>2 DEF Touches
  <2> QED BY <2>3, <2>4, <2>5 DEF StepIntactIn
<1> QED
  BY <1>3, <1>4

\* A write of zeros, or the first write of a growth, changes nothing of the old file.
LEMMA GrowIntact ==
    ASSUME NEW d, Shape(d, boot), NEW f, NEW p, NEW new, NEW asc, NEW table, NEW q,
           Growth(f, p, new, asc, table, q), NEW x, NEW s \in Slots, NEW file,
           Len(file) \in Nat, NEW from \in Nat, NEW upto \in Nat, NEW fill,
           UnitsHeld(DataIn(d, boot), p, file),
           ChainOf(EntriesIn(d, boot), f, s) = {p[i] : i \in 1..Len(p)},
           NEW first \in Nat, NEW need \in Nat, first <= need, need <= Len(q),
           NEW e, NEW op, op = "Write" => fill # 0, fill = 0 => Len(file) <= from, NEW t,
           GrowPlan(t, f, new, asc, table, q, from, upto, fill, first, need, s, e, op)
    PROVE  StepsIntactIn(t, d, boot, f, x, s)
<1>1. /\ Len(t) \in Nat /\ DOMAIN t = 1..Len(t)
      /\ \A i \in DOMAIN t :
            GrowKind(t, i, f, new, asc, table, q, from, upto, fill, first, need, s, e, op)
  <2>1. Len(asc) \in Nat
    BY DEF Growth
  <2>2. AllKinds(t, f, new, asc, table, q, from, upto, fill, first, need, s, e, op)
    BY <2>1, GrowKinds
  <2> QED BY <2>2 DEF AllKinds
<1>2. /\ DOMAIN f = Cluster /\ Root \in Cluster /\ Len(asc) \in Nat /\ DOMAIN asc = 1..Len(asc)
      /\ Len(q) \in Nat /\ \A i \in 1..Len(p) : p[i] \notin new
  BY RootIn DEF Growth
<1> SUFFICES ASSUME NEW i \in DOMAIN t, t[i].intact
             PROVE  /\ \A j \in 1..(i - 1) :
                          t[j].intact /\ StepIntactIn(t[j], d, boot, f, x, s)
                    /\ DOMAIN t[i].undo # {}
                    /\ t[i].wipe \cap ChainOf(EntriesIn(d, boot), f, s) = {}
  BY DEF StepsIntactIn
<1>3. ASSUME NEW j \in 1..(i - 1)
      PROVE  /\ t[j].intact
             /\ \/ \E z \in 1..Len(asc) : AllocStep(t[j], asc, z)
                \/ /\ fill = 0
                   /\ \E c \in 1..Len(q) : ChunkStep(t[j], f, new, table, q, from, upto, fill, c)
  <2>1. j \in DOMAIN t /\ j < i /\ i <= Len(t) /\ j # Len(t)
    <3> DEFINE l == Len(t)
    <3>1. l \in Nat /\ DOMAIN t = 1..l
      BY <1>1
    <3> HIDE DEF l
    <3>2. i \in 1..l
      BY <3>1
    <3>3. j \in 1..l /\ j < i /\ i <= l /\ j # l
      BY <3>1, <3>2
    <3> QED BY <3>1, <3>3 DEF l
  <2>2. CASE AllocStep(t[j], asc, j) /\ j \in 1..Len(asc)
    BY <2>2 DEF AllocStep
  <2>3. CASE j > Len(asc) /\ \E z \in 1..(need - first) :
                 /\ j = Len(asc) + z
                 /\ ChunkStep(t[j], f, new, table, q, from, upto, fill, first + z)
    <3>1. PICK z \in 1..(need - first) :
             /\ j = Len(asc) + z
             /\ ChunkStep(t[j], f, new, table, q, from, upto, fill, first + z)
      BY <2>3
    <3>2. first + z \in 1..Len(q)
      BY <1>2
    <3>3. fill = 0
      <4> SUFFICES ASSUME fill # 0 PROVE FALSE
        OBVIOUS
      <4>1. ~(i \in 1..Len(asc))
        BY <1>2, <2>1, <2>3
      <4>2. ~(i = Len(t) /\ EntryPut(t[i], f, new, table, s, e, fill, op))
        BY DEF EntryPut
      <4>3. PICK y \in 1..(need - first) :
               i = Len(asc) + y /\ (y # 1 /\ fill # 0 => t[i].intact = FALSE)
        BY <1>1, <4>1, <4>2 DEF GrowKind
      <4>4. y # 1
        BY <1>2, <2>1, <3>1, <4>3
      <4> QED BY <4>3, <4>4
    <3>4. t[j].intact
      BY <3>1, <3>3 DEF ChunkStep
    <3> QED BY <3>1, <3>2, <3>3, <3>4
  <2>4. GrowKind(t, j, f, new, asc, table, q, from, upto, fill, first, need, s, e, op)
    BY <1>1, <2>1
  <2> QED BY <2>1, <2>2, <2>3, <2>4 DEF GrowKind
<1>4. \A j \in 1..(i - 1) : StepIntactIn(t[j], d, boot, f, x, s)
  <2> TAKE j \in 1..(i - 1)
  <2>1. \/ \E z \in 1..Len(asc) : AllocStep(t[j], asc, z)
        \/ /\ fill = 0 /\ Len(file) <= from
           /\ \E c \in 1..Len(q) : ChunkStep(t[j], f, new, table, q, from, upto, fill, c)
    BY <1>3
  <2> QED BY <2>1, QuietStep
<1>5. DOMAIN t[i].undo # {} /\ t[i].wipe \subseteq new
  <2>1. CASE AllocStep(t[i], asc, i) /\ i \in 1..Len(asc)
    <3>1. asc \in Seq(new) /\ t[i].undo = [c \in ToSet(SubSeq(asc, 1, i)) |-> FREE]
          /\ t[i].wipe = {}
      BY <2>1 DEF Growth, AllocStep
    <3>2. ToSet(SubSeq(asc, 1, i)) # {}
      <4>1. SubSeq(asc, 1, i) \in Seq(new) /\ Len(SubSeq(asc, 1, i)) = i
        BY <1>2, <2>1, <3>1
      <4>2. 1 \in DOMAIN SubSeq(asc, 1, i)
        BY <1>2, <2>1, <4>1
      <4> QED BY <4>2 DEF ToSet
    <3> QED BY <3>1, <3>2
  <2>2. CASE t[i].undo = f /\ t[i].wipe = new
    BY <1>2, <2>2
  <2>3. \/ AllocStep(t[i], asc, i) /\ i \in 1..Len(asc)
        \/ t[i].undo = f /\ t[i].wipe = new
    BY <1>1 DEF GrowKind, ChunkStep, EntryPut
  <2> QED BY <2>1, <2>2, <2>3
<1> QED
  BY <1>2, <1>3, <1>4, <1>5

\* What a unit is after some of its file are written.
LEMMA FilledAt ==
    ASSUME NEW file \in Seq(Nat), NEW from \in Nat, NEW upto \in Nat, NEW v, NEW u \in Nat \ {0}
    PROVE  At(Filled(file, from, upto, v), u) =
              IF u \in (from + 1)..upto THEN v ELSE At(file, u)
<1> DEFINE n == Len(file)
           m == IF upto > n THEN upto ELSE n
           F(i) == IF i - 1 \in from..(upto - 1) THEN v ELSE IF i <= n THEN file[i] ELSE 0
           w == [i \in 1..m |-> F(i)]
<1>1. Filled(file, from, upto, v) = w
  BY DEF Filled
<1>2. n \in Nat
  OBVIOUS
<1> HIDE DEF n
<1>3. m \in Nat /\ upto <= m /\ n <= m
  BY <1>2
<1> HIDE DEF m, F
<1>4. Len(w) = m
  BY <1>3
<1>5. u <= m => w[u] = F(u)
  BY <1>3
<1>6. At(w, u) = IF u <= m THEN F(u) ELSE 0
  BY <1>4, <1>5 DEF At
<1> HIDE DEF w
<1>7. u - 1 \in from..(upto - 1) <=> u \in (from + 1)..upto
  OBVIOUS
<1>8. u \in (from + 1)..upto => u <= m
  BY <1>3
<1>9. u <= n => u <= m
  BY <1>2, <1>3
<1>10. At(file, u) = IF u <= n THEN file[u] ELSE 0
  BY DEF At, n
<1> QED
  BY <1>1, <1>6, <1>7, <1>8, <1>9, <1>10 DEF F

\* The clusters that units from..upto-1 are in.
LEMMA ChunkBounds ==
    ASSUME NEW from \in Nat, NEW upto \in Nat, NEW first, first = from \div ClusterSize,
           NEW need, need = Clusters(upto)
    PROVE  /\ first \in Nat /\ need \in Nat
           /\ from < upto => first < need
           /\ \A i \in Nat \ {0}, k \in Units :
                 (i - 1) * ClusterSize + k \in (from + 1)..upto => first < i /\ i <= need
<1> DEFINE m == ClusterSize
           r == from % ClusterSize
<1>1. m \in Nat \ {0} /\ need \in Nat
  BY ClustersFacts
<1>2. first \in Nat /\ r \in Nat /\ r < m /\ from = m * first + r
  BY <1>1
<1>3. need = Clusters(upto)
  OBVIOUS
<1> HIDE DEF r
<1>4. first * m \in Nat /\ from = first * m + r
  <2>1. first * m \in Nat
    BY <1>1, <1>2, TimesOrder
  <2>2. m * first = first * m
    BY <1>1, <1>2
  <2> QED BY <1>2, <2>1, <2>2
<1>5. ASSUME from < upto PROVE first < need
  <2> DEFINE i == first + 1
             k == r + 1
  <2>1. i \in Nat \ {0} /\ k \in Units /\ i - 1 = first
    BY <1>1, <1>2 DEF Units, m
  <2>2. (i - 1) * m + k = from + 1
    BY <1>2, <1>4, <2>1
  <2>3. ~((i - 1) * m + k > upto)
    BY <1>5, <2>2
  <2> HIDE DEF i, k
  <2>4. ~(i > need)
    BY <1>1, <1>3, <2>1, <2>3, SizeFacts
  <2> QED BY <1>1, <1>2, <2>1, <2>4
<1>6. ASSUME NEW i \in Nat \ {0}, NEW k \in Units, (i - 1) * ClusterSize + k \in (from + 1)..upto
      PROVE  first < i /\ i <= need
  <2> DEFINE u == (i - 1) * ClusterSize + k
  <2>1. u \in Nat /\ u <= i * m /\ i * m \in Nat
    BY UnitFacts
  <2>2. u > from /\ u <= upto
    BY <1>6, <2>1
  <2> HIDE DEF u
  <2>3. i <= need
    <3>1. i > need => u > upto
      BY <1>3, SizeFacts DEF u
    <3> QED BY <1>1, <2>1, <2>2, <3>1
  <2>4. first < i
    <3> SUFFICES ASSUME i <= first PROVE FALSE
      BY <1>2
    <3>1. i * m <= first * m
      BY <1>1, <1>2, TimesOrder
    <3> QED BY <1>2, <1>4, <2>1, <2>2, <3>1
  <2> QED BY <2>3, <2>4
<1> QED
  BY <1>1, <1>2, <1>5, <1>6

\* The units of a file after a write or a truncation to a larger size.
LEMMA GrowUnit ==
    ASSUME NEW d, Shape(d, boot), NEW f, NEW p, NEW new, NEW asc, NEW table, NEW q,
           Growth(f, p, new, asc, table, q), NEW file \in Seq(Nat), Len(p) = Clusters(Len(file)),
           UnitsHeld(DataIn(d, boot), p, file),
           NEW from \in Nat, NEW upto \in Nat, NEW fill,
           NEW first, first = from \div ClusterSize, NEW need, need = Clusters(upto),
           first <= need, need <= Len(q), NEW s, NEW e, NEW op, NEW t,
           GrowPlan(t, f, new, asc, table, q, from, upto, fill, first, need, s, e, op)
    PROVE  UnitsHeld(DataAfterIn(d, t, boot), q, Filled(file, from, upto, fill))
<1> DEFINE a == Len(asc)
           l == Len(t)
<1>1. first \in Nat /\ need \in Nat
  BY ChunkBounds
<1>2. /\ Steps(t) /\ l = a + (need - first) + 1
      /\ \A i \in 1..a : AllocStep(t[i], asc, i)
      /\ \A i \in 1..(need - first) :
            ChunkStep(t[a + i], f, new, table, q, from, upto, fill, first + i)
  BY DEF GrowPlan
<1>3. a \in Nat /\ Len(p) \in Nat /\ Len(q) = Len(p) + a
  BY DEF Growth
<1>4. /\ l \in Nat /\ DOMAIN t = 1..l
      /\ \A i \in DOMAIN t :
            GrowKind(t, i, f, new, asc, table, q, from, upto, fill, first, need, s, e, op)
      /\ \A i \in 1..a : i \in DOMAIN t
      /\ \A i \in 1..(need - first) : a + i \in DOMAIN t
  <2>1. AllKinds(t, f, new, asc, table, q, from, upto, fill, first, need, s, e, op)
    BY <1>1, <1>3, GrowKinds
  <2> QED BY <2>1 DEF AllKinds
<1>5. /\ \A i \in 1..Len(q) : q[i] \in Cluster /\ q[i] # Root
      /\ \A i, j \in 1..Len(q) : q[i] = q[j] => i = j
      /\ \A i \in 1..Len(p) : i \in 1..Len(q) /\ q[i] = p[i]
      /\ \A i \in 1..a : Len(p) + i \in 1..Len(q) /\ q[Len(p) + i] = asc[i]
  BY SMTT(20), GrownPath
<1>6. /\ Root \in Cluster
      /\ \A c \in Cluster : \A z \in Cluster : FirstBlock(boot, z) = FirstBlock(boot, c) => z = c
  BY Places
<1> SUFFICES ASSUME NEW i \in 1..Len(q), NEW k \in Units
             PROVE  DataAfterIn(d, t, boot)[q[i]][k] =
                       At(Filled(file, from, upto, fill), (i - 1) * ClusterSize + k)
  BY DEF UnitsHeld
<1> DEFINE u == (i - 1) * ClusterSize + k
           block == FirstBlock(boot, q[i])
           hit == u \in (from + 1)..upto
<1>7. u \in Nat \ {0} /\ i \in Nat \ {0}
  <2>1. i \in Nat \ {0}
    BY <1>3
  <2> QED BY <2>1, UnitFacts
<1>8. hit => first < i /\ i <= need
  BY <1>7, ChunkBounds
<1>9. q[i] \in Cluster /\ q[i] # Root /\ DataAfterIn(d, t, boot)[q[i]][k] = CellAfterIn(d, t, block, k, 0)
  BY <1>5 DEF DataAfterIn
<1>10. k \in InChunk(from, upto, i) <=> hit
  BY DEF InChunk
<1>11. At(Filled(file, from, upto, fill), u) = IF hit THEN fill ELSE At(file, u)
  BY <1>7, FilledAt
<1> HIDE DEF u, block, hit
<1>12. DOMAIN <<>> = {}
  BY EmptyMap
\* What touches the cell: the zeroing of the cluster when it is new, and its writing.
<1>13. ASSUME NEW j \in DOMAIN t, Touches(t[j], block, k)
       PROVE  \/ j \in 1..a /\ i = Len(p) + j /\ AllocStep(t[j], asc, j)
              \/ hit /\ j = a + (i - first)
  <2>1. t[j].block = FirstBlock(boot, q[i]) /\ k \in DOMAIN t[j].cells \cup t[j].zeros
    BY <1>13 DEF Touches, block
  <2>2. GrowKind(t, j, f, new, asc, table, q, from, upto, fill, first, need, s, e, op)
    BY <1>4
  <2>3. CASE j \in 1..a /\ AllocStep(t[j], asc, j)
    <3>1. Len(p) + j \in 1..Len(q) /\ t[j].block = FirstBlock(boot, q[Len(p) + j])
      BY <1>5, <2>3 DEF AllocStep
    <3>2. q[Len(p) + j] = q[i]
      BY ZenonT(30), <1>5, <1>6, <1>9, <2>1, <3>1
    <3>3. Len(p) + j = i
      BY <1>5, <3>1, <3>2
    <3> QED BY <2>3, <3>3
  <2>4. CASE \E z \in 1..(need - first) :
                /\ j = a + z
                /\ ChunkStep(t[j], f, new, table, q, from, upto, fill, first + z)
    <3>1. PICK z \in 1..(need - first) :
             /\ j = a + z
             /\ ChunkStep(t[j], f, new, table, q, from, upto, fill, first + z)
      BY <2>4
    <3>2. first + z \in 1..Len(q)
      BY <1>1, <1>3
    <3>3. t[j].block = FirstBlock(boot, q[first + z])
          /\ k \in InChunk(from, upto, first + z)
      <4>1. t[j].block = FirstBlock(boot, q[first + z])
        BY <3>1 DEF ChunkStep
      <4>2. CASE fill = 0
        BY <1>12, <2>1, <3>1, <4>2 DEF ChunkStep
      <4>3. CASE fill # 0
        BY <1>12, <2>1, <3>1, <4>3 DEF ChunkStep
      <4> QED BY <4>1, <4>2, <4>3
    <3>4. q[first + z] = q[i]
      BY <1>5, <1>6, <1>9, <2>1, <3>2, <3>3
    <3>5. first + z = i
      BY <1>5, <3>2, <3>4
    <3>6. j = a + (i - first)
      <4>1. first \in Nat /\ z \in Nat /\ a \in Nat /\ j = a + z /\ first + z = i
        BY <1>1, <1>3, <3>1, <3>5
      <4>2. i - first = z
        BY ONLY <4>1
      <4> QED BY ONLY <4>1, <4>2
    <3> QED BY <1>10, <3>3, <3>5, <3>6
  <2>5. ~EntryPut(t[j], f, new, table, s, e, fill, op)
    <3>1. t[j].block # FirstBlock(boot, Root)
      BY <1>6, <1>9, <2>1
    <3> QED BY <3>1 DEF EntryPut
  <2> QED BY <2>2, <2>3, <2>4, <2>5 DEF GrowKind
<1>14. CASE hit
  <2> DEFINE z == i - first
             j == a + z
  <2>1. z \in 1..(need - first) /\ first + z = i
    BY <1>1, <1>7, <1>8, <1>14
  <2>2. j \in DOMAIN t /\ ChunkStep(t[j], f, new, table, q, from, upto, fill, i)
    BY <1>2, <1>4, <2>1
  <2>3. Touches(t[j], block, k) /\ Written(t[j], k, 0) = fill
    <3>1. k \in InChunk(from, upto, i)
      BY <1>10, <1>14
    <3>2. CASE fill = 0
      BY <1>12, <2>2, <3>1, <3>2 DEF ChunkStep, Touches, Written, block
    <3>3. CASE fill # 0
      <4>1. t[j].block = block /\ t[j].cells = [y \in InChunk(from, upto, i) |-> fill]
        BY <2>2, <3>3 DEF ChunkStep, block
      <4> QED BY <3>1, <4>1 DEF Touches, Written
    <3> QED BY <3>2, <3>3
  <2>4. ASSUME NEW h \in DOMAIN t, h > j PROVE ~Touches(t[h], block, k)
    <3> SUFFICES ASSUME Touches(t[h], block, k) PROVE FALSE
      OBVIOUS
    <3>1. h \in 1..a \/ h = j
      BY <1>13
    <3>2. j \in Int /\ j > a
      BY <1>3, <2>1
    <3> HIDE DEF j
    <3> QED BY <1>3, <1>4, <2>4, <3>1, <3>2
  <2> HIDE DEF j
  <2>5. LastTouch(t, j, block, k)
    BY <2>2, <2>3, <2>4 DEF LastTouch
  <2>6. CellAfterIn(d, t, block, k, 0) = fill
    BY <1>2, <2>3, <2>5, TouchedLast
  <2> QED BY <1>9, <1>11, <1>14, <2>6 DEF u
<1>15. CASE ~hit
  <2>1. \A j \in DOMAIN t : Touches(t[j], block, k) => i > Len(p) /\ Written(t[j], k, 0) = 0
    <3> SUFFICES ASSUME NEW j \in DOMAIN t, Touches(t[j], block, k)
                 PROVE  i > Len(p) /\ Written(t[j], k, 0) = 0
      OBVIOUS
    <3>1. j \in 1..a /\ i = Len(p) + j /\ AllocStep(t[j], asc, j)
      BY <1>13, <1>15
    <3>2. t[j].cells = <<>>
      BY <3>1 DEF AllocStep
    <3> QED BY <1>3, <1>12, <3>1, <3>2 DEF Written
  <2>2. CASE i <= Len(p)
    <3>1. i \in 1..Len(p) /\ ~(i > Len(p)) /\ q[i] = p[i]
      BY <1>3, <1>5, <1>7, <2>2
    <3>2. CellIn(d, block, k, 0) = At(file, u)
      <4>1. DataIn(d, boot)[p[i]][k] = At(file, u)
        BY <3>1 DEF UnitsHeld, u
      <4> QED BY <1>9, <3>1, <4>1 DEF DataIn, block
    <3>3. CellAfterIn(d, t, block, k, 0) = CellIn(d, block, k, 0)
      BY <2>1, <3>1, Untouched
    <3> QED BY <1>9, <1>11, <1>15, <3>2, <3>3 DEF u
  <2>3. CASE i > Len(p)
    <3> DEFINE j == i - Len(p)
    <3>1. j \in 1..a /\ Len(p) + j = i
      BY <1>3, <1>7, <2>3
    <3>2. At(file, u) = 0
      <4>1. Len(file) \in Nat
        OBVIOUS
      <4>2. u > Len(file)
        BY <1>7, <2>3, <4>1, SizeFacts DEF u
      <4>3. ~(u <= Len(file))
        BY <1>7, <4>1, <4>2
      <4> QED BY <4>3 DEF At
    <3> HIDE DEF j
    <3>3. j \in DOMAIN t /\ Touches(t[j], block, k)
      <4>1. AllocStep(t[j], asc, j) /\ q[i] = asc[j]
        BY <1>2, <1>5, <3>1
      <4> QED BY <1>4, <3>1, <4>1 DEF AllocStep, Touches, block
    <3>4. TouchesLeave(d, t, block, k, 0, 0)
      BY <2>1, <3>3 DEF TouchesLeave
    <3>5. CellAfterIn(d, t, block, k, 0) = 0
      BY <1>2, <3>4, TouchedSame
    <3> QED BY <1>9, <1>11, <1>15, <3>2, <3>5 DEF u
  <2>4. i <= Len(p) \/ i > Len(p)
    BY <1>3, <1>7
  <2> QED BY <2>2, <2>3, <2>4
<1> QED
  BY <1>14, <1>15

\* What a file holds after a write is a file.
LEMMA FilledSeq ==
    ASSUME NEW file \in Seq(Nat), NEW from \in Nat, NEW upto \in Nat, NEW v \in Nat
    PROVE  /\ Filled(file, from, upto, v) \in Seq(Nat)
           /\ Len(Filled(file, from, upto, v)) = IF upto > Len(file) THEN upto ELSE Len(file)
<1> DEFINE n == Len(file)
           m == IF upto > n THEN upto ELSE n
           F(i) == IF i - 1 \in from..(upto - 1) THEN v ELSE IF i <= n THEN file[i] ELSE 0
<1>1. Filled(file, from, upto, v) = [i \in 1..m |-> F(i)]
  BY DEF Filled
<1>2. n \in Nat /\ \A i \in 1..n : file[i] \in Nat
  OBVIOUS
<1>3. m \in Nat
  BY <1>2
<1>4. \A i \in 1..m : F(i) \in Nat
  <2> TAKE i \in 1..m
  <2>1. i <= n => i \in 1..n
    BY <1>2, <1>3
  <2> HIDE DEF n, m
  <2> QED BY <1>2, <2>1
<1> HIDE DEF F, m
<1>5. [i \in 1..m |-> F(i)] \in Seq(Nat) /\ Len([i \in 1..m |-> F(i)]) = m
  BY <1>3, <1>4
<1> QED
  BY <1>1, <1>5 DEF m

\* A write, or a truncation to a larger size, of a known file begins.
LEMMA GrownOpen ==
    ASSUME NEW d, NEW f, NEW y, NEW x, NEW n, NEW v, Idle(d, boot, f, y, x, n, v),
           NEW s \in n, s \in DOMAIN x,
           NEW h, h = EntriesIn(d, boot)[s], NEW p, p = Chain(f, h.start),
           NEW new, NEW asc, NEW table, NEW q, Growth(f, p, new, asc, table, q),
           NEW from \in Nat, NEW upto \in Nat, from < upto, NEW fill \in Nat,
           NEW first, first = from \div ClusterSize, NEW need, need = Clusters(upto),
           Len(q) = (IF need > Len(p) THEN need ELSE Len(p)),
           NEW e, e = File(HeadOf(q), IF upto > h.size THEN upto ELSE h.size),
           NEW op, op \in {"Write", "Grow"}, op = "Write" => fill # 0,
           fill = 0 => h.size <= from, NEW t,
           GrowPlan(t, f, new, asc, table, q, from, upto, fill, first, need, s, e, op),
           NEW after, after = [x EXCEPT ![s] = Filled(@, from, upto, fill)],
           NEW k, k = [op |-> op, slot |-> s, fat |-> f, files |-> after]
    PROVE  Open(d, boot, f, y, t, k, x, n, v \ {s})
<1> DEFINE entries == EntriesIn(d, boot)
           P == {p[i] : i \in 1..Len(p)}
           C == P \cup new
           file == x[s]
           size == IF upto > h.size THEN upto ELSE h.size
<1>1. /\ s \in Slots /\ Chained(entries, f, x, s) /\ p = PathOf(entries, f, s)
      /\ \A D : (\A c \in D : c \in Cluster \ {Root} /\ (c \in ChainOf(entries, f, s) \/ f[c] = FREE))
            => Mine(entries, f, x, n \ {s}, D)
  BY KnownFacts DEF PathOf
<1>2. /\ f \in [Cluster -> FatEntry] /\ DOMAIN x \subseteq Slots /\ Shape(d, boot)
  BY DEF Idle
<1>3. /\ Links(f, p) /\ Len(p) \in Nat /\ Len(p) = Clusters(h.size)
      /\ h.size = Len(file) /\ file \in Seq(Nat) /\ ChainOf(entries, f, s) = P
      /\ P \subseteq Cluster \ {Root}
  BY <1>1 DEF Chained
<1>4. UnitsHeld(DataIn(d, boot), p, file)
  BY <1>1, KnownFacts
<1>5. /\ Links(table, q) /\ new \subseteq Cluster \ {Root} /\ \A c \in new : f[c] = FREE
      /\ table \in [Cluster -> FatEntry] /\ Len(asc) \in Nat /\ Len(q) = Len(p) + Len(asc)
  BY DEF Growth
<1>6. first \in Nat /\ need \in Nat /\ first < need
  BY ChunkBounds
<1>g. /\ Growth(f, p, new, asc, table, q)
           /\ GrowPlan(t, f, new, asc, table, q, from, upto, fill, first, need, s, e, op)
           /\ from \in Nat /\ upto \in Nat /\ (op = "Write" => fill # 0)
  OBVIOUS
<1>7. first <= need /\ need <= Len(q)
  BY <1>3, <1>6
<1>8. h.size \in Nat /\ size \in Nat /\ Len(file) \in Nat
  BY <1>3
<1>9. Len(q) = Clusters(size)
  <2>1. CASE upto > h.size
    <3>1. Clusters(h.size) <= Clusters(upto)
      BY <1>8, <2>1, SizeKept
    <3> QED BY <1>3, <1>6, <2>1, <3>1
  <2>2. CASE ~(upto > h.size)
    <3>1. Clusters(upto) <= Clusters(h.size)
      BY <1>8, <2>2, SizeKept
    <3> QED BY <1>3, <1>6, <2>2, <3>1
  <2> QED BY <2>1, <2>2
<1>10. HeadOf(q) \in Cluster \cup {FREE}
  <2>1. \A i \in 1..Len(q) : q[i] \in Cluster
    BY GrownPath
  <2>2. Len(q) # 0 => 1 \in 1..Len(q)
    BY <1>3, <1>5
  <2> QED BY <2>1, <2>2 DEF HeadOf
<1>11. e \in Entry /\ Occupied(e) /\ e.size = size /\ e.start = HeadOf(q)
  BY <1>8, <1>10 DEF Entry, File, Occupied
<1>12. Mine(entries, f, x, n \ {s}, C) /\ C \in SUBSET (Cluster \ {Root})
  <2>1. \A c \in C : c \in Cluster \ {Root} /\ (c \in ChainOf(entries, f, s) \/ f[c] = FREE)
    BY <1>3, <1>5
  <2> HIDE DEF C
  <2> QED BY <1>1, <2>1
<1>13. new \subseteq C /\ P \subseteq C /\ \A j \in 1..Len(p) : p[j] \in C
  OBVIOUS
<1>14. new = {} => C \subseteq ChainOf(entries, f, s)
  BY <1>3
<1> HIDE DEF C
<1>15. /\ \A i \in DOMAIN t :
             GrowKind(t, i, f, new, asc, table, q, from, upto, fill, first, need, s, e, op)
       /\ Steps(t) /\ t # <<>> /\ EntryPut(t[Len(t)], f, new, table, s, e, fill, op)
  <2>1. AllKinds(t, f, new, asc, table, q, from, upto, fill, first, need, s, e, op)
    BY <1>5, <1>6, <1>7, GrowKinds
  <2> QED BY <2>1 DEF AllKinds, GrowPlan
<1>16. \A i \in DOMAIN t : LocalStep(t[i], boot, f, s, C)
  BY <1>6, <1>7, <1>11, <1>12, <1>13, <1>15, GrowLocal
<1>17. RollbackSoundIn(f, t, k)
  <2>1. k.op = op /\ k.fat = f
    OBVIOUS
  <2> QED BY <1>6, <1>7, <2>1, GrowBack
<1>18. StepsIntactIn(t, d, boot, f, x, s)
  <2>1. fill = 0 => Len(file) <= from
    BY <1>3
  <2> HIDE DEF file
  <2>2. ChainOf(EntriesIn(d, boot), f, s) = {p[i] : i \in 1..Len(p)}
    BY <1>3
  <2>3. s \in Slots /\ Len(file) \in Nat /\ Shape(d, boot) /\ UnitsHeld(DataIn(d, boot), p, file)
        /\ first \in Nat /\ need \in Nat /\ first <= need /\ need <= Len(q)
    BY <1>1, <1>2, <1>4, <1>6, <1>7, <1>8
  <2> HIDE DEF P, entries
  <2> QED BY ONLY <1>g, <2>1, <2>2, <2>3, GrowIntact
<1>19. OffSlot(x, after, s) /\ s \in DOMAIN after /\ after[s] = Filled(file, from, upto, fill)
  BY <1>2 DEF OffSlot
<1>20. after[s] \in Seq(Nat) /\ Len(after[s]) = size
  <2>1. file \in Seq(Nat) /\ Len(file) = h.size
    BY <1>3
  <2> HIDE DEF file
  <2> DEFINE w == Filled(file, from, upto, fill)
  <2>2. w \in Seq(Nat) /\ Len(w) = IF upto > Len(file) THEN upto ELSE Len(file)
    BY <2>1, FilledSeq
  <2> HIDE DEF w
  <2>3. after[s] = w
    BY <1>19 DEF w
  <2> QED BY <2>1, <2>2, <2>3
<1>21. FatAfterIn(f, t) = table /\ ((\A i \in DOMAIN t : DOMAIN t[i].put = {}) => new = {})
  <2>1. FatAfterIn(f, t) = table
    BY ONLY <1>6, <1>g, GrowFat
  <2>2. (\A i \in DOMAIN t : DOMAIN t[i].put = {}) => new = {}
    BY ONLY <1>6, <1>g, GrowFat
  <2> QED BY <2>1, <2>2
<1>22. HeldAfter(d, boot, f, t, after, s, C)
  <2>1. EntriesAfterIn(d, t, boot)[s] = e
    <3>1. t[Len(t)].block = FirstBlock(boot, Root) /\ t[Len(t)].cells = Single(s, e)
      BY <1>15 DEF EntryPut
    <3> QED BY <1>1, <1>15, <3>1, EntryLast
  <2>2. UnitsHeld(DataAfterIn(d, t, boot), q, after[s])
    <3>1. UnitsHeld(DataAfterIn(d, t, boot), q, Filled(file, from, upto, fill))
      <4>1. Len(p) = Clusters(Len(file)) /\ file \in Seq(Nat)
        BY <1>3
      <4> HIDE DEF file
      <4> QED BY <1>2, <1>4, <1>7, <4>1, GrowUnit
    <3> QED BY <1>19, <3>1
  <2>3. \A i \in 1..Len(q), j \in Units :
           DataAfterIn(d, t, boot)[q[i]][j] = At(after[s], (i - 1) * ClusterSize + j)
    BY <2>2 DEF UnitsHeld
  <2>4. \A i \in 1..Len(q) : q[i] \in C
    <3> TAKE i \in 1..Len(q)
    <3>1. CASE i <= Len(p)
      <4>1. i \in 1..Len(p)
        BY <1>3, <1>5, <3>1
      <4>2. q[i] = p[i]
        BY <4>1, GrownPath
      <4> QED BY <1>13, <4>1, <4>2
    <3>2. CASE i > Len(p)
      <4> DEFINE z == i - Len(p)
      <4>1. z \in 1..Len(asc) /\ Len(p) + z = i
        BY <1>3, <1>5, <3>2
      <4> HIDE DEF z
      <4>2. q[Len(p) + z] = asc[z] /\ asc[z] \in new
        BY <4>1, GrownPath
      <4> QED BY <1>13, <4>1, <4>2
    <3> QED BY <1>3, <1>5, <3>1, <3>2
  <2>5. \A i \in DOMAIN t : \A c \in DOMAIN t[i].put : t[i].put[c] \in FatEntry
    BY <1>16 DEF LocalStep
  <2>6. e.size = Len(after[s]) /\ Len(q) = Clusters(e.size)
    BY <1>9, <1>11, <1>20
  <2>7. Links(FatAfterIn(f, t), q)
    BY <1>5, <1>21
  <2> HIDE DEF size, file
  <2> QED BY <1>2, <1>11, <1>15, <1>19, <1>20, <2>1, <2>3, <2>4, <2>5, <2>6, <2>7, HeldByPath
<1>23. SameClusters(d, boot, f, t, x, after, s)
  BY <1>2, <1>14, <1>21, <1>22, SameByHeld
<1>24. op \notin {"None", "Format", "Sync"}
  OBVIOUS
<1> QED
  BY <1>1, <1>12, <1>15, <1>16, <1>17, <1>18, <1>19, <1>22, <1>23, <1>24, BeginOpen

\* The growth that the steps of a write, or of a truncation to a larger size, are about.
Grown(h, p, from, upto, fill, first, need, new, asc, table, q, head) ==
    /\ Growth(fat, p, new, asc, table, q)
    /\ FillPlan(GrowAndFill(h, from, upto, fill), fat, new, asc, table, q,
                from, upto, fill, first, need)
    /\ Len(q) = (IF need > Len(p) THEN need ELSE Len(p))
    /\ head = HeadOf(q) /\ first \in Nat /\ need \in Nat /\ first < need

\* What ensure_fcb_chain_capacity and write_chain_bytes do to a known path.
LEMMA GrownFacts ==
    ASSUME fat \in [Cluster -> FatEntry], fat[Root] = EOC,
           NEW h, NEW p, Links(fat, p), h.start = HeadOf(p), Len(p) = Clusters(h.size),
           NEW from \in Nat, NEW upto \in Nat, from < upto, NEW fill,
           NEW first, first = from \div ClusterSize, NEW need, need = Clusters(upto),
           Fits(fat, h.start, need),
           NEW new, new = Lowest(Missing(fat, h.start, need), FreeClusters(fat)),
           NEW asc, asc = Ascending(new),
           NEW table, table = WithCapacity(fat, h.start, need),
           NEW head, head = HeadWithCapacity(fat, h.start, need)
    PROVE  Grown(h, p, from, upto, fill, first, need, new, asc, table, p \o asc, head)
<1> DEFINE q == p \o asc
<1>1. first \in Nat /\ need \in Nat /\ first < need /\ first <= need
  <2>1. first \in Nat /\ need \in Nat /\ first < need
    BY ChunkBounds
  <2> QED BY <2>1
<1>2. fat[Root] # FREE
  BY ClusterFacts
<1>3. need \in Nat
  BY <1>1
<1>4. /\ Growth(fat, p, new, asc, table, q)
      /\ Len(asc) = IF need > Len(p) THEN need - Len(p) ELSE 0
      /\ head = HeadOf(q) /\ Trim(table, head, Len(p)) = fat
  <2>1. /\ Growth(fat, p, new, Ascending(new), WithCapacity(fat, HeadOf(p), need),
                  p \o Ascending(new))
        /\ Len(Ascending(new)) = (IF need > Len(p) THEN need - Len(p) ELSE 0)
        /\ HeadWithCapacity(fat, HeadOf(p), need) = HeadOf(p \o Ascending(new))
        /\ Trim(WithCapacity(fat, HeadOf(p), need), HeadWithCapacity(fat, HeadOf(p), need),
                Len(p)) = fat
    <3>1. new = Lowest(Missing(fat, HeadOf(p), need), FreeClusters(fat))
          /\ Fits(fat, HeadOf(p), need)
      OBVIOUS
    <3> QED BY SMTT(20), <1>2, <1>3, <3>1, GrowthFacts
  <2> QED BY <2>1
<1>5. Len(p) \in Nat /\ Len(asc) \in Nat /\ Len(q) = Len(p) + Len(asc)
      /\ Links(table, q) /\ table \in [Cluster -> FatEntry]
  BY <1>4 DEF Growth
<1> HIDE DEF q
<1>6. Chain(table, head) = q
  BY <1>4, <1>5, PathChain
<1>7. Trim(table, head, Clusters(h.size)) = fat
  BY <1>4
<1>8. FillPlan(GrowAndFill(h, from, upto, fill), fat, new, asc, table, q,
               from, upto, fill, first, need)
  BY <1>1, <1>4, <1>6, <1>7, FillFacts
<1>9. Len(q) = IF need > Len(p) THEN need ELSE Len(p)
  <2> QED BY <1>3, <1>4, <1>5
<1>10. Grown(h, p, from, upto, fill, first, need, new, asc, table, q, head)
  BY <1>1, <1>4, <1>8, <1>9 DEF Grown
<1> QED
  BY <1>10 DEF q

\* write_at.
LEMMA WriteCallOpen ==
    ASSUME NEW y, NEW x, NEW n, NEW v, Idle(disk, boot, fat, y, x, n, v), fat[Root] = EOC,
           NEW s \in n, s \in DOMAIN x, NEW h, h = EntriesIn(disk, boot)[s],
           NEW from \in Nat, NEW upto \in Nat, from < upto, NEW fill \in Nat, fill # 0,
           Fits(fat, h.start, Clusters(upto)),
           NEW after, after = [x EXCEPT ![s] = Filled(@, from, upto, fill)],
           NEW k, k = [op |-> "Write", slot |-> s, fat |-> fat, files |-> after]
    PROVE  Open(disk, boot, fat, y,
                GrowAndFill(h, from, upto, fill) \o <<WriteEntry(boot, s, NewEntry(h, upto))>>,
                k, x, n, v \ {s})
<1> DEFINE p == Chain(fat, h.start)
           first == from \div ClusterSize
           need == Clusters(upto)
           new == Lowest(Missing(fat, h.start, need), FreeClusters(fat))
           asc == Ascending(new)
           table == WithCapacity(fat, h.start, need)
           head == HeadWithCapacity(fat, h.start, need)
           q == p \o asc
           e == NewEntry(h, upto)
           u == GrowAndFill(h, from, upto, fill)
           last == WriteEntry(boot, s, e)
           t == u \o <<last>>
<1>1. fat \in [Cluster -> FatEntry] /\ Links(fat, p) /\ h.start = HeadOf(p)
      /\ Len(p) = Clusters(h.size)
  <2>1. Chained(EntriesIn(disk, boot), fat, x, s)
    BY KnownFacts
  <2> QED BY <2>1 DEF Chained, PathOf, Idle
<1>2. Grown(h, p, from, upto, fill, first, need, new, asc, table, q, head)
  <2> HIDE DEF p
  <2> QED BY <1>1, GrownFacts
<1>3. e = File(head, IF upto > h.size THEN upto ELSE h.size)
  BY DEF NewEntry
<1>4. EntryPut(last, fat, new, table, s, e, fill, "Write")
  <2> HIDE DEF e
  <2>1. /\ last.block = FirstBlock(boot, Root) /\ last.zeros = {} /\ last.cells = Single(s, e)
        /\ last.put = <<>> /\ last.undo = <<>> /\ last.wipe = {} /\ last.intact = FALSE
    BY WriteEntryFacts
  <2> HIDE DEF last, new, table
  <2> QED BY <2>1 DEF EntryPut
<1>5. first = from \div ClusterSize /\ need = Clusters(upto) /\ p = Chain(fat, h.start)
  OBVIOUS
<1> HIDE DEF first, need, new, asc, table, head, q, e, u, last, p
<1>6. /\ Growth(fat, p, new, asc, table, q)
      /\ FillPlan(u, fat, new, asc, table, q, from, upto, fill, first, need)
      /\ Len(q) = (IF need > Len(p) THEN need ELSE Len(p))
      /\ head = HeadOf(q) /\ first \in Nat /\ need \in Nat /\ first < need
  BY <1>2 DEF Grown, u
<1>7. GrowPlan(t, fat, new, asc, table, q, from, upto, fill, first, need, s, e, "Write")
  <2>1. Len(asc) \in Nat
    BY <1>6 DEF Growth
  <2>2. first <= need
    BY <1>6
  <2> QED BY <1>4, <1>6, <2>1, <2>2, GrowLast
<1>8. e = File(HeadOf(q), IF upto > h.size THEN upto ELSE h.size)
  BY <1>3, <1>6
<1> HIDE DEF t
<1>9. Open(disk, boot, fat, y, t, k, x, n, v \ {s})
  BY ZenonT(30), <1>5, <1>6, <1>7, <1>8, GrownOpen
<1> QED
  BY <1>9 DEF t, u, last, e

\* truncate to a larger size.
LEMMA GrowCallOpen ==
    ASSUME NEW y, NEW x, NEW n, NEW v, Idle(disk, boot, fat, y, x, n, v), fat[Root] = EOC,
           NEW s \in n, s \in DOMAIN x, NEW h, h = EntriesIn(disk, boot)[s],
           NEW size \in Nat, h.size < size, Fits(fat, h.start, Clusters(size)),
           NEW after, after = [x EXCEPT ![s] = Filled(@, Len(@), size, 0)],
           NEW k, k = [op |-> "Grow", slot |-> s, fat |-> fat, files |-> after]
    PROVE  LET fill == GrowAndFill(h, h.size, size, 0)
           IN  Open(disk, boot, fat, y,
                    Append(fill, [Last(fill) EXCEPT
                                     !.block = FirstBlock(boot, Root), !.zeros = {},
                                     !.cells = Single(s, NewEntry(h, size))]),
                    k, x, n, v \ {s})
<1> DEFINE from == h.size
           p == Chain(fat, h.start)
           first == from \div ClusterSize
           need == Clusters(size)
           new == Lowest(Missing(fat, h.start, need), FreeClusters(fat))
           asc == Ascending(new)
           table == WithCapacity(fat, h.start, need)
           head == HeadWithCapacity(fat, h.start, need)
           q == p \o asc
           e == NewEntry(h, size)
           u == GrowAndFill(h, from, size, 0)
           last == [Last(u) EXCEPT !.block = FirstBlock(boot, Root), !.zeros = {},
                                   !.cells = Single(s, e)]
           t == u \o <<last>>
<1>1. /\ fat \in [Cluster -> FatEntry] /\ Links(fat, p) /\ h.start = HeadOf(p)
      /\ Len(p) = Clusters(h.size) /\ from \in Nat /\ from = Len(x[s])
  <2>1. Chained(EntriesIn(disk, boot), fat, x, s)
    BY KnownFacts
  <2> QED BY <2>1 DEF Chained, PathOf, Idle
<1>2. Grown(h, p, from, size, 0, first, need, new, asc, table, q, head)
  <2>1. from < size
    OBVIOUS
  <2> HIDE DEF p, from
  <2> QED BY <1>1, <2>1, GrownFacts
<1>3. e = File(head, IF size > h.size THEN size ELSE h.size)
  BY DEF NewEntry
<1>4. first = from \div ClusterSize /\ need = Clusters(size) /\ p = Chain(fat, h.start)
      /\ from < size /\ h.size <= from
  BY <1>1
<1>5. after = [x EXCEPT ![s] = Filled(@, from, size, 0)]
  BY <1>1
<1> HIDE DEF from, first, need, new, asc, table, head, q, e, u, p
<1>6. /\ Growth(fat, p, new, asc, table, q)
      /\ FillPlan(u, fat, new, asc, table, q, from, size, 0, first, need)
      /\ Len(q) = (IF need > Len(p) THEN need ELSE Len(p))
      /\ head = HeadOf(q) /\ first \in Nat /\ need \in Nat /\ first < need
  BY <1>2 DEF Grown, u
<1>7. Len(asc) \in Nat
  BY <1>6 DEF Growth
<1>8. Steps(u) /\ EntryPut(last, fat, new, table, s, e, 0, "Grow")
  <2> DEFINE c == need - first
             z == u[Len(u)]
  <2>1. c \in 1..c /\ Len(u) = Len(asc) + c /\ Steps(u)
    BY <1>6 DEF FillPlan
  <2>2. ChunkStep(z, fat, new, table, q, from, size, 0, first + c)
    BY <1>6, <2>1 DEF FillPlan
  <2>3. last = [z EXCEPT !.block = FirstBlock(boot, Root), !.zeros = {},
                         !.cells = Single(s, e)]
    BY DEF Last
  <2> HIDE DEF z, last
  <2>4. /\ z.put = (IF new = {} THEN <<>> ELSE table)
        /\ z.undo = fat /\ z.wipe = new /\ z.intact = TRUE /\ IsStep(z)
    BY <2>2 DEF ChunkStep
  <2>5. DOMAIN z = {"block", "zeros", "cells", "put", "undo", "wipe", "intact"}
    BY <2>4 DEF IsStep
  <2>6. /\ last.block = FirstBlock(boot, Root) /\ last.zeros = {} /\ last.cells = Single(s, e)
        /\ last.put = z.put /\ last.undo = z.undo /\ last.wipe = z.wipe
        /\ last.intact = z.intact
    BY <2>3, <2>5
  <2> QED BY <2>1, <2>4, <2>6 DEF EntryPut
<1>9. Append(u, last) = t
  <2> HIDE DEF last
  <2> QED BY <1>8 DEF Steps
<1>10. GrowPlan(t, fat, new, asc, table, q, from, size, 0, first, need, s, e, "Grow")
  <2>1. first <= need
    BY <1>6
  <2> HIDE DEF last
  <2> QED BY <1>6, <1>7, <1>8, <2>1, GrowLast
<1>11. e = File(HeadOf(q), IF size > h.size THEN size ELSE h.size)
  BY <1>3, <1>6
<1>12. t = Append(GrowAndFill(h, h.size, size, 0),
                  [Last(GrowAndFill(h, h.size, size, 0)) EXCEPT
                      !.block = FirstBlock(boot, Root), !.zeros = {},
                      !.cells = Single(s, NewEntry(h, size))])
  BY <1>9 DEF u, from, e
<1> HIDE DEF t, last
<1>13. Open(disk, boot, fat, y, t, k, x, n, v \ {s})
  <2>1. /\ Idle(disk, boot, fat, y, x, n, v) /\ s \in n /\ s \in DOMAIN x
        /\ h = EntriesIn(disk, boot)[s] /\ size \in Nat /\ 0 \in Nat
        /\ k = [op |-> "Grow", slot |-> s, fat |-> fat, files |-> after]
    OBVIOUS
  <2>2. "Grow" \in {"Write", "Grow"} /\ ("Grow" = "Write" => 0 # 0)
    OBVIOUS
  <2> QED BY ONLY ZenonT(30), <1>1, <1>4, <1>5, <1>6, <1>10, <1>11, <2>1, <2>2, GrownOpen
<1> QED
  BY <1>12, <1>13

(* The FAT is written out.                                                 *)

\* The write of a block of a copy: it is between the boot sector and the data, and it gives
\* every entry that is in it, and no other, its value.
FlushStep(step, b, f, copy, i) ==
    /\ step.block = FatStart(b, copy) + (i - 1) /\ step.block \in 1..(2 * b.fat_blocks)
    /\ step.zeros = {} /\ step.put = <<>> /\ step.undo = <<>> /\ step.wipe = {}
    /\ step.intact = FALSE
    /\ \A c \in Cluster : FatBlock(b, c) = i - 1 =>
          Touches(step, FatBlockOf(b, copy, c), FatOffset(b, c))
    /\ \A z \in FatCopies, c \in Cluster : Touches(step, FatBlockOf(b, z, c), FatOffset(b, c)) =>
          FatOffset(b, c) \in DOMAIN step.cells /\ step.cells[FatOffset(b, c)] = f[c]
FlushPlan(t, b, f) ==
    /\ Steps(t) /\ t # <<>>
    /\ \A i \in DOMAIN t : \E copy \in FatCopies, j \in 1..b.fat_blocks :
          FlushStep(t[i], b, f, copy, j)
    /\ \A copy \in FatCopies, j \in 1..b.fat_blocks :
          \E i \in DOMAIN t : FlushStep(t[i], b, f, copy, j)

\* The steps that write one copy of the table.
LEMMA FlushOne ==
    ASSUME NEW b \in BootSectors, NEW f, NEW copy \in FatCopies
    PROVE  LET t == FlushFat(b, f, copy)
           IN  /\ Steps(t) /\ Len(t) = b.fat_blocks
               /\ \A i \in 1..b.fat_blocks : FlushStep(t[i], b, f, copy, i)
<1> DEFINE n == b.fat_blocks
           In(i) == {c \in Cluster : FatBlock(b, c) = i - 1}
           cells(i) == [k \in {FatOffset(b, c) : c \in In(i)} |->
                           f[CHOOSE c \in In(i) : FatOffset(b, c) = k]]
           F(i) == Step(FatStart(b, copy) + i - 1, {}, cells(i))
           t == FlushFat(b, f, copy)
<1>1. /\ n \in Nat /\ n >= 1 /\ FatStart(b, 1) = 1 /\ FatStart(b, 2) = 1 + n
      /\ \A c \in Cluster : FatBlock(b, c) \in Nat /\ FatBlock(b, c) < n
  BY BootFacts
<1>2. copy \in {1, 2}
  BY DEF FatCopies
<1>3. t = [i \in 1..n |-> F(i)]
  BY DEF FlushFat
<1>4. ASSUME NEW i \in 1..n PROVE FlushStep(F(i), b, f, copy, i)
  <2> DEFINE at == FatStart(b, copy) + (i - 1)
  <2>1. FatStart(b, copy) \in Nat /\ at \in 1..(2 * n) /\ FatStart(b, copy) + i - 1 = at
    <3> HIDE DEF n
    <3> QED BY <1>1, <1>2
  <2> HIDE DEF In, at
  <2>2. /\ F(i).block = at /\ F(i).zeros = {} /\ F(i).cells = cells(i) /\ F(i).put = <<>>
        /\ F(i).undo = <<>> /\ F(i).wipe = {} /\ F(i).intact = FALSE
    BY <2>1 DEF Step
  <2>3. DOMAIN cells(i) = {FatOffset(b, c) : c \in In(i)}
    OBVIOUS
  <2>4. \A c \in In(i) : c \in Cluster /\ FatBlockOf(b, copy, c) = at
    BY DEF In, FatBlockOf, at
  <2>5. ASSUME NEW c \in Cluster, FatBlock(b, c) = i - 1
        PROVE  Touches(F(i), FatBlockOf(b, copy, c), FatOffset(b, c))
    <3>1. c \in In(i)
      BY <2>5 DEF In
    <3> HIDE DEF F, cells
    <3> QED BY <2>2, <2>3, <2>4, <3>1 DEF Touches
  <2>6. ASSUME NEW z \in FatCopies, NEW c \in Cluster,
               Touches(F(i), FatBlockOf(b, z, c), FatOffset(b, c))
        PROVE  FatOffset(b, c) \in DOMAIN F(i).cells /\ F(i).cells[FatOffset(b, c)] = f[c]
    <3> DEFINE k == FatOffset(b, c)
    <3> HIDE DEF F
    <3>1. FatBlockOf(b, z, c) = at /\ k \in DOMAIN cells(i)
      BY <2>2, <2>6 DEF Touches
    <3>2. \A x \in In(i) : FatOffset(b, x) = k => x = c
      <4> SUFFICES ASSUME NEW x \in In(i), FatOffset(b, x) = k PROVE x = c
        OBVIOUS
      <4>1. x \in Cluster /\ FatBlockOf(b, copy, x) = FatBlockOf(b, z, c)
        BY <2>4, <3>1
      <4> QED BY <4>1, EntryPlace
    <3>3. \E x \in In(i) : FatOffset(b, x) = k
      BY <2>3, <3>1
    <3>4. (CHOOSE x \in In(i) : FatOffset(b, x) = k) = c
      BY <3>2, <3>3
    <3>5. cells(i)[k] = f[c]
      BY <3>1, <3>4
    <3> QED BY <2>2, <3>1, <3>5
  <2> HIDE DEF F
  <2> QED BY <2>1, <2>2, <2>5, <2>6 DEF FlushStep, at
<1> HIDE DEF F, t
<1>5. Steps(t) /\ Len(t) = n
  <2> DEFINE S == {F(i) : i \in 1..n}
  <2>1. \A i \in 1..n : F(i) \in S
    OBVIOUS
  <2> HIDE DEF S, n
  <2>2. t \in Seq(S) /\ Len(t) = n
    BY <1>1, <1>3, <2>1
  <2> QED BY <2>2, StepsOf
<1>6. \A i \in 1..n : FlushStep(t[i], b, f, copy, i)
  BY <1>3, <1>4
<1> QED
  BY <1>5, <1>6 DEF t

\* The steps that write both.
LEMMA FlushFacts ==
    ASSUME NEW b \in BootSectors, NEW f
    PROVE  FlushPlan(FlushFats(b, f), b, f)
<1> DEFINE n == b.fat_blocks
           t == FlushFat(b, f, 1)
           u == FlushFat(b, f, 2)
           w == t \o u
<1>1. n \in Nat /\ n >= 1
  BY BootFacts
<1>2. FatCopies = {1, 2}
  BY DEF FatCopies
<1>3. Steps(t) /\ Len(t) = n /\ \A i \in 1..n : FlushStep(t[i], b, f, 1, i)
  BY <1>2, FlushOne
<1>4. Steps(u) /\ Len(u) = n /\ \A i \in 1..n : FlushStep(u[i], b, f, 2, i)
  BY <1>2, FlushOne
<1>5. FlushFats(b, f) = w
  BY DEF FlushFats
<1> HIDE DEF t, u, n
<1>6. /\ Steps(w) /\ DOMAIN w = 1..Len(w)
      /\ \A i \in 1..Len(t) : w[i] = t[i] /\ i \in DOMAIN w
      /\ \A i \in 1..Len(u) : w[Len(t) + i] = u[i] /\ Len(t) + i \in DOMAIN w
      /\ \A i \in DOMAIN w :
            i \in 1..Len(t) \/ (i - Len(t) \in 1..Len(u) /\ Len(t) + (i - Len(t)) = i)
  BY <1>3, <1>4, StepsJoin
<1> HIDE DEF w
<1>7. w # <<>>
  <2>1. 1 \in DOMAIN w
    BY <1>1, <1>3, <1>6
  <2> QED BY <2>1, EmptyMap
<1>8. ASSUME NEW i \in DOMAIN w
      PROVE  \E copy \in FatCopies, j \in 1..n : FlushStep(w[i], b, f, copy, j)
  <2>1. CASE i \in 1..Len(t)
    BY <1>2, <1>3, <1>6, <2>1
  <2>2. CASE i - Len(t) \in 1..Len(u) /\ Len(t) + (i - Len(t)) = i
    <3> DEFINE j == i - Len(t)
    <3>1. j \in 1..Len(u) /\ Len(t) + j = i
      BY <2>2
    <3> HIDE DEF j
    <3>2. w[i] = u[j] /\ j \in 1..n
      BY <1>4, <1>6, <3>1
    <3> QED BY <1>2, <1>4, <3>2
  <2> QED BY <1>6, <2>1, <2>2
<1>9. ASSUME NEW copy \in FatCopies, NEW j \in 1..n
      PROVE  \E i \in DOMAIN w : FlushStep(w[i], b, f, copy, j)
  <2>1. CASE copy = 1
    <3>1. j \in DOMAIN w /\ w[j] = t[j] /\ FlushStep(t[j], b, f, 1, j)
      BY <1>3, <1>6
    <3> QED BY <2>1, <3>1
  <2>2. CASE copy = 2
    <3>1. Len(t) + j \in DOMAIN w /\ w[Len(t) + j] = u[j] /\ FlushStep(u[j], b, f, 2, j)
      BY <1>4, <1>6
    <3> QED BY <2>2, <3>1
  <2> QED BY <1>2, <2>1, <2>2
<1>10. FlushPlan(w, b, f)
  BY <1>6, <1>7, <1>8, <1>9 DEF FlushPlan, n
<1> QED
  BY <1>5, <1>10

\* They touch nothing but the FAT, and a failed one is not undone.
\* It touches only the table on the image.
TableStep(step, b) ==
    /\ step.block \in 0..(b.block_count - 1) /\ step.block # 0
    /\ \A c \in Cluster : step.block # FirstBlock(b, c)
    /\ DOMAIN step.put = {} /\ DOMAIN step.undo = {} /\ step.wipe = {}
    /\ step.intact = FALSE /\ step.zeros = {}

\* They touch neither the boot sector nor a cluster.
LEMMA FlushClear ==
    ASSUME NEW b \in BootSectors, NEW f, NEW copy, NEW i, NEW step, FlushStep(step, b, f, copy, i)
    PROVE  TableStep(step, b)
<1>1. /\ b.fat_blocks \in Nat /\ b.block_count \in Nat
      /\ b.data_start = 1 + 2 * b.fat_blocks /\ b.data_start < b.block_count
  BY BootFacts
<1>2. \A c \in Cluster : FirstBlock(b, c) \in 0..(b.block_count - 1)
                         /\ FirstBlock(b, c) >= b.data_start
  BY ClusterBlock
<1>3. step.block \in 1..(2 * b.fat_blocks)
  BY DEF FlushStep
<1> DEFINE n == b.fat_blocks
           m == b.block_count
           k == b.data_start
           at == step.block
<1>4. n \in Nat /\ m \in Nat /\ k = 1 + 2 * n /\ k < m /\ at \in 1..(2 * n)
  BY <1>1, <1>3
<1>5. \A c \in Cluster : FirstBlock(b, c) \in 0..(m - 1) /\ FirstBlock(b, c) >= k
  BY <1>2
<1> HIDE DEF n, m, k, at
<1>6. at \in 0..(m - 1) /\ at # 0 /\ at < k
  BY <1>4
<1>7. \A c \in Cluster : at # FirstBlock(b, c)
  BY <1>4, <1>5, <1>6
<1>8. /\ step.zeros = {} /\ step.put = <<>> /\ step.undo = <<>> /\ step.wipe = {}
      /\ step.intact = FALSE
  BY DEF FlushStep
<1>9. DOMAIN step.put = {} /\ DOMAIN step.undo = {}
  BY <1>8, EmptyMap
<1> QED
  BY <1>6, <1>7, <1>8, <1>9 DEF at, m, TableStep

\* Steps that give every entry its value, and no entry another, leave both copies as the
\* FAT is.
Flushes(t, b, f) ==
    /\ \A j \in DOMAIN t : \A z \in FatCopies, c \in Cluster :
          Touches(t[j], FatBlockOf(b, z, c), FatOffset(b, c)) =>
             FatOffset(b, c) \in DOMAIN t[j].cells /\ t[j].cells[FatOffset(b, c)] = f[c]
    /\ \A z \in FatCopies, j \in 1..b.fat_blocks :
          \E i \in DOMAIN t : FlushStep(t[i], b, f, z, j)

\* After them both copies are the table.
LEMMA FlushCopies ==
    ASSUME NEW d, NEW b \in BootSectors, NEW f \in [Cluster -> FatEntry], NEW t, Steps(t),
           Flushes(t, b, f), NEW copy \in FatCopies
    PROVE  CopyAfterIn(d, t, b, copy) = f
<1>1. \A c \in Cluster : FatBlock(b, c) + 1 \in 1..b.fat_blocks
                         /\ FatBlock(b, c) = (FatBlock(b, c) + 1) - 1
  <2> TAKE c \in Cluster
  <2> DEFINE n == b.fat_blocks
             k == FatBlock(b, c)
  <2>1. n \in Nat /\ k \in Nat /\ k < n
    BY BootFacts
  <2> HIDE DEF n, k
  <2>2. k + 1 \in 1..n /\ k = (k + 1) - 1
    BY <2>1
  <2> QED BY <2>2 DEF n, k
<1>2. ASSUME NEW c \in Cluster
      PROVE  CellAfterIn(d, t, FatBlockOf(b, copy, c), FatOffset(b, c), FREE) = f[c]
  <2> DEFINE block == FatBlockOf(b, copy, c)
             k == FatOffset(b, c)
  <2>1. PICK i \in DOMAIN t : FlushStep(t[i], b, f, copy, FatBlock(b, c) + 1)
    BY <1>1 DEF Flushes
  <2>2. Touches(t[i], block, k)
    BY <1>1, <2>1 DEF FlushStep
  <2>3. \A j \in DOMAIN t : Touches(t[j], block, k) => Written(t[j], k, FREE) = f[c]
    BY DEF Written, Flushes
  <2>4. TouchesLeave(d, t, block, k, FREE, f[c])
    BY <2>2, <2>3 DEF TouchesLeave
  <2> QED BY <2>4, TouchedSame
<1>3. CopyAfterIn(d, t, b, copy) = [c \in Cluster |-> f[c]]
  BY <1>2 DEF CopyAfterIn
<1> QED
  BY <1>3

\* sync.
LEMMA SyncCallOpen ==
    ASSUME NEW d, NEW b, NEW f, NEW x, NEW n, NEW v, Idle(d, b, f, TRUE, x, n, v),
           NEW k, k = [op |-> "Sync", slot |-> 0, fat |-> f, files |-> x]
    PROVE  Open(d, b, f, TRUE, FlushFats(b, f), k, x, n, v)
<1> DEFINE t == FlushFats(b, f)
<1>1. /\ f \in [Cluster -> FatEntry]
      /\ v \subseteq n /\ n \subseteq Slots /\ DOMAIN x \subseteq Slots
      /\ Shape(d, b) /\ BootIn(d) = b
      /\ Sound(EntriesIn(d, b), DataIn(d, b), f, n, x)
      /\ Stored(EntriesIn(d, b), f, TablesIn(d, b), DOMAIN x \cap v)
  BY DEF Idle
<1>2. k.op = "Sync" /\ k.slot = 0 /\ k.fat = f /\ k.files = x
  OBVIOUS
<1>3. b \in BootSectors /\ DOMAIN d = 0..(b.block_count - 1)
  BY <1>1 DEF Shape
<1>4. n \ {k.slot} = n /\ k.slot \notin n /\ v \subseteq n \ {k.slot}
  BY <1>1, <1>2, SlotsFacts
<1>5. FlushPlan(t, b, f)
  BY <1>3, FlushFacts
<1> HIDE DEF t
<1>6. /\ Steps(t) /\ t # <<>>
      /\ \A i \in DOMAIN t : \E copy \in FatCopies, j \in 1..b.fat_blocks :
            FlushStep(t[i], b, f, copy, j)
      /\ \A copy \in FatCopies, j \in 1..b.fat_blocks :
            \E i \in DOMAIN t : FlushStep(t[i], b, f, copy, j)
  BY <1>5 DEF FlushPlan
<1>7. ASSUME NEW i \in DOMAIN t
      PROVE  /\ t[i].block \in DOMAIN d /\ t[i].block # 0
             /\ \A c \in Cluster : t[i].block # FirstBlock(b, c)
             /\ DOMAIN t[i].put = {} /\ DOMAIN t[i].undo = {} /\ t[i].wipe = {}
             /\ t[i].intact = FALSE
             /\ \A z \in FatCopies, c \in Cluster :
                   Touches(t[i], FatBlockOf(b, z, c), FatOffset(b, c)) =>
                      FatOffset(b, c) \in DOMAIN t[i].cells /\ t[i].cells[FatOffset(b, c)] = f[c]
  <2>1. PICK copy \in FatCopies, j \in 1..b.fat_blocks : FlushStep(t[i], b, f, copy, j)
    BY <1>6
  <2>2. \A z \in FatCopies, c \in Cluster :
           Touches(t[i], FatBlockOf(b, z, c), FatOffset(b, c)) =>
              FatOffset(b, c) \in DOMAIN t[i].cells /\ t[i].cells[FatOffset(b, c)] = f[c]
    BY <2>1 DEF FlushStep
  <2> DEFINE step == t[i]
  <2>3. FlushStep(step, b, f, copy, j)
    BY <2>1
  <2> HIDE DEF step
  <2>4. /\ step.block \in 0..(b.block_count - 1) /\ step.block # 0
        /\ \A c \in Cluster : step.block # FirstBlock(b, c)
        /\ DOMAIN step.put = {} /\ DOMAIN step.undo = {} /\ step.wipe = {}
        /\ step.intact = FALSE
    BY <1>3, <2>3, FlushClear DEF TableStep
  <2> QED BY <1>3, <2>2, <2>4 DEF step
<1>8. CallShapeIn(TRUE, t, k, x, n, v)
  BY <1>1, <1>2, <1>4, <1>6 DEF CallShapeIn, Steps
<1>9. Plan(d, b, f, t, k, x, n)
  <2>1. \A i \in DOMAIN t : StepShapeIn(t[i], d, b, f, k.op)
    <3> TAKE i \in DOMAIN t
    <3>1. Root \in Cluster /\ \A c \in Cluster : f[c] \in FatEntry
      BY <1>1, RootIn
    <3>2. t[i].wipe \subseteq Cluster \ {Root}
      BY <1>7
    <3> QED BY <1>2, <1>7, <3>1, <3>2 DEF StepShapeIn
  <2>2. \A s \in n \ {k.slot}, i \in DOMAIN t : StepClearIn(t[i], d, b, f, x, s)
    <3> TAKE s \in n \ {k.slot}, i \in DOMAIN t
    <3>1. s \in DOMAIN x => ChainOf(EntriesIn(d, b), f, s) \subseteq Cluster \ {Root}
      <4> HAVE s \in DOMAIN x
      <4>1. s \in n
        BY <1>4
      <4>2. Chained(EntriesIn(d, b), f, x, s)
        BY <4>1, KnownFacts
      <4> QED BY <4>2 DEF Chained
    <3> QED BY <1>7, <3>1, RootIn DEF StepClearIn, Touches
  <2>3. RollbackSoundIn(f, t, k)
    BY <1>2, <1>7 DEF RollbackSoundIn, RolledBack
  <2> QED BY <1>4, <2>1, <2>2, <2>3 DEF Plan
<1>10. Now(d, b, f, TRUE, k, x, n, v)
  BY <1>1, <1>4 DEF Now
<1>11. After(d, b, f, TRUE, t, k, x, n)
  <2>1. FatAfterIn(f, t) = f
    BY <1>1, <1>7, NoPuts
  <2>2. EntriesAfterIn(d, t, b) = EntriesIn(d, b)
    <3>1. \A s \in Slots : CellAfterIn(d, t, FirstBlock(b, Root), s, Unused)
                           = CellIn(d, FirstBlock(b, Root), s, Unused)
      <4> TAKE s \in Slots
      <4>1. \A i \in DOMAIN t : ~Touches(t[i], FirstBlock(b, Root), s)
        BY <1>7, RootIn DEF Touches
      <4> QED BY <4>1, Untouched
    <3> QED BY <3>1 DEF EntriesAfterIn, EntriesIn
  <2>3. DataAfterIn(d, t, b) = DataIn(d, b)
    <3>1. \A c \in Cluster : \A z \in Units :
             CellAfterIn(d, t, FirstBlock(b, c), z, 0) = CellIn(d, FirstBlock(b, c), z, 0)
      <4> TAKE c \in Cluster
      <4> TAKE z \in Units
      <4>1. \A i \in DOMAIN t : ~Touches(t[i], FirstBlock(b, c), z)
        BY <1>7 DEF Touches
      <4> QED BY <4>1, Untouched
    <3> QED BY <3>1 DEF DataAfterIn, DataIn
  <2>4. \A copy \in FatCopies : CopyAfterIn(d, t, b, copy) = f
    <3>1. Flushes(t, b, f)
      BY <1>6, <1>7 DEF Flushes
    <3> QED BY <1>1, <1>3, <1>6, <3>1, FlushCopies
  <2> QED BY <1>1, <1>2, <1>6, <2>1, <2>2, <2>3, <2>4 DEF After
<1> QED
  BY <1>1, <1>2, <1>4, <1>8, <1>9, <1>10, <1>11 DEF Open, t

(* mkfs_myfs formats.                                                      *)

\* The steps write the boot sector, zero the root and write the FAT out.
BootStep(step, b) ==
    /\ step.block = 0 /\ step.zeros = {} /\ step.cells = Single(0, b) /\ step.put = <<>>
    /\ step.undo = <<>> /\ step.wipe = {} /\ step.intact = FALSE
RootStep(step, b, root) ==
    /\ step.block = FirstBlock(b, Root) /\ step.zeros = Slots /\ step.cells = <<>>
    /\ step.put = root /\ step.undo = <<>> /\ step.wipe = {} /\ step.intact = FALSE
FormatPlan(t, b, root, F) ==
    /\ Steps(t) /\ t # <<>>
    /\ \A i \in DOMAIN t :
          \/ BootStep(t[i], b) \/ RootStep(t[i], b, root)
          \/ \E copy \in FatCopies, j \in 1..b.fat_blocks : FlushStep(t[i], b, F, copy, j)
    /\ \E i \in DOMAIN t : BootStep(t[i], b)
    /\ \E i \in DOMAIN t : RootStep(t[i], b, root)
    /\ \A copy \in FatCopies, j \in 1..b.fat_blocks :
          \E i \in DOMAIN t : FlushStep(t[i], b, F, copy, j)

\* The steps of formatting.
LEMMA FormatSteps ==
    ASSUME NEW b \in BootSectors, NEW root, NEW F
    PROVE  FormatPlan(<<Step(0, {}, Single(0, b)), [ZeroCluster(b, Root) EXCEPT !.put = root]>>
                         \o FlushFats(b, F), b, root, F)
<1> DEFINE first == Step(0, {}, Single(0, b))
           second == [ZeroCluster(b, Root) EXCEPT !.put = root]
           a == <<first, second>>
           r == FlushFats(b, F)
           t == a \o r
<1>1. BootStep(first, b)
  BY DEF BootStep, Step
<1>2. RootStep(second, b, root)
  BY DEF RootStep, ZeroCluster, Step
<1> HIDE DEF first, second
<1>3. Steps(a) /\ Len(a) = 2 /\ a[1] = first /\ a[2] = second
  <2>1. a \in Seq({first, second})
    OBVIOUS
  <2>2. Steps(a)
    BY <2>1, StepsOf
  <2> QED BY <2>2
<1>4. FlushPlan(r, b, F)
  BY FlushFacts
<1> HIDE DEF a, r
<1>5. /\ Steps(r)
      /\ \A i \in DOMAIN r : \E copy \in FatCopies, j \in 1..b.fat_blocks :
            FlushStep(r[i], b, F, copy, j)
      /\ \A copy \in FatCopies, j \in 1..b.fat_blocks :
            \E i \in DOMAIN r : FlushStep(r[i], b, F, copy, j)
  BY <1>4 DEF FlushPlan
<1>6. /\ Steps(t)
      /\ \A i \in 1..Len(a) : t[i] = a[i] /\ i \in DOMAIN t
      /\ \A i \in 1..Len(r) : t[Len(a) + i] = r[i] /\ Len(a) + i \in DOMAIN t
      /\ \A i \in DOMAIN t :
            i \in 1..Len(a) \/ (i - Len(a) \in 1..Len(r) /\ Len(a) + (i - Len(a)) = i)
  <2>1. Steps(t)
    BY <1>3, <1>5, StepsJoin
  <2>2. \A i \in 1..Len(a) : t[i] = a[i] /\ i \in DOMAIN t
    BY <1>3, <1>5, StepsJoin
  <2>3. \A i \in 1..Len(r) : t[Len(a) + i] = r[i] /\ Len(a) + i \in DOMAIN t
    BY <1>3, <1>5, StepsJoin
  <2>4. \A i \in DOMAIN t :
            i \in 1..Len(a) \/ (i - Len(a) \in 1..Len(r) /\ Len(a) + (i - Len(a)) = i)
    BY <1>3, <1>5, StepsJoin
  <2> QED BY <2>1, <2>2, <2>3, <2>4
<1> HIDE DEF t
<1>7. DOMAIN r = 1..Len(r)
  BY <1>5, StepsFacts
<1>8. 1 \in DOMAIN t /\ 2 \in DOMAIN t /\ t[1] = first /\ t[2] = second
  <2>1. 1 \in 1..2 /\ 2 \in 1..2
    OBVIOUS
  <2> QED BY <1>3, <1>6, <2>1
<1>9. t # <<>>
  BY <1>8, EmptyMap
<1>10. ASSUME NEW i \in DOMAIN t
       PROVE  \/ BootStep(t[i], b) \/ RootStep(t[i], b, root)
              \/ \E copy \in FatCopies, j \in 1..b.fat_blocks : FlushStep(t[i], b, F, copy, j)
  <2>1. CASE i \in 1..Len(a)
    <3>1. i = 1 \/ i = 2
      BY <1>3, <2>1
    <3> QED BY <1>1, <1>2, <1>8, <3>1
  <2>2. CASE i - Len(a) \in 1..Len(r) /\ Len(a) + (i - Len(a)) = i
    <3> DEFINE j == i - Len(a)
    <3>1. j \in 1..Len(r) /\ Len(a) + j = i
      BY <2>2
    <3> HIDE DEF j
    <3>2. t[i] = r[j] /\ j \in DOMAIN r
      BY <1>6, <1>7, <3>1
    <3> QED BY <1>5, <3>2
  <2> QED BY <1>6, <2>1, <2>2
<1>11. ASSUME NEW copy \in FatCopies, NEW j \in 1..b.fat_blocks
       PROVE  \E i \in DOMAIN t : FlushStep(t[i], b, F, copy, j)
  <2>1. PICK i \in DOMAIN r : FlushStep(r[i], b, F, copy, j)
    BY <1>5
  <2>2. Len(a) + i \in DOMAIN t /\ t[Len(a) + i] = r[i]
    BY <1>6, <1>7
  <2> QED BY <2>1, <2>2
<1>12. FormatPlan(t, b, root, F)
  BY <1>1, <1>2, <1>6, <1>8, <1>9, <1>10, <1>11 DEF FormatPlan
<1> QED
  BY <1>12 DEF t, a, r, first, second

\* An image of zeroes.
Zeroes(d) == \A i \in DOMAIN d : \A k, zero : CellIn(d, i, k, zero) = zero

BlankImage(d, b) ==
    DOMAIN d = 0..(b.block_count - 1) /\ \A i \in DOMAIN d : d[i] = <<>>

\* An image of zero blocks has no boot sector and is otherwise empty.
LEMMA Blank ==
    ASSUME NEW b \in BootSectors, NEW d, BlankImage(d, b)
    PROVE  /\ Shape(d, b) /\ BootIn(d) = ZeroBoot
           /\ Zeroes(d)
<1>1. DOMAIN d = 0..(b.block_count - 1) /\ \A i \in DOMAIN d : DOMAIN d[i] = {}
  BY EmptyMap DEF BlankImage
<1>2. \A i \in DOMAIN d : \A k, zero : CellIn(d, i, k, zero) = zero
  BY <1>1 DEF CellIn
<1>3. FirstBlock(b, Root) \in DOMAIN d
  BY <1>1, RootIn, ClusterBlock
<1>4. EntriesIn(d, b) = [s \in Slots |-> Unused] /\ Unused \in Entry
  <2>1. Unused \in Entry
    BY DEF Unused, Entry
  <2> QED BY <1>2, <1>3, <2>1 DEF EntriesIn
<1>5. \A copy \in FatCopies : CopyIn(d, b, copy) = NoFat
  <2> TAKE copy \in FatCopies
  <2>1. \A c \in Cluster : FatBlockOf(b, copy, c) \in DOMAIN d
    BY <1>1, EntryPlace
  <2> QED BY <1>2, <2>1 DEF CopyIn, NoFat
<1>6. TablesIn(d, b) \in [FatCopies -> [Cluster -> FatEntry]]
  BY <1>5, NoFatType DEF TablesIn
<1>7. 0 \in DOMAIN d
  <2>1. b.block_count \in Nat /\ b.data_start \in Nat /\ b.data_start < b.block_count
    <3>1. b.fat_blocks \in Nat /\ b.data_start = 1 + 2 * b.fat_blocks
      BY BootFacts
    <3> QED BY <3>1, BootFacts
  <2> QED BY <1>1, <2>1
<1>8. BootIn(d) = ZeroBoot
  BY <1>2, <1>7 DEF BootIn
<1> QED
  BY <1>1, <1>2, <1>4, <1>6, <1>8 DEF Shape, Zeroes

\* format.
LEMMA FormatOpen ==
    ASSUME NEW b \in BootSectors, NEW d, BlankImage(d, b),
           NEW root, DOMAIN root = {Root}, root[Root] = EOC, NEW t,
           FormatPlan(t, b, root, Overlay(root, NoFat)),
           NEW k, k = [NoCall EXCEPT !.op = "Format"]
    PROVE  Open(d, b, NoFat, FALSE, t, k, <<>>, Slots, {})
<1> DEFINE F == Overlay(root, NoFat)
<1>1. /\ Shape(d, b) /\ BootIn(d) = ZeroBoot
      /\ \A i \in DOMAIN d : \A z, zero : CellIn(d, i, z, zero) = zero
  <2>1. Shape(d, b)
    BY Blank
  <2>2. BootIn(d) = ZeroBoot
    BY Blank
  <2>3. Zeroes(d)
    BY Blank
  <2> QED BY <2>1, <2>2, <2>3 DEF Zeroes
<1>2. k.op = "Format" /\ k.slot = 0 /\ k.fat = NoFat /\ k.files = <<>>
  BY DEF NoCall
<1>3. DOMAIN root = {Root} /\ root[Root] = EOC /\ DOMAIN <<>> = {}
  BY EmptyMap
<1>4. EOC \in FatEntry /\ Root \in Cluster /\ NoFat \in [Cluster -> FatEntry]
  BY RootIn, NoFatType DEF FatEntry
<1>5. F \in [Cluster -> FatEntry]
      /\ \A c \in Cluster : F[c] = IF c \in DOMAIN root THEN root[c] ELSE NoFat[c]
  <2>1. DOMAIN root \subseteq Cluster /\ \A c \in DOMAIN root : root[c] \in FatEntry
    BY <1>3, <1>4
  <2> QED BY <1>4, <2>1, PutTable
<1> HIDE DEF F
<1>6. /\ Steps(t) /\ t # <<>>
      /\ \A i \in DOMAIN t :
            \/ BootStep(t[i], b) \/ RootStep(t[i], b, root)
            \/ \E copy \in FatCopies, j \in 1..b.fat_blocks : FlushStep(t[i], b, F, copy, j)
      /\ \E i \in DOMAIN t : BootStep(t[i], b)
      /\ \E i \in DOMAIN t : RootStep(t[i], b, root)
      /\ \A copy \in FatCopies, j \in 1..b.fat_blocks :
            \E i \in DOMAIN t : FlushStep(t[i], b, F, copy, j)
  BY DEF FormatPlan, F
<1>7. /\ 0 \in DOMAIN d /\ FirstBlock(b, Root) \in DOMAIN d /\ FirstBlock(b, Root) # 0
      /\ DOMAIN d = 0..(b.block_count - 1)
      /\ \A copy \in FatCopies, c \in Cluster :
            /\ FatBlockOf(b, copy, c) # 0 /\ FatBlockOf(b, copy, c) # FirstBlock(b, Root)
  <2>1. 0 \in DOMAIN d /\ FirstBlock(b, Root) \in DOMAIN d /\ FirstBlock(b, Root) # 0
    BY <1>1, <1>4, Places
  <2>2. \A copy \in FatCopies, c \in Cluster :
            /\ FatBlockOf(b, copy, c) # 0 /\ FatBlockOf(b, copy, c) # FirstBlock(b, Root)
    BY <1>1, <1>4, Places
  <2> QED BY <1>1, <2>1, <2>2 DEF Shape
\* Where the steps write, and what they put.
<1>8. ASSUME NEW i \in DOMAIN t
      PROVE  /\ StepShapeIn(t[i], d, b, NoFat, "Format") /\ t[i].intact = FALSE
             /\ t[i].block = 0 => Written(t[i], 0, ZeroBoot) = b
             /\ \A s \in Slots : Touches(t[i], FirstBlock(b, Root), s)
                                    => Written(t[i], s, Unused) = Unused
             /\ \A c \in Cluster : c \in DOMAIN t[i].put => t[i].put[c] = F[c]
             /\ \A z \in FatCopies, c \in Cluster :
                   Touches(t[i], FatBlockOf(b, z, c), FatOffset(b, c)) =>
                      FatOffset(b, c) \in DOMAIN t[i].cells /\ t[i].cells[FatOffset(b, c)] = F[c]
  <2> DEFINE step == t[i]
  <2>1. CASE BootStep(step, b)
    <3>1. /\ step.block = 0 /\ step.zeros = {} /\ step.cells = Single(0, b)
          /\ step.wipe = {} /\ step.intact = FALSE /\ DOMAIN step.put = {}
          /\ DOMAIN step.undo = {}
      BY <1>3, <2>1 DEF BootStep
    <3> HIDE DEF step
    <3>2. Written(step, 0, ZeroBoot) = b
      <4>1. DOMAIN Single(0, b) = {0} /\ Single(0, b)[0] = b
        BY SingleFacts
      <4> QED BY <3>1, <4>1 DEF Written
    <3>3. StepShapeIn(step, d, b, NoFat, "Format")
      BY <1>4, <1>7, <3>1 DEF StepShapeIn, Touches
    <3> QED BY <1>7, <3>1, <3>2, <3>3 DEF Touches, step
  <2>2. CASE RootStep(step, b, root)
    <3>1. /\ step.block = FirstBlock(b, Root) /\ DOMAIN step.cells = {}
          /\ step.wipe = {} /\ step.intact = FALSE /\ step.put = root
          /\ DOMAIN step.undo = {}
      BY <1>3, <2>2 DEF RootStep
    <3> HIDE DEF step
    <3>2. StepShapeIn(step, d, b, NoFat, "Format")
      BY <1>3, <1>4, <1>7, <3>1 DEF StepShapeIn, Touches
    <3> QED BY <1>5, <1>7, <3>1, <3>2 DEF Touches, Written, step
  <2>3. CASE \E copy \in FatCopies, j \in 1..b.fat_blocks : FlushStep(step, b, F, copy, j)
    <3>1. PICK copy \in FatCopies, j \in 1..b.fat_blocks : FlushStep(step, b, F, copy, j)
      BY <2>3
    <3> HIDE DEF step
    <3>2. \A z \in FatCopies, c \in Cluster :
             Touches(step, FatBlockOf(b, z, c), FatOffset(b, c)) =>
                FatOffset(b, c) \in DOMAIN step.cells /\ step.cells[FatOffset(b, c)] = F[c]
      BY <3>1 DEF FlushStep
    <3>3. /\ step.block \in DOMAIN d /\ step.block # 0
          /\ \A c \in Cluster : step.block # FirstBlock(b, c)
          /\ DOMAIN step.put = {} /\ DOMAIN step.undo = {} /\ step.wipe = {}
          /\ step.intact = FALSE /\ step.zeros = {}
      <4>1. TableStep(step, b)
        BY <3>1, FlushClear
      <4> QED BY <1>7, <4>1 DEF TableStep
    <3>4. StepShapeIn(step, d, b, NoFat, "Format")
      <4>1. \A c \in Cluster : F[c] \in FatEntry
        BY <1>5
      <4>2. step.wipe \subseteq Cluster \ {Root} /\ step.block # FirstBlock(b, Root)
        BY <1>4, <3>3
      <4> QED BY <3>2, <3>3, <4>1, <4>2 DEF StepShapeIn
    <3>5. \A s \in Slots : ~Touches(step, FirstBlock(b, Root), s)
      BY <1>4, <3>3 DEF Touches
    <3> QED BY <3>2, <3>3, <3>4, <3>5 DEF step
  <2> QED BY <1>6, <2>1, <2>2, <2>3
<1>9. Plan(d, b, NoFat, t, k, <<>>, Slots)
  <2>1. RollbackSoundIn(NoFat, t, k)
    BY <1>2, <1>8 DEF RollbackSoundIn, RolledBack
  <2>2. k.slot \notin Slots
    BY <1>2, SlotsFacts
  <2> QED BY <1>2, <1>8, <2>1, <2>2 DEF Plan
<1>10. Now(d, b, NoFat, FALSE, k, <<>>, Slots, {})
  <2>1. DOMAIN <<>> \cap (IF k.op # "Format" /\ ~FALSE THEN Slots \ {k.slot} ELSE {}) = {}
    BY <1>2
  <2> QED BY <1>2, <2>1, NothingSound DEF Now
<1>11. CallShapeIn(FALSE, t, k, <<>>, Slots, {})
  BY <1>2, <1>3, <1>4, <1>6 DEF CallShapeIn, Steps
<1>12. FatAfterIn(NoFat, t) = F
  <2>1. \A c \in Cluster : FatAfterIn(NoFat, t)[c] = F[c]
    <3> TAKE c \in Cluster
    <3>1. NoFat[c] = F[c] \/ \E i \in DOMAIN t : c \in DOMAIN t[i].put
      <4>1. CASE c \in DOMAIN root
        <5>1. PICK i \in DOMAIN t : RootStep(t[i], b, root)
          BY <1>6
        <5> QED BY <4>1, <5>1 DEF RootStep
      <4>2. CASE c \notin DOMAIN root
        BY <1>5, <4>2
      <4> QED BY <4>1, <4>2
    <3>2. PutsLeave(NoFat, t, c, F[c])
      BY <1>8, <3>1 DEF PutsLeave
    <3> QED BY <1>6, <3>2, PutSame
  <2>2. FatAfterIn(NoFat, t) = [c \in Cluster |-> FatAfterIn(NoFat, t)[c]]
    BY DEF FatAfterIn
  <2>3. F = [c \in Cluster |-> F[c]]
    BY <1>5
  <2> QED BY <2>1, <2>2, <2>3
<1>13. \A s \in Slots : EntriesAfterIn(d, t, b)[s] = Unused
  <2> TAKE s \in Slots
  <2>1. CellIn(d, FirstBlock(b, Root), s, Unused) = Unused
    BY <1>1, <1>7
  <2>2. TouchesLeave(d, t, FirstBlock(b, Root), s, Unused, Unused)
    BY <1>8, <2>1 DEF TouchesLeave
  <2>3. CellAfterIn(d, t, FirstBlock(b, Root), s, Unused) = Unused
    BY <1>6, <2>2, TouchedSame
  <2> QED BY <2>3 DEF EntriesAfterIn
<1>14. Sound(EntriesAfterIn(d, t, b), DataAfterIn(d, t, b), FatAfterIn(NoFat, t), Slots, <<>>)
  <2>1. ~Occupied(Unused)
    BY DEF Occupied, Unused
  <2> QED BY <1>3, <1>13, <2>1 DEF Sound, Holds, Apart
<1>15. \A copy \in FatCopies : CopyAfterIn(d, t, b, copy) = F
  <2>1. Flushes(t, b, F)
    BY <1>6, <1>8 DEF Flushes
  <2> QED BY <1>5, <1>6, <2>1, FlushCopies
<1>16. CellAfterIn(d, t, 0, 0, ZeroBoot) = b
  <2>1. PICK i \in DOMAIN t : BootStep(t[i], b)
    BY <1>6
  <2>2. Touches(t[i], 0, 0)
    <3>1. DOMAIN Single(0, b) = {0}
      BY SingleFacts
    <3> QED BY <2>1, <3>1 DEF BootStep, Touches
  <2>3. TouchesLeave(d, t, 0, 0, ZeroBoot, b)
    BY <1>8, <2>2 DEF TouchesLeave, Touches
  <2> QED BY <1>6, <2>3, TouchedSame
<1>17. After(d, b, NoFat, FALSE, t, k, <<>>, Slots)
  <2>1. k.files = <<>> /\ (IF t = <<>> THEN <<>> ELSE k.files) = <<>>
    BY <1>2
  <2> QED BY <1>2, <1>12, <1>14, <1>15, <1>16, <2>1 DEF After
<1> QED
  BY <1>1, <1>2, <1>3, <1>4, <1>9, <1>10, <1>11, <1>17 DEF Open

-----------------------------------------------------------------------------
(* The theorem.                                                            *)

\* There is no image in the beginning.
LEMMA InitInv == Init => IInv
<1> SUFFICES ASSUME Init PROVE IInv
  OBVIOUS
<1>1. /\ disk = [i \in {0} |-> <<>>]
      /\ boot = ZeroBoot /\ fat = NoFat /\ dirty = FALSE
      /\ todo = <<>> /\ ret = "Ok" /\ call = NoCall
      /\ files = <<>> /\ sound = {} /\ safe = {}
  BY DEF Init
<1>2. BootIn(disk) = ZeroBoot
  <2>1. disk[0] = <<>>
    BY <1>1
  <2> QED BY <2>1, EmptyMap DEF BootIn, CellIn
<1>3. Closed(disk, files, safe)
  BY <1>1, <1>2, EmptyMap DEF Closed
<1>4. ClosedState
  BY <1>1, <1>3 DEF ClosedState, Returned
<1> QED
  BY <1>4, InvForms

\* Nothing but the result of a call changes.
LEMMA SameInv == IInv /\ UNCHANGED diskState /\ Returned(ret') => IInv'
<1> SUFFICES ASSUME IInv, UNCHANGED diskState, Returned(ret') PROVE IInv'
  OBVIOUS
<1>1. /\ disk' = disk /\ boot' = boot /\ fat' = fat /\ dirty' = dirty /\ todo' = todo
      /\ call' = call /\ files' = files /\ sound' = sound /\ safe' = safe
  BY DEF diskState
<1>2. CASE boot = ZeroBoot
  <2>1. ClosedState
    BY <1>2, InvClosed
  <2>2. ClosedState'
    BY <1>1, <2>1, ClosedNext DEF ClosedState
  <2> QED BY <2>2, InvNext
<1>3. CASE boot # ZeroBoot
  <2>1. OpenState
    BY <1>3, InvOpen
  <2>2. OpenState'
    BY <1>1, <2>1, OpenNext DEF OpenState
  <2> QED BY <2>2, InvNext
<1> QED
  BY <1>2, <1>3

\* A call that only returns.
LEMMA ReturnInv ==
    ASSUME IInv, NEW r, Return(r), Returned(r)
    PROVE  IInv'
  BY SameInv DEF Return, diskState

\* A step that changes nothing.
LEMMA StutterInv == IInv /\ UNCHANGED vars => IInv'
<1> SUFFICES ASSUME IInv, UNCHANGED vars PROVE IInv'
  OBVIOUS
<1>1. Returned(ret)
  BY DEF IInv, TypeOK, Returned
<1> QED
  BY <1>1, SameInv DEF vars, diskState

\* Between calls of an open file system.
LEMMA IdleState ==
    ASSUME IInv, boot # ZeroBoot, todo = <<>>
    PROVE  /\ Idle(disk, boot, fat, dirty, files, sound, safe) /\ call = NoCall
           /\ \A s \in Slots : EntryAt(boot, s) = EntriesIn(disk, boot)[s]
<1>1. Open(disk, boot, fat, dirty, todo, call, files, sound, safe)
  BY InvOpen DEF OpenState
<1>2. call = NoCall
  BY <1>1 DEF Open, CallShapeIn
<1>3. Idle(disk, boot, fat, dirty, files, sound, safe)
  BY <1>1, <1>2, OpenIdle
<1> QED
  BY <1>2, <1>3, Decoded

\* A call begins.
LEMMA BeginInv ==
    ASSUME IInv, NEW op, NEW s, NEW t, NEW after, Begin(op, s, t, after),
           Open(disk, boot, fat, dirty, t,
                [op |-> op, slot |-> s, fat |-> fat, files |-> after], files, sound, safe \ {s})
    PROVE  IInv'
<1>1. /\ todo' = t
      /\ call' = [op |-> op, slot |-> s, fat |-> fat, files |-> after]
      /\ safe' = safe \ {s}
      /\ disk' = disk /\ boot' = boot /\ fat' = fat /\ dirty' = dirty /\ ret' = ret
      /\ files' = files /\ sound' = sound
  BY DEF Begin
<1>2. Returned(ret)
  BY DEF IInv, TypeOK, Returned
<1>3. OpenState'
  BY <1>1, <1>2, OpenNext
<1> QED
  BY <1>3, InvNext

\* mkfs_myfs.
LEMMA FormatInv ==
    ASSUME IInv, NEW cfg \in Configs, Format(cfg)
    PROVE  IInv'
<1>1. ClosedState
  BY InvClosed DEF Format
<1>2. CASE ~Validate(cfg) /\ Return("InvalidConfig")
  BY <1>2, ReturnInv DEF Returned
<1>3. CASE Validate(cfg)
  <2> DEFINE b == Layout(cfg)
             root == Single(Root, EOC)
             d == [i \in 0..(b.block_count - 1) |-> <<>>]
             k == [NoCall EXCEPT !.op = "Format"]
             t == <<Step(0, {}, Single(0, b)), [ZeroCluster(b, Root) EXCEPT !.put = root]>>
                     \o FlushFats(b, Overlay(root, NoFat))
  <2>1. b \in BootSectors
    BY <1>3 DEF BootSectors
  <2>2. b.block_count = cfg.block_count
    BY DEF Layout
  <2>3. /\ disk' = d /\ boot' = b /\ todo' = t /\ call' = k
        /\ files' = <<>> /\ sound' = Slots /\ safe' = {}
        /\ fat' = fat /\ dirty' = dirty /\ ret' = ret
    BY <1>3, <2>2 DEF Format
  <2> HIDE DEF b
  <2>4. FormatPlan(t, b, root, Overlay(root, NoFat))
    BY <2>1, FormatSteps
  <2> HIDE DEF t
  <2>5. Open(d, b, NoFat, FALSE, t, k, <<>>, Slots, {})
    <3>1. BlankImage(d, b)
      BY <2>2 DEF BlankImage
    <3>2. DOMAIN root = {Root} /\ root[Root] = EOC
      BY SingleFacts
    <3>3. k = [NoCall EXCEPT !.op = "Format"]
      OBVIOUS
    <3> HIDE DEF d, k, root
    <3> QED BY <2>1, <2>4, <3>1, <3>2, <3>3, FormatOpen
  <2> HIDE DEF d, k, root
  <2>6. fat = NoFat /\ dirty = FALSE /\ Returned(ret)
    BY <1>1 DEF ClosedState
  <2>7. OpenState'
    BY <2>3, <2>5, <2>6, OpenNext
  <2> QED BY <2>7, InvNext
<1> QED
  BY <1>2, <1>3 DEF Format

\* open_on_device.
LEMMA MountInv == IInv /\ Mount => IInv'
<1> SUFFICES ASSUME IInv, Mount PROVE IInv'
  OBVIOUS
<1> DEFINE b == BootOnDisk
           dev == LogicalDevice(FileDevice(Cardinality(DOMAIN disk) * b.block_size, b.block_size),
                                b.block_size)
<1>1. ClosedState
  BY InvClosed DEF Mount
<1>2. /\ Closed(disk, files, safe) /\ fat = NoFat /\ dirty = FALSE /\ todo = <<>>
      /\ call = NoCall /\ sound = safe
  BY <1>1 DEF ClosedState
<1>3. CASE Return("CorruptFs")
  BY <1>3, ReturnInv DEF Returned
<1>4. CASE /\ BootAccepted(b, dev) /\ boot' = b /\ fat' = FatOnDisk(b, 1)
           /\ sound' = safe \cup {s \in Slots : ~Occupied(EntryAt(b, s))}
           /\ ret' = "Ok"
           /\ UNCHANGED <<disk, dirty, todo, call, files, safe>>
  <2>1. b = BootIn(disk) /\ \A s \in Slots : EntryAt(b, s) = EntriesIn(disk, b)[s]
    BY Decoded
  <2>2. FatOnDisk(b, 1) = CopyIn(disk, b, 1)
    BY Decoded DEF FatCopies
  <2>3. b # ZeroBoot
    <3> SUFFICES ASSUME b = ZeroBoot PROVE FALSE
      OBVIOUS
    <3>1. b.block_size = 0
      BY DEF ZeroBoot
    <3>2. b.block_size >= BootSize
      BY <1>4 DEF BootAccepted, CanFormat, Validate
    <3> QED BY <3>1, <3>2, SizeAssumption
  <2> HIDE DEF b
  <2> DEFINE n == safe \cup {s \in Slots : ~Occupied(EntriesIn(disk, b)[s])}
  <2>4. Idle(disk, b, CopyIn(disk, b, 1), FALSE, files, n, safe)
    BY <1>2, <2>1, <2>3, MountIdle
  <2>5. n = sound'
    BY <1>4, <2>1
  <2> HIDE DEF n
  <2>6. Open(disk, b, CopyIn(disk, b, 1), FALSE, <<>>, NoCall, files, n, safe)
    BY <2>4, OpenIdle
  <2>7. OpenState'
    BY <1>2, <1>4, <2>2, <2>5, <2>6, OpenNext DEF Returned
  <2> QED BY <2>7, InvNext
<1> QED
  BY <1>3, <1>4 DEF Mount

\* The process ends: what was stored is what counts.
LEMMA StopInv == IInv /\ Stop => IInv'
<1> SUFFICES ASSUME IInv, Stop PROVE IInv'
  OBVIOUS
<1>1. /\ boot # ZeroBoot
      /\ boot' = ZeroBoot /\ fat' = NoFat /\ dirty' = FALSE
      /\ todo' = <<>> /\ call' = NoCall
      /\ files' = [s \in DOMAIN files \cap safe |-> files[s]] /\ sound' = safe
      /\ disk' = disk /\ ret' = ret /\ safe' = safe
  BY DEF Stop
<1>2. Open(disk, boot, fat, dirty, todo, call, files, sound, safe) /\ Returned(ret)
  BY <1>1, InvOpen DEF OpenState
<1>3. Closed(disk, [s \in DOMAIN files \cap safe |-> files[s]], safe)
  BY <1>2, StopClosed
<1>4. ClosedState'
  BY <1>1, <1>2, <1>3, ClosedNext
<1> QED
  BY <1>4, InvNext

\* create_file.
LEMMA CreateInv == IInv /\ Create => IInv'
<1> SUFFICES ASSUME IInv, Create PROVE IInv'
  OBVIOUS
<1> DEFINE S == {s \in Slots : ~Occupied(EntryAt(boot, s))}
           m == Min(S)
           step == [WriteEntry(boot, m, File(FREE, 0)) EXCEPT !.intact = TRUE]
           after == Overlay(Single(m, <<>>), files)
           k == [op |-> "Create", slot |-> m, fat |-> fat, files |-> after]
<1>1. boot # ZeroBoot /\ todo = <<>> /\ S # {} /\ Begin("Create", m, <<step>>, after)
  BY DEF Create, Usable
<1>2. Idle(disk, boot, fat, dirty, files, sound, safe)
      /\ \A s \in Slots : EntryAt(boot, s) = EntriesIn(disk, boot)[s]
  BY <1>1, IdleState
<1>3. m \in S
  BY <1>1, MinIsLeast, SlotsFacts
<1>4. m \in Slots /\ ~Occupied(EntriesIn(disk, boot)[m])
  BY <1>2, <1>3
<1> HIDE DEF m
<1>5. Open(disk, boot, fat, dirty, <<step>>, k, files, sound, safe \ {m})
  BY <1>2, <1>4, CreateOpen
<1> QED
  BY <1>1, <1>5, BeginInv

\* The slot of a file a caller goes on using.
LEMMA KnownState ==
    ASSUME IInv, Usable, NEW s \in Known
    PROVE  /\ Idle(disk, boot, fat, dirty, files, sound, safe) /\ fat[Root] = EOC
           /\ s \in sound /\ s \in DOMAIN files /\ EntryAt(boot, s) = EntriesIn(disk, boot)[s]
           /\ s \in Slots /\ MaxSize[s] \in Nat /\ SizeOf(s) \in Nat
<1>1. boot # ZeroBoot /\ todo = <<>> /\ fat[Root] = EOC /\ s \in sound /\ s \in DOMAIN files
  BY DEF Usable, Known
<1>2. Idle(disk, boot, fat, dirty, files, sound, safe)
      /\ \A u \in Slots : EntryAt(boot, u) = EntriesIn(disk, boot)[u]
  BY <1>1, IdleState
<1>3. s \in Slots /\ EntriesIn(disk, boot)[s] \in Entry
  BY <1>1, <1>2, KnownFacts
<1>4. EntryAt(boot, s).size \in Nat
  BY <1>2, <1>3 DEF Entry
<1> QED
  BY <1>1, <1>2, <1>3, <1>4, ImageAssumption DEF SizeOf

\* rm.
LEMMA RmInv ==
    ASSUME IInv, Usable, NEW s \in Known, Rm(s)
    PROVE  IInv'
<1> DEFINE h == EntryAt(boot, s)
           p == Chain(fat, h.start)
           after == [u \in DOMAIN files \ {s} |-> files[u]]
           t == FreeChain(p) \o <<WriteEntry(boot, s, Deleted)>>
           k == [op |-> "Rm", slot |-> s, fat |-> fat, files |-> after]
<1>1. Begin("Rm", s, t, after)
  BY DEF Rm
<1>2. Idle(disk, boot, fat, dirty, files, sound, safe) /\ s \in sound /\ s \in DOMAIN files
      /\ h = EntriesIn(disk, boot)[s]
  BY KnownState
<1>3. p = Chain(fat, EntriesIn(disk, boot)[s].start)
  BY <1>2
<1> HIDE DEF p
<1>4. Open(disk, boot, fat, dirty, t, k, files, sound, safe \ {s})
  BY <1>2, <1>3, RmOpen
<1> QED
  BY <1>1, <1>4, BeginInv

\* write_at.
LEMMA WriteInv ==
    ASSUME IInv, Usable, NEW s \in Known, NEW val \in Values,
           NEW from \in 0..MaxSize[s], NEW upto \in 0..MaxSize[s], from < upto,
           Write(s, from, upto, val)
    PROVE  IInv'
<1> DEFINE h == EntryAt(boot, s)
           after == [files EXCEPT ![s] = Filled(@, from, upto, val)]
           t == GrowAndFill(h, from, upto, val) \o <<WriteEntry(boot, s, NewEntry(h, upto))>>
           k == [op |-> "Write", slot |-> s, fat |-> fat, files |-> after]
<1>1. Idle(disk, boot, fat, dirty, files, sound, safe) /\ fat[Root] = EOC
      /\ s \in sound /\ s \in DOMAIN files /\ h = EntriesIn(disk, boot)[s] /\ MaxSize[s] \in Nat
  BY KnownState
<1>2. from \in Nat /\ upto \in Nat /\ val \in Nat /\ val # 0
  BY <1>1, ImageAssumption
<1>3. CASE Return("NoSpace")
  BY <1>3, ReturnInv DEF Returned
<1>4. CASE Fits(fat, h.start, Clusters(upto)) /\ Begin("Write", s, t, after)
  <2> HIDE DEF h
  <2>1. Open(disk, boot, fat, dirty, t, k, files, sound, safe \ {s})
    BY <1>1, <1>2, <1>4, WriteCallOpen
  <2> QED BY <1>4, <2>1, BeginInv
<1> QED
  BY <1>3, <1>4 DEF Write

\* truncate to a larger size.
LEMMA GrowInv ==
    ASSUME IInv, Usable, NEW s \in Known, NEW size \in 0..MaxSize[s], size > SizeOf(s),
           Grow(s, size)
    PROVE  IInv'
<1> DEFINE h == EntryAt(boot, s)
           after == [files EXCEPT ![s] = Filled(@, Len(@), size, 0)]
           fill == GrowAndFill(h, h.size, size, 0)
           t == Append(fill, [Last(fill) EXCEPT
                                 !.block = FirstBlock(boot, Root), !.zeros = {},
                                 !.cells = Single(s, NewEntry(h, size))])
           k == [op |-> "Grow", slot |-> s, fat |-> fat, files |-> after]
<1>1. Idle(disk, boot, fat, dirty, files, sound, safe) /\ fat[Root] = EOC
      /\ s \in sound /\ s \in DOMAIN files /\ h = EntriesIn(disk, boot)[s] /\ MaxSize[s] \in Nat
      /\ h.size \in Nat
  BY KnownState DEF SizeOf
<1>2. size \in Nat /\ h.size < size
  BY <1>1 DEF SizeOf
<1>3. CASE Return("NoSpace")
  BY <1>3, ReturnInv DEF Returned
<1>4. CASE Fits(fat, h.start, Clusters(size)) /\ Begin("Grow", s, t, after)
  <2> HIDE DEF h
  <2>1. Open(disk, boot, fat, dirty, t, k, files, sound, safe \ {s})
    BY <1>1, <1>2, <1>4, GrowCallOpen
  <2> QED BY <1>4, <2>1, BeginInv
<1> QED
  BY <1>3, <1>4 DEF Grow

\* truncate to a smaller size.
LEMMA ShrinkInv ==
    ASSUME IInv, Usable, NEW s \in Known, NEW size \in 0..MaxSize[s], size < SizeOf(s),
           Shrink(s, size)
    PROVE  IInv'
<1> DEFINE h == EntryAt(boot, s)
           p == Chain(fat, h.start)
           kept == Clusters(size)
           end == IF kept = 0 THEN <<>> ELSE Single(p[kept], EOC)
           freed == FreeChain(SubSeq(p, kept + 1, Len(p)))
           freeing == [i \in DOMAIN freed |-> [freed[i] EXCEPT !.put = Overlay(@, end)]]
           tail == IF kept = 0 THEN <<>> ELSE ZeroTail(boot, p[kept], size, end)
           e == File(IF kept = 0 THEN FREE ELSE h.start, size)
           after == [files EXCEPT ![s] = SubSeq(@, 1, size)]
           t == (freeing \o tail) \o <<WriteEntry(boot, s, e)>>
           k == [op |-> "Shrink", slot |-> s, fat |-> fat, files |-> after]
<1>1. Begin("Shrink", s, t, after)
  BY DEF Shrink
<1>2. Idle(disk, boot, fat, dirty, files, sound, safe)
      /\ s \in sound /\ s \in DOMAIN files /\ h = EntriesIn(disk, boot)[s] /\ MaxSize[s] \in Nat
  BY KnownState
<1>3. size \in Nat /\ size < h.size
  BY <1>2 DEF SizeOf
<1>4. Open(disk, boot, fat, dirty, t, k, files, sound, safe \ {s})
  <2>1. Cut(fat, h, p, size, kept, end, freed, freeing, tail, e, files, s, after, k)
    BY DEF Cut, Freeing
  <2> HIDE DEF h, p, kept, end, freed, freeing, tail, e, after, k
  <2> QED BY <1>2, <1>3, <2>1, ShrinkOpen
<1> QED
  BY <1>1, <1>4, BeginInv

\* The calls on a known file.
LEMMA FileCallInv == IInv /\ FileCall => IInv'
<1> SUFFICES ASSUME IInv, FileCall PROVE IInv'
  OBVIOUS
<1>1. Usable
  BY DEF FileCall
<1>2. ASSUME NEW s \in Known, Rm(s) PROVE IInv'
  BY <1>1, <1>2, RmInv
<1>3. ASSUME NEW s \in Known, NEW val \in Values, NEW from \in 0..MaxSize[s],
             NEW upto \in 0..MaxSize[s], from < upto, Write(s, from, upto, val)
      PROVE  IInv'
  BY <1>1, <1>3, WriteInv
<1>4. ASSUME NEW s \in Known, NEW size \in 0..MaxSize[s], size > SizeOf(s), Grow(s, size)
      PROVE  IInv'
  BY <1>1, <1>4, GrowInv
<1>5. ASSUME NEW s \in Known, NEW size \in 0..MaxSize[s], size < SizeOf(s), Shrink(s, size)
      PROVE  IInv'
  BY <1>1, <1>5, ShrinkInv
<1> QED
  BY <1>2, <1>3, <1>4, <1>5 DEF FileCall

\* sync.
LEMMA SyncInv == IInv /\ Sync => IInv'
<1> SUFFICES ASSUME IInv, Sync PROVE IInv'
  OBVIOUS
<1>1. Idle(disk, boot, fat, dirty, files, sound, safe) /\ call = NoCall
  BY IdleState DEF Sync
<1>2. CASE /\ ~dirty /\ safe' = sound /\ ret' = "Ok"
           /\ UNCHANGED <<disk, boot, fat, dirty, todo, call, files, sound>>
  <2>1. dirty = FALSE
    BY <1>1, <1>2 DEF Idle
  <2>2. Idle(disk, boot, fat, FALSE, files, sound, sound)
    BY <1>1, <2>1, SyncIdle
  <2>3. Open(disk, boot, fat, FALSE, <<>>, NoCall, files, sound, sound)
    BY <2>2, OpenIdle
  <2>4. todo = <<>>
    BY DEF Sync
  <2>5. OpenState'
    BY <1>1, <1>2, <2>1, <2>3, <2>4, OpenNext DEF Returned
  <2> QED BY <2>5, InvNext
<1>3. CASE dirty /\ Begin("Sync", 0, FlushFats(boot, fat), files)
  <2> DEFINE k == [op |-> "Sync", slot |-> 0, fat |-> fat, files |-> files]
  <2>1. dirty = TRUE
    BY <1>1, <1>3 DEF Idle
  <2>2. Open(disk, boot, fat, TRUE, FlushFats(boot, fat), k, files, sound, safe)
    BY <1>1, <2>1, SyncCallOpen
  <2>3. safe \ {0} = safe
    BY <1>1, SlotsFacts DEF Idle
  <2>4. Open(disk, boot, fat, dirty, FlushFats(boot, fat), k, files, sound, safe \ {0})
    BY <2>1, <2>2, <2>3
  <2> QED BY <1>3, <2>4, BeginInv
<1> QED
  BY <1>2, <1>3 DEF Sync

\* Only an open file system has writes to make.
LEMMA CallState ==
    ASSUME IInv, todo # <<>>
    PROVE  /\ Open(disk, boot, fat, dirty, todo, call, files, sound, safe)
           /\ Head(todo) = todo[1] /\ Len(todo) \in Nat /\ Returned(ret)
<1>1. boot # ZeroBoot
  BY InvClosed DEF ClosedState
<1>2. Open(disk, boot, fat, dirty, todo, call, files, sound, safe) /\ Returned(ret)
  BY <1>1, InvOpen DEF OpenState
<1>3. todo \in Seq(ToSet(todo))
  BY <1>2 DEF Open, CallShapeIn
<1> QED
  BY <1>2, <1>3

\* A block write succeeds.
LEMMA DeviceWriteInv == IInv /\ DeviceWrite => IInv'
<1> SUFFICES ASSUME IInv, DeviceWrite PROVE IInv'
  OBVIOUS
<1> DEFINE step == Head(todo)
           last == Len(todo) = 1
           synced == last /\ call.op \in {"Format", "Sync"}
           put == DOMAIN step.put # {}
<1>1. /\ todo # <<>>
      /\ disk' = WriteTo(disk, step)
      /\ fat' = Overlay(step.put, fat)
      /\ dirty' = ((dirty \/ put) /\ ~synced)
      /\ todo' = Tail(todo)
      /\ IF last THEN files' = call.files /\ call' = NoCall /\ ret' = "Ok"
                 ELSE UNCHANGED <<files, call, ret>>
      /\ safe' = IF synced THEN sound ELSE safe
      /\ UNCHANGED <<boot, sound>>
  BY DEF DeviceWrite, WriteTo
<1>2. Open(disk, boot, fat, dirty, todo, call, files, sound, safe)
      /\ step = todo[1] /\ Len(todo) \in Nat /\ Returned(ret)
  BY <1>1, CallState
<1>3. dirty' \in BOOLEAN /\ (put <=> DOMAIN todo[1].put # {})
  BY <1>1, <1>2
<1>4. CASE ~last
  <2>1. dirty' <=> dirty \/ DOMAIN todo[1].put # {}
    BY <1>1, <1>3, <1>4
  <2>2. Open(WriteTo(disk, todo[1]), boot, Overlay(todo[1].put, fat), dirty', Tail(todo),
             call, files, sound, safe)
    <3> DEFINE w == dirty'
               l == Len(todo)
    <3>1. w \in BOOLEAN /\ (w <=> dirty \/ DOMAIN todo[1].put # {}) /\ l # 1
      BY <1>3, <1>4, <2>1
    <3> HIDE DEF w, l
    <3>2. Len(todo) # 1
      BY <3>1 DEF l
    <3>3. todo # <<>>
      BY <1>1
    <3>4. Open(WriteTo(disk, todo[1]), boot, Overlay(todo[1].put, fat), w, Tail(todo),
               call, files, sound, safe)
      BY ONLY <1>2, <3>1, <3>2, <3>3, WriteOpen
    <3> QED BY <3>4 DEF w
  <2>3. OpenState'
    BY <1>1, <1>2, <1>4, <2>2, OpenNext
  <2> QED BY <2>3, InvNext
<1>5. CASE last
  <2>1. dirty' <=> (dirty \/ DOMAIN todo[1].put # {}) /\ call.op \notin {"Format", "Sync"}
    BY <1>1, <1>3, <1>5
  <2>2. Idle(WriteTo(disk, todo[1]), boot, Overlay(todo[1].put, fat), dirty', call.files, sound,
             IF call.op \in {"Format", "Sync"} THEN sound ELSE safe)
    BY <1>1, <1>2, <1>3, <1>5, <2>1, WriteIdle
  <2>3. Idle(disk', boot', fat', dirty', files', sound', safe')
    BY <1>1, <1>2, <1>5, <2>2
  <2>4. Open(disk', boot', fat', dirty', <<>>, NoCall, files', sound', safe')
    BY <2>3, OpenIdle
  <2>5. todo' = <<>>
    <3>1. todo \in Seq(ToSet(todo))
      BY <1>2 DEF Open, CallShapeIn
    <3> HIDE DEF step, put
    <3> QED BY <1>1, <1>5, <3>1
  <2>6. OpenState'
    BY <1>1, <1>5, <2>4, <2>5, OpenNext DEF Returned
  <2> QED BY <2>6, InvNext
<1> QED
  BY <1>4, <1>5

\* A block write fails, and the call rolls back what it does roll back.
LEMMA FaultInv == IInv /\ Fault => IInv'
<1> SUFFICES ASSUME IInv, Fault PROVE IInv'
  OBVIOUS
<1> DEFINE step == Head(todo)
           torn == IF step.intact THEN {} ELSE {call.slot}
<1>1. /\ todo # <<>> /\ call.op # "Format"
      /\ disk' = Wiped(disk, boot, step.wipe)
      /\ fat' = Overlay(step.undo, Overlay(step.put, fat))
      /\ dirty' = (dirty \/ DOMAIN step.put \cup DOMAIN step.undo # {})
      /\ todo' = <<>> /\ call' = NoCall /\ ret' = "DeviceError"
      /\ sound' = sound \ torn
      /\ files' = [s \in DOMAIN files \ torn |-> files[s]]
      /\ UNCHANGED <<boot, safe>>
  BY DEF Fault, Wiped
<1>2. Open(disk, boot, fat, dirty, todo, call, files, sound, safe)
  BY <1>1, CallState
<1>3. Idle(Wiped(disk, boot, step.wipe), boot, Overlay(step.undo, Overlay(step.put, fat)),
           (dirty \/ DOMAIN step.put \cup DOMAIN step.undo # {}),
           [s \in DOMAIN files \ torn |-> files[s]], sound \ torn, safe)
  BY ZenonT(30), <1>1, <1>2, FaultIdle
<1> HIDE DEF step, torn
<1>4. Idle(disk', boot', fat', dirty', files', sound', safe')
  BY <1>1, <1>3
<1>5. Open(disk', boot', fat', dirty', <<>>, NoCall, files', sound', safe')
  BY <1>4, OpenIdle
<1>6. OpenState'
  BY <1>1, <1>5, OpenNext DEF Returned
<1> QED
  BY <1>6, InvNext

\* Every step preserves the invariant.
LEMMA NextInv == IInv /\ [Next]_vars => IInv'
<1> SUFFICES ASSUME IInv, [Next]_vars PROVE IInv'
  OBVIOUS
<1>1. ASSUME NEW cfg \in Configs, Format(cfg) PROVE IInv'
  BY <1>1, FormatInv
<1>2. CASE Mount
  BY <1>2, MountInv
<1>3. CASE Stop
  BY <1>3, StopInv
<1>4. CASE Create
  BY <1>4, CreateInv
<1>5. CASE FileCall
  BY <1>5, FileCallInv
<1>6. CASE Sync
  BY <1>6, SyncInv
<1>7. CASE DeviceWrite
  BY <1>7, DeviceWriteInv
<1>8. CASE Fault
  BY <1>8, FaultInv
<1>9. CASE UNCHANGED vars
  BY <1>9, StutterInv
<1> QED
  BY <1>1, <1>2, <1>3, <1>4, <1>5, <1>6, <1>7, <1>8, <1>9 DEF Next

\* The inductive invariant holds of every behaviour.
THEOREM InvariantHolds == Spec => []IInv
<1>1. Init => IInv
  BY InitInv
<1>2. IInv /\ [Next]_vars => IInv'
  BY NextInv
<1> QED
  BY <1>1, <1>2, PTL DEF Spec

\* Whatever is put into the FAT, rolled back or read from the image is an entry for a
\* data cluster, and every write of a call in progress is to a block of the device.
THEOREM TypeCorrect == Spec => []TypeOK
<1>1. IInv => TypeOK
  BY DEF IInv
<1> QED
  BY <1>1, InvariantHolds, PTL

-----------------------------------------------------------------------------
(* What follows from the invariant.                                        *)

\* The cluster that holds a unit, and its place in it.
LEMMA UnitPlace ==
    ASSUME NEW p \in Nat \ {0}
    PROVE  LET i == Clusters(p)
               k == ((p - 1) % ClusterSize) + 1
           IN  i \in Nat \ {0} /\ k \in Units /\ (i - 1) * ClusterSize + k = p
<1> DEFINE m == ClusterSize
           i == Clusters(p)
           q == (p - 1) \div m
           r == (p - 1) % m
<1>1. m \in Nat \ {0} /\ i \in Nat
  BY ClustersFacts
<1>2. i * m >= p /\ i * m < p + m
  BY <1>1, CeilDivFacts DEF Clusters
<1>3. q \in Nat /\ r \in 0..(m - 1) /\ p - 1 = q * m + r
  BY <1>1
<1> HIDE DEF i, q, r
<1>4. q + 1 = i
  <2> DEFINE qm == q * m
             im == i * m
  <2>1. qm \in Nat /\ im \in Nat
    BY <1>1, <1>3
  <2>2. ~(i <= q)
    <3>1. i <= q => im <= qm
      BY <1>1, <1>3, TimesOrder
    <3>2. im >= p /\ p - 1 = qm + r /\ p \in Nat /\ r \in Nat
      BY <1>1, <1>2, <1>3
    <3> HIDE DEF qm, im
    <3> QED BY <2>1, <3>1, <3>2
  <2>3. ~(q + 1 < i)
    <3>1. q + 1 < i => (q + 1) * m + m <= im
      BY <1>1, <1>3, TimesOrder
    <3>2. (q + 1) * m = qm + m
      BY <1>1, <1>3
    <3>3. im < p + m /\ p - 1 = qm + r /\ p \in Nat /\ r \in Nat /\ r < m /\ m \in Nat
      BY <1>1, <1>2, <1>3
    <3> HIDE DEF qm, im, m
    <3> QED BY <2>1, <3>1, <3>2, <3>3
  <2> QED BY <1>1, <1>3, <2>2, <2>3
<1>5. i \in Nat \ {0} /\ i - 1 = q
  BY <1>1, <1>3, <1>4
<1>6. r + 1 \in Units
  BY <1>1, <1>3 DEF Units
<1>7. q * m + (r + 1) = p
  <2> DEFINE qm == q * m
  <2>1. qm \in Nat /\ p - 1 = qm + r /\ r \in Nat
    BY <1>1, <1>3
  <2> HIDE DEF qm
  <2>2. qm + (r + 1) = p
    BY <2>1
  <2> QED BY <2>2 DEF qm
<1> QED
  BY <1>5, <1>6, <1>7 DEF i, r

\* What slot s of an image reads as: exactly the expected file.
Reads(b, f, e, s, x) ==
    /\ Occupied(e) <=> s \in DOMAIN x
    /\ s \in DOMAIN x =>
          /\ e.size = Len(x[s])
          /\ Readable(f, e.start, e.size)
          /\ ReadChain(b, f, e.start, e.size) = x[s]

\* A slot that holds a file reads as that file.
LEMMA HeldReads ==
    ASSUME NEW b, NEW f \in [Cluster -> FatEntry], NEW s \in Slots, NEW x,
           EntriesIn(disk, b) \in [Slots -> Entry],
           Holds(EntriesIn(disk, b), DataIn(disk, b), f, s, x)
    PROVE  Reads(b, f, EntryAt(b, s), s, x)
<1> DEFINE e == EntryAt(b, s)
           h == e.start
           n == Clusters(e.size)
           p == Chain(f, h)
<1>1. e = EntriesIn(disk, b)[s] /\ h \in Cluster \cup {FREE} /\ e.size \in Nat
  BY Decoded, EntryStart
<1>2. Occupied(e) <=> s \in DOMAIN x
  BY <1>1 DEF Holds
<1>3. ASSUME s \in DOMAIN x
      PROVE  e.size = Len(x[s]) /\ Readable(f, h, e.size) /\ ReadChain(b, f, h, e.size) = x[s]
  <2>1. /\ x[s] \in Seq(Nat) /\ e.size = Len(x[s]) /\ Whole(f, h, n)
        /\ \A i \in 1..n, k \in Units : DataIn(disk, b)[p[i]][k] = At(x[s], (i - 1) * ClusterSize + k)
    BY <1>1, <1>3 DEF Holds
  <2>2. p \in Seq(Cluster \ {Root}) /\ Len(p) = n /\ (h = FREE <=> n = 0)
        /\ (n > 0 => f[p[n]] = EOC)
    BY <2>1 DEF Whole
  <2>3. n \in Nat /\ e.size \in Nat
    BY <1>1, ClustersFacts
  <2>4. Readable(f, h, e.size)
    <3>1. h # FREE => f[Last(p)] = EOC
      BY <2>2, <2>3 DEF Last
    <3>2. Len(p) >= n
      BY <2>2, <2>3
    <3> QED BY <3>1, <3>2 DEF Readable
  <2> DEFINE Value(u) == Unit(b, p[Clusters(u)], ((u - 1) % ClusterSize) + 1)
             size == e.size
             file == x[s]
  <2>5. ASSUME NEW u \in 1..size
        PROVE  Value(u) = file[u]
    <3> DEFINE i == Clusters(u)
               k == ((u - 1) % ClusterSize) + 1
    <3>1. i \in Nat \ {0} /\ k \in Units /\ (i - 1) * ClusterSize + k = u
      BY UnitPlace
    <3>2. i <= n
      BY <2>3, <2>5, SizeKept
    <3> HIDE DEF i, k, n, p
    <3>3. i \in 1..n /\ p[i] \in Cluster
      BY <2>2, <2>3, <3>1, <3>2
    <3>4. DataIn(disk, b)[p[i]][k] = At(file, u)
      BY <2>1, <3>1, <3>3
    <3>5. DataIn(disk, b)[p[i]][k] = CellIn(disk, FirstBlock(b, p[i]), k, 0)
      BY <3>1, <3>3 DEF DataIn
    <3>6. Unit(b, p[i], k) = CellIn(disk, FirstBlock(b, p[i]), k, 0)
      BY Decoded
    <3>7. At(file, u) = file[u]
      BY <2>1, <2>5 DEF At
    <3>8. Unit(b, p[i], k) = file[u]
      BY <3>4, <3>5, <3>6, <3>7
    <3> QED BY <3>8 DEF i, k
  <2>6. ReadChain(b, f, h, size) = [u \in 1..size |-> Value(u)]
    BY DEF ReadChain
  <2> HIDE DEF Value
  <2>7. file = [u \in 1..size |-> file[u]]
    BY <2>1, <2>3
  <2>8. ReadChain(b, f, h, size) = file
    BY <2>5, <2>6, <2>7
  <2> QED BY <2>1, <2>4, <2>8
<1> QED
  BY <1>2, <1>3 DEF Reads

\* The invariant implies the properties: the first copy is a clean table, ...
LEMMA CleanFact == IInv => CleanIsStored
<1> SUFFICES ASSUME IInv, boot # ZeroBoot, todo = <<>>, ~dirty
             PROVE  FatOnDisk(boot, 1) = fat
  BY DEF CleanIsStored
<1>1. call = NoCall /\ CleanSound
  BY IdleState DEF IInv
<1>2. Ready
  BY <1>1, NoCallFacts DEF Ready
<1> QED
  BY <1>1, <1>2 DEF CleanSound

\* ... sound slots read back, ...
LEMMA ReadsFact == IInv => ReadsBack
<1> SUFFICES ASSUME IInv, boot # ZeroBoot, todo = <<>>, NEW s \in sound
             PROVE  Reads(boot, fat, EntryAt(boot, s), s, files)
  BY DEF ReadsBack, Reads
<1>1. Idle(disk, boot, fat, dirty, files, sound, safe)
  BY IdleState
<1>2. /\ fat \in [Cluster -> FatEntry] /\ s \in Slots
      /\ EntriesIn(disk, boot) \in [Slots -> Entry]
      /\ Holds(EntriesIn(disk, boot), DataIn(disk, boot), fat, s, files)
  BY <1>1 DEF Idle, Shape, Sound
<1> QED
  BY <1>2, HeldReads

\* The units behind the end of a file in its last cluster.
LEMMA TailUnit ==
    ASSUME NEW size \in Nat, size % ClusterSize # 0, NEW k \in Units, k > size % ClusterSize
    PROVE  LET n == Clusters(size)
           IN  /\ n >= 1 /\ (n - 1) * ClusterSize + k > size
               /\ (n - 1) * ClusterSize + k \in Nat
<1> DEFINE m == ClusterSize
           n == Clusters(size)
           r == size % m
<1>1. m \in Nat \ {0} /\ n \in Nat /\ r \in Nat /\ 1 \in Units /\ 1 \in Nat \ {0}
  BY ClustersFacts DEF Units
<1>2. n >= 1
  <2> SUFFICES ASSUME 1 > n PROVE FALSE
    BY <1>1
  <2>1. (1 - 1) * m + 1 > size
    BY <1>1, SizeFacts
  <2>2. (1 - 1) * m + 1 = 1
    BY <1>1
  <2>3. size = 0
    BY <2>1, <2>2
  <2>4. 0 % m = 0
    BY <1>1
  <2> QED BY <2>3, <2>4
<1>3. n \in Nat \ {0}
  BY <1>1, <1>2
<1> DEFINE u == (n - 1) * m + k
<1>4. u \in Nat \ {0}
  BY <1>3, UnitFacts
<1>5. u <= size <=> k <= r
  BY <1>3, SizeFacts
<1>6. k \in Nat /\ ~(k <= r)
  BY <1>1 DEF Units
<1> HIDE DEF u
<1>7. u > size
  BY <1>4, <1>5, <1>6
<1> QED
  BY <1>2, <1>4, <1>7 DEF u

\* ... nothing is left behind the end of a file, ...
LEMMA TailFact == IInv => BeyondEndZero
<1> SUFFICES ASSUME IInv, boot # ZeroBoot, todo = <<>>, NEW s \in Known, NEW k \in Units,
                    EntryAt(boot, s).size % ClusterSize \in 1..(k - 1)
             PROVE  Unit(boot, Last(Chain(fat, EntryAt(boot, s).start)), k) = 0
  BY DEF BeyondEndZero
<1> DEFINE e == EntryAt(boot, s)
           p == Chain(fat, e.start)
           n == Clusters(e.size)
           r == e.size % ClusterSize
           data == DataIn(disk, boot)
           size == e.size
<1>1. /\ Idle(disk, boot, fat, dirty, files, sound, safe) /\ s \in sound /\ s \in DOMAIN files
      /\ \A u \in Slots : EntryAt(boot, u) = EntriesIn(disk, boot)[u]
  BY IdleState DEF Known
<1>2. /\ s \in Slots /\ Holds(EntriesIn(disk, boot), data, fat, s, files)
      /\ EntriesIn(disk, boot) \in [Slots -> Entry]
  BY <1>1 DEF Idle, Shape, Sound
<1>3. e = EntriesIn(disk, boot)[s] /\ size \in Nat
  BY <1>1, <1>2, EntryStart
<1>4. /\ files[s] \in Seq(Nat) /\ size = Len(files[s]) /\ p \in Seq(Cluster \ {Root}) /\ Len(p) = n
      /\ \A i \in 1..n, j \in Units : data[p[i]][j] = At(files[s], (i - 1) * ClusterSize + j)
  BY <1>1, <1>2, <1>3 DEF Holds, Whole
<1>5. n \in Nat /\ r \in Nat /\ r # 0 /\ k > r /\ 1 \in Units /\ k \in Nat
  <2>1. ClusterSize \in Nat \ {0} /\ n \in Nat
    BY <1>3, ClustersFacts
  <2> QED BY <1>3, <2>1 DEF Units
<1>6. n >= 1 /\ (n - 1) * ClusterSize + k > size /\ (n - 1) * ClusterSize + k \in Nat
  <2> HIDE DEF e
  <2> QED BY <1>3, <1>5, TailUnit
<1>8. At(files[s], (n - 1) * ClusterSize + k) = 0
  <2> DEFINE u == (n - 1) * ClusterSize + k
  <2>1. u > size /\ u \in Nat
    BY <1>6
  <2> HIDE DEF u
  <2>2. At(files[s], u) = 0
    BY <1>3, <1>4, <2>1 DEF At
  <2> QED BY <2>2 DEF u
<1> HIDE DEF n
<1>9. n \in 1..n /\ Last(p) = p[n] /\ p[n] \in Cluster
  BY <1>4, <1>5, <1>6 DEF Last
<1>10. data[p[n]][k] = 0
  BY <1>4, <1>8, <1>9
<1>11. data[p[n]][k] = Unit(boot, p[n], k)
  <2>1. data[p[n]][k] = CellIn(disk, FirstBlock(boot, p[n]), k, 0)
    BY <1>9 DEF DataIn
  <2> QED BY <2>1, Decoded
<1> QED
  BY <1>9, <1>10, <1>11

\* ... the image alone, through either copy, holds what was synced, ...
LEMMA SyncedFact == IInv => SyncedSurvive
<1> SUFFICES ASSUME IInv, NEW s \in safe, NEW copy \in FatCopies
             PROVE  Reads(BootOnDisk, FatOnDisk(BootOnDisk, copy), EntryAt(BootOnDisk, s), s, files)
  BY DEF SyncedSurvive, Reads
<1> DEFINE b == BootOnDisk
           entries == EntriesIn(disk, b)
           data == DataIn(disk, b)
           copies == TablesIn(disk, b)
           g == FatOnDisk(b, copy)
<1>1. PICK f \in [Cluster -> FatEntry] :
         /\ s \in Slots /\ Shape(disk, b) /\ Holds(entries, data, f, s, files)
         /\ s \in DOMAIN files => \A c \in ChainOf(entries, f, s) : copies[copy][c] = f[c]
  <2>1. CASE boot = ZeroBoot
    <3>1. Closed(disk, files, safe) /\ b = BootIn(disk)
      BY <2>1, InvClosed, Decoded DEF ClosedState
    <3>2. b # ZeroBoot
      BY <3>1 DEF Closed
    <3> DEFINE f == CopyIn(disk, b, 1)
    <3>3. /\ Shape(disk, b) /\ Sound(entries, data, f, safe, files)
          /\ Stored(entries, f, copies, DOMAIN files \cap safe) /\ s \in Slots
      BY <3>1, <3>2 DEF Closed
    <3>4. f \in [Cluster -> FatEntry]
      <4>1. copies[1] = f /\ copies \in [FatCopies -> [Cluster -> FatEntry]] /\ 1 \in FatCopies
        BY <3>3 DEF TablesIn, Shape, FatCopies
      <4> QED BY <4>1
    <3> HIDE DEF f
    <3>5. Holds(entries, data, f, s, files)
      BY <3>3 DEF Sound
    <3>6. s \in DOMAIN files => \A c \in ChainOf(entries, f, s) : copies[copy][c] = f[c]
      BY <3>3 DEF Stored
    <3> QED BY <3>3, <3>4, <3>5, <3>6
  <2>2. CASE boot # ZeroBoot
    <3>1. Open(disk, boot, fat, dirty, todo, call, files, sound, safe)
      BY <2>2, InvOpen DEF OpenState
    <3>2. /\ fat \in [Cluster -> FatEntry] /\ safe \subseteq sound /\ sound \subseteq Slots
          /\ Shape(disk, boot) /\ (call.op # "Format" => BootIn(disk) = boot)
          /\ CallShapeIn(dirty, todo, call, files, sound, safe)
          /\ Now(disk, boot, fat, dirty, call, files, sound, safe)
      BY <3>1 DEF Open
    <3>3. call.op # "Format" /\ s \in sound \ {call.slot} /\ s \in Slots
      BY <3>2 DEF CallShapeIn
    <3>4. b = boot
      BY <3>2, <3>3, Decoded
    <3>5. Sound(entries, data, fat, sound \ {call.slot}, files)
      BY <3>2, <3>3, <3>4 DEF Now
    <3>6. Stored(entries, fat, copies,
                 DOMAIN files \cap (IF ~dirty THEN sound \ {call.slot} ELSE safe))
      BY <3>2, <3>3, <3>4 DEF Now
    <3>7. Holds(entries, data, fat, s, files)
      BY <3>3, <3>5 DEF Sound
    <3>8. s \in DOMAIN files => \A c \in ChainOf(entries, fat, s) : copies[copy][c] = fat[c]
      BY <3>3, <3>6 DEF Stored
    <3> QED BY <3>2, <3>3, <3>4, <3>7, <3>8
  <2> QED BY <2>1, <2>2
<1>2. g = copies[copy] /\ g \in [Cluster -> FatEntry] /\ entries \in [Slots -> Entry]
  <2>1. g = CopyIn(disk, b, copy)
    BY Decoded
  <2>2. copies \in [FatCopies -> [Cluster -> FatEntry]] /\ copies[copy] = CopyIn(disk, b, copy)
        /\ entries \in [Slots -> Entry]
    BY <1>1 DEF Shape, TablesIn
  <2> QED BY <2>1, <2>2
<1> HIDE DEF entries, data, copies, g
<1>3. Kept(entries, data, f, files, entries, data, g, files, s)
  BY <1>1, <1>2 DEF Kept
<1>4. Holds(entries, data, g, s, files)
  <2>1. entries[s].start \in Cluster \cup {FREE}
    BY <1>1, <1>2, EntryStart
  <2> QED BY <1>1, <1>2, <1>3, <2>1, HoldsLocal
<1> QED
  BY <1>1, <1>2, <1>4, HeldReads DEF entries, data, g

\* ... and a failed growth leaves the table as it was before the call.
LEMMA RollbackStep ==
    IInv /\ [Next]_vars =>
        [/\ todo # <<>> /\ ret' = "DeviceError" /\ todo' = <<>> /\ boot' # ZeroBoot
         /\ call.op = "Grow" \/ (call.op = "Write" /\ Len(todo) > 1)
         => fat' = call.fat]_vars
<1> SUFFICES ASSUME IInv, Next, todo # <<>>, ret' = "DeviceError", todo' = <<>>,
                    boot' # ZeroBoot, call.op = "Grow" \/ (call.op = "Write" /\ Len(todo) > 1)
             PROVE  fat' = call.fat
  BY DEF vars
<1>1. Open(disk, boot, fat, dirty, todo, call, files, sound, safe) /\ Len(todo) \in Nat
      /\ boot # ZeroBoot /\ Head(todo) = todo[1]
  <2>1. boot # ZeroBoot
    BY InvClosed DEF ClosedState
  <2> QED BY <2>1, CallState
<1>2. /\ Plan(disk, boot, fat, todo, call, files, sound) /\ fat \in [Cluster -> FatEntry]
      /\ CallShapeIn(dirty, todo, call, files, sound, safe)
  BY <1>1 DEF Open
<1>3. /\ todo \in Seq(ToSet(todo)) /\ call.fat \in [Cluster -> FatEntry]
  BY <1>2 DEF CallShapeIn
<1>4. 1 \in DOMAIN todo
  BY <1>1, <1>3
<1>5. Fault
  <2>1. ~DeviceWrite
    <3> SUFFICES ASSUME DeviceWrite PROVE FALSE
      OBVIOUS
    <3>1. CASE Len(todo) = 1
      BY <3>1 DEF DeviceWrite
    <3>2. CASE Len(todo) # 1
      <4>1. Tail(todo) = <<>>
        BY DEF DeviceWrite
      <4>2. Steps(todo)
        BY <1>3 DEF Steps
      <4>3. Len(Tail(todo)) = Len(todo) - 1
        BY <4>2, StepsFacts
      <4> DEFINE l == Len(Tail(todo))
                 m == Len(todo)
      <4>4. l = m - 1 /\ m \in Nat /\ m # 1
        BY <1>1, <3>2, <4>3
      <4> HIDE DEF l, m
      <4>5. l # 0
        BY <4>4
      <4>6. Len(<<>>) = 0
        OBVIOUS
      <4> QED BY <4>1, <4>5, <4>6 DEF l
    <3> QED BY <3>1, <3>2
  <2>2. ~Stop
    BY DEF Stop
  <2>3. \A cfg \in Configs : ~Format(cfg)
    BY <1>1 DEF Format
  <2>4. ~Mount
    BY <1>1 DEF Mount
  <2>5. ~Create /\ ~FileCall /\ ~Sync
    BY DEF Create, FileCall, Sync, Usable
  <2> QED BY <2>1, <2>2, <2>3, <2>4, <2>5 DEF Next
<1> DEFINE step == todo[1]
           f1 == Overlay(step.put, fat)
<1>6. fat' = Overlay(step.undo, f1)
  BY <1>1, <1>5 DEF Fault
<1>7. /\ DOMAIN step.put \subseteq Cluster /\ \A c \in DOMAIN step.put : step.put[c] \in FatEntry
      /\ DOMAIN step.undo \subseteq Cluster /\ \A c \in DOMAIN step.undo : step.undo[c] \in FatEntry
  BY <1>2, <1>4 DEF Plan, StepShapeIn
<1>8. \A c \in Cluster :
         IF c \in DOMAIN step.undo THEN step.undo[c] = call.fat[c]
         ELSE fat[c] = call.fat[c] /\ c \notin DOMAIN step.put
  <2>1. RolledBack(call.op, todo, 1)
    BY <1>1 DEF RolledBack
  <2>2. RollbackSoundIn(fat, todo, call)
    BY <1>2 DEF Plan
  <2> QED BY <1>4, <2>1, <2>2 DEF RollbackSoundIn
<1> HIDE DEF step
<1>9. f1 \in [Cluster -> FatEntry]
      /\ \A c \in Cluster : f1[c] = IF c \in DOMAIN step.put THEN step.put[c] ELSE fat[c]
  BY <1>2, <1>7, PutTable
<1> HIDE DEF f1
<1>10. fat' \in [Cluster -> FatEntry]
       /\ \A c \in Cluster : fat'[c] = IF c \in DOMAIN step.undo THEN step.undo[c] ELSE f1[c]
  BY <1>6, <1>7, <1>9, PutTable
<1>11. \A c \in Cluster : fat'[c] = call.fat[c]
  BY <1>8, <1>9, <1>10
<1> QED
  BY <1>3, <1>10, <1>11

\* When fat_dirty is not set and no call is in progress, the first copy on the image is
\* the FAT in memory.
THEOREM CleanTableIsStored == Spec => []CleanIsStored
  BY CleanFact, InvariantHolds, PTL

\* Between calls every slot that no failed call or crash has left half changed reads
\* back what was written to it, zeros where nothing was.
THEOREM SoundSlotsReadBack == Spec => []ReadsBack
  BY ReadsFact, InvariantHolds, PTL

\* Between calls the last cluster of a file is zero beyond its end, so that growing the
\* file shows zeros and no old data.
THEOREM TailsAreZero == Spec => []BeyondEndZero
  BY TailFact, InvariantHolds, PTL

\* Whenever the process dies, in the midst of any call, what was stored by the last
\* completed sync and not changed since is on the image, through either copy.
THEOREM CrashLosesNothingSynced == Spec => []SyncedSurvive
  BY SyncedFact, InvariantHolds, PTL

\* A device error in a growing write or truncation leaves the FAT as it was before.
THEOREM FailedGrowthRollsBack == Spec => GrowthRollsBack
<1>1. IInv /\ [Next]_vars =>
        [/\ todo # <<>> /\ ret' = "DeviceError" /\ todo' = <<>> /\ boot' # ZeroBoot
         /\ call.op = "Grow" \/ (call.op = "Write" /\ Len(todo) > 1)
         => fat' = call.fat]_vars
  BY RollbackStep
<1> QED
  BY <1>1, InvariantHolds, PTL DEF Spec, GrowthRollsBack
=============================================================================

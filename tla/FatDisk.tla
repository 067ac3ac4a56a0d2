------------------------------- MODULE FatDisk -------------------------------
(***************************************************************************)
(* libmyfs on its device: the image as an array of blocks, the FAT in      *)
(* memory that only sync writes out, and every call as the sequence of     *)
(* block writes lib.rs makes, any of which can fail and between any two of *)
(* which the process can die.                                              *)
(*                                                                         *)
(* A block maps cell numbers to cells (entries of a FAT, directory slots,  *)
(* units of file data, the boot sector); a cell it does not map is zero.   *)
(* The calls use the root directory, here of one cluster: FatFs has the    *)
(* tree, names and open files.  A cluster is one block on these images,    *)
(* so that a cluster is written whole or not at all.  What was written     *)
(* stays written: FileBackend::sync has no caller, and a power failure     *)
(* that loses the host's cache is not modelled.                            *)
(***************************************************************************)
EXTENDS Geometry

CONSTANTS
    Configs,      \* the configurations given to mkfs_myfs
    Slots,        \* the numbers of the root directory's slots
    ClusterSize,  \* units of file data in a cluster
    Values,       \* the non-zero units that callers write
    MaxSize       \* for each slot, the bound on the sizes and offsets asked for

ASSUME ImageAssumption ==
    /\ ClusterSize \in Nat \ {0}
    /\ Slots \subseteq Nat \ {0} /\ Slots # {} /\ IsFiniteSet(Slots)
    /\ MaxSize \in [Slots -> Nat]
    /\ Values \subseteq Nat \ {0}
    /\ Configs \subseteq FsConfig
    /\ \A cfg \in Configs : Validate(cfg) =>
          /\ cfg.blocks_per_cluster = 1
          /\ Cardinality(Slots) * FcbSize <= cfg.block_size
          /\ MaxClusterId(Layout(cfg)) = MaxCluster

VARIABLES
    disk,   \* the blocks of the image
    boot,   \* the boot sector of the open file system, ZeroBoot when none is
    fat,    \* fat_m
    dirty,  \* fat_dirty
    todo,   \* the block writes the call in progress has still to make
    ret,    \* what the last call returned
    call,   \* of the call in progress: operation, slot, FAT before, files after
    files,  \* what a reader of the calls' effects expects each file to hold
    sound,  \* slots that no failed call or crash has left half changed
    safe    \* sound slots that have not changed since the last sync

vars == <<disk, boot, fat, dirty, todo, ret, call, files, sound, safe>>
diskState == <<disk, boot, fat, dirty, todo, call, files, sound, safe>>

Unused == [kind |-> "Unused", start |-> FREE, size |-> 0]
Deleted == [Unused EXCEPT !.kind = "Deleted"]
File(start, size) == [kind |-> "File", start |-> start, size |-> size]
Units == 1..ClusterSize
NoFat == [c \in Cluster |-> FREE]

\* A map of one key, and a map laid over another.
Single(x, y) == [z \in {x} |-> y]
Overlay(f, g) ==
    [x \in DOMAIN f \cup DOMAIN g |-> IF x \in DOMAIN f THEN f[x] ELSE g[x]]

NoCall == [op |-> "None", slot |-> 0, fat |-> NoFat, files |-> <<>>]
-----------------------------------------------------------------------------
(* Reading the image.                                                      *)

Cell(block, k, zero) == IF k \in DOMAIN disk[block] THEN disk[block][k] ELSE zero
BootOnDisk == Cell(0, 0, ZeroBoot)
FatOnDisk(b, copy) ==
    [c \in Cluster |-> Cell(FatStart(b, copy) + FatBlock(b, c), FatOffset(b, c), FREE)]
EntryAt(b, s) == Cell(FirstBlock(b, Root), s, Unused)
Unit(b, c, k) == Cell(FirstBlock(b, c), k, 0)
Occupied(e) == e.kind = "File"

Clusters(size) == CeilDiv(size, ClusterSize)

\* read_chain_bytes: the units of a file of `size` whose chain starts at h.
ReadChain(b, f, h, size) ==
    [p \in 1..size |-> Unit(b, Chain(f, h)[Clusters(p)], ((p - 1) % ClusterSize) + 1)]
Readable(f, h, size) ==
    /\ Len(Chain(f, h)) >= Clusters(size)
    /\ h # FREE => f[Last(Chain(f, h))] = EOC
-----------------------------------------------------------------------------
(* The block writes of a call.  Before a step's write the code changes the *)
(* FAT in memory by `put`; when the write fails it rolls the FAT back by   *)
(* `undo` and zeroes the clusters of `wipe`, and `intact` says whether the *)
(* file is then as it was.                                                 *)

Step(block, zeros, cells) ==
    [block |-> block, zeros |-> zeros, cells |-> cells, put |-> <<>>,
     undo |-> <<>>, wipe |-> {}, intact |-> FALSE]
ZeroCluster(b, c) == Step(FirstBlock(b, c), IF c = Root THEN Slots ELSE Units, <<>>)
WriteEntry(b, s, e) == Step(FirstBlock(b, Root), {}, Single(s, e))

\* Faulty form: a failure frees the cluster at hand and not those before it.
AllocateForgetting(new) ==
    [i \in DOMAIN new |->
        [ZeroCluster(boot, new[i]) EXCEPT
            !.put = Single(new[i], EOC), !.undo = Single(new[i], FREE), !.intact = TRUE]]

\* allocate_clusters: each cluster is marked as an end and zeroed, and a
\* failure frees those marked so far.
Allocate(new) ==
    [i \in DOMAIN new |->
        [ZeroCluster(boot, new[i]) EXCEPT
            !.put = Single(new[i], EOC),
            !.undo = [c \in ToSet(SubSeq(new, 1, i)) |-> FREE],
            !.intact = TRUE]]

\* ensure_fcb_chain_capacity and write_chain_bytes for the file of entry e, units
\* from..upto-1: the new clusters are linked before the first write, and a failed
\* write cuts the chain back to what the old size needs.  `fill` is what is written.
GrowAndFill(e, from, upto, fill) ==
    LET need == Clusters(upto)
        new == Lowest(Missing(fat, e.start, need), FreeClusters(fat))
        table == WithCapacity(fat, e.start, need)
        head == HeadWithCapacity(fat, e.start, need)
        first == from \div ClusterSize
        In(i) == {k \in Units : (first + i - 1) * ClusterSize + k - 1 \in from..(upto - 1)}
        Chunk(i) ==
            [Step(FirstBlock(boot, Chain(table, head)[first + i]),
                  IF fill = 0 THEN In(i) ELSE {},
                  IF fill = 0 THEN <<>> ELSE [k \in In(i) |-> fill]) EXCEPT
                !.put = IF new = {} THEN <<>> ELSE table,
                !.undo = Trim(table, head, Clusters(e.size)),
                !.wipe = new,
                !.intact = (fill = 0 \/ i = 1)]
    IN  Allocate(Ascending(new)) \o [i \in 1..(need - first) |-> Chunk(i)]

\* free_chain_from: from the end of the chain back, each cluster is freed and
\* zeroed; a failure stops it.
FreeChain(seq) ==
    [i \in DOMAIN seq |->
        [ZeroCluster(boot, Reverse(seq)[i]) EXCEPT !.put = Single(Reverse(seq)[i], FREE)]]

\* flush_fat: the blocks of one copy, in order.
FlushFat(b, f, copy) ==
    [i \in 1..b.fat_blocks |->
        LET In == {c \in Cluster : FatBlock(b, c) = i - 1}
        IN  Step(FatStart(b, copy) + i - 1, {},
                 [k \in {FatOffset(b, c) : c \in In} |->
                     f[CHOOSE c \in In : FatOffset(b, c) = k]])]

\* Faulty form: the second copy is left as it was.
FlushFirst(b, f) == FlushFat(b, f, 1)
\* Faulty form: the last block of each copy is left out.
FlushShort(b, f) == Front(FlushFat(b, f, 1)) \o Front(FlushFat(b, f, 2))

FlushFats(b, f) == FlushFat(b, f, 1) \o FlushFat(b, f, 2)
-----------------------------------------------------------------------------
Usable == boot # ZeroBoot /\ todo = <<>> /\ fat[Root] = EOC

Begin(op, s, steps, after) ==
    /\ todo' = steps
    /\ call' = [op |-> op, slot |-> s, fat |-> fat, files |-> after]
    /\ safe' = safe \ {s}
    /\ UNCHANGED <<disk, boot, fat, dirty, ret, files, sound>>

Return(result) ==
    ret' = result /\ UNCHANGED <<disk, boot, fat, dirty, todo, call, files, sound, safe>>

\* mkfs_myfs: rejects the configuration, or makes a new image and formats it.
Format(cfg) ==
    /\ boot = ZeroBoot
    /\ \/ ~Validate(cfg) /\ Return("InvalidConfig")
       \/ /\ Validate(cfg)
          /\ LET b == Layout(cfg)
                 root == Single(Root, EOC)
             IN  /\ disk' = [i \in 0..(cfg.block_count - 1) |-> <<>>]
                 /\ boot' = b
                 /\ todo' = <<Step(0, {}, Single(0, b)),
                              [ZeroCluster(b, Root) EXCEPT !.put = root]>>
                            \o FlushFats(b, Overlay(root, NoFat))
          /\ call' = [NoCall EXCEPT !.op = "Format"]
          /\ files' = <<>> /\ sound' = Slots /\ safe' = {}
          /\ UNCHANGED <<fat, dirty, ret>>

\* open_on_device reads the boot sector and the first FAT.
Mount ==
    LET b == BootOnDisk
        d == FileDevice(Cardinality(DOMAIN disk) * b.block_size, b.block_size)
    IN  /\ boot = ZeroBoot
        /\ \/ ~BootAccepted(b, LogicalDevice(d, b.block_size)) /\ Return("CorruptFs")
           \/ /\ BootAccepted(b, LogicalDevice(d, b.block_size))
              /\ boot' = b
              /\ fat' = FatOnDisk(b, 1)
              /\ sound' = safe \cup {s \in Slots : ~Occupied(EntryAt(b, s))}
              /\ ret' = "Ok"
              /\ UNCHANGED <<disk, dirty, todo, call, files, safe>>

\* The process ends, between calls or within one.
Stop ==
    /\ boot # ZeroBoot
    /\ boot' = ZeroBoot /\ fat' = NoFat /\ dirty' = FALSE
    /\ todo' = <<>> /\ call' = NoCall
    /\ files' = [s \in DOMAIN files \cap safe |-> files[s]] /\ sound' = safe
    /\ UNCHANGED <<disk, ret, safe>>

\* create_file: the first slot that is not occupied.
Create ==
    LET S == {s \in Slots : ~Occupied(EntryAt(boot, s))}
    IN  /\ Usable /\ S # {}
        /\ Begin("Create", Min(S),
                 <<[WriteEntry(boot, Min(S), File(FREE, 0)) EXCEPT !.intact = TRUE]>>,
                 Overlay(Single(Min(S), <<>>), files))

\* rm: frees the chain, then deletes the entry.
Rm(s) ==
    LET e == EntryAt(boot, s)
    IN  Begin("Rm", s,
              FreeChain(Chain(fat, e.start)) \o <<WriteEntry(boot, s, Deleted)>>,
              [t \in DOMAIN files \ {s} |-> files[t]])

\* What a file holds after units from..upto-1 of it are written.
Filled(file, from, upto, v) ==
    [p \in 1..(IF upto > Len(file) THEN upto ELSE Len(file)) |->
        IF p - 1 \in from..(upto - 1) THEN v
        ELSE IF p <= Len(file) THEN file[p] ELSE 0]

NewEntry(e, upto) ==
    File(HeadWithCapacity(fat, e.start, Clusters(upto)),
         IF upto > e.size THEN upto ELSE e.size)

\* write_at: growth and data are rolled back, the entry's write is not.
Write(s, from, upto, v) ==
    LET e == EntryAt(boot, s)
    IN  \/ ~Fits(fat, e.start, Clusters(upto)) /\ Return("NoSpace")
        \/ /\ Fits(fat, e.start, Clusters(upto))
           /\ Begin("Write", s,
                    GrowAndFill(e, from, upto, v) \o <<WriteEntry(boot, s, NewEntry(e, upto))>>,
                    [files EXCEPT ![s] = Filled(@, from, upto, v)])

\* truncate to a larger size: zeroes, and a failure of the entry's write too is
\* rolled back.
Grow(s, size) ==
    LET e == EntryAt(boot, s)
        fill == GrowAndFill(e, e.size, size, 0)
    IN  \/ ~Fits(fat, e.start, Clusters(size)) /\ Return("NoSpace")
        \/ /\ Fits(fat, e.start, Clusters(size))
           /\ Begin("Grow", s,
                    Append(fill,
                           [Last(fill) EXCEPT
                               !.block = FirstBlock(boot, Root), !.zeros = {},
                               !.cells = Single(s, NewEntry(e, size))]),
                    [files EXCEPT ![s] = Filled(@, Len(@), size, 0)])

\* Faulty form: what is cut off within the last cluster stays there.
KeepTail(b, c, size, put) == <<>>

\* The rest of the last cluster kept is zeroed, when there is any.
ZeroTail(b, c, size, put) ==
    IF size % ClusterSize = 0 THEN <<>>
    ELSE <<[Step(FirstBlock(b, c), {k \in Units : k > size % ClusterSize}, <<>>)
               EXCEPT !.put = put]>>

\* truncate to a smaller size.
Shrink(s, size) ==
    LET e == EntryAt(boot, s)
        n == Clusters(size)
        chain == Chain(fat, e.start)
        end == IF n = 0 THEN <<>> ELSE Single(chain[n], EOC)
        freed == FreeChain(SubSeq(chain, n + 1, Len(chain)))
        freeing == [i \in DOMAIN freed |-> [freed[i] EXCEPT !.put = Overlay(@, end)]]
    IN  Begin("Shrink", s,
              freeing \o (IF n = 0 THEN <<>> ELSE ZeroTail(boot, chain[n], size, end))
                      \o <<WriteEntry(boot, s, File(IF n = 0 THEN FREE ELSE e.start, size))>>,
              [files EXCEPT ![s] = SubSeq(@, 1, size)])

\* sync: nothing when the FAT is clean, else both copies.
Sync ==
    /\ boot # ZeroBoot /\ todo = <<>>
    /\ \/ /\ ~dirty
          /\ safe' = sound /\ ret' = "Ok"
          /\ UNCHANGED <<disk, boot, fat, dirty, todo, call, files, sound>>
       \/ dirty /\ Begin("Sync", 0, FlushFats(boot, fat), files)

\* A block write succeeds; the last one ends the call.
DeviceWrite ==
    LET step == Head(todo)
        last == Len(todo) = 1
        synced == last /\ call.op \in {"Format", "Sync"}
    IN  /\ todo # <<>>
        /\ disk' = [disk EXCEPT ![step.block] =
                       Overlay(step.cells, [k \in DOMAIN @ \ step.zeros |-> @[k]])]
        /\ fat' = Overlay(step.put, fat)
        /\ dirty' = ((dirty \/ DOMAIN step.put # {}) /\ ~synced)
        /\ todo' = Tail(todo)
        /\ IF last THEN files' = call.files /\ call' = NoCall /\ ret' = "Ok"
                   ELSE UNCHANGED <<files, call, ret>>
        /\ safe' = IF synced THEN sound ELSE safe
        /\ UNCHANGED <<boot, sound>>

\* A block write fails: the call rolls back what it does roll back and returns.
Fault ==
    LET step == Head(todo)
        torn == IF step.intact THEN {} ELSE {call.slot}
    IN  /\ todo # <<>> /\ call.op # "Format"
        /\ disk' = [i \in DOMAIN disk |->
                       IF \E c \in step.wipe : FirstBlock(boot, c) = i THEN <<>> ELSE disk[i]]
        /\ fat' = Overlay(step.undo, Overlay(step.put, fat))
        /\ dirty' = (dirty \/ DOMAIN step.put \cup DOMAIN step.undo # {})
        /\ todo' = <<>> /\ call' = NoCall /\ ret' = "DeviceError"
        /\ sound' = sound \ torn
        /\ files' = [s \in DOMAIN files \ torn |-> files[s]]
        /\ UNCHANGED <<boot, safe>>
-----------------------------------------------------------------------------
Init ==
    /\ disk = [i \in {0} |-> <<>>]
    /\ boot = ZeroBoot /\ fat = NoFat /\ dirty = FALSE
    /\ todo = <<>> /\ ret = "Ok" /\ call = NoCall
    /\ files = <<>> /\ sound = {} /\ safe = {}

\* The files a caller goes on using: those of sound slots.
Known == sound \cap DOMAIN files
SizeOf(s) == EntryAt(boot, s).size

FileCall ==
    /\ Usable
    /\ \/ \E s \in Known : Rm(s)
       \/ \E s \in Known, v \in Values : \E from, upto \in 0..MaxSize[s] :
             from < upto /\ Write(s, from, upto, v)
       \/ \E s \in Known : \E size \in 0..MaxSize[s] : size > SizeOf(s) /\ Grow(s, size)
       \/ \E s \in Known : \E size \in 0..MaxSize[s] : size < SizeOf(s) /\ Shrink(s, size)

Next ==
    \/ \E cfg \in Configs : Format(cfg)
    \/ Mount \/ Stop \/ Create \/ FileCall \/ Sync
    \/ DeviceWrite \/ Fault

Spec == Init /\ [][Next]_vars
-----------------------------------------------------------------------------
(* Properties.                                                             *)

Entry == [kind : {"Unused", "Deleted", "File"}, start : Cluster \cup {FREE}, size : Nat]

\* Every variable has its type, above all the FAT: whatever is put, rolled back or
\* read from the image is an entry for a data cluster.
TypeOK ==
    /\ fat \in [Cluster -> FatEntry] /\ dirty \in BOOLEAN
    /\ boot # ZeroBoot => boot \in {Layout(cfg) : cfg \in {x \in Configs : Validate(x)}}
    /\ boot # ZeroBoot => \A s \in Slots : EntryAt(boot, s) \in Entry
    /\ safe \subseteq sound /\ sound \subseteq Slots /\ DOMAIN files \subseteq Slots
    /\ \A i \in DOMAIN todo : todo[i].block \in DOMAIN disk
    /\ ret \in {"Ok", "NoSpace", "InvalidConfig", "CorruptFs", "DeviceError"}

\* When the FAT is clean and no call is in progress, the first copy on the image,
\* the one the next open reads, is the FAT in memory.
CleanIsStored ==
    boot # ZeroBoot /\ todo = <<>> /\ ~dirty => FatOnDisk(boot, 1) = fat

\* Between calls every sound slot reads back what was written to it, zeros where
\* nothing was, whatever other calls, failures and crashes came before.
ReadsBack ==
    boot # ZeroBoot /\ todo = <<>> => \A s \in sound :
        LET e == EntryAt(boot, s)
        IN  /\ Occupied(e) <=> s \in DOMAIN files
            /\ s \in DOMAIN files =>
                  /\ e.size = Len(files[s])
                  /\ Readable(fat, e.start, e.size)
                  /\ ReadChain(boot, fat, e.start, e.size) = files[s]

\* The units of a file's last cluster beyond its end are zero between calls, so a
\* later write beyond the end leaves zeros and not old data in the gap.
BeyondEndZero ==
    boot # ZeroBoot /\ todo = <<>> => \A s \in Known :
        LET e == EntryAt(boot, s)
        IN  \A k \in Units : e.size % ClusterSize \in 1..(k - 1) =>
                Unit(boot, Last(Chain(fat, e.start)), k) = 0

\* At every moment, a write half done or not, the image alone holds every file as
\* of the last completed sync unless a later call changed it, and reads so through
\* either copy of the FAT: a crash now loses nothing of it.
SyncedSurvive ==
    \A s \in safe, copy \in FatCopies :
        LET b == BootOnDisk
            e == EntryAt(b, s)
            f == FatOnDisk(b, copy)
        IN  /\ Occupied(e) <=> s \in DOMAIN files
            /\ s \in DOMAIN files =>
                  /\ Readable(f, e.start, e.size)
                  /\ ReadChain(b, f, e.start, e.size) = files[s]

\* A device error while a write grows or fills the file, or anywhere in a growing
\* truncation, leaves the FAT as it was before the call (the comment at
\* lib.rs:1055: the new clusters are rolled back).
GrowthRollsBack ==
    [][/\ todo # <<>> /\ ret' = "DeviceError" /\ todo' = <<>> /\ boot' # ZeroBoot
       /\ call.op = "Grow" \/ (call.op = "Write" /\ Len(todo) > 1)
       => fat' = call.fat]_vars
-----------------------------------------------------------------------------
(* The inductive invariant.                                                *)

\* What the image holds, decoded: the entries, the data, the copies of the FAT.
Entries(b) == [s \in Slots |-> EntryAt(b, s)]
Data(b) == [c \in Cluster |-> [k \in Units |-> Unit(b, c, k)]]
Copies(b) == [copy \in FatCopies |-> FatOnDisk(b, copy)]

\* The same as these steps will leave it, when no write fails: each cell as the last
\* step that touches it writes it.
Touches(step, block, k) == step.block = block /\ k \in DOMAIN step.cells \cup step.zeros
Latest(T) == CHOOSE i \in T : \A j \in T : j <= i
CellAfter(steps, block, k, zero) ==
    LET T == {i \in DOMAIN steps : Touches(steps[i], block, k)}
        cells == steps[Latest(T)].cells
    IN  IF T = {} THEN Cell(block, k, zero)
        ELSE IF k \in DOMAIN cells THEN cells[k] ELSE zero
FatAfter(steps) ==
    [c \in Cluster |->
        LET T == {i \in DOMAIN steps : c \in DOMAIN steps[i].put}
        IN  IF T = {} THEN fat[c] ELSE steps[Latest(T)].put[c]]
EntriesAfter(steps, b) == [s \in Slots |-> CellAfter(steps, FirstBlock(b, Root), s, Unused)]
DataAfter(steps, b) ==
    [c \in Cluster |-> [k \in Units |-> CellAfter(steps, FirstBlock(b, c), k, 0)]]
FatBlockOf(b, copy, c) == FatStart(b, copy) + FatBlock(b, c)
CopiesAfter(steps, b) ==
    [copy \in FatCopies |-> [c \in Cluster |->
        CellAfter(steps, FatBlockOf(b, copy, c), FatOffset(b, c), FREE)]]

\* A chain of n clusters other than the root's.
Whole(f, h, n) ==
    LET chain == Chain(f, h)
    IN  /\ chain \in Seq(Cluster \ {Root}) /\ Len(chain) = n /\ (h = FREE <=> n = 0)
        /\ \A i, j \in 1..n : chain[i] = chain[j] => i = j
        /\ n > 0 => f[chain[n]] = EOC

\* A slot holds what is expected of it, in these entries, data and table: its chain has
\* the clusters its size needs, in them are its units, and after them zeros.
At(file, p) == IF p <= Len(file) THEN file[p] ELSE 0
Holds(entries, data, f, s, expected) ==
    LET e == entries[s]
        chain == Chain(f, e.start)
    IN  /\ Occupied(e) <=> s \in DOMAIN expected
        /\ s \in DOMAIN expected =>
              /\ expected[s] \in Seq(Nat) /\ e.size = Len(expected[s])
              /\ Whole(f, e.start, Clusters(e.size))
              /\ \A i \in 1..Clusters(e.size), k \in Units :
                    data[chain[i]][k] = At(expected[s], (i - 1) * ClusterSize + k)

\* So do all slots of S, and their files have no cluster in common.
ChainOf(entries, f, s) == ToSet(Chain(f, entries[s].start))
Apart(entries, f, S) ==
    \A s, t \in S : s # t => ChainOf(entries, f, s) \cap ChainOf(entries, f, t) = {}
Sound(entries, data, f, S, expected) ==
    /\ \A s \in S : Holds(entries, data, f, s, expected)
    /\ Apart(entries, f, S \cap DOMAIN expected)

\* Both copies have the chains of the slots of S as the table has them.
Stored(entries, f, copies, S) ==
    \A s \in S : \A c \in ChainOf(entries, f, s), copy \in FatCopies : copies[copy][c] = f[c]

\* The file system of the image, and its table, whether it is open or not.
Image == IF boot = ZeroBoot THEN BootOnDisk ELSE boot
Table == IF boot = ZeroBoot THEN FatOnDisk(Image, 1) ELSE fat
BootSectors == {Layout(cfg) : cfg \in {x \in Configs : Validate(x)}}
Ready == boot # ZeroBoot /\ call.op # "Format"
Others == sound \ {call.slot}
FilesAfter == IF todo = <<>> THEN files ELSE call.files

\* The image has the shape its boot sector says and entries of the right types; nothing
\* is left of a process that has ended; a call formats, syncs or is about a slot.
ImageShape ==
    /\ BootOnDisk \in BootSectors \cup {ZeroBoot}
    /\ boot # ZeroBoot => BootOnDisk \in {ZeroBoot, boot}
    /\ Ready => BootOnDisk = boot
    /\ Image # ZeroBoot =>
          /\ Image \in BootSectors /\ DOMAIN disk = 0..(Image.block_count - 1)
          /\ Entries(Image) \in [Slots -> Entry]
          /\ Copies(Image) \in [FatCopies -> [Cluster -> FatEntry]]
    /\ Image = ZeroBoot => safe = {}
    /\ boot = ZeroBoot =>
          fat = NoFat /\ ~dirty /\ todo = <<>> /\ sound = safe /\ DOMAIN files \subseteq safe
CallShape ==
    /\ call.fat \in [Cluster -> FatEntry] /\ DOMAIN call.files \subseteq Slots
    /\ todo \in Seq(ToSet(todo)) /\ (todo = <<>> => call = NoCall)
    /\ call.op = "Format" => safe = {} /\ files = <<>>
    /\ call.op = "Sync" => dirty
    /\ call.op \in {"None", "Format", "Sync"} => call.slot = 0
    /\ safe \subseteq Others

\* A step writes what belongs where it writes it.
StepShape(step) ==
    /\ step.block \in DOMAIN disk
    /\ step.block = 0 => call.op = "Format" /\ step.cells = Single(0, boot) /\ step.zeros = {}
    /\ \A s \in Slots \cap DOMAIN step.cells :
          step.block = FirstBlock(boot, Root) => step.cells[s] \in Entry
    /\ \A copy \in FatCopies, c \in Cluster :
          Touches(step, FatBlockOf(boot, copy, c), FatOffset(boot, c)) =>
             /\ call.op \in {"Format", "Sync"} /\ FatOffset(boot, c) \in DOMAIN step.cells
             /\ step.cells[FatOffset(boot, c)] \in FatEntry
             /\ call.op = "Sync" => step.cells[FatOffset(boot, c)] = fat[c]
    /\ \A m \in {step.put, step.undo} :
          DOMAIN m \subseteq Cluster /\ \A c \in DOMAIN m : m[c] \in FatEntry
    /\ call.op = "Sync" => DOMAIN step.put = {} /\ DOMAIN step.undo = {}
    /\ step.wipe \subseteq Cluster \ {Root}

\* It leaves the file of slot s alone.
StepClear(step, s) ==
    /\ ~Touches(step, FirstBlock(boot, Root), s)
    /\ s \in DOMAIN files => \A c \in ChainOf(Entries(boot), fat, s) :
          /\ \A k \in Units : ~Touches(step, FirstBlock(boot, c), k)
          /\ \A m \in {step.put, step.undo} : c \in DOMAIN m => m[c] = fat[c]
          /\ c \notin step.wipe

\* Where a failed write is rolled back the FAT becomes what it was before the call.
RolledBack(op, steps, i) ==
    steps[i].intact \/ op = "Grow" \/ (op = "Write" /\ i < Len(steps))
RollbackSound ==
    \A i \in DOMAIN todo : RolledBack(call.op, todo, i) => \A c \in Cluster :
        IF c \in DOMAIN todo[i].undo THEN todo[i].undo[c] = call.fat[c]
        ELSE fat[c] = call.fat[c] /\ \A j \in 1..i : c \notin DOMAIN todo[j].put

\* As long as a failed write leaves slot s as it was before the call, with table f, it
\* is: the steps before such a write zero at most what is zero.
StepIntact(step, f, s) ==
    /\ ~Touches(step, FirstBlock(boot, Root), s)
    /\ s \in DOMAIN files => \A c \in ChainOf(Entries(boot), f, s), k \in Units :
          Touches(step, FirstBlock(boot, c), k) =>
             k \notin DOMAIN step.cells /\ Unit(boot, c, k) = 0
StepsIntact(steps, f, s) ==
    \A i \in DOMAIN steps : steps[i].intact =>
        /\ \A j \in 1..(i - 1) : steps[j].intact /\ StepIntact(steps[j], f, s)
        /\ s \in DOMAIN files =>
              /\ DOMAIN steps[i].undo # {}
              /\ steps[i].wipe \cap ChainOf(Entries(boot), f, s) = {}
SlotIntact(f, s) ==
    /\ Holds(Entries(boot), Data(boot), f, s, files)
    /\ s \in DOMAIN files => \A t \in Others \cap DOMAIN files :
          ChainOf(Entries(boot), fat, t) \cap ChainOf(Entries(boot), f, s) = {}
IntactSound ==
    call.slot \in sound =>
        /\ StepsIntact(todo, call.fat, call.slot)
        /\ (\E i \in DOMAIN todo : todo[i].intact) => SlotIntact(call.fat, call.slot)

\* The slots that no call is about are sound now, and all sound ones will be after the
\* call.
NowSound ==
    call.op # "Format" => Sound(Entries(Image), Data(Image), Table, Others, files)
AfterSound ==
    boot # ZeroBoot =>
        Sound(EntriesAfter(todo, boot), DataAfter(todo, boot), FatAfter(todo), sound, FilesAfter)

\* Both copies have the chains of the safe slots, and of all sound ones while the FAT is
\* clean; and they will have when the call does not make it dirty.
NowStored ==
    Stored(Entries(Image), Table, Copies(Image),
           DOMAIN files \cap (IF Ready /\ ~dirty THEN Others ELSE safe))
AfterStored ==
    Ready /\ ~dirty /\ (\A i \in DOMAIN todo : DOMAIN todo[i].put = {}) =>
        Stored(EntriesAfter(todo, boot), fat, Copies(boot), sound \cap DOMAIN FilesAfter)

\* The first copy is a clean FAT, and both will be the FAT after format or sync.
CleanSound == Ready /\ ~dirty => FatOnDisk(boot, 1) = fat
AfterSync ==
    /\ call.op \in {"Format", "Sync"} =>
          \A copy \in FatCopies : CopiesAfter(todo, boot)[copy] = FatAfter(todo)
    /\ call.op = "Format" => CellAfter(todo, 0, 0, ZeroBoot) = boot

\* What every step preserves.
IInv ==
    /\ TypeOK /\ ImageShape /\ CallShape
    /\ boot # ZeroBoot => \A i \in DOMAIN todo : StepShape(todo[i])
    /\ Ready => \A s \in Others, i \in DOMAIN todo : StepClear(todo[i], s)
    /\ RollbackSound /\ IntactSound
    /\ NowSound /\ AfterSound /\ NowStored /\ AfterStored /\ CleanSound /\ AfterSync
=============================================================================

------------------------------ MODULE Geometry ------------------------------
(***************************************************************************)
(* How libmyfs lays a file system out on a device: which configurations    *)
(* FsConfig::validate accepts, the boot sector format_on_device writes,    *)
(* the block every FAT entry and every cluster is at, what open_on_device  *)
(* checks of a boot sector, and the block devices of dev.rs.               *)
(*                                                                         *)
(* A configuration is a record of block_size, block_count and              *)
(* blocks_per_cluster; a device is a record of block_size and block_count. *)
(* The order of the checks, which only picks the message, is abstracted.   *)
(***************************************************************************)
EXTENDS FatChains

CONSTANTS
    EntrySize,  \* bytes of a FAT entry, 2 in the code
    FcbSize,    \* bytes of a directory entry, 24 in the code
    BootSize    \* bytes of the boot sector, 16 in the code

ASSUME SizeAssumption ==
    {EntrySize, FcbSize, BootSize} \subseteq Nat \ {0} /\ EntrySize <= BootSize

PowerOfTwo(n) == \E i \in 0..15 : n = 2^i

FatCopies == 1..2  \* copies 0 and 1 of the code
-----------------------------------------------------------------------------
(* Devices.                                                                *)

\* FileBackend::from_file on a file of `length` bytes, or no device.
NoDevice == [block_size |-> 0, block_count |-> 0]
FileDevice(length, block_size) ==
    IF block_size = 0 \/ length % block_size # 0 THEN NoDevice
    ELSE [block_size |-> block_size, block_count |-> length \div block_size]

\* LogicalBlockDevice::new: blocks of `size` bytes over those of device d.
Ratio(d, size) == size \div d.block_size
LogicalDevice(d, size) ==
    IF \/ d = NoDevice
       \/ size < d.block_size \/ size % d.block_size # 0
       \/ d.block_count % Ratio(d, size) # 0
    THEN NoDevice
    ELSE [block_size |-> size, block_count |-> d.block_count \div Ratio(d, size)]

\* The physical blocks that read_block_into and write_block_from touch.
PhysicalBlocks(d, size, index) ==
    {index * Ratio(d, size) + offset : offset \in 0..(Ratio(d, size) - 1)}
-----------------------------------------------------------------------------
(* The layout.                                                             *)

\* The fields of an FsConfig are 16 bits wide.
MaxWord == 65535
Word == 0..MaxWord
FsConfig == [block_size : Word, block_count : Word, blocks_per_cluster : Word]

\* What one round of get_fat_block_count finds it needs with n blocks a copy.
BlocksNeeded(cfg, n) ==
    LET data_start == 1 + Cardinality(FatCopies) * n
        data_clusters == (cfg.block_count - data_start) \div cfg.blocks_per_cluster
    IN  IF data_start >= cfg.block_count THEN n
        ELSE CeilDiv((Root + data_clusters) * EntrySize, cfg.block_size) % 65536

\* The loop starts from one block and stops when a round needs no more; Rounds
\* bounds it (Settled, below, says that it never takes more).
Rounds == 3
GetFatBlockCount(cfg) ==
    LET fat_blocks[i \in 0..Rounds] ==
            IF i = 0 THEN 1
            ELSE LET n == fat_blocks[i - 1]
                 IN  IF BlocksNeeded(cfg, n) <= n THEN n ELSE BlocksNeeded(cfg, n)
    IN  fat_blocks[Rounds]

FatEntryCount(cfg, n) == (cfg.block_size * n) \div EntrySize

\* FsConfig::validate.
Validate(cfg) ==
    /\ PowerOfTwo(cfg.block_size) /\ cfg.block_size >= BootSize
    /\ PowerOfTwo(cfg.blocks_per_cluster)
    /\ cfg.block_size * cfg.blocks_per_cluster >= FcbSize
    /\ LET count == GetFatBlockCount(cfg)
           data_blocks == cfg.block_count - (1 + 2 * count)
           data_clusters == data_blocks \div cfg.blocks_per_cluster
       IN  /\ data_blocks > 0 /\ data_blocks >= cfg.blocks_per_cluster
           /\ Root + data_clusters - 1 <= 65535
           /\ FatEntryCount(cfg, count) >= Root + data_clusters

\* The boot sector that format_on_device writes.
Layout(cfg) ==
    LET count == GetFatBlockCount(cfg)
    IN  [block_size |-> cfg.block_size, block_count |-> cfg.block_count,
         blocks_per_cluster |-> cfg.blocks_per_cluster, fat_start |-> 1,
         fat_blocks |-> count, fat_copies |-> 2,
         data_start |-> (1 + count * 2) % 65536, root |-> Root]

\* format_on_device accepts cfg for device d.
CanFormat(cfg, d) ==
    /\ Validate(cfg)
    /\ d.block_size = cfg.block_size /\ d.block_count >= cfg.block_count

\* What block 0 of a device that holds zeros reads as.
ZeroBoot == [block_size |-> 0, block_count |-> 0, blocks_per_cluster |-> 0,
             fat_start |-> 0, fat_blocks |-> 0, fat_copies |-> 0,
             data_start |-> 0, root |-> 0]

\* validate_boot_sector_against_device.
BootAccepted(b, d) ==
    LET cfg == [block_size |-> b.block_size, block_count |-> b.block_count,
                blocks_per_cluster |-> b.blocks_per_cluster]
    IN  /\ CanFormat(cfg, d)
        /\ b.fat_blocks = GetFatBlockCount(cfg) /\ b.fat_start = 1
        /\ b.data_start = (1 + b.fat_copies * b.fat_blocks) % 65536
        /\ b.root = Root
-----------------------------------------------------------------------------
(* Addresses under boot sector b, in 16-bit arithmetic.                    *)

FatStart(b, copy) == (b.fat_start + (copy - 1) * b.fat_blocks) % 65536
FatBlock(b, c) == (c * EntrySize) \div b.block_size
FatOffset(b, c) == (c * EntrySize) % b.block_size

MaxClusterId(b) ==
    Root + (b.block_count - b.data_start) \div b.blocks_per_cluster - 1

\* Faulty form: counts clusters from 0.
FirstBlockFromZero(b, c) == (b.data_start + c * b.blocks_per_cluster) % 65536
FirstBlock(b, c) == (b.data_start + (c - Root) * b.blocks_per_cluster) % 65536
ClusterBlocks(b, c) == {FirstBlock(b, c) + i : i \in 0..(b.blocks_per_cluster - 1)}
-----------------------------------------------------------------------------
(* What the layout must satisfy.                                           *)

\* The loop of get_fat_block_count has ended within Rounds rounds.
Settled(cfg) == BlocksNeeded(cfg, GetFatBlockCount(cfg)) <= GetFatBlockCount(cfg)

\* Both FATs and the clusters come one after the other within the device, every
\* cluster has an entry in each FAT and all its blocks on the device, and no
\* cluster id is taken for the end of a chain.
RegionsSound(b) ==
    /\ \A copy \in FatCopies : FatStart(b, copy) = 1 + (copy - 1) * b.fat_blocks
    /\ b.data_start = 1 + 2 * b.fat_blocks
    /\ MaxClusterId(b) \in Root..(EOC - 1)
    /\ \A c \in Root..MaxClusterId(b) :
          /\ FatBlock(b, c) < b.fat_blocks
          /\ FirstBlock(b, c) = b.data_start + (c - Root) * b.blocks_per_cluster
          /\ ClusterBlocks(b, c) \subseteq b.data_start..(b.block_count - 1)

\* mkfs_myfs makes the image as long as the configuration says and formats it;
\* opening it afterwards finds the same device and takes the boot sector, and over
\* a device of smaller blocks no two logical blocks meet.
Reopens(cfg) ==
    LET b == Layout(cfg)
        d == FileDevice(cfg.block_size * cfg.block_count, b.block_size)
        small == FileDevice(cfg.block_size * cfg.block_count, 1)
        touched == {PhysicalBlocks(small, b.block_size, i) : i \in 0..(b.block_count - 1)}
    IN  /\ BootAccepted(b, LogicalDevice(d, b.block_size))
        /\ ~BootAccepted(ZeroBoot, d)
        /\ b.block_count <= 64 =>  \* bound: larger devices are not enumerated
              /\ LogicalDevice(small, b.block_size) = d
              /\ Cardinality(UNION touched) = b.block_count * b.block_size
=============================================================================

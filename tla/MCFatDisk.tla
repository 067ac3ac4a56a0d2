----------------------------- MODULE MCFatDisk -----------------------------
(***************************************************************************)
(* A small instance of FatDisk for TLC.  Its blocks are of 4 bytes,        *)
(* entries of the FAT of one, directory entries of two: two FAT blocks a   *)
(* copy and three clusters in eight blocks.  The layout is also checked    *)
(* with the sizes of the code, on configurations small, odd and largest.   *)
(***************************************************************************)
EXTENDS FatDisk

Config(size, count, ratio) ==
    [block_size |-> size, block_count |-> count, blocks_per_cluster |-> ratio]

Sizes == 1 :> 3 @@ 2 :> 1
Images == {Config(4, 8, 1), Config(4, 3, 1)}

\* One file is followed into whatever can happen to it and the other beside it: when
\* a failed call or a crash has harmed slot 2, only while slot 1 is as last synced.
Followed == DOMAIN disk = {0} \/ 2 \in sound \/ 1 \in safe

Real == INSTANCE Geometry WITH EntrySize <- 2, FcbSize <- 24, BootSize <- 16

Layouts ==
    {Config(size, count, ratio) :
        size \in {0, 8, 16, 24, 32}, count \in 0..40, ratio \in {0, 1, 2, 3, 4}} \cup
    {Config(1024, 128, 1), Config(512, 4096, 2), Config(16, 65535, 2), Config(32, 65535, 1),
     Config(32768, 65535, 1), Config(65535, 65535, 1)}

\* Every configuration validate accepts has a sound layout that a later open
\* accepts, and the count of FAT blocks is one the loop has settled on.  (The
\* layouts do not change, so they are looked at in the first state only.)
GeometrySound ==
    disk = [i \in {0} |-> <<>>] => \A cfg \in Layouts : Real!Validate(cfg) =>
        /\ Real!Settled(cfg)
        /\ Real!RegionsSound(Real!Layout(cfg))
        /\ Real!Reopens(cfg)
=============================================================================

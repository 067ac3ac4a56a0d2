------------------------------- MODULE FatFs -------------------------------
(***************************************************************************)
(* The core of libmyfs (exp_5/myfs/src/lib.rs): the in-memory FAT, the     *)
(* directory streams stored in cluster chains, and the table of open       *)
(* files.  One action per public operation of MyFileSystem; an operation   *)
(* runs under the caller's lock, so it is one step.                        *)
(*                                                                         *)
(* Data abstracted away: date and time stamps, the bytes of files and the  *)
(* block device (module FatDisk has these two).  `slots[d]` is the stream  *)
(* of entries the code reads by walking the chain that starts at cluster   *)
(* d, the address space of DirEntryLoc; index 1 is entry_index 0 there.    *)
(***************************************************************************)
EXTENDS FatChains

CONSTANTS
    SlotsPerCluster,  \* directory entries that fit in one cluster
    ClusterSize,      \* file data units that fit in one cluster
    MaxOpen,          \* MAX_OPEN_FILES
    Keys,             \* path components after normalize_component
    ShortName,        \* the name an entry written for a key carries
    NoName,           \* the name field of a slot that holds no entry
    NoFile,           \* a hole in the table of open files
    MaxOffset,        \* bound on the offsets and sizes callers ask for
    MaxLen            \* bound on the length of one read or write

Handle == 0..(MaxOpen - 1)

Slot == [kind : {"Unused", "Deleted", "File", "Directory"},
         name : Keys \cup {NoName}, start : Cluster \cup {FREE}, size : Nat]
OpenFile == [dir : Cluster, index : Nat, cursor : Nat, fcb : Slot]

ASSUME GeometryAssumption ==
    SlotsPerCluster \in Nat \ {0} /\ ClusterSize \in Nat \ {0}
ASSUME LimitsAssumption ==
    MaxOpen \in Nat \ {0} /\ MaxOffset \in Nat /\ MaxLen \in Nat
ASSUME NameAssumption ==
    ShortName \in [Keys -> Keys] /\ NoName \notin Keys
ASSUME NoFileAssumption == NoFile \notin OpenFile

VARIABLES
    fat,     \* fat_m, the FAT entry of each data cluster
    slots,   \* the directory stream that starts at each cluster
    open,    \* open_files: a file or a hole in each place
    ret      \* what the last call returned: "Ok" or the FsError

vars == <<fat, slots, open, ret>>
fsState == <<fat, slots, open>>

Unused == [kind |-> "Unused", name |-> NoName, start |-> FREE, size |-> 0]
Deleted == [Unused EXCEPT !.kind = "Deleted"]
File(k) == [kind |-> "File", name |-> ShortName[k], start |-> FREE, size |-> 0]
Directory(k, c) == [File(k) EXCEPT !.kind = "Directory", !.start = c]
EmptyCluster == [i \in 1..SlotsPerCluster |-> Unused]

Occupied(e) == e.kind \in {"File", "Directory"}

\* free_chain_from zeroes what it frees: no stream starts there any more.
Wipe(s, S) == [c \in Cluster |-> IF c \in S THEN <<>> ELSE s[c]]
-----------------------------------------------------------------------------
(* Directories.                                                            *)

Locs(s) == UNION {{<<d, i>> : i \in DOMAIN s[d]} : d \in Cluster}
Dirs(s) == {Root} \cup
    {s[l[1]][l[2]].start : l \in {m \in Locs(s) : s[m[1]][m[2]].kind = "Directory"}}
Entry(l) == slots[l[1]][l[2]]
Count(stream) == Cardinality({i \in DOMAIN stream : Occupied(stream[i])})
\* Faulty form: looks at files only.
ExistsFile(d, k) ==
    \E i \in DOMAIN slots[d] : slots[d][i].kind = "File" /\ slots[d][i].name = k
Exists(d, k) ==
    \E i \in DOMAIN slots[d] : Occupied(slots[d][i]) /\ slots[d][i].name = k

FreeSlots(stream) == {i \in DOMAIN stream : ~Occupied(stream[i])}
HasRoom(f, s, d) == FreeSlots(s[d]) # {} \/ FreeClusters(f) # {}

\* The first unused or deleted slot, else the first slot of a new cluster.
FillFreeDirSlot(f, s, d) ==
    IF FreeSlots(s[d]) # {}
    THEN [fat |-> f, slots |-> s, index |-> Min(FreeSlots(s[d]))]
    ELSE [fat |-> Extend(f, d, 1),
          slots |-> [s EXCEPT ![d] = @ \o EmptyCluster],
          index |-> Len(s[d]) + 1]

\* Faulty form: leaves the recorded size to the next change.
KeepDirSize(s, d) == s

\* The entry that names directory d, wherever it is, gets d's entry count.
RefreshDirSize(s, d) ==
    [e \in Cluster |-> [i \in DOMAIN s[e] |->
        IF s[e][i].kind = "Directory" /\ s[e][i].start = d
        THEN [s[e][i] EXCEPT !.size = Count(s[d])]
        ELSE s[e][i]]]

AddEntry(f, s, d, e) ==
    LET r == FillFreeDirSlot(f, s, d)
    IN  /\ fat' = r.fat
        /\ slots' = RefreshDirSize([r.slots EXCEPT ![d][r.index] = e], d)
        /\ UNCHANGED open
        /\ ret' = "Ok"

\* Faulty form: deletes the entry and forgets its chain.
RemoveEntryKeepChain(l) ==
    /\ slots' = RefreshDirSize([slots EXCEPT ![l[1]][l[2]] = Deleted], l[1])
    /\ UNCHANGED <<fat, open>>
    /\ ret' = "Ok"
\* Faulty form: frees the chain and leaves the entry.
RemoveEntryKeepSlot(l) ==
    LET freed == ToSet(Chain(fat, Entry(l).start))
    IN  /\ fat' = FreeAll(fat, freed)
        /\ slots' = Wipe(slots, freed)
        /\ UNCHANGED open
        /\ ret' = "Ok"

\* free_chain_from, delete_dir_slot and refresh_dir_size of rm and rmdir.
RemoveEntry(l) ==
    LET freed == ToSet(Chain(fat, Entry(l).start))
        kept == [Wipe(slots, freed) EXCEPT ![l[1]][l[2]] = Deleted]
    IN  /\ fat' = FreeAll(fat, freed)
        /\ slots' = RefreshDirSize(kept, l[1])
        /\ UNCHANGED open
        /\ ret' = "Ok"
-----------------------------------------------------------------------------
(* Open files.                                                             *)

Fail(error) == ret' = error /\ UNCHANGED <<fat, slots, open>>

IsOpen(h) == open[h] # NoFile
HandlesOn(l) == {h \in Handle : IsOpen(h) /\ <<open[h].dir, open[h].index>> = l}
LocOf(h) == <<open[h].dir, open[h].index>>

WriteFcb(l, fcb) == slots' = [slots EXCEPT ![l[1]][l[2]] = fcb]

\* Faulty form: the open files keep the entry they were opened with.
NotRefreshed(l, fcb) == open

\* Every open file at l gets the new entry.
Refreshed(l, fcb) ==
    [h \in Handle |-> IF h \in HandlesOn(l) THEN [open[h] EXCEPT !.fcb = fcb]
                      ELSE open[h]]
\* ... and no cursor stays beyond the new end.
Clamped(l, fcb) ==
    [h \in Handle |-> IF h \in HandlesOn(l) /\ open[h].cursor > fcb.size
                      THEN [Refreshed(l, fcb)[h] EXCEPT !.cursor = fcb.size]
                      ELSE Refreshed(l, fcb)[h]]
-----------------------------------------------------------------------------
Init ==
    /\ fat = [c \in Cluster |-> IF c = Root THEN EOC ELSE FREE]
    /\ slots = [c \in Cluster |-> IF c = Root THEN EmptyCluster ELSE <<>>]
    /\ open = [h \in Handle |-> NoFile]
    /\ ret = "Ok"

CreateFile(d, k) ==
    \/ Exists(d, k) /\ Fail("InvalidPath")
    \/ ~Exists(d, k) /\ ~HasRoom(fat, slots, d) /\ Fail("NoSpace")
    \/ ~Exists(d, k) /\ HasRoom(fat, slots, d) /\ AddEntry(fat, slots, d, File(k))

\* The directory's own cluster is allocated before a slot is looked for in
\* the parent, and is not given back when there is none.
Mkdir(d, k) ==
    LET new == Min(FreeClusters(fat))
        fat1 == Extend(fat, FREE, 1)
        slots1 == [slots EXCEPT ![new] = EmptyCluster]
    IN  \/ Exists(d, k) /\ Fail("InvalidPath")
        \/ ~Exists(d, k) /\ FreeClusters(fat) = {} /\ Fail("NoSpace")
        \/ /\ ~Exists(d, k) /\ FreeClusters(fat) # {} /\ ~HasRoom(fat1, slots, d)
           /\ fat' = fat1
           /\ ret' = "NoSpace"
           /\ UNCHANGED <<slots, open>>
        \/ /\ ~Exists(d, k) /\ FreeClusters(fat) # {} /\ HasRoom(fat1, slots, d)
           /\ AddEntry(fat1, slots1, d, Directory(k, new))

\* Faulty form: deletes the entry before it looks for open files.
RmBeforeCheck(l) ==
    \/ ~Occupied(Entry(l)) /\ Fail("NotFoundAt")
    \/ Entry(l).kind = "Directory" /\ Fail("IsADirectory")
    \/ /\ Entry(l).kind = "File"
       /\ slots' = [slots EXCEPT ![l[1]][l[2]] = Deleted]
       /\ ret' = IF HandlesOn(l) # {} THEN "FileOpen" ELSE "Ok"
       /\ UNCHANGED <<fat, open>>

Rm(l) ==
    \/ ~Occupied(Entry(l)) /\ Fail("NotFoundAt")
    \/ Entry(l).kind = "Directory" /\ Fail("IsADirectory")
    \/ Entry(l).kind = "File" /\ HandlesOn(l) # {} /\ Fail("FileOpen")
    \/ Entry(l).kind = "File" /\ HandlesOn(l) = {} /\ RemoveEntry(l)

\* Faulty form: does not look into the directory.
RmdirAnyway(l) ==
    \/ ~Occupied(Entry(l)) /\ Fail("NotFoundAt")
    \/ Entry(l).kind = "File" /\ Fail("NotADirectory")
    \/ Entry(l).kind = "Directory" /\ RemoveEntry(l)

Rmdir(l) ==
    \/ ~Occupied(Entry(l)) /\ Fail("NotFoundAt")
    \/ Entry(l).kind = "File" /\ Fail("NotADirectory")
    \/ /\ Entry(l).kind = "Directory" /\ Count(slots[Entry(l).start]) > 0
       /\ Fail("DirectoryNotEmpty")
    \/ /\ Entry(l).kind = "Directory" /\ Count(slots[Entry(l).start]) = 0
       /\ RemoveEntry(l)

\* open takes the first hole in the table.
Holes == {h \in Handle : ~IsOpen(h)}
Open(l) ==
    \/ ~Occupied(Entry(l)) /\ Fail("NotFoundAt")
    \/ Entry(l).kind = "Directory" /\ Fail("IsADirectory")
    \/ Entry(l).kind = "File" /\ HandlesOn(l) # {} /\ Fail("AlreadyOpen")
    \/ /\ Entry(l).kind = "File" /\ HandlesOn(l) = {} /\ Holes = {}
       /\ Fail("TooManyOpenFiles")
    \/ /\ Entry(l).kind = "File" /\ HandlesOn(l) = {} /\ Holes # {}
       /\ open' = [open EXCEPT ![Min(Holes)] =
                     [dir |-> l[1], index |-> l[2], cursor |-> 0, fcb |-> Entry(l)]]
       /\ ret' = "Ok"
       /\ UNCHANGED <<fat, slots>>

CloseHandle(h) ==
    \/ ~IsOpen(h) /\ Fail("InvalidHandle")
    \/ /\ IsOpen(h)
       /\ open' = [open EXCEPT ![h] = NoFile]
       /\ ret' = "Ok"
       /\ UNCHANGED <<fat, slots>>

MoveCursor(h, pos) ==
    /\ open' = [open EXCEPT ![h].cursor = pos]
    /\ ret' = "Ok"
    /\ UNCHANGED <<fat, slots>>

SeekHandle(h, pos) ==
    \/ ~IsOpen(h) /\ Fail("InvalidHandle")
    \/ IsOpen(h) /\ pos > open[h].fcb.size /\ Fail("SeekOutOfBounds")
    \/ IsOpen(h) /\ pos <= open[h].fcb.size /\ MoveCursor(h, pos)

\* The size that bounds a read is the one cached when the file was opened,
\* kept current by every writer.
ReadHandle(h, len) ==
    \/ ~IsOpen(h) /\ Fail("InvalidHandle")
    \/ IsOpen(h) /\ open[h].cursor + len <= open[h].fcb.size
                 /\ MoveCursor(h, open[h].cursor + len)
    \/ IsOpen(h) /\ open[h].cursor + len > open[h].fcb.size
                 /\ MoveCursor(h, IF open[h].cursor > open[h].fcb.size
                                  THEN open[h].cursor ELSE open[h].fcb.size)

\* Faulty form: the file ends where the write ends.
WrittenTo(fcb, end) ==
    [fcb EXCEPT !.start = HeadWithCapacity(fat, @, CeilDiv(end, ClusterSize)),
                !.size = end]

\* do_growing_write: the entry and the FAT after a write that ends at `end`.
Written(fcb, end) ==
    [fcb EXCEPT !.start = HeadWithCapacity(fat, @, CeilDiv(end, ClusterSize)),
                !.size = IF end > @ THEN end ELSE @]
CanWrite(fcb, end) == Fits(fat, fcb.start, CeilDiv(end, ClusterSize))
GrowChain(fcb, end) ==
    fat' = WithCapacity(fat, fcb.start, CeilDiv(end, ClusterSize))

\* Re-reads the entry, writes at the cursor, and updates this handle only.
WriteHandle(h, len) ==
    LET l == LocOf(h)
        end == open[h].cursor + len
    IN  \/ ~IsOpen(h) /\ Fail("InvalidHandle")
        \/ IsOpen(h) /\ ~CanWrite(Entry(l), end) /\ Fail("NoSpace")
        \/ /\ IsOpen(h) /\ CanWrite(Entry(l), end)
           /\ GrowChain(Entry(l), end)
           /\ WriteFcb(l, Written(Entry(l), end))
           /\ open' = [open EXCEPT ![h].cursor = end, ![h].fcb = Written(Entry(l), end)]
           /\ ret' = "Ok"

WriteAt(l, offset, len) ==
    LET end == offset + len
    IN  \/ ~Occupied(Entry(l)) /\ Fail("NotFoundAt")
        \/ Entry(l).kind = "Directory" /\ Fail("IsADirectory")
        \/ Entry(l).kind = "File" /\ ~CanWrite(Entry(l), end) /\ Fail("NoSpace")
        \/ /\ Entry(l).kind = "File" /\ CanWrite(Entry(l), end)
           /\ GrowChain(Entry(l), end)
           /\ WriteFcb(l, Written(Entry(l), end))
           /\ open' = Refreshed(l, Written(Entry(l), end))
           /\ ret' = "Ok"

Shrink(l, size) ==
    LET e == Entry(l)
        n == CeilDiv(size, ClusterSize)
        fcb == [e EXCEPT !.size = size, !.start = IF n = 0 THEN FREE ELSE @]
    IN  /\ fat' = IF n = 0 THEN FreeAll(fat, ToSet(Chain(fat, e.start)))
                  ELSE Trimmed(fat, e.start, n)
        /\ WriteFcb(l, fcb)
        /\ open' = Clamped(l, fcb)

\* What truncate makes of a file when it succeeds.
Resize(l, size) ==
    LET e == Entry(l)
    IN  /\ e.kind = "File"
        /\ \/ size = e.size /\ UNCHANGED <<fat, slots, open>>
           \/ /\ size > e.size /\ CanWrite(e, size)
              /\ GrowChain(e, size)
              /\ WriteFcb(l, Written(e, size))
              /\ open' = Refreshed(l, Written(e, size))
           \/ size < e.size /\ Shrink(l, size)

Truncate(l, size) ==
    LET e == Entry(l)
    IN  \/ ~Occupied(e) /\ Fail("NotFoundAt")
        \/ e.kind = "Directory" /\ Fail("IsADirectory")
        \/ e.kind = "File" /\ size > e.size /\ ~CanWrite(e, size) /\ Fail("NoSpace")
        \/ Resize(l, size) /\ ret' = "Ok"

TruncateHandle(h, size) ==
    \/ ~IsOpen(h) /\ Fail("InvalidHandle")
    \/ IsOpen(h) /\ Truncate(LocOf(h), size)
-----------------------------------------------------------------------------
Offsets == 0..MaxOffset
Lengths == 0..MaxLen

DirectoryStep ==
    \/ \E d \in Dirs(slots), k \in Keys : CreateFile(d, k)
    \/ \E d \in Dirs(slots), k \in Keys : Mkdir(d, k)
    \/ \E l \in Locs(slots) : Rm(l)
    \/ \E l \in Locs(slots) : Rmdir(l)
    \/ \E l \in Locs(slots) : Open(l)

FileStep ==
    \/ \E l \in Locs(slots), offset \in Offsets, len \in Lengths : WriteAt(l, offset, len)
    \/ \E l \in Locs(slots), size \in Offsets : Truncate(l, size)

HandleStep ==
    \/ \E h \in Handle : CloseHandle(h)
    \/ \E h \in Handle, pos \in Offsets : SeekHandle(h, pos)
    \/ \E h \in Handle, len \in Lengths : ReadHandle(h, len)
    \/ \E h \in Handle, len \in Lengths : WriteHandle(h, len)
    \/ \E h \in Handle, size \in Offsets : TruncateHandle(h, size)

Next == DirectoryStep \/ FileStep \/ HandleStep

Spec == Init /\ [][Next]_vars
-----------------------------------------------------------------------------
(* Properties.                                                             *)

Errors == {"InvalidPath", "NoSpace", "NotFoundAt", "IsADirectory", "NotADirectory",
           "DirectoryNotEmpty", "FileOpen", "AlreadyOpen", "TooManyOpenFiles",
           "InvalidHandle", "SeekOutOfBounds"}

\* Every variable has its type: the FAT holds entries, a stream holds slots, an
\* open handle holds a file, and a call returns Ok or an FsError.
TypeOK ==
    /\ fat \in [Cluster -> FatEntry]
    /\ slots \in [Cluster -> Seq(Slot)]
    /\ open \in [Handle -> OpenFile \cup {NoFile}]
    /\ ret \in {"Ok"} \cup Errors

\* The owners of chains: the root and every entry that names a first cluster.
Owners(s) == {l \in Locs(s) : Occupied(s[l[1]][l[2]]) /\ s[l[1]][l[2]].start # FREE}
HeadsOf(s) == {Root} \cup {s[l[1]][l[2]].start : l \in Owners(s)}
HeadLocs == Owners(slots)
Heads == HeadsOf(slots)

\* Every chain an entry names ends in EOC within the table, and no cluster is
\* in the chains of two owners: no sequence of operations makes ChainIter report a
\* loop or a free entry, or two files share a cluster.
ChainsSound ==
    /\ \A h \in Heads : fat[Last(Chain(fat, h))] = EOC
    /\ \A l, m \in HeadLocs : l # m => Entry(l).start # Entry(m).start
    /\ \A g, h \in Heads :
          g # h => ToSet(Chain(fat, g)) \cap ToSet(Chain(fat, h)) = {}

\* A file's chain has exactly the clusters its size needs (none for an empty
\* file), and a directory's stream exactly the slots of its chain: truncation,
\* growth and their rollbacks neither lose nor keep a cluster.
ChainMatchesSize ==
    /\ \A l \in Locs(slots) : Entry(l).kind = "File" =>
          Len(Chain(fat, Entry(l).start)) = CeilDiv(Entry(l).size, ClusterSize)
    /\ \A d \in Cluster : Len(slots[d]) =
          IF d \in Dirs(slots) THEN SlotsPerCluster * Len(Chain(fat, d)) ELSE 0

\* What an open handle caches is what the directory says: its slot holds a
\* file, the cached entry equals it, the cursor is within the file, and no other
\* handle is open on it, whatever other handles and path-based calls do.
OpenCoherent ==
    \A h \in Handle : IsOpen(h) =>
        /\ LocOf(h) \in Locs(slots)
        /\ Entry(LocOf(h)).kind = "File"
        /\ open[h].fcb = Entry(LocOf(h))
        /\ open[h].cursor <= open[h].fcb.size
        /\ HandlesOn(LocOf(h)) = {h}

\* The directories form a tree under the root: every stream belongs to the root or
\* to a directory that exactly one entry names, and going up from any directory
\* ends at the root.  find_dir_loc and recursive walks rest on this.
Parent(d) == (CHOOSE l \in Locs(slots) :
                 Entry(l).kind = "Directory" /\ Entry(l).start = d)[1]
Under(D) == {d \in Dirs(slots) : d = Root \/ Parent(d) \in D}
TreeRooted ==
    /\ ~ \E l \in Locs(slots) : Entry(l).kind = "Directory" /\ Entry(l).start = Root
    /\ \A D \in SUBSET Dirs(slots) : Under(D) \subseteq D => D = Dirs(slots)

\* The size recorded for a directory is the number of entries it holds, although
\* it is stored in another directory and refreshed after each change.
DirSizeCurrent ==
    \A l \in Locs(slots) : Entry(l).kind = "Directory" =>
        Entry(l).size = Count(slots[Entry(l).start])

\* No directory holds two entries of one name (report.typ:108, the creation flow
\* checks whether a file of the same name exists).
NamesUnique ==
    \A d \in Cluster : \A i, j \in DOMAIN slots[d] :
        /\ Occupied(slots[d][i]) /\ Occupied(slots[d][j])
        /\ slots[d][i].name = slots[d][j].name
        => i = j

\* The clusters that are allocated but on no owner's chain.
Lost == {c \in Cluster : fat[c] # FREE} \ UNION {ToSet(Chain(fat, h)) : h \in Heads}

\* A call that succeeds loses no cluster: what rm, rmdir, truncation and growth
\* unlink they also free, and what they free nobody names.
SuccessLosesNothing == [][ret' = "Ok" => Lost' \subseteq Lost]_vars

\* No call loses a cluster: exp_5/report.typ:285 says that a rollback mechanism
\* makes allocation and truncation transactional.
NoLostCluster == Lost = {}

\* A call rewrites, frees or extends only the chain of the entry it writes: the
\* clusters of every file whose entry stays as it is stay its own, in order.
OthersUntouched ==
    [][\A l \in Locs(slots) :
          /\ l \in Locs(slots')
          /\ Entry(l).kind = "File"
          /\ slots'[l[1]][l[2]] = Entry(l)
          => Chain(fat', Entry(l).start) = Chain(fat, Entry(l).start)]_vars
-----------------------------------------------------------------------------
(* The inductive invariant, in terms of single links of the FAT.           *)

\* With H the first clusters of chains: they are allocated, no link leads to one
\* of them or to a free cluster, and no two links lead to one cluster.
LinksSound(f, H) ==
    /\ \A h \in H : f[h] # FREE
    /\ \A c \in Cluster : f[c] \in Cluster => f[c] \notin H /\ f[f[c]] # FREE
    /\ \A b, c \in Cluster : f[b] = f[c] /\ f[b] \in Cluster => b = c

\* A directory has a chain, no two entries name the same first cluster and none
\* names the root.
StartsSound(s) ==
    /\ \A l \in Locs(s) :
          s[l[1]][l[2]].kind = "Directory" => s[l[1]][l[2]].start # FREE
    /\ \A l, m \in Owners(s) : s[l[1]][l[2]].start = s[m[1]][m[2]].start => l = m
    /\ \A l \in Owners(s) : s[l[1]][l[2]].start # Root

\* Only a directory (or a cluster of N) has a stream.
StreamsOwned(s, N) == \A d \in Cluster : s[d] # <<>> => d \in Dirs(s) \cup N

\* What every operation preserves, whatever order operations come in: the table
\* of clusters, the entries and the open files agree, link by link.
IInv ==
    /\ TypeOK
    /\ LinksSound(fat, Heads)
    /\ StartsSound(slots)
    /\ StreamsOwned(slots, {})
    /\ OpenCoherent
=============================================================================

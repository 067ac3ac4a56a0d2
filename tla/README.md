# Verification of the operating-systems experiments

TLA+ specifications of the programs in this repository, checked with TLC and, for the
parts marked below, proved with TLAPS. The repository holds two systems of substance:

* **libmyfs** (`exp_5/myfs`): a FAT file system in Rust, with a FUSE front end, an
  interactive shell and a formatting tool;
* **mychat** (`exp_3/mychat`): a chat program in Zig over FIFOs, message queues and
  shared memory, and **myshell** (`exp_3/myshell`), a small shell with pipelines.

`exp_1` is a kernel patch of one system call. Paths below are relative to `src/`.

## Contents

1. Inventory of the system
2. Modules, and how they correspond to the code
3. Runs: what each checks, bounds, what it shows
4. Fairness
5. Proofs
6. Where the code and its documents disagree
7. What is only model-checked, and what is not modelled
8. Plan

## 1. Inventory

### 1.1 libmyfs

| component | state | operations | called by |
|---|---|---|---|
| FAT and chains (`lib.rs`, `fat.rs`) | `fat_m`, one 16-bit entry per data cluster | allocate, link, extend, cut, free a chain; `ChainIter` | everything below |
| directories (`lib.rs`, `fs.rs`, `name.rs`) | streams of 24-byte entries, in chains | `lookup`, `create_file`, `mkdir`, `rm`, `rmdir`, `refresh_dir_size` | front ends |
| open files (`lib.rs`) | `open_files`: cached entry, location, cursor | `open`, `close_handle`, `seek`, `read`, `write`, `truncate` by handle, `write_at`, `truncate` by location | front ends |
| file data (`lib.rs`) | bytes of the clusters | zeroing of new and cut clusters, partial writes | open files |
| on-disk image (`lib.rs`, `fs.rs`) | boot sector, two copies of the FAT, `fat_dirty` | `format_on_device`, `open_on_device`, `sync` | tools, front ends |
| geometry (`fs.rs`, `lib.rs`) | none | `FsConfig::validate`, `get_fat_block_count` | format, mount |
| devices (`dev.rs`) | an array of blocks | read, write, flush | libmyfs |
| FUSE front end (`exp_5/myfs/src/main.rs`) | inode numbers that are slot locations; a lock | the FUSE callbacks | the kernel |
| shell (`exp_5/myfs_shell`) | current directory, as a path and as a first cluster | one command per operation | a user |

All access to one `MyFileSystem` goes through `&mut self`, and the FUSE front end takes a
lock per callback. There is therefore no interleaving *inside* an operation. What is hard
here is **long sequences of legal calls**: state is kept three times (the table of
clusters, the entries in directories, the copies of entries in open files), the size of a
directory is stored in another directory than the one it describes, and several
operations change the table in more than one place, with a failure possible in between.
What makes it correct: chains end, do not loop and are disjoint; the clusters of a file
are as many as its size needs; the copies agree; directories form a tree; nothing is lost;
an operation on one file leaves the others alone. With the device: what is on disk after
a crash can be mounted without giving a cluster to two files.

### 1.2 mychat

| component | state | actors |
|---|---|---|
| peer to peer (`p2p.zig`) | one 512-byte buffer and five semaphores in shared memory; `g_shutdown` per process | host and client, each a sending and a receiving thread; SIGINT |
| shared-memory room (`shmem.zig`) | one frame up, one frame down per client, a table of clients, retry counts | host main loop and probe thread, clients, SIGKILL of clients |
| message-queue room (`mq.zig`) | a bounded queue up, one per client down, a table of clients | the same |
| FIFO room (`fifo.zig`) | a control FIFO, one per client, a table of clients | host loop that also probes, clients |

Hard: threads of several processes around one buffer, waits that can be interrupted,
threads that die with their process in the middle of a protocol, clients that are slow
and clients that are dead and look alike, bounded queues. What makes it correct: mutual
exclusion in each buffer; frames delivered once, whole, to the other side; one client in
peer-to-peer mode; sessions that do not overlap; nobody waits for ever while somebody
listens; only dead clients are reaped.

### 1.3 myshell

A parser and an executor: `fork`, pipes, `dup2`, redirections, builtins. The parser is
sequential text processing. The executor's correctness is that each stage of a pipeline
gets the ends of the pipes that belong to it and that every end is closed in the parent.

`PROJECT.json` lists every component with its status and, under *hazards*, what in this
code is hard to test, at its line.

## 2. Modules

| module | what it is |
|---|---|
| `FatChains` | operators on a FAT: follow, allocate, link, cut and free chains |
| `FatFs` | the in-memory file system: directory streams, open files, over `FatChains` |
| `MCFatFs` | its instances for TLC |
| `FatChainsProofs` | lemmas about chains and tables, for both modules of proofs over `FatChains` |
| `FatFsProofs` | the theorems of `FatFs` and of `FrontEnds` |
| `Geometry` | the layout of an image: configurations, boot sector, addresses, devices; over `FatChains` |
| `FatDisk` | the image block write by block write: format, mount, sync, data, faults, crashes; over `Geometry` |
| `MCFatDisk` | its instance for TLC, and the layout with the code's own sizes |
| `FatDiskProofs` | the theorems of `FatDisk` and of the layout |
| `Fuse` | the requests of the FUSE front end, and reading a directory page by page; over `FatFs` |
| `Shell` | the commands of the interactive shell; over `FatFs` |
| `FrontEnds` | the two programs composed with the core, and what relates them |
| `MCFrontEnds` | its instances for TLC |
| `Exchange` | abstract: a place that holds one frame |
| `P2P` | peer-to-peer mode at the level of semaphore operations; implements `Exchange` |
| `MCP2P` | its instances for TLC |
| `P2PProofs` | its theorems |
| `Shmem` | the chat room over shared memory; its uplink implements `Exchange` |
| `MCShmem` | its instances for TLC |
| `ShmemProofs` | its theorems |
| `Room` | abstract: one order of events, of which each client is given a part without gaps |
| `RoomFrames` | processes and frames of the two rooms below |
| `MqRoom` | the chat room over message queues |
| `MqRoomProofs` | its theorems |
| `FifoRoom` | the chat room over FIFOs |
| `FifoRoomProofs` | its theorems |
| `ChatRooms` | the two rooms as modes of one program; each implements `Room` |
| `MCChatRooms` | its instance for TLC |
| `ChatRoomsProofs` | the theorems of both rooms, carried over to the program |

### 2.1 FatFs

One action per public operation of `MyFileSystem`, each one step, because callers hold
`&mut self` (or the lock) throughout. An action has one disjunct per outcome: success, and
each early return with its `FsError`, in `ret`.

| state | code |
|---|---|
| `fat` | `fat_m`: `FREE` is 0x0000, `EOC` 0xFFFF, else the next cluster |
| `slots[d]` | the entries read by walking the chain that starts at `d`: the address space of `DirEntryLoc` (index 1 is `entry_index` 0); empty if no directory starts at `d` |
| `open` | `open_files`, with `NoFile` for a hole |
| `ret` | the `Result` of the last call |

Helpers keep their role in the code: `Chain` is what `ChainIter` yields (a chain that
loops, or meets a free entry, shows as one whose last cluster is not marked `EOC`);
`Extend` is `allocate_clusters` followed by the linking in
`ensure_fcb_chain_capacity`; `FillFreeDirSlot`, `RefreshDirSize`, `Trimmed`, `FreeAll`
are the functions of similar names. Some things a reader may look for:

* `Mkdir` allocates the new directory's cluster *before* it looks for a slot in the
  parent, and the third disjunct keeps that cluster when there is no slot: the code
  returns early without freeing it.
* `WriteHandle` re-reads the entry from its directory, writes, and updates the caching
  handle only; `WriteAt` updates every handle on the slot (`Refreshed`). Both are right
  because `OpenCoherent` says there is at most one.
* A write of no bytes beyond the end extends the file, as `do_growing_write` does.
* `ShortName` is the conversion from a path component as `normalize_component` leaves it
  to the name field of an entry. Nothing in the specification assumes it injective; it is
  not (section 6).

Abstracted: bytes of file data and the device, with its errors (`FatDisk`), and dates
(`Fuse` has what matters of them). Callers reach files and directories by location, and
the locations the inputs enumerate are all those that exist (`Locs`), empty slots
included, and the directories (`Dirs`).

`FatFs` has no fairness and no liveness: every operation returns, and nothing has to
happen.

### 2.2 Geometry and FatDisk

`Geometry` holds the pure functions of `lib.rs`, `fat.rs` and `dev.rs`: `Validate`,
`GetFatBlockCount` (the loop as a recursive function on its rounds), `Layout` (the boot
sector), `BootAccepted`, and the addresses of FAT entries and clusters with their `% 65536`.
The sizes of the stored records are constants, so that the same definitions serve small
images and the code's own.

`FatDisk` puts the FAT of `FatChains` on such an image.

| state | code |
|---|---|
| `disk` | the image: per block, the cells that are not zero (FAT entries, directory slots, units of data, the boot sector) |
| `boot` | `boot`, or `ZeroBoot` when no process has the image open |
| `fat`, `dirty` | `fat_m`, `fat_dirty` |
| `todo`, `call` | the block writes that the call in progress has still to make, and what it was asked for |
| `files` | not in the code: what each file should read as |
| `sound`, `safe` | not in the code: slots that no failed call or crash has left half changed; those of them unchanged since the last completed sync |

A call begins by laying out its writes in `todo`, in the code's order; a step carries the
changes of the FAT in memory that come before its write (`put`) and the rollback that the
code performs if the write fails (`undo`, `wipe`). `DeviceWrite` does one write, `Fault`
makes it fail, `Stop` ends the process at any point and `Mount` opens what is then on the
image. `allocate_clusters`, `write_chain_bytes`, `free_chain_from` and `flush_fat` are
`Allocate`, `GrowAndFill`, `FreeChain` and `FlushFat`. Laying the writes out at the start
loses nothing, because a call has the file system to itself.

Abstracted: a cluster is one block here, so it is written whole or not at all; the root
directory has one cluster and no directories (`FatFs` has those); zero filling writes a
cluster at once, which the code may do in pieces of 256 bytes. A call meets one failing
write: its rollback then succeeds. Callers leave a slot alone once a failed call or a
crash has left it half changed: such an entry can name clusters that the FAT calls free,
and the code neither notices nor repairs that. What was written stays written: nothing
calls `FileBackend::sync`, so a power failure of the host is outside what the code
promises.

### 2.3 Fuse, Shell and FrontEnds

A FUSE request takes the lock before it looks at the file system and holds it until it
replies, so each is one step, made of the actions of `FatFs`. Between requests the kernel
keeps handles (`held`) and an offset into a directory (`listing`). Inode numbers are
locations, as in `FuseNodeId`. `Create` is `create_file` and `open` under one lock: when
the table of open files is full the reply is an error and the file stays. `SetSize` is a
setattr with a size and perhaps a time: when the time has no encoding the reply is an
error and the file keeps its new size; `SetTime` is a setattr with a time alone. `Readdir`
follows `readdir`: `.` and `..` first, then the occupied entries from the offset on, each
decoded before it is offered to the reply. `unset` holds the entries whose time stamp is
stored as 0, which reads as "no stamp" and fails to decode.

`Shell` resolves a path as the code does: the text is made canonical (`Canonical`, with
`..` taken back whatever it follows), then looked up from the root (`Resolve`). `cd` sets
both the path and the cluster of the current directory; no other command does, rmdir of
that directory included, which only `cwd_gone` records.

In `FrontEnds` one of the two programs runs, chosen at the start: the shell has an image
of its own in memory. Not modelled: requests on a directory that has been removed while
the kernel still holds its number (its location is then not one of `Nodes`); data of an
intermediate file that happens to read as a directory entry of the name looked for (the
code does look there, `myfs_shell/src/main.rs:285`); setattr with another file's handle,
which the kernel does not send; and what only reads (`lookup`, `getattr`, `read`, `stat`,
`ls`).

### 2.4 P2P and Exchange

A step is what one thread does between two semaphore operations. Per process:

| state | code |
|---|---|
| `client_present`, `turnstile`, `empty`, `full` | the semaphores of `ShmRegion`; `full` holds `full_host` and `full_client` by role |
| `data` | the frame in the buffer: its kind and its sender |
| `pc[p]`, `sending[p]` | where the main thread is: `runHost`/`runClient`, `sendLoop`, inside `p2pSend`; and the kind of frame it sends |
| `receiver[p]`, `got[p]` | where `recvLoop` is, and the last frame `p2pRecv` copied out |
| `shutdown[p]` | `g_shutdown` |

The four steps of `p2pSend` are `EnterTurnstile`, `TakeEmpty`, `WriteFrame` (copy and post
`full`) and `Release`, which also decides where the thread goes on: a client that has
sent JOIN starts its receiver; a set flag turns into a LEAVE; after LEAVE the process
ends. `RecvCheck`, `RecvWait` and `RecvCopy` are `recvLoop` and `p2pRecv`.

*Signals.* `sigaction` is called without `SA_RESTART`, so a `sem_wait` that blocks in the
main thread fails with `EINTR`. In `p2pSend` that is a `@panic`: nothing the process holds
is posted (`Interrupt`, first case). While waiting for `client_present` it is an error
return (second case). Anywhere else the handler sets the flag (third case).

*Ends of processes.* `Exit` kills the detached receiving thread wherever it is, also
between its two semaphore operations; the buffer's token is then lost (`BufferLost`). A
client posts `client_present` before it ends, so its receiver may overlap the next
client's session. Both are in the model.

Not in the model: the text of frames, lines too long for one (they are dropped before
`p2pSend`), SIGKILL, the unmapping of the segment.

`Exchange` says what the buffer is for: `Put` a frame into an empty place, `Take` it
whole, by a process of the other side. The refinement mapping `Box` takes the content of
the buffer from the end of copying in to the end of copying out.

### 2.5 Shmem

A step is again what one thread does between two semaphore operations.

| state | code |
|---|---|
| `space`, `data`, `frame`, `marks` | the host's `ShmRegion`: its semaphores, the frame, and where record separators are in `frame`, those that longer frames left behind included |
| `main`, `buf`, `cut` | where `runHost` is; `frame_buf`; `rs_idx`, the length it takes the frame to have |
| `probe`, `clients_sem` | where `zombieProbeLoop` is; the semaphore around the table |
| `members`, `retries` | the table and `n_retries` |
| `outbox`, `todo` | the frames that the holder of `clients_sem` still has to broadcast, and the members the current one has not been tried with |
| `down[c]` | the semaphores of a client's own region |
| `told[c]` | who is there, as the frames put into that region say (not in the code: it is what a client's screen should show) |
| `segments` | the names under which a client's region can be opened |
| `pc[c]`, `sending[c]`, `receiver[c]`, `shutdown[p]` | the client's two threads, and `g_shutdown` |

`TakeSpace`, `WriteFrame` and `EndFrame` are `sendToHost`; writing is two steps, with the
separator in the second, because `HostScan` looks for separators in the *shared* region
(`shmem.zig:300`) when the next client may be writing. Without one it panics, and the
model stops the host. `HostWait`, `HostCopy`, `HostScan` and one of `Handle...`,
`IgnoreFrame` and `DropFrame` are a round of `runHost`. A frame whose length was misread is
dropped, except that a message may still be one: its name precedes its text.

`Deliver` and `Timeout` are the two results of `deliverToClient`; a wait can time out as
long as the space is taken, which covers any scheduling of a 10 ms deadline and also a
signal. A member is finished with before the next is tried (`Turn`). `Reap` removes all
zombies before it broadcasts the first LEAVE, as `reapZombies` does. `Client.deinit`
unlinks a client's region also when the client is alive.

*Signals.* SIGINT makes a blocked wait of the main thread fail: a client gives up JOIN or
LEAVE and leaves after a line; the host leaves its loop, or panics when it waited for
`clients_sem`. SIGKILL (`Kill`) stops a client anywhere, and its region stays.

*The end of a client.* After LEAVE a client unmaps its region, closes and unlinks it and
ends, while the detached receiving thread may still run: it can take one more frame, or
touch the region unmapped, which ends the process before the region is unlinked. `End` is
one step, with the two outcomes for the name of the region. What it leaves out is that the
region may be emptied once more between LEAVE and the end, that is, that a last delivery
succeeds which in the model times out. (Separate steps make the run nearly three times as
large, too large to check liveness in it.)

Not in the model: the text of frames (a name cut short is taken to name nobody, although
it could be the name of another client), and failures of allocation, mapping and threads.

### 2.6 MqRoom, FifoRoom, ChatRooms and Room

`mq.zig` and `fifo.zig` have the same clients and the same host over different channels;
the modules share the names of their parts.

| state | code |
|---|---|
| `uplink` | what is in `/mychat-host`, or in the control FIFO |
| `held` (FIFO) | whole frames in the buffer of `ctrl_fifo_reader` |
| `main`, `buf`, `target` | where the host's main thread is, the frame it handles, and (FIFO) the client whose FIFO it opens or writes |
| `probe`, `clients_sem` (queues) | where `zombieProbeLoop` is; the semaphore around the table |
| `members`, `retries` (queues) | the table, keyed by `name[c]` in the code, and `n_retries` |
| `outbox`, `todo` | the frames still to be broadcast, and the members the first has not been tried with |
| `queue[c]`, `links`, `receiver[c]` | what is in a client's queue or FIFO; whether its name leads to it; whether somebody reads it |
| `pc[c]`, `name[c]`, `seen[c]`, `shutdown[p]` | the client's main thread, its user's name, what it has received, and `g_shutdown` |
| `log` | not in the code: the frames broadcast so far |

*Steps.* A thread's test of `g_shutdown` is part of the step before it; opening a message
queue is part of the step before the send that follows it, because a queue that was opened
is usable although it is unlinked. (A client that opened the host's queue and finds it full
waits for good if the host ends: the step `SendMsg` is then never enabled.) In the FIFO
room opening and writing are two steps of the host, `OpenData` and `WriteData`, because
the opening waits for a reader and the reader may be gone at the write. Handling a frame
begins the broadcast, and `Deliver`/`Fail`, or `NextClient` to `WriteData`, go on with it
client by client. In the queue room the order of the clients is free, as an iterator over
a hash table is, but a member is finished with, in up to three attempts, before the next
is tried (`Turn`).

*The reader's buffer.* `poll` reports what is in the control FIFO, while a read may take
several frames into the reader's buffer at once (`HostRead`, `\E n`). A frame held there
is handled at the next report, and the probe may run before it.

*Zombies.* The queue room calls a client a zombie after three failed attempts in one
broadcast, dead or slow. The FIFO room calls one a zombie whose FIFO nobody reads, and
looks only when `poll` has timed out: as it broadcasts before that, it may already wait in
opening the FIFO of a killed client, and then for good (section 6).

*Signals.* Zig's standard library restarts `poll`, `open`, `read` and `write` after
`EINTR`; so in the FIFO room SIGINT only sets the flag. `mq_send`, `mq_receive` and
`sem_wait` are called directly and fail, which ends the host's loop, a client's sending,
or, for `clients_sem`, the host by a panic. A SIGINT that comes after the test of the flag
and before the call sets the flag only, and the host then receives one more frame. SIGKILL
(`Kill`) stops a client anywhere; its queue or FIFO stays, a FIFO without a reader.

`ChatRooms` is `main.zig`: one mode, chosen at the start, for host and clients. `Room` is
what both rooms promise: a `log` of announcements, and for each client a contiguous part
of it that begins with its own JOIN. The refinement takes a frame as heard when it is in
the client's queue.

Not in the model: the text of frames, what a FIFO holds (64 KiB, which nobody fills here),
failures of allocation, threads and creation, a second process that joins under the
process number, and so the queue name, of an earlier one.

## 3. Runs

| run | question | states | result |
|---|---|---|---|
| `fs` | directories and open files over a small disk, in every order | 7 830 (up to symmetry) | pass |
| `fs_lost_cluster` | does a failed call keep a cluster? | – | `NoLostCluster` violated |
| `fs_names` | can a directory hold one name twice? | – | `NamesUnique` violated |
| `fs_disk` | what is on the image when writes fail and processes end anywhere; the layout | 628 746 | pass |
| `front_ends` | FUSE requests around a listing, and the shell around its current directory | 24 521 (up to symmetry) | pass |
| `fuse_midnight` | does listing a directory always work? | – | `ListingSucceeds` violated |
| `p2p_sessions` | a host and two clients, one client interrupted anywhere; both sides sending at once | 186 763 | pass |
| `p2p_deadlock` | a host whose user types before a client joins | – | `DeadlockFree` violated |
| `shmem_room` | two clients in a room, one killed, the other or the host interrupted anywhere, or a line typed; broadcasts end, zombies go | 671 549 | pass |
| `shmem_scan` | is a message handled as it was sent? | – | `MessagesWhole` violated |
| `chat_rooms` | two clients in either room, one killed, the other or the host interrupted anywhere, or a line typed, the same name chosen or not | 759 037 (up to symmetry) | pass |
| `fifo_zombie` | over FIFOs, is a client that was killed found and removed? | – | `KilledReaped` violated |

**Properties of FatFs.** `ChainsSound` (chains end, and are disjoint), `ChainMatchesSize`
(the clusters a size needs, the slots a chain holds), `TreeRooted`, `DirSizeCurrent`,
`NamesUnique` (for injective short names), `OpenCoherent` (the copies of entries in open
handles), and two action properties: `SuccessLosesNothing` (a call that returns `Ok`
leaks no cluster) and `OthersUntouched` (a file whose entry a call does not change keeps
its clusters, in order). `IInv` is the inductive invariant of the proofs; here, in `FatDisk`, in
`P2P`, in `Shmem` and in `ChatRooms` it contains `TypeOK`, which is therefore not listed on its own.

**Bounds of FatFs.** Four data clusters, of one slot as directories and two units as files
(`SlotsPerCluster`, `ClusterSize`); two names, two handles. A directory of two entries
already has two clusters, so growth, reuse of deleted slots, nesting and a full disk at
each of the two allocations of `mkdir` all occur. Offsets up to 3 (`MaxOffset`) and a
write of one unit (`MaxLen`) give files of zero, one and two clusters, ends at, before and
after a cluster boundary, holes, and two files that compete for the last cluster; two
handles and two names give open files changed by location and handles reused. One more
cluster multiplies the states by more than ten and adds no new case. `ret` is left out of
the fingerprint (`VIEW`): no guard reads it and the action properties are evaluated on
every transition. Names are symmetric where `ShortName` is the identity.

**Properties of FatDisk.** `CleanIsStored` (a clean FAT is the one the next mount reads);
`ReadsBack` (a file reads as what was written, zeros where nothing was, whatever other
calls, failures and crashes there were); `BeyondEndZero`; `SyncedSurvive` (at every
moment, in the middle of a sync or of an allocation too, the image alone gives every file
that was synced and not touched since, through either copy of the FAT); `GrowthRollsBack`
(after a failed growth the FAT is as before, as the comment at `lib.rs:1055` says);
`GeometrySound` (for 1 031 configurations with the code's sizes: the loop settles, regions
are disjoint and on the device, no address wraps, and mounting what was formatted works).

**Bounds of FatDisk.** Blocks of four bytes make a FAT of five entries two blocks long, so
that a sync can stop within a copy and between copies. Three clusters, one of them the
root's, and two files, of which one may reach two clusters and the other one (`Sizes`),
allow growth by two clusters at once, a full disk, and clusters that go from one file to the
other. Either file may hold data and be synced while a call on the other allocates, writes,
frees or fails, while a sync of the other's clusters is under way, and when the process ends
in the middle of that: then the two copies of the FAT differ on the image and the safe file
must be whole through both. (A file of two clusters fills the disk, so beside it the other
is empty.) One value is written (`Values`); what was never written is zero. The run leaves
out a part of the states in which less is claimed: once a failed call or a crash has harmed
slot 2, it goes on only while slot 1 is as last synced (`Followed`, a constraint; slot 1 may
be harmed at any time). The proof has no such limit.

**Properties of the front ends.** `ListingFaithful` (a listing in pages returns every
entry that is there throughout, and none twice unless entries were added); `HandlesAgree`
(the handles open in the file system are those the kernel holds, on the same file);
`ErrorLeavesTree` (an error takes no entry away, and changes and adds none, nor any open
file, with two exceptions, each with its own error: `create` that finds no free handle
leaves one empty file and counts it in the entry of its directory and in no other entry,
and setattr whose time is refused leaves one file with another size and chain, of which
the file's own handles know); `CwdFollowsPath` (the two forms of the
current directory lead to one place); `ResolveAgrees` (resolution by text from the root
finds what walking component by component finds, whenever there is such a walk).

**Bounds of the front ends.** Two names, three clusters of one slot: a directory grows to
two entries in two clusters, and two levels of directories fit. A reply to readdir has
room for one or two entries (`MaxRoom`), so `.` and `..` may come alone and every offset
is stopped at. One stamp at most is unset (`MaxUnset`), paths have at most two components
(`MaxParts`), one handle is enough for a full table. A listing is followed until an entry
it has passed, or the directory itself, is removed: the offset counts occupied entries, so
a later one is then missed, and no document of the code promises otherwise.

**Properties of P2P.** `BufferExclusive` (nobody is in the buffer together with a writer,
no two readers), `OneClient`, `SessionsInOrder` (what the host hears is JOIN, lines,
LEAVE of one client, then of the next), `ExchangeSpec` (refinement), `IInv`; and as
liveness `FrameIsRead` and `SenderGetsBuffer`.

**Bounds of P2P.** Two clients are what it takes for a session to follow another and for
an old receiver to overlap a new session; a third adds no new kind of overlap, and the
theorems hold for any number. One client is interrupted; the other comes before, after or
between. The theorems are for interrupts of everyone, the host included. Nothing is bounded
in length: users may type for ever. TLC need not check deadlock there because every
process may leave.

**Properties of Shmem.** `UplinkExclusive` and `UplinkSpec` say of the host's region what
`BufferExclusive` and `ExchangeSpec` say of peer-to-peer mode; `DownlinkSound` that a
listening client's region is never lost; `RosterCurrent` relates the table to what members
were told: whenever nobody broadcasts, a member that can be reached knows that it has
joined and knows of nobody who is not in the table; `BroadcastEnds` and `ZombieReaped` are
liveness.

**Bounds of Shmem.** In `shmem_room` one line is typed or one process gets SIGINT
(`MaxEvents`, in the guards of `TypeLine` and `Flag`; a state constraint would make the
liveness properties unsound): with JOIN and LEAVE that is enough for each client to send
while the other's frame is being written, copied, measured or broadcast, and for a killed
client to miss three deliveries. The theorems are for any number of lines and signals.
JOIN, message and LEAVE have three different lengths (`ThreeLengths`), so that separators
are hidden, left behind and absent. `ZombieReaped` relies on the bound: `clients_sem`
promises no turn to the probe thread while the main thread has messages without end.
`BroadcastEnds` and `ZombieReaped` are of the form "again and again": of `BroadcastEnds`
that says that whenever `clients_sem` is taken it is given back, of `ZombieReaped` that no
member stays at three missed deliveries, which it can leave only by leaving the table.

**Properties of the rooms.** `RoomSpec` (the refinement): nobody is given a frame after a
gap, twice or in another order than the others, although slow clients are left out, reaped
while alive, and may share a name with somebody. It rests on the retry count staying at
three until the probe has run, and on the FIFO host waiting for the client's first open.
`TableAnnounced`: whenever the table is at rest its names are those that the broadcast
frames leave present, once each, and whoever answers was given the last of them; over
FIFOs also that no living member looks dead. `HostNeverStuck`: over queues the host can
move while any client waits for it; over FIFOs unless it opens the FIFO of a killed
client, the one way in which a client can stop that host for good. The exception is no
licence: a test of the repository requires the opposite, and `fifo_zombie` shows the case
(`KilledReaped`, section 6). `HostNeverStuck` has two halves:
`HostServes` says when the host waits for nobody, in terms of its threads' guards
(`HostReady`, `OpenWaits`), and is proved; that the host can take a step exactly when these
guards hold is a matter of `ENABLED` and is checked in every state. `IInv` is, in each
mode, the inductive invariant of that room's proofs.

**Bounds of the rooms.** Queues of one frame (`N_MAX_MSG`, 4 in the code): with JOIN and
LEAVE of two clients, and one line or one SIGINT (`FewEvents`, a state constraint, which can
cut safety properties short and not falsify them), every queue is
found full, a client misses three attempts while the other is served, both are zombies at
once, and a frame waits in the uplink while the probe holds the table. Users choose between
two names. The theorems bound neither lines nor signals.

Every property of a passing run has a mutant: a definition of the code in the form a
plausible mistake would give it (in the modules, *Faulty form*, next to the right one),
under which TLC finds the property violated.

## 4. Fairness

`P2P` assumes weak fairness of each thread's own steps: the scheduler runs a thread that
can run. Nothing is assumed of users (`TypeLine`, `Quit`, `Interrupt`, `Arrive`), and
nothing stronger of `sem_wait`: POSIX semaphores do not promise that a waiter gets the
semaphore rather than one that comes later, so no progress is claimed for a thread at the
turnstile. `SenderGetsBuffer` speaks of the one that holds it; there it is the only
waiter. Both liveness properties are conditional on a conversation: both receivers run
and have not been told to stop, and the buffer was not lost with a process that ended in
the middle of reading it. Nothing is claimed of a thread that waits for the turnstile: after a
panic it is never posted again. A frame in the buffer is read all the same.

`Shmem` assumes the same of the host's two threads and of each client's two, and of
`sem_timedwait` that it returns (`BroadcastStep`). A host that has panicked takes no step.
Nothing is assumed of users and signals. A client may be killed, also with the uplink's
token, after which nobody sends: what is claimed is that the host keeps broadcasting to an
end, unless it panics, and reaps, unless it is told to end.

`FifoRoom` assumes in `FairSpec`, which only `fifo_zombie` uses, that the host's one thread and
the two of each client run when they can. A host that waits in `open` cannot.

## 5. Proofs

All theorems hold for every value of the constants that meets the named assumptions
(`TableAssumption`, `GeometryAssumption`, `LimitsAssumption`, `NameAssumption`,
`NoFileAssumption`, `ReplyAssumption`, `UpAssumption`; `SizeAssumption`,
`ImageAssumption`; `ProcessAssumption`, `NoFrameAssumption`; `BoundAssumption`), which TLC
evaluates on every run. None uses the fairness conditions. The clients of a room are any
finite set, and queues have any length.

| theorem | module | states |
|---|---|---|
| `Invariance` | `FatFsProofs` | `Spec => []IInv` |
| `TypeCorrect` | | `Spec => []TypeOK` |
| `HandlesCoherent` | | `Spec => []OpenCoherent` |
| `ChainsStaySound` | | `Spec => []ChainsSound` |
| `ChainsMatchSizes` | | `Spec => []ChainMatchesSize` |
| `TreeStaysRooted`, `SizesStayCurrent` | | `TreeRooted`, `DirSizeCurrent` |
| `NamesStayUnique` | | `NamesUnique`, if every key is stored as it is looked up |
| `OthersStayUntouched`, `SuccessesLoseNothing` | | the action properties `OthersUntouched`, `SuccessLosesNothing` |
| `FrontTypeCorrect`, `KernelHandlesAgree`, `ListingsFaithful` | | `FrontSpec => []...` of `FrontTypeOK`, `HandlesAgree`, `ListingFaithful` |
| `CwdStaysOnPath`, `ResolutionAgrees` | | `CwdFollowsPath`, `ResolveAgrees`, if every key is stored as it is looked up |
| `ErrorsLeaveTree` | | the action property `ErrorLeavesTree` |
| `FrontEndsKeepCore`, `FrontEndsHarmNothing` | | under `FrontSpec`: `ChainsSound`, `ChainMatchesSize`, `TreeRooted`, `DirSizeCurrent`, `OpenCoherent`; `OthersUntouched`, `SuccessLosesNothing` |
| `LayoutSound` | `FatDiskProofs` | `Settled`, `RegionsSound` and `Reopens` of every configuration that `Validate` accepts |
| `InvariantHolds`, `TypeCorrect` | | `Spec => []IInv`, `Spec => []TypeOK` |
| `CleanTableIsStored`, `SoundSlotsReadBack` | | `CleanIsStored`, `ReadsBack` |
| `TailsAreZero`, `CrashLosesNothingSynced` | | `BeyondEndZero`, `SyncedSurvive` |
| `FailedGrowthRollsBack` | | the action property `GrowthRollsBack` |
| `Invariance` | `P2PProofs` | `Spec => []IInv` |
| `TypeCorrect`, `MutualExclusion`, `SingleClient` | | `TypeOK`, `BufferExclusive`, `OneClient` |
| `SessionsOrdered` | | the action property `SessionsInOrder` |
| `ImplementsExchange` | | `Spec => ExchangeSpec` |
| `Invariance` | `ShmemProofs` | `Spec => []IInv` |
| `TypeCorrect`, `UplinkExclusion`, `DownlinkKept` | | `TypeOK`, `UplinkExclusive`, `DownlinkSound` |
| `RosterStaysCurrent` | | `RosterCurrent` |
| `ImplementsExchange` | | `Spec => UplinkSpec` |
| `Invariance`, `TypeCorrect`, `TableCorrect`, `ImplementsRoom` | `MqRoomProofs`, `FifoRoomProofs` | of each room: `IInv`, `TypeOK`, `TableAnnounced`, `Spec => R!Spec` |
| `HostWaitsForNobody`, `HostWaitsForOpening` | `MqRoomProofs`, `FifoRoomProofs` | of each room: `Spec => []HostServes` |
| `Invariance` | `ChatRoomsProofs` | `Spec => []IInv` |
| `TypeCorrect`, `TableCorrect` | | `TypeOK`, `TableAnnounced` |
| `HostWaitsForNobody` | | `Spec => []HostServes` |
| `ImplementsRoom` | | `Spec => RoomSpec` |

**FatFs.** `ChainsSound` speaks of whole chains, which a single update changes in ways that
are awkward to follow. The inductive invariant speaks of single links instead
(`LinksSound`): first clusters are allocated, no link leads to a first cluster or to a
free one, and no two links lead to the same cluster. Every update of the table keeps that
(`ExtendLinks`, `FreeChainLinks`, `TrimmedLinks`, `CapacityLinks`). `StartsSound` and
`StreamsOwned` say the same of entries and streams: every directory has a chain, no two
entries name one cluster, only a directory has a stream. The proof then takes the actions
one by one (`CreateFileGood`, ... `TruncateHandleGood`) on `Good`, the invariant as a
predicate of table, streams and open files. From `LinksSound` the statement about chains
follows at the end: a walk along injective links that never returns to its head cannot
repeat (`WalkInjective`), so within as many steps as there are clusters it stops, at `EOC`
(`ChainEnds`), and two walks that met would have met at their heads (`ChainsDisjoint`).
Where one would use induction on the length of a walk, the proofs take the least
counterexample (`MinIsLeast`).

What the directories hold is settled by one lemma. `EntriesChange` says that a step leaves
the entries of the directories as they are, or adds one, removes one or rewrites one, and
that the size of the directory it is in is renewed with it (`EntryStep`): what happens to
streams, slots and handles on the way does not matter to the rest. `SizesStayCurrent`,
`NamesStayUnique` and `TreeStaysRooted` need nothing else of the actions. A name can only
be doubled by an added entry; a call that adds one has found no entry of its key, so the
theorem has the hypothesis that a key is stored as it is looked up. It cannot do without:
the run `fs_names` has keys that are not, and `NamesUnique` fails. It is not enough, either,
that different keys have different names, because what is searched for is the key. For the
tree, `Rooted` says that a set of directories that has the root, and with a directory those
in it, has all of them. That is the same as reaching each one from the root
(`TreeRootedIs`) and is kept by adding a leaf, and by removing one, which an empty
directory is.

What the table holds is settled by another. A chain is awkward to follow through an update
as a sequence. As a set it is the least one that has its head and is closed under links
(`ChainClosed`, `ChainLeast`), and its length is the number of its clusters (`ChainCount`),
because a walk that repeats nothing counts them; a chain whose links are not touched is the
same sequence (`ChainSame`). From this come what allocating, cutting and freeing do to the
chain they are about and to every other one (`CapacityChain`, `TrimmedChain`, `FreedChain`),
and `ChainsChange`: a step keeps files and streams at the size of their chains and leaves
the chains of the other files alone (`ChainsKept`), and, unless it is a failing call,
loses no cluster (`CallStep`). `ChainMatchesSize` is needed for the other two: that cutting
a file down leaves nothing behind, or that a directory that must grow grows by a whole
cluster, is true only of chains that have the length their sizes say. In the case of
`mkdir` that finds neither a slot nor a cluster for its entry, the new directory's cluster
stays allocated: `CallStep` is true of it because it returns `NoSpace`, and
`SuccessesLoseNothing` cannot be stated without `ret' = "Ok"`.

**The front ends.** Nothing about them has to be proved action by action of the core again:
each of their steps is a call of the core, fails before it makes one, or is one of two that
are more than a call: the `Create` that opens what it creates, and the setattr that sets a
size and refuses the time (`CoreStep`, from `FuseCore` and `ShellCore`). For the first
there are `CreateOpenedGood` and `NewFileChains`; `Good`, `EntryStep` and `CallStep` then
hold of every step of `FrontSpec` (`CoreChange`, `CoreChains`), which is
`FrontEndsKeepCore`. The second (`ResizeRefused`) does to the core what a
truncation does. Three invariants add what the
programs keep.

`FrontInv` says that the handles the kernel holds are the open files with their places
(`HeldOf`), no more and no fewer, which needs that a write refreshes the copy and not the
place (`FollowsHeld`), and that the program that does not run keeps nothing. `ErrorsLeaveTree`
is by the kind of step: a call of the core that fails leaves streams and open files alone
(`ErrorKeeps`); the file that `create` leaves counts one more in its directory and renews
no other entry (`CreateLeaves`, with `CountAdded`); a setattr that is refused has rewritten
one file, and its handles have followed (`RefusedLeaves`, with `ResizeRewrites`).

`CwdInv` says that names are apart and that the path of the shell leads to its current
directory. It is kept because a path that leads to a directory which is still there leads
there after any one entry has been added, removed or rewritten (`RouteKept`): an entry on
the way is a directory that is not empty, so it is not what was removed. Recursive
functions on sequences are what the shell's paths are made of, and induction over data is
out of the provers' reach; `Iterated` shows from the least counterexample, over the lengths
of sequences, that such a function exists, and `EverySequence` takes the place of
induction where a set of paths is closed under one more name. `ResolutionAgrees` compares
the text the shell makes with the directories a user would walk through (`TextAgrees`): as
long as the walk goes on, each prefix of what was typed names by text where the walk is,
`..` included, because a directory has one parent (`DirPlace`). It holds for paths of any
length and trees of any depth. Both need the hypothesis of `NamesStayUnique`: with two
entries of one name a path leads to the first.

`KeptInv` has the reading of a directory (`ListingInv`). `ListingFaithful` speaks of its end;
`ReadingSound` says of every moment that the entries before the offset which were there all
along have been returned, and that unless something was added none after it has. Where an
entry stands is the number of entries before it (`Rank`), so the lemmas are about how ranks
change when one entry is added (`RankMore`) or one that was not passed is removed
(`RankLess`). Nothing is assumed of how many entries fit into a reply.

**FatDisk.** `LayoutSound` is arithmetic on 16-bit numbers. The loop of `get_fat_block_count`
settles because a larger FAT leaves fewer clusters (`NeededLess`): what one block of FAT
would have to cover is more than what is left once the FAT is that long, so the second
round asks for no more (`LoopSettles`). No address wraps because each cluster's blocks end
where the next cluster's begin, and `validate` puts the last of them on a device of fewer
than 2^16 blocks (`ClusterAddress`). That the regions are disjoint, and that the boot
sector is one that a later open accepts, follows from that.

Between two block writes the image is in no good order, so what `ReadsBack` says of the
moments between calls is no invariant of the steps. `IInv` therefore speaks of two states:
the one that is, and the one that the writes in `todo` will leave when none of them fails
(`EntriesAfter`, `DataAfter`, `FatAfter`, `CopiesAfter`: the last write that touches a
cell decides). Of the state that is, `NowSound` and `NowStored` say that the slots the
call is not about hold their files, and that both copies on the image have the chains of
the safe ones; of the state to come, `AfterSound`, `AfterStored` and `AfterSync` say it of
the slot the call is about, too. A write that succeeds takes the first step of the way
from one to the other (`WriteOpen`), and the last write arrives (`WriteIdle`). `StepClear`
keeps the writes of a call away from the clusters and entries of other slots, which is
where it matters that chains are disjoint; `StepShape` says what may be written where.

The harder part is failure. `RollbackSound` says of each write whose failure is rolled back
that `undo` covers what has been put into the FAT up to it and gives back what was there
before the call. `IntactSound` is what lets a caller go on using a file whose growth
failed: the writes before the failed one have at most zeroed what was zero or free. What
`Fault` does then follows without a look at the calls (`FaultIdle`), and a crash needs less:
`SyncedSurvive` reads a file from the image alone, through either copy, and a chain is
determined by the entries of its own clusters (`HoldsLocal`), which are in both copies as
long as the file is safe. In the middle of a sync they are because a sync writes to each
entry what the FAT in memory has, and safe files have that already.

So that the state after a step can be spoken of like the one before it, the proof takes
the parts of `IInv` as operators of the state: `Open` for a file system with a call in
progress, `Idle` for one between calls, `Closed` for an image that nobody has open. Each
call has a lemma that its writes, laid out in an `Idle` state, make an `Open` one
(`CreateOpen`, `RmOpen`, `ShrinkOpen`, `WriteCallOpen`, `GrowCallOpen`, `SyncCallOpen`,
`FormatOpen`). Growing and cutting are spoken of as paths, sequences of clusters of which
each leads to the next: growth appends the lowest free clusters to a path, and cutting it
back to its old length restores the table (`GrowthFacts`), which is the rollback.
The theorems hold for any number of slots, clusters and units to a cluster, any block size
and any sizes of files, with one block to a cluster and a root directory of one cluster
(`ImageAssumption`), as section 2.2 says of the model.

**P2P.** The first part of the invariant, `TokenInv`, counts tokens. One token stands for
the buffer: it is in `empty`, with a writer, in one of the `full` semaphores, or with a
reader (`BufferToken`), and there is one each for the turnstile and the client's place. A
token can be lost, by a panic or at exit, and never doubled. `BufferExclusive` alone is
not inductive: nothing in it prevents `empty` from being 1 while a thread reads.
`FrameAddressed` adds that a frame waiting for a side was written by the other, which the
refinement needs. `WriteFrame` is then a `Put`, `RecvCopy` a `Take`, and every other step
leaves `Box` alone, `TakeEmpty` included, because an empty buffer and one that is being
written both map to no frame.

`SessionsInOrder` needs more: whose turn it is to be heard is nowhere stored. `SessionSound`
reads it off the last frame that was sent to the host (`Last`: the one in the buffer if it is
for the host, else the one the host has): while the client's place is free that is a LEAVE
or none, and while a client has the place it is one of its own exactly between its JOIN and
its LEAVE (`Outside` names the program points before and after). So a JOIN can only follow
a LEAVE because the place is given back after LEAVE was put into the buffer, and `PlaceToken`
keeps two clients from being there at once. A client that is interrupted in `p2pSend` leaves
a session open, and keeps its place, so that no other begins. All of it is said of a host
that still listens: one that is leaving takes no more frames.

**Shmem.** `TokenInv` has three kinds of token and is inductive by itself. The uplink's is
in `space`, in `data`, with the host while it copies, or with one client (`UplinkToken`; a
killed client takes it along). A client's region has its own, in one of its semaphores or
with its receiving thread (`ListenerSound`): `DownlinkSound` alone says nothing of the
time before the thread runs or after it is gone, when the host may still deliver.
`clients_sem` is 1 exactly if nothing is to be broadcast (`BroadcastToken`), which is why
the table may be cleared at the host's end. `FrameSound` says that what waits, is copied
and is handled is a frame under its sender's name. With it, `EndFrame` is a `Put`,
`HostCopy` a `Take`, and every other step leaves `Box` alone.

`RosterCurrent` speaks of the moments when nobody broadcasts; what leads to it is said of
every moment by two more parts. `RosterSound`: names in the table are different; a JOIN
that waits to be broadcast is of a member and a LEAVE of nobody who is there; and a member
that has attempts left knows its own name, or is still to be told of it first, and knows of
nobody who is gone unless a LEAVE of that name is still to be told to it (`LeaveLeft`).
`Reap` is where this is delicate: it takes all zombies out of the table and only then
announces them one by one, so between two of these broadcasts members know of several who
are gone. It is also why the claim is about members that answer: one that has used up its
attempts has missed a frame, and nobody tells it again. `JoinSound` follows the JOIN of a client
from its start through the region to the host's copy, in one place at a time; it is needed
because a client whose JOIN was handled twice would come into the table with what it had
been told before.

**Rooms.** The modules of the two rooms begin with the same lemmas about frames: what one
frame more or less changes in who has joined and who is present. `Room` lets a client hear
only the announcement that follows those it has heard, so the proof must know, at every
delivery, how far each member has come. `UpToDate` says it by lengths: a member that has
still to be tried with the frame being broadcast was given all from its JOIN on but that
one, and one that was tried and answered has that one, too. Two things make this hold. A
client's JOIN is announced once (`JoinsOnce`, which follows it from the uplink through the
host to the log), so that "from its JOIN on" means one place; and what is being broadcast
is the last announcement (`BroadcastSound`), so that nothing comes between. Over queues
`clients_sem` is what keeps the probe thread from announcing in between; a member that did
not answer three times is tried no more, and is out of the table before anything else is
announced to it. That last part was missing from the first form of the invariant: nothing
in it excluded a member that is to be tried although its count is at the limit, and the
step to `Reap` could not be proved until `BroadcastSound` said that nobody in `todo` has
used up its attempts. Over FIFOs it is `EndsSound` that matters: the name of a client's
FIFO, and its reader, go only when the client ends, so a failed write loses a frame only
for a client that reads no more. `TableSound` relates the table to the log, up to the
LEAVEs of zombies that are removed together and announced one by one. `TableAnnounced` is
what `TableSound` and `UpToDate` say when nothing is being broadcast.

`HostServes` needs one more part in each room, which the run checks as a conjunct of
`ChatRooms!IInv`. Over queues that part is `TurnsSound`: members are tried one at a time until
they answer or have used up their attempts, so whenever somebody is still to be tried it is
somebody's turn, be its queue full or not; and the main thread is out of its loop only
when `g_shutdown` is set, which is also what the probe thread it joins ends for. With
`BroadcastSound`, which ties `clients_sem` to what is being broadcast, no thread of the host then
waits for another that waits. Over FIFOs it is `ReadersSound`: from the opening of its
FIFO to its end a client has a reader, so a member without one has not opened it yet, or
was killed, or has unlinked it (and then the host's open fails at once).

`ChatRooms` has both rooms as instances over one set of variables. Its theorems cite those
of `MqRoomProofs` and `FifoRoomProofs` through instances of these modules, and lemmas
(`MqSame...`, `FifoSame...`) that show what an instance of the proofs speaks of is what the
instance of the room in `ChatRooms` speaks of. What is left is to see that the variables
the other mode uses do not matter.

## 6. Where the code and its documents disagree

* **A failed `mkdir` loses a cluster** (`lib.rs:645`). `fs_lost_cluster`: the root is
  full, one cluster is free; `mkdir` takes it for the new directory and then finds no
  slot and nothing to extend the root with. `exp_5/report.typ:285` speaks of rollback.
* **One name twice in a directory** (`lib.rs:625`). `fs_names`: a trailing blank is kept
  in the key that is looked up and dropped in the name that is stored, so the entry just
  written is not found. `exp_5/report.typ:108` says creation checks for the name.
* **A host that speaks first blocks the client** (`p2p.zig:234`). `p2p_deadlock`: the
  client sends JOIN before it starts the thread that could empty the buffer.
  `exp_3/report.typ:199` says the design avoids deadlock.
* **The host measures a frame that is not its own any more** (`shmem.zig:300`).
  `shmem_scan`: the host copies a client's message, gives the region back, and searches
  for the end of the frame in the region, where another client's shorter frame has come to
  be: the message is cut. `exp_3/tests/test_mychat_shmem_stress_concurrent_send.sh:2` asks
  that simultaneous messages all arrive.
* **A killed client stops the FIFO host** (`fifo.zig:63`). `fifo_zombie`: a client joins and
  is killed while the host is idle; another client's JOIN arrives before `poll` has timed
  out; `broadcast` opens the FIFO of the dead client for writing, which waits for a reader
  that never comes. The host never probes again, nobody is reaped and nobody served.
  `exp_3/tests/test_mychat_fifo_zombie.sh:2` says "Host detects and reaps a SIGKILL'd
  client via FIFO probe", and lines 31–45 start Alice right after the kill and expect her
  messages back; `exp_3/report.typ:219` says that detection and reclaiming also work when
  a client process ends unexpectedly. They do when the 250 ms of `poll` pass in between
  without a frame.
* **An entry stamped at midnight hides its directory** (`lib.rs:414`). `fuse_midnight`: a
  file made in the first two seconds of a UTC day is stored with time 0, which
  `dir_entry_from_fcb` refuses to decode; readdir of its directory, and of directories
  whose parent is searched past it, replies an error. `exp_5/report.typ:260` says `ls`
  reads times correctly. (The attributes of the same file do not fail: `FuseSystemTime`
  takes 0 for the epoch.)

## 7. What is only model-checked, and what is not modelled

Only model-checked:

* `NamesUnique`, and with it `CwdFollowsPath` and `ResolveAgrees`, for keys that are not
  stored as they are looked up. With such keys `NamesUnique` fails (section 6), so the three
  theorems assume that every key is stored as itself.
* `GeometrySound`, which evaluates configurations with the code's own sizes. `LayoutSound`
  proves the same of every configuration, and of all sizes that meet `SizeAssumption`.
* The half of `HostNeverStuck` that is about `ENABLED`, and the liveness properties
  `FrameIsRead`, `SenderGetsBuffer`, `BroadcastEnds` and `ZombieReaped`: liveness under
  fairness and `ENABLED` are out of the prover's reach.

Induction over data is out of its reach, too. There is therefore no `RECURSIVE` operator:
recursion is a recursive function, on an initial segment of the numbers or on sequences.
(What `Below` in `Fuse` computes, the order in which the tree is searched, no theorem says:
a listing that fails there is not followed.)

Not modelled: the parsing of mychat's arguments, myshell's parser (text), the
kernel patch (one sequential call), the bytes of names and of dates beyond what sections
2.1 and 2.3 say, power failures of the host, a second failing write within one rollback,
clusters of more than one block that are written in part, and myshell's pipelines (see the
plan).

## 8. Plan

In order of importance. Each module gets an MC module, configurations, mutants and,
where marked, theorems.

1. `FatFs`, `FatFsProofs` *(done: every invariant and action property the run checks is
   proved)*.
2. `Exchange`, `P2P`, `P2PProofs` *(done: every safety property is proved but `DeadlockFree`,
   which the code violates)*.
3. `Geometry`, `FatDisk`, `FatDiskProofs` *(done: every property the run checks is proved)*.
   `ImageAssumption` makes a cluster one block; with several, one write could be torn.
4. `Fuse`, `Shell`, `FrontEnds` *(done: every property the run checks is proved, in
   `FatFsProofs`)*.
5. `Shmem`, `ShmemProofs` *(done: every safety property is proved)*.
6. `Room`, `MqRoom`, `FifoRoom`, `ChatRooms` and their proofs *(done)*.
7. `Pipeline`: myshell's executor: pipe ends, builtins in pipelines.

-------------------------------- MODULE Fuse --------------------------------
(***************************************************************************)
(* The FUSE front end (exp_5/myfs/src/main.rs): one action per request     *)
(* that changes the file system, and the paged reading of a directory.     *)
(* A request holds the lock from its first look at the file system to its  *)
(* reply, so it is one step; between requests the kernel keeps inode       *)
(* numbers, handles and an offset into a directory.  `ret` is the reply.   *)
(*                                                                         *)
(* Of time stamps only this is kept: whether one reads as unset, which is  *)
(* how a time in the first two seconds of a UTC day is stored.             *)
(***************************************************************************)
EXTENDS FatFs

CONSTANTS
    MaxRoom,  \* bound on the entries that fit in one reply to readdir
    MaxUnset  \* bound on the entries whose stamp reads as unset at one time

ASSUME ReplyAssumption == MaxRoom \in Nat /\ MaxUnset \in Nat

VARIABLES
    unset,    \* locations of the entries whose stamp reads as unset
    held,     \* the handles the kernel was given, each with its inode
    listing   \* one reading of a directory, from opendir to its last reply

fuseVars == <<unset, held, listing>>

\* An inode number is a location, and the root's, 1, is entry 1 of a directory
\* at cluster 0, where no directory is (index 2: indices start at 1 here).
RootNode == <<0, 2>>
Nodes == {RootNode} \cup Locs(slots)

\* stat_node
Meta(n) ==
    IF n = RootNode THEN [Unused EXCEPT !.kind = "Directory", !.start = Root] ELSE Entry(n)
Live(n) == Occupied(Meta(n))
IsDir(n) == Meta(n).kind = "Directory"
DirCluster(n) == Meta(n).start
NodeOf(d) ==
    IF d = Root THEN RootNode
    ELSE CHOOSE l \in Locs(slots) : Entry(l).kind = "Directory" /\ Entry(l).start = d

LocsNamed(d, k) ==
    {<<d, i>> : i \in {j \in DOMAIN slots[d] : Occupied(slots[d][j]) /\ slots[d][j].name = k}}

\* dir_entries: the occupied slots of a directory, in order.
EntriesOf(d) ==
    LET places == Ascending({i \in DOMAIN slots[d] : Occupied(slots[d][i])})
    IN  [n \in DOMAIN places |-> <<d, places[n]>>]

\* The order in which find_parent_under looks at the entries below d.
Below(d) ==
    LET below[e \in Cluster] ==
          FlattenSeq([i \in DOMAIN EntriesOf(e) |->
              LET l == EntriesOf(e)[i]
              IN  IF IsDir(l) THEN <<l>> \o below[Entry(l).start] ELSE <<l>>])
    IN  below[d]

\* parent_of fails when a stamp it meets, the node's own included, is unset.
ParentFound(n) ==
    n = RootNode \/
    \E i \in DOMAIN Below(Root) :
        Below(Root)[i] = n /\ \A j \in 1..i : Below(Root)[j] \notin unset
-----------------------------------------------------------------------------
(* Stamps and the directory that is being read.                            *)

\* Faulty form: the stamp of a deleted entry stays in its slot.
StampedForever(S) ==
    \E early \in SUBSET S :
        unset' = (unset \ S) \cup early /\ Cardinality(unset') <= MaxUnset

\* Each entry in S is stamped with a time of its own; a slot that is no longer
\* occupied has no stamp.
Stamped(S) ==
    \E early \in SUBSET S :
        /\ unset' = {l \in (unset \ S) \cup early :
                        l \in Locs(slots') /\ Occupied(slots'[l[1]][l[2]])}
        /\ Cardinality(unset') <= MaxUnset
StampIfOk(S) == IF ret' = "Ok" THEN Stamped(S) ELSE UNCHANGED unset

NewLoc(d) == <<d, FillFreeDirSlot(fat, slots, d).index>>
DirLoc(d) == {NodeOf(d)} \ {RootNode}

Idle == [node |-> RootNode, offset |-> 0, start |-> {}, seen |-> {},
         added |-> FALSE, again |-> FALSE, status |-> "idle"]
Reading == listing.status = "reading"

\* The position in the directory a readdir at this offset starts after; "." and
\* ".." have offsets 1 and 2.
\* Faulty form: forgets one of the two.
SkipOne(offset) == IF offset > 1 THEN offset - 1 ELSE 0
Skip(offset) == IF offset > 2 THEN offset - 2 ELSE 0

Passed(l) ==
    \E i \in 1..Skip(listing.offset) :
        i \in DOMAIN EntriesOf(l[1]) /\ EntriesOf(l[1])[i] = l

\* What a request does to a reading: an entry that goes is no longer expected,
\* and when one goes that was passed, or the directory itself, the positions of
\* the rest move and the reading is followed no further.  One that has ended is
\* forgotten.
GoneNow == {l \in Locs(slots) : Occupied(Entry(l)) /\
               ~(l \in Locs(slots') /\ Occupied(slots'[l[1]][l[2]]))}
NewNow == {l \in Locs(slots') : Occupied(slots'[l[1]][l[2]]) /\
               ~(l \in Locs(slots) /\ Occupied(Entry(l)))}
Observed ==
    LET d == DirCluster(listing.node)
    IN  listing' =
          IF ~Reading THEN Idle
          ELSE IF listing.node \in GoneNow \/ \E l \in GoneNow : l[1] = d /\ Passed(l)
          THEN Idle
          ELSE [listing EXCEPT !.start = @ \ GoneNow,
                               !.added = @ \/ \E l \in NewNow : l[1] = d]
-----------------------------------------------------------------------------
(* Requests.                                                               *)

FuseInit == unset = {} /\ held = {} /\ listing = Idle

\* dir_cluster of a parent whose slot is empty or holds a file.
NoSuchParent(p) ==
    \/ ~Live(p) /\ Fail("NotFoundAt")
    \/ Live(p) /\ ~IsDir(p) /\ Fail("NotADirectory")

Mknod(p, k) ==
    LET d == DirCluster(p)
    IN  /\ \/ NoSuchParent(p) /\ UNCHANGED unset
           \/ IsDir(p) /\ CreateFile(d, k) /\ StampIfOk({NewLoc(d)} \cup DirLoc(d))
        /\ Observed
        /\ UNCHANGED held

FuseMkdir(p, k) ==
    LET d == DirCluster(p)
    IN  /\ \/ NoSuchParent(p) /\ UNCHANGED unset
           \/ IsDir(p) /\ Mkdir(d, k) /\ StampIfOk({NewLoc(d)} \cup DirLoc(d))
        /\ Observed
        /\ UNCHANGED held

Unlink(p, k) ==
    LET d == DirCluster(p)
    IN  /\ \/ NoSuchParent(p) /\ UNCHANGED unset
           \/ IsDir(p) /\ LocsNamed(d, k) = {} /\ Fail("NotFound") /\ UNCHANGED unset
           \/ IsDir(p) /\ \E l \in LocsNamed(d, k) : Rm(l) /\ StampIfOk(DirLoc(d))
        /\ Observed
        /\ UNCHANGED held

FuseRmdir(p, k) ==
    LET d == DirCluster(p)
    IN  /\ \/ NoSuchParent(p) /\ UNCHANGED unset
           \/ IsDir(p) /\ LocsNamed(d, k) = {} /\ Fail("NotFound") /\ UNCHANGED unset
           \/ IsDir(p) /\ \E l \in LocsNamed(d, k) : Rmdir(l) /\ StampIfOk(DirLoc(d))
        /\ Observed
        /\ UNCHANGED held

\* The reply to a successful open is the hole that was taken.
Given(n) == held' = IF ret' = "Ok" THEN held \cup {<<Min(Holes), n>>} ELSE held

FuseOpen(n) ==
    /\ \/ n = RootNode /\ Fail("IsADirectory")
       \/ n # RootNode /\ Open(n)
    /\ Given(n)
    /\ UNCHANGED <<unset, listing>>

\* create_file and open under one lock.  When open fails the file stays.
Create(p, k) ==
    LET d == DirCluster(p)
        l == NewLoc(d)
        New(g) == [dir |-> l[1], index |-> l[2], cursor |-> 0, fcb |-> g]
    IN  /\ \/ NoSuchParent(p) /\ UNCHANGED <<unset, held>>
           \/ /\ IsDir(p) /\ (Exists(d, k) \/ ~HasRoom(fat, slots, d))
              /\ CreateFile(d, k)
              /\ UNCHANGED <<unset, held>>
           \/ /\ IsDir(p) /\ ~Exists(d, k) /\ HasRoom(fat, slots, d)
              /\ LET r == FillFreeDirSlot(fat, slots, d)
                 IN  /\ fat' = r.fat
                     /\ slots' = RefreshDirSize([r.slots EXCEPT ![d][r.index] = File(k)], d)
              /\ Stamped({l} \cup DirLoc(d))
              /\ IF Holes = {}
                 THEN ret' = "TooManyOpenFiles" /\ UNCHANGED <<open, held>>
                 ELSE /\ ret' = "Ok"
                      /\ open' = [open EXCEPT ![Min(Holes)] = New(File(k))]
                      /\ held' = held \cup {<<Min(Holes), l>>}
        /\ Observed

\* The offset comes with the request, the location from the handle.
Write(h, offset, len) ==
    /\ WriteAt(LocOf(h), offset, len)
    /\ StampIfOk({LocOf(h)})
    /\ UNCHANGED <<held, listing>>

\* Faulty form: replies and keeps the file open.
ReleaseNothing(h) ==
    /\ ret' = "Ok"
    /\ held' = {p \in held : p[1] # h}
    /\ UNCHANGED <<fat, slots, open, unset, listing>>
Release(h) ==
    /\ CloseHandle(h)
    /\ held' = {p \in held : p[1] # h}
    /\ UNCHANGED <<unset, listing>>

\* setattr with a size, and perhaps a time.  A date that has no encoding is refused
\* when the size has been set.  The handle that can come with them is one of the
\* file's own.
SetSize(n, size) ==
    /\ \/ n = RootNode /\ Fail("Unsupported") /\ UNCHANGED unset
       \/ n # RootNode /\ Truncate(n, size) /\ StampIfOk({n})
       \/ /\ n # RootNode /\ Resize(n, size) /\ ret' = "InvalidConfig"
          /\ IF size = Entry(n).size THEN UNCHANGED unset ELSE Stamped({n})
    /\ UNCHANGED <<held, listing>>

\* setattr with a time alone; a date that has no encoding is refused.
SetTime(n) ==
    /\ \/ n = RootNode /\ Fail("Unsupported") /\ UNCHANGED unset
       \/ n # RootNode /\ ~Live(n) /\ Fail("NotFoundAt") /\ UNCHANGED unset
       \/ n # RootNode /\ Live(n) /\ Fail("InvalidConfig") /\ UNCHANGED unset
       \/ /\ n # RootNode /\ Live(n)
          /\ ret' = "Ok" /\ UNCHANGED <<fat, slots, open>>
          /\ Stamped({n})
    /\ UNCHANGED <<held, listing>>
-----------------------------------------------------------------------------
(* Reading a directory.                                                    *)

Opendir(n) ==
    /\ ~Reading
    /\ Live(n) /\ IsDir(n)
    /\ listing' = [Idle EXCEPT !.node = n, !.start = ToSet(EntriesOf(DirCluster(n))),
                               !.status = "reading"]
    /\ UNCHANGED <<vars, unset, held>>

\* One reply: "." and ".." when the offset is before them, then entries until the
\* buffer has room for no more.  An entry is decoded before it is offered to the
\* buffer, and the one that no longer fits too.
Readdir(room) ==
    LET n == listing.node
        E == EntriesOf(DirCluster(n))
        dots == IF listing.offset < 2 THEN 2 - listing.offset ELSE 0
        skip == Skip(listing.offset)
        left == Len(E) - skip
        fit == IF room > dots THEN room - dots ELSE 0
        count == IF fit < left THEN fit ELSE left
        decoded == IF room < dots THEN 0 ELSE IF count < left THEN count + 1 ELSE count
        new == {E[i] : i \in skip + 1..skip + count}
        fails == ~ParentFound(n) \/ \E i \in skip + 1..skip + decoded : E[i] \in unset
    IN  /\ Reading
        /\ listing' =
             IF fails THEN [listing EXCEPT !.status = "failed"]
             ELSE IF dots = 0 /\ left = 0 THEN [listing EXCEPT !.status = "done"]
             ELSE [listing EXCEPT
                     !.offset = IF room < dots THEN @ + room ELSE @ + dots + count,
                     !.seen = @ \cup new,
                     !.again = @ \/ new \cap listing.seen # {}]
        /\ UNCHANGED <<vars, unset, held>>
-----------------------------------------------------------------------------
FuseNext ==
    \/ \E p \in Nodes, k \in Keys : Mknod(p, k)
    \/ \E p \in Nodes, k \in Keys : FuseMkdir(p, k)
    \/ \E p \in Nodes, k \in Keys : Unlink(p, k)
    \/ \E p \in Nodes, k \in Keys : FuseRmdir(p, k)
    \/ \E p \in Nodes, k \in Keys : Create(p, k)
    \/ \E n \in Nodes : FuseOpen(n)
    \/ \E n \in Nodes, size \in Offsets : SetSize(n, size)
    \/ \E n \in Nodes : SetTime(n)
    \/ \E p \in held, offset \in Offsets, len \in Lengths : Write(p[1], offset, len)
    \/ \E p \in held : Release(p[1])
    \/ \E n \in Nodes : Opendir(n)
    \/ \E room \in 1..MaxRoom : Readdir(room)
=============================================================================

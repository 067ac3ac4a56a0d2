------------------------------ MODULE FrontEnds ------------------------------
(***************************************************************************)
(* The two programs that mount libmyfs, over the core of FatFs: a run of   *)
(* the system is a run of one of them.  The properties relate what a       *)
(* program (or the kernel behind it) keeps between calls to the tree.      *)
(***************************************************************************)
EXTENDS Fuse, Shell

VARIABLE program  \* which of the two has the file system mounted

frontVars == <<vars, fuseVars, shellVars, program>>
frontState == <<fsState, fuseVars, shellVars, program>>

FrontInit == Init /\ FuseInit /\ ShellInit /\ program \in {"fuse", "shell"}

FrontNext ==
    \/ program = "fuse" /\ FuseNext /\ UNCHANGED <<shellVars, program>>
    \/ program = "shell" /\ ShellNext /\ UNCHANGED <<fuseVars, program>>

FrontSpec == FrontInit /\ [][FrontNext]_frontVars
-----------------------------------------------------------------------------
(* Properties.                                                             *)

\* What the programs keep has its type: stamps are of occupied entries, handles
\* of locations, a reading is of the entries of one directory, and the current
\* directory is a path of names with a cluster.
FrontTypeOK ==
    /\ unset \subseteq {l \in Locs(slots) : Occupied(Entry(l))}
    /\ held \subseteq Handle \X Locs(slots)
    /\ listing.status \in {"idle", "reading", "done", "failed"}
    /\ listing.start \cup listing.seen \subseteq Cluster \X Nat
    /\ cwd_path \in Seq(Keys) /\ cwd_cluster \in Cluster /\ cwd_gone \in BOOLEAN
    /\ program \in {"fuse", "shell"}

\* A directory read page by page while requests change it (readdir, main.rs:717):
\* when the reading ends, every entry that was there all along has been returned,
\* and none was returned twice unless entries were added meanwhile.
ListingFaithful ==
    /\ listing.status = "done" => listing.start \subseteq listing.seen
    /\ listing.again => listing.added

\* The handles open in the file system are those the kernel was given and has
\* not released, each on the inode it was given for, so that no failed request
\* keeps one and the slot a handle stands for still holds its file.
HandlesAgree ==
    program = "fuse" =>
        /\ held = {<<h, LocOf(h)>> : h \in {x \in Handle : IsOpen(x)}}
        /\ \A p \in held : Entry(p[2]).kind = "File"

\* A request or command that fails takes no entry away, and changes and adds none,
\* but for two requests that fail half way.  Create with a full table of open files
\* (main.rs:788) leaves the new file, empty and not open, one more in its directory.
\* Setattr with a date that has no encoding (main.rs:518) leaves one file with the
\* size it came with, and whoever has the file open knows of it.
Now(l) == slots'[l[1]][l[2]]
Changed == {l \in Locs(slots) : Occupied(Entry(l)) /\ Now(l) # Entry(l)}
FileLeft ==
    /\ ret' = "TooManyOpenFiles" /\ open' = open
    /\ \E n \in Locs(slots') :
          /\ NewNow = {n} /\ Now(n).kind = "File" /\ Now(n).start = FREE /\ Now(n).size = 0
          /\ \A l \in Changed :
                /\ Entry(l).kind = "Directory" /\ Entry(l).start = n[1]
                /\ Now(l) = [Entry(l) EXCEPT !.size = @ + 1]
SizeLeft ==
    /\ ret' = "InvalidConfig" /\ NewNow = {}
    /\ \E n \in Locs(slots) :
          /\ Changed \subseteq {n} /\ Entry(n).kind = "File"
          /\ Now(n) = [Entry(n) EXCEPT !.size = Now(n).size, !.start = Now(n).start]
          /\ \A h \in Handle : open'[h] # open[h] =>
                IsOpen(h) /\ LocOf(h) = n /\ open'[h].fcb = Now(n)
ErrorLeavesTree ==
    [][ret' # "Ok" =>
          /\ GoneNow = {}
          /\ \/ Changed = {} /\ NewNow = {} /\ open' = open
             \/ FileLeft
             \/ SizeLeft]_frontVars

\* As long as the current directory has not been removed, the path the shell
\* shows leads to the directory that `ls` lists.
CwdFollowsPath ==
    program = "shell" /\ ~cwd_gone =>
        LET t == Resolve(cwd_path) IN t.kind = "Directory" /\ t.start = cwd_cluster

\* The walk report.typ:217 describes: from the current directory, component by
\* component through directories that exist, ".." to the parent.
OneStep(at, part) ==
    IF at.kind # "Directory" THEN Nothing
    ELSE IF part # Up THEN Into(at, part)
    ELSE IF at.start = Root THEN AtRoot
    ELSE IF Parent(at.start) = Root THEN AtRoot
    ELSE LET l == NodeOf(Parent(at.start))
         IN  [found |-> TRUE, loc |-> l, start |-> Entry(l).start, kind |-> "Directory"]
OnFoot(raw) ==
    LET here == IF cwd_cluster = Root THEN AtRoot
                ELSE LET l == NodeOf(cwd_cluster)
                     IN  [found |-> TRUE, loc |-> l, start |-> cwd_cluster,
                          kind |-> "Directory"]
        at[p \in Seq(Keys \cup {Up})] ==
          IF p # <<>> THEN OneStep(at[Front(p)], Last(p))
          ELSE IF raw.absolute THEN AtRoot ELSE here
    IN  at[raw.parts]

\* Resolution by text from the root finds what walking finds, for every path that
\* can be walked, wherever the shell is and whatever has been moved in or removed.
ResolveAgrees ==
    program = "shell" /\ ~cwd_gone =>
        \A raw \in RawPath : OnFoot(raw).found => Target(raw) = OnFoot(raw)

\* report.typ:260: in the mounted file system `ls` lists a directory with correct
\* times; so the reading of a directory that stays does not fail.
ListingSucceeds == listing.status # "failed"
=============================================================================

------------------------------- MODULE Shell -------------------------------
(***************************************************************************)
(* The interactive shell (exp_5/myfs_shell/src/main.rs): it resolves paths *)
(* itself, by text and from the root, and keeps a current directory twice, *)
(* as a path and as a first cluster.  One action per command; `ret` is the *)
(* error it prints, or "Ok".                                               *)
(***************************************************************************)
EXTENDS FatFs

CONSTANT MaxParts  \* bound on the components of a path that is typed

VARIABLES
    cwd_path,     \* CanonicalPath: the components below the root
    cwd_cluster,  \* the directory that `ls` without a path lists
    cwd_gone      \* the directory the shell was in has been removed since `cd`

shellVars == <<cwd_path, cwd_cluster, cwd_gone>>

Up == ".."
\* normalize_component refuses "..", so no entry is named so.
ASSUME UpAssumption == Up \notin Keys
RawPath ==
    [absolute : BOOLEAN, parts : UNION {[1..n -> Keys \cup {Up}] : n \in 0..MaxParts}]

\* Faulty form: drops a ".." instead of going up.
UpIgnored(stack, part) == IF part = Up THEN stack ELSE Append(stack, part)
OnStack(stack, part) ==
    IF part # Up THEN Append(stack, part)
    ELSE IF stack = <<>> THEN stack ELSE Front(stack)

\* from_cwd_str: components are pushed and popped, whatever they name.
Canonical(raw) ==
    LET stack[p \in Seq(Keys \cup {Up})] ==
          IF p # <<>> THEN OnStack(stack[Front(p)], Last(p))
          ELSE IF raw.absolute THEN <<>> ELSE cwd_path
    IN  stack[raw.parts]
-----------------------------------------------------------------------------
(* Resolving a path.                                                       *)

NamedIn(d, k) == {i \in DOMAIN slots[d] : Occupied(slots[d][i]) /\ slots[d][i].name = k}

\* Where a path leads, below a directory: the root or an entry, or nothing.  An
\* intermediate file is looked into like a directory; the names looked for are
\* taken not to be among its data.
AtRoot == [found |-> TRUE, loc |-> <<>>, start |-> Root, kind |-> "Directory"]
Nothing == [found |-> FALSE, loc |-> <<>>, start |-> FREE, kind |-> "Unused"]
Into(at, k) ==
    IF ~at.found \/ at.start \notin Cluster THEN Nothing
    ELSE IF NamedIn(at.start, k) = {} THEN Nothing
    ELSE LET l == <<at.start, Min(NamedIn(at.start, k))>>
         IN  [found |-> TRUE, loc |-> l, start |-> Entry(l).start, kind |-> Entry(l).kind]

\* resolve_target, on the canonical form.
Resolve(path) ==
    LET at[p \in Seq(Keys)] == IF p = <<>> THEN AtRoot ELSE Into(at[Front(p)], Last(p))
    IN  at[path]
Target(raw) == Resolve(Canonical(raw))

\* resolve_parent_and_name.
ParentTarget(raw) == Resolve(Front(Canonical(raw)))
NamesRoot(raw) == Canonical(raw) = <<>>
-----------------------------------------------------------------------------
(* Commands.                                                               *)

ShellInit == cwd_path = <<>> /\ cwd_cluster = Root /\ cwd_gone = FALSE

\* Commands that change the tree leave the current directory as it was.
Stay ==
    /\ cwd_gone' = (cwd_gone \/ cwd_cluster \notin Dirs(slots'))
    /\ UNCHANGED <<cwd_path, cwd_cluster>>

\* Faulty form: moves the path before it looks at what it names.
CdPathFirst(raw) ==
    LET t == Target(raw)
    IN  /\ \/ ~t.found /\ Fail("NotFound") /\ UNCHANGED shellVars
           \/ /\ t.found /\ t.kind # "Directory" /\ Fail("NotADirectory")
              /\ cwd_path' = Canonical(raw)
              /\ UNCHANGED <<cwd_cluster, cwd_gone>>
           \/ /\ t.found /\ t.kind = "Directory"
              /\ cwd_path' = Canonical(raw)
              /\ cwd_cluster' = t.start
              /\ cwd_gone' = FALSE
              /\ ret' = "Ok"
              /\ UNCHANGED <<fat, slots, open>>

Cd(raw) ==
    LET t == Target(raw)
    IN  \/ ~t.found /\ Fail("NotFound") /\ UNCHANGED shellVars
        \/ t.found /\ t.kind # "Directory" /\ Fail("NotADirectory") /\ UNCHANGED shellVars
        \/ /\ t.found /\ t.kind = "Directory"
           /\ cwd_path' = Canonical(raw)
           /\ cwd_cluster' = t.start
           /\ cwd_gone' = FALSE
           /\ ret' = "Ok"
           /\ UNCHANGED <<fat, slots, open>>

\* mkdir and create: the parent must be a directory.
InParent(raw, Call(_, _)) ==
    /\ \/ NamesRoot(raw) /\ Fail("InvalidPath")
       \/ ~NamesRoot(raw) /\ ~ParentTarget(raw).found /\ Fail("NotFound")
       \/ /\ ~NamesRoot(raw) /\ ParentTarget(raw).found
          /\ ParentTarget(raw).kind # "Directory"
          /\ Fail("NotADirectory")
       \/ /\ ~NamesRoot(raw) /\ ParentTarget(raw).kind = "Directory"
          /\ Call(ParentTarget(raw).start, Last(Canonical(raw)))
    /\ Stay
ShellMkdir(raw) == InParent(raw, Mkdir)
ShellCreate(raw) == InParent(raw, CreateFile)

\* rm, rmdir and open: any entry, and the operation looks at its kind.
OnEntry(raw, Call(_)) ==
    /\ \/ NamesRoot(raw) /\ Fail("InvalidPath")
       \/ ~NamesRoot(raw) /\ ~Target(raw).found /\ Fail("NotFound")
       \/ ~NamesRoot(raw) /\ Target(raw).found /\ Call(Target(raw).loc)
    /\ Stay
ShellRm(raw) == OnEntry(raw, Rm)
ShellRmdir(raw) == OnEntry(raw, Rmdir)
ShellOpen(raw) == OnEntry(raw, Open)

\* close, read, write, seek and truncate take a handle and no path.
ShellHandle == HandleStep /\ Stay

ShellNext ==
    \/ \E raw \in RawPath : Cd(raw)
    \/ \E raw \in RawPath : ShellMkdir(raw)
    \/ \E raw \in RawPath : ShellCreate(raw)
    \/ \E raw \in RawPath : ShellRm(raw)
    \/ \E raw \in RawPath : ShellRmdir(raw)
    \/ \E raw \in RawPath : ShellOpen(raw)
    \/ ShellHandle
=============================================================================

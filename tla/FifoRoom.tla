------------------------------ MODULE FifoRoom ------------------------------
(***************************************************************************)
(* mychat's chat room over FIFOs (exp_3/mychat/fifo.zig).  All clients     *)
(* write into the host's control FIFO; the host has one thread, which      *)
(* handles frames, broadcasts them into a FIFO of each client, and looks   *)
(* for clients that are dead when no frame has come for a while.           *)
(*                                                                         *)
(* Abstracted: the layout of frames, the 64 KiB that a FIFO holds (nobody  *)
(* fills one), and failures of allocation, threads and the creation of     *)
(* FIFOs.  A frame is written at once: it is shorter than PIPE_BUF.  A     *)
(* client process joins once.                                              *)
(***************************************************************************)
EXTENDS RoomFrames

VARIABLES
    uplink,           \* the frames in the control FIFO
    held,             \* the frames in ctrl_fifo_reader's buffer
    main,             \* where the host is
    buf,              \* the frame it handles
    target,           \* the client whose FIFO it opens or writes
    members,          \* the clients in the table
    outbox,           \* the frames still to be broadcast
    todo,             \* the members that the first of them has not been tried with
    queue,            \* the frames in the FIFO of each client
    links,            \* the clients whose FIFO can be opened by name
    pc,               \* where the main thread of each client is
    name,             \* the user name of each client
    receiver,         \* "wait" from the opening of its FIFO to the end of the client
    seen,             \* the frames that each client has received
    lines,            \* the number of lines typed
    shutdown,         \* g_shutdown of each process
    log               \* the frames broadcast so far (not in the code)

host == <<main, buf, target>>
delivery == <<outbox, todo, log>>
inbox == <<queue, receiver, seen>>
client == <<links, pc, name, lines>>
vars == <<uplink, held, host, members, delivery, inbox, client, shutdown>>

Goto(c, place) == pc' = [pc EXCEPT ![c] = place]

\* The host has opened its FIFO and printed the name.
Init ==
    /\ uplink = <<>> /\ held = <<>>
    /\ main = "poll" /\ buf = <<>> /\ target = Host
    /\ members = {} /\ outbox = <<>> /\ todo = {} /\ log = <<>>
    /\ queue = [c \in Clients |-> <<>>] /\ seen = [c \in Clients |-> <<>>]
    /\ receiver = [c \in Clients |-> "off"]
    /\ links = {} /\ pc = [c \in Clients |-> "start"]
    /\ name = [c \in Clients |-> NoName]
    /\ lines = 0
    /\ shutdown = [p \in Process |-> FALSE]
-----------------------------------------------------------------------------
(* A client.                                                               *)

FrameOf(c, kind) == [kind |-> kind, name |-> name[c], from |-> c]

\* writeToPath on the control FIFO, and where it leads.  With the host's end closed
\* it fails, or blocks for good in opening a FIFO that is not unlinked yet.
WriteUp(c, kind, place, error) ==
    \/ /\ main \notin {"closed", "gone"}
       /\ uplink' = Append(uplink, FrameOf(c, kind))
       /\ Goto(c, place)
    \/ /\ main \in {"closed", "gone"}
       /\ Goto(c, error)
       /\ UNCHANGED uplink
    \/ /\ main = "closed"
       /\ Goto(c, "stuck")
       /\ UNCHANGED uplink

\* The client makes its FIFO.
Start(c) ==
    /\ pc[c] = "start"
    /\ \E n \in Names : name' = [name EXCEPT ![c] = n]
    /\ links' = links \cup {c}
    /\ Goto(c, "join")
    /\ UNCHANGED <<uplink, held, host, members, delivery, inbox, lines, shutdown>>

SendJoin(c) ==
    /\ pc[c] = "join"
    /\ WriteUp(c, "JOIN", "opening", "unlink")
    /\ UNCHANGED <<held, host, members, delivery, inbox, links, name, lines, shutdown>>

\* The loop looks at g_shutdown before it waits for input again.
InputOrLeave(c) == IF shutdown[c] THEN "leave" ELSE "input"

\* Only after JOIN does the client open its FIFO, for reading and writing.
OpenFifo(c) ==
    /\ pc[c] = "opening"
    /\ receiver' = [receiver EXCEPT ![c] = "wait"]
    /\ Goto(c, InputOrLeave(c))
    /\ UNCHANGED <<uplink, held, host, members, delivery, queue, seen, links, name, lines, shutdown>>

TypeLine(c) ==
    /\ pc[c] = "input" /\ lines < MaxLines
    /\ lines' = lines + 1
    /\ Goto(c, "say")
    /\ UNCHANGED <<uplink, held, host, members, delivery, inbox, links, name, shutdown>>

SendMsg(c) ==
    /\ pc[c] = "say"
    /\ WriteUp(c, "MSG", InputOrLeave(c), "leave")
    /\ UNCHANGED <<held, host, members, delivery, inbox, links, name, lines, shutdown>>

\* An empty line, one too long for a frame, end of input, or g_shutdown.
Quit(c) ==
    /\ pc[c] = "input"
    /\ Goto(c, "leave")
    /\ UNCHANGED <<uplink, held, host, members, delivery, inbox, links, name, lines, shutdown>>

SendLeave(c) ==
    /\ pc[c] = "leave"
    /\ WriteUp(c, "LEAVE", "unlink", "unlink")
    /\ UNCHANGED <<held, host, members, delivery, inbox, links, name, lines, shutdown>>

\* Unlink the FIFO and end; the detached receiving thread ends with the process.
Unlink(c) ==
    /\ pc[c] = "unlink"
    /\ links' = links \ {c}
    /\ Goto(c, "ended")
    /\ receiver' = [receiver EXCEPT ![c] = "off"]
    /\ UNCHANGED <<uplink, held, host, members, delivery, queue, seen, name, lines, shutdown>>

Receive(c) ==
    /\ receiver[c] = "wait" /\ queue[c] # <<>>
    /\ seen' = [seen EXCEPT ![c] = Append(@, Head(queue[c]))]
    /\ queue' = [queue EXCEPT ![c] = Tail(@)]
    /\ UNCHANGED <<uplink, held, host, members, delivery, receiver, client, shutdown>>
-----------------------------------------------------------------------------
(* Broadcasting.                                                           *)

\* Somebody holds the client's FIFO open for reading.
HasReader(c) == receiver[c] = "wait"

\* The loop looks at g_shutdown before it polls again; out of it the host closes.
NextRound == main' = IF shutdown[Host] THEN "closed" ELSE "poll"

Broadcast(frames, M) ==
    /\ outbox' = frames
    /\ log' = Append(log, Head(frames))
    /\ todo' = M
    /\ main' = "broadcast"

NextClient ==
    /\ main = "broadcast"
    /\ target' \in todo
    /\ main' = "open"
    /\ UNCHANGED <<uplink, held, buf, members, delivery, inbox, client, shutdown>>

DoneWithTarget == todo' = todo \ {target} /\ target' = Host /\ main' = "broadcast"

\* Faulty form: does not wait for a reader.
OpenDataNonblock ==
    /\ main = "open"
    /\ IF HasReader(target) /\ target \in links
       THEN main' = "write" /\ UNCHANGED <<target, todo>>
       ELSE DoneWithTarget
    /\ UNCHANGED <<uplink, held, buf, members, outbox, log, inbox, client, shutdown>>

\* Opening fails when the FIFO is unlinked, and waits for a reader when there is none.
OpenData ==
    /\ main = "open"
    /\ \/ /\ target \in links /\ HasReader(target)
          /\ main' = "write"
          /\ UNCHANGED <<target, todo>>
       \/ target \notin links /\ DoneWithTarget
    /\ UNCHANGED <<uplink, held, buf, members, outbox, log, inbox, client, shutdown>>

\* Writing fails when the reader has ended since.
WriteData ==
    /\ main = "write"
    /\ queue' = IF HasReader(target) THEN [queue EXCEPT ![target] = Append(@, Head(outbox))]
                ELSE queue
    /\ DoneWithTarget
    /\ UNCHANGED <<uplink, held, buf, members, outbox, log, receiver, seen, client, shutdown>>

\* The frame has been tried with everybody: the next one, or the next round.
NextFrame ==
    /\ main = "broadcast" /\ todo = {}
    /\ outbox' = Tail(outbox)
    /\ IF outbox' = <<>>
       THEN NextRound /\ UNCHANGED <<todo, log>>
       ELSE todo' = members /\ log' = Append(log, Head(outbox')) /\ UNCHANGED main
    /\ UNCHANGED <<uplink, held, buf, target, members, inbox, client, shutdown>>
-----------------------------------------------------------------------------
(* The host's loop.                                                        *)

\* poll looks at the FIFO, not at the reader's buffer.  A frame in the buffer goes
\* first; without one, reading takes some of what has come, as it fits.
HostRead ==
    /\ main = "poll" /\ uplink # <<>>
    /\ \/ held # <<>> /\ buf' = Head(held) /\ held' = Tail(held) /\ UNCHANGED uplink
       \/ /\ held = <<>>
          /\ \E n \in DOMAIN uplink :
                /\ buf' = Head(uplink)
                /\ held' = SubSeq(uplink, 2, n)
                /\ uplink' = SubSeq(uplink, n + 1, Len(uplink))
    /\ main' = "handle"
    /\ UNCHANGED <<target, members, delivery, inbox, client, shutdown>>

\* The table is keyed by user name.
Named(n) == {c \in members : name[c] = n}

\* A name that is there already joins without effect, one that is not there sends
\* and leaves without effect.
IgnoreFrame ==
    /\ main = "handle"
    /\ buf.kind = "JOIN" <=> Named(buf.name) # {}
    /\ NextRound /\ buf' = <<>>
    /\ UNCHANGED <<uplink, held, target, members, delivery, inbox, client, shutdown>>

\* Whoever is in the table under the name leaves, the sender or not.
HandleFrame ==
    /\ main = "handle"
    /\ buf.kind = "JOIN" <=> Named(buf.name) = {}
    /\ \/ buf.kind = "JOIN" /\ members' = members \cup {buf.from}
       \/ buf.kind = "LEAVE" /\ members' = members \ Named(buf.name)
       \/ buf.kind = "MSG" /\ UNCHANGED members
    /\ Broadcast(<<buf>>, members')
    /\ buf' = <<>>
    /\ UNCHANGED <<uplink, held, target, inbox, client, shutdown>>

\* Those whose FIFO cannot be opened for writing at once.
Zombies == {c \in members : c \notin links \/ ~HasReader(c)}

\* poll has timed out.  All zombies leave the table, then their leaving is broadcast.
Probe ==
    /\ main = "poll" /\ uplink = <<>>
    /\ IF Zombies = {} THEN NextRound /\ UNCHANGED <<members, delivery>>
       ELSE /\ members' = members \ Zombies
            /\ \E cs \in SetToSeqs(Zombies) :
                  Broadcast([i \in DOMAIN cs |-> FrameOf(cs[i], "LEAVE")], members')
    /\ UNCHANGED <<uplink, held, buf, target, inbox, client, shutdown>>

\* The host closes its FIFO, and then unlinks it and ends.
HostEnd ==
    /\ main = "closed"
    /\ main' = "gone" /\ members' = {}
    /\ UNCHANGED <<uplink, held, buf, target, delivery, inbox, client, shutdown>>
-----------------------------------------------------------------------------
\* SIGINT: the calls that a thread may block in are all restarted.
Interrupt(p) ==
    /\ p \in Interruptible
    /\ IF p = Host THEN main # "gone" ELSE pc[p] \notin {"start", "ended", "killed"}
    /\ shutdown' = [shutdown EXCEPT ![p] = TRUE]
    /\ UNCHANGED <<uplink, held, host, members, delivery, inbox, client>>

\* SIGKILL: the client stops where it is, and its FIFO stays, without a reader.
Kill(c) ==
    /\ c \in Killable /\ pc[c] \notin {"start", "ended", "killed"}
    /\ Goto(c, "killed")
    /\ receiver' = [receiver EXCEPT ![c] = "off"]
    /\ UNCHANGED <<uplink, held, host, members, delivery, queue, seen, links, name, lines, shutdown>>
-----------------------------------------------------------------------------
HostStep ==
    \/ NextClient \/ OpenData \/ WriteData \/ NextFrame
    \/ HostRead \/ IgnoreFrame \/ HandleFrame \/ Probe \/ HostEnd
SendStep(c) == SendJoin(c) \/ OpenFifo(c) \/ SendMsg(c) \/ SendLeave(c) \/ Unlink(c)
UserStep(c) == Start(c) \/ TypeLine(c) \/ Quit(c)

Next ==
    \/ HostStep
    \/ \E c \in Clients : SendStep(c) \/ Receive(c) \/ UserStep(c) \/ Kill(c)
    \/ \E p \in Process : Interrupt(p)

Spec == Init /\ [][Next]_vars
-----------------------------------------------------------------------------
(* Properties.                                                             *)

Main == {"poll", "handle", "broadcast", "open", "write", "closed", "gone"}
Client == {"start", "join", "opening", "input", "say", "leave", "unlink", "stuck",
           "ended", "killed"}

\* Every variable has its type.
TypeOK ==
    /\ uplink \in Seq(Frame) /\ held \in Seq(Frame)
    /\ main \in Main /\ buf \in Frame \cup {<<>>} /\ target \in Process
    /\ members \subseteq Clients
    /\ outbox \in Seq(Frame) /\ todo \subseteq members /\ log \in Seq(Frame)
    /\ queue \in [Clients -> Seq(Frame)]
    /\ links \subseteq Clients /\ seen \in [Clients -> Seq(Frame)]
    /\ pc \in [Clients -> Client] /\ name \in [Clients -> Names \cup {NoName}]
    /\ receiver \in [Clients -> {"off", "wait"}]
    /\ lines \in 0..MaxLines /\ shutdown \in [Process -> BOOLEAN]

\* Whenever the host waits: the names in the table are those that the frames broadcast
\* leave present, each name once; and each member alive has opened its FIFO, so that
\* it is not taken for dead, and was given every frame up to the last.
TableAnnounced ==
    main = "poll" =>
        /\ Present(log) = {name[c] : c \in members}
        /\ \A c, d \in members : name[c] = name[d] => c = d
        /\ \A c \in members : pc[c] \notin {"ended", "killed"} =>
              /\ c \notin Zombies
              /\ seen[c] \o queue[c] # <<>> /\ Last(seen[c] \o queue[c]) = Last(log)

\* The one call in which the host waits for a client: opening a FIFO without a reader.
OpenWaits == main = "open" /\ target \in links /\ ~HasReader(target)

\* The host waits for a client only if that client has sent JOIN and is about to open its
\* FIFO, or was killed.
HostServes == OpenWaits => pc[target] \in {"opening", "killed"}

\* A host that has not ended can move, or a client that has just joined lets it; only a
\* client that was killed and not yet found dead stops it (see KilledReaped).
HostNeverStuck ==
    HostServes /\ (main # "gone" /\ ~OpenWaits <=> ENABLED HostStep)

\* The host's thread and the clients' threads are scheduled; users do as they like.
Fairness == WF_vars(HostStep) /\ \A c \in Clients : WF_vars(SendStep(c)) /\ WF_vars(Receive(c))
FairSpec == Spec /\ Fairness

\* The host waits for a frame, and none is on its way.
Idle == main = "poll" /\ uplink = <<>> /\ held = <<>>

\* A client that is in the table and is killed while the host has nothing to do leaves
\* the table, whoever comes meanwhile, unless the host ends: "Host detects and reaps a
\* SIGKILL'd client via FIFO probe" (test_mychat_fifo_zombie.sh:2, where Alice joins
\* right after the kill).
KilledReaped ==
    \A c \in Clients :
        Idle /\ c \in members /\ pc[c] = "killed" ~> c \notin members \/ main = "gone"
-----------------------------------------------------------------------------
(* The inductive invariant.                                                *)

\* What a client was given, received or not.
Given(c) == seen[c] \o queue[c]

\* A client's name is settled when it starts, and its frames carry it.
Genuine(f) == f.name = name[f.from]
NamesSound ==
    /\ \A c \in Clients : pc[c] = "start" <=> name[c] = NoName
    /\ \A c, d \in members : name[c] = name[d] => c = d
    /\ \A i \in DOMAIN uplink : Genuine(uplink[i])
    /\ \A i \in DOMAIN held : Genuine(held[i])
    /\ \A i \in DOMAIN log : log[i].kind = "JOIN" => Genuine(log[i])
    /\ buf # <<>> => Genuine(buf)

\* A client's JOIN is sent once, and is in one place: in the FIFO, in the reader's
\* buffer, with the host, or announced.
JoinHandled(c) == buf # <<>> /\ buf.kind = "JOIN" /\ buf.from = c
JoinsOnce ==
    \A c \in Clients :
        /\ \A i, j \in Joins(uplink, c) : i = j
        /\ \A i, j \in Joins(held, c) : i = j
        /\ \A i, j \in Joins(log, c) : i = j
        /\ Joins(uplink, c) # {} =>
              Joins(held, c) = {} /\ Joins(log, c) = {} /\ ~JoinHandled(c)
        /\ Joins(held, c) # {} => Joins(log, c) = {} /\ ~JoinHandled(c)
        /\ JoinHandled(c) => Joins(log, c) = {}
        /\ pc[c] \in {"start", "join"} =>
              /\ Joins(uplink, c) = {} /\ Joins(held, c) = {} /\ Joins(log, c) = {}
              /\ ~JoinHandled(c)

\* What is being broadcast was announced last; only leaving is announced in a row.
BroadcastSound ==
    /\ main \in {"broadcast", "open", "write"} <=> outbox # <<>>
    /\ outbox = <<>> => todo = {}
    /\ main \in {"open", "write"} => target \in todo
    /\ outbox # <<>> => log # <<>> /\ outbox[1] = log[Len(log)]
    /\ \A i \in DOMAIN outbox : i > 1 => outbox[i].kind = "LEAVE"
    /\ main = "handle" => buf # <<>>

\* A client that cannot be reached any more has ended; one that has ended reads nothing.
Ended(c) == pc[c] \in {"ended", "killed"}
EndsSound ==
    /\ \A c \in Clients : Ended(c) => ~HasReader(c)
    /\ \A c \in Clients : c \notin links => pc[c] \in {"start", "ended"}
    /\ main = "write" => HasReader(target) \/ Ended(target)
    /\ \A c \in Clients : Given(c) # <<>> => HasReader(c) \/ Ended(c)

\* A client reads its FIFO from joining to its end, unless the host closed before it
\* joined; one that ended by itself has unlinked it.
ReadersSound ==
    \A c \in Clients :
        /\ pc[c] \in {"input", "say", "leave"} => HasReader(c)
        /\ pc[c] \in {"unlink", "stuck"} => HasReader(c) \/ main \in {"closed", "gone"}
        /\ pc[c] = "ended" => c \notin links

\* The names in the table are those that will be present once all is announced.
Unannounced == {outbox[i].name : i \in DOMAIN outbox \ {1}}
TableSound == main # "gone" => Present(log) \ Unannounced = {name[c] : c \in members}

\* Whoever is still to be tried was given all frames from its JOIN on but the last,
\* and whoever was tried that one, too, unless it has ended.
UpToDate ==
    /\ \A c \in Clients : Joins(log, c) = {} => Given(c) = <<>>
    /\ \A c \in members : \E i \in Joins(log, c) :
          ~Ended(c) =>
              IF c \in todo THEN i + Len(Given(c)) = Len(log)
              ELSE /\ i + Len(Given(c)) = Len(log) + 1
                   /\ Given(c)[Len(Given(c))] = log[Len(log)]

IInv ==
    /\ TypeOK /\ NamesSound /\ JoinsOnce /\ BroadcastSound
    /\ EndsSound /\ TableSound /\ UpToDate
=============================================================================

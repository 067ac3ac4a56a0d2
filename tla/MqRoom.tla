------------------------------- MODULE MqRoom -------------------------------
(***************************************************************************)
(* mychat's chat room over POSIX message queues (exp_3/mychat/mq.zig).     *)
(* All clients send into the host's queue, and the host broadcasts into a  *)
(* queue of each client.  Queues are short: a client's send blocks when    *)
(* the host's queue is full, the host's sends fail at once, and a client   *)
(* that three attempts in a row could not reach is left out until the      *)
(* probe thread removes it.  clients_sem guards the table of clients.      *)
(*                                                                         *)
(* Abstracted: the layout of frames, and failures of allocation, threads   *)
(* and the creation of queues.  A client process joins once.               *)
(***************************************************************************)
EXTENDS RoomFrames

MAX_RETRY_COUNT == 3

VARIABLES
    uplink,           \* host_mq: the host's queue
    main,             \* where the host's main thread is
    buf,              \* recv_buf: the frame it handles
    probe,            \* where the probe thread is
    clients_sem,      \* semaphore: the right to use the table
    members,          \* the clients in the table
    retries,          \* n_retries of each member
    outbox,           \* the frames still to be broadcast, under clients_sem
    todo,             \* the members that the first of them has not reached
    queue,            \* the queue of each client
    links,            \* the clients whose queue can be opened by name
    pc,               \* where the main thread of each client is
    name,             \* the user name of each client
    receiver,         \* where the receiving thread of each client is
    seen,             \* the frames that each client has received
    lines,            \* the number of lines typed
    shutdown,         \* g_shutdown of each process
    log               \* the frames broadcast so far (not in the code)

host == <<main, buf, probe>>
table == <<clients_sem, members, retries>>
delivery == <<outbox, todo, log>>
inbox == <<queue, receiver, seen>>
client == <<links, pc, name, lines>>
vars == <<uplink, host, table, delivery, inbox, client, shutdown>>

Goto(c, place) == pc' = [pc EXCEPT ![c] = place]
Wait(sem) == sem > 0 /\ sem' = sem - 1
Post(sem) == sem' = sem + 1

\* The host has made its queue, started its probe thread and printed the name.
Init ==
    /\ uplink = <<>> /\ main = "receive" /\ buf = <<>> /\ probe = "watch"
    /\ clients_sem = 1 /\ members = {} /\ retries = [c \in Clients |-> 0]
    /\ outbox = <<>> /\ todo = {} /\ log = <<>>
    /\ queue = [c \in Clients |-> <<>>] /\ seen = [c \in Clients |-> <<>>]
    /\ receiver = [c \in Clients |-> "off"]
    /\ links = {} /\ pc = [c \in Clients |-> "start"]
    /\ name = [c \in Clients |-> NoName] /\ lines = 0
    /\ shutdown = [p \in Process |-> FALSE]
-----------------------------------------------------------------------------
(* A client's main thread.                                                 *)

FrameOf(c, kind) == [kind |-> kind, name |-> name[c], from |-> c]

\* Open the host's queue by its name, which is there until the host unlinks it (a host
\* that panicked leaves it), or go where an error leads; the send is still to come.
Open(c, place, error) == Goto(c, IF main = "gone" THEN error ELSE place)

\* The client makes its queue and sends JOIN.  Failing that it ends without a word.
Start(c) ==
    /\ pc[c] = "start"
    /\ \E n \in Names : name' = [name EXCEPT ![c] = n]
    /\ links' = links \cup {c}
    /\ Open(c, "join", "unlink")
    /\ UNCHANGED <<uplink, host, table, delivery, inbox, lines, shutdown>>

\* Failing to send a line it leaves.
TypeLine(c) ==
    /\ pc[c] = "input" /\ lines < MaxLines
    /\ lines' = lines + 1
    /\ Open(c, "say", "leave")
    /\ UNCHANGED <<uplink, host, table, delivery, inbox, links, name, shutdown>>

\* End of input, a line too long for a frame, or g_shutdown.
Quit(c) ==
    /\ pc[c] = "input"
    /\ Goto(c, "leave")
    /\ UNCHANGED <<uplink, host, table, delivery, inbox, links, name, lines, shutdown>>

\* The loops look at g_shutdown before they wait again.
Listen(c) == receiver' = [receiver EXCEPT ![c] = IF shutdown[c] THEN "off" ELSE "wait"]
NextInput(c) == Goto(c, IF shutdown[c] THEN "leave" ELSE "input")

\* A blocking send returns when the queue has room, be it still linked or not.
\* After JOIN the receiving thread starts.
SendJoin(c) ==
    /\ pc[c] = "join" /\ Len(uplink) < N_MAX_MSG
    /\ uplink' = Append(uplink, FrameOf(c, "JOIN"))
    /\ NextInput(c) /\ Listen(c)
    /\ UNCHANGED <<host, table, delivery, queue, seen, links, name, lines, shutdown>>

SendMsg(c) ==
    /\ pc[c] = "say" /\ Len(uplink) < N_MAX_MSG
    /\ uplink' = Append(uplink, FrameOf(c, "MSG"))
    /\ NextInput(c)
    /\ UNCHANGED <<host, table, delivery, inbox, links, name, lines, shutdown>>

\* sendLeaveBestEffort: when there is no room, or no host, nobody is told.
SendLeave(c) ==
    /\ pc[c] = "leave"
    /\ uplink' = IF main = "gone" \/ Len(uplink) = N_MAX_MSG THEN uplink
                  ELSE Append(uplink, FrameOf(c, "LEAVE"))
    /\ Goto(c, "unlink")
    /\ UNCHANGED <<host, table, delivery, inbox, links, name, lines, shutdown>>

\* Unlink the queue and end; the detached receiving thread ends with the process.
Unlink(c) ==
    /\ pc[c] = "unlink"
    /\ links' = links \ {c}
    /\ Goto(c, "ended")
    /\ receiver' = [receiver EXCEPT ![c] = "off"]
    /\ UNCHANGED <<uplink, host, table, delivery, queue, seen, name, lines, shutdown>>
-----------------------------------------------------------------------------
(* A client's receiving thread.                                            *)

Receive(c) ==
    /\ receiver[c] = "wait" /\ queue[c] # <<>>
    /\ seen' = [seen EXCEPT ![c] = Append(@, Head(queue[c]))]
    /\ queue' = [queue EXCEPT ![c] = Tail(@)]
    /\ Listen(c)
    /\ UNCHANGED <<uplink, host, table, delivery, client, shutdown>>
-----------------------------------------------------------------------------
(* Broadcasting, by the thread that holds clients_sem.                     *)

\* The members of M that broadcast tries.
Answering(M) == {c \in M : retries'[c] < MAX_RETRY_COUNT}

\* Broadcast some frames, one after the other, to the members in M.
Broadcast(frames, M) ==
    /\ Wait(clients_sem)
    /\ outbox' = frames
    /\ log' = Append(log, Head(frames))
    /\ todo' = Answering(M)

\* A member is finished with before the next is tried.
Turn(c) == c \in todo /\ \A d \in todo \ {c} : retries[d] = 0

Reachable(c) == c \in links /\ Len(queue[c]) < N_MAX_MSG

Deliver(c) ==
    /\ Turn(c) /\ Reachable(c)
    /\ queue' = [queue EXCEPT ![c] = Append(@, Head(outbox))]
    /\ retries' = [retries EXCEPT ![c] = 0]
    /\ todo' = todo \ {c}
    /\ UNCHANGED <<uplink, host, clients_sem, members, outbox, log, receiver, seen, client, shutdown>>

\* Faulty form: goes on trying.
FailForever(c) ==
    /\ Turn(c) /\ ~Reachable(c)
    /\ retries' = [retries EXCEPT ![c] = @ + 1]
    /\ UNCHANGED <<uplink, host, clients_sem, members, todo, outbox, log, inbox, client, shutdown>>

\* Faulty form: the host's sends block like those of the clients.
FailNever(c) == FALSE /\ UNCHANGED vars

\* The queue is full, or cannot be opened any more.
Fail(c) ==
    /\ Turn(c) /\ ~Reachable(c)
    /\ retries' = [retries EXCEPT ![c] = @ + 1]
    /\ todo' = IF retries'[c] < MAX_RETRY_COUNT THEN todo ELSE todo \ {c}
    /\ UNCHANGED <<uplink, host, clients_sem, members, outbox, log, inbox, client, shutdown>>

\* The main thread looks at g_shutdown before it waits again.
NextRound == main' = IF shutdown[Host] THEN "join" ELSE "receive"

\* The frame has been tried with everybody: the next one, or give clients_sem back.
NextFrame ==
    /\ outbox # <<>> /\ todo = {}
    /\ outbox' = Tail(outbox)
    /\ IF outbox' = <<>>
       THEN /\ Post(clients_sem)
            /\ IF main = "broadcast" THEN NextRound ELSE UNCHANGED main
            /\ probe' = IF probe = "reap" THEN "watch" ELSE probe
            /\ UNCHANGED <<todo, log>>
       ELSE /\ log' = Append(log, Head(outbox'))
            /\ todo' = {c \in members : retries[c] < MAX_RETRY_COUNT}
            /\ UNCHANGED <<main, probe, clients_sem>>
    /\ UNCHANGED <<uplink, buf, members, retries, inbox, client, shutdown>>
-----------------------------------------------------------------------------
(* The host's main thread.                                                 *)

HostReceive ==
    /\ main = "receive" /\ uplink # <<>>
    /\ buf' = Head(uplink)
    /\ uplink' = Tail(uplink)
    /\ main' = "handle"
    /\ UNCHANGED <<probe, table, delivery, inbox, client, shutdown>>

\* The table is keyed by user name.
Named(n) == {c \in members : name[c] = n}

\* A name that is there already joins without effect, one that is not there sends
\* and leaves without effect.
IgnoreFrame ==
    /\ main = "handle" /\ clients_sem > 0
    /\ buf.kind = "JOIN" <=> Named(buf.name) # {}
    /\ NextRound /\ buf' = <<>>
    /\ UNCHANGED <<uplink, probe, table, delivery, inbox, client, shutdown>>

HandleJoin ==
    /\ main = "handle" /\ buf.kind = "JOIN" /\ Named(buf.name) = {}
    /\ members' = members \cup {buf.from}
    /\ retries' = [retries EXCEPT ![buf.from] = 0]
    /\ Broadcast(<<buf>>, members')
    /\ main' = "broadcast" /\ buf' = <<>>
    /\ UNCHANGED <<uplink, probe, inbox, client, shutdown>>

HandleMsg ==
    /\ main = "handle" /\ buf.kind = "MSG" /\ Named(buf.name) # {}
    /\ UNCHANGED <<members, retries>>
    /\ Broadcast(<<buf>>, members)
    /\ main' = "broadcast" /\ buf' = <<>>
    /\ UNCHANGED <<uplink, probe, inbox, client, shutdown>>

\* Whoever is in the table under the name leaves, the sender or not.
HandleLeave ==
    /\ main = "handle" /\ buf.kind = "LEAVE" /\ Named(buf.name) # {}
    /\ members' = members \ Named(buf.name)
    /\ UNCHANGED retries
    /\ Broadcast(<<buf>>, members')
    /\ main' = "broadcast" /\ buf' = <<>>
    /\ UNCHANGED <<uplink, probe, inbox, client, shutdown>>

\* Out of its loop the main thread joins the probe thread, unlinks and ends.
HostEnd ==
    /\ main = "join" /\ probe = "off"
    /\ main' = "gone" /\ members' = {}
    /\ UNCHANGED <<uplink, buf, probe, clients_sem, retries, delivery, inbox, client, shutdown>>
-----------------------------------------------------------------------------
(* The host's probe thread.                                                *)

Zombies == {c \in members : retries[c] >= MAX_RETRY_COUNT}

\* Faulty form: tells of the first zombie only.
ReapTellOne ==
    /\ probe = "watch" /\ Zombies # {}
    /\ members' = members \ Zombies
    /\ UNCHANGED retries
    /\ \E c \in Zombies : Broadcast(<<FrameOf(c, "LEAVE")>>, members')
    /\ probe' = "reap"
    /\ UNCHANGED <<uplink, main, buf, inbox, client, shutdown>>

\* All zombies leave the table, and then their leaving is broadcast.
Reap ==
    /\ probe = "watch" /\ Zombies # {}
    /\ members' = members \ Zombies
    /\ UNCHANGED retries
    /\ \E cs \in SetToSeqs(Zombies) :
          Broadcast([i \in DOMAIN cs |-> FrameOf(cs[i], "LEAVE")], members')
    /\ probe' = "reap"
    /\ UNCHANGED <<uplink, main, buf, inbox, client, shutdown>>

ProbeStop ==
    /\ probe = "watch" /\ shutdown[Host]
    /\ probe' = "off"
    /\ UNCHANGED <<uplink, main, buf, table, delivery, inbox, client, shutdown>>
-----------------------------------------------------------------------------
(* Signals.                                                                *)

Flag(p) == shutdown' = [shutdown EXCEPT ![p] = TRUE]

\* SIGINT at a client: a blocked send fails, elsewhere the flag is set.
InterruptClient(c) ==
    /\ c \in Interruptible /\ pc[c] \notin {"start", "ended", "killed"}
    /\ Flag(c)
    /\ \/ UNCHANGED pc
       \/ pc[c] = "join" /\ Len(uplink) = N_MAX_MSG /\ Goto(c, "unlink")
       \/ pc[c] = "say" /\ Len(uplink) = N_MAX_MSG /\ Goto(c, "leave")
    /\ UNCHANGED <<uplink, host, table, delivery, inbox, links, name, lines>>

\* SIGINT at the host, in its main thread: a blocked mq_receive ends the loop, a
\* blocked wait for clients_sem panics.  Before the thread blocks only the flag is
\* set, and it may then block all the same.
InterruptHost ==
    /\ Host \in Interruptible /\ main \notin {"gone", "aborted"}
    /\ Flag(Host)
    /\ \/ UNCHANGED <<main, probe>>
       \/ main = "receive" /\ uplink = <<>> /\ main' = "join" /\ UNCHANGED probe
       \/ main = "handle" /\ clients_sem = 0 /\ main' = "aborted" /\ probe' = "off"
    /\ UNCHANGED <<uplink, buf, table, delivery, inbox, client>>

\* SIGKILL: the client stops where it is, and its queue stays.
Kill(c) ==
    /\ c \in Killable /\ pc[c] \notin {"start", "ended", "killed"}
    /\ Goto(c, "killed")
    /\ receiver' = [receiver EXCEPT ![c] = "off"]
    /\ UNCHANGED <<uplink, host, table, delivery, queue, seen, links, name, lines, shutdown>>
-----------------------------------------------------------------------------
\* A host that has panicked broadcasts no more.
BroadcastStep ==
    /\ main # "aborted"
    /\ NextFrame \/ \E c \in Clients : Deliver(c) \/ Fail(c)
MainStep ==
    \/ HostReceive \/ IgnoreFrame
    \/ HandleJoin \/ HandleMsg \/ HandleLeave \/ HostEnd
ProbeStep == Reap \/ ProbeStop
SendStep(c) == SendJoin(c) \/ SendMsg(c) \/ SendLeave(c) \/ Unlink(c)
UserStep(c) == Start(c) \/ TypeLine(c) \/ Quit(c)
SignalStep == InterruptHost \/ \E c \in Clients : InterruptClient(c) \/ Kill(c)

Next ==
    \/ BroadcastStep \/ MainStep \/ ProbeStep \/ SignalStep
    \/ \E c \in Clients : SendStep(c) \/ Receive(c) \/ UserStep(c)

Spec == Init /\ [][Next]_vars
-----------------------------------------------------------------------------
(* Properties.                                                             *)

Main == {"receive", "handle", "broadcast", "join", "gone", "aborted"}
Client == {"start", "join", "input", "say", "leave", "unlink", "ended", "killed"}

\* Every variable has its type, and no queue exceeds its length.
TypeOK ==
    /\ uplink \in Seq(Frame) /\ Len(uplink) <= N_MAX_MSG
    /\ main \in Main /\ buf \in Frame \cup {<<>>} /\ probe \in {"watch", "reap", "off"}
    /\ clients_sem \in 0..1
    /\ members \subseteq Clients /\ retries \in [Clients -> 0..MAX_RETRY_COUNT]
    /\ outbox \in Seq(Frame) /\ todo \subseteq members /\ log \in Seq(Frame)
    /\ queue \in [Clients -> Seq(Frame)] /\ \A c \in Clients : Len(queue[c]) <= N_MAX_MSG
    /\ links \subseteq Clients /\ seen \in [Clients -> Seq(Frame)]
    /\ pc \in [Clients -> Client] /\ name \in [Clients -> Names \cup {NoName}]
    /\ receiver \in [Clients -> {"off", "wait"}]
    /\ lines \in 0..MaxLines /\ shutdown \in [Process -> BOOLEAN]

\* Whenever the table is at rest: its names are those that the frames broadcast leave
\* present, each name once; and each member that answers was given every frame up to
\* the last.
TableAnnounced ==
    clients_sem = 1 /\ main # "gone" =>
        /\ Present(log) = {name[c] : c \in members}
        /\ \A c, d \in members : name[c] = name[d] => c = d
        /\ \A c \in members : retries[c] = 0 =>
              seen[c] \o queue[c] # <<>> /\ Last(seen[c] \o queue[c]) = Last(log)

\* What a thread of the host waits for is there: a frame to handle, clients_sem for
\* whoever wants to broadcast, a member whose turn it is, the end of the probe thread.
HostReady ==
    \/ main # "aborted" /\ \E c \in Clients : Turn(c)
    \/ main # "aborted" /\ outbox # <<>> /\ todo = {}
    \/ main = "receive" /\ uplink # <<>>
    \/ main = "handle" /\ clients_sem > 0
    \/ main = "join" /\ probe = "off"
    \/ probe = "watch" /\ shutdown[Host]
    \/ probe = "watch" /\ clients_sem > 0 /\ Zombies # {}

\* A client's send waits for room in the host's queue, and there is a host.
SendWaits ==
    /\ main \notin {"gone", "aborted"} /\ Len(uplink) = N_MAX_MSG
    /\ \E c \in Clients : pc[c] \in {"join", "say"}

\* While a client waits for room in the host's queue, nothing keeps the host waiting.
HostServes == SendWaits => HostReady

\* While a client waits for room in the host's queue, and there is a host, the host
\* can move (it can whenever HostReady says so): it never waits for a client, so that
\* nobody waits in a circle.
HostNeverStuck ==
    HostServes /\ (HostReady <=> ENABLED (BroadcastStep \/ MainStep \/ ProbeStep))
-----------------------------------------------------------------------------
(* The inductive invariant.                                                *)

\* What a client was given, received or not.
Given(c) == seen[c] \o queue[c]

\* A client's name is settled when it starts, and its frames carry it.
Genuine(f) == f.name = name[f.from]
NamesSound ==
    /\ \A c \in Clients : pc[c] = "start" <=> name[c] = NoName
    /\ \A c, d \in members : name[c] = name[d] => c = d
    /\ \A i \in DOMAIN uplink : Genuine(uplink[i])
    /\ \A i \in DOMAIN log : log[i].kind = "JOIN" => Genuine(log[i])
    /\ buf # <<>> => Genuine(buf)

\* A client's JOIN is sent once, and is in one place: in the queue, with the host, or
\* announced.
JoinHandled(c) == buf # <<>> /\ buf.kind = "JOIN" /\ buf.from = c
JoinsOnce ==
    \A c \in Clients :
        /\ \A i, j \in Joins(uplink, c) : i = j
        /\ \A i, j \in Joins(log, c) : i = j
        /\ Joins(uplink, c) # {} => Joins(log, c) = {} /\ ~JoinHandled(c)
        /\ JoinHandled(c) => Joins(log, c) = {}
        /\ pc[c] \in {"start", "join"} =>
              Joins(uplink, c) = {} /\ Joins(log, c) = {} /\ ~JoinHandled(c)

\* clients_sem is taken exactly while something is to be broadcast, by one thread and
\* to members that answer, and what is being broadcast was announced last; only leaving
\* is announced in a row.
BroadcastSound ==
    /\ clients_sem = 1 <=> outbox = <<>>
    /\ outbox = <<>> => todo = {}
    /\ \A c \in todo : retries[c] < MAX_RETRY_COUNT
    /\ main = "broadcast" \/ probe = "reap" => outbox # <<>>
    /\ ~(main = "broadcast" /\ probe = "reap")
    /\ outbox # <<>> => main \in {"broadcast", "aborted"} \/ probe = "reap"
    /\ outbox # <<>> => log # <<>> /\ outbox[1] = log[Len(log)]
    /\ \A i \in DOMAIN outbox : i > 1 => outbox[i].kind = "LEAVE"
    /\ main = "handle" => buf # <<>>

\* The names in the table are those that will be present once all is announced.
Unannounced == {outbox[i].name : i \in DOMAIN outbox \ {1}}
TableSound == main # "gone" => Present(log) \ Unannounced = {name[c] : c \in members}

\* Whoever is tried was given all frames from its JOIN on but the last, and whoever
\* answered was given that one, too.
UpToDate ==
    /\ \A c \in Clients : Joins(log, c) = {} => Given(c) = <<>>
    /\ \A c \in members : \E i \in Joins(log, c) :
          /\ c \in todo => i + Len(Given(c)) = Len(log)
          /\ c \notin todo /\ retries[c] < MAX_RETRY_COUNT =>
                /\ i + Len(Given(c)) = Len(log) + 1
                /\ Given(c)[Len(Given(c))] = log[Len(log)]

\* One member at a time is tried until it answers or has used up its attempts, and the
\* main thread leaves its loop only when g_shutdown is set.
TurnsSound ==
    /\ \A c \in members \ todo : retries[c] \in {0, MAX_RETRY_COUNT}
    /\ \A c, d \in todo : retries[c] # 0 /\ retries[d] # 0 => c = d
    /\ main = "join" => shutdown[Host]

IInv ==
    /\ TypeOK /\ NamesSound /\ JoinsOnce
    /\ BroadcastSound /\ TableSound /\ UpToDate
=============================================================================

------------------------------- MODULE Shmem --------------------------------
(***************************************************************************)
(* mychat's chat room over shared memory (exp_3/mychat/shmem.zig).  The    *)
(* host has a region that holds one frame from the clients, and each       *)
(* client one that holds one frame from the host; space_sem and data_sem   *)
(* guard each region.  The host's main thread handles what clients send    *)
(* and broadcasts; its probe thread removes clients that three deliveries  *)
(* in a row could not reach.  clients_sem guards the table of clients.     *)
(*                                                                         *)
(* Abstracted: the text of frames (kind, sender and length are kept), time *)
(* (a wait that can time out may do so as long as it is blocked), and      *)
(* failures of allocation, mapping and threads.                            *)
(***************************************************************************)
EXTENDS Integers, SequencesExt

CONSTANTS
    Clients,          \* the client processes
    Host,             \* the host process
    NoFrame,          \* the content of a region never written
    NameOf,           \* the user name of each client
    Interruptible,    \* the processes that may be sent SIGINT
    Killable,         \* the clients that may be sent SIGKILL
    LengthOf,         \* the length of each kind of frame
    MaxEvents         \* bound on the lines typed and the processes sent SIGINT, together

Process == Clients \cup {Host}
ASSUME ProcessAssumption ==
    /\ Host \notin Clients /\ IsFiniteSet(Clients)
    /\ Interruptible \subseteq Process /\ Killable \subseteq Clients
ASSUME NameAssumption == DOMAIN NameOf = Clients
MAX_RETRY_COUNT == 3
Kind == {"JOIN", "MSG", "LEAVE"}
Frame == [kind : Kind, from : Clients]
ASSUME BoundAssumption == LengthOf \in [Kind -> Nat \ {0}] /\ MaxEvents \in Nat
ASSUME NoFrameAssumption == NoFrame \notin Frame

VARIABLES
    space, data,      \* the semaphores of the host's region
    frame,            \* the frame in the host's region
    marks,            \* where record separators are in the host's region
    main,             \* where the host's main thread is
    buf,              \* frame_buf: the frame the main thread copied out
    cut,              \* the length it takes that frame to have
    probe,            \* where the probe thread is
    clients_sem,      \* semaphore: the right to use the table
    members,          \* the clients in the table
    retries,          \* n_retries of each member
    outbox,           \* the frames still to be broadcast, under clients_sem
    todo,             \* the members that the first of them has not reached
    down,             \* the semaphores of each client's region
    told,             \* who is there, as the frames put there tell the client
    segments,         \* the clients whose region can be opened by name
    pc,               \* where the main thread of each client is
    sending,          \* the frame it sends
    receiver,         \* where the receiving thread of each client is
    events,           \* the number of lines typed and of processes sent SIGINT
    shutdown          \* g_shutdown of each process

uplink == <<space, data, frame, marks>>
host == <<main, buf, cut, probe>>
table == <<members, retries>>
delivery == <<outbox, todo>>
downlink == <<down, told>>
client == <<segments, pc, sending, receiver, events>>
vars == <<uplink, host, clients_sem, table, delivery, downlink, client, shutdown>>

Region == [space : 0..1, data : 0..1]

Goto(c, place) == pc' = [pc EXCEPT ![c] = place]
ReceiverTo(c, place) == receiver' = [receiver EXCEPT ![c] = place]
Wait(sem) == sem > 0 /\ sem' = sem - 1
Post(sem) == sem' = sem + 1

\* The host has initialised its region, started its probe thread and printed
\* the region's name.
Init ==
    /\ space = 1 /\ data = 0 /\ frame = NoFrame /\ marks = {}
    /\ main = "wait" /\ buf = NoFrame /\ cut = 0 /\ probe = "watch"
    /\ clients_sem = 1
    /\ members = {} /\ retries = [c \in Clients |-> 0]
    /\ outbox = <<>> /\ todo = {}
    /\ down = [c \in Clients |-> [space |-> 1, data |-> 0]]
    /\ told = [c \in Clients |-> {}]
    /\ segments = {}
    /\ pc = [c \in Clients |-> "start"] /\ sending = [c \in Clients |-> NoFrame]
    /\ receiver = [c \in Clients |-> "off"]
    /\ events = 0
    /\ shutdown = [p \in Process |-> FALSE]
-----------------------------------------------------------------------------
(* A client's main thread.                                                 *)

\* Format a frame; sendToHost up to its wait.
Send(c, kind) ==
    /\ Goto(c, "space")
    /\ sending' = [sending EXCEPT ![c] = [kind |-> kind, from |-> c]]

\* The client makes its region and finds the host's.
Start(c) ==
    /\ pc[c] = "start" /\ main # "gone"
    /\ segments' = segments \cup {c}
    /\ Send(c, "JOIN")
    /\ UNCHANGED <<uplink, host, clients_sem, table, delivery, downlink, receiver, events, shutdown>>

TypeLine(c) ==
    /\ pc[c] = "input" /\ events < MaxEvents
    /\ events' = events + 1
    /\ Send(c, "MSG")
    /\ UNCHANGED <<uplink, host, clients_sem, table, delivery, downlink, segments, receiver, shutdown>>

\* An empty line, end of input, or g_shutdown.
Quit(c) ==
    /\ pc[c] = "input"
    /\ Send(c, "LEAVE")
    /\ UNCHANGED <<uplink, host, clients_sem, table, delivery, downlink, segments, receiver, events, shutdown>>

TakeSpace(c) ==
    /\ pc[c] = "space"
    /\ Wait(space)
    /\ Goto(c, "writing")
    /\ UNCHANGED <<data, frame, marks, host, clients_sem, table, delivery, downlink,
                   segments, sending, receiver, events, shutdown>>

\* All of the frame but its last byte, the record separator.
WriteFrame(c) ==
    /\ pc[c] = "writing"
    /\ frame' = sending[c]
    /\ marks' = {n \in marks : n >= LengthOf[sending[c].kind]}
    /\ Goto(c, "ending")
    /\ UNCHANGED <<space, data, host, clients_sem, table, delivery, downlink,
                   segments, sending, receiver, events, shutdown>>

\* The client ends, its receiving thread with it.  Its region is unlinked, unless that
\* thread, which is detached, has touched the region unmapped before.
End(c) ==
    /\ Goto(c, "ended")
    /\ ReceiverTo(c, "off")
    /\ \/ segments' = segments \ {c}
       \/ receiver[c] # "off" /\ UNCHANGED segments
    /\ sending' = [sending EXCEPT ![c] = NoFrame]

\* Where a frame sent leads: after JOIN the receiving thread starts.
AfterSend(c) ==
    IF sending[c].kind = "LEAVE" THEN End(c)
    ELSE /\ IF sending[c].kind = "JOIN" THEN ReceiverTo(c, "show") ELSE UNCHANGED receiver
         /\ IF shutdown[c] THEN Send(c, "LEAVE")
            ELSE Goto(c, "input") /\ sending' = [sending EXCEPT ![c] = NoFrame]
         /\ UNCHANGED segments

EndFrame(c) ==
    /\ pc[c] = "ending"
    /\ marks' = marks \cup {LengthOf[sending[c].kind]}
    /\ Post(data)
    /\ AfterSend(c)
    /\ UNCHANGED <<space, frame, host, clients_sem, table, delivery, downlink, events, shutdown>>
-----------------------------------------------------------------------------
(* A client's receiving thread.                                            *)

Receive(c) ==
    /\ receiver[c] = "wait" /\ down[c].data > 0
    /\ down' = [down EXCEPT ![c].data = @ - 1]
    /\ ReceiverTo(c, "scan")
    /\ UNCHANGED <<uplink, host, clients_sem, table, delivery, told, segments, pc, sending, events, shutdown>>

\* Faulty form: takes the frame without giving the space back.
KeepSpace(c) ==
    /\ receiver[c] = "scan"
    /\ ReceiverTo(c, "show")
    /\ UNCHANGED <<uplink, host, clients_sem, table, delivery, downlink, segments, pc, sending, events, shutdown>>

\* The length is taken before the space is given back, the text is shown after.
GiveSpace(c) ==
    /\ receiver[c] = "scan"
    /\ down' = [down EXCEPT ![c].space = @ + 1]
    /\ ReceiverTo(c, "show")
    /\ UNCHANGED <<uplink, host, clients_sem, table, delivery, told, segments, pc, sending, events, shutdown>>

\* Show the frame, if there was one, and look at g_shutdown.
Show(c) ==
    /\ receiver[c] = "show"
    /\ ReceiverTo(c, IF shutdown[c] THEN "off" ELSE "wait")
    /\ UNCHANGED <<uplink, host, clients_sem, table, delivery, downlink, segments, pc, sending, events, shutdown>>
-----------------------------------------------------------------------------
(* Broadcasting, by the thread that holds clients_sem.                     *)

Named(c) == {d \in members : NameOf[d] = NameOf[c]}

\* Start to broadcast some frames to the members in M.
Broadcast(frames, M) ==
    /\ Wait(clients_sem)
    /\ outbox' = frames
    /\ todo' = {c \in M : retries'[c] < MAX_RETRY_COUNT}

\* Who is there, for one that is told of a frame.
Told(names, f) ==
    CASE f.kind = "JOIN" -> names \cup {NameOf[f.from]}
      [] f.kind = "LEAVE" -> names \ {NameOf[f.from]}
      [] OTHER -> names

\* A member is finished with before the next is tried.
Turn(c) == c \in todo /\ \A d \in todo \ {c} : retries[d] = 0

Deliver(c) ==
    /\ Turn(c)
    /\ down[c].space > 0
    /\ down' = [down EXCEPT ![c] = [space |-> @.space - 1, data |-> @.data + 1]]
    /\ told' = [told EXCEPT ![c] = Told(@, Head(outbox))]
    /\ retries' = [retries EXCEPT ![c] = 0]
    /\ todo' = todo \ {c}
    /\ UNCHANGED <<uplink, host, clients_sem, members, outbox, client, shutdown>>

\* Faulty form: waits for the space as long as it takes.
NoTimeout(c) == FALSE /\ UNCHANGED vars

Timeout(c) ==
    /\ Turn(c)
    /\ down[c].space = 0
    /\ retries' = [retries EXCEPT ![c] = @ + 1]
    /\ todo' = IF retries'[c] < MAX_RETRY_COUNT THEN todo ELSE todo \ {c}
    /\ UNCHANGED <<uplink, host, clients_sem, members, outbox, downlink, client, shutdown>>

\* The frame has been tried with everybody: the next one, or give clients_sem back.
NextFrame ==
    /\ outbox # <<>> /\ todo = {}
    /\ outbox' = Tail(outbox)
    /\ IF Tail(outbox) = <<>>
       THEN /\ Post(clients_sem)
            /\ todo' = {}
            /\ main' = IF main # "broadcast" THEN main
                       ELSE IF shutdown[Host] THEN "join" ELSE "wait"
            /\ probe' = IF probe = "reap" THEN "watch" ELSE probe
       ELSE /\ todo' = {c \in members : retries[c] < MAX_RETRY_COUNT}
            /\ UNCHANGED <<main, probe, clients_sem>>
    /\ UNCHANGED <<uplink, buf, cut, table, downlink, client, shutdown>>
-----------------------------------------------------------------------------
(* The host's main thread.                                                 *)

\* Faulty form: gives the space back before copying the frame.
HostWaitPostFirst ==
    /\ main = "wait"
    /\ Wait(data)
    /\ Post(space)
    /\ main' = "copy"
    /\ UNCHANGED <<frame, marks, buf, cut, probe, clients_sem, table, delivery, downlink, client, shutdown>>

HostWait ==
    /\ main = "wait"
    /\ Wait(data)
    /\ main' = "copy"
    /\ UNCHANGED <<space, frame, marks, buf, cut, probe, clients_sem, table, delivery, downlink, client, shutdown>>

HostCopy ==
    /\ main = "copy"
    /\ buf' = frame
    /\ Post(space)
    /\ main' = "scan"
    /\ UNCHANGED <<data, frame, marks, cut, probe, clients_sem, table, delivery, downlink, client, shutdown>>

\* The end of the frame is looked for in the region, not in the copy; when no
\* separator is there, the host panics.
HostScan ==
    /\ main = "scan"
    /\ IF marks = {} THEN main' = "aborted" /\ probe' = "off" /\ UNCHANGED cut
       ELSE main' = "handle" /\ cut' = Min(marks) /\ UNCHANGED probe
    /\ UNCHANGED <<uplink, buf, clients_sem, table, delivery, downlink, client, shutdown>>

Whole == cut = LengthOf[buf.kind]
NextLoop == main' = (IF shutdown[Host] THEN "join" ELSE "wait") /\ cut' = 0

\* A frame cut short or overlong does not parse, or names nobody.
DropFrame ==
    /\ main = "handle" /\ ~Whole
    /\ NextLoop
    /\ UNCHANGED <<uplink, buf, probe, clients_sem, table, delivery, downlink, client, shutdown>>

\* Handled under clients_sem, without effect.
IgnoreFrame ==
    /\ main = "handle" /\ clients_sem > 0
    /\ \/ buf.kind = "JOIN" /\ Whole /\ (Named(buf.from) # {} \/ buf.from \notin segments)
       \/ buf.kind \in {"MSG", "LEAVE"} /\ Named(buf.from) = {}
    /\ NextLoop
    /\ UNCHANGED <<uplink, buf, probe, clients_sem, table, delivery, downlink, client, shutdown>>

HandleJoin ==
    /\ main = "handle" /\ buf.kind = "JOIN" /\ Whole
    /\ Named(buf.from) = {} /\ buf.from \in segments
    /\ members' = members \cup {buf.from}
    /\ retries' = [retries EXCEPT ![buf.from] = 0]
    /\ Broadcast(<<buf>>, members')
    /\ main' = "broadcast" /\ cut' = 0
    /\ UNCHANGED <<uplink, buf, probe, downlink, client, shutdown>>

\* The name comes before the text, so a message cut short may still be one.
HandleMsg ==
    /\ main = "handle" /\ buf.kind = "MSG"
    /\ Named(buf.from) # {}
    /\ UNCHANGED table
    /\ Broadcast(<<buf>>, members)
    /\ main' = "broadcast" /\ cut' = 0
    /\ UNCHANGED <<uplink, buf, probe, downlink, client, shutdown>>

\* Faulty form: forgets to tell the others.
HandleLeaveSilently ==
    /\ main = "handle" /\ buf.kind = "LEAVE" /\ Whole
    /\ Named(buf.from) # {} /\ clients_sem > 0
    /\ members' = members \ Named(buf.from)
    /\ segments' = segments \ Named(buf.from)
    /\ NextLoop
    /\ UNCHANGED <<uplink, buf, probe, clients_sem, retries, delivery, downlink, pc, sending, receiver, events, shutdown>>

\* Whoever has the name leaves; Client.deinit unlinks its region.
HandleLeave ==
    /\ main = "handle" /\ buf.kind = "LEAVE" /\ Whole
    /\ Named(buf.from) # {}
    /\ members' = members \ Named(buf.from)
    /\ segments' = segments \ Named(buf.from)
    /\ UNCHANGED retries
    /\ Broadcast(<<buf>>, members')
    /\ main' = "broadcast" /\ cut' = 0
    /\ UNCHANGED <<uplink, buf, probe, downlink, pc, sending, receiver, events, shutdown>>

\* Out of its loop the main thread joins the probe thread and ends.
HostEnd ==
    /\ main = "join" /\ probe = "off"
    /\ main' = "gone"
    /\ members' = {}
    /\ segments' = segments \ members
    /\ UNCHANGED <<uplink, buf, cut, probe, clients_sem, retries, delivery, downlink,
                   pc, sending, receiver, events, shutdown>>
-----------------------------------------------------------------------------
(* The host's probe thread.                                                *)

Zombies == {c \in members : retries[c] >= MAX_RETRY_COUNT}
LeaveOf(c) == [kind |-> "LEAVE", from |-> c]

\* Faulty form: keeps the zombies' names for the next round.
ReapNobody == FALSE /\ UNCHANGED vars

\* All zombies leave the table, and then their leaving is broadcast.
Reap ==
    /\ probe = "watch" /\ Zombies # {}
    /\ members' = members \ Zombies
    /\ segments' = segments \ Zombies
    /\ UNCHANGED retries
    /\ \E names \in SetToSeqs(Zombies) :
          Broadcast([i \in DOMAIN names |-> LeaveOf(names[i])], members')
    /\ probe' = "reap"
    /\ UNCHANGED <<uplink, main, buf, cut, downlink, pc, sending, receiver, events, shutdown>>

ProbeStop ==
    /\ probe = "watch" /\ shutdown[Host]
    /\ probe' = "off"
    /\ UNCHANGED <<uplink, main, buf, cut, clients_sem, table, delivery, downlink, client, shutdown>>
-----------------------------------------------------------------------------
(* Signals.                                                                *)

\* Only the first SIGINT that a process is sent counts as an event.
Flag(p) ==
    /\ shutdown' = [shutdown EXCEPT ![p] = TRUE]
    /\ \/ shutdown[p] /\ UNCHANGED events
       \/ ~shutdown[p] /\ events < MaxEvents /\ events' = events + 1

\* SIGINT at a client.  A blocked wait for space fails: JOIN is given up and the
\* client ends, after a line it leaves, and LEAVE is given up.
InterruptClient(c) ==
    /\ c \in Interruptible /\ pc[c] \notin {"start", "ended", "killed"}
    /\ Flag(c)
    /\ \/ UNCHANGED <<segments, pc, sending, receiver>>
       \/ /\ pc[c] = "space" /\ space = 0
          /\ IF sending[c].kind = "MSG"
             THEN Send(c, "LEAVE") /\ UNCHANGED <<segments, receiver>>
             ELSE End(c)
    /\ UNCHANGED <<uplink, host, clients_sem, table, delivery, downlink>>

\* SIGINT at the host, in its main thread.  A blocked wait for a frame ends the
\* loop, a blocked wait for clients_sem panics.
InterruptHost ==
    /\ Host \in Interruptible /\ main \notin {"gone", "aborted"}
    /\ Flag(Host)
    /\ \/ UNCHANGED <<main, probe>>
       \/ main = "wait" /\ data = 0 /\ main' = "join" /\ UNCHANGED probe
       \/ main = "handle" /\ clients_sem = 0 /\ main' = "aborted" /\ probe' = "off"
    /\ UNCHANGED <<uplink, buf, cut, clients_sem, table, delivery, downlink,
                   segments, pc, sending, receiver>>

\* SIGKILL: the client stops where it is, and its region stays.
Kill(c) ==
    /\ c \in Killable /\ pc[c] \notin {"start", "ended", "killed"}
    /\ Goto(c, "killed")
    /\ ReceiverTo(c, "off")
    /\ sending' = [sending EXCEPT ![c] = NoFrame]
    /\ UNCHANGED <<uplink, host, clients_sem, table, delivery, downlink, segments, events, shutdown>>
-----------------------------------------------------------------------------
\* A host that has panicked broadcasts no more.
BroadcastStep ==
    /\ main # "aborted"
    /\ NextFrame \/ \E c \in Clients : Deliver(c) \/ Timeout(c)
MainStep ==
    \/ HostWait \/ HostCopy \/ HostScan \/ DropFrame \/ IgnoreFrame
    \/ HandleJoin \/ HandleMsg \/ HandleLeave \/ HostEnd
ProbeStep == Reap \/ ProbeStop
SendStep(c) == TakeSpace(c) \/ WriteFrame(c) \/ EndFrame(c)
RecvStep(c) == Receive(c) \/ GiveSpace(c) \/ Show(c)
UserStep(c) == Start(c) \/ TypeLine(c) \/ Quit(c)
SignalStep == InterruptHost \/ \E c \in Clients : InterruptClient(c) \/ Kill(c)

Next ==
    \/ BroadcastStep \/ MainStep \/ ProbeStep \/ SignalStep
    \/ \E c \in Clients : SendStep(c) \/ RecvStep(c) \/ UserStep(c)

\* Threads are scheduled, and a wait with a deadline returns; users do as they like.
Fairness ==
    /\ WF_vars(BroadcastStep) /\ WF_vars(MainStep) /\ WF_vars(ProbeStep)
    /\ \A c \in Clients : WF_vars(SendStep(c)) /\ WF_vars(RecvStep(c))

Spec == Init /\ [][Next]_vars /\ Fairness
-----------------------------------------------------------------------------
(* Properties.                                                             *)

Main == {"wait", "copy", "scan", "handle", "broadcast", "join", "gone", "aborted"}
Client == {"start", "space", "writing", "ending", "input", "ended", "killed"}
Names == {NameOf[c] : c \in Clients}

Lengths == {LengthOf[kind] : kind \in Kind}

\* Every variable has its type; the semaphores are binary.
TypeOK ==
    /\ space \in 0..1 /\ data \in 0..1 /\ frame \in Frame \cup {NoFrame}
    /\ marks \subseteq Lengths
    /\ main \in Main /\ buf \in Frame \cup {NoFrame} /\ cut \in Lengths \cup {0}
    /\ probe \in {"watch", "reap", "off"} /\ clients_sem \in 0..1
    /\ members \subseteq Clients /\ retries \in [Clients -> 0..MAX_RETRY_COUNT]
    /\ outbox \in Seq(Frame) /\ todo \subseteq members
    /\ down \in [Clients -> Region] /\ told \in [Clients -> SUBSET Names]
    /\ segments \subseteq Clients
    /\ pc \in [Clients -> Client] /\ sending \in [Clients -> Frame \cup {NoFrame}]
    /\ receiver \in [Clients -> {"off", "wait", "scan", "show"}]
    /\ events \in 0..MaxEvents /\ shutdown \in [Process -> BOOLEAN]

Sending(c) == pc[c] \in {"writing", "ending"}

\* While a client writes the host's region, no other does and the host does not
\* copy it, whoever is killed or interrupted.
UplinkExclusive ==
    \A c \in Clients : Sending(c) =>
        /\ main # "copy" /\ data = 0 /\ space = 0
        /\ \A d \in Clients : Sending(d) => c = d

\* The host's region, from the end of a frame's writing to the end of its copying,
\* is a one-place exchange from clients to the host: a frame is never overwritten
\* before the host has copied it, copied twice, or copied in part.
Box == IF data = 1 \/ main = "copy" THEN frame ELSE NoFrame
Taken == [p \in Process |-> IF p = Host THEN buf ELSE NoFrame]
SideOf == [p \in Process |-> p = Host]
Uplink == INSTANCE Exchange WITH box <- Box, got <- Taken, Side <- SideOf
UplinkSpec == Uplink!Spec

\* The region of a client that listens is never lost: it is free, full or being
\* read, and only one of these, although the host gives up on it and tries again.
Tokens(c) == down[c].space + down[c].data + (IF receiver[c] = "scan" THEN 1 ELSE 0)
DownlinkSound == \A c \in Clients : receiver[c] # "off" => Tokens(c) = 1

\* Whenever the table is at rest, each member that answers has been told of its own
\* joining, and of nobody who is not there any more: leaving is announced, by
\* whomever it is noticed, to all who were told of the joining.
RosterCurrent ==
    clients_sem = 1 => \A d \in members : retries[d] = 0 =>
        NameOf[d] \in told[d] /\ told[d] \subseteq {NameOf[c] : c \in members}

\* The uplink's token is in a semaphore, with the host or with one client.
UplinkToken ==
    /\ UplinkExclusive
    /\ space = 0 \/ (data = 0 /\ main # "copy")
    /\ data = 0 \/ main # "copy"

\* What is about to be sent, copied or handled is a frame, under its sender's name.
InSend(c) == pc[c] \in {"space", "writing", "ending"}
FrameSound ==
    /\ \A c \in Clients : InSend(c) => sending[c] \in Frame /\ sending[c].from = c
    /\ \A c \in Clients : pc[c] = "ending" => frame = sending[c]
    /\ data = 1 \/ main = "copy" => frame \in Frame
    /\ main \in {"scan", "handle"} => buf \in Frame

\* A client's region is whole until its client ends; its receiving thread starts
\* after JOIN and ends with the client.
ListenerSound ==
    \A c \in Clients :
        /\ pc[c] \notin {"ended", "killed"} => Tokens(c) = 1
        /\ down[c].space = 0 \/ down[c].data = 0
        /\ receiver[c] # "off" => pc[c] \notin {"start", "ended", "killed"}
        /\ InSend(c) /\ sending[c].kind = "JOIN" => receiver[c] = "off"

\* One thread broadcasts at a time, only while it has frames to broadcast, and tries
\* members that have retries left.
BroadcastToken ==
    /\ clients_sem = 1 <=> outbox = <<>>
    /\ outbox = <<>> => todo = {}
    /\ main = "broadcast" \/ probe = "reap" => clients_sem = 0
    /\ clients_sem = 0 => main \in {"broadcast", "aborted"} \/ probe = "reap"
    /\ main = "broadcast" => probe # "reap"
    /\ main = "aborted" => probe = "off"
    /\ \A c \in todo : retries[c] < MAX_RETRY_COUNT

\* Where each of the three kinds of token is.
TokenInv == TypeOK /\ UplinkToken /\ FrameSound /\ ListenerSound /\ BroadcastToken

\* A client's JOIN on its way: still to be sent, in the host's region, or copied out.
JoinOf(c) == [kind |-> "JOIN", from |-> c]
JoinUnsent(c) == pc[c] = "start" \/ (InSend(c) /\ sending[c] = JoinOf(c))
JoinWaits(c) == (data = 1 \/ main = "copy") /\ frame = JoinOf(c)
JoinCopied(c) == main \in {"scan", "handle"} /\ buf = JoinOf(c)

\* It is in one place, and until it is handled the client is no member and was told
\* nothing; so nobody becomes a member with what it was told in another time.
JoinSound ==
    \A c \in Clients :
        /\ JoinUnsent(c) => ~JoinWaits(c) /\ ~JoinCopied(c)
        /\ JoinWaits(c) => ~JoinCopied(c)
        /\ JoinUnsent(c) \/ JoinWaits(c) \/ JoinCopied(c) => c \notin members /\ told[c] = {}

\* A name is there, or its leaving is still to be told to the member.
Present(name) == \E c \in members : NameOf[c] = name
LeaveLeft(d, name) ==
    \E i \in DOMAIN outbox :
        /\ outbox[i].kind = "LEAVE" /\ NameOf[outbox[i].from] = name
        /\ i = 1 => d \in todo

\* What is broadcast agrees with the table, and so does what a member knows, but for
\* what it is still to be told.
RosterSound ==
    /\ \A c, d \in members : NameOf[c] = NameOf[d] => c = d
    /\ \A i \in DOMAIN outbox :
          /\ outbox[i].kind = "JOIN" => outbox[i].from \in members
          /\ outbox[i].kind = "LEAVE" => ~Present(NameOf[outbox[i].from])
    /\ \A d \in members : retries[d] < MAX_RETRY_COUNT =>
          /\ NameOf[d] \in told[d] \/ (d \in todo /\ Head(outbox) = JoinOf(d))
          /\ \A name \in told[d] : Present(name) \/ LeaveLeft(d, name)

\* The inductive invariant.
IInv == TokenInv /\ JoinSound /\ RosterSound

\* Every broadcast ends and gives clients_sem back, although clients may be dead or
\* never read, unless the host has panicked.
BroadcastEnds == []<>(clients_sem = 1 \/ main = "aborted")

\* A client that three deliveries in a row could not reach does not stay in the table,
\* unless the host is told to end: until it leaves the table nothing resets its retries.
ZombieReaped == \A c \in Clients : []<>(c \notin Zombies \/ shutdown[Host] \/ main = "aborted")

\* The host handles each message as it was sent, however many clients send at once
\* (test_mychat_shmem_stress_concurrent_send.sh:2).
MessagesWhole == main = "handle" /\ buf.kind = "MSG" => Whole
=============================================================================

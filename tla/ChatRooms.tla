----------------------------- MODULE ChatRooms ------------------------------
(***************************************************************************)
(* A host and its clients are started in one mode (exp_3/mychat/main.zig); *)
(* the rooms over message queues and over FIFOs keep the same promise to   *)
(* their clients.  Variables that a mode does not use stay as they are.    *)
(***************************************************************************)
EXTENDS RoomFrames

VARIABLES
    mode,             \* the mode, "mq" or "fifo"
    uplink, held, main, buf, target, probe, clients_sem, members, retries, outbox, todo,
    queue, links, pc, name, receiver, seen, lines, shutdown, log

Mq == INSTANCE MqRoom
Fifo == INSTANCE FifoRoom

fifoOnly == <<held, target>>
mqOnly == <<probe, clients_sem, retries>>
vars == <<mode, Mq!vars, fifoOnly>>

Init ==
    /\ mode \in {"mq", "fifo"}
    /\ held = <<>> /\ target = Host
    /\ probe = "watch" /\ clients_sem = 1 /\ retries = [c \in Clients |-> 0]
    /\ IF mode = "mq" THEN Mq!Init ELSE Fifo!Init

RunMq == mode = "mq" /\ Mq!Next /\ UNCHANGED <<mode, fifoOnly>>
RunFifo == mode = "fifo" /\ Fifo!Next /\ UNCHANGED <<mode, mqOnly>>

Next == RunMq \/ RunFifo

Spec == Init /\ [][Next]_vars
-----------------------------------------------------------------------------
\* In either mode every variable has its type, no message queue exceeds its length and
\* no retry count its limit.
TypeOK == IF mode = "mq" THEN Mq!TypeOK ELSE Fifo!TypeOK

\* In either mode: what every step preserves.
IInv ==
    IF mode = "mq" THEN Mq!IInv /\ Mq!TurnsSound ELSE Fifo!IInv /\ Fifo!ReadersSound

\* In either mode, what each client was given, received or not, is one part of one
\* order of events that begins with its own joining: whoever is slow, killed, taken
\* for dead or has the name of another, no client misses a frame and gets a later one.
Given == [c \in Clients |-> seen[c] \o queue[c]]
R == INSTANCE Room WITH heard <- Given
RoomSpec == R!Spec

\* In either mode the table of clients agrees with the frames broadcast whenever it is
\* at rest, and members that answer were given all of them.
TableAnnounced == IF mode = "mq" THEN Mq!TableAnnounced ELSE Fifo!TableAnnounced

\* In either mode what the host waits for is there when there is something to do, over
\* FIFOs unless it opens the FIFO of a client that was killed.
HostServes == IF mode = "mq" THEN Mq!HostServes ELSE Fifo!HostServes

\* In either mode a host with something to do can do it: over message queues whatever
\* the clients do, over FIFOs unless it opens the FIFO of a client that was killed.
HostNeverStuck == IF mode = "mq" THEN Mq!HostNeverStuck ELSE Fifo!HostNeverStuck
=============================================================================

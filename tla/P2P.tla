-------------------------------- MODULE P2P ---------------------------------
(***************************************************************************)
(* mychat's peer-to-peer mode (exp_3/mychat/p2p.zig): a host and the       *)
(* clients that join it one after the other talk through one buffer in     *)
(* shared memory, guarded by five semaphores.  Every process has a main    *)
(* thread, which sends, and a receiving thread; a step here is a step of   *)
(* one thread between two semaphore operations.                            *)
(*                                                                         *)
(* Abstracted: the text of a frame (its kind and its sender are kept), the *)
(* printing of messages, and lines or names too long for a frame, which    *)
(* are dropped before anything is sent.                                    *)
(***************************************************************************)
EXTENDS Integers

CONSTANTS
    Clients,          \* the client processes
    Host,             \* the process that created the segment
    NoFrame,          \* the content of a buffer never written
    Interruptible     \* the processes that may be sent SIGINT

ASSUME ProcessAssumption == Host \notin Clients /\ Interruptible \subseteq Clients \cup {Host}

Process == Clients \cup {Host}
Role == {"host", "client"}
RoleOf == [p \in Process |-> IF p = Host THEN "host" ELSE "client"]
Opposite == [host |-> "client", client |-> "host"]

Kind == {"JOIN", "MSG", "LEAVE"}
Frame == [kind : Kind, from : Process]
ASSUME NoFrameAssumption == NoFrame \notin Frame

VARIABLES
    client_present,   \* semaphore: the place of the one client
    turnstile,        \* semaphore: the right to send
    empty,            \* semaphore: the buffer may be written
    full,             \* semaphores full_host and full_client
    data,             \* the frame in the buffer
    pc,               \* where the main thread of each process is
    sending,          \* the kind of frame the main thread is sending
    receiver,         \* where the receiving thread of each process is
    got,              \* the last frame each receiving thread copied out
    shutdown          \* g_shutdown of each process

sems == <<client_present, turnstile, empty, full>>
mains == <<pc, sending>>
vars == <<sems, data, mains, receiver, got, shutdown>>

Main == {"start",       \* not started
         "present",     \* waits for client_present
         "input",       \* waits for a line
         "turnstile",   \* p2pSend, waits for the turnstile
         "empty",       \* p2pSend, holds the turnstile, waits for empty
         "writing",     \* p2pSend, copies the frame into the buffer
         "release",     \* p2pSend, about to post the turnstile
         "detach",      \* has sent LEAVE, about to post client_present
         "exiting",     \* returns from run
         "gone",        \* has exited
         "aborted"}     \* has panicked
Receiver == {"off", "check", "wait", "reading"}

Running(p) == pc[p] \notin {"start", "gone", "aborted"}
Goto(p, place) == pc' = [pc EXCEPT ![p] = place]
ReceiverTo(p, place) == receiver' = [receiver EXCEPT ![p] = place]
Post(sem) == sem' = sem + 1
Wait(sem) == sem > 0 /\ sem' = sem - 1
-----------------------------------------------------------------------------
\* Faulty form: empty starts as if there were two buffers.
InitTwoBuffers ==
    /\ client_present = 1 /\ turnstile = 1 /\ empty = 2
    /\ full = [r \in Role |-> 0]
    /\ data = NoFrame
    /\ pc = [p \in Process |-> IF p = Host THEN "input" ELSE "start"]
    /\ sending = [p \in Process |-> "JOIN"]
    /\ receiver = [p \in Process |-> IF p = Host THEN "check" ELSE "off"]
    /\ got = [p \in Process |-> NoFrame]
    /\ shutdown = [p \in Process |-> FALSE]

\* The host has initialised the segment, started its receiving thread and
\* printed the segment's name.
Init ==
    /\ client_present = 1 /\ turnstile = 1 /\ empty = 1
    /\ full = [r \in Role |-> 0]
    /\ data = NoFrame
    /\ pc = [p \in Process |-> IF p = Host THEN "input" ELSE "start"]
    /\ sending = [p \in Process |-> "JOIN"]
    /\ receiver = [p \in Process |-> IF p = Host THEN "check" ELSE "off"]
    /\ got = [p \in Process |-> NoFrame]
    /\ shutdown = [p \in Process |-> FALSE]
-----------------------------------------------------------------------------
(* The main thread.                                                        *)

\* A client finds the segment as long as the host has not unlinked it; a host
\* that panicked leaves it behind.
Arrive(c) ==
    /\ pc[c] = "start" /\ pc[Host] # "gone"
    /\ Goto(c, "present")
    /\ UNCHANGED <<sems, data, sending, receiver, got, shutdown>>

\* Start sending a frame of a kind: p2pSend up to its first wait.
Send(p, kind) == Goto(p, "turnstile") /\ sending' = [sending EXCEPT ![p] = kind]

\* Faulty form: does not wait for the client before it.
AttachAnyway(c) ==
    /\ pc[c] = "present"
    /\ Send(c, "JOIN")
    /\ UNCHANGED <<sems, data, receiver, got, shutdown>>

Attach(c) ==
    /\ pc[c] = "present"
    /\ Wait(client_present)
    /\ Send(c, "JOIN")
    /\ UNCHANGED <<turnstile, empty, full, data, receiver, got, shutdown>>

\* sendLoop reads a line, or leaves: end of input, or g_shutdown is set.
TypeLine(p) ==
    /\ pc[p] = "input"
    /\ Send(p, "MSG")
    /\ UNCHANGED <<sems, data, receiver, got, shutdown>>

Quit(p) ==
    /\ pc[p] = "input"
    /\ Send(p, "LEAVE")
    /\ UNCHANGED <<sems, data, receiver, got, shutdown>>

EnterTurnstile(p) ==
    /\ pc[p] = "turnstile"
    /\ Wait(turnstile)
    /\ Goto(p, "empty")
    /\ UNCHANGED <<client_present, empty, full, data, sending, receiver, got, shutdown>>

TakeEmpty(p) ==
    /\ pc[p] = "empty"
    /\ Wait(empty)
    /\ Goto(p, "writing")
    /\ UNCHANGED <<client_present, turnstile, full, data, sending, receiver, got, shutdown>>

\* Faulty form: getFullSems gives a sender its own semaphore.
WriteFrameToSelf(p) ==
    /\ pc[p] = "writing"
    /\ data' = [kind |-> sending[p], from |-> p]
    /\ full' = [full EXCEPT ![RoleOf[p]] = @ + 1]
    /\ Goto(p, "release")
    /\ UNCHANGED <<client_present, turnstile, empty, sending, receiver, got, shutdown>>

WriteFrame(p) ==
    /\ pc[p] = "writing"
    /\ data' = [kind |-> sending[p], from |-> p]
    /\ full' = [full EXCEPT ![Opposite[RoleOf[p]]] = @ + 1]
    /\ Goto(p, "release")
    /\ UNCHANGED <<client_present, turnstile, empty, sending, receiver, got, shutdown>>

\* Where p2pSend returns to: after LEAVE the process ends, after JOIN a client
\* starts its receiving thread, and then sendLoop looks at g_shutdown.
AfterSend(p) ==
    /\ IF sending[p] = "LEAVE"
       THEN Goto(p, IF p = Host THEN "exiting" ELSE "detach") /\ UNCHANGED sending
       ELSE IF shutdown[p] THEN Send(p, "LEAVE")
       ELSE Goto(p, "input") /\ UNCHANGED sending
    /\ IF sending[p] = "JOIN" THEN ReceiverTo(p, "check") ELSE UNCHANGED receiver

\* Faulty form: a client told to shut down leaves without saying so.
ReleaseNoLeave(p) ==
    /\ pc[p] = "release"
    /\ Post(turnstile)
    /\ IF shutdown[p] /\ p # Host /\ sending[p] # "LEAVE"
       THEN Goto(p, "detach") /\ UNCHANGED <<sending, receiver>>
       ELSE AfterSend(p)
    /\ UNCHANGED <<client_present, empty, full, data, got, shutdown>>

Release(p) ==
    /\ pc[p] = "release"
    /\ Post(turnstile)
    /\ AfterSend(p)
    /\ UNCHANGED <<client_present, empty, full, data, got, shutdown>>

Detach(c) ==
    /\ pc[c] = "detach"
    /\ Post(client_present)
    /\ Goto(c, "exiting")
    /\ UNCHANGED <<turnstile, empty, full, data, sending, receiver, got, shutdown>>

\* The process ends, and its detached receiving thread with it, wherever it is.
Exit(p) ==
    /\ pc[p] = "exiting"
    /\ Goto(p, "gone")
    /\ ReceiverTo(p, "off")
    /\ UNCHANGED <<sems, data, sending, got, shutdown>>
-----------------------------------------------------------------------------
(* The receiving thread.                                                   *)

RecvCheck(p) ==
    /\ receiver[p] = "check"
    /\ ReceiverTo(p, IF shutdown[p] THEN "off" ELSE "wait")
    /\ UNCHANGED <<sems, data, mains, got, shutdown>>

\* Faulty form: a receiver takes its turn with the senders.
RecvWaitTurn(p) ==
    /\ receiver[p] = "wait" /\ turnstile > 0
    /\ full[RoleOf[p]] > 0
    /\ full' = [full EXCEPT ![RoleOf[p]] = @ - 1]
    /\ ReceiverTo(p, "reading")
    /\ UNCHANGED <<client_present, turnstile, empty, data, mains, got, shutdown>>

\* Faulty form: gives the buffer back before reading it.
RecvWaitPostFirst(p) ==
    /\ receiver[p] = "wait"
    /\ full[RoleOf[p]] > 0
    /\ full' = [full EXCEPT ![RoleOf[p]] = @ - 1]
    /\ Post(empty)
    /\ ReceiverTo(p, "reading")
    /\ UNCHANGED <<client_present, turnstile, data, mains, got, shutdown>>

RecvWait(p) ==
    /\ receiver[p] = "wait"
    /\ full[RoleOf[p]] > 0
    /\ full' = [full EXCEPT ![RoleOf[p]] = @ - 1]
    /\ ReceiverTo(p, "reading")
    /\ UNCHANGED <<client_present, turnstile, empty, data, mains, got, shutdown>>

RecvCopy(p) ==
    /\ receiver[p] = "reading"
    /\ got' = [got EXCEPT ![p] = data]
    /\ Post(empty)
    /\ ReceiverTo(p, "check")
    /\ UNCHANGED <<client_present, turnstile, full, data, mains, shutdown>>
-----------------------------------------------------------------------------
(* SIGINT, which the kernel gives to the main thread.                      *)

InSendWait(p) ==
    \/ pc[p] = "turnstile" /\ turnstile = 0
    \/ pc[p] = "empty" /\ empty = 0

\* A wait of p2pSend that is interrupted panics, and nothing it holds is
\* posted.  The wait for client_present just fails.  A thread that does not wait,
\* or not yet, only has its flag set.
Interrupt(p) ==
    /\ p \in Interruptible /\ Running(p)
    /\ \/ /\ InSendWait(p)
          /\ Goto(p, "aborted")
          /\ ReceiverTo(p, "off")
          /\ UNCHANGED shutdown
       \/ /\ pc[p] = "present" /\ client_present = 0
          /\ Goto(p, "gone")
          /\ UNCHANGED <<receiver, shutdown>>
       \/ /\ shutdown' = [shutdown EXCEPT ![p] = TRUE]
          /\ UNCHANGED <<pc, receiver>>
    /\ UNCHANGED <<sems, data, sending, got>>
-----------------------------------------------------------------------------
\* What a main thread does by itself, without its user.
MainStep(p) ==
    \/ EnterTurnstile(p) \/ TakeEmpty(p) \/ WriteFrame(p) \/ Release(p) \/ Exit(p)
ClientStep(c) == Attach(c) \/ Detach(c)
RecvStep(p) == RecvCheck(p) \/ RecvWait(p) \/ RecvCopy(p)
UserStep(p) == TypeLine(p) \/ Quit(p) \/ Interrupt(p)

Next ==
    \/ \E p \in Process : MainStep(p) \/ RecvStep(p) \/ UserStep(p)
    \/ \E c \in Clients : Arrive(c) \/ ClientStep(c)

\* Threads are scheduled; users need not type, quit or join.
Fairness ==
    /\ \A p \in Process : WF_vars(MainStep(p)) /\ WF_vars(RecvStep(p))
    /\ \A c \in Clients : WF_vars(ClientStep(c))

Spec == Init /\ [][Next]_vars /\ Fairness
-----------------------------------------------------------------------------
(* Properties.                                                             *)

\* Every variable has its type; the semaphores are binary.
TypeOK ==
    /\ client_present \in 0..1 /\ turnstile \in 0..1 /\ empty \in 0..1
    /\ full \in [Role -> 0..1]
    /\ data \in Frame \cup {NoFrame}
    /\ pc \in [Process -> Main] /\ sending \in [Process -> Kind]
    /\ receiver \in [Process -> Receiver]
    /\ got \in [Process -> Frame \cup {NoFrame}]
    /\ shutdown \in [Process -> BOOLEAN]

Writing(p) == pc[p] = "writing"
Reading(p) == receiver[p] = "reading"

\* While one thread copies the buffer in or out no other thread does, whatever
\* the threads' interleaving and whoever exits or is interrupted.
BufferExclusive ==
    \A p, q \in Process :
        /\ Writing(p) => ~Reading(q)
        /\ Writing(p) /\ Writing(q) => p = q
        /\ Reading(p) /\ Reading(q) => p = q

\* A client that is past client_present and has not given it back.
Attached(c) ==
    pc[c] \in {"input", "turnstile", "empty", "writing", "release", "detach"}

\* At most one client is attached (test_mychat_p2p_single_client.sh: the second
\* client blocks until the first disconnects).
OneClient == \A c, d \in Clients : Attached(c) /\ Attached(d) => c = d

\* What the host hears is one session after the other: a client's JOIN, its lines,
\* its LEAVE, and only then the next client's JOIN.
Over(f) == f = NoFrame \/ f.kind = "LEAVE"
Within(f, c) == f # NoFrame /\ f.from = c /\ f.kind # "LEAVE"
Follows(f, new) == IF new.kind = "JOIN" THEN Over(f) ELSE Within(f, new.from)
SessionsInOrder == [][got'[Host] # got[Host] => Follows(got[Host], got'[Host])]_vars

\* The frame that is in the buffer, from the end of its copying in to the end of
\* its copying out.
Box == IF empty = 1 \/ \E p \in Process : Writing(p) THEN NoFrame ELSE data

\* The buffer and its semaphores implement a one-place exchange: no frame is
\* overwritten unread, read twice, mixed with another or read by its own side.
E == INSTANCE Exchange WITH box <- Box, Side <- RoleOf
ExchangeSpec == E!Spec

\* A receiving thread that has no reason to stop.
Listens(p) == receiver[p] # "off" /\ ~shutdown[p] /\ pc[p] # "exiting"

\* The buffer went down with a process that ended while copying it out.
BufferLost ==
    /\ empty = 0 /\ full = [r \in Role |-> 0]
    /\ \A p \in Process : ~Writing(p) /\ ~Reading(p)
Conversation(c) == Listens(Host) /\ Listens(c) /\ Attached(c) /\ ~BufferLost
Conversing == \E c \in Clients : Conversation(c)

\* A frame is read, as long as the process it is for goes on listening, also
\* while that process's own main thread waits to send and whoever else panics.
FrameIsRead ==
    /\ (full["host"] = 1 /\ Listens(Host)) ~> (full["host"] = 0 \/ ~Listens(Host))
    /\ (full["client"] = 1 /\ Conversing) ~> (full["client"] = 0 \/ ~Conversing)

\* In a conversation a thread that holds the turnstile gets the buffer: both
\* sides may send at once and neither waits for the other for ever.
SenderGetsBuffer ==
    \A r \in Role :
        LET waits == \E p \in Process : RoleOf[p] = r /\ pc[p] = "empty"
        IN  (waits /\ Conversing) ~> ~(waits /\ Conversing)

\* While the host runs, whenever an attached client waits in p2pSend some thread
\* can move without its user (report.typ:199, the design avoids deadlock).
DeadlockFree ==
    (Running(Host) /\ \E c \in Clients : pc[c] \in {"turnstile", "empty"}) =>
        \/ \E p \in Process : ENABLED (MainStep(p) \/ RecvStep(p))
        \/ \E c \in Clients : ENABLED ClientStep(c)
-----------------------------------------------------------------------------
(* The inductive invariant.                                                *)

\* One token stands for the buffer: it is in empty, with a writer, in one of the
\* full semaphores, or with a reader, and never in two places.
BufferToken ==
    /\ empty = 1 => \A p \in Process : ~Writing(p) /\ ~Reading(p)
    /\ \A r \in Role : full[r] = 1 =>
          /\ empty = 0 /\ full[Opposite[r]] = 0
          /\ \A p \in Process : ~Writing(p) /\ ~Reading(p)
    /\ BufferExclusive

\* One token for the right to send, and one for the place of the client.
TurnstileToken ==
    \A p \in Process : pc[p] \in {"empty", "writing", "release"} =>
        /\ turnstile = 0
        /\ \A q \in Process : pc[q] \in {"empty", "writing", "release"} => p = q
PlaceToken ==
    /\ \A c \in Clients : Attached(c) => client_present = 0
    /\ OneClient

\* A frame that is full or being read came from the other side.
FrameAddressed ==
    /\ \A r \in Role : full[r] = 1 => data \in Frame /\ RoleOf[data.from] = Opposite[r]
    /\ \A p \in Process : Reading(p) => data \in Frame /\ RoleOf[data.from] # RoleOf[p]

\* Where the tokens are, whoever exits or panics in between.
TokenInv ==
    /\ TypeOK
    /\ BufferToken /\ TurnstileToken /\ PlaceToken /\ FrameAddressed
    /\ pc[Host] \notin {"start", "present", "detach"}

\* The last frame that was sent to the host.
Waiting == full["host"] = 1 \/ Reading(Host)
Last == IF Waiting THEN data ELSE got[Host]

\* The client's JOIN is still to be sent, or its LEAVE has been.
Outside(c) ==
    \/ pc[c] \in {"turnstile", "empty", "writing"} /\ sending[c] = "JOIN"
    \/ pc[c] = "release" /\ sending[c] = "LEAVE"
    \/ pc[c] = "detach"

\* As long as the host listens, the last frame sent to it tells whether there is a
\* session and whose it is: the attached client's from its JOIN to its LEAVE, nobody's
\* while the client's place is free.
SessionSound ==
    /\ pc[Host] \in {"turnstile", "empty", "writing", "release"} => sending[Host] # "JOIN"
    /\ receiver[Host] # "off" =>
        /\ Waiting => Follows(got[Host], data)
        /\ client_present = 1 => Over(Last)
        /\ \A c \in Clients : Attached(c) =>
              IF Outside(c) THEN Over(Last) ELSE Within(Last, c)

\* What every step preserves.
IInv == TokenInv /\ SessionSound
=============================================================================

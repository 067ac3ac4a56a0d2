--------------------------- MODULE ChatRoomsProofs ---------------------------
(***************************************************************************)
(* The theorems of the two rooms hold of the rooms together, in the mode   *)
(* that host and clients were started in.  The theorems come with an       *)
(* instance of each room of their own, so that this module first says that *)
(* it is the instance of ChatRooms.                                        *)
(***************************************************************************)
EXTENDS ChatRooms, TLAPS

MqP == INSTANCE MqRoomProofs
FifoP == INSTANCE FifoRoomProofs

\* The room over message queues is the one that the theorems are about.  These assume of the
\* constants what is assumed here.
LEMMA MqSameAssumptions == MqP!ProcessAssumption /\ MqP!BoundAssumption
  BY ProcessAssumption, BoundAssumption
     DEF MqP!ProcessAssumption, MqP!BoundAssumption, MqP!Process, Process, MqP!IsFiniteSet,
        IsFiniteSet

\* The initial states are the same.
LEMMA MqSameInit == Mq!Init <=> MqP!Init
  BY DEF Mq!Init, MqP!Init, Mq!Process, MqP!Process

\* The inductive invariant is the same.
LEMMA MqSameIInv == Mq!IInv <=> MqP!IInv
  BY DEF Mq!IInv, MqP!IInv, Mq!TypeOK, MqP!TypeOK, Mq!NamesSound, MqP!NamesSound,
     Mq!JoinsOnce, MqP!JoinsOnce, Mq!BroadcastSound, MqP!BroadcastSound, Mq!TableSound,
     MqP!TableSound, Mq!UpToDate, MqP!UpToDate, Mq!Given, MqP!Given, Mq!Genuine,
     MqP!Genuine, Mq!Unannounced, MqP!Unannounced, Mq!JoinHandled, MqP!JoinHandled, Mq!Main,
     MqP!Main, Mq!Client, MqP!Client, Mq!MAX_RETRY_COUNT, MqP!MAX_RETRY_COUNT, Mq!Kind,
     MqP!Kind, Mq!Process, MqP!Process, Mq!Frame, MqP!Frame, Mq!Joins, MqP!Joins,
     Mq!Present, MqP!Present

\* So is what is said of turns, and what of the host's waiting.
LEMMA MqSameTurns == Mq!TurnsSound <=> MqP!TurnsSound
  BY DEF Mq!TurnsSound, MqP!TurnsSound, Mq!MAX_RETRY_COUNT, MqP!MAX_RETRY_COUNT

LEMMA MqSameServes == Mq!HostServes <=> MqP!HostServes
  BY DEF Mq!HostServes, MqP!HostServes, Mq!SendWaits, MqP!SendWaits, Mq!HostReady,
     MqP!HostReady, Mq!Turn, MqP!Turn, Mq!Zombies, MqP!Zombies, Mq!MAX_RETRY_COUNT,
     MqP!MAX_RETRY_COUNT

\* What the table promises is the same.
LEMMA MqSameTable == Mq!TableAnnounced <=> MqP!TableAnnounced
  BY DEF Mq!TableAnnounced, MqP!TableAnnounced, Mq!Present, MqP!Present, Mq!Last, MqP!Last

\* A step of the room over message queues is one of the room that the theorems are about.
LEMMA MqSameNext == Mq!Next <=> MqP!Next
<1> USE DEF Mq!host, MqP!host, Mq!table, MqP!table, Mq!delivery, MqP!delivery, Mq!inbox,
       MqP!inbox, Mq!client, MqP!client, Mq!vars, MqP!vars, Mq!Goto, MqP!Goto, Mq!Wait,
       MqP!Wait, Mq!Post, MqP!Post, Mq!FrameOf, MqP!FrameOf, Mq!Open, MqP!Open, Mq!Listen,
       MqP!Listen, Mq!NextInput, MqP!NextInput, Mq!Answering, MqP!Answering, Mq!Broadcast,
       MqP!Broadcast, Mq!Turn, MqP!Turn, Mq!Reachable, MqP!Reachable, Mq!NextRound,
       MqP!NextRound, Mq!Named, MqP!Named, Mq!Zombies, MqP!Zombies, Mq!Flag, MqP!Flag,
       Mq!MAX_RETRY_COUNT, MqP!MAX_RETRY_COUNT, Mq!Process, MqP!Process, Mq!Kind, MqP!Kind,
       Mq!Frame, MqP!Frame, Mq!Joins, MqP!Joins, Mq!Present, MqP!Present, Mq!SetToSeqs,
       MqP!SetToSeqs, Mq!Cardinality, MqP!Cardinality
<1>1. \A c \in Clients : Mq!Start(c) <=> MqP!Start(c)
  BY DEF Mq!Start, MqP!Start
<1>2. \A c \in Clients : Mq!TypeLine(c) <=> MqP!TypeLine(c)
  BY DEF Mq!TypeLine, MqP!TypeLine
<1>3. \A c \in Clients : Mq!Quit(c) <=> MqP!Quit(c)
  BY DEF Mq!Quit, MqP!Quit
<1>4. \A c \in Clients : Mq!SendJoin(c) <=> MqP!SendJoin(c)
  BY DEF Mq!SendJoin, MqP!SendJoin
<1>5. \A c \in Clients : Mq!SendMsg(c) <=> MqP!SendMsg(c)
  BY DEF Mq!SendMsg, MqP!SendMsg
<1>6. \A c \in Clients : Mq!SendLeave(c) <=> MqP!SendLeave(c)
  BY DEF Mq!SendLeave, MqP!SendLeave
<1>7. \A c \in Clients : Mq!Unlink(c) <=> MqP!Unlink(c)
  BY DEF Mq!Unlink, MqP!Unlink
<1>8. \A c \in Clients : Mq!Receive(c) <=> MqP!Receive(c)
  BY DEF Mq!Receive, MqP!Receive
<1>9. \A c \in Clients : Mq!Deliver(c) <=> MqP!Deliver(c)
  BY DEF Mq!Deliver, MqP!Deliver
<1>10. \A c \in Clients : Mq!Fail(c) <=> MqP!Fail(c)
  BY DEF Mq!Fail, MqP!Fail
<1>11. Mq!NextFrame <=> MqP!NextFrame
  BY DEF Mq!NextFrame, MqP!NextFrame
<1>12. Mq!HostReceive <=> MqP!HostReceive
  BY DEF Mq!HostReceive, MqP!HostReceive
<1>13. Mq!IgnoreFrame <=> MqP!IgnoreFrame
  BY DEF Mq!IgnoreFrame, MqP!IgnoreFrame
<1>14. Mq!HandleJoin <=> MqP!HandleJoin
  BY DEF Mq!HandleJoin, MqP!HandleJoin
<1>15. Mq!HandleMsg <=> MqP!HandleMsg
  BY DEF Mq!HandleMsg, MqP!HandleMsg
<1>16. Mq!HandleLeave <=> MqP!HandleLeave
  BY DEF Mq!HandleLeave, MqP!HandleLeave
<1>17. Mq!HostEnd <=> MqP!HostEnd
  BY DEF Mq!HostEnd, MqP!HostEnd
<1>18. Mq!Reap <=> MqP!Reap
  BY DEF Mq!Reap, MqP!Reap
<1>19. Mq!ProbeStop <=> MqP!ProbeStop
  BY DEF Mq!ProbeStop, MqP!ProbeStop
<1>20. \A c \in Clients : Mq!InterruptClient(c) <=> MqP!InterruptClient(c)
  BY DEF Mq!InterruptClient, MqP!InterruptClient
<1>21. Mq!InterruptHost <=> MqP!InterruptHost
  BY DEF Mq!InterruptHost, MqP!InterruptHost
<1>22. \A c \in Clients : Mq!Kill(c) <=> MqP!Kill(c)
  BY DEF Mq!Kill, MqP!Kill
<1> QED
  BY <1>1, <1>2, <1>3, <1>4, <1>5, <1>6, <1>7, <1>8, <1>9, <1>10, <1>11, <1>12, <1>13,
     <1>14, <1>15, <1>16, <1>17, <1>18, <1>19, <1>20, <1>21, <1>22
     DEF Mq!BroadcastStep, MqP!BroadcastStep, Mq!MainStep, MqP!MainStep, Mq!ProbeStep,
        MqP!ProbeStep, Mq!SendStep, MqP!SendStep, Mq!UserStep, MqP!UserStep, Mq!SignalStep,
        MqP!SignalStep, Mq!Next, MqP!Next
-----------------------------------------------------------------------------
\* The room over FIFOs is the one that the theorems are about.  These assume of the
\* constants what is assumed here.
LEMMA FifoSameAssumptions == FifoP!ProcessAssumption /\ FifoP!BoundAssumption
  BY ProcessAssumption, BoundAssumption
     DEF FifoP!ProcessAssumption, FifoP!BoundAssumption, FifoP!Process, Process,
        FifoP!IsFiniteSet,
        IsFiniteSet

\* The initial states are the same.
LEMMA FifoSameInit == Fifo!Init <=> FifoP!Init
  BY DEF Fifo!Init, FifoP!Init, Fifo!Process, FifoP!Process

\* The inductive invariant is the same.
LEMMA FifoSameIInv == Fifo!IInv <=> FifoP!IInv
  BY DEF Fifo!IInv, FifoP!IInv, Fifo!TypeOK, FifoP!TypeOK, Fifo!NamesSound,
     FifoP!NamesSound, Fifo!JoinsOnce, FifoP!JoinsOnce, Fifo!BroadcastSound,
     FifoP!BroadcastSound, Fifo!EndsSound, FifoP!EndsSound, Fifo!TableSound,
     FifoP!TableSound, Fifo!UpToDate, FifoP!UpToDate, Fifo!Given, FifoP!Given, Fifo!Genuine,
     FifoP!Genuine, Fifo!Unannounced, FifoP!Unannounced, Fifo!JoinHandled,
     FifoP!JoinHandled, Fifo!Ended, FifoP!Ended, Fifo!HasReader, FifoP!HasReader, Fifo!Main,
     FifoP!Main, Fifo!Client, FifoP!Client, Fifo!Kind, FifoP!Kind, Fifo!Process,
     FifoP!Process, Fifo!Frame, FifoP!Frame, Fifo!Joins, FifoP!Joins, Fifo!Present,
     FifoP!Present

\* So is what is said of readers, and what of the host's waiting.
LEMMA FifoSameReaders == Fifo!ReadersSound <=> FifoP!ReadersSound
  BY DEF Fifo!ReadersSound, FifoP!ReadersSound, Fifo!HasReader, FifoP!HasReader

LEMMA FifoSameServes == Fifo!HostServes <=> FifoP!HostServes
  BY DEF Fifo!HostServes, FifoP!HostServes, Fifo!OpenWaits, FifoP!OpenWaits,
     Fifo!HasReader, FifoP!HasReader

\* What the table promises is the same.
LEMMA FifoSameTable == Fifo!TableAnnounced <=> FifoP!TableAnnounced
  BY DEF Fifo!TableAnnounced, FifoP!TableAnnounced, Fifo!Present, FifoP!Present, Fifo!Last,
     FifoP!Last, Fifo!Zombies, FifoP!Zombies, Fifo!HasReader, FifoP!HasReader

\* A step of the room over FIFOs is one of the room that the theorems are about.
LEMMA FifoSameNext == Fifo!Next <=> FifoP!Next
<1> USE DEF Fifo!host, FifoP!host, Fifo!delivery, FifoP!delivery, Fifo!inbox, FifoP!inbox,
       Fifo!client, FifoP!client, Fifo!vars, FifoP!vars, Fifo!Goto, FifoP!Goto,
       Fifo!FrameOf, FifoP!FrameOf, Fifo!WriteUp, FifoP!WriteUp, Fifo!InputOrLeave,
       FifoP!InputOrLeave, Fifo!HasReader, FifoP!HasReader, Fifo!NextRound, FifoP!NextRound,
       Fifo!Broadcast, FifoP!Broadcast, Fifo!DoneWithTarget, FifoP!DoneWithTarget,
       Fifo!Named, FifoP!Named, Fifo!Zombies, FifoP!Zombies, Fifo!Process, FifoP!Process,
       Fifo!Kind, FifoP!Kind, Fifo!Frame, FifoP!Frame, Fifo!Joins, FifoP!Joins,
       Fifo!Present, FifoP!Present, Fifo!SetToSeqs, FifoP!SetToSeqs, Fifo!Cardinality,
       FifoP!Cardinality, Process
<1>1. \A c \in Clients : Fifo!Start(c) <=> FifoP!Start(c)
  BY DEF Fifo!Start, FifoP!Start
<1>2. \A c \in Clients : Fifo!SendJoin(c) <=> FifoP!SendJoin(c)
  BY DEF Fifo!SendJoin, FifoP!SendJoin
<1>3. \A c \in Clients : Fifo!OpenFifo(c) <=> FifoP!OpenFifo(c)
  BY DEF Fifo!OpenFifo, FifoP!OpenFifo
<1>4. \A c \in Clients : Fifo!TypeLine(c) <=> FifoP!TypeLine(c)
  BY DEF Fifo!TypeLine, FifoP!TypeLine
<1>5. \A c \in Clients : Fifo!SendMsg(c) <=> FifoP!SendMsg(c)
  BY DEF Fifo!SendMsg, FifoP!SendMsg
<1>6. \A c \in Clients : Fifo!Quit(c) <=> FifoP!Quit(c)
  BY DEF Fifo!Quit, FifoP!Quit
<1>7. \A c \in Clients : Fifo!SendLeave(c) <=> FifoP!SendLeave(c)
  BY DEF Fifo!SendLeave, FifoP!SendLeave
<1>8. \A c \in Clients : Fifo!Unlink(c) <=> FifoP!Unlink(c)
  BY DEF Fifo!Unlink, FifoP!Unlink
<1>9. \A c \in Clients : Fifo!Receive(c) <=> FifoP!Receive(c)
  BY DEF Fifo!Receive, FifoP!Receive
<1>10. Fifo!NextClient <=> FifoP!NextClient
  BY DEF Fifo!NextClient, FifoP!NextClient
<1>11. Fifo!OpenData <=> FifoP!OpenData
  BY DEF Fifo!OpenData, FifoP!OpenData
<1>12. Fifo!WriteData <=> FifoP!WriteData
  BY DEF Fifo!WriteData, FifoP!WriteData
<1>13. Fifo!NextFrame <=> FifoP!NextFrame
  BY DEF Fifo!NextFrame, FifoP!NextFrame
<1>14. Fifo!HostRead <=> FifoP!HostRead
  BY DEF Fifo!HostRead, FifoP!HostRead
<1>15. Fifo!IgnoreFrame <=> FifoP!IgnoreFrame
  BY DEF Fifo!IgnoreFrame, FifoP!IgnoreFrame
<1>16. Fifo!HandleFrame <=> FifoP!HandleFrame
  BY DEF Fifo!HandleFrame, FifoP!HandleFrame
<1>17. Fifo!Probe <=> FifoP!Probe
  BY DEF Fifo!Probe, FifoP!Probe
<1>18. Fifo!HostEnd <=> FifoP!HostEnd
  BY DEF Fifo!HostEnd, FifoP!HostEnd
<1>19. \A p \in Process : Fifo!Interrupt(p) <=> FifoP!Interrupt(p)
  BY DEF Fifo!Interrupt, FifoP!Interrupt
<1>20. \A c \in Clients : Fifo!Kill(c) <=> FifoP!Kill(c)
  BY DEF Fifo!Kill, FifoP!Kill
<1> QED
  BY <1>1, <1>2, <1>3, <1>4, <1>5, <1>6, <1>7, <1>8, <1>9, <1>10, <1>11, <1>12, <1>13,
     <1>14, <1>15, <1>16, <1>17, <1>18, <1>19, <1>20
     DEF Fifo!HostStep, FifoP!HostStep, Fifo!SendStep, FifoP!SendStep, Fifo!UserStep,
        FifoP!UserStep, Fifo!Next, FifoP!Next
-----------------------------------------------------------------------------
\* The invariant holds initially, in either mode.
LEMMA InitIInv == Init => IInv
<1> SUFFICES ASSUME Init PROVE IInv
  OBVIOUS
<1>1. CASE mode = "mq"
  BY <1>1, MqSameAssumptions, MqSameInit, MqSameIInv, MqSameTurns, MqP!InitIInv,
     MqP!InitTurns DEF Init, IInv
<1>2. CASE mode = "fifo"
  BY <1>2, FifoSameAssumptions, FifoSameInit, FifoSameIInv, FifoSameReaders,
     FifoP!InitIInv, FifoP!InitReaders DEF Init, IInv
<1> QED
  BY <1>1, <1>2 DEF Init

\* A step in either mode, and a step that changes nothing, preserves it.
LEMMA NextIInv ==
    ASSUME IInv, Next
    PROVE  IInv'
<1>1. CASE RunMq
  <2>1. MqP!IInv' /\ MqP!TurnsSound'
    BY <1>1, MqSameAssumptions, MqSameNext, MqSameIInv, MqSameTurns, MqP!NextIInv,
       MqP!NextTurns DEF RunMq, IInv
  <2>2. Mq!IInv' /\ Mq!TurnsSound'
    BY <2>1, MqSameIInv, MqSameTurns, PTL
  <2> QED
    BY <1>1, <2>2 DEF RunMq, IInv
<1>2. CASE RunFifo
  <2>1. FifoP!IInv' /\ FifoP!ReadersSound'
    BY <1>2, FifoSameAssumptions, FifoSameNext, FifoSameIInv, FifoSameReaders,
       FifoP!NextIInv, FifoP!NextReaders DEF RunFifo, IInv
  <2>2. Fifo!IInv' /\ Fifo!ReadersSound'
    BY <2>1, FifoSameIInv, FifoSameReaders, PTL
  <2> QED
    BY <1>2, <2>2 DEF RunFifo, IInv
<1> QED
  BY <1>1, <1>2 DEF Next

\* So does a step that changes nothing.
LEMMA StutterIInv ==
    ASSUME IInv, UNCHANGED vars
    PROVE  IInv'
<1>1. mode' = mode /\ UNCHANGED Mq!vars /\ UNCHANGED fifoOnly
  BY DEF vars
<1>2. CASE mode = "mq"
  <2>1. UNCHANGED MqP!vars
    BY <1>1 DEF Mq!vars, MqP!vars, Mq!host, MqP!host, Mq!table, MqP!table,
       Mq!delivery, MqP!delivery, Mq!inbox, MqP!inbox, Mq!client, MqP!client
  <2>2. MqP!IInv' /\ MqP!TurnsSound'
    BY <1>2, <2>1, MqSameAssumptions, MqSameIInv, MqSameTurns, MqP!StutterIInv,
       MqP!StutterTurns DEF IInv
  <2>3. Mq!IInv' /\ Mq!TurnsSound'
    BY <2>2, MqSameIInv, MqSameTurns, PTL
  <2> QED
    BY <1>1, <1>2, <2>3 DEF IInv
<1>3. CASE mode # "mq"
  <2>1. UNCHANGED FifoP!vars
    BY <1>1 DEF fifoOnly, Mq!vars, FifoP!vars, Mq!host, FifoP!host, Mq!table,
       Mq!delivery, FifoP!delivery, Mq!inbox, FifoP!inbox, Mq!client, FifoP!client
  <2>2. FifoP!IInv' /\ FifoP!ReadersSound'
    BY <1>3, <2>1, FifoSameAssumptions, FifoSameIInv, FifoSameReaders,
       FifoP!StutterIInv, FifoP!StutterReaders DEF IInv
  <2>3. Fifo!IInv' /\ Fifo!ReadersSound'
    BY <2>2, FifoSameIInv, FifoSameReaders, PTL
  <2> QED
    BY <1>1, <1>3, <2>3 DEF IInv
<1> QED
  BY <1>2, <1>3

\* In either mode, what every step of the room preserves holds always.
THEOREM Invariance == Spec => []IInv
<1>1. IInv /\ [Next]_vars => IInv'
  BY NextIInv, StutterIInv
<1> QED
  BY InitIInv, <1>1, PTL DEF Spec

\* In either mode every variable has its type always, no message queue exceeds its length
\* and no retry count its limit.
THEOREM TypeCorrect == Spec => []TypeOK
<1>1. IInv => TypeOK
  BY DEF IInv, TypeOK, Mq!IInv, Fifo!IInv
<1> QED
  BY Invariance, <1>1, PTL

\* In either mode the table agrees with the frames broadcast whenever it is at rest, and
\* members that answer were given all of them.
THEOREM TableCorrect == Spec => []TableAnnounced
<1>1. IInv => TableAnnounced
  <2>1. CASE mode = "mq"
    BY <2>1, MqSameAssumptions, MqSameIInv, MqSameTable, MqP!RestAnnounced
       DEF IInv, TableAnnounced
  <2>2. CASE mode # "mq"
    BY <2>2, FifoSameAssumptions, FifoSameIInv, FifoSameTable, FifoP!RestAnnounced
       DEF IInv, TableAnnounced
  <2> QED
    BY <2>1, <2>2
<1> QED
  BY Invariance, <1>1, PTL

\* In either mode the host waits for no client but, over FIFOs, one that is about to open
\* its own or that was killed.
THEOREM HostWaitsForNobody == Spec => []HostServes
<1>1. IInv => HostServes
  <2>1. CASE mode = "mq"
    BY <2>1, MqSameAssumptions, MqSameIInv, MqSameTurns, MqSameServes, MqP!HostIsReady
       DEF IInv, HostServes
  <2>2. CASE mode # "mq"
    BY <2>2, FifoSameAssumptions, FifoSameIInv, FifoSameReaders, FifoSameServes,
       FifoP!HostIsReady DEF IInv, HostServes
  <2> QED
    BY <2>1, <2>2
<1> QED
  BY Invariance, <1>1, PTL
-----------------------------------------------------------------------------
(* Both rooms keep the promise of Room.                                    *)

\* A step in either mode announces a frame, gives a client its next, or does neither.
LEMMA StepImplements ==
    ASSUME IInv, Next
    PROVE  R!Next \/ UNCHANGED <<log, Given>>
<1>1. CASE RunMq
  <2>1. MqP!R!Next \/ UNCHANGED <<log, [c \in Clients |-> MqP!Given(c)]>>
    BY <1>1, MqSameAssumptions, MqSameNext, MqSameIInv, MqP!StepImplements DEF RunMq, IInv
  <2> QED
    BY <2>1 DEF Given, MqP!Given, MqP!R!Next, R!Next, MqP!R!Announce, R!Announce,
       MqP!R!Hear,
       R!Hear, MqP!R!JoinsAt, R!JoinsAt, MqP!Frame, Frame, MqP!Kind, Kind
<1>2. CASE RunFifo
  <2>1. FifoP!R!Next \/ UNCHANGED <<log, [c \in Clients |-> FifoP!Given(c)]>>
    BY <1>2, FifoSameAssumptions, FifoSameNext, FifoSameIInv, FifoP!StepImplements
       DEF RunFifo, IInv
  <2> QED
    BY <2>1 DEF Given, FifoP!Given, FifoP!R!Next, R!Next, FifoP!R!Announce, R!Announce,
       FifoP!R!Hear, R!Hear, FifoP!R!JoinsAt, R!JoinsAt, FifoP!Frame, Frame, FifoP!Kind, Kind
<1> QED
  BY <1>1, <1>2 DEF Next

\* In either mode the announcements are one order of events, and each client is given them
\* one by one from its own joining on.
THEOREM ImplementsRoom == Spec => RoomSpec
<1>1. Init => R!Init
  BY DEF Init, R!Init, Given, Mq!Init, Fifo!Init
<1>2. IInv /\ [Next]_vars => [R!Next]_<<log, Given>>
  <2>1. ASSUME UNCHANGED vars PROVE UNCHANGED <<log, Given>>
    BY <2>1 DEF vars, Mq!vars, Mq!delivery, Mq!inbox, Given
  <2> QED
    BY <2>1, StepImplements
<1> QED
  BY Invariance, <1>1, <1>2, PTL DEF Spec, RoomSpec, R!Spec
=============================================================================

----------------------------- MODULE P2PProofs ------------------------------
(***************************************************************************)
(* Theorems of P2P, for every set of clients and whoever is interrupted.   *)
(* TokenInv is inductive; mutual exclusion and the single client are parts *)
(* of it, and it is what a step of P2P needs to be a step of Exchange.     *)
(* With SessionSound it gives the order of sessions.                       *)
(***************************************************************************)
EXTENDS P2P, TLAPS

\* The roles: the host has one, every client the other, and each is opposite to the
\* other.
LEMMA Roles ==
    /\ RoleOf \in [Process -> Role] /\ Opposite \in [Role -> Role]
    /\ \A r, s \in Role : r # s <=> s = Opposite[r]
    /\ \A r \in Role : Opposite[Opposite[r]] = r
    /\ Host \in Process /\ Clients \subseteq Process
  BY DEF RoleOf, Role, Opposite, Process

\* A full semaphore is 0 or 1, and only one of them is 1.
LEMMA FullIsBinary ==
    ASSUME TokenInv
    PROVE  /\ \A r \in Role : full[r] = 0 \/ full[r] = 1
           /\ \A r, s \in Role : r # s /\ full[r] = 1 => full[s] = 0
<1>1. \A r \in Role : full[r] \in 0..1
  BY DEF TokenInv, TypeOK
<1>2. \A r, s \in Role : r # s => s = Opposite[r]
  BY Roles
<1> QED
  BY <1>1, <1>2 DEF TokenInv, BufferToken

\* Initially the buffer's token is in empty and nobody sends or is attached.
LEMMA InitTokenInv == Init => TokenInv
<1> SUFFICES ASSUME Init PROVE TokenInv
  OBVIOUS
<1> USE Roles DEF Init
<1>1. TypeOK
  BY DEF TypeOK, Main, Receiver, Kind
<1>2. BufferToken
  BY DEF BufferToken, BufferExclusive, Writing, Reading
<1>3. TurnstileToken
  BY DEF TurnstileToken
<1>4. PlaceToken
  BY ProcessAssumption DEF PlaceToken, OneClient, Attached
<1>5. FrameAddressed
  BY DEF FrameAddressed, Reading
<1> QED
  BY <1>1, <1>2, <1>3, <1>4, <1>5 DEF TokenInv

\* A client that starts holds nothing.
LEMMA ArriveTokenInv ==
    ASSUME TokenInv, NEW c \in Clients, Arrive(c)
    PROVE  TokenInv'
<1> USE Roles, ProcessAssumption DEF Arrive, TokenInv, Goto, sems
<1>1. TypeOK'
  BY DEF TypeOK, Main, Receiver, Kind, Frame
<1>2. BufferToken'
  BY DEF TypeOK, BufferToken, BufferExclusive, Writing, Reading
<1>3. TurnstileToken'
  BY DEF TypeOK, TurnstileToken
<1>4. PlaceToken'
  BY DEF TypeOK, PlaceToken, OneClient, Attached
<1>5. FrameAddressed'
  BY DEF TypeOK, FrameAddressed, Reading, Frame
<1>6. (pc[Host] \notin {"start", "present", "detach"})'
  BY DEF TypeOK
<1> QED
  BY <1>1, <1>2, <1>3, <1>4, <1>5, <1>6

\* The client that gets the place finds it free, so nobody else is attached.
LEMMA AttachTokenInv ==
    ASSUME TokenInv, NEW c \in Clients, Attach(c)
    PROVE  TokenInv'
<1> USE Roles, ProcessAssumption DEF Attach, TokenInv, Wait, Send, Goto
<1>1. TypeOK'
  BY DEF TypeOK, Main, Receiver, Kind, Frame
<1>2. BufferToken'
  BY DEF TypeOK, BufferToken, BufferExclusive, Writing, Reading
<1>3. TurnstileToken'
  BY DEF TypeOK, TurnstileToken
<1>4. PlaceToken'
  BY DEF TypeOK, PlaceToken, OneClient, Attached
<1>5. FrameAddressed'
  BY DEF TypeOK, FrameAddressed, Reading, Frame
<1>6. (pc[Host] \notin {"start", "present", "detach"})'
  BY DEF TypeOK
<1> QED
  BY <1>1, <1>2, <1>3, <1>4, <1>5, <1>6

\* Between two sends a thread holds no token.
LEMMA TypeLineTokenInv ==
    ASSUME TokenInv, NEW p \in Process, TypeLine(p)
    PROVE  TokenInv'
<1> USE Roles, ProcessAssumption DEF TypeLine, TokenInv, Send, Goto, sems
<1>1. TypeOK'
  BY DEF TypeOK, Main, Receiver, Kind, Frame
<1>2. BufferToken'
  BY DEF TypeOK, BufferToken, BufferExclusive, Writing, Reading
<1>3. TurnstileToken'
  BY DEF TypeOK, TurnstileToken
<1>4. PlaceToken'
  BY DEF TypeOK, PlaceToken, OneClient, Attached
<1>5. FrameAddressed'
  BY DEF TypeOK, FrameAddressed, Reading, Frame
<1>6. (pc[Host] \notin {"start", "present", "detach"})'
  BY DEF TypeOK
<1> QED
  BY <1>1, <1>2, <1>3, <1>4, <1>5, <1>6

\* Between two sends a thread holds no token.
LEMMA QuitTokenInv ==
    ASSUME TokenInv, NEW p \in Process, Quit(p)
    PROVE  TokenInv'
<1> USE Roles, ProcessAssumption DEF Quit, TokenInv, Send, Goto, sems
<1>1. TypeOK'
  BY DEF TypeOK, Main, Receiver, Kind, Frame
<1>2. BufferToken'
  BY DEF TypeOK, BufferToken, BufferExclusive, Writing, Reading
<1>3. TurnstileToken'
  BY DEF TypeOK, TurnstileToken
<1>4. PlaceToken'
  BY DEF TypeOK, PlaceToken, OneClient, Attached
<1>5. FrameAddressed'
  BY DEF TypeOK, FrameAddressed, Reading, Frame
<1>6. (pc[Host] \notin {"start", "present", "detach"})'
  BY DEF TypeOK
<1> QED
  BY <1>1, <1>2, <1>3, <1>4, <1>5, <1>6

\* The turnstile's token goes to the thread that enters.
LEMMA EnterTurnstileTokenInv ==
    ASSUME TokenInv, NEW p \in Process, EnterTurnstile(p)
    PROVE  TokenInv'
<1> USE Roles, ProcessAssumption DEF EnterTurnstile, TokenInv, Wait, Goto
<1>1. TypeOK'
  BY DEF TypeOK, Main, Receiver, Kind, Frame
<1>2. BufferToken'
  BY DEF TypeOK, BufferToken, BufferExclusive, Writing, Reading
<1>3. TurnstileToken'
  BY DEF TypeOK, TurnstileToken
<1>4. PlaceToken'
  BY DEF TypeOK, PlaceToken, OneClient, Attached
<1>5. FrameAddressed'
  BY DEF TypeOK, FrameAddressed, Reading, Frame
<1>6. (pc[Host] \notin {"start", "present", "detach"})'
  BY DEF TypeOK
<1> QED
  BY <1>1, <1>2, <1>3, <1>4, <1>5, <1>6

\* The buffer's token goes from empty to the writer.
LEMMA TakeEmptyTokenInv ==
    ASSUME TokenInv, NEW p \in Process, TakeEmpty(p)
    PROVE  TokenInv'
<1> USE Roles, ProcessAssumption DEF TakeEmpty, TokenInv, Wait, Goto
<1>1. TypeOK'
  BY DEF TypeOK, Main, Receiver, Kind, Frame
<1>2. BufferToken'
  BY DEF TypeOK, BufferToken, BufferExclusive, Writing, Reading
<1>3. TurnstileToken'
  BY DEF TypeOK, TurnstileToken
<1>4. PlaceToken'
  BY DEF TypeOK, PlaceToken, OneClient, Attached
<1>5. FrameAddressed'
  BY DEF TypeOK, FrameAddressed, Reading, Frame
<1>6. (pc[Host] \notin {"start", "present", "detach"})'
  BY DEF TypeOK
<1> QED
  BY <1>1, <1>2, <1>3, <1>4, <1>5, <1>6

\* The buffer's token goes from the writer to the other side's full.
LEMMA WriteFrameTokenInv ==
    ASSUME TokenInv, NEW p \in Process, WriteFrame(p)
    PROVE  TokenInv'
<1> USE Roles, ProcessAssumption DEF WriteFrame, TokenInv, Goto
<1>a. \A r \in Role : full[r] = 0
  BY FullIsBinary DEF BufferToken, Writing
<1>b. /\ \A q \in Process : ~Reading(q)
      /\ \A q \in Process : Writing(q) => q = p
  BY DEF BufferToken, BufferExclusive, Writing
<1>c. RoleOf[p] \in Role /\ Opposite[RoleOf[p]] \in Role /\ Opposite[RoleOf[p]] # RoleOf[p]
  OBVIOUS
<1>d. \A r \in Role : full'[r] = IF r = Opposite[RoleOf[p]] THEN 1 ELSE 0
  BY <1>a, <1>c DEF TypeOK
<1>1. TypeOK'
  BY <1>a, <1>b, <1>c, <1>d DEF TypeOK, Main, Receiver, Kind, Frame
<1>2. BufferToken'
  BY <1>a, <1>b, <1>c, <1>d DEF TypeOK, BufferToken, BufferExclusive, Writing, Reading
<1>3. TurnstileToken'
  BY DEF TypeOK, TurnstileToken
<1>4. PlaceToken'
  BY DEF TypeOK, PlaceToken, OneClient, Attached
<1>5. FrameAddressed'
  BY <1>a, <1>b, <1>c, <1>d DEF TypeOK, FrameAddressed, Reading, Frame
<1>6. (pc[Host] \notin {"start", "present", "detach"})'
  BY DEF TypeOK
<1> QED
  BY <1>1, <1>2, <1>3, <1>4, <1>5, <1>6

\* The turnstile's token comes back.
LEMMA ReleaseTokenInv ==
    ASSUME TokenInv, NEW p \in Process, Release(p)
    PROVE  TokenInv'
<1> USE Roles, ProcessAssumption DEF Release, TokenInv, Post, AfterSend, Send, Goto, ReceiverTo
<1>a. turnstile = 0
  BY DEF TurnstileToken
<1>1. TypeOK'
  BY <1>a DEF TypeOK, Main, Receiver, Kind, Frame
<1>2. BufferToken'
  BY <1>a DEF TypeOK, BufferToken, BufferExclusive, Writing, Reading
<1>3. TurnstileToken'
  BY DEF TypeOK, TurnstileToken
<1>4. PlaceToken'
  BY DEF TypeOK, PlaceToken, OneClient, Attached
<1>5. FrameAddressed'
  BY <1>a DEF TypeOK, FrameAddressed, Reading, Frame
<1>6. (pc[Host] \notin {"start", "present", "detach"})'
  BY DEF TypeOK
<1> QED
  BY <1>1, <1>2, <1>3, <1>4, <1>5, <1>6

\* The place's token comes back.
LEMMA DetachTokenInv ==
    ASSUME TokenInv, NEW c \in Clients, Detach(c)
    PROVE  TokenInv'
<1> USE Roles, ProcessAssumption DEF Detach, TokenInv, Post, Goto
<1>a. client_present = 0
  BY DEF PlaceToken, Attached
<1>1. TypeOK'
  BY <1>a DEF TypeOK, Main, Receiver, Kind, Frame
<1>2. BufferToken'
  BY <1>a DEF TypeOK, BufferToken, BufferExclusive, Writing, Reading
<1>3. TurnstileToken'
  BY DEF TypeOK, TurnstileToken
<1>4. PlaceToken'
  BY DEF TypeOK, PlaceToken, OneClient, Attached
<1>5. FrameAddressed'
  BY <1>a DEF TypeOK, FrameAddressed, Reading, Frame
<1>6. (pc[Host] \notin {"start", "present", "detach"})'
  BY DEF TypeOK
<1> QED
  BY <1>1, <1>2, <1>3, <1>4, <1>5, <1>6

\* A token the receiving thread holds when the process ends is in no place any more.
LEMMA ExitTokenInv ==
    ASSUME TokenInv, NEW p \in Process, Exit(p)
    PROVE  TokenInv'
<1> USE Roles, ProcessAssumption DEF Exit, TokenInv, Goto, ReceiverTo, sems
<1>1. TypeOK'
  BY DEF TypeOK, Main, Receiver, Kind, Frame
<1>2. BufferToken'
  BY DEF TypeOK, BufferToken, BufferExclusive, Writing, Reading
<1>3. TurnstileToken'
  BY DEF TypeOK, TurnstileToken
<1>4. PlaceToken'
  BY DEF TypeOK, PlaceToken, OneClient, Attached
<1>5. FrameAddressed'
  BY DEF TypeOK, FrameAddressed, Reading, Frame
<1>6. (pc[Host] \notin {"start", "present", "detach"})'
  BY DEF TypeOK
<1> QED
  BY <1>1, <1>2, <1>3, <1>4, <1>5, <1>6

\* A receiver that looks at the flag holds no token.
LEMMA RecvCheckTokenInv ==
    ASSUME TokenInv, NEW p \in Process, RecvCheck(p)
    PROVE  TokenInv'
<1> USE Roles, ProcessAssumption DEF RecvCheck, TokenInv, ReceiverTo, sems, mains
<1>1. TypeOK'
  BY DEF TypeOK, Main, Receiver, Kind, Frame
<1>2. BufferToken'
  BY DEF TypeOK, BufferToken, BufferExclusive, Writing, Reading
<1>3. TurnstileToken'
  BY DEF TypeOK, TurnstileToken
<1>4. PlaceToken'
  BY DEF TypeOK, PlaceToken, OneClient, Attached
<1>5. FrameAddressed'
  BY DEF TypeOK, FrameAddressed, Reading, Frame
<1>6. (pc[Host] \notin {"start", "present", "detach"})'
  BY DEF TypeOK
<1> QED
  BY <1>1, <1>2, <1>3, <1>4, <1>5, <1>6

\* The buffer's token goes from full to the reader.
LEMMA RecvWaitTokenInv ==
    ASSUME TokenInv, NEW p \in Process, RecvWait(p)
    PROVE  TokenInv'
<1> USE Roles, ProcessAssumption DEF RecvWait, TokenInv, ReceiverTo, mains
<1>a. /\ full[RoleOf[p]] = 1 /\ empty = 0 /\ full[Opposite[RoleOf[p]]] = 0
      /\ \A q \in Process : ~Writing(q) /\ ~Reading(q)
  BY FullIsBinary DEF BufferToken
<1>b. \A r \in Role : full'[r] = 0
  <2>1. \A r \in Role : r # RoleOf[p] => full[r] = 0
    BY <1>a, FullIsBinary
  <2>2. full'[RoleOf[p]] = 0
    <3>1. RoleOf[p] \in Role
      OBVIOUS
    <3>2. full'[RoleOf[p]] = full[RoleOf[p]] - 1
      BY <3>1 DEF TypeOK
    <3> QED
      BY <3>2, <1>a
  <2>3. \A r \in Role : r # RoleOf[p] => full'[r] = full[r]
    BY DEF TypeOK
  <2> QED
    BY <2>1, <2>2, <2>3
<1>c. data \in Frame /\ RoleOf[data.from] # RoleOf[p]
  BY <1>a DEF FrameAddressed, Frame
<1>d. \A q \in Process : Reading(q)' => q = p
  BY <1>a DEF TypeOK, Reading
<1>1. TypeOK'
  BY <1>a, <1>b, <1>c, <1>d DEF TypeOK, Main, Receiver, Kind, Frame
<1>2. BufferToken'
  BY <1>a, <1>b, <1>c, <1>d DEF TypeOK, BufferToken, BufferExclusive, Writing, Reading
<1>3. TurnstileToken'
  BY DEF TypeOK, TurnstileToken
<1>4. PlaceToken'
  BY DEF TypeOK, PlaceToken, OneClient, Attached
<1>5. FrameAddressed'
  BY <1>a, <1>b, <1>c, <1>d DEF TypeOK, FrameAddressed, Reading, Frame
<1>6. (pc[Host] \notin {"start", "present", "detach"})'
  BY DEF TypeOK
<1> QED
  BY <1>1, <1>2, <1>3, <1>4, <1>5, <1>6

\* The buffer's token goes from the reader to empty.
LEMMA RecvCopyTokenInv ==
    ASSUME TokenInv, NEW p \in Process, RecvCopy(p)
    PROVE  TokenInv'
<1> USE Roles, ProcessAssumption DEF RecvCopy, TokenInv, Post, ReceiverTo, mains
<1>a. /\ empty = 0 /\ \A r \in Role : full[r] = 0
      /\ \A q \in Process : ~Writing(q)
      /\ \A q \in Process : Reading(q) => q = p
  BY DEF TypeOK, BufferToken, BufferExclusive, Reading
<1>1. TypeOK'
  BY <1>a DEF TypeOK, Main, Receiver, Kind, Frame
<1>2. BufferToken'
  BY <1>a DEF TypeOK, BufferToken, BufferExclusive, Writing, Reading
<1>3. TurnstileToken'
  BY DEF TypeOK, TurnstileToken
<1>4. PlaceToken'
  BY DEF TypeOK, PlaceToken, OneClient, Attached
<1>5. FrameAddressed'
  BY <1>a DEF TypeOK, FrameAddressed, Reading, Frame
<1>6. (pc[Host] \notin {"start", "present", "detach"})'
  BY DEF TypeOK
<1> QED
  BY <1>1, <1>2, <1>3, <1>4, <1>5, <1>6

\* A process that panics keeps what its main thread held from everybody.
LEMMA InterruptTokenInv ==
    ASSUME TokenInv, NEW p \in Process, Interrupt(p)
    PROVE  TokenInv'
<1> USE Roles, ProcessAssumption DEF Interrupt, TokenInv, Goto, ReceiverTo, sems, Running, InSendWait
<1>1. TypeOK'
  <2> USE DEF TypeOK, Main, Receiver, Kind, Frame
  <2>1. pc' \in [Process -> Main]
    OBVIOUS
  <2>2. receiver' \in [Process -> Receiver]
    OBVIOUS
  <2>3. shutdown' \in [Process -> BOOLEAN]
    <3>1. shutdown' = shutdown \/ shutdown' = [shutdown EXCEPT ![p] = TRUE]
      BY Zenon
    <3>2. [shutdown EXCEPT ![p] = TRUE] \in [Process -> BOOLEAN]
      BY ZenonT(30)
    <3> QED
      BY <3>1, <3>2, ZenonT(30)
  <2> QED
    BY <2>1, <2>2, <2>3
<1>2. BufferToken'
  <2>1. empty' = empty /\ full' = full
    OBVIOUS
  <2>2. \A q \in Process : Writing(q)' => Writing(q)
    BY SMTT(20) DEF TypeOK, Writing
  <2>3. \A q \in Process : Reading(q)' => Reading(q)
    BY SMTT(20) DEF TypeOK, Reading
  <2>4. BufferExclusive'
    BY <2>2, <2>3 DEF BufferToken, BufferExclusive
  <2> QED
    BY <2>1, <2>2, <2>3, <2>4 DEF BufferToken
<1>3. TurnstileToken'
  BY DEF TypeOK, TurnstileToken
<1>4. PlaceToken'
  BY DEF TypeOK, PlaceToken, OneClient, Attached
<1>5. FrameAddressed'
  BY DEF TypeOK, FrameAddressed, Reading, Frame
<1>6. (pc[Host] \notin {"start", "present", "detach"})'
  BY DEF TypeOK
<1> QED
  BY <1>1, <1>2, <1>3, <1>4, <1>5, <1>6
-----------------------------------------------------------------------------
(* The theorems.                                                           *)

\* Every step of the system preserves the invariant.
LEMMA NextTokenInv == TokenInv /\ [Next]_vars => TokenInv'
<1> SUFFICES ASSUME TokenInv, [Next]_vars PROVE TokenInv'
  OBVIOUS
<1>1. ASSUME NEW p \in Process, MainStep(p) PROVE TokenInv'
  BY <1>1, EnterTurnstileTokenInv, TakeEmptyTokenInv, WriteFrameTokenInv, ReleaseTokenInv, ExitTokenInv DEF MainStep
<1>2. ASSUME NEW p \in Process, RecvStep(p) PROVE TokenInv'
  BY <1>2, RecvCheckTokenInv, RecvWaitTokenInv, RecvCopyTokenInv DEF RecvStep
<1>3. ASSUME NEW p \in Process, UserStep(p) PROVE TokenInv'
  BY <1>3, TypeLineTokenInv, QuitTokenInv, InterruptTokenInv DEF UserStep
<1>4. ASSUME NEW c \in Clients, Arrive(c) \/ ClientStep(c) PROVE TokenInv'
  BY <1>4, ArriveTokenInv, AttachTokenInv, DetachTokenInv DEF ClientStep
<1>5. CASE UNCHANGED vars
  BY <1>5 DEF vars, sems, mains, TokenInv, TypeOK, BufferToken, BufferExclusive, Writing, Reading,
              TurnstileToken, PlaceToken, OneClient, Attached, FrameAddressed
<1> QED
  BY <1>1, <1>2, <1>3, <1>4, <1>5 DEF Next

\* In every reachable state each token is in one place: the buffer's, the turnstile's
\* and the client's, however the threads of however many clients interleave and
\* whoever leaves or is interrupted.
LEMMA TokensKept == Spec => []TokenInv
  BY InitTokenInv, NextTokenInv, PTL DEF Spec

\* Every variable keeps its type; no semaphore is ever posted beyond 1.
THEOREM TypeCorrect == Spec => []TypeOK
<1>1. TokenInv => TypeOK
  BY DEF TokenInv
<1> QED
  BY <1>1, TokensKept, PTL

\* No two threads are in the buffer at a time, whoever exits or panics.
THEOREM MutualExclusion == Spec => []BufferExclusive
<1>1. TokenInv => BufferExclusive
  BY DEF TokenInv, BufferToken
<1> QED
  BY <1>1, TokensKept, PTL

\* The host talks to one client at a time.
THEOREM SingleClient == Spec => []OneClient
<1>1. TokenInv => OneClient
  BY DEF TokenInv, PlaceToken
<1> QED
  BY <1>1, TokensKept, PTL
-----------------------------------------------------------------------------
(* Sessions.                                                               *)

\* The two ends of the buffer.
LEMMA Ends ==
    /\ RoleOf[Host] = "host" /\ Opposite["host"] = "client" /\ Opposite["client"] = "host"
    /\ "host" \in Role /\ "client" \in Role
    /\ \A c \in Clients : c # Host /\ RoleOf[c] = "client"
  BY ProcessAssumption DEF RoleOf, Opposite, Role, Process

\* A step that sends the host nothing, frees no place and leaves everyone as far into
\* its session as it was.
LEMMA SameSession ==
    ASSUME SessionSound,
           Waiting' <=> Waiting, Waiting => data' = data, got'[Host] = got[Host],
           receiver'[Host] # "off" => receiver[Host] # "off",
           client_present' = 1 => client_present = 1,
           \A c \in Clients : Attached(c)' => Attached(c) /\ (Outside(c)' <=> Outside(c)),
           pc'[Host] \in {"turnstile", "empty", "writing", "release"} => sending'[Host] # "JOIN"
    PROVE  SessionSound'
<1>1. Last' = Last
  BY DEF Last
<1> QED
  BY <1>1 DEF SessionSound

\* At first there is no session.
LEMMA InitSessions == Init => SessionSound
  BY Ends, Roles, ProcessAssumption
     DEF Init, SessionSound, Waiting, Last, Over, Attached, Reading, Role

\* A client that starts is outside.
LEMMA ArriveSessions ==
    ASSUME TokenInv, SessionSound, NEW c \in Clients, Arrive(c)
    PROVE  SessionSound'
<1>1. \A d \in Clients : Attached(d)' => Attached(d) /\ (Outside(d)' <=> Outside(d))
  BY DEF TokenInv, TypeOK, Arrive, Goto, Attached, Outside
<1>2. pc'[Host] = pc[Host]
  BY Ends, Roles DEF TokenInv, TypeOK, Arrive, Goto
<1> QED
  BY <1>1, <1>2, SameSession DEF SessionSound, Arrive, sems, Waiting, Reading

\* Nobody else is attached, and the last frame sent ended a session.
LEMMA AttachSessions ==
    ASSUME TokenInv, SessionSound, NEW c \in Clients, Attach(c)
    PROVE  SessionSound'
<1>1. client_present = 1 /\ client_present' = 0
  BY DEF TokenInv, TypeOK, Attach, Wait
<1>2. \A d \in Clients : Attached(d)' => d = c
  BY <1>1 DEF TokenInv, TypeOK, PlaceToken, Attach, Send, Goto, Attached
<1>3. Outside(c)'
  BY Roles DEF TokenInv, TypeOK, Attach, Send, Goto, Outside
<1>4. pc'[Host] = pc[Host] /\ sending'[Host] = sending[Host]
  BY Ends, Roles DEF TokenInv, TypeOK, Attach, Send, Goto
<1>5. Last' = Last /\ (Waiting' <=> Waiting) /\ UNCHANGED <<data, receiver, got>>
  BY DEF Attach, Last, Waiting, Reading
<1> QED
  BY <1>1, <1>2, <1>3, <1>4, <1>5 DEF SessionSound

\* What one types, or that one quits, is said within the session.
LEMMA InputSessions ==
    ASSUME TokenInv, SessionSound, NEW p \in Process, TypeLine(p) \/ Quit(p)
    PROVE  SessionSound'
<1>1. \A c \in Clients : Attached(c)' => Attached(c) /\ (Outside(c)' <=> Outside(c))
  BY Roles DEF TokenInv, TypeOK, TypeLine, Quit, Send, Goto, Attached, Outside
<1>2. pc'[Host] \in {"turnstile", "empty", "writing", "release"} => sending'[Host] # "JOIN"
  BY Roles DEF TokenInv, TypeOK, SessionSound, TypeLine, Quit, Send, Goto
<1> QED
  BY <1>1, <1>2, SameSession DEF TypeLine, Quit, sems, Waiting, Reading

\* Waiting to send sends nothing.
LEMMA EnterSessions ==
    ASSUME TokenInv, SessionSound, NEW p \in Process, EnterTurnstile(p) \/ TakeEmpty(p)
    PROVE  SessionSound'
<1>1. \A c \in Clients : Attached(c)' => Attached(c) /\ (Outside(c)' <=> Outside(c))
  BY Roles DEF TokenInv, TypeOK, EnterTurnstile, TakeEmpty, Goto, Attached, Outside
<1>2. pc'[Host] \in {"turnstile", "empty", "writing", "release"} => sending'[Host] # "JOIN"
  BY Roles DEF TokenInv, TypeOK, SessionSound, EnterTurnstile, TakeEmpty, Goto
<1> QED
  BY <1>1, <1>2, SameSession DEF EnterTurnstile, TakeEmpty, Waiting, Reading

\* A client's JOIN begins a session, its lines continue it and its LEAVE ends it; what
\* the host writes is not for the host.
LEMMA WriteFrameSessions ==
    ASSUME TokenInv, SessionSound, NEW p \in Process, WriteFrame(p)
    PROVE  SessionSound'
<1>1. ~Waiting /\ full \in [Role -> 0..1]
  BY Roles, Ends DEF TokenInv, TypeOK, BufferToken, BufferExclusive, WriteFrame, Writing, Waiting
<1>2. CASE p = Host
  <2>1. full'["host"] = full["host"] /\ ~Waiting'
    BY <1>1, <1>2, Ends DEF WriteFrame, Waiting, Reading
  <2>2. \A c \in Clients : pc'[c] = pc[c]
    BY <1>2, Ends, Roles DEF TokenInv, TypeOK, WriteFrame, Goto
  <2>3. \A c \in Clients : Attached(c)' => Attached(c) /\ (Outside(c)' <=> Outside(c))
    BY <2>2 DEF WriteFrame, Attached, Outside
  <2>4. sending'[Host] # "JOIN"
    BY <1>2 DEF WriteFrame, SessionSound
  <2> QED
    BY <1>1, <2>1, <2>3, <2>4, SameSession DEF WriteFrame
<1>3. CASE p \in Clients
  <2>1. /\ data' = [kind |-> sending[p], from |-> p] /\ sending[p] \in Kind
        /\ data' \in Frame /\ data' # NoFrame
    BY NoFrameAssumption DEF TokenInv, TypeOK, WriteFrame, Frame
  <2>2. Waiting' /\ Last' = data' /\ Last = got[Host]
    BY <1>1, <1>3, Ends DEF WriteFrame, Waiting, Last
  <2>3. /\ Attached(p) /\ (Outside(p) <=> sending[p] = "JOIN")
        /\ (Outside(p)' <=> sending[p] = "LEAVE")
    BY Roles DEF TokenInv, TypeOK, WriteFrame, Goto, Attached, Outside
  <2>4. client_present' = 0 /\ \A c \in Clients : Attached(c)' => c = p
    BY <1>3, <2>3, Roles
       DEF TokenInv, TypeOK, PlaceToken, OneClient, WriteFrame, Goto, Attached
  <2>5. pc'[Host] = pc[Host] /\ UNCHANGED <<sending, receiver, got>>
    BY <1>3, Ends, Roles DEF TokenInv, TypeOK, WriteFrame, Goto
  <2>6. ASSUME receiver[Host] # "off"
        PROVE  IF sending[p] = "JOIN" THEN Over(got[Host]) ELSE Within(got[Host], p)
    BY <1>3, <2>2, <2>3, <2>6 DEF SessionSound
  <2>7. receiver[Host] # "off" => Follows(got[Host], data')
    BY <2>1, <2>6 DEF Follows
  <2>8. IF Outside(p)' THEN Over(data') ELSE Within(data', p)
    BY <2>1, <2>3 DEF Over, Within
  <2> QED
    BY <2>2, <2>4, <2>5, <2>7, <2>8 DEF SessionSound
<1> QED
  BY <1>2, <1>3 DEF Process

\* Where a send leads to.
LEMMA ReleaseSessions ==
    ASSUME TokenInv, SessionSound, NEW p \in Process, Release(p)
    PROVE  SessionSound'
<1> USE DEF Release, AfterSend, Send, Goto, ReceiverTo
<1>1. \A c \in Clients : Attached(c)' => Attached(c) /\ (Outside(c)' <=> Outside(c))
  BY Roles DEF TokenInv, TypeOK, Attached, Outside
<1>2. pc'[Host] \in {"turnstile", "empty", "writing", "release"} => sending'[Host] # "JOIN"
  BY Roles DEF TokenInv, TypeOK, SessionSound
<1>3. receiver'[Host] = receiver[Host]
  BY Ends, Roles DEF TokenInv, TypeOK, SessionSound
<1>4. UNCHANGED <<client_present, full, data, got>>
  OBVIOUS
<1> HIDE DEF Release, AfterSend, Send, Goto, ReceiverTo
<1> QED
  BY <1>1, <1>2, <1>3, <1>4, SameSession DEF Waiting, Reading

\* The place is given back after LEAVE.
LEMMA DetachSessions ==
    ASSUME TokenInv, SessionSound, NEW c \in Clients, Detach(c)
    PROVE  SessionSound'
<1>1. Attached(c) /\ Outside(c)
  BY DEF Detach, Attached, Outside
<1>2. \A d \in Clients : ~Attached(d)'
  BY <1>1, Roles DEF TokenInv, TypeOK, PlaceToken, OneClient, Detach, Goto, Attached
<1>3. pc'[Host] = pc[Host] /\ Last' = Last /\ (Waiting' <=> Waiting)
  BY Ends, Roles DEF TokenInv, TypeOK, Detach, Goto, Last, Waiting, Reading
<1> QED
  BY <1>1, <1>2, <1>3 DEF SessionSound, Detach

\* A host that ends listens no more, and a client that ends has left.
LEMMA ExitSessions ==
    ASSUME TokenInv, SessionSound, NEW p \in Process, Exit(p)
    PROVE  SessionSound'
<1> USE DEF Exit, Goto, ReceiverTo, sems
<1>1. \A c \in Clients : Attached(c)' => Attached(c) /\ (Outside(c)' <=> Outside(c))
  BY Roles DEF TokenInv, TypeOK, Attached, Outside
<1>2. pc'[Host] \in {"turnstile", "empty", "writing", "release"} => sending'[Host] # "JOIN"
  BY Roles DEF TokenInv, TypeOK, SessionSound
<1>3. CASE p = Host
  <2>1. receiver'[Host] = "off"
    BY <1>3 DEF TokenInv, TypeOK
  <2> QED BY <1>2, <2>1 DEF SessionSound
<1>4. CASE p # Host
  <2>1. receiver'[Host] = receiver[Host]
    BY <1>4, Roles DEF TokenInv, TypeOK
  <2> QED BY <1>1, <1>2, <2>1, SameSession DEF Waiting, Reading
<1> QED
  BY <1>3, <1>4

\* A frame is taken out of full, and then copied: it stays the last one.
LEMMA ReceiveSessions ==
    ASSUME TokenInv, SessionSound, NEW p \in Process, RecvStep(p)
    PROVE  SessionSound'
<1>1. /\ \A c \in Clients : Attached(c)' => Attached(c) /\ (Outside(c)' <=> Outside(c))
      /\ pc' = pc /\ sending' = sending /\ data' = data /\ client_present' = client_present
  BY DEF RecvStep, RecvCheck, RecvWait, RecvCopy, Attached, Outside, sems, mains
<1>2. receiver'[Host] # "off" => receiver[Host] # "off"
  BY Roles DEF TokenInv, TypeOK, RecvStep, RecvCheck, RecvWait, RecvCopy, ReceiverTo
<1>3. pc'[Host] \in {"turnstile", "empty", "writing", "release"} => sending'[Host] # "JOIN"
  BY <1>1 DEF SessionSound
<1>4. CASE RecvCheck(p)
  <2>1. Reading(Host)' <=> Reading(Host)
    BY <1>4, Roles DEF TokenInv, TypeOK, RecvCheck, ReceiverTo, Reading
  <2> QED BY <1>1, <1>2, <1>3, <1>4, <2>1, SameSession DEF RecvCheck, Waiting, sems
<1>5. CASE RecvWait(p)
  <2>1. full[RoleOf[p]] = 1
    BY <1>5, Roles, FullIsBinary DEF RecvWait
  <2>2. CASE p = Host
    <3>1. Waiting /\ Waiting'
      BY <1>5, <2>1, <2>2, Ends, Roles
         DEF TokenInv, TypeOK, RecvWait, ReceiverTo, Waiting, Reading
    <3> QED BY <1>1, <1>2, <1>3, <1>5, <3>1, SameSession DEF RecvWait
  <2>3. CASE p # Host
    <3>1. full'["host"] = full["host"] /\ receiver'[Host] = receiver[Host]
      BY <1>5, <2>3, Ends, Roles DEF TokenInv, TypeOK, RecvWait, ReceiverTo, Process
    <3> QED
      BY <1>1, <1>2, <1>3, <1>5, <3>1, SameSession DEF RecvWait, Waiting, Reading
  <2> QED BY <2>2, <2>3
<1>6. CASE RecvCopy(p)
  <2>1. full["host"] = 0 /\ full' = full
    BY <1>6, Ends, Roles, FullIsBinary DEF TokenInv, BufferToken, RecvCopy, Reading
  <2>2. CASE p = Host
    <3>1. Waiting /\ ~Waiting' /\ Last = data /\ Last' = data
      BY <1>6, <2>1, <2>2, Roles DEF TokenInv, TypeOK, RecvCopy, ReceiverTo, Waiting, Reading, Last
    <3> QED BY <1>1, <1>2, <1>3, <3>1 DEF SessionSound
  <2>3. CASE p # Host
    <3>1. got'[Host] = got[Host] /\ receiver'[Host] = receiver[Host]
      BY <1>6, <2>3, Roles DEF TokenInv, TypeOK, RecvCopy, ReceiverTo
    <3> QED BY <1>1, <1>2, <1>3, <2>1, <3>1, SameSession DEF Waiting, Reading
  <2> QED BY <2>2, <2>3
<1> QED
  BY <1>4, <1>5, <1>6 DEF RecvStep

\* A client that panics keeps its place, so its session is the last.
LEMMA InterruptSessions ==
    ASSUME TokenInv, SessionSound, NEW p \in Process, Interrupt(p)
    PROVE  SessionSound'
<1> USE DEF Interrupt, Running, InSendWait, Goto, ReceiverTo, sems
<1>1. \A c \in Clients : Attached(c)' => Attached(c) /\ (Outside(c)' <=> Outside(c))
  BY Roles DEF TokenInv, TypeOK, Attached, Outside
<1>2. pc'[Host] \in {"turnstile", "empty", "writing", "release"} => sending'[Host] # "JOIN"
  BY Roles DEF TokenInv, TypeOK, SessionSound
<1>3. receiver'[Host] = receiver[Host] \/ receiver'[Host] = "off"
  BY Roles DEF TokenInv, TypeOK
<1>4. UNCHANGED <<sems, data, sending, got>>
  OBVIOUS
<1> HIDE DEF Interrupt, Running, InSendWait, Goto, ReceiverTo
<1>5. CASE receiver'[Host] = "off"
  BY <1>2, <1>5 DEF SessionSound
<1>6. CASE receiver'[Host] = receiver[Host]
  BY <1>1, <1>2, <1>4, <1>6, SameSession DEF Waiting, Reading
<1> QED
  BY <1>3, <1>5, <1>6

\* Every step keeps the sessions apart.
LEMMA NextSessions == TokenInv /\ SessionSound /\ [Next]_vars => SessionSound'
<1> SUFFICES ASSUME TokenInv, SessionSound, [Next]_vars PROVE SessionSound'
  OBVIOUS
<1>1. ASSUME NEW p \in Process, MainStep(p) PROVE SessionSound'
  BY <1>1, EnterSessions, WriteFrameSessions, ReleaseSessions, ExitSessions DEF MainStep
<1>2. ASSUME NEW p \in Process, RecvStep(p) PROVE SessionSound'
  BY <1>2, ReceiveSessions
<1>3. ASSUME NEW p \in Process, UserStep(p) PROVE SessionSound'
  BY <1>3, InputSessions, InterruptSessions DEF UserStep
<1>4. ASSUME NEW c \in Clients, Arrive(c) \/ ClientStep(c) PROVE SessionSound'
  BY <1>4, ArriveSessions, AttachSessions, DetachSessions DEF ClientStep
<1>5. CASE UNCHANGED vars
  BY <1>5, SameSession DEF SessionSound, vars, sems, mains, Waiting, Reading, Attached, Outside
<1> QED
  BY <1>1, <1>2, <1>3, <1>4, <1>5 DEF Next

\* In every reachable state each token is in one place, and the last frame sent to the
\* host says whose session it is, however the threads of however many clients
\* interleave and whoever leaves or is interrupted.
THEOREM Invariance == Spec => []IInv
  BY TokensKept, InitSessions, NextSessions, PTL DEF Spec, IInv

\* The host hears one session after the other.
THEOREM SessionsOrdered == Spec => SessionsInOrder
<1>1. ASSUME IInv, [Next]_vars, got'[Host] # got[Host]
      PROVE  Follows(got[Host], got'[Host])
  <2>1. PICK p \in Process : RecvCopy(p)
    BY <1>1 DEF Next, MainStep, EnterTurnstile, TakeEmpty, WriteFrame, Release, Exit, RecvStep,
                RecvCheck, RecvWait, UserStep, TypeLine, Quit, Interrupt, Arrive, ClientStep,
                Attach, Detach, vars
  <2>2. p = Host /\ got'[Host] = data
    BY <1>1, <2>1, Roles DEF RecvCopy, IInv, TokenInv, TypeOK
  <2>3. receiver[Host] # "off" /\ Waiting
    BY <2>1, <2>2 DEF RecvCopy, Waiting, Reading
  <2> QED
    BY <1>1, <2>2, <2>3 DEF IInv, SessionSound
<1>2. IInv /\ [Next]_vars => [got'[Host] # got[Host] => Follows(got[Host], got'[Host])]_vars
  BY <1>1
<1> QED
  BY <1>2, Invariance, PTL DEF Spec, SessionsInOrder
-----------------------------------------------------------------------------
(* P2P implements Exchange.                                                *)

\* The buffer starts empty and nothing has been read.
LEMMA InitExchange == Init => E!Init
  BY DEF Init, E!Init, Box

\* Copying a frame in and posting full is a Put.
LEMMA WriteFramePuts ==
    ASSUME TokenInv, NEW p \in Process, WriteFrame(p)
    PROVE  E!Put(p, sending[p]) /\ sending[p] \in Kind
<1> USE DEF WriteFrame, Goto
<1>1. Box = NoFrame
  BY DEF Box, Writing
<1>2. empty' = 0
  BY DEF TokenInv, TypeOK, BufferToken, Writing
<1>3. \A q \in Process : ~Writing(q)'
  BY DEF TokenInv, TypeOK, BufferToken, BufferExclusive, Writing
<1>4. Box' = [kind |-> sending[p], from |-> p]
  BY <1>2, <1>3 DEF Box
<1>5. sending[p] \in Kind
  BY DEF TokenInv, TypeOK
<1> QED
  BY <1>1, <1>4, <1>5 DEF E!Put

\* Copying a frame out and posting empty is a Take of a frame of the other side.
LEMMA RecvCopyTakes ==
    ASSUME TokenInv, NEW p \in Process, RecvCopy(p)
    PROVE  E!Take(p)
<1> USE DEF RecvCopy
<1>1. empty = 0 /\ \A q \in Process : ~Writing(q)
  BY DEF TokenInv, TypeOK, BufferToken, BufferExclusive, Reading
<1>2. Box = data
  BY <1>1 DEF Box
<1>3. data \in Frame /\ RoleOf[data.from] # RoleOf[p]
  BY DEF TokenInv, FrameAddressed, Reading
<1>4. Box # NoFrame
  BY <1>2, <1>3, NoFrameAssumption
<1>5. empty' = 1
  BY <1>1 DEF Post
<1>6. Box' = NoFrame
  BY <1>5 DEF Box
<1> QED
  BY <1>2, <1>3, <1>4, <1>6 DEF E!Take

\* A step that leaves the buffer's content, its token and the writers alone is a
\* stutter.
LEMMA SameBox ==
    ASSUME empty' = empty, data' = data, \A p \in Process : Writing(p)' <=> Writing(p)
    PROVE  Box' = Box
  BY DEF Box

\* Every other step of a thread leaves the box and what was taken alone; TakeEmpty
\* moves the token from empty to a writer, and in both the box is empty.
LEMMA OthersStutter ==
    ASSUME TokenInv, [Next]_vars,
           ~\E p \in Process : WriteFrame(p) \/ RecvCopy(p)
    PROVE  UNCHANGED <<Box, got>>
<1> USE DEF TokenInv, TypeOK, Writing, Goto
<1>1. ASSUME NEW p \in Process, EnterTurnstile(p) PROVE UNCHANGED <<Box, got>>
  BY <1>1, SameBox DEF EnterTurnstile
<1>2. ASSUME NEW p \in Process, TakeEmpty(p) PROVE UNCHANGED <<Box, got>>
  <2>1. Box = NoFrame
    BY <1>2 DEF TakeEmpty, Wait, Box
  <2>2. Writing(p)'
    BY <1>2 DEF TakeEmpty
  <2>3. Box' = NoFrame
    BY <2>2 DEF Box
  <2> QED
    BY <1>2, <2>1, <2>3 DEF TakeEmpty
<1>3. ASSUME NEW p \in Process, Release(p) PROVE UNCHANGED <<Box, got>>
  BY <1>3, SameBox DEF Release, AfterSend, Send
<1>4. ASSUME NEW p \in Process, Exit(p) PROVE UNCHANGED <<Box, got>>
  BY <1>4, SameBox DEF Exit, sems
<1>5. ASSUME NEW p \in Process, RecvCheck(p) \/ RecvWait(p) PROVE UNCHANGED <<Box, got>>
  BY <1>5, SameBox DEF RecvCheck, RecvWait, sems, mains
<1>6. ASSUME NEW p \in Process, UserStep(p) PROVE UNCHANGED <<Box, got>>
  BY <1>6, SameBox DEF UserStep, TypeLine, Quit, Interrupt, InSendWait, Send, sems
<1>7. ASSUME NEW c \in Clients, Arrive(c) \/ ClientStep(c) PROVE UNCHANGED <<Box, got>>
  BY <1>7, SameBox, Roles DEF Arrive, ClientStep, Attach, Detach, Send, sems
<1>8. CASE UNCHANGED vars
  BY <1>8, SameBox DEF vars, sems, mains
<1> QED
  BY <1>1, <1>2, <1>3, <1>4, <1>5, <1>6, <1>7, <1>8 DEF Next, MainStep, RecvStep

\* The buffer and its semaphores implement the one-place exchange: no frame is
\* overwritten unread, read twice or read by its own side, for any number of clients.
THEOREM ImplementsExchange == Spec => ExchangeSpec
<1>1. TokenInv /\ [Next]_vars => [E!Next]_<<Box, got>>
  <2> SUFFICES ASSUME TokenInv, [Next]_vars PROVE [E!Next]_<<Box, got>>
    OBVIOUS
  <2>1. CASE \E p \in Process : WriteFrame(p)
    BY <2>1, WriteFramePuts DEF E!Next
  <2>2. CASE \E p \in Process : RecvCopy(p)
    BY <2>2, RecvCopyTakes DEF E!Next
  <2>3. CASE ~\E p \in Process : WriteFrame(p) \/ RecvCopy(p)
    BY <2>3, OthersStutter
  <2> QED
    BY <2>1, <2>2, <2>3
<1> QED
  BY <1>1, InitExchange, TokensKept, PTL DEF Spec, ExchangeSpec, E!Spec
=============================================================================

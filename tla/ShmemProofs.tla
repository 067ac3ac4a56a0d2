---------------------------- MODULE ShmemProofs -----------------------------
(***************************************************************************)
(* Theorems of Shmem, for any finite set of clients, whoever is killed or  *)
(* interrupted, any names and any lengths of frames.  TokenInv is          *)
(* inductive; it says where each token is, and with it a client's frame is *)
(* one Put and one Take of Exchange.  JoinSound and RosterSound follow     *)
(* what members are told.                                                  *)
(***************************************************************************)
EXTENDS Shmem, FiniteSetTheorems, TLAPS

\* A frame has a kind and a sender, and a length that is a number; nothing is not a
\* frame.
LEMMA Frames ==
    /\ \A kind \in Kind, c \in Clients : [kind |-> kind, from |-> c] \in Frame
    /\ \A f \in Frame : f.kind \in Kind /\ f.from \in Clients
    /\ \A kind \in Kind : LengthOf[kind] \in Lengths
    /\ Lengths \subseteq Nat
    /\ NoFrame \notin Frame
    /\ "JOIN" \in Kind /\ "MSG" \in Kind /\ "LEAVE" \in Kind
  BY BoundAssumption, NoFrameAssumption DEF Frame, Kind, Lengths

\* The first separator is where one is: there are at most three places.
LEMMA FirstMark ==
    ASSUME NEW S \in SUBSET Lengths, S # {}
    PROVE  Min(S) \in S
<1>1. S \subseteq {LengthOf["JOIN"], LengthOf["MSG"], LengthOf["LEAVE"]}
  BY DEF Lengths, Kind
<1>2. LengthOf["JOIN"] \in Nat /\ LengthOf["MSG"] \in Nat /\ LengthOf["LEAVE"] \in Nat
  BY BoundAssumption DEF Kind
<1>3. \E x \in S : \A y \in S : x <= y
  BY <1>1, <1>2
<1> QED
  BY <1>3 DEF Min

\* Everybody who is told something knows only names of clients.
LEMMA ToldNames ==
    ASSUME NEW names \in SUBSET Names, NEW f \in Frame
    PROVE  Told(names, f) \in SUBSET Names
  BY Frames DEF Told, Names, Kind

\* Initially the uplink is free, nobody listens and nothing is broadcast.
LEMMA InitTokenInv == Init => TokenInv
<1> SUFFICES ASSUME Init PROVE TokenInv
  OBVIOUS
<1> USE DEF Init
<1>1. TypeOK
  BY BoundAssumption DEF TypeOK, Main, Client, Region, MAX_RETRY_COUNT
<1>2. UplinkToken
  BY DEF UplinkToken, UplinkExclusive, Sending
<1>3. FrameSound
  BY DEF FrameSound, InSend
<1>4. ListenerSound
  BY DEF ListenerSound, Tokens, InSend
<1>5. BroadcastToken
  BY DEF BroadcastToken
<1> QED
  BY <1>1, <1>2, <1>3, <1>4, <1>5 DEF TokenInv

\* A client that starts has a whole region and no receiving thread.
LEMMA StartTokenInv ==
    ASSUME TokenInv, NEW c \in Clients, Start(c)
    PROVE  TokenInv'
<1> USE Frames, ProcessAssumption DEF TokenInv, Start, Send, Goto,
        uplink, host, table, delivery, downlink, client
<1>1. TypeOK'
  BY DEF TypeOK, Main, Client, Region, MAX_RETRY_COUNT
<1>2. UplinkToken'
  BY DEF TypeOK, UplinkToken, UplinkExclusive, Sending
<1>3. FrameSound'
  BY DEF TypeOK, FrameSound, InSend
<1>4. ListenerSound'
  BY DEF TypeOK, ListenerSound, Tokens, InSend, Region
<1>5. BroadcastToken'
  BY DEF TypeOK, BroadcastToken, MAX_RETRY_COUNT
<1> QED
  BY <1>1, <1>2, <1>3, <1>4, <1>5

\* Between two sends a client holds no token.
LEMMA TypeLineTokenInv ==
    ASSUME TokenInv, NEW c \in Clients, TypeLine(c)
    PROVE  TokenInv'
<1> USE Frames, ProcessAssumption DEF TokenInv, TypeLine, Send, Goto,
        uplink, host, table, delivery, downlink, client
<1>a. events' \in 0..MaxEvents
  BY BoundAssumption DEF TypeOK
<1>1. TypeOK'
  BY <1>a DEF TypeOK, Main, Client, Region, MAX_RETRY_COUNT
<1>2. UplinkToken'
  BY DEF TypeOK, UplinkToken, UplinkExclusive, Sending
<1>3. FrameSound'
  BY DEF TypeOK, FrameSound, InSend
<1>4. ListenerSound'
  BY DEF TypeOK, ListenerSound, Tokens, InSend, Region
<1>5. BroadcastToken'
  BY DEF TypeOK, BroadcastToken, MAX_RETRY_COUNT
<1> QED
  BY <1>1, <1>2, <1>3, <1>4, <1>5

\* Between two sends a client holds no token.
LEMMA QuitTokenInv ==
    ASSUME TokenInv, NEW c \in Clients, Quit(c)
    PROVE  TokenInv'
<1> USE Frames, ProcessAssumption DEF TokenInv, Quit, Send, Goto,
        uplink, host, table, delivery, downlink, client
<1>1. TypeOK'
  BY DEF TypeOK, Main, Client, Region, MAX_RETRY_COUNT
<1>2. UplinkToken'
  BY DEF TypeOK, UplinkToken, UplinkExclusive, Sending
<1>3. FrameSound'
  BY DEF TypeOK, FrameSound, InSend
<1>4. ListenerSound'
  BY DEF TypeOK, ListenerSound, Tokens, InSend, Region
<1>5. BroadcastToken'
  BY DEF TypeOK, BroadcastToken, MAX_RETRY_COUNT
<1> QED
  BY <1>1, <1>2, <1>3, <1>4, <1>5

\* The uplink's token goes from space_sem to the client.
LEMMA TakeSpaceTokenInv ==
    ASSUME TokenInv, NEW c \in Clients, TakeSpace(c)
    PROVE  TokenInv'
<1> USE Frames, ProcessAssumption DEF TokenInv, TakeSpace, Wait, Goto,
        uplink, host, table, delivery, downlink, client
<1>1. TypeOK'
  BY DEF TypeOK, Main, Client, Region, MAX_RETRY_COUNT
<1>2. UplinkToken'
  BY DEF TypeOK, UplinkToken, UplinkExclusive, Sending
<1>3. FrameSound'
  BY DEF TypeOK, FrameSound, InSend
<1>4. ListenerSound'
  BY DEF TypeOK, ListenerSound, Tokens, InSend, Region
<1>5. BroadcastToken'
  BY DEF TypeOK, BroadcastToken, MAX_RETRY_COUNT
<1> QED
  BY <1>1, <1>2, <1>3, <1>4, <1>5

\* Writing is the holder's own business.
LEMMA WriteFrameTokenInv ==
    ASSUME TokenInv, NEW c \in Clients, WriteFrame(c)
    PROVE  TokenInv'
<1> USE Frames, ProcessAssumption DEF TokenInv, WriteFrame, Goto,
        uplink, host, table, delivery, downlink, client
<1>a. /\ data = 0 /\ main # "copy"
      /\ \A d \in Clients : pc[d] = "ending" => d = c
  BY DEF UplinkToken, UplinkExclusive, Sending
<1>1. TypeOK'
  BY DEF TypeOK, Main, Client, Region, MAX_RETRY_COUNT
<1>2. UplinkToken'
  BY DEF TypeOK, UplinkToken, UplinkExclusive, Sending
<1>3. FrameSound'
  BY <1>a DEF TypeOK, FrameSound, InSend
<1>4. ListenerSound'
  BY DEF TypeOK, ListenerSound, Tokens, InSend, Region
<1>5. BroadcastToken'
  BY DEF TypeOK, BroadcastToken, MAX_RETRY_COUNT
<1> QED
  BY <1>1, <1>2, <1>3, <1>4, <1>5

\* The uplink's token goes from the client to data_sem; the receiving thread starts
\* or ends with a whole region.
LEMMA EndFrameTokenInv ==
    ASSUME TokenInv, NEW c \in Clients, EndFrame(c)
    PROVE  TokenInv'
<1> USE Frames, ProcessAssumption DEF TokenInv, EndFrame, Post, AfterSend, End, Send, Goto, ReceiverTo,
        uplink, host, table, delivery, downlink, client
<1>a. /\ data = 0 /\ space = 0 /\ main # "copy"
      /\ \A d \in Clients : pc[d] \in {"writing", "ending"} => d = c
  BY DEF UplinkToken, UplinkExclusive, Sending
<1>b. sending[c] \in Frame /\ sending[c].from = c /\ frame = sending[c]
  BY DEF FrameSound, InSend
<1>c. /\ pc' \in [Clients -> Client]
      /\ pc'[c] \in {"space", "input", "ended"}
      /\ \A d \in Clients \ {c} : pc'[d] = pc[d]
  BY DEF TypeOK, Client
<1>d. /\ sending' \in [Clients -> Frame \cup {NoFrame}]
      /\ pc'[c] = "space" => sending'[c] = [kind |-> "LEAVE", from |-> c]
      /\ \A d \in Clients \ {c} : sending'[d] = sending[d]
  <2>1. PICK f \in Frame \cup {NoFrame} :
            /\ sending' = [sending EXCEPT ![c] = f]
            /\ pc'[c] = "space" => f = [kind |-> "LEAVE", from |-> c]
    <3>1. [kind |-> "LEAVE", from |-> c] \in Frame
      OBVIOUS
    <3>2. CASE sending' = [sending EXCEPT ![c] = NoFrame] /\ pc'[c] \in {"input", "ended"}
      BY <3>2
    <3>3. CASE sending' = [sending EXCEPT ![c] = [kind |-> "LEAVE", from |-> c]]
      BY <3>1, <3>3
    <3> QED
      BY <3>2, <3>3 DEF TypeOK
  <2> QED
    BY <2>1 DEF TypeOK
<1>e. /\ receiver' \in [Clients -> {"off", "wait", "scan", "show"}]
      /\ segments' \subseteq Clients
  BY DEF TypeOK
<1>f. marks' \subseteq Lengths
  BY <1>b DEF TypeOK
<1>g. data' = 1 /\ UNCHANGED <<space, frame, host, clients_sem, table, delivery, downlink,
                              events, shutdown>>
  BY <1>a
<1>1. TypeOK'
  <2> HIDE DEF EndFrame, AfterSend, End, Send, Goto, ReceiverTo
  <2>1. data' \in 0..1 /\ marks' \subseteq Lengths /\ segments' \subseteq Clients
    BY <1>e, <1>f, <1>g
  <2> QED
    BY <1>c, <1>d, <1>e, <1>g, <2>1 DEF TypeOK
<1>2. UplinkToken'
  BY <1>c DEF UplinkToken, UplinkExclusive, Sending
<1>3. FrameSound'
  <2> HIDE DEF EndFrame, AfterSend, End, Send, Goto, ReceiverTo
  <2>1. \A d \in Clients : pc'[d] # "ending"
    BY <1>a, <1>c
  <2>2. \A d \in Clients : InSend(d)' => sending'[d] \in Frame /\ sending'[d].from = d
    BY <1>c, <1>d DEF FrameSound, InSend
  <2>3. frame' \in Frame /\ main' = main /\ buf' = buf
    BY <1>b, <1>g
  <2> QED
    BY <2>1, <2>2, <2>3 DEF FrameSound
<1>4. ListenerSound'
  BY <1>a, <1>b, <1>c DEF TypeOK, ListenerSound, Tokens, InSend, Region
<1>5. BroadcastToken'
  BY DEF BroadcastToken
<1> QED
  BY <1>1, <1>2, <1>3, <1>4, <1>5

\* The region's token goes from data_sem to the receiving thread.
LEMMA ReceiveTokenInv ==
    ASSUME TokenInv, NEW c \in Clients, Receive(c)
    PROVE  TokenInv'
<1> USE Frames, ProcessAssumption DEF TokenInv, Receive, ReceiverTo,
        uplink, host, table, delivery, downlink, client
<1>a. down[c].space = 0 /\ down[c].data = 1
  BY DEF ListenerSound, Tokens, TypeOK, Region
<1>1. TypeOK'
  BY DEF TypeOK, Main, Client, Region, MAX_RETRY_COUNT
<1>2. UplinkToken'
  BY DEF TypeOK, UplinkToken, UplinkExclusive, Sending
<1>3. FrameSound'
  BY DEF TypeOK, FrameSound, InSend
<1>4. ListenerSound'
  BY DEF TypeOK, ListenerSound, Tokens, InSend, Region
<1>5. BroadcastToken'
  BY DEF TypeOK, BroadcastToken, MAX_RETRY_COUNT
<1> QED
  BY <1>1, <1>2, <1>3, <1>4, <1>5

\* The region's token goes from the receiving thread to space_sem.
LEMMA GiveSpaceTokenInv ==
    ASSUME TokenInv, NEW c \in Clients, GiveSpace(c)
    PROVE  TokenInv'
<1> USE Frames, ProcessAssumption DEF TokenInv, GiveSpace, ReceiverTo,
        uplink, host, table, delivery, downlink, client
<1>a. down[c].space = 0 /\ down[c].data = 0
  <2>1. down[c].space \in 0..1 /\ down[c].data \in 0..1
    BY DEF TypeOK, Region
  <2>2. Tokens(c) = 1
    BY DEF ListenerSound
  <2> QED
    BY <2>1, <2>2 DEF Tokens
<1>b. /\ down'[c] = [space |-> 1, data |-> 0]
      /\ \A d \in Clients \ {c} : down'[d] = down[d]
  BY <1>a DEF TypeOK, Region
<1>1. TypeOK'
  BY <1>b DEF TypeOK, Main, Client, Region, MAX_RETRY_COUNT
<1>2. UplinkToken'
  BY DEF TypeOK, UplinkToken, UplinkExclusive, Sending
<1>3. FrameSound'
  BY DEF TypeOK, FrameSound, InSend
<1>4. ListenerSound'
  BY DEF TypeOK, ListenerSound, Tokens, InSend, Region
<1>5. BroadcastToken'
  BY DEF TypeOK, BroadcastToken, MAX_RETRY_COUNT
<1> QED
  BY <1>1, <1>2, <1>3, <1>4, <1>5

\* A receiving thread that shows a frame holds no token.
LEMMA ShowTokenInv ==
    ASSUME TokenInv, NEW c \in Clients, Show(c)
    PROVE  TokenInv'
<1> USE Frames, ProcessAssumption DEF TokenInv, Show, ReceiverTo,
        uplink, host, table, delivery, downlink, client
<1>1. TypeOK'
  BY DEF TypeOK, Main, Client, Region, MAX_RETRY_COUNT
<1>2. UplinkToken'
  BY DEF TypeOK, UplinkToken, UplinkExclusive, Sending
<1>3. FrameSound'
  BY DEF TypeOK, FrameSound, InSend
<1>4. ListenerSound'
  BY DEF TypeOK, ListenerSound, Tokens, InSend, Region
<1>5. BroadcastToken'
  BY DEF TypeOK, BroadcastToken, MAX_RETRY_COUNT
<1> QED
  BY <1>1, <1>2, <1>3, <1>4, <1>5

\* The region's token goes from space_sem to data_sem.
LEMMA DeliverTokenInv ==
    ASSUME TokenInv, NEW c \in Clients, Deliver(c)
    PROVE  TokenInv'
<1> USE Frames, ProcessAssumption DEF TokenInv, Deliver, Turn,
        uplink, host, table, delivery, downlink, client
<1>a. outbox # <<>> /\ Head(outbox) \in Frame
  BY DEF BroadcastToken, TypeOK
<1>b. Told(told[c], Head(outbox)) \in SUBSET Names
  BY <1>a, ToldNames DEF TypeOK
<1>c. down[c].space = 1 /\ down[c].data = 0
  BY DEF ListenerSound, TypeOK, Region
<1>d. /\ down'[c] = [space |-> 0, data |-> 1]
      /\ \A d \in Clients \ {c} : down'[d] = down[d]
  BY <1>c DEF TypeOK, Region
<1>1. TypeOK'
  BY <1>b, <1>d DEF TypeOK, Main, Client, Region, MAX_RETRY_COUNT
<1>2. UplinkToken'
  BY DEF TypeOK, UplinkToken, UplinkExclusive, Sending
<1>3. FrameSound'
  BY DEF TypeOK, FrameSound, InSend
<1>4. ListenerSound'
  BY DEF TypeOK, ListenerSound, Tokens, InSend, Region
<1>5. BroadcastToken'
  BY DEF TypeOK, BroadcastToken, MAX_RETRY_COUNT
<1> QED
  BY <1>1, <1>2, <1>3, <1>4, <1>5

\* A delivery given up leaves the region as it is.
LEMMA TimeoutTokenInv ==
    ASSUME TokenInv, NEW c \in Clients, Timeout(c)
    PROVE  TokenInv'
<1> USE Frames, ProcessAssumption DEF TokenInv, Timeout, Turn,
        uplink, host, table, delivery, downlink, client
<1>a. retries[c] \in 0..MAX_RETRY_COUNT /\ retries[c] < MAX_RETRY_COUNT
  BY DEF BroadcastToken, TypeOK
<1>b. retries[c] + 1 \in 0..MAX_RETRY_COUNT
  BY <1>a DEF MAX_RETRY_COUNT
<1>c. retries' \in [Clients -> 0..MAX_RETRY_COUNT]
  BY <1>b DEF TypeOK
<1>1. TypeOK'
  BY <1>c DEF TypeOK, Main, Client, Region, MAX_RETRY_COUNT
<1>2. UplinkToken'
  BY DEF TypeOK, UplinkToken, UplinkExclusive, Sending
<1>3. FrameSound'
  BY DEF TypeOK, FrameSound, InSend
<1>4. ListenerSound'
  BY DEF TypeOK, ListenerSound, Tokens, InSend, Region
<1>5. BroadcastToken'
  BY DEF TypeOK, BroadcastToken, MAX_RETRY_COUNT
<1> QED
  BY <1>1, <1>2, <1>3, <1>4, <1>5

\* With the last frame the right to use the table comes back.
LEMMA NextFrameTokenInv ==
    ASSUME TokenInv, NextFrame
    PROVE  TokenInv'
<1> USE Frames, ProcessAssumption DEF TokenInv, NextFrame, Post,
        uplink, host, table, delivery, downlink, client
<1>b. clients_sem = 0
  BY DEF BroadcastToken, TypeOK
<1>1. TypeOK'
  BY <1>b DEF TypeOK, Main, Client, Region, MAX_RETRY_COUNT
<1>2. UplinkToken'
  BY DEF TypeOK, UplinkToken, UplinkExclusive, Sending
<1>3. FrameSound'
  BY DEF TypeOK, FrameSound, InSend
<1>4. ListenerSound'
  BY DEF TypeOK, ListenerSound, Tokens, InSend, Region
<1>5. BroadcastToken'
  BY DEF TypeOK, BroadcastToken, MAX_RETRY_COUNT
<1> QED
  BY <1>1, <1>2, <1>3, <1>4, <1>5

\* The uplink's token goes from data_sem to the host.
LEMMA HostWaitTokenInv ==
    ASSUME TokenInv, HostWait
    PROVE  TokenInv'
<1> USE Frames, ProcessAssumption DEF TokenInv, HostWait, Wait,
        uplink, host, table, delivery, downlink, client
<1>1. TypeOK'
  BY DEF TypeOK, Main, Client, Region, MAX_RETRY_COUNT
<1>2. UplinkToken'
  BY DEF TypeOK, UplinkToken, UplinkExclusive, Sending
<1>3. FrameSound'
  BY DEF TypeOK, FrameSound, InSend
<1>4. ListenerSound'
  BY DEF TypeOK, ListenerSound, Tokens, InSend, Region
<1>5. BroadcastToken'
  BY DEF TypeOK, BroadcastToken, MAX_RETRY_COUNT
<1> QED
  BY <1>1, <1>2, <1>3, <1>4, <1>5

\* The uplink's token goes from the host to space_sem.
LEMMA HostCopyTokenInv ==
    ASSUME TokenInv, HostCopy
    PROVE  TokenInv'
<1> USE Frames, ProcessAssumption DEF TokenInv, HostCopy, Post,
        uplink, host, table, delivery, downlink, client
<1>a. frame \in Frame /\ space = 0
  BY DEF FrameSound, UplinkToken, TypeOK
<1>1. TypeOK'
  BY <1>a DEF TypeOK, Main, Client, Region, MAX_RETRY_COUNT
<1>2. UplinkToken'
  BY DEF TypeOK, UplinkToken, UplinkExclusive, Sending
<1>3. FrameSound'
  BY DEF TypeOK, FrameSound, InSend
<1>4. ListenerSound'
  BY DEF TypeOK, ListenerSound, Tokens, InSend, Region
<1>5. BroadcastToken'
  BY DEF TypeOK, BroadcastToken, MAX_RETRY_COUNT
<1> QED
  BY <1>1, <1>2, <1>3, <1>4, <1>5

\* The host measures a frame, or panics.
LEMMA HostScanTokenInv ==
    ASSUME TokenInv, HostScan
    PROVE  TokenInv'
<1> USE Frames, ProcessAssumption DEF TokenInv, HostScan,
        uplink, host, table, delivery, downlink, client
<1>a. marks # {} => Min(marks) \in Lengths
  BY FirstMark DEF TypeOK
<1>1. TypeOK'
  BY <1>a DEF TypeOK, Main, Client, Region, MAX_RETRY_COUNT
<1>2. UplinkToken'
  BY DEF TypeOK, UplinkToken, UplinkExclusive, Sending
<1>3. FrameSound'
  BY DEF TypeOK, FrameSound, InSend
<1>4. ListenerSound'
  BY DEF TypeOK, ListenerSound, Tokens, InSend, Region
<1>5. BroadcastToken'
  BY DEF TypeOK, BroadcastToken, MAX_RETRY_COUNT
<1> QED
  BY <1>1, <1>2, <1>3, <1>4, <1>5

\* A frame that does not parse changes nothing.
LEMMA DropFrameTokenInv ==
    ASSUME TokenInv, DropFrame
    PROVE  TokenInv'
<1> USE Frames, ProcessAssumption DEF TokenInv, DropFrame, NextLoop,
        uplink, host, table, delivery, downlink, client
<1>1. TypeOK'
  BY DEF TypeOK, Main, Client, Region, MAX_RETRY_COUNT
<1>2. UplinkToken'
  BY DEF TypeOK, UplinkToken, UplinkExclusive, Sending
<1>3. FrameSound'
  BY DEF TypeOK, FrameSound, InSend
<1>4. ListenerSound'
  BY DEF TypeOK, ListenerSound, Tokens, InSend, Region
<1>5. BroadcastToken'
  BY DEF TypeOK, BroadcastToken, MAX_RETRY_COUNT
<1> QED
  BY <1>1, <1>2, <1>3, <1>4, <1>5

\* A frame that is ignored changes nothing.
LEMMA IgnoreFrameTokenInv ==
    ASSUME TokenInv, IgnoreFrame
    PROVE  TokenInv'
<1> USE Frames, ProcessAssumption DEF TokenInv, IgnoreFrame, NextLoop,
        uplink, host, table, delivery, downlink, client
<1>1. TypeOK'
  BY DEF TypeOK, Main, Client, Region, MAX_RETRY_COUNT
<1>2. UplinkToken'
  BY DEF TypeOK, UplinkToken, UplinkExclusive, Sending
<1>3. FrameSound'
  BY DEF TypeOK, FrameSound, InSend
<1>4. ListenerSound'
  BY DEF TypeOK, ListenerSound, Tokens, InSend, Region
<1>5. BroadcastToken'
  BY DEF TypeOK, BroadcastToken, MAX_RETRY_COUNT
<1> QED
  BY <1>1, <1>2, <1>3, <1>4, <1>5

\* The table is taken, and the new member has all its retries.
LEMMA HandleJoinTokenInv ==
    ASSUME TokenInv, HandleJoin
    PROVE  TokenInv'
<1> USE Frames, ProcessAssumption DEF TokenInv, HandleJoin, Broadcast, Wait,
        uplink, host, table, delivery, downlink, client
<1>a. buf \in Frame /\ buf.from \in Clients
  BY DEF FrameSound
<1>b. <<buf>> \in Seq(Frame)
  BY <1>a
<1>1. TypeOK'
  BY <1>b DEF TypeOK, Main, Client, Region, MAX_RETRY_COUNT
<1>2. UplinkToken'
  BY DEF TypeOK, UplinkToken, UplinkExclusive, Sending
<1>3. FrameSound'
  BY DEF TypeOK, FrameSound, InSend
<1>4. ListenerSound'
  BY DEF TypeOK, ListenerSound, Tokens, InSend, Region
<1>5. BroadcastToken'
  BY DEF TypeOK, BroadcastToken, MAX_RETRY_COUNT
<1> QED
  BY <1>1, <1>2, <1>3, <1>4, <1>5

\* The table is taken for a message.
LEMMA HandleMsgTokenInv ==
    ASSUME TokenInv, HandleMsg
    PROVE  TokenInv'
<1> USE Frames, ProcessAssumption DEF TokenInv, HandleMsg, Broadcast, Wait,
        uplink, host, table, delivery, downlink, client
<1>a. <<buf>> \in Seq(Frame)
  BY DEF FrameSound
<1>1. TypeOK'
  BY <1>a DEF TypeOK, Main, Client, Region, MAX_RETRY_COUNT
<1>2. UplinkToken'
  BY DEF TypeOK, UplinkToken, UplinkExclusive, Sending
<1>3. FrameSound'
  BY DEF TypeOK, FrameSound, InSend
<1>4. ListenerSound'
  BY DEF TypeOK, ListenerSound, Tokens, InSend, Region
<1>5. BroadcastToken'
  BY DEF TypeOK, BroadcastToken, MAX_RETRY_COUNT
<1> QED
  BY <1>1, <1>2, <1>3, <1>4, <1>5

\* The table is taken, and the frame goes to those who stay.
LEMMA HandleLeaveTokenInv ==
    ASSUME TokenInv, HandleLeave
    PROVE  TokenInv'
<1> USE Frames, ProcessAssumption DEF TokenInv, HandleLeave, Broadcast, Wait,
        uplink, host, table, delivery, downlink, client
<1>a. <<buf>> \in Seq(Frame)
  BY DEF FrameSound
<1>1. TypeOK'
  BY <1>a DEF TypeOK, Main, Client, Region, MAX_RETRY_COUNT
<1>2. UplinkToken'
  BY DEF TypeOK, UplinkToken, UplinkExclusive, Sending
<1>3. FrameSound'
  BY DEF TypeOK, FrameSound, InSend
<1>4. ListenerSound'
  BY DEF TypeOK, ListenerSound, Tokens, InSend, Region
<1>5. BroadcastToken'
  BY DEF TypeOK, BroadcastToken, MAX_RETRY_COUNT
<1> QED
  BY <1>1, <1>2, <1>3, <1>4, <1>5

\* When the probe thread has ended nobody is broadcasting.
LEMMA HostEndTokenInv ==
    ASSUME TokenInv, HostEnd
    PROVE  TokenInv'
<1> USE Frames, ProcessAssumption DEF TokenInv, HostEnd,
        uplink, host, table, delivery, downlink, client
<1>a. todo = {}
  BY DEF BroadcastToken, TypeOK
<1>1. TypeOK'
  BY <1>a DEF TypeOK, Main, Client, Region, MAX_RETRY_COUNT
<1>2. UplinkToken'
  BY DEF TypeOK, UplinkToken, UplinkExclusive, Sending
<1>3. FrameSound'
  BY DEF TypeOK, FrameSound, InSend
<1>4. ListenerSound'
  BY DEF TypeOK, ListenerSound, Tokens, InSend, Region
<1>5. BroadcastToken'
  BY DEF TypeOK, BroadcastToken, MAX_RETRY_COUNT
<1> QED
  BY <1>1, <1>2, <1>3, <1>4, <1>5

\* The table is taken by the probe thread, for one frame per zombie.
LEMMA ReapTokenInv ==
    ASSUME TokenInv, Reap
    PROVE  TokenInv'
<1> USE Frames, ProcessAssumption DEF TokenInv, Reap, Broadcast, Wait,
        uplink, host, table, delivery, downlink, client
<1>a. PICK names \in SetToSeqs(Zombies) :
        Broadcast([i \in DOMAIN names |-> LeaveOf(names[i])], members')
  OBVIOUS
<1>b. Zombies \subseteq Clients /\ Zombies # {} /\ IsFiniteSet(Zombies)
  BY FS_Subset DEF Zombies, TypeOK
<1>c. Cardinality(Zombies) \in Nat \ {0}
  BY <1>b, FS_CardinalityType, FS_EmptySet
<1>d. names \in [1..Cardinality(Zombies) -> Clients]
  BY <1>b DEF SetToSeqs
<1>e. outbox' = [i \in 1..Cardinality(Zombies) |-> LeaveOf(names[i])]
  BY <1>a, <1>d DEF Broadcast
<1>f. outbox' \in [1..Cardinality(Zombies) -> Frame]
  BY <1>d, <1>e DEF LeaveOf
<1>g. outbox' \in Seq(Frame) /\ outbox' # <<>>
  BY <1>c, <1>f
<1>1. TypeOK'
  BY <1>g DEF TypeOK, Main, Client, Region, MAX_RETRY_COUNT
<1>2. UplinkToken'
  BY DEF TypeOK, UplinkToken, UplinkExclusive, Sending
<1>3. FrameSound'
  BY DEF TypeOK, FrameSound, InSend
<1>4. ListenerSound'
  BY DEF TypeOK, ListenerSound, Tokens, InSend, Region
<1>5. BroadcastToken'
  <2>1. clients_sem' = 0 /\ probe' = "reap" /\ main' = main /\ retries' = retries
    BY DEF TypeOK
  <2>2. \A c \in todo' : retries'[c] < MAX_RETRY_COUNT
    BY <1>a DEF Broadcast
  <2>3. main \notin {"broadcast", "aborted"}
    BY DEF BroadcastToken
  <2> HIDE DEF Reap, Broadcast
  <2> QED
    BY <1>g, <2>1, <2>2, <2>3 DEF BroadcastToken
<1> QED
  BY <1>1, <1>2, <1>3, <1>4, <1>5

\* The probe thread ends only between two rounds.
LEMMA ProbeStopTokenInv ==
    ASSUME TokenInv, ProbeStop
    PROVE  TokenInv'
<1> USE Frames, ProcessAssumption DEF TokenInv, ProbeStop,
        uplink, host, table, delivery, downlink, client
<1>1. TypeOK'
  BY DEF TypeOK, Main, Client, Region, MAX_RETRY_COUNT
<1>2. UplinkToken'
  BY DEF TypeOK, UplinkToken, UplinkExclusive, Sending
<1>3. FrameSound'
  BY DEF TypeOK, FrameSound, InSend
<1>4. ListenerSound'
  BY DEF TypeOK, ListenerSound, Tokens, InSend, Region
<1>5. BroadcastToken'
  BY DEF TypeOK, BroadcastToken, MAX_RETRY_COUNT
<1> QED
  BY <1>1, <1>2, <1>3, <1>4, <1>5

\* The events stay within their bound.
LEMMA FlagBounded ==
    ASSUME NEW p \in Process, Flag(p), events \in 0..MaxEvents
    PROVE  events' \in 0..MaxEvents
  BY BoundAssumption DEF Flag

\* A client that is interrupted in a wait holds no token.
LEMMA InterruptClientTokenInv ==
    ASSUME TokenInv, NEW c \in Clients, InterruptClient(c)
    PROVE  TokenInv'
<1> USE Frames, ProcessAssumption DEF TokenInv, InterruptClient, Flag, Send, End, Goto, ReceiverTo,
        uplink, host, table, delivery, downlink, client
<1>a. events' \in 0..MaxEvents
  BY FlagBounded DEF TypeOK
<1>b. sending' \in [Clients -> Frame \cup {NoFrame}]
  <2>1. \/ sending' = sending
        \/ \E f \in Frame \cup {NoFrame} : sending' = [sending EXCEPT ![c] = f]
    BY Zenon
  <2> QED
    BY <2>1 DEF TypeOK
<1>d. /\ \A d \in Clients \ {c} : pc'[d] = pc[d] /\ sending'[d] = sending[d]
      /\ \/ UNCHANGED <<pc, sending>>
         \/ pc'[c] = "ended"
         \/ pc'[c] = "space" /\ sending'[c] = [kind |-> "LEAVE", from |-> c]
  BY DEF TypeOK
<1>1. TypeOK'
  BY <1>a, <1>b DEF TypeOK, Main, Client, Region, MAX_RETRY_COUNT
<1>2. UplinkToken'
  BY DEF TypeOK, UplinkToken, UplinkExclusive, Sending
<1>3. FrameSound'
  <2>1. UNCHANGED <<uplink, host>>
    OBVIOUS
  <2>2. pc'[c] = "ending" => pc[c] = "ending" /\ UNCHANGED <<pc, sending>>
    BY <1>d
  <2> HIDE DEF InterruptClient, Send, End, Goto, ReceiverTo
  <2>3. \A d \in Clients : InSend(d)' => sending'[d] \in Frame /\ sending'[d].from = d
    BY <1>d DEF FrameSound, InSend
  <2>4. \A d \in Clients : pc'[d] = "ending" => pc[d] = "ending" /\ sending'[d] = sending[d]
    BY <1>d, <2>2
  <2> QED
    BY <2>1, <2>3, <2>4 DEF FrameSound
<1>4. ListenerSound'
  BY DEF TypeOK, ListenerSound, Tokens, InSend, Region
<1>5. BroadcastToken'
  BY DEF TypeOK, BroadcastToken, MAX_RETRY_COUNT
<1> QED
  BY <1>1, <1>2, <1>3, <1>4, <1>5

\* A host that panics keeps its tokens from everybody.
LEMMA InterruptHostTokenInv ==
    ASSUME TokenInv, InterruptHost
    PROVE  TokenInv'
<1> USE Frames, ProcessAssumption DEF TokenInv, InterruptHost, Flag,
        uplink, host, table, delivery, downlink, client
<1>a. events' \in 0..MaxEvents
  BY FlagBounded DEF TypeOK
<1>1. TypeOK'
  BY <1>a DEF TypeOK, Main, Client, Region, MAX_RETRY_COUNT
<1>2. UplinkToken'
  BY DEF TypeOK, UplinkToken, UplinkExclusive, Sending
<1>3. FrameSound'
  BY DEF TypeOK, FrameSound, InSend
<1>4. ListenerSound'
  BY DEF TypeOK, ListenerSound, Tokens, InSend, Region
<1>5. BroadcastToken'
  BY DEF TypeOK, BroadcastToken, MAX_RETRY_COUNT
<1> QED
  BY <1>1, <1>2, <1>3, <1>4, <1>5

\* A client that is killed keeps its tokens from everybody.
LEMMA KillTokenInv ==
    ASSUME TokenInv, NEW c \in Clients, Kill(c)
    PROVE  TokenInv'
<1> USE Frames, ProcessAssumption DEF TokenInv, Kill, Goto, ReceiverTo,
        uplink, host, table, delivery, downlink, client
<1>1. TypeOK'
  BY DEF TypeOK, Main, Client, Region, MAX_RETRY_COUNT
<1>2. UplinkToken'
  BY DEF TypeOK, UplinkToken, UplinkExclusive, Sending
<1>3. FrameSound'
  BY DEF TypeOK, FrameSound, InSend
<1>4. ListenerSound'
  BY DEF TypeOK, ListenerSound, Tokens, InSend, Region
<1>5. BroadcastToken'
  BY DEF TypeOK, BroadcastToken, MAX_RETRY_COUNT
<1> QED
  BY <1>1, <1>2, <1>3, <1>4, <1>5
-----------------------------------------------------------------------------
(* The theorems.                                                           *)

\* Every step of the system preserves the invariant.
LEMMA NextTokenInv == TokenInv /\ [Next]_vars => TokenInv'
<1> SUFFICES ASSUME TokenInv, [Next]_vars PROVE TokenInv'
  OBVIOUS
<1>1. CASE BroadcastStep
  BY <1>1, NextFrameTokenInv, DeliverTokenInv, TimeoutTokenInv DEF BroadcastStep
<1>2. CASE MainStep
  BY <1>2, HostWaitTokenInv, HostCopyTokenInv, HostScanTokenInv, DropFrameTokenInv, IgnoreFrameTokenInv,
     HandleJoinTokenInv, HandleMsgTokenInv, HandleLeaveTokenInv, HostEndTokenInv DEF MainStep
<1>3. CASE ProbeStep
  BY <1>3, ReapTokenInv, ProbeStopTokenInv DEF ProbeStep
<1>4. CASE SignalStep
  BY <1>4, InterruptHostTokenInv, InterruptClientTokenInv, KillTokenInv DEF SignalStep
<1>5. ASSUME NEW c \in Clients, SendStep(c) PROVE TokenInv'
  BY <1>5, TakeSpaceTokenInv, WriteFrameTokenInv, EndFrameTokenInv DEF SendStep
<1>6. ASSUME NEW c \in Clients, RecvStep(c) PROVE TokenInv'
  BY <1>6, ReceiveTokenInv, GiveSpaceTokenInv, ShowTokenInv DEF RecvStep
<1>7. ASSUME NEW c \in Clients, UserStep(c) PROVE TokenInv'
  BY <1>7, StartTokenInv, TypeLineTokenInv, QuitTokenInv DEF UserStep
<1>8. CASE UNCHANGED vars
  BY <1>8 DEF vars, uplink, host, table, delivery, downlink, client, TokenInv, TypeOK,
              UplinkToken, UplinkExclusive, Sending, FrameSound, InSend, ListenerSound,
              Tokens, BroadcastToken
<1> QED
  BY <1>1, <1>2, <1>3, <1>4, <1>5, <1>6, <1>7, <1>8 DEF Next

\* In every reachable state each of the tokens of the uplink, of the clients' regions
\* and of the table is in one place, whoever is killed or interrupted.
LEMMA TokensKept == Spec => []TokenInv
  BY InitTokenInv, NextTokenInv, PTL DEF Spec

\* Every variable keeps its type; no semaphore is ever posted beyond 1.
THEOREM TypeCorrect == Spec => []TypeOK
<1>1. TokenInv => TypeOK
  BY DEF TokenInv
<1> QED
  BY <1>1, TokensKept, PTL

\* Nobody else is in the host's region while a client writes it.
THEOREM UplinkExclusion == Spec => []UplinkExclusive
<1>1. TokenInv => UplinkExclusive
  BY DEF TokenInv, UplinkToken
<1> QED
  BY <1>1, TokensKept, PTL

\* The region of a client that listens is never lost, although deliveries are given
\* up and tried again by two threads of the host.
THEOREM DownlinkKept == Spec => []DownlinkSound
<1>1. TokenInv => DownlinkSound
  BY DEF TokenInv, ListenerSound, DownlinkSound
<1> QED
  BY <1>1, TokensKept, PTL
-----------------------------------------------------------------------------
(* Who is told what.                                                       *)

\* An ordering of some things has each of them.
LEMMA SetToSeqsAll ==
    ASSUME NEW S, IsFiniteSet(S), S # {}, NEW names \in SetToSeqs(S)
    PROVE  /\ 1 \in DOMAIN names
           /\ \A i \in DOMAIN names : names[i] \in S
           /\ \A x \in S : \E i \in DOMAIN names : names[i] = x
<1> DEFINE n == Cardinality(S)
<1>1. n \in Nat \ {0}
  BY FS_CardinalityType, FS_EmptySet
<1>2. /\ names \in [1..n -> S]
      /\ \A i, j \in 1..n : i # j => names[i] # names[j]
  BY DEF SetToSeqs
<1>3. IsFiniteSet(1..n) /\ Cardinality(1..n) = n
  BY <1>1, FS_Interval
<1>4. names \in Injection(1..n, S)
  BY <1>2 DEF Injection, IsInjective
<1>5. names \in Surjection(1..n, S)
  BY <1>3, <1>4, FS_Injection
<1> QED
  BY <1>1, <1>2, <1>5 DEF Surjection

\* A step that brings no JOIN nearer, no member and nobody news.
LEMMA SameJoins ==
    ASSUME JoinSound, members' \subseteq members, told' = told,
           \A c \in Clients :
               /\ JoinUnsent(c)' => JoinUnsent(c)
               /\ JoinWaits(c)' => JoinWaits(c)
               /\ JoinCopied(c)' => JoinCopied(c)
    PROVE  JoinSound'
  BY DEF JoinSound

\* No JOIN is sent or on its way at first, and nobody is told anything.
LEMMA InitJoins == Init => JoinSound
  BY NoFrameAssumption DEF Init, JoinSound, JoinUnsent, JoinWaits, JoinCopied, InSend

\* What a client sends when it has joined is no JOIN.
LEMMA ClientJoins ==
    ASSUME TokenInv, JoinSound, NEW c \in Clients,
           \/ UserStep(c) \/ TakeSpace(c) \/ WriteFrame(c) \/ RecvStep(c)
           \/ InterruptClient(c) \/ Kill(c)
    PROVE  JoinSound'
<1> USE DEF uplink, host, table, delivery, downlink, client
<1>1. members' = members /\ told' = told /\ UNCHANGED <<data, main, buf>>
  BY DEF UserStep, Start, TypeLine, Quit, TakeSpace, WriteFrame, RecvStep, Receive, GiveSpace, Show,
         InterruptClient, Kill
<1>2. \A d \in Clients : JoinUnsent(d)' => JoinUnsent(d)
  BY DEF TokenInv, TypeOK, JoinUnsent, JoinOf, InSend, UserStep, Start, TypeLine, Quit,
         TakeSpace, WriteFrame, RecvStep, Receive, GiveSpace, Show, InterruptClient, Kill,
         Send, End, Goto
<1>3. data = 1 \/ main = "copy" => frame' = frame
  BY DEF TokenInv, UplinkToken, UplinkExclusive, Sending, UserStep, Start, TypeLine, Quit,
         TakeSpace, WriteFrame, RecvStep, Receive, GiveSpace, Show, InterruptClient, Kill
<1>4. \A d \in Clients : (JoinWaits(d)' => JoinWaits(d)) /\ (JoinCopied(d)' => JoinCopied(d))
  BY <1>1, <1>3 DEF JoinWaits, JoinCopied
<1> QED
  BY <1>1, <1>2, <1>4, SameJoins

\* A JOIN that was being sent is in the region, and none was there.
LEMMA EndFrameJoins ==
    ASSUME TokenInv, JoinSound, NEW c \in Clients, EndFrame(c)
    PROVE  JoinSound'
<1>1. /\ pc[c] = "ending" /\ data = 0 /\ main # "copy" /\ frame = sending[c]
      /\ sending[c] \in Frame /\ sending[c].from = c
  BY DEF TokenInv, UplinkToken, UplinkExclusive, Sending, FrameSound, InSend, EndFrame
<1>2. UNCHANGED <<frame, main, buf, members, told>>
  BY DEF EndFrame, host, table, downlink
<1>3. \A d \in Clients \ {c} : JoinUnsent(d)' <=> JoinUnsent(d)
  BY DEF TokenInv, TypeOK, EndFrame, AfterSend, Send, End, Goto, JoinUnsent, InSend
<1>4. ~JoinUnsent(c)'
  BY DEF TokenInv, TypeOK, EndFrame, AfterSend, Send, End, Goto, JoinUnsent, JoinOf, InSend
<1>5. \A d \in Clients : ~JoinWaits(d) /\ (JoinWaits(d)' => d = c /\ JoinUnsent(c))
  BY <1>1, <1>2 DEF JoinWaits, JoinUnsent, JoinOf, InSend
<1>6. \A d \in Clients : JoinCopied(d)' <=> JoinCopied(d)
  BY <1>2 DEF JoinCopied
<1> QED
  BY <1>2, <1>3, <1>4, <1>5, <1>6 DEF JoinSound

\* A JOIN that was in the region is with the host, and no longer in the region.
LEMMA HostCopyJoins ==
    ASSUME TokenInv, JoinSound, HostCopy
    PROVE  JoinSound'
<1>1. /\ main = "copy" /\ main' = "scan" /\ data = 0 /\ data' = 0 /\ buf' = frame
      /\ UNCHANGED <<pc, sending, members, told>>
  BY DEF TokenInv, TypeOK, UplinkToken, HostCopy, table, downlink, client
<1>2. \A c \in Clients : /\ JoinUnsent(c)' <=> JoinUnsent(c)
                         /\ ~JoinWaits(c)' /\ ~JoinCopied(c)
                         /\ JoinCopied(c)' => JoinWaits(c)
  BY <1>1 DEF JoinUnsent, JoinWaits, JoinCopied, InSend
<1> QED
  BY <1>1, <1>2 DEF JoinSound

\* A JOIN that is handled is on its way no more.
LEMMA HandleJoinJoins ==
    ASSUME TokenInv, JoinSound, HandleJoin
    PROVE  JoinSound'
<1>1. /\ main = "handle" /\ buf = JoinOf(buf.from) /\ buf.from \in Clients
      /\ main' = "broadcast" /\ members' = members \cup {buf.from}
      /\ UNCHANGED <<data, frame, pc, sending, told>>
  BY DEF TokenInv, FrameSound, Frame, HandleJoin, JoinOf, uplink, downlink, client
<1>2. \A c \in Clients : /\ JoinUnsent(c)' <=> JoinUnsent(c)
                         /\ JoinWaits(c)' => JoinWaits(c)
                         /\ ~JoinCopied(c)'
  BY <1>1 DEF JoinUnsent, JoinWaits, JoinCopied, InSend
<1>3. JoinCopied(buf.from)
  BY <1>1 DEF JoinCopied
<1> QED
  BY <1>1, <1>2, <1>3 DEF JoinSound

\* Only members are told anything.
LEMMA DeliverJoins ==
    ASSUME TokenInv, JoinSound, NEW c \in Clients, Deliver(c)
    PROVE  JoinSound'
<1>1. c \in members /\ \A d \in Clients \ {c} : told'[d] = told[d]
  BY DEF TokenInv, TypeOK, Deliver, Turn
<1>2. \A d \in Clients : /\ JoinUnsent(d)' <=> JoinUnsent(d)
                         /\ JoinWaits(d)' <=> JoinWaits(d)
                         /\ JoinCopied(d)' <=> JoinCopied(d)
  BY DEF Deliver, uplink, host, client, JoinUnsent, JoinWaits, JoinCopied, InSend
<1> QED
  BY <1>1, <1>2 DEF JoinSound, Deliver

\* The rest of what the host does brings no JOIN nearer.
LEMMA HostJoins ==
    ASSUME TokenInv, JoinSound,
           \/ NextFrame \/ (\E c \in Clients : Timeout(c))
           \/ HostWait \/ HostScan \/ DropFrame \/ IgnoreFrame \/ HandleMsg \/ HandleLeave
           \/ HostEnd \/ ProbeStep \/ InterruptHost
    PROVE  JoinSound'
<1> USE DEF NextFrame, Timeout, HostWait, HostScan, DropFrame, IgnoreFrame, HandleMsg, HandleLeave,
            HostEnd, ProbeStep, Reap, ProbeStop, InterruptHost, NextLoop, Wait,
            uplink, host, table, delivery, downlink, client
<1>1. members' \subseteq members /\ UNCHANGED <<told, pc, sending, frame, buf>>
  OBVIOUS
<1>2. data' = 1 \/ main' = "copy" => data = 1 \/ main = "copy"
  BY DEF TokenInv, TypeOK
<1>3. main' \in {"scan", "handle"} => main \in {"scan", "handle"}
  OBVIOUS
<1> HIDE DEF NextFrame, Timeout, HostWait, HostScan, DropFrame, IgnoreFrame, HandleMsg, HandleLeave,
             HostEnd, ProbeStep, Reap, ProbeStop, InterruptHost, NextLoop, Wait,
             uplink, host, table, delivery, downlink, client
<1> QED
  BY <1>1, <1>2, <1>3, SameJoins DEF JoinUnsent, JoinWaits, JoinCopied, InSend

\* Every step keeps the JOIN of each client in one place.
LEMMA NextJoins == TokenInv /\ JoinSound /\ [Next]_vars => JoinSound'
<1> SUFFICES ASSUME TokenInv, JoinSound, [Next]_vars PROVE JoinSound'
  OBVIOUS
<1>1. CASE BroadcastStep
  BY <1>1, HostJoins, DeliverJoins DEF BroadcastStep
<1>2. CASE MainStep
  BY <1>2, HostJoins, HostCopyJoins, HandleJoinJoins DEF MainStep
<1>3. CASE ProbeStep
  BY <1>3, HostJoins
<1>4. CASE SignalStep
  BY <1>4, HostJoins, ClientJoins DEF SignalStep
<1>5. ASSUME NEW c \in Clients, SendStep(c) PROVE JoinSound'
  BY <1>5, ClientJoins, EndFrameJoins DEF SendStep
<1>6. ASSUME NEW c \in Clients, RecvStep(c) \/ UserStep(c) PROVE JoinSound'
  BY <1>6, ClientJoins
<1>7. CASE UNCHANGED vars
  BY <1>7, SameJoins DEF vars, uplink, host, table, downlink, client,
                         JoinUnsent, JoinWaits, JoinCopied, InSend
<1> QED
  BY <1>1, <1>2, <1>3, <1>4, <1>5, <1>6, <1>7 DEF Next

\* Nobody is a member at first.
LEMMA InitRoster == Init => RosterSound
  BY DEF Init, RosterSound

\* A member that a frame is delivered to knows what the frame says.
LEMMA DeliverRoster ==
    ASSUME TokenInv, RosterSound, NEW c \in Clients, Deliver(c)
    PROVE  RosterSound'
<1> DEFINE f == Head(outbox)
<1>1. /\ c \in todo /\ c \in members /\ retries[c] < MAX_RETRY_COUNT
      /\ todo' = todo \ {c} /\ UNCHANGED <<members, outbox>>
  BY DEF TokenInv, TypeOK, BroadcastToken, Deliver, Turn
<1>2. outbox # <<>> /\ outbox \in Seq(Frame) /\ 1 \in DOMAIN outbox /\ f = outbox[1] /\ f \in Frame
  BY <1>1 DEF TokenInv, TypeOK, BroadcastToken
<1>3. /\ told'[c] = Told(told[c], f)
      /\ \A d \in Clients \ {c} : told'[d] = told[d] /\ retries'[d] = retries[d]
  BY DEF TokenInv, TypeOK, Deliver
<1>4. \A name : Present(name)' <=> Present(name)
  BY <1>1 DEF Present
<1>5. \A d \in Clients \ {c} : \A name : LeaveLeft(d, name)' <=> LeaveLeft(d, name)
  BY <1>1 DEF LeaveLeft
<1>6. \A name : LeaveLeft(c, name) =>
         LeaveLeft(c, name)' \/ (f.kind = "LEAVE" /\ NameOf[f.from] = name)
  BY <1>1, <1>2 DEF LeaveLeft
<1>7. NameOf[c] \in told'[c]
  <2>1. CASE f = JoinOf(c)
    BY <1>3, <2>1 DEF Told, JoinOf
  <2>2. CASE f # JoinOf(c)
    <3>1. NameOf[c] \in told[c] /\ Present(NameOf[c])
      BY <1>1, <2>2 DEF RosterSound, Present
    <3>2. f.kind = "LEAVE" => NameOf[f.from] # NameOf[c]
      BY <1>2, <3>1 DEF RosterSound
    <3> QED BY <1>3, <3>1, <3>2 DEF Told
  <2> QED BY <2>1, <2>2
<1>8. ASSUME NEW name \in told'[c]
      PROVE  Present(name) \/ LeaveLeft(c, name)'
  <2>1. CASE name \in told[c] /\ ~(f.kind = "LEAVE" /\ NameOf[f.from] = name)
    BY <1>1, <1>6, <2>1 DEF RosterSound
  <2>2. CASE f.kind = "JOIN" /\ name = NameOf[f.from]
    BY <1>2, <2>2 DEF RosterSound, Present
  <2> QED BY <1>3, <1>8, <2>1, <2>2 DEF Told
<1>9. members \subseteq Clients
  BY DEF TokenInv, TypeOK
<1> HIDE DEF f
<1>10. ASSUME NEW d \in members, retries'[d] < MAX_RETRY_COUNT
       PROVE  /\ NameOf[d] \in told'[d] \/ (d \in todo' /\ Head(outbox) = JoinOf(d))
              /\ \A name \in told'[d] : Present(name) \/ LeaveLeft(d, name)'
  <2>1. CASE d = c
    BY <1>7, <1>8, <2>1
  <2>2. CASE d # c
    BY <1>1, <1>3, <1>5, <1>9, <1>10, <2>2 DEF RosterSound
  <2> QED BY <2>1, <2>2
<1> QED
  BY <1>1, <1>4, <1>10 DEF RosterSound

\* A member that was tried in vain is still to be told, or is a zombie.
LEMMA TimeoutRoster ==
    ASSUME TokenInv, RosterSound, NEW c \in Clients, Timeout(c)
    PROVE  RosterSound'
<1>1. /\ members \subseteq Clients /\ UNCHANGED <<members, outbox, told>>
      /\ \A d \in Clients \ {c} : retries'[d] = retries[d] /\ (d \in todo' <=> d \in todo)
  BY DEF TokenInv, TypeOK, Timeout, downlink
<1>2. retries'[c] < MAX_RETRY_COUNT =>
         retries[c] < MAX_RETRY_COUNT /\ (c \in todo' <=> c \in todo)
  BY DEF TokenInv, TypeOK, Timeout, MAX_RETRY_COUNT
<1>3. \A name : Present(name)' <=> Present(name)
  BY <1>1 DEF Present
<1>4. ASSUME NEW d \in members, retries'[d] < MAX_RETRY_COUNT
      PROVE  /\ NameOf[d] \in told'[d] \/ (d \in todo' /\ Head(outbox') = JoinOf(d))
             /\ \A name \in told'[d] : Present(name) \/ LeaveLeft(d, name)'
  <2>1. retries[d] < MAX_RETRY_COUNT /\ (d \in todo' <=> d \in todo)
    BY <1>1, <1>2, <1>4
  <2>2. \A name : LeaveLeft(d, name)' <=> LeaveLeft(d, name)
    BY <1>1, <2>1 DEF LeaveLeft
  <2> QED BY <1>1, <2>1, <2>2 DEF RosterSound
<1> QED
  BY <1>1, <1>3, <1>4 DEF RosterSound

\* When all were tried with a frame, it is over; all that answer are tried with the next.
LEMMA NextFrameRoster ==
    ASSUME TokenInv, RosterSound, NextFrame
    PROVE  RosterSound'
<1>1. /\ outbox # <<>> /\ outbox \in Seq(Frame) /\ outbox' = Tail(outbox) /\ todo = {}
      /\ UNCHANGED <<members, retries, told>>
  BY DEF TokenInv, TypeOK, NextFrame, table, downlink
<1>2. \A i \in DOMAIN outbox' : i + 1 \in DOMAIN outbox /\ outbox'[i] = outbox[i + 1]
  BY <1>1
<1>3. \A i \in DOMAIN outbox : i # 1 => i - 1 \in DOMAIN outbox' /\ outbox'[i - 1] = outbox[i]
  BY <1>1
<1>4. outbox' # <<>> => \A d \in members : retries[d] < MAX_RETRY_COUNT => d \in todo'
  BY <1>1 DEF NextFrame
<1>5. \A name : Present(name)' <=> Present(name)
  BY <1>1 DEF Present
<1>6. ASSUME NEW d \in members, retries[d] < MAX_RETRY_COUNT, NEW name, LeaveLeft(d, name)
      PROVE  LeaveLeft(d, name)'
  <2>1. PICK i \in DOMAIN outbox :
           outbox[i].kind = "LEAVE" /\ NameOf[outbox[i].from] = name /\ i # 1
    BY <1>1, <1>6 DEF LeaveLeft
  <2>2. i - 1 \in DOMAIN outbox' /\ outbox'[i - 1] = outbox[i] /\ outbox' # <<>>
    BY <1>1, <1>3, <2>1
  <2> QED BY <1>4, <1>6, <2>1, <2>2 DEF LeaveLeft
<1>7. \A i \in DOMAIN outbox' :
         /\ outbox'[i].kind = "JOIN" => outbox'[i].from \in members
         /\ outbox'[i].kind = "LEAVE" => ~Present(NameOf[outbox'[i].from])
  BY <1>2 DEF RosterSound
<1> QED
  BY <1>1, <1>5, <1>6, <1>7 DEF RosterSound

\* Between broadcasts members know exactly who is there.
LEMMA AtRest ==
    ASSUME TokenInv, RosterSound, clients_sem > 0
    PROVE  /\ outbox = <<>> /\ todo = {}
           /\ \A d \in members : retries[d] < MAX_RETRY_COUNT =>
                 NameOf[d] \in told[d] /\ \A name \in told[d] : Present(name)
<1>1. outbox = <<>> /\ todo = {}
  BY DEF TokenInv, TypeOK, BroadcastToken
<1> QED
  BY <1>1 DEF RosterSound, LeaveLeft

\* A new member knows nothing yet, and everybody is to be told of it.
LEMMA HandleJoinRoster ==
    ASSUME TokenInv, JoinSound, RosterSound, HandleJoin
    PROVE  RosterSound'
<1> DEFINE b == buf.from
<1>1. /\ buf = JoinOf(b) /\ b \in Clients /\ members \subseteq Clients
      /\ members' = members \cup {b} /\ outbox' = <<buf>> /\ clients_sem > 0
      /\ told' = told /\ retries'[b] = 0 /\ \A d \in Clients \ {b} : retries'[d] = retries[d]
      /\ todo' = {d \in members' : retries'[d] < MAX_RETRY_COUNT}
      /\ \A d \in members : NameOf[d] # NameOf[b]
  BY DEF TokenInv, TypeOK, FrameSound, Frame, HandleJoin, JoinOf, Broadcast, Wait, Named, downlink
<1>2. told[b] = {} /\ b \notin members
  BY <1>1 DEF JoinSound, JoinCopied, HandleJoin
<1> HIDE DEF b
<1>3. \A d \in members : retries[d] < MAX_RETRY_COUNT =>
         NameOf[d] \in told[d] /\ \A name \in told[d] : Present(name)
  BY <1>1, AtRest
<1>4. \A name : Present(name) => Present(name)'
  BY <1>1 DEF Present
<1>5. \A i \in DOMAIN outbox' : outbox'[i] = JoinOf(b)
  BY <1>1
<1>6. Head(outbox') = JoinOf(b)
  BY <1>1
<1>7. \A i \in DOMAIN outbox' :
         /\ outbox'[i].from \in members'
         /\ outbox'[i].kind # "LEAVE"
  BY <1>1, <1>5 DEF JoinOf
<1>8. ASSUME NEW d \in members', retries'[d] < MAX_RETRY_COUNT
      PROVE  /\ NameOf[d] \in told'[d] \/ (d \in todo' /\ Head(outbox') = JoinOf(d))
             /\ \A name \in told'[d] : Present(name)'
  <2>1. CASE d = b
    BY <1>1, <1>2, <1>6, <1>8, <2>1
  <2>2. CASE d # b
    BY <1>1, <1>3, <1>4, <1>8, <2>2
  <2> QED BY <2>1, <2>2
<1>9. \A c, d \in members' : NameOf[c] = NameOf[d] => c = d
  BY <1>1 DEF RosterSound
<1> QED
  BY <1>7, <1>8, <1>9 DEF RosterSound

\* A line says nothing of who is there.
LEMMA HandleMsgRoster ==
    ASSUME TokenInv, RosterSound, HandleMsg
    PROVE  RosterSound'
<1>1. /\ buf.kind = "MSG" /\ outbox' = <<buf>> /\ clients_sem > 0
      /\ UNCHANGED <<members, retries, told>>
  BY DEF HandleMsg, Broadcast, Wait, table, downlink
<1>2. \A i \in DOMAIN outbox' : outbox'[i].kind = "MSG"
  BY <1>1
<1>3. \A d \in members : retries[d] < MAX_RETRY_COUNT =>
         NameOf[d] \in told[d] /\ \A name \in told[d] : Present(name)
  BY <1>1, AtRest
<1>4. \A name : Present(name)' <=> Present(name)
  BY <1>1 DEF Present
<1> QED
  BY <1>1, <1>2, <1>3, <1>4 DEF RosterSound

\* Some members are gone, and frames wait that tell all others that answer of it.
LEMMA Departed ==
    ASSUME RosterSound, told' = told, retries' = retries, members' \subseteq members,
           \A d \in members : retries[d] < MAX_RETRY_COUNT =>
              NameOf[d] \in told[d] /\ \A name \in told[d] : Present(name),
           \A i \in DOMAIN outbox' :
              /\ outbox'[i].kind = "LEAVE"
              /\ \E c \in members \ members' : NameOf[outbox'[i].from] = NameOf[c],
           \A c \in members \ members' :
              \E i \in DOMAIN outbox' : NameOf[outbox'[i].from] = NameOf[c],
           \A d \in members' : retries[d] < MAX_RETRY_COUNT => d \in todo'
    PROVE  RosterSound'
<1>1. \A i \in DOMAIN outbox', c \in members' : NameOf[c] # NameOf[outbox'[i].from]
  BY DEF RosterSound, Present
<1>2. ASSUME NEW d \in members', retries[d] < MAX_RETRY_COUNT, NEW name \in told[d]
      PROVE  Present(name)' \/ LeaveLeft(d, name)'
  <2>1. PICK c \in members : NameOf[c] = name
    BY <1>2 DEF Present
  <2>2. CASE c \in members'
    BY <2>1, <2>2 DEF Present
  <2>3. CASE c \notin members'
    BY <1>2, <2>1, <2>3 DEF LeaveLeft
  <2> QED BY <2>2, <2>3
<1>3. \A i \in DOMAIN outbox' : outbox'[i].kind # "JOIN"
  OBVIOUS
<1>4. \A d \in members' : retries[d] < MAX_RETRY_COUNT => NameOf[d] \in told[d]
  OBVIOUS
<1>5. \A c, d \in members' : NameOf[c] = NameOf[d] => c = d
  BY DEF RosterSound
<1>6. (\A i \in DOMAIN outbox : ~Present(NameOf[outbox[i].from]))'
  BY <1>1 DEF Present
<1> QED
  BY <1>2, <1>3, <1>4, <1>5, <1>6 DEF RosterSound

\* The frame of whoever leaves tells the others.
LEMMA HandleLeaveRoster ==
    ASSUME TokenInv, RosterSound, HandleLeave
    PROVE  RosterSound'
<1>1. /\ buf.kind = "LEAVE" /\ outbox' = <<buf>> /\ clients_sem > 0
      /\ members' = members \ Named(buf.from) /\ Named(buf.from) # {}
      /\ UNCHANGED <<retries, told>>
      /\ todo' = {d \in members' : retries'[d] < MAX_RETRY_COUNT}
  BY DEF HandleLeave, Broadcast, Wait, downlink
<1>2. /\ \A i \in DOMAIN outbox' : outbox'[i] = buf
      /\ 1 \in DOMAIN outbox'
  BY <1>1
<1>3. \A c \in members : c \notin members' <=> NameOf[c] = NameOf[buf.from]
  BY <1>1 DEF Named
<1>4. \E c \in members : c \notin members'
  BY <1>1 DEF Named
<1> QED
  BY <1>1, <1>2, <1>3, <1>4, AtRest, Departed

\* There is a frame for each zombie, to tell the others.
LEMMA ReapRoster ==
    ASSUME TokenInv, RosterSound, Reap
    PROVE  RosterSound'
<1>1. PICK names \in SetToSeqs(Zombies) :
         Broadcast([i \in DOMAIN names |-> LeaveOf(names[i])], members')
  BY DEF Reap
<1>2. /\ members' = members \ Zombies /\ clients_sem > 0 /\ UNCHANGED <<retries, told>>
      /\ outbox' = [i \in DOMAIN names |-> LeaveOf(names[i])]
      /\ todo' = {d \in members' : retries'[d] < MAX_RETRY_COUNT}
      /\ Zombies \subseteq members /\ Zombies # {}
  BY <1>1 DEF Reap, Broadcast, Wait, downlink, Zombies
<1>3. IsFiniteSet(Zombies)
  BY <1>2, ProcessAssumption, FS_Subset DEF TokenInv, TypeOK
<1>4. /\ \A i \in DOMAIN names : names[i] \in Zombies
      /\ \A c \in Zombies : \E i \in DOMAIN names : names[i] = c
  BY <1>2, <1>3, SetToSeqsAll
<1>5. /\ DOMAIN outbox' = DOMAIN names
      /\ \A i \in DOMAIN names : outbox'[i].kind = "LEAVE" /\ outbox'[i].from = names[i]
  BY <1>2 DEF LeaveOf
<1> QED
  BY <1>2, <1>4, <1>5, AtRest, Departed

\* A host that ends has nobody left to tell.
LEMMA HostEndRoster ==
    ASSUME TokenInv, RosterSound, HostEnd
    PROVE  RosterSound'
<1>1. clients_sem > 0
  BY DEF TokenInv, TypeOK, BroadcastToken, HostEnd
<1>2. outbox' = <<>> /\ members' = {}
  BY <1>1, AtRest DEF HostEnd, delivery
<1> QED
  BY <1>2 DEF RosterSound

\* A step that leaves the table and the broadcast alone.
LEMMA SameRoster ==
    ASSUME RosterSound, UNCHANGED <<table, delivery, told>>
    PROVE  RosterSound'
  BY DEF RosterSound, Present, LeaveLeft, table, delivery

\* Every step keeps members informed.
LEMMA NextRoster == TokenInv /\ JoinSound /\ RosterSound /\ [Next]_vars => RosterSound'
<1> SUFFICES ASSUME TokenInv, JoinSound, RosterSound, [Next]_vars PROVE RosterSound'
  OBVIOUS
<1>1. CASE BroadcastStep
  BY <1>1, NextFrameRoster, DeliverRoster, TimeoutRoster DEF BroadcastStep
<1>2. CASE HandleJoin \/ HandleMsg \/ HandleLeave \/ HostEnd \/ Reap
  BY <1>2, HandleJoinRoster, HandleMsgRoster, HandleLeaveRoster, HostEndRoster, ReapRoster
<1>3. CASE HostWait \/ HostCopy \/ HostScan \/ DropFrame \/ IgnoreFrame \/ ProbeStop
  BY <1>3, SameRoster
     DEF HostWait, HostCopy, HostScan, DropFrame, IgnoreFrame, ProbeStop, downlink
<1>4. CASE SignalStep
  BY <1>4, SameRoster DEF SignalStep, InterruptHost, InterruptClient, Kill, downlink
<1>5. ASSUME NEW c \in Clients, SendStep(c) PROVE RosterSound'
  BY <1>5, SameRoster DEF SendStep, TakeSpace, WriteFrame, EndFrame, downlink
<1>6. ASSUME NEW c \in Clients, RecvStep(c) \/ UserStep(c) PROVE RosterSound'
  BY <1>6, SameRoster
     DEF RecvStep, Receive, GiveSpace, Show, UserStep, Start, TypeLine, Quit, downlink
<1>7. CASE UNCHANGED vars
  BY <1>7, SameRoster DEF vars, downlink
<1> QED
  BY <1>1, <1>2, <1>3, <1>4, <1>5, <1>6, <1>7 DEF Next, MainStep, ProbeStep

\* In every reachable state each token is in one place, each client's JOIN is in one
\* place until it is handled, and members know of the table what they were told and
\* nothing else, whoever is killed or interrupted.
THEOREM Invariance == Spec => []IInv
<1>1. JoinSound /\ TokenInv /\ [Next]_vars => JoinSound'
  BY NextJoins
<1>2. Spec => []JoinSound
  BY <1>1, InitJoins, TokensKept, PTL DEF Spec
<1>3. Spec => []RosterSound
  BY <1>2, InitRoster, NextRoster, TokensKept, PTL DEF Spec
<1> QED
  BY <1>2, <1>3, TokensKept, PTL DEF IInv

\* Whenever the table is at rest, each member that answers was told of its own joining
\* and of nobody who is not there any more, whoever was removed by whom meanwhile.
THEOREM RosterStaysCurrent == Spec => []RosterCurrent
<1>1. IInv => RosterCurrent
  <2> SUFFICES ASSUME IInv, clients_sem = 1, NEW d \in members, retries[d] = 0
               PROVE  NameOf[d] \in told[d] /\ told[d] \subseteq {NameOf[c] : c \in members}
    BY DEF RosterCurrent
  <2>1. clients_sem > 0 /\ retries[d] < MAX_RETRY_COUNT
    BY DEF MAX_RETRY_COUNT
  <2>2. NameOf[d] \in told[d] /\ \A name \in told[d] : Present(name)
    BY <2>1, AtRest DEF IInv
  <2> QED
    BY <2>2 DEF Present
<1> QED
  BY <1>1, Invariance, PTL
-----------------------------------------------------------------------------
(* The uplink implements Exchange.                                         *)

\* The host's region starts empty and the host has taken nothing.
LEMMA InitExchange == Init => Uplink!Init
  BY DEF Init, Uplink!Init, Box, Taken

\* The end of writing a frame is a Put.
LEMMA EndFramePuts ==
    ASSUME TokenInv, NEW c \in Clients, EndFrame(c)
    PROVE  Uplink!Next
<1>1. /\ data = 0 /\ main # "copy"
      /\ sending[c] \in Frame /\ sending[c].from = c /\ frame = sending[c]
  BY DEF TokenInv, UplinkToken, UplinkExclusive, Sending, FrameSound, InSend, EndFrame
<1>2. sending[c] = [kind |-> sending[c].kind, from |-> c] /\ sending[c].kind \in Kind
  BY <1>1 DEF Frame
<1>3. data' = 1 /\ UNCHANGED <<frame, buf>>
  BY <1>1 DEF EndFrame, Post, host
<1>4. Box = NoFrame /\ Box' = [kind |-> sending[c].kind, from |-> c] /\ Taken' = Taken
  BY <1>1, <1>2, <1>3 DEF Box, Taken
<1>5. Uplink!Put(c, sending[c].kind)
  BY <1>4 DEF Uplink!Put
<1> QED
  BY <1>2, <1>5 DEF Uplink!Next, Process

\* The host's copying a frame out is a Take of a client's frame.
LEMMA HostCopyTakes ==
    ASSUME TokenInv, HostCopy
    PROVE  Uplink!Next
<1>1. frame \in Frame /\ data = 0
  BY DEF TokenInv, TypeOK, FrameSound, UplinkToken, HostCopy
<1>2. frame # NoFrame /\ frame.from \in Clients
  BY <1>1, NoFrameAssumption DEF Frame
<1>3. Box = frame /\ Box' = NoFrame
  BY <1>1 DEF HostCopy, Box
<1>4. Taken' = [Taken EXCEPT ![Host] = Box]
  BY <1>3 DEF HostCopy, Taken
<1>5. SideOf[frame.from] # SideOf[Host]
  BY <1>2, ProcessAssumption DEF SideOf, Process
<1>6. Uplink!Take(Host)
  BY <1>2, <1>3, <1>4, <1>5 DEF Uplink!Take
<1> QED
  BY <1>6 DEF Uplink!Next, Process

\* A step that keeps the frame waiting, or lets nothing wait, is a stutter.
LEMMA SameBox ==
    ASSUME buf' = buf, (data = 1 \/ main = "copy")' <=> data = 1 \/ main = "copy",
           data = 1 \/ main = "copy" => frame' = frame
    PROVE  UNCHANGED <<Box, Taken>>
  BY DEF Box, Taken

\* Every other step leaves the frame that waits alone: the writer writes when none
\* waits, and HostWait moves the token from data_sem to the host.
LEMMA OthersStutter ==
    ASSUME TokenInv, [Next]_vars, ~HostCopy, \A c \in Clients : ~EndFrame(c)
    PROVE  UNCHANGED <<Box, Taken>>
<1> USE DEF TokenInv, TypeOK, uplink, host, table, delivery, downlink, client
<1>1. CASE BroadcastStep
  BY <1>1, SameBox DEF BroadcastStep, NextFrame, Deliver, Timeout
<1>2. CASE HostWait
  BY <1>2, SameBox DEF HostWait, Wait
<1>3. CASE HostScan \/ DropFrame \/ IgnoreFrame \/ HostEnd
  BY <1>3, SameBox DEF HostScan, DropFrame, IgnoreFrame, HostEnd, NextLoop
<1>4. CASE HandleJoin \/ HandleMsg \/ HandleLeave
  BY <1>4, SameBox DEF HandleJoin, HandleMsg, HandleLeave
<1>5. CASE ProbeStep
  BY <1>5, SameBox DEF ProbeStep, Reap, ProbeStop
<1>6. CASE SignalStep
  BY <1>6, SameBox DEF SignalStep, InterruptHost, InterruptClient, Kill
<1>7. ASSUME NEW c \in Clients, TakeSpace(c) \/ RecvStep(c) \/ UserStep(c)
      PROVE  UNCHANGED <<Box, Taken>>
  BY <1>7, SameBox
     DEF TakeSpace, RecvStep, Receive, GiveSpace, Show, UserStep, Start, TypeLine, Quit
<1>8. ASSUME NEW c \in Clients, WriteFrame(c) PROVE UNCHANGED <<Box, Taken>>
  <2>1. data = 0 /\ main # "copy"
    BY <1>8 DEF WriteFrame, UplinkToken, UplinkExclusive, Sending
  <2> QED
    BY <1>8, <2>1, SameBox DEF WriteFrame
<1>9. CASE UNCHANGED vars
  BY <1>9, SameBox DEF vars
<1> QED
  BY <1>1, <1>2, <1>3, <1>4, <1>5, <1>6, <1>7, <1>8, <1>9 DEF Next, MainStep, SendStep

\* The uplink implements the one-place exchange, for any number of clients: no frame
\* is overwritten before the host has copied it, copied twice, or copied in part.
THEOREM ImplementsExchange == Spec => UplinkSpec
<1>1. TokenInv /\ [Next]_vars => [Uplink!Next]_<<Box, Taken>>
  <2> SUFFICES ASSUME TokenInv, [Next]_vars PROVE [Uplink!Next]_<<Box, Taken>>
    OBVIOUS
  <2>1. CASE \E c \in Clients : EndFrame(c)
    BY <2>1, EndFramePuts
  <2>2. CASE HostCopy
    BY <2>2, HostCopyTakes
  <2>3. CASE ~HostCopy /\ \A c \in Clients : ~EndFrame(c)
    BY <2>3, OthersStutter
  <2> QED
    BY <2>1, <2>2, <2>3
<1> QED
  BY <1>1, InitExchange, TokensKept, PTL DEF Spec, UplinkSpec, Uplink!Spec
=============================================================================

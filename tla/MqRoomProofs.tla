---------------------------- MODULE MqRoomProofs ----------------------------
(***************************************************************************)
(* Proofs about mychat's chat room over message queues: the invariant that *)
(* every step preserves, for any clients, names, length of the queues and  *)
(* lines typed, and that the room keeps the promise of Room.               *)
(***************************************************************************)
EXTENDS MqRoom, FiniteSetTheorems, SequenceTheorems, TLAPS

-----------------------------------------------------------------------------
(* Frames: what one frame more or less changes in what a sequence          *)
(* announces, and what a client was given while a frame is on its way.     *)

\* A sequence with a frame more.
LEMMA AppendFacts ==
    ASSUME NEW S, NEW s \in Seq(S), NEW f \in S
    PROVE  /\ Append(s, f) \in Seq(S) /\ Append(s, f) # <<>>
           /\ Len(s) \in Nat /\ Len(Append(s, f)) = Len(s) + 1
           /\ DOMAIN s = 1..Len(s) /\ DOMAIN Append(s, f) = 1..(Len(s) + 1)
           /\ \A i \in 1..Len(s) : Append(s, f)[i] = s[i]
           /\ Append(s, f)[Len(s) + 1] = f
  OBVIOUS

\* A sequence with a frame less.
LEMMA TailFacts ==
    ASSUME NEW S, NEW s \in Seq(S), s # <<>>
    PROVE  /\ Tail(s) \in Seq(S) /\ Head(s) \in S /\ Head(s) = s[1]
           /\ Len(s) \in Nat /\ Len(s) >= 1 /\ Len(Tail(s)) = Len(s) - 1
           /\ DOMAIN s = 1..Len(s) /\ DOMAIN Tail(s) = 1..(Len(s) - 1)
           /\ \A i \in 1..(Len(s) - 1) : Tail(s)[i] = s[i + 1]
  OBVIOUS

\* A frame is not the empty buffer.
LEMMA FrameNotEmpty == <<>> \notin Frame
<1>1. \A f \in Frame : "kind" \in DOMAIN f
  BY DEF Frame
<1>2. DOMAIN <<>> = {}
  OBVIOUS
<1> QED
  BY <1>1, <1>2

\* Places are positions in the sequence.
LEMMA JoinsInside ==
    ASSUME NEW s \in Seq(Frame), NEW c \in Clients
    PROVE  /\ Joins(s, c) \subseteq 1..Len(s) /\ Len(s) \in Nat
           /\ \A i \in Joins(s, c) : s[i].kind = "JOIN" /\ s[i].from = c
           /\ \A i \in 1..Len(s) : s[i].kind = "JOIN" /\ s[i].from = c => i \in Joins(s, c)
  BY DEF Joins

\* Where a sequence has one frame more, a client joins there as well or not.
LEMMA JoinsAppend ==
    ASSUME NEW s \in Seq(Frame), NEW f \in Frame, NEW c \in Clients
    PROVE  /\ f.kind = "JOIN" /\ f.from = c =>
                Joins(Append(s, f), c) = Joins(s, c) \cup {Len(s) + 1}
           /\ ~(f.kind = "JOIN" /\ f.from = c) => Joins(Append(s, f), c) = Joins(s, c)
<1> DEFINE t == Append(s, f)
<1>1. /\ Len(s) \in Nat /\ DOMAIN s = 1..Len(s) /\ DOMAIN t = 1..(Len(s) + 1)
      /\ \A i \in 1..Len(s) : t[i] = s[i]
      /\ t[Len(s) + 1] = f
  BY AppendFacts
<1> HIDE DEF t
<1>2. \A i \in 1..(Len(s) + 1) : i \in 1..Len(s) \/ i = Len(s) + 1
  BY <1>1
<1>3. \A i : i \in Joins(t, c) <=>
              i \in Joins(s, c) \/ (i = Len(s) + 1 /\ f.kind = "JOIN" /\ f.from = c)
  BY <1>1, <1>2 DEF Joins
<1>4. f.kind = "JOIN" /\ f.from = c => Joins(t, c) = Joins(s, c) \cup {Len(s) + 1}
  BY <1>3
<1>5. ~(f.kind = "JOIN" /\ f.from = c) => Joins(t, c) = Joins(s, c)
  BY <1>3
<1> QED
  BY <1>4, <1>5 DEF t

\* A frame less at the front moves every place down by one.
LEMMA JoinsTail ==
    ASSUME NEW s \in Seq(Frame), s # <<>>, NEW c \in Clients
    PROVE  /\ \A i \in Joins(Tail(s), c) : i \in Nat /\ i >= 1 /\ i + 1 \in Joins(s, c)
           /\ Head(s).kind = "JOIN" /\ Head(s).from = c <=> 1 \in Joins(s, c)
<1>1. /\ Len(s) \in Nat /\ Len(s) >= 1 /\ Head(s) = s[1]
      /\ DOMAIN s = 1..Len(s) /\ DOMAIN Tail(s) = 1..(Len(s) - 1)
      /\ \A i \in 1..(Len(s) - 1) : Tail(s)[i] = s[i + 1]
  BY TailFacts
<1>2. \A i \in 1..(Len(s) - 1) : i \in Nat /\ i >= 1 /\ i + 1 \in 1..Len(s)
  BY <1>1
<1>3. \A i \in Joins(Tail(s), c) : i \in Nat /\ i >= 1 /\ i + 1 \in Joins(s, c)
  BY <1>1, <1>2 DEF Joins
<1>4. 1 \in DOMAIN s
  BY <1>1
<1> QED
  BY <1>1, <1>3, <1>4 DEF Joins

\* Nobody joins in no frames.
LEMMA JoinsNone ==
    ASSUME NEW c \in Clients
    PROVE  Joins(<<>>, c) = {}
  BY DEF Joins

\* One announcement more: who joins is present, who leaves is not, and nobody else is
\* concerned.
LEMMA PresentAppend ==
    ASSUME NEW s \in Seq(Frame), NEW f \in Frame
    PROVE  /\ f.kind = "JOIN" => Present(Append(s, f)) = Present(s) \cup {f.name}
           /\ f.kind = "LEAVE" => Present(Append(s, f)) = Present(s) \ {f.name}
           /\ f.kind = "MSG" => Present(Append(s, f)) = Present(s)
<1> DEFINE t == Append(s, f)
           k == Len(s) + 1
<1>1. /\ Len(s) \in Nat /\ DOMAIN s = 1..Len(s) /\ DOMAIN t = 1..k
      /\ \A i \in 1..Len(s) : t[i] = s[i]
      /\ t[k] = f
  BY AppendFacts
<1> HIDE DEF t
<1>2. f.name \in Names
  BY DEF Frame
<1>3. /\ k \in DOMAIN t /\ k \notin DOMAIN s
      /\ \A i \in DOMAIN s : i \in DOMAIN t /\ k > i /\ ~(i > k) /\ t[i] = s[i]
      /\ \A i \in DOMAIN t : i \in DOMAIN s \/ i = k
      /\ ~(k > k)
  BY <1>1
<1> HIDE DEF k
<1>4. CASE f.kind = "JOIN"
  <2>1. \A n \in Names : n \in Present(s) => n \in Present(t)
    BY <1>1, <1>3, <1>4 DEF Present
  <2>2. f.name \in Present(t)
    BY <1>1, <1>2, <1>3, <1>4 DEF Present
  <2>3. \A n \in Names : n \in Present(t) => n \in Present(s) \/ n = f.name
    BY <1>1, <1>3, <1>4 DEF Present
  <2>4. Present(t) = Present(s) \cup {f.name}
    BY <1>2, <2>1, <2>2, <2>3 DEF Present
  <2> QED
    BY <1>4, <2>4 DEF t
<1>5. CASE f.kind = "LEAVE"
  <2>1. \A n \in Names : n \in Present(s) /\ n # f.name => n \in Present(t)
    BY <1>1, <1>3, <1>5 DEF Present
  <2>2. \A n \in Names : n \in Present(t) => n \in Present(s) /\ n # f.name
    BY <1>1, <1>3, <1>5 DEF Present
  <2>3. Present(t) = Present(s) \ {f.name}
    BY <1>2, <2>1, <2>2 DEF Present
  <2> QED
    BY <1>5, <2>3 DEF t
<1>6. CASE f.kind = "MSG"
  <2>1. \A n \in Names : n \in Present(s) <=> n \in Present(t)
    BY <1>1, <1>3, <1>6 DEF Present
  <2>2. Present(t) = Present(s)
    BY <2>1 DEF Present
  <2> QED
    BY <1>6, <2>2 DEF t
<1> QED
  BY <1>4, <1>5, <1>6

\* What is sent to a client comes last in what it was given, and receiving changes
\* nothing in that.
LEMMA GivenSend ==
    ASSUME NEW s \in Seq(Frame), NEW q \in Seq(Frame), NEW f \in Frame
    PROVE  s \o Append(q, f) = Append(s \o q, f)
<1>1. s \o Append(q, f) \in Seq(Frame) /\ Append(s \o q, f) \in Seq(Frame)
  OBVIOUS
<1>2. /\ Len(s \o Append(q, f)) = Len(s) + Len(q) + 1
      /\ Len(Append(s \o q, f)) = Len(s) + Len(q) + 1
  OBVIOUS
<1>3. \A i \in 1..Len(s \o Append(q, f)) : (s \o Append(q, f))[i] = Append(s \o q, f)[i]
  BY <1>1, <1>2
<1> QED
  BY <1>1, <1>2, <1>3, SeqEqual

\* Receiving moves a frame within what the client was given.
LEMMA GivenReceive ==
    ASSUME NEW s \in Seq(Frame), NEW q \in Seq(Frame), q # <<>>
    PROVE  Append(s, Head(q)) \o Tail(q) = s \o q
<1>1. Append(s, Head(q)) \o Tail(q) \in Seq(Frame) /\ s \o q \in Seq(Frame)
  OBVIOUS
<1>2. /\ Len(Append(s, Head(q)) \o Tail(q)) = Len(s) + Len(q)
      /\ Len(s \o q) = Len(s) + Len(q)
  OBVIOUS
<1>3. \A i \in 1..Len(s \o q) : (Append(s, Head(q)) \o Tail(q))[i] = (s \o q)[i]
  BY <1>1, <1>2
<1> QED
  BY <1>1, <1>2, <1>3, SeqEqual

\* A sequence of all members of a set has each of them somewhere.
LEMMA EachOnce ==
    ASSUME NEW S, IsFiniteSet(S), S # {}, NEW cs \in SetToSeqs(S)
    PROVE  /\ cs \in Seq(S) /\ cs # <<>> /\ DOMAIN cs = 1..Len(cs) /\ Len(cs) \in Nat
           /\ S = {cs[i] : i \in DOMAIN cs}
<1> DEFINE n == Cardinality(S)
<1>1. n \in Nat /\ n # 0
  BY FS_CardinalityType, FS_EmptySet
<1>2. cs \in [1..n -> S] /\ \A i, j \in 1..n : i # j => cs[i] # cs[j]
  BY DEF SetToSeqs
<1>3. IsFiniteSet(1..n) /\ Cardinality(1..n) = n
  BY <1>1, FS_Interval
<1>4. cs \in Injection(1..n, S)
  BY <1>2 DEF Injection, IsInjective
<1>5. cs \in Surjection(1..n, S)
  BY <1>3, <1>4, FS_Injection
<1>6. S = {cs[i] : i \in 1..n}
  BY <1>2, <1>5 DEF Surjection
<1> HIDE DEF n
<1>7. cs \in Seq(S) /\ Len(cs) = n /\ DOMAIN cs = 1..n
  BY <1>1, <1>2
<1> QED
  BY <1>1, <1>6, <1>7

\* The frames that tell of the leaving of some clients, in an order, are from each of them.
LEMMA LeavingFrames ==
    ASSUME NEW S, IsFiniteSet(S), S # {}, NEW cs \in SetToSeqs(S),
           NEW fs \in [DOMAIN cs -> Frame], \A i \in DOMAIN cs : fs[i].from = cs[i]
    PROVE  /\ fs \in Seq(Frame) /\ fs # <<>> /\ 1 \in DOMAIN fs /\ Head(fs) = fs[1]
           /\ \A i \in DOMAIN fs : fs[i].from \in S
           /\ \A c \in S : \E i \in DOMAIN fs : fs[i].from = c
<1>1. /\ cs \in Seq(S) /\ cs # <<>> /\ DOMAIN cs = 1..Len(cs) /\ Len(cs) \in Nat
      /\ S = {cs[i] : i \in DOMAIN cs}
  BY EachOnce
<1>2. fs \in [1..Len(cs) -> Frame] /\ Len(cs) # 0 /\ DOMAIN fs = DOMAIN cs
  BY <1>1
<1>3. fs \in Seq(Frame) /\ Len(fs) = Len(cs)
  BY <1>1, <1>2
<1>4. 1 \in DOMAIN fs /\ fs # <<>> /\ Head(fs) = fs[1]
  BY <1>1, <1>2, <1>3
<1>5. \A i \in DOMAIN fs : fs[i].from \in S
  BY <1>1, <1>2
<1>6. \A c \in S : \E i \in DOMAIN fs : fs[i].from = c
  BY <1>1, <1>2
<1> QED
  BY <1>3, <1>4, <1>5, <1>6

-----------------------------------------------------------------------------
(* The room.                                                               *)

\* What follows from the types, in the form in which the proofs use it.
LEMMA GivenType ==
    ASSUME TypeOK
    PROVE  \A c \in Clients : Given(c) \in Seq(Frame) /\ Len(Given(c)) \in Nat
<1> TAKE c \in Clients
<1>1. seen[c] \in Seq(Frame) /\ queue[c] \in Seq(Frame)
  BY DEF TypeOK
<1>2. seen[c] \o queue[c] \in Seq(Frame)
  BY <1>1
<1>3. Len(seen[c] \o queue[c]) \in Nat
  BY <1>2, LenProperties
<1> QED
  BY <1>2, <1>3 DEF Given

\* Members have joined, and were thus not about to start or to send JOIN.
LEMMA MembersJoined ==
    ASSUME IInv
    PROVE  \A c \in members : Joins(log, c) # {} /\ pc[c] \notin {"start", "join"}
  BY DEF IInv, TypeOK, UpToDate, JoinsOnce

\* The probe thread broadcasts that all clients leave that do not answer.
LEMMA ReapFrames ==
    ASSUME IInv, Reap
    PROVE  \E fs \in Seq(Frame) :
              /\ fs # <<>> /\ 1 \in DOMAIN fs /\ Head(fs) = fs[1]
              /\ \A i \in DOMAIN fs : fs[i] \in Frame /\ fs[i].kind = "LEAVE"
              /\ \A n : (n = fs[1].name \/ \E i \in DOMAIN fs \ {1} : n = fs[i].name)
                           <=> \E c \in Zombies : n = name[c]
              /\ Broadcast(fs, members')
<1>1. Zombies # {} /\ Zombies \subseteq members /\ members \subseteq Clients
  BY DEF IInv, TypeOK, Zombies, Reap
<1>2. PICK cs \in SetToSeqs(Zombies) :
         Broadcast([i \in DOMAIN cs |-> FrameOf(cs[i], "LEAVE")], members')
  BY DEF Reap
<1>3. IsFiniteSet(Zombies)
  BY <1>1, ProcessAssumption, FS_Subset
<1>4. /\ name \in [Clients -> Names \cup {NoName}]
      /\ \A c \in Zombies : name[c] \in Names
  BY <1>1, MembersJoined DEF IInv, TypeOK, NamesSound
<1> DEFINE fs == [i \in DOMAIN cs |-> FrameOf(cs[i], "LEAVE")]
<1>5. \A i \in DOMAIN cs : cs[i] \in Zombies
  BY <1>1, <1>3, EachOnce
<1>6. /\ fs \in [DOMAIN cs -> Frame] /\ \A i \in DOMAIN cs : fs[i].from = cs[i]
      /\ \A i \in DOMAIN fs : fs[i] = FrameOf(fs[i].from, "LEAVE")
  BY <1>1, <1>4, <1>5 DEF FrameOf, Frame, Kind
<1>7. Broadcast(fs, members')
  BY <1>2
<1> HIDE DEF fs
<1>8. /\ fs \in Seq(Frame) /\ fs # <<>> /\ 1 \in DOMAIN fs /\ Head(fs) = fs[1]
      /\ \A i \in DOMAIN fs : fs[i].from \in Zombies
      /\ \A c \in Zombies : \E i \in DOMAIN fs : fs[i].from = c
  BY <1>1, <1>3, <1>6, LeavingFrames
<1>9. \A i \in DOMAIN fs : fs[i] \in Frame /\ fs[i].kind = "LEAVE"
         /\ fs[i].name = name[fs[i].from]
  BY <1>6, <1>8 DEF FrameOf
<1>10. \A n : (n = fs[1].name \/ \E i \in DOMAIN fs \ {1} : n = fs[i].name)
                 <=> \E c \in Zombies : n = name[c]
  <2>1. \A n : (n = fs[1].name \/ \E i \in DOMAIN fs \ {1} : n = fs[i].name)
                  <=> \E i \in DOMAIN fs : n = fs[i].name
    BY <1>8
  <2> QED
    BY <1>8, <1>9, <2>1
<1> QED
  BY <1>7, <1>8, <1>9, <1>10

\* The parts of the invariant hold on where what they are about does not change.
LEMMA NamesQuiet ==
    ASSUME NamesSound, uplink' = uplink, log' = log, buf' = buf, name' = name,
           members' = members, \A c \in Clients : pc'[c] = "start" <=> pc[c] = "start"
    PROVE  NamesSound'
  BY DEF NamesSound, Genuine

\* The same for where each JOIN is.
LEMMA JoinsQuiet ==
    ASSUME JoinsOnce, uplink' = uplink, log' = log, buf' = buf,
           \A c \in Clients : pc'[c] \in {"start", "join"} => pc[c] \in {"start", "join"}
    PROVE  JoinsOnce'
  BY DEF JoinsOnce, Joins, JoinHandled

\* The same for the frames being broadcast.
LEMMA BroadcastQuiet ==
    ASSUME BroadcastSound, clients_sem' = clients_sem, outbox' = outbox, todo' = todo,
           main' = main, probe' = probe, log' = log, buf' = buf, retries' = retries
    PROVE  BroadcastSound'
  BY DEF BroadcastSound

\* The same for the names in the table.
LEMMA TableQuiet ==
    ASSUME TableSound, log' = log, outbox' = outbox, name' = name, members' = members,
           main' # "gone" => main # "gone"
    PROVE  TableSound'
  BY DEF TableSound, Unannounced, Present

\* The same for what members were given.
LEMMA UpToDateQuiet ==
    ASSUME UpToDate, log' = log, seen' = seen, queue' = queue, members' = members,
           todo' = todo, retries' = retries
    PROVE  UpToDate'
  BY DEF UpToDate, Joins, Given

\* A frame that is no JOIN is announced, once the one before it was tried with everybody.
LEMMA AnnounceNames ==
    ASSUME TypeOK, NamesSound, NEW f \in Frame, f.kind # "JOIN", log' = Append(log, f),
           uplink' = uplink, buf' \in {buf, <<>>}, name' = name, pc' = pc,
           members' \subseteq members
    PROVE  NamesSound'
<1>1. log \in Seq(Frame)
  BY DEF TypeOK
<1>2. /\ DOMAIN log = 1..Len(log) /\ DOMAIN log' = 1..(Len(log) + 1) /\ Len(log) \in Nat
      /\ \A i \in 1..Len(log) : log'[i] = log[i]
      /\ log'[Len(log) + 1] = f
  BY <1>1, AppendFacts
<1>3. \A i \in DOMAIN log' : log'[i].kind = "JOIN" => i \in DOMAIN log /\ log'[i] = log[i]
  BY <1>2
<1> QED
  BY <1>3 DEF NamesSound, Genuine

\* Such an announcement is nobody's joining.
LEMMA AnnounceJoins ==
    ASSUME TypeOK, JoinsOnce, NEW f \in Frame, f.kind # "JOIN", log' = Append(log, f),
           uplink' = uplink, buf' \in {buf, <<>>}, pc' = pc
    PROVE  JoinsOnce'
<1>1. \A c \in Clients : Joins(log', c) = Joins(log, c)
  BY JoinsAppend DEF TypeOK
<1>2. \A c \in Clients : JoinHandled(c)' => JoinHandled(c)
  BY DEF JoinHandled
<1> QED
  BY <1>1, <1>2 DEF JoinsOnce

\* Such an announcement puts all members one frame behind that are to get it.
LEMMA AnnounceUpToDate ==
    ASSUME TypeOK, UpToDate, NEW f \in Frame, f.kind # "JOIN", log' = Append(log, f),
           todo = {}, members' \subseteq members,
           todo' = {c \in members' : retries[c] < MAX_RETRY_COUNT},
           retries' = retries, seen' = seen, queue' = queue
    PROVE  UpToDate'
<1>1. \A c \in Clients : Joins(log', c) = Joins(log, c)
  BY JoinsAppend DEF TypeOK
<1>2. Len(log') = Len(log) + 1 /\ Len(log) \in Nat
  BY DEF TypeOK
<1>3. \A c \in Clients : Given(c)' = Given(c)
  BY DEF Given
<1>4. \A c \in Clients : Joins(log', c) = {} => Given(c)' = <<>>
  BY <1>1, <1>3 DEF UpToDate
<1>5. ASSUME NEW c \in members'
      PROVE  \E i \in Joins(log', c) :
                /\ c \in todo' => i + Len(Given(c)') = Len(log')
                /\ c \notin todo' => ~(retries'[c] < MAX_RETRY_COUNT)
  <2>1. c \in members /\ c \in Clients
    BY <1>5 DEF TypeOK
  <2>2. PICK i \in Joins(log, c) :
           retries[c] < MAX_RETRY_COUNT => i + Len(Given(c)) = Len(log) + 1
    BY <2>1 DEF UpToDate
  <2> QED
    BY <1>1, <1>2, <1>3, <1>5, <2>1, <2>2
<1> QED
  BY <1>4, <1>5 DEF UpToDate
-----------------------------------------------------------------------------
\* A client starts: no frame and no member is named by it yet.
LEMMA StartIInv ==
    ASSUME IInv, NEW c \in Clients, Start(c)
    PROVE  IInv'
<1>a. c \notin members
  BY MembersJoined DEF Start
<1>b. name[c] = NoName /\ pc[c] = "start" /\ NoName \notin Names
  BY ProcessAssumption DEF IInv, NamesSound, Start
<1>c. PICK n \in Names : name' = [name EXCEPT ![c] = n]
  BY DEF Start
<1>d. /\ name' \in [Clients -> Names \cup {NoName}]
      /\ \A d \in Clients : d # c => name'[d] = name[d]
      /\ name'[c] \in Names
      /\ uplink' = uplink /\ buf' = buf /\ log' = log /\ members' = members
      /\ outbox' = outbox
      /\ members \subseteq Clients /\ main' = main
  BY <1>c DEF IInv, TypeOK, Start, host, table, delivery
<1>e. /\ \A d \in Clients : d # c => pc'[d] = pc[d]
      /\ pc'[c] \in {"join", "unlink"}
  BY DEF IInv, TypeOK, Start, Open, Goto
<1>f. \A f \in Frame : Genuine(f) => Genuine(f)' /\ f.from # c
  BY <1>b, <1>d DEF Genuine, Frame
<1>1. TypeOK'
  BY <1>d, <1>e DEF IInv, TypeOK, Client, Start, Open, Goto, host, table, delivery, inbox
<1>2. NamesSound'
  <2>1. \A d \in Clients : pc'[d] = "start" <=> name'[d] = NoName
    BY <1>b, <1>d, <1>e DEF IInv, NamesSound
  <2>2. \A d, e \in members' : name'[d] = name'[e] => d = e
    <3>1. \A d \in members : d \in Clients /\ d # c /\ name'[d] = name[d]
      BY <1>a, <1>d
    <3> QED
      BY <1>d, <3>1 DEF IInv, NamesSound
  <2>3. \A i \in DOMAIN uplink' : Genuine(uplink[i])'
    BY <1>d, <1>f DEF IInv, TypeOK, NamesSound
  <2>4. \A i \in DOMAIN log' : log'[i].kind = "JOIN" => Genuine(log[i])'
    BY <1>d, <1>f DEF IInv, TypeOK, NamesSound
  <2>5. buf' # <<>> => Genuine(buf)'
    BY <1>d, <1>f DEF IInv, TypeOK, NamesSound
  <2> QED
    BY <1>d, <2>1, <2>2, <2>3, <2>4, <2>5 DEF NamesSound, Genuine
<1>3. JoinsOnce'
  BY <1>b, <1>d, <1>e, JoinsQuiet DEF IInv
<1>4. BroadcastSound'
  BY BroadcastQuiet DEF IInv, Start, Open, Goto, host, table, delivery, inbox, client
<1>5. TableSound'
  <2>1. {name'[d] : d \in members'} = {name[d] : d \in members}
    BY <1>a, <1>d
  <2>2. Present(log)' = Present(log) /\ Unannounced' = Unannounced
    BY <1>d DEF Present, Unannounced
  <2> QED
    BY <1>d, <2>1, <2>2 DEF IInv, TableSound
<1>6. UpToDate'
  BY UpToDateQuiet DEF IInv, Start, Open, Goto, host, table, delivery, inbox, client
<1> QED
  BY <1>1, <1>2, <1>3, <1>4, <1>5, <1>6 DEF IInv

\* A client leaves its line, to send it or to leave.
LEMMA TypeLineIInv ==
    ASSUME IInv, NEW c \in Clients, TypeLine(c)
    PROVE  IInv'
<1>1. TypeOK'
  BY BoundAssumption DEF IInv, TypeOK, Client, Main, TypeLine, Open, Goto, host, table,
       delivery, inbox, client
<1>2. NamesSound'
  BY NamesQuiet DEF IInv, TypeOK, TypeLine, Open, Goto, host, table, delivery, inbox, client
<1>3. JoinsOnce'
  BY JoinsQuiet DEF IInv, TypeOK, TypeLine, Open, Goto, host, table, delivery, inbox, client
<1>4. BroadcastSound'
  BY BroadcastQuiet DEF IInv, TypeLine, Open, Goto, host, table, delivery, inbox, client
<1>5. TableSound'
  BY TableQuiet DEF IInv, TypeLine, Open, Goto, host, table, delivery, inbox, client
<1>6. UpToDate'
  BY UpToDateQuiet DEF IInv, TypeLine, Open, Goto, host, table, delivery, inbox, client
<1> QED
  BY <1>1, <1>2, <1>3, <1>4, <1>5, <1>6 DEF IInv

\* A client stops reading lines.
LEMMA QuitIInv ==
    ASSUME IInv, NEW c \in Clients, Quit(c)
    PROVE  IInv'
<1>1. TypeOK'
  BY DEF IInv, TypeOK, Client, Main, Quit, Goto, host, table, delivery, inbox, client
<1>2. NamesSound'
  BY NamesQuiet DEF IInv, TypeOK, Quit, Goto, host, table, delivery, inbox, client
<1>3. JoinsOnce'
  BY JoinsQuiet DEF IInv, TypeOK, Quit, Goto, host, table, delivery, inbox, client
<1>4. BroadcastSound'
  BY BroadcastQuiet DEF IInv, Quit, Goto, host, table, delivery, inbox, client
<1>5. TableSound'
  BY TableQuiet DEF IInv, Quit, Goto, host, table, delivery, inbox, client
<1>6. UpToDate'
  BY UpToDateQuiet DEF IInv, Quit, Goto, host, table, delivery, inbox, client
<1> QED
  BY <1>1, <1>2, <1>3, <1>4, <1>5, <1>6 DEF IInv

\* A client's JOIN is queued; it was nowhere before.
LEMMA SendJoinIInv ==
    ASSUME IInv, NEW c \in Clients, SendJoin(c)
    PROVE  IInv'
<1> DEFINE f == FrameOf(c, "JOIN")
<1>a. /\ uplink \in Seq(Frame) /\ f \in Frame /\ f.kind = "JOIN" /\ f.from = c /\ Genuine(f)
      /\ pc[c] = "join" /\ uplink' = Append(uplink, f)
      /\ log' = log /\ buf' = buf /\ name' = name /\ members' = members
  <2>1. name[c] \in Names /\ uplink \in Seq(Frame)
    BY DEF IInv, TypeOK, NamesSound, SendJoin
  <2> QED
    BY <2>1 DEF Frame, Kind, Genuine, FrameOf, SendJoin, host, table, delivery
<1>b. /\ \A d \in Clients : d # c => pc'[d] = pc[d]
      /\ pc'[c] \in {"leave", "input"}
  BY DEF IInv, TypeOK, SendJoin, NextInput, Goto
<1>c. /\ DOMAIN uplink' = 1..(Len(uplink) + 1) /\ DOMAIN uplink = 1..Len(uplink)
      /\ Len(uplink) \in Nat
      /\ \A i \in 1..Len(uplink) : uplink'[i] = uplink[i]
      /\ uplink'[Len(uplink) + 1] = f
  BY <1>a, AppendFacts
<1> HIDE DEF f
<1>1. TypeOK'
  BY <1>a, <1>c, BoundAssumption DEF IInv, TypeOK, Client, SendJoin, NextInput, Goto,
       Listen, host, table, delivery
<1>2. NamesSound'
  <2>1. \A i \in DOMAIN uplink' : Genuine(uplink'[i])
    BY <1>a, <1>c DEF IInv, NamesSound
  <2> QED
    BY <1>a, <1>b, <2>1 DEF IInv, NamesSound, Genuine
<1>3. JoinsOnce'
  <2>1. \A d \in Clients : d # c => Joins(uplink', d) = Joins(uplink, d)
    BY <1>a, JoinsAppend
  <2>2. Joins(uplink, c) = {} /\ Joins(log, c) = {} /\ ~JoinHandled(c)
    BY <1>a DEF IInv, JoinsOnce
  <2>3. Joins(uplink', c) = {Len(uplink) + 1}
    BY <1>a, <2>2, JoinsAppend
  <2>4. \A d \in Clients : JoinHandled(d)' <=> JoinHandled(d)
    BY <1>a DEF JoinHandled
  <2> QED
    BY <1>a, <1>b, <2>1, <2>2, <2>3, <2>4 DEF IInv, JoinsOnce
<1>4. BroadcastSound'
  BY BroadcastQuiet DEF IInv, SendJoin, NextInput, Listen, Goto, FrameOf, host, table,
       delivery, inbox, client
<1>5. TableSound'
  BY TableQuiet DEF IInv, SendJoin, NextInput, Listen, Goto, FrameOf, host, table,
       delivery, inbox, client
<1>6. UpToDate'
  BY UpToDateQuiet DEF IInv, SendJoin, NextInput, Listen, Goto, FrameOf, host, table,
       delivery, inbox, client
<1> QED
  BY <1>1, <1>2, <1>3, <1>4, <1>5, <1>6 DEF IInv

\* A line is queued.
LEMMA SendMsgIInv ==
    ASSUME IInv, NEW c \in Clients, SendMsg(c)
    PROVE  IInv'
<1> DEFINE f == FrameOf(c, "MSG")
<1>a. /\ uplink \in Seq(Frame) /\ f \in Frame /\ f.kind = "MSG" /\ f.from = c /\ Genuine(f)
      /\ pc[c] = "say" /\ uplink' = Append(uplink, f)
      /\ log' = log /\ buf' = buf /\ name' = name /\ members' = members
  <2>1. name[c] \in Names /\ uplink \in Seq(Frame)
    BY DEF IInv, TypeOK, NamesSound, SendMsg
  <2> QED
    BY <2>1 DEF Frame, Kind, Genuine, FrameOf, SendMsg, host, table, delivery
<1>b. /\ \A d \in Clients : d # c => pc'[d] = pc[d]
      /\ pc'[c] \in {"leave", "input"}
  BY DEF IInv, TypeOK, SendMsg, NextInput, Goto
<1>c. /\ DOMAIN uplink' = 1..(Len(uplink) + 1) /\ DOMAIN uplink = 1..Len(uplink)
      /\ Len(uplink) \in Nat
      /\ \A i \in 1..Len(uplink) : uplink'[i] = uplink[i]
      /\ uplink'[Len(uplink) + 1] = f
  BY <1>a, AppendFacts
<1> HIDE DEF f
<1>1. TypeOK'
  BY <1>a, <1>c, BoundAssumption DEF IInv, TypeOK, Client, SendMsg, NextInput, Goto, host,
       table, delivery, inbox
<1>2. NamesSound'
  <2>1. \A i \in DOMAIN uplink' : Genuine(uplink'[i])
    BY <1>a, <1>c DEF IInv, NamesSound
  <2> QED
    BY <1>a, <1>b, <2>1 DEF IInv, NamesSound, Genuine
<1>3. JoinsOnce'
  <2>1. \A d \in Clients : Joins(uplink', d) = Joins(uplink, d)
    BY <1>a, JoinsAppend
  <2>2. \A d \in Clients : JoinHandled(d)' <=> JoinHandled(d)
    BY <1>a DEF JoinHandled
  <2> QED
    BY <1>a, <1>b, <2>1, <2>2 DEF IInv, JoinsOnce
<1>4. BroadcastSound'
  BY BroadcastQuiet DEF IInv, SendMsg, NextInput, Goto, FrameOf, host, table, delivery,
       inbox, client
<1>5. TableSound'
  BY TableQuiet DEF IInv, SendMsg, NextInput, Goto, FrameOf, host, table, delivery, inbox,
       client
<1>6. UpToDate'
  BY UpToDateQuiet DEF IInv, SendMsg, NextInput, Goto, FrameOf, host, table, delivery,
       inbox, client
<1> QED
  BY <1>1, <1>2, <1>3, <1>4, <1>5, <1>6 DEF IInv

\* Leaving is queued, or nobody is told.
LEMMA SendLeaveIInv ==
    ASSUME IInv, NEW c \in Clients, SendLeave(c)
    PROVE  IInv'
<1> DEFINE f == FrameOf(c, "LEAVE")
<1>a. /\ uplink \in Seq(Frame) /\ f \in Frame /\ f.kind = "LEAVE" /\ f.from = c
      /\ Genuine(f)
      /\ pc[c] = "leave"
      /\ uplink' = uplink \/ (uplink' = Append(uplink, f) /\ Len(uplink) < N_MAX_MSG)
      /\ log' = log /\ buf' = buf /\ name' = name /\ members' = members
  <2>1. name[c] \in Names /\ uplink \in Seq(Frame)
    BY DEF IInv, TypeOK, NamesSound, SendLeave
  <2>2. Len(uplink) \in Nat /\ Len(uplink) <= N_MAX_MSG /\ N_MAX_MSG \in Nat
    BY <2>1, BoundAssumption DEF IInv, TypeOK
  <2>3. Len(uplink) # N_MAX_MSG => Len(uplink) < N_MAX_MSG
    BY <2>2
  <2>4. f \in Frame /\ f.kind = "LEAVE" /\ f.from = c /\ Genuine(f)
    BY <2>1 DEF Frame, Kind, FrameOf, Genuine
  <2>5. uplink' = uplink \/ (uplink' = Append(uplink, f) /\ Len(uplink) < N_MAX_MSG)
    BY <2>3 DEF SendLeave
  <2>6. /\ pc[c] = "leave" /\ log' = log /\ buf' = buf /\ name' = name
        /\ members' = members
    BY DEF SendLeave, host, table, delivery
  <2> HIDE DEF f
  <2> QED
    BY <2>1, <2>4, <2>5, <2>6
<1>b. /\ \A d \in Clients : d # c => pc'[d] = pc[d]
      /\ pc'[c] \in {"unlink"}
  BY DEF IInv, TypeOK, SendLeave, Goto
<1> HIDE DEF f
<1>1. TypeOK'
  BY <1>a, AppendFacts, BoundAssumption DEF IInv, TypeOK, Client, SendLeave, Goto, host,
       table, delivery, inbox
<1>2. NamesSound'
  <2>1. CASE uplink' = uplink
    BY <1>a, <1>b, <2>1, NamesQuiet DEF IInv
  <2>2. CASE uplink' = Append(uplink, f)
    <3>1. /\ DOMAIN uplink' = 1..(Len(uplink) + 1) /\ DOMAIN uplink = 1..Len(uplink)
          /\ Len(uplink) \in Nat
          /\ \A i \in 1..Len(uplink) : uplink'[i] = uplink[i]
          /\ uplink'[Len(uplink) + 1] = f
      BY <1>a, <2>2, AppendFacts
    <3>2. \A i \in DOMAIN uplink' : Genuine(uplink'[i])
      BY <1>a, <3>1 DEF IInv, NamesSound
    <3> QED
      BY <1>a, <1>b, <3>2 DEF IInv, NamesSound, Genuine
  <2> QED
    BY <1>a, <2>1, <2>2
<1>3. JoinsOnce'
  <2>1. \A d \in Clients : Joins(uplink', d) = Joins(uplink, d)
    <3>1. CASE uplink' = Append(uplink, f)
      BY <1>a, <3>1, JoinsAppend
    <3> QED
      BY <1>a, <3>1
  <2>2. \A d \in Clients : JoinHandled(d)' <=> JoinHandled(d)
    BY <1>a DEF JoinHandled
  <2> QED
    BY <1>a, <1>b, <2>1, <2>2 DEF IInv, JoinsOnce
<1>4. BroadcastSound'
  BY BroadcastQuiet DEF IInv, SendLeave, Goto, host, table, delivery, inbox, client
<1>5. TableSound'
  BY TableQuiet DEF IInv, SendLeave, Goto, host, table, delivery, inbox, client
<1>6. UpToDate'
  BY UpToDateQuiet DEF IInv, SendLeave, Goto, host, table, delivery, inbox, client
<1> QED
  BY <1>1, <1>2, <1>3, <1>4, <1>5, <1>6 DEF IInv

\* A client ends.
LEMMA UnlinkIInv ==
    ASSUME IInv, NEW c \in Clients, Unlink(c)
    PROVE  IInv'
<1>1. TypeOK'
  BY DEF IInv, TypeOK, Client, Main, Unlink, Goto, host, table, delivery, inbox, client
<1>2. NamesSound'
  BY NamesQuiet DEF IInv, TypeOK, Unlink, Goto, host, table, delivery, inbox, client
<1>3. JoinsOnce'
  BY JoinsQuiet DEF IInv, TypeOK, Unlink, Goto, host, table, delivery, inbox, client
<1>4. BroadcastSound'
  BY BroadcastQuiet DEF IInv, Unlink, Goto, host, table, delivery, inbox, client
<1>5. TableSound'
  BY TableQuiet DEF IInv, Unlink, Goto, host, table, delivery, inbox, client
<1>6. UpToDate'
  BY UpToDateQuiet DEF IInv, Unlink, Goto, host, table, delivery, inbox, client
<1> QED
  BY <1>1, <1>2, <1>3, <1>4, <1>5, <1>6 DEF IInv

\* A client receives the next frame of its queue; it was given it before.
LEMMA ReceiveIInv ==
    ASSUME IInv, NEW c \in Clients, Receive(c)
    PROVE  IInv'
<1>a. /\ queue \in [Clients -> Seq(Frame)] /\ seen \in [Clients -> Seq(Frame)]
      /\ queue[c] # <<>> /\ Len(queue[c]) <= N_MAX_MSG
      /\ seen' = [seen EXCEPT ![c] = Append(@, Head(queue[c]))]
      /\ queue' = [queue EXCEPT ![c] = Tail(@)]
  BY DEF IInv, TypeOK, Receive
<1>b. /\ Tail(queue[c]) \in Seq(Frame) /\ Len(Tail(queue[c])) <= N_MAX_MSG
      /\ Append(seen[c], Head(queue[c])) \in Seq(Frame)
  BY <1>a, BoundAssumption
<1>1. TypeOK'
  BY <1>a, <1>b DEF IInv, TypeOK, Receive, Listen, host, table, delivery, client
<1>2. NamesSound'
  BY NamesQuiet DEF IInv, Receive, Listen, host, table, delivery, inbox, client
<1>3. JoinsOnce'
  BY JoinsQuiet DEF IInv, Receive, Listen, host, table, delivery, inbox, client
<1>4. BroadcastSound'
  BY BroadcastQuiet DEF IInv, Receive, Listen, host, table, delivery, inbox, client
<1>5. TableSound'
  BY TableQuiet DEF IInv, Receive, Listen, host, table, delivery, inbox, client
<1>6. UpToDate'
  <2>1. \A d \in Clients : Given(d)' = Given(d)
    BY <1>a, GivenReceive DEF Given
  <2>2. log' = log /\ members' = members /\ todo' = todo /\ retries' = retries
           /\ members \subseteq Clients
    BY DEF IInv, TypeOK, Receive, table, delivery
  <2> QED
    BY <2>1, <2>2 DEF IInv, UpToDate
<1> QED
  BY <1>1, <1>2, <1>3, <1>4, <1>5, <1>6 DEF IInv

\* A frame goes into the queue of a member that was given all frames before it.
LEMMA DeliverIInv ==
    ASSUME IInv, NEW c \in Clients, Deliver(c)
    PROVE  IInv'
<1>a. /\ c \in todo /\ c \in members /\ retries' = [retries EXCEPT ![c] = 0]
      /\ todo' = todo \ {c} /\ members' = members /\ members \subseteq Clients
      /\ log' = log /\ outbox' = outbox /\ seen' = seen /\ Len(queue[c]) < N_MAX_MSG
      /\ queue' = [queue EXCEPT ![c] = Append(@, Head(outbox))]
      /\ queue \in [Clients -> Seq(Frame)] /\ seen \in [Clients -> Seq(Frame)]
      /\ retries \in [Clients -> 0..MAX_RETRY_COUNT]
      /\ log \in Seq(Frame) /\ outbox \in Seq(Frame)
  BY DEF IInv, TypeOK, Deliver, Turn, Reachable
<1>b. outbox # <<>> /\ Head(outbox) \in Frame /\ Head(outbox) = log[Len(log)]
  BY <1>a DEF IInv, BroadcastSound
<1>1. TypeOK'
  <2>1. queue' \in [Clients -> Seq(Frame)]
    BY <1>a, <1>b
  <2>2. \A d \in Clients : Len(queue'[d]) <= N_MAX_MSG
    BY <1>a, <1>b, BoundAssumption, AppendFacts DEF IInv, TypeOK
  <2> QED
    BY <1>a, <2>1, <2>2 DEF IInv, TypeOK, MAX_RETRY_COUNT, Deliver, host, client
<1>2. NamesSound'
  BY NamesQuiet DEF IInv, Deliver, Turn, Reachable, host, table, delivery, inbox, client
<1>3. JoinsOnce'
  BY JoinsQuiet DEF IInv, Deliver, Turn, Reachable, host, table, delivery, inbox, client
<1>4. BroadcastSound'
  BY <1>a, <1>b DEF IInv, BroadcastSound, Deliver, host
<1>5. TableSound'
  BY TableQuiet DEF IInv, Deliver, Turn, Reachable, host, table, delivery, inbox, client
<1>6. UpToDate'
  <2>1. Given(c)' = Append(Given(c), log[Len(log)])
    BY <1>a, <1>b, GivenSend DEF Given
  <2>2. \A d \in Clients : d # c => Given(d)' = Given(d)
    BY <1>a DEF Given
  <2>3. Given(c) \in Seq(Frame) /\ Len(log) \in Nat /\ log[Len(log)] \in Frame
    BY <1>a, <1>b, GivenType DEF IInv
  <2>4. /\ Len(Given(c)') = Len(Given(c)) + 1 /\ Len(Given(c)) \in Nat
        /\ Given(c)'[Len(Given(c)')] = log[Len(log)]
    BY <2>1, <2>3, AppendFacts
  <2>5. PICK i \in Joins(log, c) : i + Len(Given(c)) = Len(log)
    BY <1>a DEF IInv, UpToDate
  <2>6. i \in Nat /\ i + Len(Given(c)') = Len(log) + 1
    <3>1. Joins(log, c) \subseteq 1..Len(log)
      BY <1>a, JoinsInside
    <3> QED
      BY <2>3, <2>4, <2>5, <3>1
  <2>7. \A d \in Clients : Joins(log', d) = {} => Given(d)' = <<>>
    BY <1>a, <2>2, <2>5 DEF IInv, UpToDate
  <2>8. ASSUME NEW d \in members', d # c
        PROVE  \E j \in Joins(log', d) :
                  /\ d \in todo' => j + Len(Given(d)') = Len(log')
                  /\ d \notin todo' /\ retries'[d] < MAX_RETRY_COUNT =>
                        /\ j + Len(Given(d)') = Len(log') + 1
                        /\ Given(d)'[Len(Given(d)')] = log'[Len(log')]
    BY <1>a, <2>2, <2>8 DEF IInv, UpToDate
  <2> QED
    BY <1>a, <2>4, <2>5, <2>6, <2>7, <2>8 DEF UpToDate
<1> QED
  BY <1>1, <1>2, <1>3, <1>4, <1>5, <1>6 DEF IInv

\* A member that could not be reached three times is not tried any more.
LEMMA FailIInv ==
    ASSUME IInv, NEW c \in Clients, Fail(c)
    PROVE  IInv'
<1>a. /\ c \in todo /\ c \in members /\ retries' = [retries EXCEPT ![c] = @ + 1]
      /\ todo' = IF retries'[c] < MAX_RETRY_COUNT THEN todo ELSE todo \ {c}
      /\ members' = members /\ members \subseteq Clients /\ todo \subseteq members
      /\ retries \in [Clients -> 0..MAX_RETRY_COUNT]
  BY DEF IInv, TypeOK, Fail, Turn
<1>b. retries[c] < MAX_RETRY_COUNT
  BY <1>a DEF IInv, BroadcastSound
<1>1. TypeOK'
  <2>1. retries' \in [Clients -> 0..MAX_RETRY_COUNT] /\ todo' \subseteq members'
    BY <1>a, <1>b DEF MAX_RETRY_COUNT
  <2> QED
    BY <2>1 DEF IInv, TypeOK, Fail, host, inbox, client
<1>2. NamesSound'
  BY NamesQuiet DEF IInv, Fail, Turn, host, table, delivery, inbox, client
<1>3. JoinsOnce'
  BY JoinsQuiet DEF IInv, Fail, Turn, host, table, delivery, inbox, client
<1>4. BroadcastSound'
  BY <1>a DEF IInv, BroadcastSound, Fail, host
<1>5. TableSound'
  BY TableQuiet DEF IInv, Fail, Turn, host, table, delivery, inbox, client
<1>6. UpToDate'
  <2>1. log' = log /\ seen' = seen /\ queue' = queue
    BY DEF Fail, inbox
  <2>2. \A d \in Clients : Given(d)' = Given(d)
    BY <2>1 DEF Given
  <2>3. \A d \in Clients : d \in todo' => d \in todo
    BY <1>a
  <2>4. \A d \in Clients : d \notin todo' /\ retries'[d] < MAX_RETRY_COUNT =>
                              d \notin todo /\ retries[d] < MAX_RETRY_COUNT
    BY <1>a, <1>b
  <2> QED
    BY <1>a, <2>1, <2>2, <2>3, <2>4 DEF IInv, UpToDate
<1> QED
  BY <1>1, <1>2, <1>3, <1>4, <1>5, <1>6 DEF IInv

\* A frame goes from the queue to the host.
LEMMA HostReceiveIInv ==
    ASSUME IInv, HostReceive
    PROVE  IInv'
<1>a. /\ uplink \in Seq(Frame) /\ uplink # <<>> /\ main = "receive" /\ main' = "handle"
      /\ buf' = Head(uplink) /\ uplink' = Tail(uplink) /\ log' = log /\ name' = name
      /\ members' = members /\ pc' = pc /\ Len(uplink) <= N_MAX_MSG
  BY DEF IInv, TypeOK, HostReceive, table, delivery, client
<1>b. /\ uplink' \in Seq(Frame) /\ buf' \in Frame /\ buf' = uplink[1]
      /\ Len(uplink) \in Nat /\ Len(uplink) >= 1 /\ Len(uplink') = Len(uplink) - 1
      /\ DOMAIN uplink = 1..Len(uplink) /\ DOMAIN uplink' = 1..(Len(uplink) - 1)
      /\ \A i \in 1..(Len(uplink) - 1) : uplink'[i] = uplink[i + 1]
  BY <1>a, TailFacts
<1>c. buf' # <<>>
  BY <1>b, FrameNotEmpty
<1>1. TypeOK'
  BY <1>a, <1>b, BoundAssumption DEF IInv, TypeOK, Main, HostReceive, table, delivery,
       inbox, client
<1>2. NamesSound'
  <2>1. 1 \in DOMAIN uplink /\ \A i \in DOMAIN uplink' : i + 1 \in DOMAIN uplink
    BY <1>b
  <2>2. Genuine(uplink[1]) /\ \A i \in DOMAIN uplink' : Genuine(uplink'[i])
    BY <1>b, <2>1 DEF IInv, NamesSound
  <2> QED
    BY <1>a, <1>b, <2>2 DEF IInv, NamesSound, Genuine
<1>3. JoinsOnce'
  <2>1. ASSUME NEW c \in Clients
        PROVE  /\ Joins(uplink', c) # {} => Joins(uplink, c) # {} /\ ~JoinHandled(c)'
               /\ \A i, j \in Joins(uplink', c) : i = j
               /\ JoinHandled(c)' => Joins(uplink, c) # {}
    <3>1. \A i, j \in Joins(uplink, c) : i = j
      BY DEF IInv, JoinsOnce
    <3>2. /\ \A i \in Joins(uplink', c) : i \in Nat /\ i >= 1 /\ i + 1 \in Joins(uplink, c)
          /\ JoinHandled(c)' => 1 \in Joins(uplink, c)
      BY <1>a, <1>b, JoinsTail DEF JoinHandled
    <3>3. \A i \in Nat : i >= 1 => i + 1 # 1
      OBVIOUS
    <3>4. \A i, j \in Nat : i + 1 = j + 1 => i = j
      OBVIOUS
    <3> QED
      BY <3>1, <3>2, <3>3, <3>4
  <2> QED
    BY <1>a, <2>1 DEF IInv, JoinsOnce
<1>4. BroadcastSound'
  BY <1>a, <1>c DEF IInv, BroadcastSound, HostReceive, table, delivery
<1>5. TableSound'
  BY TableQuiet DEF IInv, HostReceive, host, table, delivery, inbox, client
<1>6. UpToDate'
  BY UpToDateQuiet DEF IInv, HostReceive, host, table, delivery, inbox, client
<1> QED
  BY <1>1, <1>2, <1>3, <1>4, <1>5, <1>6 DEF IInv

\* The host drops a frame that changes nothing.
LEMMA IgnoreFrameIInv ==
    ASSUME IInv, IgnoreFrame
    PROVE  IInv'
<1>1. TypeOK'
  BY DEF IInv, TypeOK, Client, Main, IgnoreFrame, NextRound, host, table, delivery, inbox,
       client
<1>2. NamesSound'
  BY DEF IInv, NamesSound, Genuine, IgnoreFrame, table, delivery, client
<1>3. JoinsOnce'
  BY DEF IInv, JoinsOnce, Joins, JoinHandled, IgnoreFrame, delivery, client
<1>4. BroadcastSound'
  <2>1. clients_sem = 1 /\ outbox = <<>> /\ probe # "reap"
    BY DEF IInv, TypeOK, BroadcastSound, IgnoreFrame
  <2> QED
    BY <2>1 DEF IInv, BroadcastSound, IgnoreFrame, NextRound, table, delivery
<1>5. TableSound'
  BY TableQuiet DEF IInv, IgnoreFrame, NextRound, host, table, delivery, inbox, client
<1>6. UpToDate'
  BY UpToDateQuiet DEF IInv, IgnoreFrame, NextRound, host, table, delivery, inbox, client
<1> QED
  BY <1>1, <1>2, <1>3, <1>4, <1>5, <1>6 DEF IInv

\* The host announces a JOIN: nobody of that name, and thus not its client, is a member.
LEMMA HandleJoinIInv ==
    ASSUME IInv, HandleJoin
    PROVE  IInv'
<1>a. /\ buf \in Frame /\ buf # <<>> /\ Genuine(buf) /\ log \in Seq(Frame)
      /\ main = "handle"
      /\ clients_sem = 1
      /\ outbox = <<>> /\ todo = {} /\ probe # "reap" /\ buf.kind = "JOIN"
      /\ members \subseteq Clients
  BY DEF IInv, TypeOK, BroadcastSound, NamesSound, HandleJoin, Broadcast, Wait
<1>b. /\ clients_sem' = 0 /\ outbox' = <<buf>> /\ log' = Append(log, buf)
      /\ todo' = {c \in members' : retries'[c] < MAX_RETRY_COUNT}
      /\ main' = "broadcast" /\ buf' = <<>>
      /\ uplink' = uplink /\ name' = name /\ pc' = pc /\ probe' = probe
      /\ seen' = seen /\ queue' = queue
      /\ members' = members \cup {buf.from} /\ retries' = [retries EXCEPT ![buf.from] = 0]
  BY <1>a DEF HandleJoin, Broadcast, Answering, Wait, inbox, client
<1>c. /\ log' \in Seq(Frame) /\ log' # <<>> /\ Len(log) \in Nat /\ Len(log') = Len(log) + 1
      /\ log'[Len(log')] = buf
      /\ <<buf>> \in Seq(Frame) /\ <<buf>> # <<>>
      /\ <<buf>>[1] = buf /\ DOMAIN <<buf>> = {1}
  BY <1>a, <1>b, AppendFacts
<1>d. /\ buf.from \in Clients /\ retries \in [Clients -> 0..MAX_RETRY_COUNT]
      /\ JoinHandled(buf.from) /\ Joins(log, buf.from) = {} /\ buf.from \notin members
  <2>1. buf.from \in Clients /\ retries \in [Clients -> 0..MAX_RETRY_COUNT]
    BY <1>a DEF Frame, IInv, TypeOK
  <2>2. JoinHandled(buf.from)
    BY <1>a DEF JoinHandled
  <2>3. Joins(log, buf.from) = {}
    BY <2>1, <2>2 DEF IInv, JoinsOnce
  <2> QED
    BY <2>1, <2>2, <2>3, MembersJoined
<1>e. /\ Joins(log', buf.from) = {Len(log) + 1}
      /\ \A c \in Clients : c # buf.from => Joins(log', c) = Joins(log, c)
  BY <1>a, <1>b, <1>d, JoinsAppend
<1>1. TypeOK'
  <2>1. retries' \in [Clients -> 0..MAX_RETRY_COUNT]
    BY <1>b, <1>d DEF MAX_RETRY_COUNT
  <2>2. members' \subseteq Clients /\ todo' \subseteq members'
    BY <1>a, <1>b, <1>d
  <2> QED
    BY <1>a, <1>b, <1>c, <2>1, <2>2 DEF IInv, TypeOK, Main, HandleJoin, inbox, client
<1>2. NamesSound'
  <2>1. \A c \in members : name[c] # name[buf.from]
    BY <1>a DEF HandleJoin, Named, Genuine
  <2>2. \A c, d \in members' : name[c] = name[d] => c = d
    BY <1>b, <2>1 DEF IInv, NamesSound
  <2>3. DOMAIN log = 1..Len(log) /\ DOMAIN log' = 1..(Len(log) + 1)
        /\ (\A i \in 1..Len(log) : log'[i] = log[i]) /\ log'[Len(log) + 1] = buf
    BY <1>a, <1>b, AppendFacts
  <2>4. \A i \in DOMAIN log' : log'[i].kind = "JOIN" => Genuine(log'[i])
    BY <1>a, <1>c, <2>3 DEF IInv, NamesSound
  <2> QED
    BY <1>b, <2>2, <2>4 DEF IInv, NamesSound, Genuine
<1>3. JoinsOnce'
  <2>1. Joins(uplink, buf.from) = {} /\ pc[buf.from] \notin {"start", "join"}
    BY <1>d DEF IInv, JoinsOnce
  <2>2. \A c \in Clients : ~JoinHandled(c)'
    BY <1>b DEF JoinHandled
  <2> QED
    BY <1>b, <1>e, <2>1, <2>2 DEF IInv, JoinsOnce
<1>4. BroadcastSound'
  <2>1. \A i \in DOMAIN outbox' : ~(i > 1)
    BY <1>b, <1>c
  <2> QED
    BY <1>a, <1>b, <1>c, <2>1 DEF BroadcastSound
<1>5. TableSound'
  <2>1. Unannounced = {} /\ Unannounced' = {}
    BY <1>a, <1>b, <1>c DEF Unannounced
  <2>2. Present(log') = Present(log) \cup {buf.name}
    BY <1>a, <1>b, PresentAppend
  <2>3. {name'[c] : c \in members'} = {name[c] : c \in members} \cup {buf.name}
    BY <1>a, <1>b DEF Genuine
  <2> QED
    BY <1>a, <1>b, <2>1, <2>2, <2>3 DEF IInv, TableSound
<1>6. UpToDate'
  <2>1. \A c \in Clients : Given(c)' = Given(c)
    BY <1>b DEF Given
  <2>0. PICK b \in Clients : b = buf.from
    BY <1>d
  <2>2. Given(b) = <<>> /\ Len(<<>>) = 0
    BY <1>d, <2>0 DEF IInv, UpToDate
  <2>3. b \in todo'
    BY <1>b, <1>d, <2>0 DEF MAX_RETRY_COUNT
  <2>4. (Len(log) + 1) + Len(Given(b)') = Len(log')
    <3>1. Len(Given(b)') = 0
      BY <2>1, <2>2
    <3> QED
      BY <1>c, <3>1
  <2>5. \A c \in Clients : Joins(log', c) = {} => Given(c)' = <<>>
    BY <1>e, <2>0, <2>1 DEF IInv, UpToDate
  <2>6. ASSUME NEW c \in members'
        PROVE  \E i \in Joins(log', c) :
                  /\ c \in todo' => i + Len(Given(c)') = Len(log')
                  /\ c \notin todo' => ~(retries'[c] < MAX_RETRY_COUNT)
    <3>1. CASE c = b
      <4>1. Len(log) + 1 \in Joins(log', c)
        BY <1>e, <2>0, <3>1
      <4> QED
        BY <2>3, <2>4, <3>1, <4>1
    <3>2. CASE c # b
      <4>1. c \in members /\ c \in Clients /\ retries'[c] = retries[c]
        BY <1>a, <1>b, <1>d, <2>0, <2>6, <3>2
      <4>2. PICK i \in Joins(log, c) :
               retries[c] < MAX_RETRY_COUNT => i + Len(Given(c)) = Len(log) + 1
        BY <1>a, <4>1 DEF IInv, UpToDate
      <4> QED
        BY <1>b, <1>c, <1>e, <2>0, <2>1, <2>6, <3>2, <4>1, <4>2
    <3> QED
      BY <3>1, <3>2
  <2> QED
    BY <2>5, <2>6 DEF UpToDate
<1> QED
  BY <1>1, <1>2, <1>3, <1>4, <1>5, <1>6 DEF IInv

\* The host announces a line.
LEMMA HandleMsgIInv ==
    ASSUME IInv, HandleMsg
    PROVE  IInv'
<1>a. /\ buf \in Frame /\ buf # <<>> /\ Genuine(buf) /\ log \in Seq(Frame)
      /\ main = "handle"
      /\ clients_sem = 1 /\ outbox = <<>> /\ todo = {} /\ probe # "reap" /\ buf.kind = "MSG"
      /\ members \subseteq Clients
  BY DEF IInv, TypeOK, BroadcastSound, NamesSound, HandleMsg, Broadcast, Wait
<1>b. /\ clients_sem' = 0 /\ outbox' = <<buf>> /\ log' = Append(log, buf)
      /\ todo' = {c \in members' : retries'[c] < MAX_RETRY_COUNT}
      /\ main' = "broadcast" /\ buf' = <<>>
      /\ uplink' = uplink /\ name' = name /\ pc' = pc /\ probe' = probe
      /\ seen' = seen /\ queue' = queue
      /\ members' = members /\ retries' = retries
  BY <1>a DEF HandleMsg, Broadcast, Answering, Wait, inbox, client
<1>c. /\ log' \in Seq(Frame) /\ log' # <<>> /\ Len(log) \in Nat /\ Len(log') = Len(log) + 1
      /\ log'[Len(log')] = buf
      /\ <<buf>> \in Seq(Frame) /\ <<buf>> # <<>>
      /\ <<buf>>[1] = buf /\ DOMAIN <<buf>> = {1}
  BY <1>a, <1>b, AppendFacts
<1>1. TypeOK'
  BY <1>a, <1>b, <1>c DEF IInv, TypeOK, Main, HandleMsg, inbox, client
<1>2. NamesSound'
  BY <1>a, <1>b, AnnounceNames DEF IInv
<1>3. JoinsOnce'
  BY <1>a, <1>b, AnnounceJoins DEF IInv
<1>4. BroadcastSound'
  <2>1. \A i \in DOMAIN outbox' : ~(i > 1)
    BY <1>b, <1>c
  <2> QED
    BY <1>a, <1>b, <1>c, <2>1 DEF BroadcastSound
<1>5. TableSound'
  <2>1. Unannounced = {} /\ Unannounced' = {}
    BY <1>a, <1>b, <1>c DEF Unannounced
  <2>2. Present(log') = Present(log)
    BY <1>a, <1>b, PresentAppend
  <2> QED
    BY <1>a, <1>b, <2>1, <2>2 DEF IInv, TableSound
<1>6. UpToDate'
  BY <1>a, <1>b, AnnounceUpToDate DEF IInv
<1> QED
  BY <1>1, <1>2, <1>3, <1>4, <1>5, <1>6 DEF IInv

\* The host announces that whoever has the name leaves.
LEMMA HandleLeaveIInv ==
    ASSUME IInv, HandleLeave
    PROVE  IInv'
<1>a. /\ buf \in Frame /\ buf # <<>> /\ Genuine(buf) /\ log \in Seq(Frame)
      /\ main = "handle"
      /\ clients_sem = 1
      /\ outbox = <<>> /\ todo = {} /\ probe # "reap" /\ buf.kind = "LEAVE"
      /\ members \subseteq Clients
  BY DEF IInv, TypeOK, BroadcastSound, NamesSound, HandleLeave, Broadcast, Wait
<1>b. /\ clients_sem' = 0 /\ outbox' = <<buf>> /\ log' = Append(log, buf)
      /\ todo' = {c \in members' : retries'[c] < MAX_RETRY_COUNT}
      /\ main' = "broadcast" /\ buf' = <<>>
      /\ uplink' = uplink /\ name' = name /\ pc' = pc /\ probe' = probe
      /\ seen' = seen /\ queue' = queue
      /\ members' = members \ Named(buf.name) /\ retries' = retries
  BY <1>a DEF HandleLeave, Broadcast, Answering, Wait, inbox, client
<1>c. /\ log' \in Seq(Frame) /\ log' # <<>> /\ Len(log) \in Nat /\ Len(log') = Len(log) + 1
      /\ log'[Len(log')] = buf
      /\ <<buf>> \in Seq(Frame) /\ <<buf>> # <<>>
      /\ <<buf>>[1] = buf /\ DOMAIN <<buf>> = {1}
  BY <1>a, <1>b, AppendFacts
<1>1. TypeOK'
  BY <1>a, <1>b, <1>c DEF IInv, TypeOK, Main, HandleLeave, inbox, client
<1>2. NamesSound'
  BY <1>a, <1>b, AnnounceNames DEF IInv
<1>3. JoinsOnce'
  BY <1>a, <1>b, AnnounceJoins DEF IInv
<1>4. BroadcastSound'
  <2>1. \A i \in DOMAIN outbox' : ~(i > 1)
    BY <1>b, <1>c
  <2> QED
    BY <1>a, <1>b, <1>c, <2>1 DEF BroadcastSound
<1>5. TableSound'
  <2>1. Unannounced = {} /\ Unannounced' = {}
    BY <1>a, <1>b, <1>c DEF Unannounced
  <2>2. Present(log') = Present(log) \ {buf.name}
    BY <1>a, <1>b, PresentAppend
  <2>3. {name'[c] : c \in members'} = {name[c] : c \in members} \ {buf.name}
    BY <1>b DEF Named
  <2> QED
    BY <1>a, <1>b, <2>1, <2>2, <2>3 DEF IInv, TableSound
<1>6. UpToDate'
  BY <1>a, <1>b, AnnounceUpToDate DEF IInv
<1> QED
  BY <1>1, <1>2, <1>3, <1>4, <1>5, <1>6 DEF IInv

\* The next frame is announced when there is one, or clients_sem is given back.
LEMMA NextFrameIInv ==
    ASSUME IInv, NextFrame, main # "aborted"
    PROVE  IInv'
<1>a. /\ outbox \in Seq(Frame) /\ outbox # <<>> /\ todo = {} /\ clients_sem = 0
      /\ log \in Seq(Frame) /\ members' = members /\ retries' = retries
      /\ name' = name /\ pc' = pc /\ buf' = buf /\ uplink' = uplink
      /\ seen' = seen /\ queue' = queue /\ outbox' = Tail(outbox)
  BY DEF IInv, TypeOK, BroadcastSound, NextFrame, inbox, client
<1>b. /\ outbox' \in Seq(Frame) /\ Len(outbox) \in Nat /\ Len(outbox) >= 1
      /\ DOMAIN outbox = 1..Len(outbox) /\ DOMAIN outbox' = 1..(Len(outbox) - 1)
      /\ \A i \in 1..(Len(outbox) - 1) : outbox'[i] = outbox[i + 1]
      /\ Len(outbox') = Len(outbox) - 1
  BY <1>a, TailFacts
<1>c. ~(main = "broadcast" /\ probe = "reap") /\ (main = "broadcast" \/ probe = "reap")
  BY <1>a DEF IInv, BroadcastSound
<1>d. CASE outbox' = <<>>
  <2>1. /\ clients_sem' = 1 /\ todo' = {} /\ log' = log /\ outbox' = <<>>
        /\ main' # "broadcast" /\ probe' # "reap" /\ main' \in Main
        /\ (main' # "gone" => main # "gone")
        /\ main' # "handle" \/ main' = main
        /\ probe' \in {"watch", "reap", "off"}
    BY <1>a, <1>c, <1>d DEF NextFrame, Post, NextRound, Main, IInv, TypeOK
  <2>2. Len(outbox) = 1
    <3>1. Len(outbox') = 0
      BY <1>d
    <3>2. Len(outbox) \in Nat /\ Len(outbox') = Len(outbox) - 1
      BY <1>b
    <3> QED
      BY <3>1, <3>2
  <2>3. TypeOK'
    BY <1>a, <1>d, <2>1 DEF IInv, TypeOK, NextFrame, inbox, client
  <2>4. NamesSound'
    BY <1>a, <2>1, NamesQuiet DEF IInv
  <2>5. JoinsOnce'
    BY <1>a, <2>1, JoinsQuiet DEF IInv
  <2>6. BroadcastSound'
    BY <1>a, <2>1 DEF IInv, BroadcastSound
  <2>7. TableSound'
    <3>1. Unannounced = {} /\ Unannounced' = {}
      BY <1>b, <2>1, <2>2 DEF Unannounced
    <3> QED
      BY <1>a, <2>1, <3>1 DEF IInv, TableSound
  <2>8. UpToDate'
    BY <1>a, <2>1, UpToDateQuiet DEF IInv
  <2> QED
    BY <2>3, <2>4, <2>5, <2>6, <2>7, <2>8 DEF IInv
<1>e. CASE outbox' # <<>>
  <2> DEFINE f == outbox[2]
  <2>1. /\ Len(outbox) >= 2 /\ 2 \in DOMAIN outbox /\ Head(outbox') = f /\ f \in Frame
        /\ outbox'[1] = f
    <3>1. Len(outbox) >= 2
      BY <1>b, <1>e
    <3>2. Head(outbox') = outbox'[1] /\ outbox'[1] = f
      BY <1>b, <1>e, <3>1
    <3> QED
      BY <1>a, <1>b, <3>1, <3>2
  <2>2. f.kind = "LEAVE" /\ f.kind # "JOIN"
    BY <2>1 DEF IInv, BroadcastSound
  <2>3. /\ log' = Append(log, f) /\ todo' = {c \in members' : retries[c] < MAX_RETRY_COUNT}
        /\ clients_sem' = clients_sem /\ main' = main /\ probe' = probe
    BY <1>a, <1>c, <1>e, <2>1 DEF NextFrame
  <2> HIDE DEF f
  <2>4. /\ log' \in Seq(Frame) /\ log' # <<>> /\ log'[Len(log')] = f
    BY <1>a, <2>1, <2>3, AppendFacts
  <2>5. TypeOK'
    BY <1>a, <1>b, <2>3, <2>4 DEF IInv, TypeOK, NextFrame, inbox, client
  <2>6. NamesSound'
    BY <1>a, <2>1, <2>2, <2>3, AnnounceNames DEF IInv
  <2>7. JoinsOnce'
    BY <1>a, <2>1, <2>2, <2>3, AnnounceJoins DEF IInv
  <2>8. BroadcastSound'
    <3>1. \A i \in DOMAIN outbox' : i > 1 => outbox'[i].kind = "LEAVE"
      <4>1. \A i \in DOMAIN outbox' : i + 1 \in DOMAIN outbox /\ outbox'[i] = outbox[i + 1]
               /\ i + 1 > 1
        BY <1>a, <1>b
      <4> QED
        BY <4>1 DEF IInv, BroadcastSound
    <3> QED
      BY <1>a, <1>e, <2>1, <2>3, <2>4, <3>1 DEF IInv, BroadcastSound
  <2>9. TableSound'
    <3>1. Present(log') = Present(log) \ {f.name}
      BY <1>a, <2>1, <2>2, <2>3, PresentAppend
    <3>2. /\ \A i \in DOMAIN outbox' \ {1} : i + 1 \in DOMAIN outbox \ {1}
                /\ outbox'[i] = outbox[i + 1]
          /\ \A i \in DOMAIN outbox \ {1} :
                i = 2 \/ (i - 1 \in DOMAIN outbox' \ {1} /\ outbox'[i - 1] = outbox[i])
      BY <1>a, <1>b
    <3>3. \A n : n \in Unannounced <=> n \in Unannounced' \/ n = f.name
      BY <2>1, <3>2 DEF Unannounced, f
    <3>4. Present(log') \ Unannounced' = Present(log) \ Unannounced
             \/ f.name \in Unannounced'
      BY <3>1, <3>3
    <3>5. Present(log') \ Unannounced' = Present(log) \ Unannounced
      BY <3>1, <3>3
    <3> QED
      BY <1>a, <2>3, <3>5 DEF IInv, TableSound
  <2>10. UpToDate'
    BY <1>a, <2>1, <2>2, <2>3, AnnounceUpToDate DEF IInv
  <2> QED
    BY <2>5, <2>6, <2>7, <2>8, <2>9, <2>10 DEF IInv
<1> QED
  BY <1>d, <1>e

\* The host ends: nothing is being broadcast.
LEMMA HostEndIInv ==
    ASSUME IInv, HostEnd
    PROVE  IInv'
<1>a. main = "join" /\ probe = "off" /\ main' = "gone" /\ members' = {}
  BY DEF HostEnd
<1>b. outbox = <<>> /\ todo = {}
  BY <1>a DEF IInv, BroadcastSound
<1>1. TypeOK'
  BY <1>a, <1>b DEF IInv, TypeOK, Main, HostEnd, delivery, inbox, client
<1>2. NamesSound'
  BY <1>a DEF IInv, NamesSound, Genuine, HostEnd, delivery, client
<1>3. JoinsOnce'
  BY JoinsQuiet DEF IInv, HostEnd, host, table, delivery, inbox, client
<1>4. BroadcastSound'
  BY <1>a, <1>b DEF IInv, BroadcastSound, HostEnd, delivery
<1>5. TableSound'
  BY <1>a DEF TableSound
<1>6. UpToDate'
  BY <1>a DEF IInv, UpToDate, Joins, Given, HostEnd, delivery, inbox
<1> QED
  BY <1>1, <1>2, <1>3, <1>4, <1>5, <1>6 DEF IInv

\* The probe thread removes all members that do not answer, and announces the first.
LEMMA ReapIInv ==
    ASSUME IInv, Reap
    PROVE  IInv'
<1>a. /\ Zombies # {} /\ Zombies \subseteq members /\ members \subseteq Clients
      /\ probe = "watch"
      /\ clients_sem = 1 /\ outbox = <<>> /\ todo = {} /\ log \in Seq(Frame)
      /\ main # "broadcast" /\ name \in [Clients -> Names \cup {NoName}]
  BY DEF IInv, TypeOK, BroadcastSound, Zombies, Reap, Broadcast, Wait
<1>b. PICK fs \in Seq(Frame) :
         /\ fs # <<>> /\ 1 \in DOMAIN fs /\ Head(fs) = fs[1]
         /\ \A i \in DOMAIN fs : fs[i] \in Frame /\ fs[i].kind = "LEAVE"
         /\ \A n : (n = fs[1].name \/ \E i \in DOMAIN fs \ {1} : n = fs[i].name)
                      <=> \E c \in Zombies : n = name[c]
         /\ Broadcast(fs, members')
  BY ReapFrames
<1>c. /\ outbox' = fs /\ log' = Append(log, Head(fs)) /\ clients_sem' = 0
      /\ todo' = {c \in members' : retries'[c] < MAX_RETRY_COUNT}
      /\ members' = members \ Zombies /\ retries' = retries /\ probe' = "reap"
      /\ uplink' = uplink /\ main' = main /\ buf' = buf /\ name' = name /\ pc' = pc
      /\ seen' = seen /\ queue' = queue
  BY <1>a, <1>b DEF Reap, Broadcast, Answering, Wait, inbox, client
<1>d. Head(fs) \in Frame /\ Head(fs).kind # "JOIN" /\ Head(fs).kind = "LEAVE"
  BY <1>b
<1>e. log' \in Seq(Frame) /\ log' # <<>> /\ log'[Len(log')] = fs[1]
  BY <1>a, <1>b, <1>c, <1>d, AppendFacts
<1>1. TypeOK'
  BY <1>a, <1>b, <1>c, <1>e DEF IInv, TypeOK, Reap, inbox, client
<1>2. NamesSound'
  BY <1>a, <1>c, <1>d, AnnounceNames DEF IInv
<1>3. JoinsOnce'
  BY <1>c, <1>d, AnnounceJoins DEF IInv
<1>4. BroadcastSound'
  BY <1>a, <1>b, <1>c, <1>e DEF IInv, BroadcastSound
<1>5. TableSound'
  <2>1. Present(log') = Present(log) \ {fs[1].name}
    BY <1>a, <1>b, <1>c, <1>d, PresentAppend
  <2>2. Unannounced = {}
    BY <1>a DEF Unannounced
  <2>3. \A n : (n \in Unannounced' \/ n = fs[1].name) <=> \E c \in Zombies : n = name[c]
    BY <1>b, <1>c DEF Unannounced
  <2>4. {name[c] : c \in members'} = {name[c] : c \in members} \ {name[c] : c \in Zombies}
    BY <1>a, <1>c DEF IInv, NamesSound
  <2>5. Present(log') \ Unannounced' = Present(log) \ {name[c] : c \in Zombies}
    BY <2>1, <2>3
  <2> QED
    BY <1>c, <2>2, <2>4, <2>5 DEF IInv, TableSound
<1>6. UpToDate'
  BY <1>a, <1>c, <1>d, AnnounceUpToDate DEF IInv
<1> QED
  BY <1>1, <1>2, <1>3, <1>4, <1>5, <1>6 DEF IInv

\* The probe thread ends, which is not one that broadcasts.
LEMMA ProbeStopIInv ==
    ASSUME IInv, ProbeStop
    PROVE  IInv'
<1>1. TypeOK'
  BY DEF IInv, TypeOK, Client, Main, ProbeStop, host, table, delivery, inbox, client
<1>2. NamesSound'
  BY NamesQuiet DEF IInv, ProbeStop, host, table, delivery, inbox, client
<1>3. JoinsOnce'
  BY JoinsQuiet DEF IInv, ProbeStop, host, table, delivery, inbox, client
<1>4. BroadcastSound'
  BY DEF IInv, BroadcastSound, ProbeStop, table, delivery
<1>5. TableSound'
  BY TableQuiet DEF IInv, ProbeStop, host, table, delivery, inbox, client
<1>6. UpToDate'
  BY UpToDateQuiet DEF IInv, ProbeStop, host, table, delivery, inbox, client
<1> QED
  BY <1>1, <1>2, <1>3, <1>4, <1>5, <1>6 DEF IInv

\* A client's flag is set, or its blocked call fails.
LEMMA InterruptClientIInv ==
    ASSUME IInv, NEW c \in Clients, InterruptClient(c)
    PROVE  IInv'
<1>1. TypeOK'
  BY ProcessAssumption DEF IInv, TypeOK, Client, Main, InterruptClient, Flag, Goto, host,
       table, delivery, inbox, client
<1>2. NamesSound'
  BY NamesQuiet DEF IInv, TypeOK, InterruptClient, Flag, Goto, host, table, delivery,
       inbox, client
<1>3. JoinsOnce'
  BY JoinsQuiet DEF IInv, TypeOK, InterruptClient, Flag, Goto, host, table, delivery,
       inbox, client
<1>4. BroadcastSound'
  BY BroadcastQuiet DEF IInv, InterruptClient, Flag, Goto, host, table, delivery, inbox,
       client
<1>5. TableSound'
  BY TableQuiet DEF IInv, InterruptClient, Flag, Goto, host, table, delivery, inbox, client
<1>6. UpToDate'
  BY UpToDateQuiet DEF IInv, InterruptClient, Flag, Goto, host, table, delivery, inbox,
       client
<1> QED
  BY <1>1, <1>2, <1>3, <1>4, <1>5, <1>6 DEF IInv

\* The host's flag is set, or a call it is blocked in fails.
LEMMA InterruptHostIInv ==
    ASSUME IInv, InterruptHost
    PROVE  IInv'
<1>1. TypeOK'
  BY DEF IInv, TypeOK, Client, Main, InterruptHost, Flag, host, table, delivery, inbox,
       client
<1>2. NamesSound'
  BY NamesQuiet DEF IInv, InterruptHost, Flag, host, table, delivery, inbox, client
<1>3. JoinsOnce'
  BY JoinsQuiet DEF IInv, InterruptHost, Flag, host, table, delivery, inbox, client
<1>4. BroadcastSound'
  BY DEF IInv, TypeOK, BroadcastSound, InterruptHost, table, delivery
<1>5. TableSound'
  BY TableQuiet DEF IInv, InterruptHost, Flag, host, table, delivery, inbox, client
<1>6. UpToDate'
  BY UpToDateQuiet DEF IInv, InterruptHost, Flag, host, table, delivery, inbox, client
<1> QED
  BY <1>1, <1>2, <1>3, <1>4, <1>5, <1>6 DEF IInv

\* A client stops.
LEMMA KillIInv ==
    ASSUME IInv, NEW c \in Clients, Kill(c)
    PROVE  IInv'
<1>1. TypeOK'
  BY DEF IInv, TypeOK, Client, Main, Kill, Goto, host, table, delivery, inbox, client
<1>2. NamesSound'
  BY NamesQuiet DEF IInv, TypeOK, Kill, Goto, host, table, delivery, inbox, client
<1>3. JoinsOnce'
  BY JoinsQuiet DEF IInv, TypeOK, Kill, Goto, host, table, delivery, inbox, client
<1>4. BroadcastSound'
  BY BroadcastQuiet DEF IInv, Kill, Goto, host, table, delivery, inbox, client
<1>5. TableSound'
  BY TableQuiet DEF IInv, Kill, Goto, host, table, delivery, inbox, client
<1>6. UpToDate'
  BY UpToDateQuiet DEF IInv, Kill, Goto, host, table, delivery, inbox, client
<1> QED
  BY <1>1, <1>2, <1>3, <1>4, <1>5, <1>6 DEF IInv

-----------------------------------------------------------------------------
\* The initial state satisfies the invariant.
LEMMA InitIInv == Init => IInv
<1> SUFFICES ASSUME Init PROVE IInv
  OBVIOUS
<1>1. \A c \in Clients : Given(c) = <<>>
  BY DEF Init, Given
<1>2. \A c \in Clients : Joins(uplink, c) = {} /\ Joins(log, c) = {}
  BY JoinsNone DEF Init
<1>3. TypeOK
  BY BoundAssumption DEF Init, TypeOK, Main, Client, MAX_RETRY_COUNT
<1>4. NamesSound
  BY DEF Init, NamesSound
<1>5. JoinsOnce
  BY <1>2 DEF Init, JoinsOnce, JoinHandled
<1>6. BroadcastSound
  BY DEF Init, BroadcastSound
<1>7. TableSound
  BY DEF Init, TableSound, Present
<1>8. UpToDate
  BY <1>1 DEF Init, UpToDate
<1> QED
  BY <1>3, <1>4, <1>5, <1>6, <1>7, <1>8 DEF IInv

\* So does every state that a step leads to.
LEMMA NextIInv ==
    ASSUME IInv, Next
    PROVE  IInv'
<1>1. CASE BroadcastStep
  BY <1>1, NextFrameIInv, DeliverIInv, FailIInv DEF BroadcastStep
<1>2. CASE MainStep
  BY <1>2, HostReceiveIInv, IgnoreFrameIInv, HandleJoinIInv, HandleMsgIInv, HandleLeaveIInv,
     HostEndIInv DEF MainStep
<1>3. CASE ProbeStep
  BY <1>3, ReapIInv, ProbeStopIInv DEF ProbeStep
<1>4. CASE SignalStep
  BY <1>4, InterruptHostIInv, InterruptClientIInv, KillIInv DEF SignalStep
<1>5. ASSUME NEW c \in Clients, SendStep(c) PROVE IInv'
  BY <1>5, SendJoinIInv, SendMsgIInv, SendLeaveIInv, UnlinkIInv DEF SendStep
<1>6. ASSUME NEW c \in Clients, Receive(c) PROVE IInv'
  BY <1>6, ReceiveIInv
<1>7. ASSUME NEW c \in Clients, UserStep(c) PROVE IInv'
  BY <1>7, StartIInv, TypeLineIInv, QuitIInv DEF UserStep
<1> QED
  BY <1>1, <1>2, <1>3, <1>4, <1>5, <1>6, <1>7 DEF Next

\* So does a step that changes nothing.
LEMMA StutterIInv ==
    ASSUME IInv, UNCHANGED vars
    PROVE  IInv'
<1> USE DEF vars, host, table, delivery, inbox, client
<1>1. TypeOK'
  BY DEF IInv, TypeOK
<1>2. NamesSound' /\ JoinsOnce'
  BY NamesQuiet, JoinsQuiet DEF IInv
<1>3. BroadcastSound' /\ TableSound' /\ UpToDate'
  BY BroadcastQuiet, TableQuiet, UpToDateQuiet DEF IInv
<1> QED
  BY <1>1, <1>2, <1>3 DEF IInv

\* What every step preserves holds always: every frame carries the name of its sender, a
\* client's JOIN is announced once, clients_sem is taken exactly while there is something
\* to broadcast, the table has the names that the announcements leave present, and each
\* member was given every announcement since its own joining up to the one being broadcast.
THEOREM Invariance == Spec => []IInv
<1>1. IInv /\ [Next]_vars => IInv'
  BY NextIInv, StutterIInv
<1> QED
  BY InitIInv, <1>1, PTL DEF Spec

\* At rest the invariant says what the table and its members agree in.
LEMMA RestAnnounced ==
    ASSUME IInv
    PROVE  TableAnnounced
<1> SUFFICES ASSUME clients_sem = 1, main # "gone"
             PROVE  /\ Present(log) = {name[c] : c \in members}
                    /\ \A c, d \in members : name[c] = name[d] => c = d
                    /\ \A c \in members : retries[c] = 0 =>
                          seen[c] \o queue[c] # <<>>
                          /\ Last(seen[c] \o queue[c]) = Last(log)
  BY DEF TableAnnounced
<1>1. outbox = <<>> /\ todo = {}
  BY DEF IInv, BroadcastSound
<1>2. Unannounced = {}
  BY <1>1 DEF Unannounced
<1>3. Present(log) = {name[c] : c \in members}
  BY <1>2 DEF IInv, TableSound
<1>4. \A c, d \in members : name[c] = name[d] => c = d
  BY DEF IInv, NamesSound
<1>5. ASSUME NEW c \in members, retries[c] = 0
      PROVE  Given(c) # <<>> /\ Last(Given(c)) = Last(log)
  <2>1. PICK i \in Joins(log, c) : /\ i + Len(Given(c)) = Len(log) + 1
                                   /\ Given(c)[Len(Given(c))] = log[Len(log)]
    BY <1>1, <1>5 DEF IInv, UpToDate, MAX_RETRY_COUNT
  <2>2. i \in 1..Len(log) /\ Len(log) \in Nat /\ Given(c) \in Seq(Frame)
           /\ Len(Given(c)) \in Nat
    BY JoinsInside, GivenType DEF IInv, TypeOK
  <2>3. Len(Given(c)) # 0
    BY <2>1, <2>2
  <2>4. Given(c) # <<>>
    BY <2>3
  <2> QED
    BY <2>1, <2>4 DEF Last
<1> QED
  BY <1>3, <1>4, <1>5 DEF Given

\* Every variable has its type always, no queue exceeds its length and no retry count its
\* limit.
THEOREM TypeCorrect == Spec => []TypeOK
  BY Invariance, PTL DEF IInv

\* Whenever the table is at rest it agrees with what was announced, and its members that
\* answer were given all of that.
THEOREM TableCorrect == Spec => []TableAnnounced
<1>1. IInv => TableAnnounced
  BY RestAnnounced
<1> QED
  BY Invariance, <1>1, PTL
-----------------------------------------------------------------------------
(* The room implements Room: a client has heard what it was given.         *)

R == INSTANCE Room WITH heard <- [c \in Clients |-> Given(c)]

\* A step that gives nobody a frame and announces none is none of the abstract room.
LEMMA QuietStutters ==
    ASSUME log' = log, \A c \in Clients : Given(c)' = Given(c)
    PROVE  UNCHANGED <<log, [c \in Clients |-> Given(c)]>>
  OBVIOUS

\* Nor is one that changes neither what was announced nor any inbox.
LEMMA SilentStutters ==
    ASSUME log' = log, seen' = seen, queue' = queue
    PROVE  UNCHANGED <<log, [c \in Clients |-> Given(c)]>>
  BY DEF Given

\* A frame that is announced, and to nobody yet given, is one of the abstract room.
LEMMA AnnounceAnnounces ==
    ASSUME NEW f \in Frame, log' = Append(log, f), seen' = seen, queue' = queue,
           f.kind = "JOIN" => Joins(log, f.from) = {}
    PROVE  R!Announce(f)
<1>1. R!JoinsAt(f.from) = Joins(log, f.from)
  BY DEF R!JoinsAt, Joins
<1> QED
  BY <1>1 DEF R!Announce, Given

\* Delivering a frame lets the client hear the announcement that is its next.
LEMMA DeliverHears ==
    ASSUME IInv, NEW c \in Clients, Deliver(c)
    PROVE  R!Hear(c)
<1>1. /\ c \in todo /\ c \in members /\ log' = log /\ seen' = seen
      /\ queue' = [queue EXCEPT ![c] = Append(@, Head(outbox))]
      /\ queue \in [Clients -> Seq(Frame)] /\ seen \in [Clients -> Seq(Frame)]
      /\ log \in Seq(Frame) /\ outbox \in Seq(Frame)
  BY DEF IInv, TypeOK, Deliver, Turn
<1>2. outbox # <<>> /\ log # <<>> /\ Head(outbox) \in Frame /\ Head(outbox) = log[Len(log)]
  BY <1>1 DEF IInv, BroadcastSound
<1>3. Given(c)' = Append(Given(c), log[Len(log)])
  BY <1>1, <1>2, GivenSend DEF Given
<1>4. \A d \in Clients : d # c => Given(d)' = Given(d)
  BY <1>1 DEF Given
<1>5. PICK i \in Joins(log, c) : i + Len(Given(c)) = Len(log)
  BY <1>1 DEF IInv, UpToDate
<1>6. R!JoinsAt(c) = Joins(log, c)
  BY DEF R!JoinsAt, Joins
<1>7. Len(log) \in DOMAIN log
  BY <1>1, <1>2
<1>8. [d \in Clients |-> Given(d)]' =
         [[d \in Clients |-> Given(d)] EXCEPT ![c] = Append(@, log[i + Len(@)])]
  BY <1>3, <1>4, <1>5
<1> QED
  BY <1>1, <1>5, <1>6, <1>7, <1>8 DEF R!Hear

\* Every step announces a frame, gives a client its next, or is none of the abstract room.
LEMMA StepImplements ==
    ASSUME IInv, Next
    PROVE  R!Next \/ UNCHANGED <<log, [c \in Clients |-> Given(c)]>>
<1> USE DEF host, table, delivery, inbox, client
<1>1. ASSUME NEW c \in Clients, Deliver(c) PROVE R!Next
  BY <1>1, DeliverHears DEF R!Next
<1>2. ASSUME NEW c \in Clients, Fail(c)
      PROVE  UNCHANGED <<log, [d \in Clients |-> Given(d)]>>
  BY <1>2, SilentStutters DEF Fail
<1>3. ASSUME NEW c \in Clients, Receive(c)
      PROVE  UNCHANGED <<log, [d \in Clients |-> Given(d)]>>
  <2>1. /\ queue \in [Clients -> Seq(Frame)] /\ seen \in [Clients -> Seq(Frame)]
        /\ queue[c] # <<>> /\ seen' = [seen EXCEPT ![c] = Append(@, Head(queue[c]))]
        /\ queue' = [queue EXCEPT ![c] = Tail(@)] /\ log' = log
    BY <1>3 DEF IInv, TypeOK, Receive
  <2>2. \A d \in Clients : Given(d)' = Given(d)
    BY <2>1, GivenReceive DEF Given
  <2> QED
    BY <2>1, <2>2, QuietStutters
<1>4. ASSUME NEW c \in Clients, SendStep(c)
      PROVE  UNCHANGED <<log, [d \in Clients |-> Given(d)]>>
  BY <1>4, SilentStutters DEF SendStep, SendJoin, SendMsg, SendLeave, Unlink
<1>5. ASSUME NEW c \in Clients, UserStep(c)
      PROVE  UNCHANGED <<log, [d \in Clients |-> Given(d)]>>
  BY <1>5, SilentStutters DEF UserStep, Start, TypeLine, Quit
<1>6. CASE SignalStep
  BY <1>6, SilentStutters DEF SignalStep, InterruptHost, InterruptClient, Kill
<1>7. CASE HostReceive \/ IgnoreFrame \/ HostEnd \/ ProbeStop
  BY <1>7, SilentStutters DEF HostReceive, IgnoreFrame, HostEnd, ProbeStop
<1>8. CASE HandleJoin \/ HandleMsg \/ HandleLeave
  <2>1. buf \in Frame /\ buf # <<>>
    BY <1>8 DEF IInv, TypeOK, BroadcastSound, HandleJoin, HandleMsg, HandleLeave
  <2>2. log' = Append(log, buf) /\ seen' = seen /\ queue' = queue
    BY <1>8 DEF HandleJoin, HandleMsg, HandleLeave, Broadcast
  <2>3. buf.from \in Clients
    BY <2>1 DEF Frame
  <2>4. buf.kind = "JOIN" => Joins(log, buf.from) = {}
    BY <2>1, <2>3 DEF IInv, JoinsOnce, JoinHandled
  <2> QED
    BY <2>1, <2>2, <2>4, AnnounceAnnounces DEF R!Next
<1>9. CASE Reap
  <2>1. PICK f \in Frame : f.kind = "LEAVE" /\ log' = Append(log, f)
    BY <1>9, ReapFrames DEF Broadcast
  <2>2. seen' = seen /\ queue' = queue
    BY <1>9 DEF Reap
  <2> QED
    BY <2>1, <2>2, AnnounceAnnounces DEF R!Next
<1>10. CASE NextFrame
  <2>1. CASE outbox' = <<>>
    BY <1>10, <2>1, SilentStutters DEF NextFrame
  <2>2. CASE outbox' # <<>>
    <3>1. /\ log' = Append(log, Head(Tail(outbox)))
          /\ Tail(outbox) # <<>> /\ outbox \in Seq(Frame)
          /\ seen' = seen /\ queue' = queue
      BY <1>10, <2>2 DEF IInv, TypeOK, NextFrame
    <3>2. Head(Tail(outbox)) = outbox[2] /\ outbox[2] \in Frame /\ 2 \in DOMAIN outbox
      BY <3>1
    <3>3. outbox[2].kind = "LEAVE"
      BY <3>2 DEF IInv, BroadcastSound
    <3> QED
      BY <3>1, <3>2, <3>3, AnnounceAnnounces DEF R!Next
  <2> QED
    BY <2>1, <2>2
<1> QED
  BY <1>1, <1>2, <1>3, <1>4, <1>5, <1>6, <1>7, <1>8, <1>9, <1>10
     DEF Next, BroadcastStep, MainStep, ProbeStep

\* The room over message queues keeps the promise of Room: the announcements are one order
\* of events, and each client is given them one by one from its own joining on.
THEOREM ImplementsRoom == Spec => R!Spec
<1>1. Init => R!Init
  BY DEF Init, R!Init, Given
<1>2. IInv /\ [Next]_vars => [R!Next]_<<log, [c \in Clients |-> Given(c)]>>
  <2>1. ASSUME UNCHANGED vars
        PROVE  UNCHANGED <<log, [c \in Clients |-> Given(c)]>>
    BY <2>1, SilentStutters DEF vars, delivery, inbox
  <2> QED
    BY <2>1, StepImplements
<1> QED
  BY Invariance, <1>1, <1>2, PTL DEF Spec, R!Spec
-----------------------------------------------------------------------------
(* The host waits for no client.                                           *)

\* A step that leaves the table and what is to be tried alone, and does not end the loop.
LEMMA TurnsQuiet ==
    ASSUME TurnsSound, UNCHANGED <<members, retries, todo>>,
           main' = "join" => shutdown'[Host]
    PROVE  TurnsSound'
  BY DEF TurnsSound

\* At rest each member has answered the last frame or has used up its attempts.
LEMMA RestTried ==
    ASSUME IInv, TurnsSound, clients_sem > 0
    PROVE  todo = {} /\ \A c \in members : retries[c] \in {0, MAX_RETRY_COUNT}
<1>1. todo = {}
  BY DEF IInv, TypeOK, BroadcastSound
<1> QED
  BY <1>1 DEF TurnsSound

\* A broadcast begins with members that have all their attempts left.
LEMMA BroadcastTurns ==
    ASSUME \A c \in members' : retries'[c] \in {0, MAX_RETRY_COUNT},
           todo' = Answering(members'), main' = "join" => shutdown'[Host]
    PROVE  TurnsSound'
<1>1. \A c \in todo' : retries'[c] = 0
  BY DEF Answering, MAX_RETRY_COUNT
<1>2. \A c \in members' \ todo' : retries'[c] \in {0, MAX_RETRY_COUNT}
  OBVIOUS
<1> QED
  BY <1>1, <1>2 DEF TurnsSound

\* A member whose turn it is either answers or has one attempt less, and nobody else is
\* tried meanwhile.
LEMMA DeliverTurns ==
    ASSUME IInv, TurnsSound, NEW c \in Clients, Deliver(c) \/ Fail(c)
    PROVE  TurnsSound'
<1>1. /\ c \in todo /\ \A d \in todo \ {c} : retries[d] = 0
      /\ members' = members /\ main' = main /\ shutdown' = shutdown
      /\ retries \in [Clients -> 0..MAX_RETRY_COUNT]
      /\ todo \subseteq Clients /\ members \subseteq Clients
      /\ retries[c] < MAX_RETRY_COUNT
  BY DEF IInv, TypeOK, BroadcastSound, Deliver, Fail, Turn, host, client
<1>2. \A d \in Clients : d # c => retries'[d] = retries[d]
  BY <1>1 DEF Deliver, Fail
<1>3. CASE Deliver(c)
  <2>1. retries'[c] = 0 /\ todo' = todo \ {c}
    BY <1>1, <1>3 DEF Deliver
  <2> QED
    BY <1>1, <1>2, <2>1 DEF TurnsSound
<1>4. CASE Fail(c)
  <2>1. /\ retries'[c] = retries[c] + 1
        /\ todo' = IF retries'[c] < MAX_RETRY_COUNT THEN todo ELSE todo \ {c}
    BY <1>1, <1>4 DEF Fail
  <2>2. retries[c] \in 0..MAX_RETRY_COUNT
    BY <1>1
  <2>3. \A d \in members \ todo' : retries'[d] \in {0, MAX_RETRY_COUNT}
    BY <1>1, <1>2, <2>1, <2>2 DEF TurnsSound, MAX_RETRY_COUNT
  <2>4. \A d, e \in todo' : retries'[d] # 0 /\ retries'[e] # 0 => d = e
    BY <1>1, <1>2, <2>1
  <2> QED
    BY <1>1, <2>3, <2>4 DEF TurnsSound
<1> QED
  BY <1>3, <1>4

\* Handling a frame and reaping zombies broadcast to the table as it is afterwards.
LEMMA StartTurns ==
    ASSUME IInv, TurnsSound, HandleJoin \/ HandleMsg \/ HandleLeave \/ Reap
    PROVE  TurnsSound'
<1>1. clients_sem > 0 /\ todo' = Answering(members')
  BY DEF HandleJoin, HandleMsg, HandleLeave, Reap, Broadcast, Wait
<1>2. todo = {} /\ \A c \in members : retries[c] \in {0, MAX_RETRY_COUNT}
  BY <1>1, RestTried
<1>3. main' = "join" => shutdown'[Host]
  BY DEF HandleJoin, HandleMsg, HandleLeave, Reap, TurnsSound
<1>4. \A c \in members' : retries'[c] \in {0, MAX_RETRY_COUNT}
  <2>1. CASE HandleJoin
    <3>1. /\ members' = members \cup {buf.from} /\ buf.from \in Clients
          /\ retries' = [retries EXCEPT ![buf.from] = 0]
          /\ retries \in [Clients -> 0..MAX_RETRY_COUNT] /\ members \subseteq Clients
      BY <2>1 DEF HandleJoin, IInv, TypeOK, BroadcastSound, Frame
    <3> QED
      BY <1>2, <3>1
  <2>2. CASE HandleMsg \/ HandleLeave \/ Reap
    <3>1. members' \subseteq members /\ retries' = retries
      BY <2>2 DEF HandleMsg, HandleLeave, Reap
    <3> QED
      BY <1>2, <3>1
  <2> QED
    BY <2>1, <2>2
<1> QED
  BY <1>1, <1>3, <1>4, BroadcastTurns

\* The next frame, after the last is tried, is tried with all that have attempts left.
LEMMA NextFrameTurns ==
    ASSUME IInv, TurnsSound, NextFrame
    PROVE  TurnsSound'
<1>1. /\ todo = {} /\ members' = members /\ retries' = retries /\ shutdown' = shutdown
      /\ \A c \in members : retries[c] \in {0, MAX_RETRY_COUNT}
  BY DEF NextFrame, TurnsSound
<1>2. CASE outbox' = <<>>
  <2>1. todo' = todo /\ (main' = main \/ NextRound)
    BY <1>2 DEF NextFrame
  <2> QED
    BY <1>1, <2>1 DEF NextRound, TurnsSound
<1>3. CASE outbox' # <<>>
  <2>1. main' = main /\ todo' = {c \in members : retries[c] < MAX_RETRY_COUNT}
    BY <1>3 DEF NextFrame
  <2>2. \A c \in todo' : retries[c] = 0
    BY <1>1, <2>1 DEF MAX_RETRY_COUNT
  <2>3. \A c \in members \ todo' : retries[c] \in {0, MAX_RETRY_COUNT}
    BY <1>1
  <2> QED
    BY <1>1, <2>1, <2>2, <2>3 DEF TurnsSound
<1> QED
  BY <1>2, <1>3

\* Every step keeps to one member at a time.
LEMMA NextTurns ==
    ASSUME IInv, TurnsSound, Next
    PROVE  TurnsSound'
<1> USE DEF host, table, delivery, client
<1>1. CASE BroadcastStep
  BY <1>1, NextFrameTurns, DeliverTurns DEF BroadcastStep
<1>2. CASE HandleJoin \/ HandleMsg \/ HandleLeave \/ Reap
  BY <1>2, StartTurns
<1>3. CASE HostReceive \/ ProbeStop
  BY <1>3, TurnsQuiet DEF HostReceive, ProbeStop, TurnsSound
<1>4. CASE IgnoreFrame
  BY <1>4, TurnsQuiet DEF IgnoreFrame, NextRound
<1>5. CASE HostEnd
  <2>1. main' = "gone" /\ members' = {} /\ todo' = todo /\ retries' = retries
    BY <1>5 DEF HostEnd
  <2> QED
    BY <2>1 DEF TurnsSound
<1>6. CASE InterruptHost
  <2>1. /\ UNCHANGED <<members, retries, todo>>
        /\ shutdown' = [shutdown EXCEPT ![Host] = TRUE]
    BY <1>6 DEF InterruptHost, Flag
  <2>2. shutdown'[Host]
    BY <2>1 DEF IInv, TypeOK, Process
  <2> QED
    BY <2>1, <2>2, TurnsQuiet
<1>7. ASSUME NEW c \in Clients, InterruptClient(c)
      PROVE  TurnsSound'
  <2>1. /\ UNCHANGED <<members, retries, todo, main>>
        /\ shutdown' = [shutdown EXCEPT ![c] = TRUE]
    BY <1>7 DEF InterruptClient, Flag
  <2>2. shutdown[Host] => shutdown'[Host]
    BY <2>1 DEF IInv, TypeOK, Process
  <2> QED
    BY <2>1, <2>2, TurnsQuiet DEF TurnsSound
<1>8. ASSUME NEW c \in Clients, Kill(c) \/ SendStep(c) \/ Receive(c) \/ UserStep(c)
      PROVE  TurnsSound'
  <2>1. UNCHANGED <<members, retries, todo, main, shutdown>>
    BY <1>8 DEF Kill, SendStep, SendJoin, SendMsg, SendLeave, Unlink, Receive, UserStep,
       Start, TypeLine, Quit
  <2> QED
    BY <2>1, TurnsQuiet DEF TurnsSound
<1> QED
  BY <1>1, <1>2, <1>3, <1>4, <1>5, <1>6, <1>7, <1>8
     DEF Next, MainStep, ProbeStep, SignalStep

\* Initially nobody is tried, and a step that changes nothing changes nothing in that.
LEMMA InitTurns == Init => TurnsSound
  BY DEF Init, TurnsSound

LEMMA StutterTurns ==
    ASSUME TurnsSound, UNCHANGED vars
    PROVE  TurnsSound'
  BY TurnsQuiet DEF vars, host, table, delivery, TurnsSound

\* The members that are to be tried have one whose turn it is.
LEMMA SomebodysTurn ==
    ASSUME IInv, TurnsSound, todo # {}
    PROVE  \E c \in Clients : Turn(c)
<1>1. todo \subseteq Clients
  BY DEF IInv, TypeOK
<1>2. CASE \E c \in todo : retries[c] # 0
  <2>1. PICK c \in todo : retries[c] # 0
    BY <1>2
  <2>2. Turn(c)
    BY <2>1 DEF TurnsSound, Turn
  <2> QED
    BY <1>1, <2>1, <2>2
<1>3. CASE \A c \in todo : retries[c] = 0
  BY <1>1, <1>3 DEF Turn
<1> QED
  BY <1>2, <1>3

\* What a step leaves is that whatever a thread of the host waits for is there.
LEMMA HostIsReady ==
    ASSUME IInv, TurnsSound
    PROVE  HostServes
<1> SUFFICES ASSUME SendWaits PROVE HostReady
  BY DEF HostServes
<1>1. main \in {"receive", "handle", "broadcast", "join"} /\ clients_sem \in 0..1
      /\ probe \in {"watch", "reap", "off"} /\ uplink # <<>>
  BY BoundAssumption DEF IInv, TypeOK, Main, SendWaits
<1>2. CASE outbox # <<>>
  <2>1. CASE todo = {}
    BY <1>1, <1>2, <2>1 DEF HostReady
  <2>2. CASE todo # {}
    BY <1>1, <2>2, SomebodysTurn DEF HostReady
  <2> QED
    BY <2>1, <2>2
<1>3. CASE outbox = <<>>
  <2>1. main # "broadcast" /\ probe # "reap" /\ clients_sem > 0
    BY <1>1, <1>3 DEF IInv, BroadcastSound
  <2>2. main = "join" => shutdown[Host]
    BY DEF TurnsSound
  <2> QED
    BY <1>1, <2>1, <2>2 DEF HostReady
<1> QED
  BY <1>2, <1>3

\* While a client waits for room in the host's queue, nothing keeps the host waiting:
\* whoever is slow, killed or leaves, some thread of the host has what it waits for.  With
\* the clients waiting for the host, nobody waits in a circle.
THEOREM HostWaitsForNobody == Spec => []HostServes
<1>1. Init => TurnsSound
  BY InitTurns
<1>2. IInv /\ TurnsSound /\ [Next]_vars => TurnsSound'
  BY NextTurns, StutterTurns
<1>3. IInv /\ TurnsSound => HostServes
  BY HostIsReady
<1> QED
  BY Invariance, <1>1, <1>2, <1>3, PTL DEF Spec
=============================================================================

--------------------------- MODULE FifoRoomProofs ---------------------------
(***************************************************************************)
(* Proofs about mychat's chat room over FIFOs: the invariant that every    *)
(* step preserves, for any clients, names and lines typed, and that the    *)
(* room keeps the promise of Room.                                         *)
(***************************************************************************)
EXTENDS FifoRoom, FiniteSetTheorems, SequenceTheorems, TLAPS

-----------------------------------------------------------------------------
(* Frames: what one frame more or less changes in what a sequence          *)
(* announces, and what a client was given while a frame is on its way.     *)

\* A sequence with a frame more.
LEMMA AppendFacts ==
    ASSUME NEW S, NEW s \in Seq(S), NEW f \in S
    PROVE  /\ Append(s, f) \in Seq(S) /\ Append(s, f) # <<>>
           /\ Len(s) \in Nat /\ Len(Append(s, f)) = Len(s) + 1
           /\ DOMAIN s = 1..Len(s) /\ DOMAIN Append(s, f) = 1..(Len(s) + 1)
           /\ \A i \in 1..Len(s) : Append(s, f)[i] = s[i]
           /\ Append(s, f)[Len(s) + 1] = f
  OBVIOUS

\* A sequence with a frame less.
LEMMA TailFacts ==
    ASSUME NEW S, NEW s \in Seq(S), s # <<>>
    PROVE  /\ Tail(s) \in Seq(S) /\ Head(s) \in S /\ Head(s) = s[1]
           /\ Len(s) \in Nat /\ Len(s) >= 1 /\ Len(Tail(s)) = Len(s) - 1
           /\ DOMAIN s = 1..Len(s) /\ DOMAIN Tail(s) = 1..(Len(s) - 1)
           /\ \A i \in 1..(Len(s) - 1) : Tail(s)[i] = s[i + 1]
  OBVIOUS

\* A frame is not the empty buffer.
LEMMA FrameNotEmpty == <<>> \notin Frame
<1>1. \A f \in Frame : "kind" \in DOMAIN f
  BY DEF Frame
<1>2. DOMAIN <<>> = {}
  OBVIOUS
<1> QED
  BY <1>1, <1>2

\* Places are positions in the sequence.
LEMMA JoinsInside ==
    ASSUME NEW s \in Seq(Frame), NEW c \in Clients
    PROVE  /\ Joins(s, c) \subseteq 1..Len(s) /\ Len(s) \in Nat
           /\ \A i \in Joins(s, c) : s[i].kind = "JOIN" /\ s[i].from = c
           /\ \A i \in 1..Len(s) : s[i].kind = "JOIN" /\ s[i].from = c => i \in Joins(s, c)
  BY DEF Joins

\* Where a sequence has one frame more, a client joins there as well or not.
LEMMA JoinsAppend ==
    ASSUME NEW s \in Seq(Frame), NEW f \in Frame, NEW c \in Clients
    PROVE  /\ f.kind = "JOIN" /\ f.from = c =>
                Joins(Append(s, f), c) = Joins(s, c) \cup {Len(s) + 1}
           /\ ~(f.kind = "JOIN" /\ f.from = c) => Joins(Append(s, f), c) = Joins(s, c)
<1> DEFINE t == Append(s, f)
<1>1. /\ Len(s) \in Nat /\ DOMAIN s = 1..Len(s) /\ DOMAIN t = 1..(Len(s) + 1)
      /\ \A i \in 1..Len(s) : t[i] = s[i]
      /\ t[Len(s) + 1] = f
  BY AppendFacts
<1> HIDE DEF t
<1>2. \A i \in 1..(Len(s) + 1) : i \in 1..Len(s) \/ i = Len(s) + 1
  BY <1>1
<1>3. \A i : i \in Joins(t, c) <=>
              i \in Joins(s, c) \/ (i = Len(s) + 1 /\ f.kind = "JOIN" /\ f.from = c)
  BY <1>1, <1>2 DEF Joins
<1>4. f.kind = "JOIN" /\ f.from = c => Joins(t, c) = Joins(s, c) \cup {Len(s) + 1}
  BY <1>3
<1>5. ~(f.kind = "JOIN" /\ f.from = c) => Joins(t, c) = Joins(s, c)
  BY <1>3
<1> QED
  BY <1>4, <1>5 DEF t

\* A frame less at the front moves every place down by one.
LEMMA JoinsTail ==
    ASSUME NEW s \in Seq(Frame), s # <<>>, NEW c \in Clients
    PROVE  /\ \A i \in Joins(Tail(s), c) : i \in Nat /\ i >= 1 /\ i + 1 \in Joins(s, c)
           /\ Head(s).kind = "JOIN" /\ Head(s).from = c <=> 1 \in Joins(s, c)
<1>1. /\ Len(s) \in Nat /\ Len(s) >= 1 /\ Head(s) = s[1]
      /\ DOMAIN s = 1..Len(s) /\ DOMAIN Tail(s) = 1..(Len(s) - 1)
      /\ \A i \in 1..(Len(s) - 1) : Tail(s)[i] = s[i + 1]
  BY TailFacts
<1>2. \A i \in 1..(Len(s) - 1) : i \in Nat /\ i >= 1 /\ i + 1 \in 1..Len(s)
  BY <1>1
<1>3. \A i \in Joins(Tail(s), c) : i \in Nat /\ i >= 1 /\ i + 1 \in Joins(s, c)
  BY <1>1, <1>2 DEF Joins
<1>4. 1 \in DOMAIN s
  BY <1>1
<1> QED
  BY <1>1, <1>3, <1>4 DEF Joins

\* Some frames in a row have the places that are within, counted from their first.
LEMMA JoinsSubSeq ==
    ASSUME NEW s \in Seq(Frame), NEW m \in 1..(Len(s) + 1), NEW n \in (m - 1)..Len(s),
           NEW c \in Clients
    PROVE  /\ SubSeq(s, m, n) \in Seq(Frame) /\ Len(SubSeq(s, m, n)) = n - m + 1
           /\ \A i \in DOMAIN SubSeq(s, m, n) :
                 i \in Nat /\ i >= 1 /\ i <= n - m + 1 /\ SubSeq(s, m, n)[i] = s[m + i - 1]
           /\ \A i \in Joins(SubSeq(s, m, n), c) :
                 i \in Nat /\ i >= 1 /\ i <= n - m + 1 /\ m + i - 1 \in Joins(s, c)
<1> DEFINE t == SubSeq(s, m, n)
<1>1. Len(s) \in Nat /\ m \in Int /\ n \in Int /\ DOMAIN s = 1..Len(s)
  OBVIOUS
<1>2. \A i \in m..n : s[i] \in Frame
  BY <1>1
<1>3. /\ t \in Seq(Frame) /\ Len(t) = n - m + 1
      /\ \A i \in 1..(n - m + 1) : t[i] = s[m + i - 1]
  BY <1>1, <1>2, SubSeqProperties
<1> HIDE DEF t
<1>4. DOMAIN t = 1..(n - m + 1)
  BY <1>3
<1>5. \A i \in DOMAIN t : i \in Nat /\ i >= 1 /\ i <= n - m + 1 /\ t[i] = s[m + i - 1]
                          /\ m + i - 1 \in DOMAIN s
  BY <1>1, <1>3, <1>4
<1>6. \A i \in Joins(t, c) : i \in Nat /\ i >= 1 /\ i <= n - m + 1
         /\ m + i - 1 \in Joins(s, c)
  BY <1>5 DEF Joins
<1> QED
  BY <1>3, <1>5, <1>6 DEF t

\* Nobody joins in no frames.
LEMMA JoinsNone ==
    ASSUME NEW c \in Clients
    PROVE  Joins(<<>>, c) = {}
  BY DEF Joins

\* One announcement more: who joins is present, who leaves is not, and nobody else is
\* concerned.
LEMMA PresentAppend ==
    ASSUME NEW s \in Seq(Frame), NEW f \in Frame
    PROVE  /\ f.kind = "JOIN" => Present(Append(s, f)) = Present(s) \cup {f.name}
           /\ f.kind = "LEAVE" => Present(Append(s, f)) = Present(s) \ {f.name}
           /\ f.kind = "MSG" => Present(Append(s, f)) = Present(s)
<1> DEFINE t == Append(s, f)
           k == Len(s) + 1
<1>1. /\ Len(s) \in Nat /\ DOMAIN s = 1..Len(s) /\ DOMAIN t = 1..k
      /\ \A i \in 1..Len(s) : t[i] = s[i]
      /\ t[k] = f
  BY AppendFacts
<1> HIDE DEF t
<1>2. f.name \in Names
  BY DEF Frame
<1>3. /\ k \in DOMAIN t /\ k \notin DOMAIN s
      /\ \A i \in DOMAIN s : i \in DOMAIN t /\ k > i /\ ~(i > k) /\ t[i] = s[i]
      /\ \A i \in DOMAIN t : i \in DOMAIN s \/ i = k
      /\ ~(k > k)
  BY <1>1
<1> HIDE DEF k
<1>4. CASE f.kind = "JOIN"
  <2>1. \A n \in Names : n \in Present(s) => n \in Present(t)
    BY <1>1, <1>3, <1>4 DEF Present
  <2>2. f.name \in Present(t)
    BY <1>1, <1>2, <1>3, <1>4 DEF Present
  <2>3. \A n \in Names : n \in Present(t) => n \in Present(s) \/ n = f.name
    BY <1>1, <1>3, <1>4 DEF Present
  <2>4. Present(t) = Present(s) \cup {f.name}
    BY <1>2, <2>1, <2>2, <2>3 DEF Present
  <2> QED
    BY <1>4, <2>4 DEF t
<1>5. CASE f.kind = "LEAVE"
  <2>1. \A n \in Names : n \in Present(s) /\ n # f.name => n \in Present(t)
    BY <1>1, <1>3, <1>5 DEF Present
  <2>2. \A n \in Names : n \in Present(t) => n \in Present(s) /\ n # f.name
    BY <1>1, <1>3, <1>5 DEF Present
  <2>3. Present(t) = Present(s) \ {f.name}
    BY <1>2, <2>1, <2>2 DEF Present
  <2> QED
    BY <1>5, <2>3 DEF t
<1>6. CASE f.kind = "MSG"
  <2>1. \A n \in Names : n \in Present(s) <=> n \in Present(t)
    BY <1>1, <1>3, <1>6 DEF Present
  <2>2. Present(t) = Present(s)
    BY <2>1 DEF Present
  <2> QED
    BY <1>6, <2>2 DEF t
<1> QED
  BY <1>4, <1>5, <1>6

\* What is sent to a client comes last in what it was given, and receiving changes
\* nothing in that.
LEMMA GivenSend ==
    ASSUME NEW s \in Seq(Frame), NEW q \in Seq(Frame), NEW f \in Frame
    PROVE  s \o Append(q, f) = Append(s \o q, f)
<1>1. s \o Append(q, f) \in Seq(Frame) /\ Append(s \o q, f) \in Seq(Frame)
  OBVIOUS
<1>2. /\ Len(s \o Append(q, f)) = Len(s) + Len(q) + 1
      /\ Len(Append(s \o q, f)) = Len(s) + Len(q) + 1
  OBVIOUS
<1>3. \A i \in 1..Len(s \o Append(q, f)) : (s \o Append(q, f))[i] = Append(s \o q, f)[i]
  BY <1>1, <1>2
<1> QED
  BY <1>1, <1>2, <1>3, SeqEqual

\* Receiving moves a frame within what the client was given.
LEMMA GivenReceive ==
    ASSUME NEW s \in Seq(Frame), NEW q \in Seq(Frame), q # <<>>
    PROVE  Append(s, Head(q)) \o Tail(q) = s \o q
<1>1. Append(s, Head(q)) \o Tail(q) \in Seq(Frame) /\ s \o q \in Seq(Frame)
  OBVIOUS
<1>2. /\ Len(Append(s, Head(q)) \o Tail(q)) = Len(s) + Len(q)
      /\ Len(s \o q) = Len(s) + Len(q)
  OBVIOUS
<1>3. \A i \in 1..Len(s \o q) : (Append(s, Head(q)) \o Tail(q))[i] = (s \o q)[i]
  BY <1>1, <1>2
<1> QED
  BY <1>1, <1>2, <1>3, SeqEqual

\* A sequence of all members of a set has each of them somewhere.
LEMMA EachOnce ==
    ASSUME NEW S, IsFiniteSet(S), S # {}, NEW cs \in SetToSeqs(S)
    PROVE  /\ cs \in Seq(S) /\ cs # <<>> /\ DOMAIN cs = 1..Len(cs) /\ Len(cs) \in Nat
           /\ S = {cs[i] : i \in DOMAIN cs}
<1> DEFINE n == Cardinality(S)
<1>1. n \in Nat /\ n # 0
  BY FS_CardinalityType, FS_EmptySet
<1>2. cs \in [1..n -> S] /\ \A i, j \in 1..n : i # j => cs[i] # cs[j]
  BY DEF SetToSeqs
<1>3. IsFiniteSet(1..n) /\ Cardinality(1..n) = n
  BY <1>1, FS_Interval
<1>4. cs \in Injection(1..n, S)
  BY <1>2 DEF Injection, IsInjective
<1>5. cs \in Surjection(1..n, S)
  BY <1>3, <1>4, FS_Injection
<1>6. S = {cs[i] : i \in 1..n}
  BY <1>2, <1>5 DEF Surjection
<1> HIDE DEF n
<1>7. cs \in Seq(S) /\ Len(cs) = n /\ DOMAIN cs = 1..n
  BY <1>1, <1>2
<1> QED
  BY <1>1, <1>6, <1>7

\* The frames that tell of the leaving of some clients, in an order, are from each of them.
LEMMA LeavingFrames ==
    ASSUME NEW S, IsFiniteSet(S), S # {}, NEW cs \in SetToSeqs(S),
           NEW fs \in [DOMAIN cs -> Frame], \A i \in DOMAIN cs : fs[i].from = cs[i]
    PROVE  /\ fs \in Seq(Frame) /\ fs # <<>> /\ 1 \in DOMAIN fs /\ Head(fs) = fs[1]
           /\ \A i \in DOMAIN fs : fs[i].from \in S
           /\ \A c \in S : \E i \in DOMAIN fs : fs[i].from = c
<1>1. /\ cs \in Seq(S) /\ cs # <<>> /\ DOMAIN cs = 1..Len(cs) /\ Len(cs) \in Nat
      /\ S = {cs[i] : i \in DOMAIN cs}
  BY EachOnce
<1>2. fs \in [1..Len(cs) -> Frame] /\ Len(cs) # 0 /\ DOMAIN fs = DOMAIN cs
  BY <1>1
<1>3. fs \in Seq(Frame) /\ Len(fs) = Len(cs)
  BY <1>1, <1>2
<1>4. 1 \in DOMAIN fs /\ fs # <<>> /\ Head(fs) = fs[1]
  BY <1>1, <1>2, <1>3
<1>5. \A i \in DOMAIN fs : fs[i].from \in S
  BY <1>1, <1>2
<1>6. \A c \in S : \E i \in DOMAIN fs : fs[i].from = c
  BY <1>1, <1>2
<1> QED
  BY <1>3, <1>4, <1>5, <1>6

-----------------------------------------------------------------------------
(* The room.                                                               *)

\* What follows from the types, in the form in which the proofs use it.
LEMMA GivenType ==
    ASSUME TypeOK
    PROVE  \A c \in Clients : Given(c) \in Seq(Frame) /\ Len(Given(c)) \in Nat
<1> TAKE c \in Clients
<1>1. seen[c] \in Seq(Frame) /\ queue[c] \in Seq(Frame)
  BY DEF TypeOK
<1>2. seen[c] \o queue[c] \in Seq(Frame)
  BY <1>1
<1>3. Len(seen[c] \o queue[c]) \in Nat
  BY <1>2, LenProperties
<1> QED
  BY <1>2, <1>3 DEF Given

\* Members have joined, and were thus not about to start or to send JOIN.
LEMMA MembersJoined ==
    ASSUME IInv
    PROVE  \A c \in members : Joins(log, c) # {} /\ pc[c] \notin {"start", "join"}
  BY DEF IInv, TypeOK, UpToDate, JoinsOnce

\* A client's name is there once it has started.
LEMMA FrameOfStarted ==
    ASSUME IInv, NEW c \in Clients, pc[c] # "start", NEW k \in Kind
    PROVE  /\ FrameOf(c, k) \in Frame /\ Genuine(FrameOf(c, k))
           /\ FrameOf(c, k).kind = k /\ FrameOf(c, k).from = c
<1>1. name[c] \in Names
  BY DEF IInv, TypeOK, NamesSound
<1> QED
  BY <1>1 DEF FrameOf, Frame, Genuine

\* The host broadcasts that all clients leave that it takes for dead.
LEMMA ProbeFrames ==
    ASSUME IInv, Probe, Zombies # {}
    PROVE  \E fs \in Seq(Frame) :
              /\ fs # <<>> /\ 1 \in DOMAIN fs /\ Head(fs) = fs[1]
              /\ \A i \in DOMAIN fs : fs[i] \in Frame /\ fs[i].kind = "LEAVE"
              /\ \A n : (n = fs[1].name \/ \E i \in DOMAIN fs \ {1} : n = fs[i].name)
                           <=> \E c \in Zombies : n = name[c]
              /\ Broadcast(fs, members')
<1>1. Zombies \subseteq members /\ members \subseteq Clients
  BY DEF IInv, TypeOK, Zombies
<1>2. PICK cs \in SetToSeqs(Zombies) :
         Broadcast([i \in DOMAIN cs |-> FrameOf(cs[i], "LEAVE")], members')
  BY DEF Probe
<1>3. IsFiniteSet(Zombies)
  BY <1>1, ProcessAssumption, FS_Subset
<1>4. \A c \in Zombies : name[c] \in Names
  BY <1>1, MembersJoined DEF IInv, TypeOK, NamesSound
<1> DEFINE fs == [i \in DOMAIN cs |-> FrameOf(cs[i], "LEAVE")]
<1>5. \A i \in DOMAIN cs : cs[i] \in Zombies
  BY <1>1, <1>3, EachOnce
<1>6. /\ fs \in [DOMAIN cs -> Frame] /\ \A i \in DOMAIN cs : fs[i].from = cs[i]
      /\ \A i \in DOMAIN fs : fs[i] = FrameOf(fs[i].from, "LEAVE")
  BY <1>1, <1>4, <1>5 DEF FrameOf, Frame, Kind
<1>7. Broadcast(fs, members')
  BY <1>2
<1> HIDE DEF fs
<1>8. /\ fs \in Seq(Frame) /\ fs # <<>> /\ 1 \in DOMAIN fs /\ Head(fs) = fs[1]
      /\ \A i \in DOMAIN fs : fs[i].from \in Zombies
      /\ \A c \in Zombies : \E i \in DOMAIN fs : fs[i].from = c
  BY <1>1, <1>3, <1>6, LeavingFrames
<1>9. \A i \in DOMAIN fs : fs[i] \in Frame /\ fs[i].kind = "LEAVE"
         /\ fs[i].name = name[fs[i].from]
  BY <1>6, <1>8 DEF FrameOf
<1>10. \A n : (n = fs[1].name \/ \E i \in DOMAIN fs \ {1} : n = fs[i].name)
                 <=> \E c \in Zombies : n = name[c]
  <2>1. \A n : (n = fs[1].name \/ \E i \in DOMAIN fs \ {1} : n = fs[i].name)
                  <=> \E i \in DOMAIN fs : n = fs[i].name
    BY <1>8
  <2> QED
    BY <1>8, <1>9, <2>1
<1> QED
  BY <1>7, <1>8, <1>9, <1>10

\* The parts of the invariant hold on where what they are about does not change.
LEMMA NamesQuiet ==
    ASSUME NamesSound, uplink' = uplink, held' = held, log' = log, buf' = buf, name' = name,
           members' = members, \A c \in Clients : pc'[c] = "start" <=> pc[c] = "start"
    PROVE  NamesSound'
  BY DEF NamesSound, Genuine

\* The same for where each JOIN is.
LEMMA JoinsQuiet ==
    ASSUME JoinsOnce, uplink' = uplink, held' = held, log' = log, buf' = buf,
           \A c \in Clients : pc'[c] \in {"start", "join"} => pc[c] \in {"start", "join"}
    PROVE  JoinsOnce'
  BY DEF JoinsOnce, Joins, JoinHandled

\* The same for the frames being broadcast.
LEMMA BroadcastQuiet ==
    ASSUME BroadcastSound, outbox' = outbox, todo' = todo, main' = main, target' = target,
           log' = log, buf' = buf
    PROVE  BroadcastSound'
  BY DEF BroadcastSound

\* The same for who has ended.
LEMMA EndsQuiet ==
    ASSUME IInv, links' = links, receiver' = receiver, seen' = seen, queue' = queue,
           main' = "write" => main = "write" /\ target' = target,
           \A c \in Clients : pc[c] \in {"start", "ended"} => pc'[c] \in {"start", "ended"},
           \A c \in Clients : Ended(c)' <=> Ended(c)
    PROVE  EndsSound'
<1>1. main = "write" => target \in Clients
  BY DEF IInv, TypeOK, BroadcastSound
<1> QED
  BY <1>1 DEF IInv, EndsSound, HasReader, Given, Ended

\* The same for the names in the table.
LEMMA TableQuiet ==
    ASSUME TableSound, log' = log, outbox' = outbox, name' = name, members' = members,
           main' # "gone" => main # "gone"
    PROVE  TableSound'
  BY DEF TableSound, Unannounced, Present

\* The same for what members were given.
LEMMA UpToDateQuiet ==
    ASSUME TypeOK, UpToDate, log' = log, seen' = seen, queue' = queue, members' = members,
           todo' = todo, \A c \in Clients : Ended(c) => Ended(c)'
    PROVE  UpToDate'
<1>1. members \subseteq Clients
  BY DEF TypeOK
<1> QED
  BY <1>1 DEF UpToDate, Joins, Given

\* A client sends a frame that is no JOIN, or fails to.
LEMMA SendNames ==
    ASSUME TypeOK, NamesSound, NEW f \in Frame, Genuine(f),
           uplink' = uplink \/ uplink' = Append(uplink, f),
           held' = held, log' = log, buf' = buf, name' = name, members' = members,
           \A c \in Clients : pc'[c] = "start" <=> pc[c] = "start"
    PROVE  NamesSound'
<1>1. CASE uplink' = uplink
  BY <1>1, NamesQuiet
<1>2. CASE uplink' = Append(uplink, f)
  <2>1. /\ DOMAIN uplink' = 1..(Len(uplink) + 1) /\ DOMAIN uplink = 1..Len(uplink)
        /\ Len(uplink) \in Nat
        /\ \A i \in 1..Len(uplink) : uplink'[i] = uplink[i]
        /\ uplink'[Len(uplink) + 1] = f
    BY <1>2, AppendFacts DEF TypeOK
  <2>2. \A i \in DOMAIN uplink' : Genuine(uplink'[i])
    BY <2>1 DEF NamesSound
  <2> QED
    BY <2>2 DEF NamesSound, Genuine
<1> QED
  BY <1>1, <1>2

\* Such a frame leaves each JOIN where it is.
LEMMA SendJoins ==
    ASSUME TypeOK, JoinsOnce, NEW f \in Frame, f.kind # "JOIN",
           uplink' = uplink \/ uplink' = Append(uplink, f),
           held' = held, log' = log, buf' = buf,
           \A c \in Clients : pc'[c] \in {"start", "join"} => pc[c] \in {"start", "join"}
    PROVE  JoinsOnce'
<1>1. CASE uplink' = uplink
  BY <1>1, JoinsQuiet
<1>2. CASE uplink' = Append(uplink, f)
  <2>1. \A c \in Clients : Joins(uplink', c) = Joins(uplink, c)
    BY <1>2, JoinsAppend DEF TypeOK
  <2>2. \A c \in Clients : JoinHandled(c)' <=> JoinHandled(c)
    BY DEF JoinHandled
  <2> QED
    BY <2>1, <2>2 DEF JoinsOnce
<1> QED
  BY <1>1, <1>2

\* A frame that is no JOIN is announced, once the one before it was tried with everybody.
LEMMA AnnounceNames ==
    ASSUME TypeOK, NamesSound, NEW f \in Frame, f.kind # "JOIN", log' = Append(log, f),
           uplink' = uplink, held' = held, buf' \in {buf, <<>>}, name' = name, pc' = pc,
           members' \subseteq members
    PROVE  NamesSound'
<1>1. log \in Seq(Frame)
  BY DEF TypeOK
<1>2. /\ DOMAIN log = 1..Len(log) /\ DOMAIN log' = 1..(Len(log) + 1) /\ Len(log) \in Nat
      /\ \A i \in 1..Len(log) : log'[i] = log[i]
      /\ log'[Len(log) + 1] = f
  BY <1>1, AppendFacts
<1>3. \A i \in DOMAIN log' : log'[i].kind = "JOIN" => i \in DOMAIN log /\ log'[i] = log[i]
  BY <1>2
<1> QED
  BY <1>3 DEF NamesSound, Genuine

\* Such an announcement is nobody's joining.
LEMMA AnnounceJoins ==
    ASSUME TypeOK, JoinsOnce, NEW f \in Frame, f.kind # "JOIN", log' = Append(log, f),
           uplink' = uplink, held' = held, buf' \in {buf, <<>>}, pc' = pc
    PROVE  JoinsOnce'
<1>1. \A c \in Clients : Joins(log', c) = Joins(log, c)
  BY JoinsAppend DEF TypeOK
<1>2. \A c \in Clients : JoinHandled(c)' => JoinHandled(c)
  BY DEF JoinHandled
<1> QED
  BY <1>1, <1>2 DEF JoinsOnce

\* Such an announcement puts all members one frame behind that are to get it.
LEMMA AnnounceUpToDate ==
    ASSUME TypeOK, UpToDate, NEW f \in Frame, f.kind # "JOIN", log' = Append(log, f),
           todo = {}, members' \subseteq members, todo' = members',
           seen' = seen, queue' = queue, pc' = pc
    PROVE  UpToDate'
<1>1. \A c \in Clients : Joins(log', c) = Joins(log, c)
  BY JoinsAppend DEF TypeOK
<1>2. Len(log') = Len(log) + 1 /\ Len(log) \in Nat
  BY DEF TypeOK
<1>3. \A c \in Clients : Given(c)' = Given(c) /\ (Ended(c)' <=> Ended(c))
  BY DEF Given, Ended
<1>4. \A c \in Clients : Joins(log', c) = {} => Given(c)' = <<>>
  BY <1>1, <1>3 DEF UpToDate
<1>5. ASSUME NEW c \in members'
      PROVE  \E i \in Joins(log', c) : ~Ended(c)' => i + Len(Given(c)') = Len(log')
  <2>1. c \in members /\ c \in Clients
    BY <1>5 DEF TypeOK
  <2>2. PICK i \in Joins(log, c) : ~Ended(c) => i + Len(Given(c)) = Len(log) + 1
    BY <2>1 DEF UpToDate
  <2> QED
    BY <1>1, <1>2, <1>3, <2>1, <2>2
<1> QED
  BY <1>4, <1>5 DEF UpToDate

\* No Ended is undone or done by going from one place to another.
LEMMA GoesOn ==
    ASSUME TypeOK, NEW c \in Clients, NEW place \in Client \ {"start", "ended", "killed"},
           pc' = [pc EXCEPT ![c] = place], pc[c] \notin {"start", "ended", "killed"}
    PROVE  /\ \A d \in Clients : Ended(d)' <=> Ended(d)
           /\ \A d \in Clients : pc'[d] = "start" <=> pc[d] = "start"
           /\ \A d \in Clients : pc[d] \in {"start", "ended"} => pc'[d] \in {"start", "ended"}
           /\ pc' \in [Clients -> Client]
  BY DEF TypeOK, Ended, Client

\* Reading takes the first frame from the reader's buffer when one is there.
LEMMA ReadHeld ==
    ASSUME IInv, HostRead, held # <<>>
    PROVE  /\ uplink' \in Seq(Frame) /\ held' \in Seq(Frame) /\ buf' \in Frame
           /\ NamesSound' /\ JoinsOnce'
<1>1. /\ uplink \in Seq(Frame) /\ held \in Seq(Frame) /\ buf' = Head(held)
      /\ held' = Tail(held)
      /\ uplink' = uplink /\ log' = log /\ name' = name /\ members' = members /\ pc' = pc
  BY DEF IInv, TypeOK, HostRead, delivery, client
<1>2. /\ held' \in Seq(Frame) /\ buf' \in Frame /\ buf' = held[1]
      /\ Len(held) \in Nat /\ Len(held) >= 1
      /\ DOMAIN held = 1..Len(held) /\ DOMAIN held' = 1..(Len(held) - 1)
      /\ \A i \in 1..(Len(held) - 1) : held'[i] = held[i + 1]
  BY <1>1, TailFacts
<1>3. NamesSound'
  <2>1. 1 \in DOMAIN held /\ \A i \in DOMAIN held' : i + 1 \in DOMAIN held
    BY <1>2
  <2>2. Genuine(buf') /\ \A i \in DOMAIN held' : Genuine(held'[i])
    BY <1>2, <2>1 DEF IInv, NamesSound
  <2> QED
    BY <1>1, <2>2 DEF IInv, NamesSound, Genuine
<1>4. JoinsOnce'
  <2>1. ASSUME NEW c \in Clients
        PROVE  /\ \A i, j \in Joins(held', c) : i = j
               /\ Joins(held', c) # {} => Joins(held, c) # {} /\ ~JoinHandled(c)'
               /\ JoinHandled(c)' => Joins(held, c) # {}
    <3>1. \A i, j \in Joins(held, c) : i = j
      BY DEF IInv, JoinsOnce
    <3>2. /\ \A i \in Joins(held', c) : i \in Nat /\ i >= 1 /\ i + 1 \in Joins(held, c)
          /\ JoinHandled(c)' => 1 \in Joins(held, c)
      BY <1>1, <1>2, JoinsTail DEF JoinHandled
    <3>3. \A i \in Nat : i >= 1 => i + 1 # 1
      OBVIOUS
    <3>4. \A i, j \in Nat : i + 1 = j + 1 => i = j
      OBVIOUS
    <3> QED
      BY <3>1, <3>2, <3>3, <3>4
  <2> QED
    BY <1>1, <2>1 DEF IInv, JoinsOnce
<1> QED
  BY <1>1, <1>2, <1>3, <1>4

\* Otherwise reading takes some frames from the FIFO, the first of them for the host.
LEMMA ReadFifo ==
    ASSUME IInv, HostRead, held = <<>>
    PROVE  /\ uplink' \in Seq(Frame) /\ held' \in Seq(Frame) /\ buf' \in Frame
           /\ NamesSound' /\ JoinsOnce'
<1>1. /\ uplink \in Seq(Frame) /\ uplink # <<>>
      /\ log' = log /\ name' = name /\ members' = members /\ pc' = pc
  BY DEF IInv, TypeOK, HostRead, delivery, client
<1>2. PICK n \in DOMAIN uplink :
         /\ buf' = Head(uplink) /\ held' = SubSeq(uplink, 2, n)
         /\ uplink' = SubSeq(uplink, n + 1, Len(uplink))
  BY DEF HostRead
<1>3. /\ Len(uplink) \in Nat /\ DOMAIN uplink = 1..Len(uplink) /\ n \in 1..Len(uplink)
      /\ Head(uplink) = uplink[1] /\ 1 \in DOMAIN uplink /\ uplink[1] \in Frame
  BY <1>1, TailFacts
<1>4. /\ 2 \in 1..(Len(uplink) + 1) /\ n \in (2 - 1)..Len(uplink)
      /\ n + 1 \in 1..(Len(uplink) + 1) /\ Len(uplink) \in ((n + 1) - 1)..Len(uplink)
  BY <1>3
<1>5. /\ held' \in Seq(Frame)
      /\ \A i \in DOMAIN held' : i \in Nat /\ i >= 1 /\ i <= n - 2 + 1
            /\ held'[i] = uplink[2 + i - 1]
      /\ \A c \in Clients : \A i \in Joins(held', c) :
            i \in Nat /\ i >= 1 /\ i <= n - 2 + 1 /\ 2 + i - 1 \in Joins(uplink, c)
  <2>1. held' = SubSeq(uplink, 2, n) /\ uplink \in Seq(Frame)
    BY <1>1, <1>2
  <2>2. /\ SubSeq(uplink, 2, n) \in Seq(Frame)
        /\ \A i \in DOMAIN SubSeq(uplink, 2, n) :
              i \in Nat /\ i >= 1 /\ i <= n - 2 + 1
              /\ SubSeq(uplink, 2, n)[i] = uplink[2 + i - 1]
    BY <1>3, <1>4, <2>1, SMTT(20)
  <2>3. ASSUME NEW c \in Clients
        PROVE  \A i \in Joins(SubSeq(uplink, 2, n), c) :
                  i \in Nat /\ i >= 1 /\ i <= n - 2 + 1 /\ 2 + i - 1 \in Joins(uplink, c)
    BY <1>4, <2>1, <2>3, JoinsSubSeq, SMTT(20)
  <2> QED
    BY <2>1, <2>2, <2>3
<1>k. PICK k \in 1..(Len(uplink) + 1) : k = n + 1 /\ Len(uplink) \in (k - 1)..Len(uplink)
  BY <1>4
<1>6. /\ uplink' \in Seq(Frame)
      /\ \A i \in DOMAIN uplink' : i \in Nat /\ i >= 1 /\ i <= Len(uplink) - (n + 1) + 1
                                   /\ uplink'[i] = uplink[n + 1 + i - 1]
      /\ \A c \in Clients : \A i \in Joins(uplink', c) :
            i \in Nat /\ i >= 1 /\ n + 1 + i - 1 \in Joins(uplink, c)
  <2>1. /\ uplink' = SubSeq(uplink, k, Len(uplink)) /\ Len(uplink) \in (k - 1)..Len(uplink)
    BY <1>2, <1>k
  <2>2. /\ uplink' \in Seq(Frame)
        /\ \A i \in DOMAIN uplink' : i \in Nat /\ i >= 1 /\ i <= Len(uplink) - k + 1
                                     /\ uplink'[i] = uplink[k + i - 1]
        /\ \A c \in Clients : \A i \in Joins(uplink', c) :
              i \in Nat /\ i >= 1 /\ k + i - 1 \in Joins(uplink, c)
    BY <1>1, <2>1, JoinsSubSeq
  <2> QED
    BY <1>k, <2>2
<1>7. NamesSound'
  <2>1. \A i \in DOMAIN held' : 2 + i - 1 \in DOMAIN uplink
    BY <1>3, <1>5
  <2>2. \A i \in DOMAIN uplink' : n + 1 + i - 1 \in DOMAIN uplink
    BY <1>3, <1>6
  <2>3. /\ Genuine(buf') /\ \A i \in DOMAIN held' : Genuine(held'[i])
        /\ \A i \in DOMAIN uplink' : Genuine(uplink'[i])
    BY <1>2, <1>3, <1>5, <1>6, <2>1, <2>2 DEF IInv, NamesSound
  <2> QED
    BY <1>1, <2>3 DEF IInv, NamesSound, Genuine
<1>8. JoinsOnce'
  <2>1. ASSUME NEW c \in Clients
        PROVE  /\ \A i, j \in Joins(held', c) : i = j
               /\ \A i, j \in Joins(uplink', c) : i = j
               /\ Joins(held', c) # {} =>
                     Joins(uplink, c) # {} /\ Joins(uplink', c) = {} /\ ~JoinHandled(c)'
               /\ Joins(uplink', c) # {} => Joins(uplink, c) # {} /\ ~JoinHandled(c)'
               /\ JoinHandled(c)' => Joins(uplink, c) # {}
    <3>1. \A i, j \in Joins(uplink, c) : i = j
      BY DEF IInv, JoinsOnce
    <3>2. /\ \A i \in Joins(held', c) : i \in Nat /\ i >= 1 /\ i <= n - 1
                /\ i + 1 \in Joins(uplink, c)
          /\ \A i \in Joins(uplink', c) : i \in Nat /\ i >= 1 /\ n + i \in Joins(uplink, c)
      BY <1>3, <1>5, <1>6
    <3>3. JoinHandled(c)' => 1 \in Joins(uplink, c)
      BY <1>1, <1>2, JoinsTail DEF JoinHandled
    <3>4. /\ \A i \in Nat : i >= 1 => i + 1 # 1 /\ n + i # 1
          /\ \A i, j \in Nat : i + 1 = j + 1 => i = j
          /\ \A i, j \in Nat : n + i = n + j => i = j
          /\ \A i, j \in Nat : i <= n - 1 /\ j >= 1 => i + 1 # n + j
      BY <1>3
    <3> QED
      BY <3>1, <3>2, <3>3, <3>4
  <2> QED
    BY <1>1, <2>1 DEF IInv, JoinsOnce
<1> QED
  BY <1>2, <1>3, <1>5, <1>6, <1>7, <1>8
-----------------------------------------------------------------------------
\* A client starts: no frame and no member is named by it yet.
LEMMA StartIInv ==
    ASSUME IInv, NEW c \in Clients, Start(c)
    PROVE  IInv'
<1>a. c \notin members
  BY MembersJoined DEF Start
<1>b. name[c] = NoName /\ pc[c] = "start" /\ NoName \notin Names
  BY ProcessAssumption DEF IInv, NamesSound, Start
<1>c. PICK n \in Names : name' = [name EXCEPT ![c] = n]
  BY DEF Start
<1>d. /\ name' \in [Clients -> Names \cup {NoName}]
      /\ \A d \in Clients : d # c => name'[d] = name[d]
      /\ name'[c] \in Names
      /\ uplink' = uplink /\ held' = held /\ buf' = buf /\ log' = log /\ members' = members
      /\ outbox' = outbox /\ members \subseteq Clients /\ main' = main /\ target' = target
      /\ receiver' = receiver /\ seen' = seen /\ queue' = queue /\ links' = links \cup {c}
  BY <1>c DEF IInv, TypeOK, Start, host, delivery, inbox
<1>e. pc' = [pc EXCEPT ![c] = "join"] /\ pc \in [Clients -> Client]
  BY DEF IInv, TypeOK, Start, Goto
<1>f. \A f \in Frame : Genuine(f) => Genuine(f)' /\ f.from # c
  BY <1>b, <1>d DEF Genuine, Frame
<1>g. \A d \in Clients : Ended(d)' <=> Ended(d)
  BY <1>b, <1>e DEF Ended
<1>1. TypeOK'
  BY <1>d, <1>e DEF IInv, TypeOK, Client, Start, host, delivery, inbox
<1>2. NamesSound'
  <2>1. \A d \in Clients : pc'[d] = "start" <=> name'[d] = NoName
    BY <1>b, <1>d, <1>e DEF IInv, NamesSound
  <2>2. \A d, e \in members' : name'[d] = name'[e] => d = e
    <3>1. \A d \in members : d \in Clients /\ d # c /\ name'[d] = name[d]
      BY <1>a, <1>d
    <3> QED
      BY <1>d, <3>1 DEF IInv, NamesSound
  <2>3. \A i \in DOMAIN uplink' : Genuine(uplink[i])'
    BY <1>d, <1>f DEF IInv, TypeOK, NamesSound
  <2>4. \A i \in DOMAIN held' : Genuine(held[i])'
    BY <1>d, <1>f DEF IInv, TypeOK, NamesSound
  <2>5. \A i \in DOMAIN log' : log'[i].kind = "JOIN" => Genuine(log[i])'
    BY <1>d, <1>f DEF IInv, TypeOK, NamesSound
  <2>6. buf' # <<>> => Genuine(buf)'
    BY <1>d, <1>f DEF IInv, TypeOK, NamesSound
  <2> QED
    BY <1>d, <2>1, <2>2, <2>3, <2>4, <2>5, <2>6 DEF NamesSound, Genuine
<1>3. JoinsOnce'
  BY <1>b, <1>d, <1>e, JoinsQuiet DEF IInv
<1>4. BroadcastSound'
  BY <1>g, BroadcastQuiet DEF IInv, TypeOK, Start, Goto, host, delivery, inbox, client
<1>5. EndsSound'
  <2>1. main = "write" => target \in Clients
    BY DEF IInv, TypeOK, BroadcastSound
  <2> QED
    BY <1>b, <1>d, <1>e, <1>g, <2>1 DEF IInv, EndsSound, HasReader, Given
<1>6. TableSound'
  <2>1. {name'[d] : d \in members'} = {name[d] : d \in members}
    BY <1>a, <1>d
  <2>2. Present(log)' = Present(log) /\ Unannounced' = Unannounced
    BY <1>d DEF Present, Unannounced
  <2> QED
    BY <1>d, <2>1, <2>2 DEF IInv, TableSound
<1>7. UpToDate'
  BY <1>g, UpToDateQuiet DEF IInv, TypeOK, Start, Goto, host, delivery, inbox, client
<1> QED
  BY <1>1, <1>2, <1>3, <1>4, <1>5, <1>6, <1>7 DEF IInv

\* A client's JOIN goes into the FIFO; it was nowhere before.
LEMMA SendJoinIInv ==
    ASSUME IInv, NEW c \in Clients, SendJoin(c)
    PROVE  IInv'
<1> DEFINE f == FrameOf(c, "JOIN")
<1>a. f \in Frame /\ Genuine(f) /\ f.kind = "JOIN" /\ f.from = c
  BY FrameOfStarted DEF SendJoin, Kind
<1>b. /\ uplink \in Seq(Frame) /\ pc[c] = "join" /\ pc \in [Clients -> Client]
      /\ held' = held /\ log' = log /\ buf' = buf /\ name' = name /\ members' = members
      /\ \/ uplink' = Append(uplink, f) /\ pc' = [pc EXCEPT ![c] = "opening"]
         \/ uplink' = uplink
               /\ \E place \in {"unlink", "stuck"} : pc' = [pc EXCEPT ![c] = place]
  BY DEF IInv, TypeOK, SendJoin, WriteUp, Goto, host, delivery
<1> HIDE DEF f
<1>c. /\ \A d \in Clients : Ended(d)' <=> Ended(d)
      /\ \A d \in Clients : pc'[d] = "start" <=> pc[d] = "start"
      /\ \A d \in Clients : pc[d] \in {"start", "ended"} => pc'[d] \in {"start", "ended"}
      /\ pc' \in [Clients -> Client] /\ pc'[c] \notin {"start", "join"}
      /\ \A d \in Clients : d # c => pc'[d] = pc[d]
  BY <1>b DEF Ended, Client
<1>1. TypeOK'
  <2>1. uplink' \in Seq(Frame)
    BY <1>a, <1>b, AppendFacts
  <2> QED
    BY <1>b, <1>c, <2>1 DEF IInv, TypeOK, SendJoin, host, delivery, inbox
<1>2. NamesSound'
  BY <1>a, <1>b, <1>c, SendNames DEF IInv
<1>3. JoinsOnce'
  <2>1. CASE uplink' = uplink
    BY <1>b, <1>c, <2>1, JoinsQuiet DEF IInv
  <2>2. CASE uplink' = Append(uplink, f)
    <3>1. \A d \in Clients : d # c => Joins(uplink', d) = Joins(uplink, d)
      BY <1>a, <1>b, <2>2, JoinsAppend
    <3>2. /\ Joins(uplink, c) = {} /\ Joins(held, c) = {} /\ Joins(log, c) = {}
          /\ ~JoinHandled(c)
      BY <1>b DEF IInv, JoinsOnce
    <3>3. Joins(uplink', c) = {Len(uplink) + 1}
      BY <1>a, <1>b, <2>2, <3>2, JoinsAppend
    <3>4. \A d \in Clients : JoinHandled(d)' <=> JoinHandled(d)
      BY <1>b DEF JoinHandled
    <3> QED
      BY <1>b, <1>c, <3>1, <3>2, <3>3, <3>4 DEF IInv, JoinsOnce
  <2> QED
    BY <1>b, <2>1, <2>2
<1>4. BroadcastSound'
  BY <1>c, BroadcastQuiet DEF IInv, TypeOK, SendJoin, host, delivery, inbox, client
<1>5. EndsSound'
  BY <1>c, EndsQuiet DEF IInv, TypeOK, SendJoin, host, delivery, inbox, client
<1>6. TableSound'
  BY <1>c, TableQuiet DEF IInv, TypeOK, SendJoin, host, delivery, inbox, client
<1>7. UpToDate'
  BY <1>c, UpToDateQuiet DEF IInv, TypeOK, SendJoin, host, delivery, inbox, client
<1> QED
  BY <1>1, <1>2, <1>3, <1>4, <1>5, <1>6, <1>7 DEF IInv

\* The client that opens its FIFO has not ended.
LEMMA OpenFifoIInv ==
    ASSUME IInv, NEW c \in Clients, OpenFifo(c)
    PROVE  IInv'
<1>a. \E place \in {"input", "leave"} : pc' = [pc EXCEPT ![c] = place]
  BY DEF OpenFifo, Goto, InputOrLeave
<1>b. pc[c] = "opening" /\ pc \in [Clients -> Client]
  BY DEF IInv, TypeOK, OpenFifo
<1>c. /\ \A d \in Clients : Ended(d)' <=> Ended(d)
      /\ \A d \in Clients : pc'[d] = "start" <=> pc[d] = "start"
      /\ \A d \in Clients : pc[d] \in {"start", "ended"} => pc'[d] \in {"start", "ended"}
      /\ \A d \in Clients : pc'[d] \in {"start", "join"} => pc[d] \in {"start", "join"}
      /\ pc' \in [Clients -> Client]
  BY <1>a, <1>b DEF Ended, Client
<1>1. TypeOK'
  BY <1>c DEF IInv, TypeOK, Client, Main, OpenFifo, Goto, InputOrLeave, host, delivery,
       inbox, client
<1>2. NamesSound'
  BY <1>c, NamesQuiet DEF IInv, TypeOK, OpenFifo, Goto, InputOrLeave, host, delivery,
       inbox, client
<1>3. JoinsOnce'
  BY <1>c, JoinsQuiet DEF IInv, TypeOK, OpenFifo, Goto, InputOrLeave, host, delivery,
       inbox, client
<1>4. BroadcastSound'
  BY <1>c, BroadcastQuiet DEF IInv, TypeOK, OpenFifo, Goto, InputOrLeave, host, delivery,
       inbox, client
<1>5. EndsSound'
  <2>1. /\ receiver' = [receiver EXCEPT ![c] = "wait"] /\ links' = links /\ main' = main
        /\ target' = target /\ seen' = seen /\ queue' = queue
        /\ receiver \in [Clients -> {"off", "wait"}]
    BY DEF IInv, TypeOK, OpenFifo, host
  <2>2. main = "write" => target \in Clients
    BY DEF IInv, TypeOK, BroadcastSound
  <2>3. ~Ended(c)
    BY <1>b DEF Ended
  <2> QED
    BY <1>c, <2>1, <2>2, <2>3 DEF IInv, EndsSound, HasReader, Given
<1>6. TableSound'
  BY <1>c, TableQuiet DEF IInv, TypeOK, OpenFifo, Goto, InputOrLeave, host, delivery,
       inbox, client
<1>7. UpToDate'
  BY <1>c, UpToDateQuiet DEF IInv, TypeOK, OpenFifo, Goto, InputOrLeave, host, delivery,
       inbox, client
<1> QED
  BY <1>1, <1>2, <1>3, <1>4, <1>5, <1>6, <1>7 DEF IInv

\* A client goes to send its line.
LEMMA TypeLineIInv ==
    ASSUME IInv, NEW c \in Clients, TypeLine(c)
    PROVE  IInv'
<1>a. \E place \in {"say"} : pc' = [pc EXCEPT ![c] = place]
  BY DEF TypeLine, Goto
<1>b. pc[c] = "input" /\ pc \in [Clients -> Client]
  BY DEF IInv, TypeOK, TypeLine
<1>c. /\ \A d \in Clients : Ended(d)' <=> Ended(d)
      /\ \A d \in Clients : pc'[d] = "start" <=> pc[d] = "start"
      /\ \A d \in Clients : pc[d] \in {"start", "ended"} => pc'[d] \in {"start", "ended"}
      /\ \A d \in Clients : pc'[d] \in {"start", "join"} => pc[d] \in {"start", "join"}
      /\ pc' \in [Clients -> Client]
  BY <1>a, <1>b DEF Ended, Client
<1>1. TypeOK'
  BY <1>c, BoundAssumption DEF IInv, TypeOK, Client, Main, TypeLine, Goto, host, delivery,
       inbox, client
<1>2. NamesSound'
  BY <1>c, NamesQuiet DEF IInv, TypeOK, TypeLine, Goto, host, delivery, inbox, client
<1>3. JoinsOnce'
  BY <1>c, JoinsQuiet DEF IInv, TypeOK, TypeLine, Goto, host, delivery, inbox, client
<1>4. BroadcastSound'
  BY <1>c, BroadcastQuiet DEF IInv, TypeOK, TypeLine, Goto, host, delivery, inbox, client
<1>5. EndsSound'
  BY <1>c, EndsQuiet DEF IInv, TypeOK, TypeLine, Goto, host, delivery, inbox, client
<1>6. TableSound'
  BY <1>c, TableQuiet DEF IInv, TypeOK, TypeLine, Goto, host, delivery, inbox, client
<1>7. UpToDate'
  BY <1>c, UpToDateQuiet DEF IInv, TypeOK, TypeLine, Goto, host, delivery, inbox, client
<1> QED
  BY <1>1, <1>2, <1>3, <1>4, <1>5, <1>6, <1>7 DEF IInv

\* A client stops reading lines.
LEMMA QuitIInv ==
    ASSUME IInv, NEW c \in Clients, Quit(c)
    PROVE  IInv'
<1>a. \E place \in {"leave"} : pc' = [pc EXCEPT ![c] = place]
  BY DEF Quit, Goto
<1>b. pc[c] = "input" /\ pc \in [Clients -> Client]
  BY DEF IInv, TypeOK, Quit
<1>c. /\ \A d \in Clients : Ended(d)' <=> Ended(d)
      /\ \A d \in Clients : pc'[d] = "start" <=> pc[d] = "start"
      /\ \A d \in Clients : pc[d] \in {"start", "ended"} => pc'[d] \in {"start", "ended"}
      /\ \A d \in Clients : pc'[d] \in {"start", "join"} => pc[d] \in {"start", "join"}
      /\ pc' \in [Clients -> Client]
  BY <1>a, <1>b DEF Ended, Client
<1>1. TypeOK'
  BY <1>c DEF IInv, TypeOK, Client, Main, Quit, Goto, host, delivery, inbox, client
<1>2. NamesSound'
  BY <1>c, NamesQuiet DEF IInv, TypeOK, Quit, Goto, host, delivery, inbox, client
<1>3. JoinsOnce'
  BY <1>c, JoinsQuiet DEF IInv, TypeOK, Quit, Goto, host, delivery, inbox, client
<1>4. BroadcastSound'
  BY <1>c, BroadcastQuiet DEF IInv, TypeOK, Quit, Goto, host, delivery, inbox, client
<1>5. EndsSound'
  BY <1>c, EndsQuiet DEF IInv, TypeOK, Quit, Goto, host, delivery, inbox, client
<1>6. TableSound'
  BY <1>c, TableQuiet DEF IInv, TypeOK, Quit, Goto, host, delivery, inbox, client
<1>7. UpToDate'
  BY <1>c, UpToDateQuiet DEF IInv, TypeOK, Quit, Goto, host, delivery, inbox, client
<1> QED
  BY <1>1, <1>2, <1>3, <1>4, <1>5, <1>6, <1>7 DEF IInv

\* A line goes into the FIFO, or cannot.
LEMMA SendMsgIInv ==
    ASSUME IInv, NEW c \in Clients, SendMsg(c)
    PROVE  IInv'
<1>a. \E place \in {"input", "leave", "stuck"} : pc' = [pc EXCEPT ![c] = place]
  BY DEF SendMsg, WriteUp, Goto, InputOrLeave
<1>b. pc[c] = "say" /\ pc \in [Clients -> Client]
  BY DEF IInv, TypeOK, SendMsg
<1>c. /\ \A d \in Clients : Ended(d)' <=> Ended(d)
      /\ \A d \in Clients : pc'[d] = "start" <=> pc[d] = "start"
      /\ \A d \in Clients : pc[d] \in {"start", "ended"} => pc'[d] \in {"start", "ended"}
      /\ \A d \in Clients : pc'[d] \in {"start", "join"} => pc[d] \in {"start", "join"}
      /\ pc' \in [Clients -> Client]
  BY <1>a, <1>b DEF Ended, Client
<1> DEFINE f == FrameOf(c, "MSG")
<1>d. f \in Frame /\ Genuine(f) /\ f.kind # "JOIN"
  BY <1>b, FrameOfStarted DEF Kind
<1>e. /\ uplink \in Seq(Frame) /\ (uplink' = uplink \/ uplink' = Append(uplink, f))
      /\ held' = held /\ log' = log /\ buf' = buf /\ name' = name /\ members' = members
  BY DEF IInv, TypeOK, SendMsg, WriteUp, host, delivery
<1> HIDE DEF f
<1>1. TypeOK'
  <2>1. uplink' \in Seq(Frame)
    BY <1>d, <1>e, AppendFacts
  <2> QED
    BY <1>c, <1>e, <2>1 DEF IInv, TypeOK, SendMsg, host, delivery, inbox
<1>2. NamesSound'
  BY <1>c, <1>d, <1>e, SendNames DEF IInv
<1>3. JoinsOnce'
  BY <1>c, <1>d, <1>e, SendJoins DEF IInv
<1>4. BroadcastSound'
  BY <1>c, BroadcastQuiet DEF IInv, TypeOK, SendMsg, WriteUp, Goto, InputOrLeave, host,
       delivery, inbox, client
<1>5. EndsSound'
  BY <1>c, EndsQuiet DEF IInv, TypeOK, SendMsg, WriteUp, Goto, InputOrLeave, host,
       delivery, inbox, client
<1>6. TableSound'
  BY <1>c, TableQuiet DEF IInv, TypeOK, SendMsg, WriteUp, Goto, InputOrLeave, host,
       delivery, inbox, client
<1>7. UpToDate'
  BY <1>c, UpToDateQuiet DEF IInv, TypeOK, SendMsg, WriteUp, Goto, InputOrLeave, host,
       delivery, inbox, client
<1> QED
  BY <1>1, <1>2, <1>3, <1>4, <1>5, <1>6, <1>7 DEF IInv

\* Leaving is told to the host, or cannot be.
LEMMA SendLeaveIInv ==
    ASSUME IInv, NEW c \in Clients, SendLeave(c)
    PROVE  IInv'
<1>a. \E place \in {"unlink", "stuck"} : pc' = [pc EXCEPT ![c] = place]
  BY DEF SendLeave, WriteUp, Goto
<1>b. pc[c] = "leave" /\ pc \in [Clients -> Client]
  BY DEF IInv, TypeOK, SendLeave
<1>c. /\ \A d \in Clients : Ended(d)' <=> Ended(d)
      /\ \A d \in Clients : pc'[d] = "start" <=> pc[d] = "start"
      /\ \A d \in Clients : pc[d] \in {"start", "ended"} => pc'[d] \in {"start", "ended"}
      /\ \A d \in Clients : pc'[d] \in {"start", "join"} => pc[d] \in {"start", "join"}
      /\ pc' \in [Clients -> Client]
  BY <1>a, <1>b DEF Ended, Client
<1> DEFINE f == FrameOf(c, "LEAVE")
<1>d. f \in Frame /\ Genuine(f) /\ f.kind # "JOIN"
  BY <1>b, FrameOfStarted DEF Kind
<1>e. /\ uplink \in Seq(Frame) /\ (uplink' = uplink \/ uplink' = Append(uplink, f))
      /\ held' = held /\ log' = log /\ buf' = buf /\ name' = name /\ members' = members
  BY DEF IInv, TypeOK, SendLeave, WriteUp, host, delivery
<1> HIDE DEF f
<1>1. TypeOK'
  <2>1. uplink' \in Seq(Frame)
    BY <1>d, <1>e, AppendFacts
  <2> QED
    BY <1>c, <1>e, <2>1 DEF IInv, TypeOK, SendLeave, host, delivery, inbox
<1>2. NamesSound'
  BY <1>c, <1>d, <1>e, SendNames DEF IInv
<1>3. JoinsOnce'
  BY <1>c, <1>d, <1>e, SendJoins DEF IInv
<1>4. BroadcastSound'
  BY <1>c, BroadcastQuiet DEF IInv, TypeOK, SendLeave, WriteUp, Goto, host, delivery,
       inbox, client
<1>5. EndsSound'
  BY <1>c, EndsQuiet DEF IInv, TypeOK, SendLeave, WriteUp, Goto, host, delivery, inbox,
       client
<1>6. TableSound'
  BY <1>c, TableQuiet DEF IInv, TypeOK, SendLeave, WriteUp, Goto, host, delivery, inbox,
       client
<1>7. UpToDate'
  BY <1>c, UpToDateQuiet DEF IInv, TypeOK, SendLeave, WriteUp, Goto, host, delivery,
       inbox, client
<1> QED
  BY <1>1, <1>2, <1>3, <1>4, <1>5, <1>6, <1>7 DEF IInv

\* A client ends.
LEMMA UnlinkIInv ==
    ASSUME IInv, NEW c \in Clients, Unlink(c)
    PROVE  IInv'
<1>a. /\ receiver' = [receiver EXCEPT ![c] = "off"] /\ pc' = [pc EXCEPT ![c] = "ended"]
      /\ links' = links \ {c} /\ main' = main /\ target' = target /\ seen' = seen
      /\ queue' = queue
      /\ receiver \in [Clients -> {"off", "wait"}] /\ pc \in [Clients -> Client]
      /\ links \subseteq Clients /\ pc[c] = "unlink"
  BY DEF IInv, TypeOK, Unlink, Goto, host
<1>b. \A d \in Clients : Ended(d)' <=> Ended(d) \/ d = c
  BY <1>a DEF Ended
<1>c. /\ \A d \in Clients : pc'[d] = "start" <=> pc[d] = "start"
      /\ \A d \in Clients : pc'[d] \in {"start", "join"} => pc[d] \in {"start", "join"}
      /\ \A d \in Clients : d # c => pc'[d] = pc[d]
  BY <1>a
<1>1. TypeOK'
  BY <1>a DEF IInv, TypeOK, Client, Unlink, host, delivery
<1>2. NamesSound'
  BY <1>b, <1>c, NamesQuiet DEF IInv, TypeOK, Unlink, Goto, host, delivery, inbox, client
<1>3. JoinsOnce'
  BY <1>b, <1>c, JoinsQuiet DEF IInv, TypeOK, Unlink, Goto, host, delivery, inbox, client
<1>4. BroadcastSound'
  BY <1>b, <1>c, BroadcastQuiet DEF IInv, TypeOK, Unlink, Goto, host, delivery, inbox,
       client
<1>5. EndsSound'
  <2>1. main = "write" => target \in Clients
    BY DEF IInv, TypeOK, BroadcastSound
  <2>2. \A d \in Clients : HasReader(d)' <=> HasReader(d) /\ d # c
    BY <1>a DEF HasReader
  <2>3. \A d \in Clients : Ended(d)' => ~HasReader(d)'
    BY <1>b, <2>2 DEF IInv, EndsSound
  <2>4. \A d \in Clients : d \notin links' => pc'[d] \in {"start", "ended"}
    BY <1>a, <1>c DEF IInv, EndsSound
  <2>5. \A d \in Clients : HasReader(d) \/ Ended(d) => HasReader(d)' \/ Ended(d)'
    BY <1>b, <2>2
  <2>6. main' = "write" => HasReader(target)' \/ Ended(target)'
    <3>1. ASSUME main = "write"
          PROVE \E d \in Clients : d = target' /\ (HasReader(d)' \/ Ended(d)')
      BY <1>a, <2>1, <2>5, <3>1 DEF IInv, EndsSound
    <3> QED
      BY <1>a, <3>1 DEF HasReader, Ended
  <2>7. \A d \in Clients : Given(d)' # <<>> => HasReader(d)' \/ Ended(d)'
    BY <1>a, <2>5 DEF IInv, EndsSound, Given
  <2> QED
    BY <2>3, <2>4, <2>6, <2>7 DEF EndsSound
<1>6. TableSound'
  BY <1>b, <1>c, TableQuiet DEF IInv, TypeOK, Unlink, Goto, host, delivery, inbox, client
<1>7. UpToDate'
  BY <1>b, <1>c, UpToDateQuiet DEF IInv, TypeOK, Unlink, Goto, host, delivery, inbox, client
<1> QED
  BY <1>1, <1>2, <1>3, <1>4, <1>5, <1>6, <1>7 DEF IInv

\* A client is killed.
LEMMA KillIInv ==
    ASSUME IInv, NEW c \in Clients, Kill(c)
    PROVE  IInv'
<1>a. /\ receiver' = [receiver EXCEPT ![c] = "off"] /\ pc' = [pc EXCEPT ![c] = "killed"]
      /\ links' = links /\ main' = main /\ target' = target /\ seen' = seen
      /\ queue' = queue
      /\ receiver \in [Clients -> {"off", "wait"}] /\ pc \in [Clients -> Client]
      /\ links \subseteq Clients /\ pc[c] \notin {"start", "ended", "killed"}
  BY DEF IInv, TypeOK, Kill, Goto, host
<1>b. \A d \in Clients : Ended(d)' <=> Ended(d) \/ d = c
  BY <1>a DEF Ended
<1>c. /\ \A d \in Clients : pc'[d] = "start" <=> pc[d] = "start"
      /\ \A d \in Clients : pc'[d] \in {"start", "join"} => pc[d] \in {"start", "join"}
      /\ \A d \in Clients : d # c => pc'[d] = pc[d]
  BY <1>a
<1>1. TypeOK'
  BY <1>a DEF IInv, TypeOK, Client, Kill, host, delivery
<1>2. NamesSound'
  BY <1>b, <1>c, NamesQuiet DEF IInv, TypeOK, Kill, Goto, host, delivery, inbox, client
<1>3. JoinsOnce'
  BY <1>b, <1>c, JoinsQuiet DEF IInv, TypeOK, Kill, Goto, host, delivery, inbox, client
<1>4. BroadcastSound'
  BY <1>b, <1>c, BroadcastQuiet DEF IInv, TypeOK, Kill, Goto, host, delivery, inbox, client
<1>5. EndsSound'
  <2>1. main = "write" => target \in Clients
    BY DEF IInv, TypeOK, BroadcastSound
  <2>2. \A d \in Clients : HasReader(d)' <=> HasReader(d) /\ d # c
    BY <1>a DEF HasReader
  <2>3. \A d \in Clients : Ended(d)' => ~HasReader(d)'
    BY <1>b, <2>2 DEF IInv, EndsSound
  <2>4. \A d \in Clients : d \notin links' => pc'[d] \in {"start", "ended"}
    BY <1>a, <1>c DEF IInv, EndsSound
  <2>5. \A d \in Clients : HasReader(d) \/ Ended(d) => HasReader(d)' \/ Ended(d)'
    BY <1>b, <2>2
  <2>6. main' = "write" => HasReader(target)' \/ Ended(target)'
    <3>1. ASSUME main = "write"
          PROVE \E d \in Clients : d = target' /\ (HasReader(d)' \/ Ended(d)')
      BY <1>a, <2>1, <2>5, <3>1 DEF IInv, EndsSound
    <3> QED
      BY <1>a, <3>1 DEF HasReader, Ended
  <2>7. \A d \in Clients : Given(d)' # <<>> => HasReader(d)' \/ Ended(d)'
    BY <1>a, <2>5 DEF IInv, EndsSound, Given
  <2> QED
    BY <2>3, <2>4, <2>6, <2>7 DEF EndsSound
<1>6. TableSound'
  BY <1>b, <1>c, TableQuiet DEF IInv, TypeOK, Kill, Goto, host, delivery, inbox, client
<1>7. UpToDate'
  BY <1>b, <1>c, UpToDateQuiet DEF IInv, TypeOK, Kill, Goto, host, delivery, inbox, client
<1> QED
  BY <1>1, <1>2, <1>3, <1>4, <1>5, <1>6, <1>7 DEF IInv

\* A client receives the next frame of its FIFO; it was given it before.
LEMMA ReceiveIInv ==
    ASSUME IInv, NEW c \in Clients, Receive(c)
    PROVE  IInv'
<1>a. /\ queue \in [Clients -> Seq(Frame)] /\ seen \in [Clients -> Seq(Frame)]
      /\ queue[c] # <<>>
      /\ seen' = [seen EXCEPT ![c] = Append(@, Head(queue[c]))]
      /\ queue' = [queue EXCEPT ![c] = Tail(@)]
      /\ log' = log /\ members' = members /\ todo' = todo /\ members \subseteq Clients
      /\ pc' = pc /\ links' = links /\ receiver' = receiver /\ main' = main
      /\ target' = target
  BY DEF IInv, TypeOK, Receive, host, delivery, client
<1>b. Tail(queue[c]) \in Seq(Frame) /\ Append(seen[c], Head(queue[c])) \in Seq(Frame)
  BY <1>a
<1>c. \A d \in Clients : Given(d)' = Given(d)
  BY <1>a, GivenReceive DEF Given
<1>1. TypeOK'
  BY <1>a, <1>b DEF IInv, TypeOK, Receive, host, delivery, client
<1>2. NamesSound'
  BY NamesQuiet DEF IInv, TypeOK, Receive, host, delivery, inbox, client
<1>3. JoinsOnce'
  BY JoinsQuiet DEF IInv, TypeOK, Receive, host, delivery, inbox, client
<1>4. BroadcastSound'
  BY BroadcastQuiet DEF IInv, TypeOK, Receive, host, delivery, inbox, client
<1>5. EndsSound'
  <2>1. main = "write" => target \in Clients
    BY DEF IInv, TypeOK, BroadcastSound
  <2> QED
    BY <1>a, <1>c, <2>1 DEF IInv, EndsSound, HasReader, Ended
<1>6. TableSound'
  BY TableQuiet DEF IInv, TypeOK, Receive, host, delivery, inbox, client
<1>7. UpToDate'
  BY <1>a, <1>c DEF IInv, UpToDate, Ended
<1> QED
  BY <1>1, <1>2, <1>3, <1>4, <1>5, <1>6, <1>7 DEF IInv

\* The host turns to a member.
LEMMA NextClientIInv ==
    ASSUME IInv, NextClient
    PROVE  IInv'
<1>a. /\ target' \in todo /\ todo \subseteq members /\ members \subseteq Clients
      /\ main' = "open" /\ pc' = pc
  BY DEF IInv, TypeOK, NextClient, client
<1>1. TypeOK'
  BY <1>a DEF IInv, TypeOK, Main, Process, NextClient, delivery, inbox, client
<1>2. NamesSound'
  BY NamesQuiet DEF IInv, TypeOK, NextClient, host, delivery, inbox, client
<1>3. JoinsOnce'
  BY JoinsQuiet DEF IInv, TypeOK, NextClient, host, delivery, inbox, client
<1>4. BroadcastSound'
  BY DEF IInv, BroadcastSound, NextClient, delivery
<1>5. EndsSound'
  BY <1>a, EndsQuiet DEF NextClient, inbox, client, Ended
<1>6. TableSound'
  BY TableQuiet DEF IInv, TypeOK, NextClient, host, delivery, inbox, client
<1>7. UpToDate'
  BY <1>a, UpToDateQuiet DEF IInv, Ended, NextClient, delivery, inbox
<1> QED
  BY <1>1, <1>2, <1>3, <1>4, <1>5, <1>6, <1>7 DEF IInv

\* A member whose FIFO is there no more has ended.
LEMMA OpenDataIInv ==
    ASSUME IInv, OpenData
    PROVE  IInv'
<1>a. /\ target \in todo /\ target \in members /\ target \in Clients /\ main = "open"
      /\ outbox # <<>> /\ outbox' = outbox /\ log' = log /\ buf' = buf /\ members' = members
      /\ members \subseteq Clients /\ todo \subseteq members
      /\ seen' = seen /\ queue' = queue /\ pc' = pc /\ links' = links
      /\ receiver' = receiver
      /\ \/ /\ target \in links /\ HasReader(target) /\ main' = "write"
            /\ target' = target /\ todo' = todo
         \/ /\ target \notin links /\ main' = "broadcast"
            /\ target' = Host /\ todo' = todo \ {target}
  BY DEF IInv, TypeOK, BroadcastSound, OpenData, DoneWithTarget, inbox, client
<1>1. TypeOK'
  BY <1>a DEF IInv, TypeOK, Main, Process, OpenData, inbox, client
<1>2. NamesSound'
  BY NamesQuiet DEF IInv, TypeOK, OpenData, DoneWithTarget, host, delivery, inbox, client
<1>3. JoinsOnce'
  BY JoinsQuiet DEF IInv, TypeOK, OpenData, DoneWithTarget, host, delivery, inbox, client
<1>4. BroadcastSound'
  BY <1>a DEF IInv, BroadcastSound
<1>5. EndsSound'
  BY <1>a DEF IInv, EndsSound, HasReader, Given, Ended
<1>6. TableSound'
  BY TableQuiet DEF IInv, TypeOK, OpenData, DoneWithTarget, host, delivery, inbox, client
<1>7. UpToDate'
  <2>1. target \notin links => Ended(target)
    BY <1>a, MembersJoined DEF IInv, EndsSound, Ended
  <2>2. \A c \in Clients : Given(c)' = Given(c) /\ (Ended(c)' <=> Ended(c))
    BY <1>a DEF Given, Ended
  <2>3. \A c \in Clients : ~Ended(c) => (c \in todo' <=> c \in todo)
    BY <1>a, <2>1
  <2> QED
    BY <1>a, <2>2, <2>3 DEF IInv, UpToDate
<1> QED
  BY <1>1, <1>2, <1>3, <1>4, <1>5, <1>6, <1>7 DEF IInv

\* A frame goes into the FIFO of a member that was given all frames before it, unless it has
\* ended.
LEMMA WriteDataIInv ==
    ASSUME IInv, WriteData
    PROVE  IInv'
<1>a. /\ target \in todo /\ target \in members /\ target \in Clients /\ main = "write"
      /\ outbox # <<>> /\ outbox' = outbox /\ log' = log /\ buf' = buf /\ members' = members
      /\ members \subseteq Clients /\ todo \subseteq members
      /\ seen' = seen /\ pc' = pc /\ links' = links /\ receiver' = receiver
      /\ main' = "broadcast" /\ target' = Host /\ todo' = todo \ {target}
      /\ queue \in [Clients -> Seq(Frame)] /\ seen \in [Clients -> Seq(Frame)]
      /\ log \in Seq(Frame) /\ outbox \in Seq(Frame)
  BY DEF IInv, TypeOK, BroadcastSound, WriteData, DoneWithTarget, client
<1>b. /\ Head(outbox) \in Frame /\ Head(outbox) = log[Len(log)]
  BY <1>a DEF IInv, BroadcastSound
<1>c. PICK t \in Clients : t = target
  BY <1>a
<1>d. \/ HasReader(t) /\ queue' = [queue EXCEPT ![t] = Append(@, Head(outbox))]
      \/ Ended(t) /\ queue' = queue
  BY <1>a, <1>c DEF IInv, EndsSound, WriteData
<1>1. TypeOK'
  <2>1. queue' \in [Clients -> Seq(Frame)]
    <3>1. Append(queue[t], Head(outbox)) \in Seq(Frame)
      BY <1>a, <1>b
    <3> QED
      BY <1>a, <1>d, <3>1
  <2> QED
    BY <1>a, <2>1 DEF IInv, TypeOK, Main, Process, WriteData, client
<1>2. NamesSound'
  BY NamesQuiet DEF IInv, TypeOK, WriteData, DoneWithTarget, host, delivery, inbox, client
<1>3. JoinsOnce'
  BY JoinsQuiet DEF IInv, TypeOK, WriteData, DoneWithTarget, host, delivery, inbox, client
<1>4. BroadcastSound'
  BY <1>a DEF IInv, BroadcastSound
<1>5. EndsSound'
  <2>1. \A c \in Clients : Given(c)' # <<>> => HasReader(c) \/ Ended(c)
    BY <1>a, <1>d DEF IInv, EndsSound, Given
  <2> QED
    BY <1>a, <2>1 DEF IInv, EndsSound, HasReader, Ended
<1>6. TableSound'
  BY TableQuiet DEF IInv, TypeOK, WriteData, DoneWithTarget, host, delivery, inbox, client
<1>7. UpToDate'
  <2>1. \A c \in Clients : Ended(c)' <=> Ended(c)
    BY <1>a DEF Ended
  <2>2. \A c \in Clients : c # t => Given(c)' = Given(c)
    BY <1>a, <1>d DEF Given
  <2>3. t \in members /\ t \in todo /\ Joins(log, t) # {} /\ t \notin todo'
    BY <1>a, <1>c, MembersJoined
  <2>4. \A c \in Clients : Joins(log', c) = {} => Given(c)' = <<>>
    BY <1>a, <2>2, <2>3 DEF IInv, UpToDate
  <2>5. ASSUME NEW c \in members', c # t
        PROVE  \E i \in Joins(log', c) :
                  ~Ended(c)' =>
                      IF c \in todo' THEN i + Len(Given(c)') = Len(log')
                      ELSE /\ i + Len(Given(c)') = Len(log') + 1
                           /\ Given(c)'[Len(Given(c)')] = log'[Len(log')]
    BY <1>a, <1>c, <2>1, <2>2, <2>5 DEF IInv, UpToDate
  <2>6. \E i \in Joins(log', t) :
           ~Ended(t)' => /\ i + Len(Given(t)') = Len(log') + 1
                         /\ Given(t)'[Len(Given(t)')] = log'[Len(log')]
    <3>1. CASE Ended(t)
      BY <1>a, <2>1, <2>3, <3>1
    <3>2. CASE ~Ended(t)
      <4>1. PICK i \in Joins(log, t) : i + Len(Given(t)) = Len(log)
        BY <2>3, <3>2 DEF IInv, UpToDate
      <4>2. Given(t)' = Append(Given(t), log[Len(log)])
        <5>1. Given(t)' = seen[t] \o Append(queue[t], Head(outbox))
          BY <1>a, <1>d, <3>2 DEF Given
        <5>2. seen[t] \in Seq(Frame) /\ queue[t] \in Seq(Frame)
          BY <1>a
        <5> QED
          <6>1. Head(outbox) = log[Len(log)] /\ log[Len(log)] \in Frame
            BY <1>b
          <6>2. seen[t] \o Append(queue[t], log[Len(log)]) = Append(seen[t] \o queue[t], log[Len(log)])
            BY <5>2, <6>1, GivenSend
          <6> QED
            BY <5>1, <6>1, <6>2 DEF Given
      <4>3. Given(t) \in Seq(Frame) /\ Len(log) \in Nat /\ log[Len(log)] \in Frame
        BY <1>a, <1>b, GivenType DEF IInv
      <4>4. /\ Len(Given(t)') = Len(Given(t)) + 1 /\ Len(Given(t)) \in Nat
            /\ Given(t)'[Len(Given(t)')] = log[Len(log)]
        BY <4>2, <4>3, AppendFacts
      <4>5. Joins(log, t) \subseteq 1..Len(log)
        BY <1>a, JoinsInside
      <4>6. i \in Nat /\ i + Len(Given(t)') = Len(log) + 1
        BY <4>1, <4>3, <4>4, <4>5
      <4> QED
        BY <1>a, <4>1, <4>4, <4>6
    <3> QED
      BY <3>1, <3>2
  <2> QED
    BY <2>3, <2>4, <2>5, <2>6 DEF UpToDate
<1> QED
  BY <1>1, <1>2, <1>3, <1>4, <1>5, <1>6, <1>7 DEF IInv

\* The next frame is announced when there is one, or the next round begins.
LEMMA NextFrameIInv ==
    ASSUME IInv, NextFrame
    PROVE  IInv'
<1>a. /\ outbox \in Seq(Frame) /\ outbox # <<>> /\ todo = {} /\ main = "broadcast"
      /\ log \in Seq(Frame) /\ members' = members /\ target' = target
      /\ name' = name /\ pc' = pc /\ buf' = buf /\ uplink' = uplink /\ held' = held
      /\ seen' = seen /\ queue' = queue /\ links' = links /\ receiver' = receiver
      /\ outbox' = Tail(outbox)
  BY DEF IInv, TypeOK, BroadcastSound, NextFrame, inbox, client
<1>b. /\ outbox' \in Seq(Frame) /\ Len(outbox) \in Nat /\ Len(outbox) >= 1
      /\ DOMAIN outbox = 1..Len(outbox) /\ DOMAIN outbox' = 1..(Len(outbox) - 1)
      /\ \A i \in 1..(Len(outbox) - 1) : outbox'[i] = outbox[i + 1]
      /\ Len(outbox') = Len(outbox) - 1
  BY <1>a, TailFacts
<1>c. main' # "write" /\ main' # "gone" /\ main' \in Main
  BY <1>a DEF NextFrame, NextRound, Main
<1>d. EndsSound'
  BY <1>a, <1>c, EndsQuiet DEF Ended
<1>e. CASE outbox' = <<>>
  <2>1. /\ todo' = {} /\ log' = log /\ main' \in {"closed", "poll"}
    BY <1>a, <1>e DEF NextFrame, NextRound
  <2>2. Len(outbox) = 1
    <3>1. Len(outbox') = 0
      BY <1>e
    <3>2. Len(outbox) \in Nat /\ Len(outbox') = Len(outbox) - 1
      BY <1>b
    <3> QED
      BY <3>1, <3>2
  <2>3. TypeOK'
    BY <1>a, <1>b, <1>c, <2>1 DEF IInv, TypeOK, NextFrame, inbox, client
  <2>4. NamesSound'
    BY <1>a, <2>1, NamesQuiet DEF IInv
  <2>5. JoinsOnce'
    BY <1>a, <2>1, JoinsQuiet DEF IInv
  <2>6. BroadcastSound'
    BY <1>a, <1>e, <2>1 DEF IInv, BroadcastSound
  <2>7. TableSound'
    <3>1. Unannounced = {} /\ Unannounced' = {}
      BY <1>b, <1>e, <2>2 DEF Unannounced
    <3> QED
      BY <1>a, <2>1, <3>1 DEF IInv, TableSound
  <2>8. UpToDate'
    BY <1>a, <2>1, UpToDateQuiet DEF IInv, Ended
  <2> QED
    BY <1>d, <2>3, <2>4, <2>5, <2>6, <2>7, <2>8 DEF IInv
<1>f. CASE outbox' # <<>>
  <2> DEFINE f == outbox[2]
  <2>1. /\ Len(outbox) >= 2 /\ 2 \in DOMAIN outbox /\ Head(outbox') = f /\ f \in Frame
        /\ outbox'[1] = f
    <3>1. Len(outbox) >= 2
      BY <1>b, <1>f
    <3>2. Head(outbox') = outbox'[1] /\ outbox'[1] = f
      BY <1>b, <1>f, <3>1
    <3> QED
      BY <1>a, <1>b, <3>1, <3>2
  <2>2. f.kind = "LEAVE" /\ f.kind # "JOIN"
    BY <2>1 DEF IInv, BroadcastSound
  <2>3. log' = Append(log, f) /\ todo' = members' /\ main' = main
    BY <1>a, <1>f, <2>1 DEF NextFrame
  <2> HIDE DEF f
  <2>4. /\ log' \in Seq(Frame) /\ log' # <<>> /\ log'[Len(log')] = f
    BY <1>a, <2>1, <2>3, AppendFacts
  <2>5. TypeOK'
    BY <1>a, <1>b, <2>3, <2>4 DEF IInv, TypeOK, NextFrame, inbox, client
  <2>6. NamesSound'
    BY <1>a, <2>1, <2>2, <2>3, AnnounceNames DEF IInv
  <2>7. JoinsOnce'
    BY <1>a, <2>1, <2>2, <2>3, AnnounceJoins DEF IInv
  <2>8. BroadcastSound'
    <3>1. \A i \in DOMAIN outbox' : i > 1 => outbox'[i].kind = "LEAVE"
      <4>1. \A i \in DOMAIN outbox' : i + 1 \in DOMAIN outbox /\ outbox'[i] = outbox[i + 1]
               /\ i + 1 > 1
        BY <1>a, <1>b
      <4> QED
        BY <4>1 DEF IInv, BroadcastSound
    <3> QED
      BY <1>a, <1>f, <2>1, <2>3, <2>4, <3>1 DEF IInv, BroadcastSound
  <2>9. TableSound'
    <3>1. Present(log') = Present(log) \ {f.name}
      BY <1>a, <2>1, <2>2, <2>3, PresentAppend
    <3>2. /\ \A i \in DOMAIN outbox' \ {1} : i + 1 \in DOMAIN outbox \ {1}
                /\ outbox'[i] = outbox[i + 1]
          /\ \A i \in DOMAIN outbox \ {1} :
                i = 2 \/ (i - 1 \in DOMAIN outbox' \ {1} /\ outbox'[i - 1] = outbox[i])
      BY <1>a, <1>b
    <3>3. \A n : n \in Unannounced <=> n \in Unannounced' \/ n = f.name
      BY <2>1, <3>2 DEF Unannounced, f
    <3>4. Present(log') \ Unannounced' = Present(log) \ Unannounced
      BY <3>1, <3>3
    <3> QED
      BY <1>a, <2>3, <3>4 DEF IInv, TableSound
  <2>10. UpToDate'
    BY <1>a, <2>1, <2>2, <2>3, AnnounceUpToDate DEF IInv
  <2> QED
    BY <1>d, <2>5, <2>6, <2>7, <2>8, <2>9, <2>10 DEF IInv
<1> QED
  BY <1>e, <1>f

\* A frame goes from the reader's buffer to the host, or some frames from the FIFO to both.
LEMMA HostReadIInv ==
    ASSUME IInv, HostRead
    PROVE  IInv'
<1>a. /\ main' = "handle" /\ outbox = <<>> /\ outbox' = <<>> /\ todo' = todo /\ log' = log
      /\ pc' = pc /\ main = "poll"
  BY DEF IInv, BroadcastSound, HostRead, delivery, client
<1>b. /\ uplink' \in Seq(Frame) /\ held' \in Seq(Frame) /\ buf' \in Frame
      /\ NamesSound' /\ JoinsOnce'
  BY ReadHeld, ReadFifo
<1>1. TypeOK'
  BY <1>b DEF IInv, TypeOK, Main, HostRead, delivery, inbox, client
<1>2. NamesSound'
  BY <1>b
<1>3. JoinsOnce'
  BY <1>b
<1>4. BroadcastSound'
  BY <1>a, <1>b, FrameNotEmpty DEF IInv, BroadcastSound
<1>5. EndsSound'
  BY <1>a, EndsQuiet DEF HostRead, host, inbox, client, Ended
<1>6. TableSound'
  BY TableQuiet DEF IInv, TypeOK, HostRead, host, delivery, inbox, client
<1>7. UpToDate'
  BY <1>a, UpToDateQuiet DEF IInv, Ended, HostRead, delivery, inbox
<1> QED
  BY <1>1, <1>2, <1>3, <1>4, <1>5, <1>6, <1>7 DEF IInv

\* The host drops a frame that changes nothing.
LEMMA IgnoreFrameIInv ==
    ASSUME IInv, IgnoreFrame
    PROVE  IInv'
<1>a. /\ outbox = <<>> /\ outbox' = outbox /\ main' \in {"closed", "poll"} /\ buf' = <<>>
      /\ pc' = pc
  BY DEF IInv, BroadcastSound, IgnoreFrame, NextRound, delivery, client
<1>1. TypeOK'
  BY DEF IInv, TypeOK, Client, Main, IgnoreFrame, NextRound, host, delivery, inbox, client
<1>2. NamesSound'
  BY DEF IInv, NamesSound, Genuine, IgnoreFrame, delivery, client
<1>3. JoinsOnce'
  BY DEF IInv, JoinsOnce, Joins, JoinHandled, IgnoreFrame, delivery, client
<1>4. BroadcastSound'
  BY <1>a DEF IInv, BroadcastSound, IgnoreFrame, delivery
<1>5. EndsSound'
  BY <1>a, EndsQuiet DEF IgnoreFrame, inbox, client, Ended
<1>6. TableSound'
  BY <1>a, TableQuiet DEF IInv, TypeOK, IgnoreFrame, NextRound, host, delivery, inbox,
       client
<1>7. UpToDate'
  BY <1>a, UpToDateQuiet DEF IInv, Ended, IgnoreFrame, delivery, inbox
<1> QED
  BY <1>1, <1>2, <1>3, <1>4, <1>5, <1>6, <1>7 DEF IInv

\* The host ends: nothing is being broadcast.
LEMMA HostEndIInv ==
    ASSUME IInv, HostEnd
    PROVE  IInv'
<1>a. main = "closed" /\ main' = "gone" /\ members' = {} /\ pc' = pc
  BY DEF HostEnd, client
<1>b. outbox = <<>> /\ todo = {}
  BY <1>a DEF IInv, BroadcastSound
<1>1. TypeOK'
  BY <1>a, <1>b DEF IInv, TypeOK, Main, HostEnd, delivery, inbox, client
<1>2. NamesSound'
  BY <1>a DEF IInv, NamesSound, Genuine, HostEnd, delivery, client
<1>3. JoinsOnce'
  BY JoinsQuiet DEF IInv, TypeOK, HostEnd, host, delivery, inbox, client
<1>4. BroadcastSound'
  BY <1>a, <1>b DEF IInv, BroadcastSound, HostEnd, delivery
<1>5. EndsSound'
  BY <1>a, EndsQuiet DEF HostEnd, inbox, client, Ended
<1>6. TableSound'
  BY <1>a DEF TableSound
<1>7. UpToDate'
  BY <1>a DEF IInv, UpToDate, Joins, Given, HostEnd, delivery, inbox
<1> QED
  BY <1>1, <1>2, <1>3, <1>4, <1>5, <1>6, <1>7 DEF IInv

\* A process is told to stop.
LEMMA InterruptIInv ==
    ASSUME IInv, NEW p \in Process, Interrupt(p)
    PROVE  IInv'
<1>a. pc' = pc /\ main' = main /\ target' = target
  BY DEF Interrupt, host, client
<1>1. TypeOK'
  BY DEF IInv, TypeOK, Client, Main, Interrupt, host, delivery, inbox, client
<1>2. NamesSound'
  BY NamesQuiet DEF IInv, TypeOK, Interrupt, host, delivery, inbox, client
<1>3. JoinsOnce'
  BY JoinsQuiet DEF IInv, TypeOK, Interrupt, host, delivery, inbox, client
<1>4. BroadcastSound'
  BY BroadcastQuiet DEF IInv, TypeOK, Interrupt, host, delivery, inbox, client
<1>5. EndsSound'
  BY <1>a, EndsQuiet DEF Interrupt, inbox, client, Ended
<1>6. TableSound'
  BY TableQuiet DEF IInv, TypeOK, Interrupt, host, delivery, inbox, client
<1>7. UpToDate'
  BY <1>a, UpToDateQuiet DEF IInv, Ended, Interrupt, delivery, inbox
<1> QED
  BY <1>1, <1>2, <1>3, <1>4, <1>5, <1>6, <1>7 DEF IInv

\* The host announces a frame: who joins is no member, nor anybody of that name.
LEMMA HandleFrameIInv ==
    ASSUME IInv, HandleFrame
    PROVE  IInv'
<1>a. /\ buf \in Frame /\ buf # <<>> /\ Genuine(buf) /\ log \in Seq(Frame)
      /\ main = "handle"
      /\ outbox = <<>> /\ todo = {} /\ members \subseteq Clients /\ buf.kind \in Kind
  BY DEF IInv, TypeOK, BroadcastSound, NamesSound, HandleFrame, Frame
<1>b. /\ outbox' = <<buf>> /\ log' = Append(log, buf) /\ todo' = members'
      /\ main' = "broadcast"
      /\ buf' = <<>> /\ uplink' = uplink /\ held' = held /\ name' = name /\ pc' = pc
      /\ seen' = seen /\ queue' = queue /\ links' = links /\ receiver' = receiver
      /\ target' = target
  BY DEF HandleFrame, Broadcast, inbox, client
<1>c. /\ log' \in Seq(Frame) /\ log' # <<>> /\ Len(log) \in Nat /\ Len(log') = Len(log) + 1
      /\ log'[Len(log')] = buf
      /\ <<buf>> \in Seq(Frame) /\ <<buf>> # <<>>
      /\ <<buf>>[1] = buf /\ DOMAIN <<buf>> = {1}
  BY <1>a, <1>b, AppendFacts
<1>d. buf.from \in Clients
  BY <1>a DEF Frame
<1>e. /\ buf.kind = "JOIN" => members' = members \cup {buf.from} /\ Named(buf.name) = {}
      /\ buf.kind = "LEAVE" => members' = members \ Named(buf.name)
      /\ buf.kind = "MSG" => members' = members
  BY DEF HandleFrame
<1>f. members' \subseteq Clients /\ (buf.kind # "JOIN" => members' \subseteq members)
  BY <1>a, <1>d, <1>e DEF Kind
<1>g. buf.kind = "JOIN" =>
         /\ JoinHandled(buf.from) /\ Joins(log, buf.from) = {} /\ buf.from \notin members
         /\ Joins(log', buf.from) = {Len(log) + 1}
         /\ \A c \in Clients : c # buf.from => Joins(log', c) = Joins(log, c)
  <2>1. buf.kind = "JOIN" => JoinHandled(buf.from) /\ Joins(log, buf.from) = {}
    BY <1>a, <1>d DEF IInv, JoinsOnce, JoinHandled
  <2> QED
    BY <1>a, <1>b, <1>d, <2>1, MembersJoined, JoinsAppend
<1>h. Unannounced = {} /\ Unannounced' = {}
  BY <1>a, <1>b, <1>c DEF Unannounced
<1>1. TypeOK'
  BY <1>a, <1>b, <1>c, <1>f DEF IInv, TypeOK, Main, HandleFrame, inbox, client
<1>2. NamesSound'
  <2>1. CASE buf.kind = "JOIN"
    <3>1. \A c \in members : name[c] # name[buf.from]
      BY <1>a, <1>e, <2>1 DEF Named, Genuine
    <3>2. \A c, d \in members' : name[c] = name[d] => c = d
      BY <1>e, <2>1, <3>1 DEF IInv, NamesSound
    <3>3. /\ DOMAIN log = 1..Len(log) /\ DOMAIN log' = 1..(Len(log) + 1)
          /\ (\A i \in 1..Len(log) : log'[i] = log[i]) /\ log'[Len(log) + 1] = buf
      BY <1>a, <1>b, AppendFacts
    <3>4. \A i \in DOMAIN log' : log'[i].kind = "JOIN" => Genuine(log'[i])
      BY <1>a, <1>c, <3>3 DEF IInv, NamesSound
    <3> QED
      BY <1>b, <3>2, <3>4 DEF IInv, NamesSound, Genuine
  <2>2. CASE buf.kind # "JOIN"
    BY <1>a, <1>b, <1>f, <2>2, AnnounceNames DEF IInv
  <2> QED
    BY <2>1, <2>2
<1>3. JoinsOnce'
  <2>1. CASE buf.kind = "JOIN"
    <3>1. /\ Joins(uplink, buf.from) = {} /\ Joins(held, buf.from) = {}
          /\ pc[buf.from] \notin {"start", "join"}
      BY <1>d, <1>g, <2>1 DEF IInv, JoinsOnce
    <3>2. \A c \in Clients : ~JoinHandled(c)'
      BY <1>b DEF JoinHandled
    <3> QED
      BY <1>b, <1>g, <2>1, <3>1, <3>2 DEF IInv, JoinsOnce
  <2>2. CASE buf.kind # "JOIN"
    BY <1>a, <1>b, <2>2, AnnounceJoins DEF IInv
  <2> QED
    BY <2>1, <2>2
<1>4. BroadcastSound'
  <2>1. \A i \in DOMAIN outbox' : ~(i > 1)
    BY <1>b, <1>c
  <2> QED
    BY <1>b, <1>c, <2>1 DEF BroadcastSound
<1>5. EndsSound'
  BY <1>b, EndsQuiet DEF Ended
<1>6. TableSound'
  <2>1. CASE buf.kind = "JOIN"
    <3>1. Present(log') = Present(log) \cup {buf.name}
      BY <1>a, <1>b, <2>1, PresentAppend
    <3>2. {name'[c] : c \in members'} = {name[c] : c \in members} \cup {buf.name}
      BY <1>a, <1>b, <1>e, <2>1 DEF Genuine
    <3> QED
      BY <1>a, <1>b, <1>h, <3>1, <3>2 DEF IInv, TableSound
  <2>2. CASE buf.kind = "LEAVE"
    <3>1. Present(log') = Present(log) \ {buf.name}
      BY <1>a, <1>b, <2>2, PresentAppend
    <3>2. {name'[c] : c \in members'} = {name[c] : c \in members} \ {buf.name}
      BY <1>b, <1>e, <2>2 DEF Named
    <3> QED
      BY <1>a, <1>b, <1>h, <3>1, <3>2 DEF IInv, TableSound
  <2>3. CASE buf.kind = "MSG"
    <3>1. Present(log') = Present(log)
      BY <1>a, <1>b, <2>3, PresentAppend
    <3> QED
      BY <1>a, <1>b, <1>e, <1>h, <2>3, <3>1 DEF IInv, TableSound
  <2> QED
    BY <1>a, <2>1, <2>2, <2>3 DEF Kind
<1>7. UpToDate'
  <2>1. CASE buf.kind = "JOIN"
    <3>1. \A c \in Clients : Given(c)' = Given(c) /\ (Ended(c)' <=> Ended(c))
      BY <1>b DEF Given, Ended
    <3>2. PICK b \in Clients : b = buf.from
      BY <1>d
    <3>3. Given(b) = <<>> /\ Len(<<>>) = 0
      BY <1>g, <2>1, <3>2 DEF IInv, UpToDate
    <3>4. (Len(log) + 1) + Len(Given(b)') = Len(log')
      <4>1. Len(Given(b)') = 0
        BY <3>1, <3>3
      <4> QED
        BY <1>c, <4>1
    <3>5. \A c \in Clients : Joins(log', c) = {} => Given(c)' = <<>>
      BY <1>g, <2>1, <3>1, <3>2 DEF IInv, UpToDate
    <3>6. ASSUME NEW c \in members'
          PROVE  \E i \in Joins(log', c) : ~Ended(c)' => i + Len(Given(c)') = Len(log')
      <4>1. CASE c = b
        <5>1. Len(log) + 1 \in Joins(log', c)
          BY <1>g, <2>1, <3>2, <4>1
        <5> QED
          BY <3>4, <4>1, <5>1
      <4>2. CASE c # b
        <5>1. c \in members /\ c \in Clients
          BY <1>a, <1>e, <2>1, <3>2, <3>6, <4>2
        <5>2. PICK i \in Joins(log, c) : ~Ended(c) => i + Len(Given(c)) = Len(log) + 1
          BY <1>a, <5>1 DEF IInv, UpToDate
        <5> QED
          BY <1>c, <1>g, <2>1, <3>1, <3>2, <4>2, <5>1, <5>2
      <4> QED
        BY <4>1, <4>2
    <3> QED
      BY <1>b, <3>5, <3>6 DEF UpToDate
  <2>2. CASE buf.kind # "JOIN"
    BY <1>a, <1>b, <1>f, <2>2, AnnounceUpToDate DEF IInv
  <2> QED
    BY <2>1, <2>2
<1> QED
  BY <1>1, <1>2, <1>3, <1>4, <1>5, <1>6, <1>7 DEF IInv

\* The host removes all members that it takes for dead, and announces the first.
LEMMA ProbeIInv ==
    ASSUME IInv, Probe
    PROVE  IInv'
<1>a. /\ Zombies \subseteq members /\ members \subseteq Clients /\ main = "poll"
      /\ outbox = <<>> /\ todo = {} /\ log \in Seq(Frame)
      /\ name \in [Clients -> Names \cup {NoName}]
      /\ uplink' = uplink /\ held' = held /\ buf' = buf /\ name' = name /\ pc' = pc
      /\ seen' = seen /\ queue' = queue /\ links' = links /\ receiver' = receiver
      /\ target' = target
  BY DEF IInv, TypeOK, BroadcastSound, Zombies, Probe, inbox, client
<1>b. CASE Zombies = {}
  <2>1. /\ main' \in {"closed", "poll"} /\ members' = members /\ outbox' = outbox
        /\ todo' = todo
        /\ log' = log
    BY <1>b DEF Probe, NextRound, delivery
  <2>2. TypeOK'
    BY <1>a, <2>1 DEF IInv, TypeOK, Main, Probe, inbox, client
  <2>3. NamesSound' /\ JoinsOnce'
    BY <1>a, <2>1, NamesQuiet, JoinsQuiet DEF IInv
  <2>4. BroadcastSound'
    BY <1>a, <2>1 DEF IInv, BroadcastSound
  <2>5. EndsSound'
    BY <1>a, <2>1, EndsQuiet DEF Ended
  <2>6. TableSound'
    BY <1>a, <2>1, TableQuiet DEF IInv
  <2>7. UpToDate'
    BY <1>a, <2>1, UpToDateQuiet DEF IInv, Ended
  <2> QED
    BY <2>2, <2>3, <2>4, <2>5, <2>6, <2>7 DEF IInv
<1>c. CASE Zombies # {}
  <2>1. PICK fs \in Seq(Frame) :
           /\ fs # <<>> /\ 1 \in DOMAIN fs /\ Head(fs) = fs[1]
           /\ \A i \in DOMAIN fs : fs[i] \in Frame /\ fs[i].kind = "LEAVE"
           /\ \A n : (n = fs[1].name \/ \E i \in DOMAIN fs \ {1} : n = fs[i].name)
                        <=> \E c \in Zombies : n = name[c]
           /\ Broadcast(fs, members')
    BY <1>c, ProbeFrames
  <2>2. /\ outbox' = fs /\ log' = Append(log, Head(fs)) /\ todo' = members'
        /\ main' = "broadcast"
        /\ members' = members \ Zombies
    BY <1>c, <2>1 DEF Probe, Broadcast
  <2>3. Head(fs) \in Frame /\ Head(fs).kind # "JOIN" /\ Head(fs).kind = "LEAVE"
    BY <2>1
  <2>4. log' \in Seq(Frame) /\ log' # <<>> /\ log'[Len(log')] = fs[1]
    BY <1>a, <2>1, <2>2, <2>3, AppendFacts
  <2>5. TypeOK'
    BY <1>a, <2>1, <2>2, <2>4 DEF IInv, TypeOK, Main, Probe, inbox, client
  <2>6. NamesSound'
    BY <1>a, <2>2, <2>3, AnnounceNames DEF IInv
  <2>7. JoinsOnce'
    BY <1>a, <2>2, <2>3, AnnounceJoins DEF IInv
  <2>8. BroadcastSound'
    BY <1>a, <2>1, <2>2, <2>4 DEF IInv, BroadcastSound
  <2>9. EndsSound'
    BY <1>a, <2>2, EndsQuiet DEF Ended
  <2>10. TableSound'
    <3>1. Present(log') = Present(log) \ {fs[1].name}
      BY <1>a, <2>1, <2>2, <2>3, PresentAppend
    <3>2. Unannounced = {}
      BY <1>a DEF Unannounced
    <3>3. \A n : (n \in Unannounced' \/ n = fs[1].name) <=> \E c \in Zombies : n = name[c]
      BY <2>1, <2>2 DEF Unannounced
    <3>4. {name[c] : c \in members'} = {name[c] : c \in members} \ {name[c] : c \in Zombies}
      BY <1>a, <2>2 DEF IInv, NamesSound
    <3>5. Present(log') \ Unannounced' = Present(log) \ {name[c] : c \in Zombies}
      BY <3>1, <3>3
    <3> QED
      BY <1>a, <2>2, <3>2, <3>4, <3>5 DEF IInv, TableSound
  <2>11. UpToDate'
    BY <1>a, <2>2, <2>3, AnnounceUpToDate DEF IInv
  <2> QED
    BY <2>5, <2>6, <2>7, <2>8, <2>9, <2>10, <2>11 DEF IInv
<1> QED
  BY <1>b, <1>c

-----------------------------------------------------------------------------
\* The initial state satisfies the invariant.
LEMMA InitIInv == Init => IInv
<1> SUFFICES ASSUME Init PROVE IInv
  OBVIOUS
<1>1. \A c \in Clients : Given(c) = <<>>
  BY DEF Init, Given
<1>2. \A c \in Clients : Joins(uplink, c) = {} /\ Joins(held, c) = {} /\ Joins(log, c) = {}
  BY JoinsNone DEF Init
<1>3. TypeOK
  BY BoundAssumption DEF Init, TypeOK, Main, Client, Process
<1>4. NamesSound
  BY DEF Init, NamesSound
<1>5. JoinsOnce
  BY <1>2 DEF Init, JoinsOnce, JoinHandled
<1>6. BroadcastSound
  BY DEF Init, BroadcastSound
<1>7. EndsSound
  BY <1>1 DEF Init, EndsSound, Ended, HasReader
<1>8. TableSound
  BY DEF Init, TableSound, Present
<1>9. UpToDate
  BY <1>1 DEF Init, UpToDate
<1> QED
  BY <1>3, <1>4, <1>5, <1>6, <1>7, <1>8, <1>9 DEF IInv

\* So does every state that a step leads to.
LEMMA NextIInv ==
    ASSUME IInv, Next
    PROVE  IInv'
<1>1. CASE HostStep
  BY <1>1, NextClientIInv, OpenDataIInv, WriteDataIInv, NextFrameIInv, HostReadIInv,
     IgnoreFrameIInv, HandleFrameIInv, ProbeIInv, HostEndIInv DEF HostStep
<1>2. ASSUME NEW c \in Clients, SendStep(c) PROVE IInv'
  BY <1>2, SendJoinIInv, OpenFifoIInv, SendMsgIInv, SendLeaveIInv, UnlinkIInv DEF SendStep
<1>3. ASSUME NEW c \in Clients, UserStep(c) PROVE IInv'
  BY <1>3, StartIInv, TypeLineIInv, QuitIInv DEF UserStep
<1>4. ASSUME NEW c \in Clients, Receive(c) \/ Kill(c) PROVE IInv'
  BY <1>4, ReceiveIInv, KillIInv
<1>5. ASSUME NEW p \in Process, Interrupt(p) PROVE IInv'
  BY <1>5, InterruptIInv
<1> QED
  BY <1>1, <1>2, <1>3, <1>4, <1>5 DEF Next

\* So does a step that changes nothing.
LEMMA StutterIInv ==
    ASSUME IInv, UNCHANGED vars
    PROVE  IInv'
<1> USE DEF vars, host, delivery, inbox, client
<1>1. TypeOK'
  BY DEF IInv, TypeOK
<1>2. NamesSound' /\ JoinsOnce'
  BY NamesQuiet, JoinsQuiet DEF IInv
<1>3. BroadcastSound' /\ TableSound'
  BY BroadcastQuiet, TableQuiet DEF IInv
<1>4. EndsSound' /\ UpToDate'
  BY EndsQuiet, UpToDateQuiet DEF IInv, Ended
<1> QED
  BY <1>1, <1>2, <1>3, <1>4 DEF IInv

\* What every step preserves holds always: every frame carries the name of its sender, a
\* client's JOIN is announced once, only a client that has ended has lost its FIFO or its
\* reader, the table has the names that the announcements leave present, and each member
\* alive was given every announcement since its own joining up to the one being broadcast.
THEOREM Invariance == Spec => []IInv
<1>1. IInv /\ [Next]_vars => IInv'
  BY NextIInv, StutterIInv
<1> QED
  BY InitIInv, <1>1, PTL DEF Spec

\* Where the host waits, the invariant says what the table and its members agree in.
LEMMA RestAnnounced ==
    ASSUME IInv
    PROVE  TableAnnounced
<1> SUFFICES ASSUME main = "poll"
             PROVE  /\ Present(log) = {name[c] : c \in members}
                    /\ \A c, d \in members : name[c] = name[d] => c = d
                    /\ \A c \in members : pc[c] \notin {"ended", "killed"} =>
                          /\ c \notin Zombies
                          /\ seen[c] \o queue[c] # <<>>
                          /\ Last(seen[c] \o queue[c]) = Last(log)
  BY DEF TableAnnounced
<1>1. outbox = <<>> /\ todo = {}
  BY DEF IInv, BroadcastSound
<1>2. Unannounced = {}
  BY <1>1 DEF Unannounced
<1>3. Present(log) = {name[c] : c \in members}
  BY <1>2 DEF IInv, TableSound
<1>4. \A c, d \in members : name[c] = name[d] => c = d
  BY DEF IInv, NamesSound
<1>5. ASSUME NEW c \in members, ~Ended(c)
      PROVE  Given(c) # <<>> /\ Last(Given(c)) = Last(log)
  <2>1. PICK i \in Joins(log, c) : /\ i + Len(Given(c)) = Len(log) + 1
                                   /\ Given(c)[Len(Given(c))] = log[Len(log)]
    BY <1>1, <1>5 DEF IInv, UpToDate
  <2>2. i \in 1..Len(log) /\ Len(log) \in Nat /\ Given(c) \in Seq(Frame)
           /\ Len(Given(c)) \in Nat
    BY JoinsInside, GivenType DEF IInv, TypeOK
  <2>3. Len(Given(c)) # 0
    BY <2>1, <2>2
  <2>4. Given(c) # <<>>
    BY <2>3
  <2> QED
    BY <2>1, <2>4 DEF Last
<1>6. ASSUME NEW c \in members, ~Ended(c) PROVE c \notin Zombies
  <2>1. c \in Clients /\ pc[c] # "start"
    BY MembersJoined DEF IInv, TypeOK
  <2>2. c \in links
    BY <1>6, <2>1 DEF IInv, EndsSound, Ended
  <2>3. HasReader(c)
    BY <1>5, <1>6, <2>1 DEF IInv, EndsSound
  <2> QED
    BY <2>2, <2>3 DEF Zombies
<1> QED
  BY <1>3, <1>4, <1>5, <1>6 DEF Given, Ended

\* Every variable has its type always.
THEOREM TypeCorrect == Spec => []TypeOK
  BY Invariance, PTL DEF IInv

\* Whenever the table is at rest it agrees with what was announced, and its members that
\* answer were given all of that.
THEOREM TableCorrect == Spec => []TableAnnounced
<1>1. IInv => TableAnnounced
  BY RestAnnounced
<1> QED
  BY Invariance, <1>1, PTL
-----------------------------------------------------------------------------
(* The room implements Room: a client has heard what it was given.         *)

R == INSTANCE Room WITH heard <- [c \in Clients |-> Given(c)]

\* A step that gives nobody a frame and announces none is none of the abstract room.
LEMMA QuietStutters ==
    ASSUME log' = log, \A c \in Clients : Given(c)' = Given(c)
    PROVE  UNCHANGED <<log, [c \in Clients |-> Given(c)]>>
  OBVIOUS

\* Nor is one that changes neither what was announced nor any inbox.
LEMMA SilentStutters ==
    ASSUME log' = log, seen' = seen, queue' = queue
    PROVE  UNCHANGED <<log, [c \in Clients |-> Given(c)]>>
  BY DEF Given

\* A frame that is announced, and to nobody yet given, is one of the abstract room.
LEMMA AnnounceAnnounces ==
    ASSUME NEW f \in Frame, log' = Append(log, f), seen' = seen, queue' = queue,
           f.kind = "JOIN" => Joins(log, f.from) = {}
    PROVE  R!Announce(f)
<1>1. R!JoinsAt(f.from) = Joins(log, f.from)
  BY DEF R!JoinsAt, Joins
<1> QED
  BY <1>1 DEF R!Announce, Given

\* Writing a frame into the FIFO of a client that has a reader lets the client hear the
\* announcement that is its next; writing into one without reader fails.
LEMMA WriteHears ==
    ASSUME IInv, WriteData
    PROVE  R!Next \/ UNCHANGED <<log, [c \in Clients |-> Given(c)]>>
<1>1. CASE ~HasReader(target)
  BY <1>1, SilentStutters DEF WriteData
<1>2. CASE HasReader(target)
  <2>1. PICK c \in Clients : c = target
    BY DEF IInv, TypeOK, BroadcastSound, WriteData
  <2>2. /\ c \in todo /\ c \in members /\ log' = log /\ seen' = seen
        /\ queue' = [queue EXCEPT ![c] = Append(@, Head(outbox))]
        /\ queue \in [Clients -> Seq(Frame)] /\ seen \in [Clients -> Seq(Frame)]
        /\ log \in Seq(Frame) /\ outbox \in Seq(Frame) /\ outbox # <<>> /\ log # <<>>
    BY <1>2, <2>1 DEF IInv, TypeOK, BroadcastSound, WriteData
  <2>3. Head(outbox) \in Frame /\ Head(outbox) = log[Len(log)]
    BY <2>2 DEF IInv, BroadcastSound
  <2>4. Given(c)' = Append(Given(c), log[Len(log)])
    BY <2>2, <2>3, GivenSend DEF Given
  <2>5. \A d \in Clients : d # c => Given(d)' = Given(d)
    BY <2>2 DEF Given
  <2>6. ~Ended(c)
    BY <1>2, <2>1 DEF IInv, EndsSound
  <2>7. PICK i \in Joins(log, c) : i + Len(Given(c)) = Len(log)
    BY <2>2, <2>6 DEF IInv, UpToDate
  <2>8. R!JoinsAt(c) = Joins(log, c)
    BY DEF R!JoinsAt, Joins
  <2>9. Len(log) \in DOMAIN log
    BY <2>2
  <2>10. [d \in Clients |-> Given(d)]' =
            [[d \in Clients |-> Given(d)] EXCEPT ![c] = Append(@, log[i + Len(@)])]
    BY <2>4, <2>5, <2>7
  <2>11. R!Hear(c)
    BY <2>2, <2>7, <2>8, <2>9, <2>10 DEF R!Hear
  <2> QED
    BY <2>11 DEF R!Next
<1> QED
  BY <1>1, <1>2

\* Every step announces a frame, gives a client its next, or is none of the abstract room.
LEMMA StepImplements ==
    ASSUME IInv, Next
    PROVE  R!Next \/ UNCHANGED <<log, [c \in Clients |-> Given(c)]>>
<1> USE DEF host, delivery, inbox, client
<1>1. ASSUME NEW c \in Clients, Receive(c)
      PROVE  UNCHANGED <<log, [d \in Clients |-> Given(d)]>>
  <2>1. /\ queue \in [Clients -> Seq(Frame)] /\ seen \in [Clients -> Seq(Frame)]
        /\ queue[c] # <<>> /\ seen' = [seen EXCEPT ![c] = Append(@, Head(queue[c]))]
        /\ queue' = [queue EXCEPT ![c] = Tail(@)] /\ log' = log
    BY <1>1 DEF IInv, TypeOK, Receive
  <2>2. \A d \in Clients : Given(d)' = Given(d)
    BY <2>1, GivenReceive DEF Given
  <2> QED
    BY <2>1, <2>2, QuietStutters
<1>2. ASSUME NEW c \in Clients, SendStep(c)
      PROVE  UNCHANGED <<log, [d \in Clients |-> Given(d)]>>
  BY <1>2, SilentStutters DEF SendStep, SendJoin, OpenFifo, SendMsg, SendLeave, Unlink
<1>3. ASSUME NEW c \in Clients, UserStep(c) \/ Kill(c)
      PROVE  UNCHANGED <<log, [d \in Clients |-> Given(d)]>>
  BY <1>3, SilentStutters DEF UserStep, Start, TypeLine, Quit, Kill
<1>4. ASSUME NEW p \in Process, Interrupt(p)
      PROVE  UNCHANGED <<log, [d \in Clients |-> Given(d)]>>
  BY <1>4, SilentStutters DEF Interrupt
<1>5. CASE NextClient \/ OpenData \/ HostRead \/ IgnoreFrame \/ HostEnd
  BY <1>5, SilentStutters DEF NextClient, OpenData, HostRead, IgnoreFrame, HostEnd
<1>6. CASE HandleFrame
  <2>1. buf \in Frame /\ buf # <<>>
    BY <1>6 DEF IInv, TypeOK, BroadcastSound, HandleFrame
  <2>2. log' = Append(log, buf) /\ seen' = seen /\ queue' = queue
    BY <1>6 DEF HandleFrame, Broadcast
  <2>3. buf.from \in Clients
    BY <2>1 DEF Frame
  <2>4. buf.kind = "JOIN" => Joins(log, buf.from) = {}
    BY <2>1, <2>3 DEF IInv, JoinsOnce, JoinHandled
  <2> QED
    BY <2>1, <2>2, <2>4, AnnounceAnnounces DEF R!Next
<1>7. CASE Probe
  <2>1. CASE Zombies = {}
    BY <1>7, <2>1, SilentStutters DEF Probe
  <2>2. CASE Zombies # {}
    <3>1. PICK fs \in Seq(Frame) :
             /\ fs # <<>> /\ 1 \in DOMAIN fs /\ Head(fs) = fs[1]
             /\ \A i \in DOMAIN fs : fs[i] \in Frame /\ fs[i].kind = "LEAVE"
             /\ Broadcast(fs, members')
      BY <1>7, <2>2, ProbeFrames
    <3>2. PICK f \in Frame : f.kind = "LEAVE" /\ log' = Append(log, f)
      BY <3>1 DEF Broadcast
    <3>3. seen' = seen /\ queue' = queue
      BY <1>7 DEF Probe
    <3> QED
      BY <3>2, <3>3, AnnounceAnnounces DEF R!Next
  <2> QED
    BY <2>1, <2>2
<1>8. CASE NextFrame
  <2>1. CASE outbox' = <<>>
    BY <1>8, <2>1, SilentStutters DEF NextFrame
  <2>2. CASE outbox' # <<>>
    <3>1. /\ log' = Append(log, Head(Tail(outbox)))
          /\ Tail(outbox) # <<>> /\ outbox \in Seq(Frame)
          /\ seen' = seen /\ queue' = queue
      BY <1>8, <2>2 DEF IInv, TypeOK, NextFrame
    <3>2. Head(Tail(outbox)) = outbox[2] /\ outbox[2] \in Frame /\ 2 \in DOMAIN outbox
      BY <3>1
    <3>3. outbox[2].kind = "LEAVE"
      BY <3>2 DEF IInv, BroadcastSound
    <3> QED
      BY <3>1, <3>2, <3>3, AnnounceAnnounces DEF R!Next
  <2> QED
    BY <2>1, <2>2
<1>9. CASE WriteData
  BY <1>9, WriteHears
<1> QED
  BY <1>1, <1>2, <1>3, <1>4, <1>5, <1>6, <1>7, <1>8, <1>9 DEF Next, HostStep

\* The room over FIFOs keeps the promise of Room: the announcements are one order of
\* events, and each client is given them one by one from its own joining on.
THEOREM ImplementsRoom == Spec => R!Spec
<1>1. Init => R!Init
  BY DEF Init, R!Init, Given
<1>2. IInv /\ [Next]_vars => [R!Next]_<<log, [c \in Clients |-> Given(c)]>>
  <2>1. ASSUME UNCHANGED vars
        PROVE  UNCHANGED <<log, [c \in Clients |-> Given(c)]>>
    BY <2>1, SilentStutters DEF vars, delivery, inbox
  <2> QED
    BY <2>1, StepImplements
<1> QED
  BY Invariance, <1>1, <1>2, PTL DEF Spec, R!Spec
-----------------------------------------------------------------------------
(* The host waits for no client but one that is opening its FIFO or dead.  *)

\* A step that leaves the clients where they are, of a host that stays or closes.
LEMMA ReadersQuiet ==
    ASSUME ReadersSound, UNCHANGED <<pc, receiver, links>>,
           main \in {"closed", "gone"} => main' \in {"closed", "gone"}
    PROVE  ReadersSound'
  BY DEF ReadersSound, HasReader

\* A client's own step.
LEMMA ClientReaders ==
    ASSUME IInv, ReadersSound, NEW c \in Clients, SendStep(c) \/ UserStep(c) \/ Kill(c)
    PROVE  ReadersSound'
<1> USE DEF host, client, inbox
<1>1. /\ pc \in [Clients -> Client] /\ receiver \in [Clients -> {"off", "wait"}]
      /\ main' = main
  BY DEF IInv, TypeOK, SendStep, UserStep, SendJoin, SendMsg, SendLeave, OpenFifo, Unlink,
     Start, TypeLine, Quit, Kill
<1>2. ASSUME NEW d \in Clients, d # c
      PROVE  pc'[d] = pc[d] /\ receiver'[d] = receiver[d] /\ (d \in links' <=> d \in links)
  BY <1>1, <1>2 DEF SendStep, UserStep, SendJoin, SendMsg, SendLeave, OpenFifo, Unlink,
     Start, TypeLine, Quit, Kill, WriteUp, Goto
<1> DEFINE Sound(place, r, l) ==
              /\ place \in {"input", "say", "leave"} => r = "wait"
              /\ place \in {"unlink", "stuck"} => r = "wait" \/ main \in {"closed", "gone"}
              /\ place = "ended" => ~l
<1>3. Sound(pc[c], receiver[c], c \in links)
  BY DEF ReadersSound, HasReader
<1>4. Sound(pc'[c], receiver'[c], c \in links')
  <2>1. CASE Start(c)
    BY <1>1, <2>1 DEF Start, Goto
  <2>2. CASE SendJoin(c)
    BY <1>1, <2>2 DEF SendJoin, WriteUp, Goto
  <2>3. CASE OpenFifo(c)
    BY <1>1, <2>3 DEF OpenFifo, Goto, InputOrLeave
  <2>4. CASE TypeLine(c) \/ Quit(c)
    BY <1>1, <1>3, <2>4 DEF TypeLine, Quit, Goto
  <2>5. CASE SendMsg(c)
    BY <1>1, <1>3, <2>5 DEF SendMsg, WriteUp, Goto, InputOrLeave
  <2>6. CASE SendLeave(c)
    BY <1>1, <1>3, <2>6 DEF SendLeave, WriteUp, Goto
  <2>7. CASE Unlink(c) \/ Kill(c)
    BY <1>1, <2>7 DEF Unlink, Kill, Goto
  <2> QED
    BY <2>1, <2>2, <2>3, <2>4, <2>5, <2>6, <2>7 DEF SendStep, UserStep
<1>5. \A d \in Clients : Sound(pc'[d], receiver'[d], d \in links')
  <2>1. \A d \in Clients : d # c => Sound(pc[d], receiver[d], d \in links)
    BY DEF ReadersSound, HasReader
  <2> QED
    BY <1>2, <1>4, <2>1
<1> QED
  BY <1>1, <1>5 DEF ReadersSound, HasReader

\* Every step leaves each client its reader while the host may have to wait for it.
LEMMA NextReaders ==
    ASSUME IInv, ReadersSound, Next
    PROVE  ReadersSound'
<1> USE DEF client, inbox, host
<1>1. CASE HostStep
  <2>1. UNCHANGED <<pc, receiver, links>>
    BY <1>1 DEF HostStep, NextClient, OpenData, WriteData, NextFrame, HostRead,
       IgnoreFrame, HandleFrame, Probe, HostEnd
  <2>2. main \in {"closed", "gone"} => main' \in {"closed", "gone"}
    BY <1>1 DEF HostStep, NextClient, OpenData, WriteData, NextFrame, HostRead,
       IgnoreFrame, HandleFrame, Probe, HostEnd
  <2> QED
    BY <2>1, <2>2, ReadersQuiet
<1>2. ASSUME NEW c \in Clients, Receive(c)
      PROVE  ReadersSound'
  BY <1>2, ReadersQuiet DEF Receive
<1>3. ASSUME NEW p \in Process, Interrupt(p)
      PROVE  ReadersSound'
  BY <1>3, ReadersQuiet DEF Interrupt
<1> QED
  BY <1>1, <1>2, <1>3, ClientReaders DEF Next

\* Initially no client runs, and a step that changes nothing changes nothing in that.
LEMMA InitReaders == Init => ReadersSound
  BY DEF Init, ReadersSound

LEMMA StutterReaders ==
    ASSUME ReadersSound, UNCHANGED vars
    PROVE  ReadersSound'
  BY ReadersQuiet DEF vars, host, inbox, client

\* A member whose FIFO is there and has no reader has sent JOIN and not opened it yet, or
\* was killed.
LEMMA HostIsReady ==
    ASSUME IInv, ReadersSound
    PROVE  HostServes
<1> SUFFICES ASSUME OpenWaits PROVE pc[target] \in {"opening", "killed"}
  BY DEF HostServes
<1>1. /\ main = "open" /\ target \in links /\ ~HasReader(target)
      /\ target \in members /\ target \in Clients
  BY DEF IInv, TypeOK, BroadcastSound, OpenWaits
<1>2. pc[target] \in Client
  BY <1>1 DEF IInv, TypeOK
<1>3. pc[target] \notin {"start", "join"}
  BY <1>1, MembersJoined DEF IInv, JoinsOnce
<1>4. pc[target] \notin {"input", "say", "leave", "unlink", "stuck", "ended"}
  BY <1>1 DEF ReadersSound
<1> QED
  BY <1>2, <1>3, <1>4 DEF Client

\* The host's open waits only for a client that has sent JOIN and is about to open its FIFO,
\* or that was killed and not found dead yet: no other client keeps the host waiting.
THEOREM HostWaitsForOpening == Spec => []HostServes
<1>1. Init => ReadersSound
  BY InitReaders
<1>2. IInv /\ ReadersSound /\ [Next]_vars => ReadersSound'
  BY NextReaders, StutterReaders
<1>3. IInv /\ ReadersSound => HostServes
  BY HostIsReady
<1> QED
  BY Invariance, <1>1, <1>2, <1>3, PTL DEF Spec
=============================================================================

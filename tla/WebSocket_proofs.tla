-------------------------- MODULE WebSocket_proofs --------------------------
(***************************************************************************)
(* For any client, message limit and use of the WebSocket: a reader never  *)
(* waits beside a frame it could take, the close frame goes out once and   *)
(* takes the transport with it, every ping has its pong, messages are read *)
(* whole, once, in order and within the limit, and a read that keeps the   *)
(* event loop gives it back.                                               *)
(***************************************************************************)
EXTENDS WebSocket, SequenceTheorems, TLAPS

\* The segments in the feed go on where recv_buffer ends.
FeedOrdered ==
    /\ \A k \in DOMAIN feed : held <= feed[k] /\ feed[k] <= arrived
    /\ \A j, k \in DOMAIN feed : j <= k => feed[j] <= feed[k]

\* The close frame on the wire is the WebSocket's own.
CloseIsKnown == \A i \in DOMAIN wire : wire[i].op = "close" => closeSent

IInv == /\ stream \in Streams /\ TypeOK /\ FeedOrdered
        /\ ReaderWaitsForMore /\ CloseEndsConnection /\ CloseIsKnown

Wire == [op : {"data", "pong", "close"}, frame : Nat]

\* What the socket's part of the invariant says.
SockOK == /\ transport \in {"open", "closing", "lost"} /\ buffered \in BOOLEAN
          /\ wire \in Seq(Wire) /\ closeSent \in BOOLEAN /\ closed \in BOOLEAN
          /\ CloseEndsConnection /\ CloseIsKnown

-----------------------------------------------------------------------------
LEMMA StreamFacts ==
    ASSUME stream \in Streams
    PROVE  /\ stream \in Seq(Frame) /\ Len(stream) \in Nat
           /\ \A i \in 1..Len(stream) : stream[i] \in Frame
  <1>1. stream \in Seq(Frame)
    BY StreamsAssumption
  <1> QED
    BY <1>1, LenProperties, ElementOfSeq

LEMMA PayloadIsData ==
    ASSUME stream \in Streams, NEW i \in 1..Len(stream)
    PROVE  Payload(i) \in Data
  <1>1. stream[i].size \in Nat /\ i \in Nat
    BY StreamFacts DEF Frame
  <1>2. Payload(i) \in [1..stream[i].size -> Nat \X Nat]
    BY <1>1 DEF Payload
  <1> QED
    BY <1>1, <1>2, SeqDef DEF Data

\* A frame that is no close frame leaves the socket's facts as they are.
LEMMA PutFrame ==
    ASSUME SockOK, NEW f \in Wire, f.op # "close", Put(f, FALSE), UNCHANGED <<closed, closeSent>>
    PROVE  SockOK'
  <1>1. CASE wire' = Append(wire, f)
    <2>1. /\ wire' \in Seq(Wire) /\ Len(wire') = Len(wire) + 1 /\ wire'[Len(wire) + 1] = f
          /\ \A i \in 1..Len(wire) : wire'[i] = wire[i]
          /\ Len(wire) \in Nat /\ DOMAIN wire = 1..Len(wire) /\ DOMAIN wire' = 1..Len(wire')
      BY <1>1, AppendProperties, LenProperties DEF SockOK
    <2>2. \A i \in DOMAIN wire' : wire'[i].op = "close" => i \in DOMAIN wire /\ wire[i].op = "close"
      BY <2>1
    <2>3. transport' = transport /\ buffered' \in BOOLEAN
      BY DEF Put, SockOK
    <2> QED
      BY <2>1, <2>2, <2>3 DEF SockOK, CloseEndsConnection, CloseIsKnown
  <1>2. CASE UNCHANGED <<wire, buffered>>
    BY <1>2 DEF Put, SockOK, CloseEndsConnection, CloseIsKnown
  <1> QED
    BY <1>1, <1>2 DEF Put

\* After Close the transport is not open, and there is one close frame at most.
LEMMA CloseOnce ==
    ASSUME SockOK, Close, closed' \in BOOLEAN
    PROVE  SockOK' /\ closeSent'
  <1>1. CASE closeSent
    BY <1>1 DEF Close, sock, SockOK, CloseEndsConnection, CloseIsKnown
  <1>2. CASE ~closeSent
    <2> DEFINE f == [op |-> "close", frame |-> 0]
    <2>1. closeSent' = TRUE /\ Put(f, TRUE) /\ f \in Wire
      BY <1>2 DEF Close, Wire
    <2>2. transport' \in {"closing", "lost"} /\ buffered' \in BOOLEAN
      BY <2>1 DEF Put, SockOK
    <2>3. \A i \in DOMAIN wire : wire[i].op # "close"
      BY <1>2 DEF SockOK, CloseIsKnown
    <2>4. CASE wire' = Append(wire, f)
      <3>1. /\ wire' \in Seq(Wire) /\ Len(wire') = Len(wire) + 1
            /\ \A i \in 1..Len(wire) : wire'[i] = wire[i]
            /\ Len(wire) \in Nat /\ DOMAIN wire = 1..Len(wire) /\ DOMAIN wire' = 1..Len(wire')
        BY <2>1, <2>4, AppendProperties, LenProperties DEF SockOK
      <3>2. \A i \in DOMAIN wire' : wire'[i].op = "close" => i = Len(wire) + 1
        BY <2>3, <3>1
      <3> QED
        BY <2>1, <2>2, <3>1, <3>2 DEF SockOK, CloseEndsConnection, CloseIsKnown
    <2>5. CASE wire' = wire
      BY <2>1, <2>2, <2>3, <2>5 DEF SockOK, CloseEndsConnection, CloseIsKnown
    <2> QED
      BY <2>1, <2>4, <2>5 DEF Put
  <1> QED
    BY <1>1, <1>2 DEF SockOK

\* read hands out a piece of a message and keeps a piece.
LEMMA AnswerTyped ==
    ASSUME NEW data \in Data, NEW n \in Nat, got \in Seq(Data), Answer(data, n)
    PROVE  got' \in Seq(Data) /\ leftover' \in Data /\ stage' = "idle"
  <1> DEFINE k == IF n < Len(data) THEN n ELSE Len(data)
  <1>1. Len(data) \in Nat /\ k \in 0..Len(data)
    BY LenProperties DEF Data
  <1>2. \A i \in 1..Len(data) : data[i] \in Nat \X Nat
    BY ElementOfSeq DEF Data
  <1>3. SubSeq(data, 1, k) \in Data
    <2>1. \A i \in 1..k : data[i] \in Nat \X Nat
      BY <1>1, <1>2
    <2> QED
      BY <1>1, <2>1, SubSeqProperties DEF Data
  <1>4. SubSeq(data, k + 1, Len(data)) \in Data
    <2>1. \A i \in (k + 1)..Len(data) : data[i] \in Nat \X Nat
      BY <1>1, <1>2
    <2> QED
      BY <1>1, <2>1, SubSeqProperties DEF Data
  <1>5. Append(got, SubSeq(data, 1, k)) \in Seq(Data)
    BY <1>3, AppendProperties
  <1> QED
    BY <1>4, <1>5 DEF Answer

-----------------------------------------------------------------------------
LEMMA InitInv == Init => IInv
  <1> SUFFICES ASSUME Init PROVE IInv
    OBVIOUS
  <1>1. Len(stream) \in Nat
    BY StreamFacts DEF Init
  <1>2. TypeOK
    <2>1. /\ feed \in Seq(1..(2 * Len(stream))) /\ message \in Data /\ leftover \in Data
          /\ wire \in Seq(Wire) /\ got \in Seq(Data)
      BY EmptySeq DEF Init, Data
    <2>2. /\ arrived \in 0..(2 * Len(stream)) /\ held \in 0..arrived
          /\ taken \in 0..Len(stream) /\ 2 * taken <= held
      BY <1>1 DEF Init
    <2>3. /\ opcode \in Start \cup {"none"} /\ want \in Nat /\ closed \in BOOLEAN
          /\ closeSent \in BOOLEAN /\ stage \in {"idle", "reading", "waiting"}
          /\ transport \in {"open", "closing", "lost"} /\ buffered \in BOOLEAN
      BY DEF Init
    <2> QED
      BY <2>1, <2>2, <2>3 DEF TypeOK, Wire
  <1> QED
    BY <1>2 DEF Init, IInv, FeedOrdered, ReaderWaitsForMore, CloseEndsConnection, CloseIsKnown

\* The part of the invariant that is about the socket.
LEMMA SockPart == IInv => SockOK
  BY DEF IInv, TypeOK, SockOK, Wire

\* A step of the socket alone.
LEMMA SocketStep ==
    ASSUME IInv, SockOK',
           UNCHANGED <<client, held, taken, opcode, message, closed, leftover, stage, want, got>>
    PROVE  IInv'
  BY DEF IInv, TypeOK, SockOK, Wire, client, FeedOrdered, ReaderWaitsForMore, Complete, Begun,
         Next1, Data, Start

LEMMA LoopStep ==
    ASSUME IInv, Loop
    PROVE  IInv'
  <1>1. CASE ConnectionLost
    <2>1. SockOK'
      BY <1>1, SockPart DEF ConnectionLost, SockOK, CloseEndsConnection, CloseIsKnown
    <2> QED
      BY <1>1, <2>1, SocketStep DEF ConnectionLost
  <1>2. CASE BufferDrains
    <2>1. SockOK'
      BY <1>2, SockPart DEF BufferDrains, SockOK, CloseEndsConnection, CloseIsKnown
    <2> QED
      BY <1>2, <2>1, SocketStep DEF BufferDrains
  <1>3. CASE ServerCloses
    <2>1. SockOK'
      BY <1>3, SockPart DEF ServerCloses, SockOK, CloseEndsConnection, CloseIsKnown
    <2> QED
      BY <1>3, <2>1, SocketStep DEF ServerCloses
  <1>4. ASSUME NEW p \in 1..(2 * Len(stream)), DataReceived(p)
        PROVE  IInv'
    <2> DEFINE S == 1..(2 * Len(stream))
    <2>1. feed \in Seq(S) /\ Len(stream) \in Nat
      BY StreamFacts DEF IInv, TypeOK
    <2>2. /\ feed' \in Seq(S) /\ Len(feed') = Len(feed) + 1 /\ feed'[Len(feed) + 1] = p
          /\ \A k \in 1..Len(feed) : feed'[k] = feed[k]
          /\ Len(feed) \in Nat /\ DOMAIN feed = 1..Len(feed) /\ DOMAIN feed' = 1..Len(feed')
      BY <1>4, <2>1, AppendProperties, LenProperties DEF DataReceived
    <2>3. /\ arrived' = p /\ p > arrived /\ arrived \in 0..(2 * Len(stream)) /\ held <= arrived
          /\ held \in Nat
      BY <1>4, <2>1 DEF DataReceived, IInv, TypeOK
    <2>4. TypeOK'
      BY <1>4, <2>1, <2>2, <2>3 DEF DataReceived, IInv, TypeOK, sock, Data, Start
    <2>5. \A k \in DOMAIN feed : held <= feed[k] /\ feed[k] <= arrived /\ feed[k] \in S
      BY <2>1, <2>2, ElementOfSeq DEF IInv, FeedOrdered
    <2>6. FeedOrdered'
      BY <1>4, <2>1, <2>2, <2>3, <2>5 DEF DataReceived, IInv, FeedOrdered
    <2> QED
      BY <1>4, <2>4, <2>6 DEF DataReceived, IInv, sock, ReaderWaitsForMore, Complete, Begun, Next1,
         CloseEndsConnection, CloseIsKnown
  <1> QED
    BY <1>1, <1>2, <1>3, <1>4 DEF Loop

LEMMA ApplicationStep ==
    ASSUME IInv, ~HoldsLoop, Application
    PROVE  IInv'
  <1>1. CASE AppWrites
    <2>1. [op |-> "data", frame |-> 0] \in Wire
      BY DEF Wire
    <2>2. SockOK'
      BY <1>1, <2>1, SockPart, PutFrame DEF AppWrites
    <2> QED
      BY <1>1, <2>2, SocketStep DEF AppWrites
  <1>2. CASE AppCloses
    <2>1. SockOK'
      BY <1>2, SockPart, CloseOnce DEF AppCloses, SockOK
    <2> QED
      BY <1>2, <2>1, SocketStep DEF AppCloses
  <1>3. CASE Cancel
    BY <1>3 DEF Cancel, IInv, TypeOK, client, sock, FeedOrdered, ReaderWaitsForMore,
       CloseEndsConnection, CloseIsKnown, Data, Start
  <1>4. ASSUME NEW n \in Sizes, Read(n)
        PROVE  IInv'
    <2>1. n \in Nat /\ stage = "idle"
      BY <1>4, SizesAssumption DEF Read
    <2>2. got' \in Seq(Data) /\ leftover' \in Data /\ want' \in Nat /\ stage' \in {"idle", "reading"}
      <3>1. CASE leftover # <<>>
        BY <1>4, <2>1, <3>1, AnswerTyped DEF Read, IInv, TypeOK
      <3>2. CASE leftover = <<>>
        BY <1>4, <2>1, <3>2 DEF Read, IInv, TypeOK
      <3> QED
        BY <3>1, <3>2
    <2> QED
      BY <1>4, <2>2 DEF Read, IInv, TypeOK, client, sock, FeedOrdered, ReaderWaitsForMore,
         CloseEndsConnection, CloseIsKnown, Data, Start
  <1> QED
    BY <1>1, <1>2, <1>3, <1>4 DEF Application

-----------------------------------------------------------------------------
(* The reading task.                                                       *)

\* The next segment goes from the feed to recv_buffer.
LEMMA FeedStep ==
    ASSUME IInv, feed # <<>>, held' = Head(feed), feed' = Tail(feed), UNCHANGED <<stream, arrived>>
    PROVE  /\ feed' \in Seq(1..(2 * Len(stream))) /\ FeedOrdered'
           /\ held' \in Nat /\ held <= held' /\ held' <= arrived
  <1> DEFINE S == 1..(2 * Len(stream))
  <1>1. feed \in Seq(S)
    BY DEF IInv, TypeOK
  <1>2. /\ feed' \in Seq(S) /\ held' = feed[1] /\ Len(feed) \in Nat \ {0}
        /\ Len(feed') = Len(feed) - 1 /\ \A k \in 1..Len(feed') : feed'[k] = feed[k + 1]
        /\ DOMAIN feed = 1..Len(feed) /\ DOMAIN feed' = 1..Len(feed')
    BY <1>1, HeadTailProperties, EmptySeq, LenProperties
  <1>3. \A k \in DOMAIN feed : feed[k] \in S
    BY <1>1, <1>2, ElementOfSeq
  <1>4. 1 \in DOMAIN feed /\ \A k \in DOMAIN feed' : k + 1 \in DOMAIN feed /\ feed'[k] = feed[k + 1]
    BY <1>2
  <1>5. \A k \in DOMAIN feed' : held' <= feed'[k] /\ feed'[k] <= arrived'
    BY <1>2, <1>3, <1>4 DEF IInv, FeedOrdered
  <1>6. \A j, k \in DOMAIN feed' : j <= k => feed'[j] <= feed'[k]
    BY <1>2, <1>4 DEF IInv, FeedOrdered
  <1>7. held' \in S /\ held <= held' /\ held' <= arrived
    BY <1>2, <1>3, <1>4 DEF IInv, FeedOrdered
  <1> QED
    BY <1>2, <1>5, <1>6, <1>7 DEF FeedOrdered

LEMMA FramesInRange ==
    ASSUME IInv
    PROVE  /\ Complete => taken + 1 \in 1..Len(stream) /\ Next1 \in Frame
           /\ Begun => taken + 1 \in 1..Len(stream) /\ Next1 \in Frame
           /\ Complete <=> held >= 2 * taken + 2
  <1>1. /\ Len(stream) \in Nat /\ arrived \in 0..(2 * Len(stream)) /\ held \in 0..arrived
        /\ taken \in 0..Len(stream)
    BY StreamFacts DEF IInv, TypeOK
  <1>2. (Complete \/ Begun) => taken + 1 \in 1..Len(stream)
    BY <1>1 DEF Complete, Begun
  <1>3. Complete <=> held >= 2 * taken + 2
    BY <1>1 DEF Complete
  <1> QED
    BY <1>2, <1>3, StreamFacts DEF IInv, Next1

LEMMA HeaderStep ==
    ASSUME IInv, HeaderRaises
    PROVE  IInv'
  BY DEF HeaderRaises, IInv, TypeOK, client, sock, FeedOrdered, ReaderWaitsForMore,
     CloseEndsConnection, CloseIsKnown, Data, Start

\* A reader that takes a segment reads on.
LEMMA SegmentStep ==
    ASSUME IInv, feed # <<>>, held' = Head(feed), feed' = Tail(feed), stage' = "reading",
           UNCHANGED <<stream, arrived, taken, opcode, message, closed, closeSent, leftover,
                       want, sock, got>>
    PROVE  IInv'
  <1>1. /\ feed' \in Seq(1..(2 * Len(stream))) /\ FeedOrdered'
        /\ held' \in Nat /\ held <= held' /\ held' <= arrived
    BY FeedStep
  <1>2. held' \in 0..arrived /\ 2 * taken <= held'
    <2>1. arrived \in Nat /\ held \in Nat /\ taken \in Nat /\ 2 * taken <= held
      BY StreamFacts DEF IInv, TypeOK
    <2> QED
      BY <1>1, <2>1
  <1>3. TypeOK'
    BY <1>1, <1>2 DEF IInv, TypeOK, sock, Data, Start
  <1> QED
    BY <1>1, <1>3 DEF IInv, sock, ReaderWaitsForMore, CloseEndsConnection, CloseIsKnown

LEMMA NeedsMoreStep ==
    ASSUME IInv, NeedsMore
    PROVE  IInv'
  <1>1. CASE closed
    BY <1>1 DEF NeedsMore, IInv, TypeOK, sock, FeedOrdered, ReaderWaitsForMore,
       CloseEndsConnection, CloseIsKnown, Data, Start
  <1>2. CASE ~closed /\ feed # <<>>
    BY <1>2, SegmentStep DEF NeedsMore
  <1>3. CASE ~closed /\ feed = <<>>
    <2>1. TypeOK' /\ FeedOrdered' /\ CloseEndsConnection' /\ CloseIsKnown'
      BY <1>3 DEF NeedsMore, IInv, TypeOK, sock, FeedOrdered, CloseEndsConnection, CloseIsKnown,
         Data, Start
    <2>2. ReaderWaitsForMore'
      BY <1>3 DEF NeedsMore, Lacks, ReaderWaitsForMore, Complete, Begun, Next1
    <2> QED
      BY <2>1, <2>2 DEF NeedsMore, IInv
  <1> QED
    BY <1>1, <1>2, <1>3

LEMMA WakeStep ==
    ASSUME IInv, Wake
    PROVE  IInv'
  BY SegmentStep DEF Wake

\* A frame is taken: what is left to show is the reader's data and the socket.
LEMMA TakeStep ==
    ASSUME IInv, Takes, SockOK', opcode' \in Start \cup {"none"}, message' \in Data,
           leftover' \in Data, got' \in Seq(Data), stage' \in {"idle", "reading"}
    PROVE  IInv'
  <1>1. /\ taken \in Nat /\ held \in Nat /\ taken + 1 \in 1..Len(stream) /\ held >= 2 * taken + 2
    BY FramesInRange, StreamFacts DEF IInv, TypeOK, Takes
  <1>2. taken' \in 0..Len(stream) /\ 2 * taken' <= held
    BY <1>1 DEF Takes
  <1>3. TypeOK'
    BY <1>2 DEF Takes, client, SockOK, Wire, IInv, TypeOK, Data
  <1> QED
    BY <1>3 DEF Takes, client, SockOK, IInv, FeedOrdered, ReaderWaitsForMore

LEMMA ErrorStep ==
    ASSUME IInv, ProtocolError
    PROVE  SockOK' /\ leftover' \in Data /\ got' \in Seq(Data) /\ stage' = "idle"
  <1>1. SockOK'
    BY SockPart, CloseOnce DEF ProtocolError
  <1> QED
    BY <1>1 DEF ProtocolError, IInv, TypeOK, Data

\* The socket, untouched.
LEMMA SockKept ==
    ASSUME IInv, UNCHANGED <<closed, closeSent, sock>>
    PROVE  SockOK'
  BY SockPart DEF sock, SockOK, CloseEndsConnection, CloseIsKnown

LEMMA TakeCloseStep ==
    ASSUME IInv, TakeClose
    PROVE  IInv'
  <1>1. ProtocolError
    BY DEF TakeClose, ProtocolError
  <1>2. UNCHANGED <<opcode, message>> /\ Takes
    BY DEF TakeClose
  <1> QED
    BY <1>1, <1>2, ErrorStep, TakeStep DEF IInv, TypeOK, Data, Start

LEMMA TakePingPongStep ==
    ASSUME IInv, TakePingPong
    PROVE  IInv'
  <1>1. UNCHANGED <<opcode, message>> /\ Takes /\ stage = "reading"
    BY DEF TakePingPong, Takes
  <1>2. CASE ProtocolError
    BY <1>1, <1>2, ErrorStep, TakeStep DEF IInv, TypeOK, Data, Start
  <1>3. CASE Pong /\ UNCHANGED <<closed, closeSent, stage, leftover, got>>
    <2>1. SockOK'
      <3>1. CASE UNCHANGED sock
        BY <1>3, <3>1, SockKept
      <3>2. CASE Put([op |-> "pong", frame |-> taken + 1], FALSE)
        <4>1. taken + 1 \in Nat
          BY StreamFacts DEF IInv, TypeOK
        <4>2. [op |-> "pong", frame |-> taken + 1] \in Wire
          BY <4>1 DEF Wire
        <4> QED
          BY <1>3, <3>2, <4>2, SockPart, PutFrame
      <3> QED
        BY <1>3, <3>1, <3>2 DEF Pong
    <2> QED
      BY <1>1, <1>3, <2>1, TakeStep DEF IInv, TypeOK, Data, Start
  <1> QED
    BY <1>2, <1>3 DEF TakePingPong

LEMMA TakeMisplacedStep ==
    ASSUME IInv, TakeMisplaced
    PROVE  IInv'
  BY ErrorStep, TakeStep DEF TakeMisplaced, IInv, TypeOK, Data, Start

LEMMA TakeDataStep ==
    ASSUME IInv, TakeData
    PROVE  IInv'
  <1>1. Takes /\ stage = "reading" /\ taken + 1 \in 1..Len(stream) /\ Next1 \in Frame
    BY FramesInRange DEF TakeData, Takes
  <1>2. Grown \in Data
    BY <1>1, PayloadIsData, ConcatProperties DEF Grown, IInv, TypeOK, Data
  <1>3. opcode' \in Start \cup {"none"} /\ message' \in Data
    BY <1>1, <1>2, EmptySeq DEF TakeData, Opcode, IInv, TypeOK, Data, Start
  <1>4. CASE ProtocolError
    BY <1>1, <1>3, <1>4, ErrorStep, TakeStep
  <1>5. CASE Answer(Grown, want) /\ UNCHANGED <<closed, closeSent, sock>>
    <2>1. got' \in Seq(Data) /\ leftover' \in Data /\ stage' = "idle"
      BY <1>2, <1>5, AnswerTyped DEF IInv, TypeOK
    <2> QED
      BY <1>1, <1>3, <1>5, <2>1, SockKept, TakeStep
  <1>6. CASE UNCHANGED <<closed, closeSent, stage, leftover, got, sock>>
    <2>1. got' \in Seq(Data) /\ leftover' \in Data /\ stage' = "reading"
      BY <1>1, <1>6 DEF IInv, TypeOK, Data
    <2> QED
      BY <1>1, <1>3, <1>6, <2>1, SockKept, TakeStep
  <1> QED
    BY <1>4, <1>5, <1>6 DEF TakeData

-----------------------------------------------------------------------------
LEMMA NextInv == IInv /\ [Next]_vars => IInv'
  <1> SUFFICES ASSUME IInv, [Next]_vars PROVE IInv'
    OBVIOUS
  <1>1. CASE Reader
    BY <1>1, HeaderStep, NeedsMoreStep, WakeStep, TakeCloseStep, TakePingPongStep,
       TakeMisplacedStep, TakeDataStep DEF Reader
  <1>2. CASE ~HoldsLoop /\ Application
    BY <1>2, ApplicationStep
  <1>3. CASE Loop
    BY <1>3, LoopStep
  <1>4. CASE UNCHANGED vars
    BY <1>4 DEF vars, client, sock, IInv, TypeOK, FeedOrdered, ReaderWaitsForMore, Complete, Begun,
       Next1, CloseEndsConnection, CloseIsKnown, Data, Start
  <1> QED
    BY <1>1, <1>2, <1>3, <1>4 DEF Next

\* Whatever client, application and server do, the invariant holds.
THEOREM Invariant == Spec => []IInv
  <1> QED
    BY InitInv, NextInv, PTL DEF Spec

\* The WebSocket's variables keep their types, and it never takes a frame whose
\* bytes it has not seen.
THEOREM TypeCorrect == Spec => []TypeOK
  <1>1. IInv => TypeOK
    BY DEF IInv
  <1> QED
    BY <1>1, Invariant, PTL

\* A reader waits only with no frame, whole or faulty, at the front of its buffer.
THEOREM ReaderNotStuck == Spec => []ReaderWaitsForMore
  <1>1. IInv => ReaderWaitsForMore
    BY DEF IInv
  <1> QED
    BY <1>1, Invariant, PTL

\* The close frame goes out at most once, whoever starts the handshake, and the
\* transport closes with it.
THEOREM ClosesOnce == Spec => []CloseEndsConnection
  <1>1. IInv => CloseEndsConnection
    BY DEF IInv
  <1> QED
    BY <1>1, Invariant, PTL

-----------------------------------------------------------------------------
(* Pings and pongs.                                                        *)

\* What a frame put on an open transport does to the wire.
LEMMA PutOnWire ==
    ASSUME TypeOK, transport = "open", NEW f \in Wire, Put(f, FALSE)
    PROVE  /\ DOMAIN wire' = DOMAIN wire \cup {Len(wire) + 1} /\ wire'[Len(wire) + 1] = f
           /\ \A a \in DOMAIN wire : wire'[a] = wire[a] /\ a < Len(wire) + 1
  <1>1. wire \in Seq(Wire) /\ wire' = Append(wire, f)
    BY DEF TypeOK, Wire, Put
  <1>2. /\ Len(wire) \in Nat /\ DOMAIN wire = 1..Len(wire) /\ DOMAIN wire' = 1..Len(wire')
        /\ Len(wire') = Len(wire) + 1 /\ wire'[Len(wire) + 1] = f
        /\ \A i \in 1..Len(wire) : wire'[i] = wire[i]
    BY <1>1, AppendProperties, LenProperties
  <1>3. 1..(Len(wire) + 1) = (1..Len(wire)) \cup {Len(wire) + 1}
    BY <1>2
  <1> QED
    BY <1>2, <1>3

\* A step that answers no ping.
LEMMA OtherFrame ==
    ASSUME IInv, PongsAnswerPings, stream' = stream, transport' = "open" => transport = "open",
           \/ wire' = wire
           \/ \E f \in Wire : f.op # "pong" /\ Put(f, FALSE),
           \/ taken' = taken
           \/ taken' = taken + 1 /\ Next1.op # "ping"
    PROVE  PongsAnswerPings'
  <1> SUFFICES ASSUME transport' = "open", transport = "open"
               PROVE  /\ {wire'[a].frame : a \in Pongs'} = {i \in 1..taken' : stream[i].op = "ping"}
                      /\ \A a, b \in Pongs' : a < b => wire'[a].frame < wire'[b].frame
    BY DEF PongsAnswerPings
  <1>1. Pongs' = Pongs /\ \A a \in Pongs : wire'[a] = wire[a]
    <2>1. CASE wire' = wire
      BY <2>1 DEF Pongs
    <2>2. CASE \E f \in Wire : f.op # "pong" /\ Put(f, FALSE)
      <3>1. PICK f \in Wire : f.op # "pong" /\ Put(f, FALSE)
        BY <2>2
      <3> QED
        BY <3>1, PutOnWire DEF Pongs, IInv
    <2> QED
      BY <2>1, <2>2
  <1>2. taken \in Nat
    BY StreamFacts DEF IInv, TypeOK
  <1>3. {i \in 1..taken' : stream[i].op = "ping"} = {i \in 1..taken : stream[i].op = "ping"}
    <2>1. CASE taken' = taken + 1 /\ Next1.op # "ping"
      <3>1. \A i : i \in 1..taken' <=> i \in 1..taken \/ i = taken + 1
        BY <1>2, <2>1
      <3>2. stream[taken + 1].op # "ping"
        BY <2>1 DEF Next1
      <3> QED
        BY <3>1, <3>2
    <2> QED
      BY <2>1
  <1> QED
    BY <1>1, <1>3 DEF PongsAnswerPings

\* A ping is taken and its pong goes out.
LEMMA PongFrame ==
    ASSUME IInv, PongsAnswerPings, stream' = stream, taken' = taken + 1,
           Next1.op = "ping", Put([op |-> "pong", frame |-> taken + 1], FALSE)
    PROVE  PongsAnswerPings'
  <1> DEFINE f == [op |-> "pong", frame |-> taken + 1]
  <1> SUFFICES ASSUME transport' = "open"
               PROVE  /\ {wire'[a].frame : a \in Pongs'} = {i \in 1..taken' : stream[i].op = "ping"}
                      /\ \A a, b \in Pongs' : a < b => wire'[a].frame < wire'[b].frame
    BY DEF PongsAnswerPings
  <1>1. transport = "open"
    BY DEF Put
  <1>2. taken \in Nat
    BY StreamFacts DEF IInv, TypeOK
  <1>3. f \in Wire /\ f.op = "pong" /\ f.frame = taken + 1
    BY <1>2 DEF Wire
  <1> HIDE DEF f
  <1>4. /\ DOMAIN wire' = DOMAIN wire \cup {Len(wire) + 1} /\ wire'[Len(wire) + 1] = f
        /\ \A a \in DOMAIN wire : wire'[a] = wire[a] /\ a < Len(wire) + 1
    BY <1>1, <1>3, PutOnWire DEF f, IInv
  <1>5. /\ Pongs' = Pongs \cup {Len(wire) + 1} /\ \A a \in Pongs : a \in DOMAIN wire
        /\ \A a \in Pongs : wire'[a] = wire[a] /\ a < Len(wire) + 1
    BY <1>3, <1>4 DEF Pongs
  <1>6. \A i : i \in 1..taken' <=> i \in 1..taken \/ i = taken + 1
    BY <1>2
  <1>7. stream[taken + 1].op = "ping"
    BY DEF Next1
  <1>8. {wire[a].frame : a \in Pongs} = {i \in 1..taken : stream[i].op = "ping"}
    BY <1>1 DEF PongsAnswerPings
  <1>9. {wire'[a].frame : a \in Pongs'} = {wire[a].frame : a \in Pongs} \cup {taken + 1}
    BY <1>3, <1>4, <1>5
  <1>10. {i \in 1..taken' : stream[i].op = "ping"}
             = {i \in 1..taken : stream[i].op = "ping"} \cup {taken + 1}
    BY <1>6, <1>7
  <1>11. ASSUME NEW a \in Pongs', NEW b \in Pongs', a < b
         PROVE  wire'[a].frame < wire'[b].frame
    <2>1. Len(wire) \in Nat /\ DOMAIN wire = 1..Len(wire)
      BY LenProperties DEF IInv, TypeOK
    <2>2. CASE a \in Pongs /\ b \in Pongs
      BY <1>1, <1>5, <1>11, <2>2 DEF PongsAnswerPings
    <2>3. CASE a \in Pongs /\ b = Len(wire) + 1
      <3>1. wire[a].frame \in 1..taken
        BY <1>8, <2>3
      <3>2. wire'[a] = wire[a] /\ wire'[b].frame = taken + 1
        BY <1>3, <1>4, <1>5, <2>3
      <3> QED
        BY <1>2, <3>1, <3>2
    <2>4. CASE a = Len(wire) + 1
      <3>1. b \in DOMAIN wire'
        BY <1>4, <1>5
      <3> QED
        BY <1>4, <1>11, <2>1, <2>4, <3>1
    <2> QED
      BY <1>5, <2>2, <2>3, <2>4
  <1> QED
    BY <1>8, <1>9, <1>10, <1>11

LEMMA PongStep ==
    ASSUME IInv, PongsAnswerPings, [Next]_vars
    PROVE  PongsAnswerPings'
  <1>1. IInv'
    BY NextInv
  <1>2. CASE closeSent'
    BY <1>1, <1>2 DEF IInv, CloseEndsConnection, PongsAnswerPings
  <1>3. CASE ~closeSent'
    <2>1. ~Close \/ UNCHANGED sock
      BY <1>3 DEF Close
    <2>2. ~ProtocolError \/ UNCHANGED sock
      BY <2>1 DEF ProtocolError
    <2>3. CASE Reader
      <3>1. CASE HeaderRaises \/ NeedsMore \/ Wake
        BY <3>1, OtherFrame DEF HeaderRaises, NeedsMore, Wake, client, sock
      <3>2. CASE TakeClose \/ TakeMisplaced
        <4>1. Close /\ taken' = taken + 1 /\ stream' = stream
          BY <3>2 DEF TakeClose, TakeMisplaced, ProtocolError, Takes, client
        <4>2. closeSent'
          BY <4>1 DEF Close
        <4> QED
          BY <1>3, <4>2
      <3>3. CASE TakePingPong
        <4>1. taken' = taken + 1 /\ stream' = stream /\ Pong
          BY <1>3, <3>3 DEF TakePingPong, Takes, client, ProtocolError, Close
        <4>2. CASE Next1.op = "ping"
          BY <4>1, <4>2, PongFrame DEF Pong
        <4>3. CASE Next1.op # "ping"
          BY <4>1, <4>3, OtherFrame DEF Pong, sock
        <4> QED
          BY <4>2, <4>3
      <3>4. CASE TakeData
        <4>1. taken' = taken + 1 /\ stream' = stream /\ Next1.op # "ping"
          BY <3>4 DEF TakeData, Takes, client, Start
        <4>2. UNCHANGED sock
          BY <2>2, <3>4 DEF TakeData
        <4> QED
          BY <4>1, <4>2, OtherFrame DEF sock
      <3> QED
        BY <2>3, <3>1, <3>2, <3>3, <3>4 DEF Reader
    <2>4. CASE Application
      <3>1. CASE AppWrites
        <4>1. [op |-> "data", frame |-> 0] \in Wire /\ [op |-> "data", frame |-> 0].op # "pong"
          BY DEF Wire
        <4>2. Put([op |-> "data", frame |-> 0], FALSE) /\ taken' = taken /\ stream' = stream
          BY <3>1 DEF AppWrites, client
        <4>3. transport' = "open" => transport = "open"
          BY <4>2 DEF Put
        <4> QED
          BY <4>1, <4>2, <4>3, OtherFrame
      <3>2. CASE AppCloses
        BY <2>1, <3>2, OtherFrame DEF AppCloses, client, sock
      <3>3. CASE Cancel \/ \E n \in Sizes : Read(n)
        BY <3>3, OtherFrame DEF Cancel, Read, client, sock
      <3> QED
        BY <2>4, <3>1, <3>2, <3>3 DEF Application
    <2>5. CASE Loop
      BY <2>5, OtherFrame DEF Loop, ConnectionLost, BufferDrains, ServerCloses, DataReceived,
         client, sock
    <2>6. CASE UNCHANGED vars
      BY <2>6, OtherFrame DEF vars, client, sock
    <2> QED
      BY <2>3, <2>4, <2>5, <2>6 DEF Next
  <1> QED
    BY <1>2, <1>3

-----------------------------------------------------------------------------
(* Messages.  Read hands out a part of what it has and keeps the rest; a   *)
(* data frame comes after all that was read before it.                     *)

\* What read returned comes first, then the rest of the last message, then the next.
Ordered ==
    /\ \A i \in DOMAIN got : /\ Sorted(got[i])
                             /\ AllBefore(got[i], leftover) /\ AllBefore(got[i], message)
    /\ \A i, j \in DOMAIN got : i < j => AllBefore(got[i], got[j])
    /\ Sorted(leftover) /\ Sorted(message) /\ AllBefore(leftover, message)

\* The units read returned, and those it still has.
Given == UNION {ToSet(got[i]) : i \in DOMAIN got}
Kept  == Given \cup ToSet(leftover) \cup ToSet(message)

\* Units of one message, all of whose frames were taken.
OfOne(s) == \A u, v \in ToSet(s) : Whole(u[1]) /\ OneMessage(u, v)

\* Up to a message's end it is in fragment_buffer, from its end on with the reader.
Assembled ==
    /\ Sent \subseteq Kept
    /\ \A i \in DOMAIN got : OfOne(got[i])
    /\ OfOne(leftover)
    /\ \A u \in ToSet(message) : ~Whole(u[1])

\* Nothing is made up, and nothing is lost on the way from a frame to the reader:
\* a new message begins with an empty buffer, and is read with nothing left over.
DataInv ==
    /\ Ordered /\ Kept \subseteq Sent
    /\ stage # "idle" => leftover = <<>>
    /\ opcode = "none" => message = <<>>
    /\ ~closed => Assembled

\* What is read is split at a unit.
LEMMA AnswerSplits ==
    ASSUME NEW data \in Data, NEW n \in Nat, Answer(data, n)
    PROVE  \E x \in Data :
               /\ got' = Append(got, x)
               /\ ToSet(data) = ToSet(x) \cup ToSet(leftover')
               /\ Sorted(data) => Sorted(x) /\ Sorted(leftover') /\ AllBefore(x, leftover')
  <1> DEFINE k == IF n < Len(data) THEN n ELSE Len(data)
             x == SubSeq(data, 1, k)
             y == SubSeq(data, k + 1, Len(data))
  <1>1. Len(data) \in Nat /\ k \in 0..Len(data) /\ DOMAIN data = 1..Len(data)
    BY LenProperties DEF Data
  <1>2. \A i \in 1..Len(data) : data[i] \in Nat \X Nat
    BY ElementOfSeq DEF Data
  <1>3. /\ x \in Data /\ Len(x) = k /\ DOMAIN x = 1..k
        /\ \A i \in 1..k : x[i] = data[i]
    <2>1. \A i \in 1..k : data[i] \in Nat \X Nat
      BY <1>1, <1>2
    <2>2. x \in Data /\ Len(x) = k /\ \A i \in 1..k : x[i] = data[i]
      BY <1>1, <2>1, SubSeqProperties DEF Data
    <2> QED
      BY <2>2, LenProperties DEF Data
  <1>4. /\ Len(y) = Len(data) - k /\ DOMAIN y = 1..(Len(data) - k)
        /\ \A i \in 1..(Len(data) - k) : y[i] = data[k + i]
    <2>1. \A i \in (k + 1)..Len(data) : data[i] \in Nat \X Nat
      BY <1>1, <1>2
    <2>2. k + 1 \in Int /\ Len(data) \in Int
      BY <1>1
    <2>3. /\ k + 1 <= Len(data) \/ (~(k + 1 <= Len(data)) /\ Len(data) - k = 0)
          /\ Len(data) - (k + 1) + 1 = Len(data) - k
          /\ \A i \in 1..(Len(data) - k) : (k + 1) + i - 1 = k + i
      <3> HIDE DEF k
      <3>1. k \in Int /\ Len(data) \in Int /\ k <= Len(data)
        BY <1>1
      <3>2. k + 1 <= Len(data) \/ (~(k + 1 <= Len(data)) /\ Len(data) - k = 0)
        BY <3>1
      <3>3. Len(data) - (k + 1) + 1 = Len(data) - k
        BY <3>1
      <3>4. \A i \in 1..(Len(data) - k) : (k + 1) + i - 1 = k + i
        BY <3>1
      <3> QED
        BY <3>2, <3>3, <3>4
    <2> DEFINE m == k + 1
    <2> HIDE DEF m, k
    <2>4. /\ m <= Len(data) \/ (~(m <= Len(data)) /\ Len(data) - k = 0)
          /\ Len(data) - m + 1 = Len(data) - k
          /\ \A i \in 1..(Len(data) - k) : m + i - 1 = k + i
      BY <2>2, <2>3 DEF m
    <2>5. \A i \in m..Len(data) : data[i] \in Nat \X Nat
      BY <2>1 DEF m
    <2>6. /\ SubSeq(data, m, Len(data)) \in Seq(Nat \X Nat)
          /\ Len(SubSeq(data, m, Len(data))) = IF m <= Len(data) THEN Len(data) - m + 1 ELSE 0
          /\ \A i \in 1..(Len(data) - m + 1) : SubSeq(data, m, Len(data))[i] = data[m + i - 1]
      BY <2>2, <2>5, SubSeqProperties DEF m
    <2>7. y = SubSeq(data, m, Len(data))
      BY DEF m
    <2> HIDE DEF y
    <2>8. DOMAIN y = 1..Len(y)
      BY <2>6, <2>7, LenProperties
    <2> QED
      BY <2>4, <2>6, <2>7, <2>8
  <1>5. got' = Append(got, x) /\ leftover' = y
    BY DEF Answer
  <1> HIDE DEF k, x, y
  <1>6. ToSet(data) = ToSet(x) \cup ToSet(y)
    <2>1. /\ \A i \in DOMAIN x : i \in DOMAIN data
          /\ \A i \in DOMAIN y : k + i \in DOMAIN data
      BY <1>1, <1>3, <1>4
    <2>2. \A u \in ToSet(x) : u \in ToSet(data)
      BY <1>3, <2>1 DEF ToSet
    <2>3. \A u \in ToSet(y) : u \in ToSet(data)
      BY <1>4, <2>1 DEF ToSet
    <2>4. ASSUME NEW u \in ToSet(data)
          PROVE  u \in ToSet(x) \cup ToSet(y)
      <3>1. PICK i \in 1..Len(data) : u = data[i]
        BY <1>1 DEF ToSet
      <3>2. CASE i <= k
        BY <1>1, <1>3, <3>1, <3>2 DEF ToSet
      <3>3. CASE i > k
        <4>1. i - k \in 1..(Len(data) - k) /\ k + (i - k) = i
          BY <1>1, <3>3
        <4> QED
          BY <1>4, <3>1, <4>1 DEF ToSet
      <3> QED
        BY <1>1, <3>2, <3>3
    <2> QED
      BY <2>2, <2>3, <2>4
  <1>7. ASSUME Sorted(data)
        PROVE  Sorted(x) /\ Sorted(y) /\ AllBefore(x, y)
    <2>1. Sorted(x)
      BY <1>1, <1>3, <1>7 DEF Sorted
    <2>2. Sorted(y)
      <3> SUFFICES ASSUME NEW i \in DOMAIN y, NEW j \in DOMAIN y, i < j
                   PROVE  Before(y[i], y[j])
        BY DEF Sorted
      <3>1. k + i \in DOMAIN data /\ k + j \in DOMAIN data /\ k + i < k + j
        BY <1>1, <1>4
      <3> QED
        BY <1>4, <1>7, <3>1 DEF Sorted
    <2>3. ASSUME NEW i \in DOMAIN x, NEW j \in DOMAIN y
          PROVE  Before(x[i], y[j])
      <3>1. i \in DOMAIN data /\ k + j \in DOMAIN data /\ i < k + j
        BY <1>1, <1>3, <1>4
      <3> QED
        BY <1>3, <1>4, <1>7, <3>1 DEF Sorted
    <2> QED
      BY <2>1, <2>2, <2>3 DEF AllBefore, ToSet
  <1> QED
    BY <1>3, <1>5, <1>6, <1>7

\* What is answered takes its place between what was returned and what is to come.
LEMMA AnswerKeeps ==
    ASSUME got \in Seq(Data), NEW data \in Data, NEW n \in Nat, Answer(data, n),
           \A i \in DOMAIN got : /\ Sorted(got[i])
                                 /\ AllBefore(got[i], data) /\ AllBefore(got[i], message'),
           \A i, j \in DOMAIN got : i < j => AllBefore(got[i], got[j]),
           Sorted(data), Sorted(message'), AllBefore(data, message')
    PROVE  /\ Ordered'
           /\ Kept' = Given \cup ToSet(data) \cup ToSet(message')
           /\ ToSet(leftover') \subseteq ToSet(data)
           /\ \A i \in DOMAIN got' : \/ i \in DOMAIN got /\ got'[i] = got[i]
                                     \/ ToSet(got'[i]) \subseteq ToSet(data)
  <1>1. PICK x \in Data :
            /\ got' = Append(got, x)
            /\ ToSet(data) = ToSet(x) \cup ToSet(leftover')
            /\ Sorted(x) /\ Sorted(leftover') /\ AllBefore(x, leftover')
    BY AnswerSplits
  <1>2. /\ Len(got) \in Nat /\ DOMAIN got = 1..Len(got) /\ DOMAIN got' = 1..(Len(got) + 1)
        /\ got'[Len(got) + 1] = x /\ \A i \in 1..Len(got) : got'[i] = got[i]
    <2>1. /\ got' \in Seq(Data) /\ Len(got') = Len(got) + 1 /\ got'[Len(got) + 1] = x
          /\ \A i \in 1..Len(got) : got'[i] = got[i]
      BY <1>1, AppendProperties
    <2> QED
      BY <2>1, LenProperties
  <1>3. DOMAIN got' = DOMAIN got \cup {Len(got) + 1} /\ \A i \in DOMAIN got : i < Len(got) + 1
    BY <1>2
  <1>4. Given' = Given \cup ToSet(x)
    BY <1>2, <1>3 DEF Given
  <1>5. /\ \A i \in DOMAIN got : AllBefore(got[i], x) /\ AllBefore(got[i], leftover')
        /\ AllBefore(x, message') /\ AllBefore(leftover', message')
    BY <1>1 DEF AllBefore
  <1>6. \A i \in DOMAIN got' : /\ Sorted(got'[i])
                               /\ AllBefore(got'[i], leftover') /\ AllBefore(got'[i], message')
    BY <1>1, <1>2, <1>3, <1>5
  <1>7. ASSUME NEW i \in DOMAIN got', NEW j \in DOMAIN got', i < j
        PROVE  AllBefore(got'[i], got'[j])
    <2>1. i \in DOMAIN got
      BY <1>2, <1>7
    <2> QED
      BY <1>2, <1>3, <1>5, <1>7, <2>1
  <1>8. Ordered'
    BY <1>1, <1>5, <1>6, <1>7 DEF Ordered
  <1>9. Kept' = Given \cup ToSet(data) \cup ToSet(message')
    BY <1>1, <1>4 DEF Kept
  <1>10. \A i \in DOMAIN got' : \/ i \in DOMAIN got /\ got'[i] = got[i]
                                \/ ToSet(got'[i]) \subseteq ToSet(data)
    BY <1>1, <1>2, <1>3
  <1> QED
    BY <1>1, <1>8, <1>9, <1>10

\* Steps that read nothing from recv_buffer and hand out nothing.
LEMMA DataKept ==
    ASSUME DataInv, UNCHANGED <<stream, taken, message, leftover, got>>,
           closed => closed', stage' # "idle" => stage # "idle" \/ leftover = <<>>,
           opcode' = opcode
    PROVE  DataInv'
  <1>1. /\ Ordered' /\ Kept' = Kept /\ Sent' = Sent
        /\ stage' # "idle" => leftover' = <<>>
        /\ opcode' = "none" => message' = <<>>
    BY DEF DataInv, Ordered, Kept, Given, Sent, IsData, Payload
  <1>2. Assembled => Assembled'
    BY <1>1 DEF Assembled, OfOne, Whole, OneMessage, EndsMessage, IsData
  <1> QED
    BY <1>1, <1>2 DEF DataInv

\* What one more frame adds to what the client sent.
LEMMA SentGrows ==
    ASSUME IInv, stream' = stream, taken' = taken + 1
    PROVE  /\ Sent \subseteq Sent'
           /\ \A u \in Sent : u \in Nat \X Nat /\ u[1] \in 1..taken
           /\ IsData(taken + 1) => Sent' = Sent \cup ToSet(Payload(taken + 1))
           /\ ~IsData(taken + 1) => Sent' = Sent
  <1>1. /\ taken \in Nat /\ taken \in 0..Len(stream) /\ Len(stream) \in Nat
        /\ \A i : i \in 1..taken' <=> i \in 1..taken \/ i = taken + 1
    BY StreamFacts DEF IInv, TypeOK
  <1>2. \A i : IsData(i)' = IsData(i) /\ Payload(i)' = Payload(i)
    BY DEF IsData, Payload
  <1>3. \A u : u \in Sent <=> \E i \in 1..taken : IsData(i) /\ u \in ToSet(Payload(i))
    BY DEF Sent
  <1>4. \A u : u \in Sent' <=> \E i \in 1..taken' : IsData(i) /\ u \in ToSet(Payload(i))
    BY <1>2 DEF Sent, IsData, Payload
  <1>5. ASSUME NEW i \in 1..taken, NEW u \in ToSet(Payload(i))
        PROVE  u \in Nat \X Nat /\ u[1] = i
    <2>1. i \in 1..Len(stream) /\ i \in Nat
      BY <1>1
    <2>2. stream[i].size \in Nat
      BY <2>1, StreamFacts DEF IInv, Frame
    <2> DEFINE p == Payload(i)
    <2>3. DOMAIN p = 1..stream[i].size /\ \A k \in DOMAIN p : p[k] = <<i, k>>
      BY DEF Payload
    <2>4. PICK k \in DOMAIN p : u = p[k]
      BY <1>5 DEF ToSet
    <2>5. u = <<i, k>> /\ k \in Nat
      BY <2>2, <2>3, <2>4
    <2> QED
      BY <2>1, <2>5
  <1>6. Sent \subseteq Sent' /\ (~IsData(taken + 1) => Sent' = Sent)
    BY <1>1, <1>3, <1>4
  <1>7. IsData(taken + 1) => Sent' = Sent \cup ToSet(Payload(taken + 1))
    BY <1>1, <1>3, <1>4
  <1> QED
    BY <1>3, <1>5, <1>6, <1>7

\* A frame that ends no message makes no message whole; one that does ends all begun.
LEMMA WholeGrows ==
    ASSUME IInv, stream' = stream, taken' = taken + 1, NEW i \in 1..(taken + 1)
    PROVE  /\ Whole(i) => Whole(i)'
           /\ EndsMessage(taken + 1) => Whole(i)'
           /\ ~EndsMessage(taken + 1) /\ Whole(i)' => Whole(i)
  <1>1. /\ taken \in Nat /\ i \in Nat /\ i <= taken + 1
        /\ \A j : j \in i..taken' <=> j \in i..taken \/ j = taken + 1
    BY StreamFacts DEF IInv, TypeOK
  <1>2. Whole(i)' = \E j \in i..taken' : EndsMessage(j)
    BY DEF Whole, EndsMessage, IsData
  <1> QED
    BY <1>1, <1>2 DEF Whole

\* A frame that is dropped or ends the connection.
LEMMA DataPassed ==
    ASSUME IInv, DataInv, stream' = stream, taken' = taken + 1, UNCHANGED <<message, leftover, got>>,
           opcode' = opcode, stage = "reading",
           closed' \/ (~IsData(taken + 1) /\ closed' = closed)
    PROVE  DataInv'
  <1>1. /\ Ordered' /\ Kept' = Kept /\ Sent \subseteq Sent'
        /\ stage' # "idle" => leftover' = <<>>
        /\ opcode' = "none" => message' = <<>>
    BY SentGrows DEF DataInv, Ordered, Kept, Given
  <1>2. ASSUME ~closed'
        PROVE  Assembled'
    <2>1. Assembled /\ ~IsData(taken + 1) /\ Sent' = Sent
      BY <1>2, SentGrows DEF DataInv
    <2>2. \A u \in Kept : u[1] \in 1..taken /\ taken \in Nat
      BY SentGrows, StreamFacts DEF DataInv, IInv, TypeOK
    <2>3. \A u \in Kept : Whole(u[1])' <=> Whole(u[1])
      BY <2>1, <2>2, WholeGrows DEF EndsMessage
    <2>4. \A u, v : OneMessage(u, v)' <=> OneMessage(u, v)
      BY DEF OneMessage, EndsMessage, IsData
    <2> QED
      BY <1>1, <2>1, <2>3, <2>4 DEF Assembled, OfOne, Kept, Given
  <1> QED
    BY <1>1, <1>2 DEF DataInv

\* A read of what is left over.
LEMMA ReadStep ==
    ASSUME IInv, DataInv, NEW n \in Sizes, Read(n)
    PROVE  DataInv'
  <1>1. UNCHANGED <<stream, taken, message, opcode, closed>>
    BY DEF Read, client
  <1>2. CASE leftover = <<>>
    BY <1>1, <1>2, DataKept DEF Read
  <1>3. CASE leftover # <<>>
    <2>1. /\ Answer(leftover, n) /\ n \in Nat /\ leftover \in Data /\ got \in Seq(Data)
          /\ stage' = "idle"
      BY <1>3, SizesAssumption DEF Read, Answer, IInv, TypeOK
    <2>2. /\ Ordered' /\ Kept' = Kept /\ ToSet(leftover') \subseteq ToSet(leftover)
          /\ \A i \in DOMAIN got' : \/ i \in DOMAIN got /\ got'[i] = got[i]
                                    \/ ToSet(got'[i]) \subseteq ToSet(leftover)
      BY <1>1, <2>1, AnswerKeeps DEF DataInv, Ordered, Kept
    <2>3. Sent' = Sent
      BY <1>1 DEF Sent, IsData, Payload
    <2>4. ASSUME Assembled
          PROVE  Assembled'
      <3>1. \A i : Whole(i)' <=> Whole(i)
        BY <1>1 DEF Whole, EndsMessage, IsData
      <3>2. \A u, v : OneMessage(u, v)' <=> OneMessage(u, v)
        BY <1>1 DEF OneMessage, EndsMessage, IsData
      <3>3. OfOne(leftover') /\ \A i \in DOMAIN got' : OfOne(got'[i])
        BY <2>2, <2>4 DEF Assembled, OfOne
      <3> QED
        BY <1>1, <2>2, <2>3, <2>4, <3>1, <3>2, <3>3 DEF Assembled, OfOne
    <2> QED
      BY <1>1, <2>1, <2>2, <2>3, <2>4 DEF DataInv
  <1> QED
    BY <1>2, <1>3

\* The units of a frame, behind those of the message it goes on with.
LEMMA GrownInOrder ==
    ASSUME IInv, DataInv, Takes, stage = "reading",
           IF opcode = "none" THEN Next1.op \in Start ELSE Next1.op = "continuation"
    PROVE  /\ Grown \in Data /\ Sorted(Grown)
           /\ ToSet(Grown) = ToSet(message) \cup ToSet(Payload(taken + 1))
           /\ \A i \in DOMAIN got : AllBefore(got[i], Grown)
           /\ \A u \in ToSet(Payload(taken + 1)) : u \in Nat \X Nat /\ u[1] = taken + 1
           /\ IsData(taken + 1)
  <1> DEFINE p == Payload(taken + 1)
  <1>1. /\ taken \in Nat /\ taken + 1 \in 1..Len(stream) /\ Next1 \in Frame /\ Len(stream) \in Nat
        /\ stream[taken + 1].size \in Nat
    BY FramesInRange, StreamFacts DEF IInv, TypeOK, Takes, Next1, Frame
  <1>2. /\ p \in Data /\ DOMAIN p = 1..stream[taken + 1].size
        /\ \A k \in DOMAIN p : p[k] = <<taken + 1, k>>
    BY <1>1, PayloadIsData DEF Payload, IInv
  <1>3. \A u \in ToSet(p) : u \in Nat \X Nat /\ u[1] = taken + 1
    BY <1>1, <1>2 DEF ToSet
  <1>4. Sorted(p)
    BY <1>1, <1>2 DEF Sorted, Before
  <1>5. \A u \in Kept : u \in Nat \X Nat /\ u[1] \in 1..taken
    BY SentGrows DEF Takes, client, DataInv
  <1>6. \A u \in Kept, v \in ToSet(p) : Before(u, v)
    BY <1>1, <1>3, <1>5 DEF Before
  <1>7. /\ message \in Data /\ Sorted(message)
        /\ \A i \in DOMAIN got : AllBefore(got[i], message) /\ ToSet(got[i]) \subseteq Kept
        /\ ToSet(message) \subseteq Kept
    BY DEF IInv, TypeOK, DataInv, Ordered, Kept, Given
  <1>8. Grown = message \o p
    <2>1. CASE Next1.op \in Start
      <3>1. opcode = "none" /\ message = <<>>
        BY <2>1 DEF DataInv, Start
      <3>2. <<>> \o p = p
        BY <1>2, ConcatEmptySeq DEF Data
      <3> QED
        BY <2>1, <3>1, <3>2 DEF Grown
    <2> QED
      BY <2>1 DEF Grown
  <1> HIDE DEF p
  <1> DEFINE g == message \o p
  <1>9. /\ g \in Data /\ DOMAIN g = 1..(Len(message) + Len(p))
        /\ Len(message) \in Nat /\ Len(p) \in Nat
        /\ DOMAIN message = 1..Len(message) /\ DOMAIN p = 1..Len(p)
        /\ \A i \in 1..Len(message) : g[i] = message[i]
        /\ \A i \in 1..Len(p) : g[Len(message) + i] = p[i]
    <2>1. /\ g \in Data /\ Len(g) = Len(message) + Len(p)
          /\ \A i \in 1..(Len(message) + Len(p)) :
                 g[i] = IF i <= Len(message) THEN message[i] ELSE p[i - Len(message)]
      BY <1>2, <1>7, ConcatProperties DEF Data
    <2>2. /\ Len(message) \in Nat /\ Len(p) \in Nat
          /\ DOMAIN message = 1..Len(message) /\ DOMAIN p = 1..Len(p) /\ DOMAIN g = 1..Len(g)
      BY <1>2, <1>7, <2>1, LenProperties DEF Data
    <2>3. \A i \in 1..Len(message) : g[i] = message[i]
      BY <2>1, <2>2
    <2>4. ASSUME NEW i \in 1..Len(p)
          PROVE  g[Len(message) + i] = p[i]
      <3>1. /\ Len(message) + i \in 1..(Len(message) + Len(p)) /\ ~(Len(message) + i <= Len(message))
            /\ Len(message) + i - Len(message) = i
        BY <2>2
      <3> QED
        BY <2>1, <3>1
    <2> QED
      BY <2>1, <2>2, <2>3, <2>4
  <1> HIDE DEF g
  <1>10. \A i \in DOMAIN g : \/ i \in DOMAIN message /\ g[i] = message[i]
                             \/ \E k \in DOMAIN p : i = Len(message) + k /\ g[i] = p[k]
    <2> SUFFICES ASSUME NEW i \in DOMAIN g, i > Len(message)
                 PROVE  \E k \in DOMAIN p : i = Len(message) + k /\ g[i] = p[k]
      BY <1>9
    <2>1. i - Len(message) \in 1..Len(p) /\ Len(message) + (i - Len(message)) = i
      BY <1>9
    <2> QED
      BY <1>9, <2>1
  <1>11. ToSet(g) = ToSet(message) \cup ToSet(p)
    <2>1. \A i \in 1..Len(message) : i \in DOMAIN g
      BY <1>9
    <2>2. \A i \in 1..Len(p) : Len(message) + i \in DOMAIN g
      BY <1>9
    <2> QED
      BY <1>9, <1>10, <2>1, <2>2 DEF ToSet
  <1>12. Sorted(g)
    <2> SUFFICES ASSUME NEW i \in DOMAIN g, NEW j \in DOMAIN g, i < j
                 PROVE  Before(g[i], g[j])
      BY DEF Sorted
    <2>1. CASE j \in DOMAIN message
      <3>1. i \in DOMAIN message
        BY <1>9, <2>1
      <3> QED
        BY <1>7, <1>9, <2>1, <3>1 DEF Sorted
    <2>2. ASSUME NEW k \in DOMAIN p, j = Len(message) + k, g[j] = p[k]
          PROVE  Before(g[i], g[j])
      <3>1. CASE i \in DOMAIN message
        <4>1. g[i] \in ToSet(message) /\ g[j] \in ToSet(p)
          BY <1>9, <2>2, <3>1 DEF ToSet
        <4> QED
          BY <1>6, <1>7, <4>1
      <3>2. ASSUME NEW l \in DOMAIN p, i = Len(message) + l, g[i] = p[l]
            PROVE  Before(g[i], g[j])
        <4>1. l < k
          BY <1>9, <2>2, <3>2
        <4> QED
          BY <1>4, <2>2, <3>2, <4>1 DEF Sorted
      <3> QED
        BY <1>10, <3>1, <3>2
    <2> QED
      BY <1>10, <2>1, <2>2
  <1>13. \A i \in DOMAIN got : AllBefore(got[i], g)
    BY <1>6, <1>7, <1>11 DEF AllBefore
  <1>14. IsData(taken + 1)
    BY DEF IsData, Start, Control, Next1
  <1> QED
    BY <1>3, <1>8, <1>9, <1>11, <1>12, <1>13, <1>14 DEF p, g

\* A data frame in place: its message goes on, or is handed to the reader as it ends.
LEMMA DataTakenStep ==
    ASSUME IInv, DataInv, TakeData
    PROVE  DataInv'
  <1> DEFINE p == Payload(taken + 1)
             g == Grown
  <1>1. /\ Takes /\ stage = "reading" /\ taken' = taken + 1 /\ stream' = stream
        /\ taken \in Nat /\ leftover = <<>>
        /\ IF opcode = "none" THEN Next1.op \in Start ELSE Next1.op = "continuation"
    BY StreamFacts DEF TakeData, Takes, client, IInv, TypeOK, DataInv
  <1>2. /\ g \in Data /\ Sorted(g) /\ ToSet(g) = ToSet(message) \cup ToSet(p)
        /\ \A i \in DOMAIN got : AllBefore(got[i], g)
        /\ \A u \in ToSet(p) : u \in Nat \X Nat /\ u[1] = taken + 1
        /\ IsData(taken + 1)
    BY <1>1, GrownInOrder
  <1>3. Sent' = Sent \cup ToSet(p) /\ \A u \in Sent : u \in Nat \X Nat /\ u[1] \in 1..taken
    BY <1>1, <1>2, SentGrows
  <1>4. /\ Kept = Given \cup ToSet(message) /\ ToSet(<<>>) = {}
    BY <1>1 DEF Kept, ToSet
  <1>5. \A u \in ToSet(g) : u[1] \in 1..(taken + 1)
    BY <1>1, <1>2, <1>3, <1>4 DEF DataInv
  <1>6. \A u \in Kept : u[1] \in 1..taken
    BY <1>3 DEF DataInv
  <1>7. \A u, v : OneMessage(u, v)' <=> OneMessage(u, v)
    BY <1>1 DEF OneMessage, EndsMessage, IsData
  <1>8. /\ stage' = "idle" \/ leftover' = <<>>
        /\ opcode' = "none" => message' = <<>>
        /\ closed => closed'
        /\ stage' \in {"idle", "reading"}
    <2>1. closed => closed'
      BY DEF TakeData, ProtocolError
    <2>2. stage' = "idle" \/ (leftover' = <<>> /\ stage' = "reading")
      BY <1>1 DEF TakeData, ProtocolError, Answer
    <2>3. opcode' = "none" => message' = <<>>
      BY <1>1 DEF TakeData, Opcode, Start
    <2> QED
      BY <2>1, <2>2, <2>3
  <1> HIDE DEF p, g
  \* A message of which a unit is kept has not ended before this frame.
  <1>9. ASSUME Assembled, NEW u \in ToSet(g), NEW j \in u[1]..taken
        PROVE  ~EndsMessage(j)
    <2>1. CASE u \in ToSet(message)
      BY <1>9, <2>1 DEF Assembled, Whole
    <2>2. CASE u \in ToSet(p)
      BY <1>1, <1>2, <1>9, <2>2
    <2> QED
      BY <1>2, <2>1, <2>2
  <1>10. CASE /\ ~(Len(g) <= MaxMessage /\ Next1.fin)
              /\ UNCHANGED <<leftover, got>> /\ message' = g
    <2>1. Ordered'
      BY <1>1, <1>2, <1>10 DEF DataInv, Ordered, AllBefore, ToSet
    <2>2. Kept' = Kept \cup ToSet(p)
      BY <1>1, <1>2, <1>4, <1>10 DEF Kept, Given
    <2>3. ASSUME ~closed'
          PROVE  Assembled'
      <3>1. Assembled
        BY <1>8, <2>3 DEF DataInv
      <3>2. ~EndsMessage(taken + 1)
        <4>1. Len(g) \in Nat /\ MaxMessage \in Nat
          BY <1>2, SizesAssumption, LenProperties DEF Data
        <4>2. ~(Len(g) > MaxMessage)
          BY <1>10, <2>3 DEF TakeData, ProtocolError, g
        <4>3. ~Next1.fin
          BY <1>10, <4>1, <4>2
        <4> QED
          BY <4>3 DEF EndsMessage, Next1
      <3>3. \A u \in Kept : Whole(u[1]) => Whole(u[1])'
        BY <1>1, <1>6, WholeGrows
      <3>4. ASSUME NEW i \in DOMAIN got
            PROVE  OfOne(got[i])'
        <4>1. ToSet(got[i]) \subseteq Kept
          BY DEF Kept, Given
        <4> QED
          BY <1>7, <1>10, <3>1, <3>3, <4>1 DEF Assembled, OfOne
      <3>5. OfOne(leftover)'
        BY <1>1, <1>4, <1>10 DEF OfOne
      <3>6. ASSUME NEW u \in ToSet(g)
            PROVE  ~Whole(u[1])'
        <4>1. ~Whole(u[1])
          BY <3>1, <1>9 DEF Whole
        <4> QED
          BY <1>1, <1>5, <3>2, <4>1, WholeGrows
      <3> QED
        BY <1>3, <1>10, <2>2, <3>1, <3>4, <3>5, <3>6 DEF Assembled
    <2> QED
      BY <1>3, <1>8, <2>1, <2>2, <2>3 DEF DataInv
  <1>11. CASE message' = <<>> /\ Answer(g, want) /\ Len(g) <= MaxMessage /\ Next1.fin
    <2>1. want \in Nat /\ got \in Seq(Data) /\ Sorted(message')
      BY <1>11 DEF IInv, TypeOK, Sorted
    <2>2. /\ AllBefore(g, message') /\ \A i \in DOMAIN got : AllBefore(got[i], message')
      BY <1>4, <1>11 DEF AllBefore
    <2>3. /\ Ordered' /\ Kept' = Given \cup ToSet(g) \cup ToSet(message')
          /\ ToSet(leftover') \subseteq ToSet(g)
          /\ \A i \in DOMAIN got' : \/ i \in DOMAIN got /\ got'[i] = got[i]
                                    \/ ToSet(got'[i]) \subseteq ToSet(g)
      BY <1>2, <1>11, <2>1, <2>2, AnswerKeeps DEF DataInv, Ordered
    <2>4. Kept' = Kept \cup ToSet(p)
      BY <1>2, <1>4, <1>11, <2>3
    <2>5. ASSUME ~closed'
          PROVE  Assembled'
      <3>1. Assembled
        BY <1>8, <2>5 DEF DataInv
      <3>2. EndsMessage(taken + 1)
        BY <1>2, <1>11 DEF EndsMessage, Next1
      <3>3. \A u \in ToSet(g) : Whole(u[1])'
        BY <1>1, <1>5, <3>2, WholeGrows
      <3>4. ASSUME NEW u \in ToSet(g), NEW v \in ToSet(g)
            PROVE  OneMessage(u, v)
        <4>1. v[1] - 1 <= taken /\ u[1] \in Nat /\ v[1] \in Nat
          BY <1>1, <1>5
        <4>2. \A j \in u[1]..(v[1] - 1) : j \in u[1]..taken
          BY <1>1, <4>1
        <4> QED
          BY <1>9, <3>1, <4>2 DEF OneMessage
      <3>5. \A u \in Kept : Whole(u[1]) => Whole(u[1])'
        BY <1>1, <1>6, WholeGrows
      <3>6. ASSUME NEW i \in DOMAIN got'
            PROVE  OfOne(got[i])'
        <4>1. CASE i \in DOMAIN got /\ got'[i] = got[i]
          <5>1. ToSet(got[i]) \subseteq Kept
            BY <4>1 DEF Kept, Given
          <5> QED
            BY <1>7, <3>1, <3>5, <4>1, <5>1 DEF Assembled, OfOne
        <4>2. CASE ToSet(got'[i]) \subseteq ToSet(g)
          BY <1>7, <3>3, <3>4, <4>2 DEF OfOne
        <4> QED
          BY <2>3, <4>1, <4>2
      <3>7. OfOne(leftover)'
        BY <1>7, <2>3, <3>3, <3>4 DEF OfOne
      <3> QED
        BY <1>3, <1>4, <1>11, <2>4, <3>1, <3>6, <3>7 DEF Assembled
    <2> QED
      BY <1>3, <1>8, <2>3, <2>4, <2>5 DEF DataInv
  <1>12. CASE message' = <<>> /\ UNCHANGED <<leftover, got>> /\ closed'
    <2>1. Ordered'
      BY <1>4, <1>12 DEF DataInv, Ordered, AllBefore, Sorted
    <2>2. Kept' \subseteq Kept
      BY <1>4, <1>12 DEF Kept, Given
    <2> QED
      BY <1>3, <1>8, <1>12, <2>1, <2>2 DEF DataInv
  <1> QED
    BY <1>10, <1>11, <1>12 DEF TakeData, ProtocolError, g

LEMMA DataStep ==
    ASSUME IInv, DataInv, [Next]_vars
    PROVE  DataInv'
  <1>1. CASE Reader
    <2>1. CASE HeaderRaises \/ NeedsMore \/ Wake
      BY <2>1, DataKept DEF HeaderRaises, NeedsMore, Wake, client, sock, DataInv
    <2>2. CASE TakeClose \/ TakeMisplaced
      <3>1. ProtocolError /\ Takes /\ stage = "reading" /\ UNCHANGED <<opcode, message>>
        BY <2>2 DEF TakeClose, TakeMisplaced, ProtocolError, Takes
      <3> QED
        BY <3>1, DataPassed DEF ProtocolError, Takes, client
    <2>3. CASE TakePingPong
      <3>1. ~IsData(taken + 1)
        BY <2>3 DEF TakePingPong, IsData, Next1, Control
      <3>2. /\ Takes /\ stage = "reading" /\ UNCHANGED <<opcode, message, leftover, got>>
            /\ closed' \/ closed' = closed
        BY <2>3 DEF TakePingPong, Takes, ProtocolError
      <3> QED
        BY <3>1, <3>2, DataPassed DEF Takes, client
    <2> QED
      BY <1>1, <2>1, <2>2, <2>3, DataTakenStep DEF Reader
  <1>2. CASE Application
    <2>1. CASE AppWrites
      BY <2>1, DataKept DEF AppWrites, client
    <2>2. CASE AppCloses
      BY <2>2, DataKept DEF AppCloses, client
    <2>3. CASE Cancel
      BY <2>3, DataKept DEF Cancel, client
    <2> QED
      BY <1>2, <2>1, <2>2, <2>3, ReadStep DEF Application
  <1>3. CASE Loop
    BY <1>3, DataKept DEF Loop, ConnectionLost, BufferDrains, ServerCloses, DataReceived, client
  <1>4. CASE UNCHANGED vars
    BY <1>4, DataKept DEF vars, client
  <1> QED
    BY <1>1, <1>2, <1>3, <1>4 DEF Next

LEMMA DataInit == Init => DataInv /\ PongsAnswerPings
  <1> SUFFICES ASSUME Init PROVE DataInv /\ PongsAnswerPings
    OBVIOUS
  <1>1. /\ got = <<>> /\ leftover = <<>> /\ message = <<>> /\ wire = <<>> /\ taken = 0
        /\ DOMAIN <<>> = {} /\ ToSet(<<>>) = {} /\ 1..0 = {}
    BY DEF Init, ToSet
  <1>2. Kept = {} /\ Sent = {} /\ Ordered /\ Assembled
    BY <1>1 DEF Kept, Given, Sent, Ordered, Assembled, OfOne, AllBefore, Sorted
  <1>3. PongsAnswerPings
    BY <1>1 DEF PongsAnswerPings, Pongs
  <1> QED
    BY <1>1, <1>2, <1>3 DEF DataInv

\* The pieces in their order: what was returned, what is left over, what is assembled.
LEMMA PiecesAre ==
    ASSUME IInv
    PROVE  /\ Len(got) \in Nat /\ DOMAIN got = 1..Len(got)
           /\ DOMAIN Pieces = 1..(Len(got) + 2)
           /\ \A i \in 1..Len(got) : Pieces[i] = got[i]
           /\ Pieces[Len(got) + 1] = leftover /\ Pieces[Len(got) + 2] = message
  <1> DEFINE s == <<leftover, message>>
             t == got \o s
  <1>1. got \in Seq(Data) /\ s \in Seq(Data) /\ Len(s) = 2 /\ s[1] = leftover /\ s[2] = message
    BY DEF IInv, TypeOK
  <1> HIDE DEF s
  <1>2. /\ t \in Seq(Data) /\ Len(t) = Len(got) + 2
        /\ \A i \in 1..(Len(got) + 2) : t[i] = IF i <= Len(got) THEN got[i] ELSE s[i - Len(got)]
    <2>1. /\ t \in Seq(Data) /\ Len(t) = Len(got) + Len(s)
          /\ \A i \in 1..(Len(got) + Len(s)) :
                 t[i] = IF i <= Len(got) THEN got[i] ELSE s[i - Len(got)]
      BY <1>1, ConcatProperties
    <2> QED
      BY <1>1, <2>1
  <1>3. Pieces = t
    BY DEF Pieces, s
  <1>4. Len(got) \in Nat /\ DOMAIN got = 1..Len(got) /\ DOMAIN t = 1..Len(t)
    BY <1>1, <1>2, LenProperties
  <1> HIDE DEF t
  <1>5. t[Len(got) + 1] = leftover
    <2>1. /\ Len(got) + 1 \in 1..(Len(got) + 2) /\ ~(Len(got) + 1 <= Len(got))
          /\ Len(got) + 1 - Len(got) = 1
      BY <1>4
    <2> QED
      BY <1>1, <1>2, <2>1
  <1>6. t[Len(got) + 2] = message
    <2>1. /\ Len(got) + 2 \in 1..(Len(got) + 2) /\ ~(Len(got) + 2 <= Len(got))
          /\ Len(got) + 2 - Len(got) = 2
      BY <1>4
    <2> QED
      BY <1>1, <1>2, <2>1
  <1> QED
    BY <1>2, <1>3, <1>4, <1>5, <1>6

LEMMA InvDelivers ==
    ASSUME IInv, DataInv
    PROVE  DeliversMessages
  <1> DEFINE n == Len(got)
  <1>1. /\ n \in Nat /\ DOMAIN got = 1..n /\ DOMAIN Pieces = 1..(n + 2)
        /\ \A i \in 1..n : Pieces[i] = got[i]
        /\ Pieces[n + 1] = leftover /\ Pieces[n + 2] = message
    BY PiecesAre
  <1> HIDE DEF n
  <1>2. DOMAIN Pieces = DOMAIN got \cup {n + 1, n + 2} /\ 1..(n + 1) = DOMAIN got \cup {n + 1}
    BY <1>1
  <1>3. \A i \in DOMAIN Pieces : Sorted(Pieces[i])
    BY <1>1, <1>2 DEF DataInv, Ordered
  <1>4. ASSUME NEW i \in DOMAIN Pieces, NEW j \in DOMAIN Pieces, i < j
        PROVE  AllBefore(Pieces[i], Pieces[j])
    <2>1. CASE i \in DOMAIN got /\ j \in DOMAIN got
      BY <1>1, <1>4, <2>1 DEF DataInv, Ordered
    <2>2. CASE i \in DOMAIN got /\ j \in {n + 1, n + 2}
      BY <1>1, <2>2 DEF DataInv, Ordered
    <2>3. CASE i \in {n + 1, n + 2}
      <3>1. i = n + 1 /\ j = n + 2
        BY <1>1, <1>4, <2>3
      <3> QED
        BY <1>1, <3>1 DEF DataInv, Ordered
    <2> QED
      BY <1>2, <2>1, <2>2, <2>3
  <1>5. UNION {ToSet(Pieces[i]) : i \in DOMAIN Pieces} = Kept
    BY <1>1, <1>2 DEF Kept, Given
  <1>6. ASSUME ~closed
        PROVE  /\ Kept = Sent
               /\ \A i \in 1..(n + 1) : OfOne(Pieces[i])
               /\ \A u \in ToSet(message) : ~Whole(u[1])
    BY <1>1, <1>2, <1>6 DEF DataInv, Assembled
  <1> QED
    BY <1>3, <1>4, <1>5, <1>6 DEF DeliversMessages, OfOne, n

\* While its connection is open a client gets one pong for each ping that was read,
\* in the order of its pings, also for one in the middle of a message.
THEOREM AnswersPings == Spec => []PongsAnswerPings
  <1>1. Init => PongsAnswerPings
    BY DataInit
  <1>2. IInv /\ PongsAnswerPings /\ [Next]_vars => PongsAnswerPings'
    BY PongStep
  <1> QED
    BY <1>1, <1>2, Invariant, PTL DEF Spec

\* However a client cuts its messages into frames and segments and the application
\* reads them, nothing is made up, reordered or read twice, and until the connection
\* is closed nothing is lost and no two messages run into each other.
THEOREM DeliversInOrder == Spec => []DeliversMessages
  <1>1. Init => DataInv
    BY DataInit
  <1>2. IInv /\ DataInv /\ [Next]_vars => DataInv'
    BY DataStep
  <1>3. IInv /\ DataInv => DeliversMessages
    BY InvDelivers
  <1> QED
    BY <1>1, <1>2, <1>3, Invariant, PTL DEF Spec

-----------------------------------------------------------------------------
(* Memory and time a client costs.                                         *)

\* Neither what is read nor what is kept is longer than what there was.
LEMMA AnswerIsShort ==
    ASSUME NEW data \in Data, NEW n \in Nat, got \in Seq(Data), Answer(data, n)
    PROVE  /\ Len(leftover') <= Len(data)
           /\ \A i \in DOMAIN got' : \/ i \in DOMAIN got /\ got'[i] = got[i]
                                     \/ Len(got'[i]) <= Len(data)
  <1> DEFINE k == IF n < Len(data) THEN n ELSE Len(data)
             x == SubSeq(data, 1, k)
             m == k + 1
             y == SubSeq(data, m, Len(data))
  <1>1. Len(data) \in Nat /\ k \in 0..Len(data)
    BY LenProperties DEF Data
  <1>2. \A i \in 1..Len(data) : data[i] \in Nat \X Nat
    BY ElementOfSeq DEF Data
  <1>3. x \in Data /\ Len(x) = k
    <2>1. \A i \in 1..k : data[i] \in Nat \X Nat
      BY <1>1, <1>2
    <2> QED
      BY <1>1, <2>1, SubSeqProperties DEF Data
  <1>4. Len(y) <= Len(data)
    <2>1. m \in 1..(Len(data) + 1)
      BY <1>1
    <2> HIDE DEF m
    <2>2. \A i \in m..Len(data) : data[i] \in Nat \X Nat
      BY <1>1, <1>2, <2>1
    <2>3. Len(y) = IF m <= Len(data) THEN Len(data) - m + 1 ELSE 0
      BY <1>1, <2>1, <2>2, SubSeqProperties
    <2> HIDE DEF y
    <2> QED
      BY <1>1, <2>1, <2>3
  <1>5. got' = Append(got, x) /\ leftover' = y
    BY DEF Answer
  <1> HIDE DEF k, x, m, y
  <1>6. /\ got' \in Seq(Data) /\ Len(got') = Len(got) + 1 /\ got'[Len(got) + 1] = x
        /\ \A i \in 1..Len(got) : got'[i] = got[i]
    BY <1>3, <1>5, AppendProperties
  <1>7. DOMAIN got = 1..Len(got) /\ DOMAIN got' = 1..Len(got') /\ Len(got) \in Nat
    BY <1>6, LenProperties
  <1>8. \A i \in DOMAIN got' : i \in DOMAIN got \/ i = Len(got) + 1
    BY <1>6, <1>7
  <1> QED
    BY <1>1, <1>3, <1>4, <1>5, <1>6, <1>7, <1>8

LEMMA AnswerIsBounded ==
    ASSUME IInv, MessagesAreBounded, NEW data \in Data, NEW n \in Nat, Answer(data, n),
           Len(data) <= MaxMessage, ~closed' => Len(message') <= MaxMessage
    PROVE  MessagesAreBounded'
  <1>1. /\ Len(leftover') <= Len(data)
        /\ \A i \in DOMAIN got' : \/ i \in DOMAIN got /\ got'[i] = got[i]
                                  \/ Len(got'[i]) <= Len(data)
    BY AnswerIsShort DEF IInv, TypeOK
  <1>2. /\ got' \in Seq(Data) /\ leftover' \in Data
    BY AnswerTyped DEF IInv, TypeOK
  <1>3. Len(leftover') \in Nat /\ \A i \in DOMAIN got' : Len(got'[i]) \in Nat
    BY <1>2, LenProperties, ElementOfSeq DEF Data
  <1>4. Len(data) \in Nat /\ MaxMessage \in Nat
    BY LenProperties, SizesAssumption DEF Data
  <1> QED
    BY <1>1, <1>3, <1>4 DEF MessagesAreBounded

LEMMA BoundedStep ==
    ASSUME IInv, MessagesAreBounded, [Next]_vars
    PROVE  MessagesAreBounded'
  <1>1. ASSUME UNCHANGED <<message, leftover, got>>, closed => closed'
        PROVE  MessagesAreBounded'
    BY <1>1 DEF MessagesAreBounded
  <1>2. ASSUME NEW n \in Sizes, Read(n)
        PROVE  MessagesAreBounded'
    <2>1. CASE leftover = <<>>
      BY <1>1, <1>2, <2>1 DEF Read
    <2>2. CASE leftover # <<>>
      <3>1. /\ Answer(leftover, n) /\ n \in Nat /\ leftover \in Data
            /\ UNCHANGED <<message, closed>>
        BY <1>2, <2>2, SizesAssumption DEF Read, IInv, TypeOK
      <3> QED
        BY <3>1, AnswerIsBounded DEF MessagesAreBounded
    <2> QED
      BY <2>1, <2>2
  <1>3. CASE Application
    BY <1>1, <1>2, <1>3 DEF Application, AppWrites, AppCloses, Cancel
  <1>4. CASE TakeData
    <2>1. Takes /\ taken + 1 \in 1..Len(stream) /\ want \in Nat
      BY <1>4, FramesInRange DEF TakeData, Takes, IInv, TypeOK
    <2>2. Grown \in Data
      BY <2>1, PayloadIsData, ConcatProperties DEF Grown, IInv, TypeOK, Data
    <2>3. Len(Grown) \in Nat /\ MaxMessage \in Nat
      BY <2>2, LenProperties, SizesAssumption DEF Data
    <2>4. CASE Len(Grown) <= MaxMessage /\ Next1.fin /\ Decodes
      <3>1. Answer(Grown, want) /\ message' = <<>>
        BY <1>4, <2>4 DEF TakeData
      <3>2. Len(<<>>) <= MaxMessage
        BY SizesAssumption
      <3> QED
        BY <2>1, <2>2, <2>4, <3>1, <3>2, AnswerIsBounded
    <2>5. CASE ProtocolError
      BY <2>5 DEF ProtocolError, MessagesAreBounded
    <2>6. CASE Len(Grown) <= MaxMessage /\ ~Next1.fin
      BY <1>4, <2>3, <2>6 DEF TakeData, MessagesAreBounded
    <2> QED
      BY <1>4, <2>3, <2>4, <2>5, <2>6 DEF TakeData
  <1>5. CASE Reader
    <2>1. CASE HeaderRaises \/ NeedsMore \/ Wake
      BY <1>1, <2>1 DEF HeaderRaises, NeedsMore, Wake
    <2>2. CASE TakeClose \/ TakePingPong \/ TakeMisplaced
      BY <1>1, <2>2 DEF TakeClose, TakePingPong, TakeMisplaced, ProtocolError
    <2> QED
      BY <1>4, <1>5, <2>1, <2>2 DEF Reader
  <1>6. CASE Loop
    BY <1>1, <1>6 DEF Loop, ConnectionLost, BufferDrains, ServerCloses, DataReceived
  <1>7. CASE UNCHANGED vars
    BY <1>1, <1>7 DEF vars
  <1> QED
    BY <1>3, <1>5, <1>6, <1>7 DEF Next

\* However many fragments a client sends and however long it makes them, a WebSocket
\* that is not closed holds no more of a message than MAX_MESSAGE_SIZE, and read never
\* returns more.
THEOREM MessagesBounded == Spec => []MessagesAreBounded
  <1>1. Init => MessagesAreBounded
    BY SizesAssumption DEF Init, MessagesAreBounded
  <1> QED
    BY <1>1, BoundedStep, Invariant, PTL DEF Spec

\* A segment goes from the feed, or a frame from the buffer.
LEMMA ReaderStep ==
    ASSUME IInv, IInv', Reader
    PROVE  Effort' < Effort
  <1> DEFINE f == Len(feed)
             r == Len(stream) - taken
  <1>1. /\ f \in Nat /\ r \in Nat /\ f' \in Nat /\ r' \in Nat
        /\ Len(stream) \in Nat /\ taken \in Nat /\ taken' \in Nat
    <2>1. feed \in Seq(1..(2 * Len(stream))) /\ taken \in 0..Len(stream) /\ Len(stream) \in Nat
      BY StreamFacts DEF IInv, TypeOK
    <2>2. stream' = stream
      BY DEF Reader, HeaderRaises, NeedsMore, Wake, TakeClose, TakePingPong, TakeMisplaced,
             TakeData, Takes, client
    <2>3. feed' \in Seq(1..(2 * Len(stream))) /\ taken' \in 0..Len(stream)
      BY <2>2 DEF IInv, TypeOK
    <2> QED
      BY <2>1, <2>2, <2>3, LenProperties
  <1>2. CASE Takes
    <2>1. stage = "reading" /\ taken' = taken + 1 /\ UNCHANGED <<stream, feed>>
      BY <1>2 DEF Takes, client
    <2>2. f' = f /\ r' = r - 1
      BY <1>1, <2>1
    <2> HIDE DEF f, r
    <2>3. Effort = 2 * (f + r) + 1 /\ Effort' \in {2 * (f' + r') + 0, 2 * (f' + r') + 1}
      BY <2>1 DEF Effort, HoldsLoop, f, r
    <2> QED
      BY <1>1, <2>2, <2>3
  <1>3. CASE UNCHANGED <<stream, feed, taken>> /\ stage = "reading" /\ stage' # "reading"
    <2>1. f' = f /\ r' = r
      BY <1>3
    <2> HIDE DEF f, r
    <2>2. Effort = 2 * (f + r) + 1 /\ Effort' = 2 * (f' + r') + 0
      BY <1>3 DEF Effort, HoldsLoop, f, r
    <2> QED
      BY <1>1, <2>1, <2>2
  <1>4. CASE feed # <<>> /\ feed' = Tail(feed) /\ UNCHANGED <<stream, taken>>
    <2>1. f' = f - 1 /\ r' = r
      BY <1>4, HeadTailProperties DEF IInv, TypeOK
    <2> HIDE DEF f, r
    <2>2. /\ Effort \in {2 * (f + r) + 0, 2 * (f + r) + 1}
          /\ Effort' \in {2 * (f' + r') + 0, 2 * (f' + r') + 1}
      BY DEF Effort, HoldsLoop, f, r
    <2> QED
      BY <1>1, <2>1, <2>2
  <1>5. CASE HeaderRaises
    BY <1>3, <1>5 DEF HeaderRaises, client
  <1>6. CASE NeedsMore
    BY <1>3, <1>4, <1>6 DEF NeedsMore
  <1>7. CASE Wake
    BY <1>4, <1>7 DEF Wake
  <1> QED
    BY <1>2, <1>5, <1>6, <1>7 DEF Reader, TakeClose, TakePingPong, TakeMisplaced, TakeData

\* Whatever a client sends, a read keeps the event loop to itself only as long as there
\* are segments and frames to go through, each of them once: it then returns, raises or
\* waits.
THEOREM ReaderYields == Spec => [](Effort \in Nat) /\ ReaderGetsOn
  <1>1. IInv => Effort \in Nat
    <2> SUFFICES ASSUME IInv PROVE Effort \in Nat
      OBVIOUS
    <2>1. Len(feed) \in Nat /\ Len(stream) - taken \in Nat
      BY StreamFacts, LenProperties DEF IInv, TypeOK
    <2> QED
      BY <2>1 DEF Effort
  <1>2. IInv /\ IInv' => [Reader => Effort' < Effort]_vars
    BY ReaderStep
  <1> QED
    BY <1>1, <1>2, Invariant, PTL DEF Spec, ReaderGetsOn

=============================================================================

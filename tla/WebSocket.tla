------------------------------ MODULE WebSocket ------------------------------
(***************************************************************************)
(* The WebSocket object of src/src/momiji/websocket.py from the 101 on: an *)
(* application reads messages and writes frames, a client sends frames cut *)
(* into segments of any size, data_received of protocol.py queues them.    *)
(*                                                                         *)
(* A frame is seen as two halves, its header, from which next_frame finds  *)
(* most faults, and its payload; a payload is a sequence of units, each    *)
(* known by its frame and place.  The reading task suspends only on an     *)
(* empty feed, so HoldsLoop keeps other tasks out while it parses.         *)
(***************************************************************************)
EXTENDS Naturals, SequencesExt

CONSTANTS
    Streams,    \* what a client may send: sequences of Frame
    MaxMessage, \* MAX_MESSAGE_SIZE, in units
    Sizes,      \* the sizes read is called with
    MaxWrites   \* bound: frames the application writes

Control == {"close", "ping", "pong"}
Start   == {"text", "binary"}

\* header: "bad" has reserved bits, no mask or a length next_frame refuses;
\* utf8: the payload decodes.
Frame == [op : Control \cup Start \cup {"continuation", "unknown"}, fin : BOOLEAN,
          size : Nat, header : {"good", "bad"}, utf8 : BOOLEAN]

ASSUME StreamsAssumption == \A s \in Streams : s \in Seq(Frame)
ASSUME SizesAssumption == Sizes \subseteq Nat /\ MaxMessage \in Nat /\ MaxWrites \in Nat

VARIABLES
    stream,     \* what the client sends
    arrived,    \* halves handed to data_received
    feed,       \* ws_queue: how far each segment in it reaches
    held,       \* how far the bytes reach that recv_buffer has seen
    taken,      \* frames deleted from its front
    opcode,     \* fragment_opcode
    message,    \* fragment_buffer
    closed,     \* self.closed
    closeSent,  \* self.close_sent
    leftover,   \* self.leftover (None: empty)
    stage,      \* the application's read: "idle", "reading" or "waiting"
    want,       \* the size it was called with
    transport,  \* "open", "closing" or "lost"
    buffered,   \* the transport's write buffer is not empty
    wire,       \* history: frames handed to an accepting transport
    got         \* history: what read returned, but for the end
client == <<stream, arrived, feed>>
sock   == <<transport, buffered, wire>>
vars   == <<client, held, taken, opcode, message, closed, closeSent, leftover, stage,
            want, sock, got>>

HoldsLoop == stage = "reading"

Init ==
    /\ stream \in Streams
    /\ arrived = 0 /\ feed = <<>> /\ held = 0 /\ taken = 0
    /\ opcode = "none" /\ message = <<>> /\ closed = FALSE /\ closeSent = FALSE
    /\ leftover = <<>> /\ stage = "idle" /\ want = 0
    /\ transport = "open" /\ buffered \in BOOLEAN /\ wire = <<>> /\ got = <<>>

-----------------------------------------------------------------------------
(* The transport, as in Protocol.tla.  Nothing here waits for resume_event. *)

\* transport.write, then transport.close() when last.
Put(frame, last) ==
    /\ IF transport = "open" \/ (transport = "closing" /\ buffered)
       THEN wire' = Append(wire, frame) /\ buffered' \in {buffered, TRUE}
       ELSE UNCHANGED <<wire, buffered>>
    /\ transport' = IF last /\ transport = "open" THEN "closing" ELSE transport

\* data_received of an upgraded connection: a segment up to the half p.
DataReceived(p) ==
    /\ transport = "open" /\ p > arrived
    /\ arrived' = p
    /\ feed' = Append(feed, p)
    /\ UNCHANGED <<stream, held, taken, opcode, message, closed, closeSent, leftover,
                   stage, want, sock, got>>

\* The client reads what was left.
BufferDrains ==
    /\ buffered /\ transport # "lost"
    /\ buffered' = FALSE
    /\ UNCHANGED <<client, held, taken, opcode, message, closed, closeSent, leftover,
                   stage, want, transport, wire, got>>

\* connection_lost, after a close or a reset; it says nothing to the WebSocket.
ConnectionLost ==
    /\ transport # "lost"
    /\ transport' = "lost" /\ buffered' = FALSE
    /\ UNCHANGED <<client, held, taken, opcode, message, closed, closeSent, leftover,
                   stage, want, wire, got>>

\* Drain or a request timer closes the transport, past the WebSocket.
ServerCloses ==
    /\ transport = "open" /\ transport' = "closing"
    /\ UNCHANGED <<client, held, taken, opcode, message, closed, closeSent, leftover,
                   stage, want, buffered, wire, got>>

-----------------------------------------------------------------------------
(* The application.                                                        *)

\* Mutant: the transport is left to the client.
CloseWaitsForPeer ==
    IF closeSent THEN UNCHANGED <<closeSent, sock>>
    ELSE closeSent' = TRUE /\ Put([op |-> "close", frame |-> 0], FALSE)

\* WebSocket.close: once, and the transport with it.
Close ==
    IF closeSent THEN UNCHANGED <<closeSent, sock>>
    ELSE closeSent' = TRUE /\ Put([op |-> "close", frame |-> 0], TRUE)

\* write, ping: whatever the state of the connection.
AppWrites ==
    /\ Len(SelectSeq(wire, LAMBDA f : f.op = "data")) < MaxWrites
    /\ Put([op |-> "data", frame |-> 0], FALSE)
    /\ UNCHANGED <<client, held, taken, opcode, message, closed, closeSent, leftover,
                   stage, want, got>>

AppCloses ==
    /\ Close
    /\ UNCHANGED <<client, held, taken, opcode, message, closed, leftover, stage, want,
                   got>>

\* Mutant: what does not fit is dropped.
AnswerDropsRest(data, n) ==
    /\ got' = Append(got, SubSeq(data, 1, IF n < Len(data) THEN n ELSE Len(data)))
    /\ leftover' = <<>>
    /\ stage' = "idle"

\* read returns n units of a message and keeps the rest.
Answer(data, n) ==
    LET k == IF n < Len(data) THEN n ELSE Len(data)
    IN  /\ got' = Append(got, SubSeq(data, 1, k))
        /\ leftover' = SubSeq(data, k + 1, Len(data))
        /\ stage' = "idle"

\* read(n): the rest of the last message, or the next one.
Read(n) ==
    /\ stage = "idle"
    /\ IF leftover # <<>>
       THEN Answer(leftover, n) /\ UNCHANGED want
       ELSE stage' = "reading" /\ want' = n /\ UNCHANGED <<got, leftover>>
    /\ UNCHANGED <<client, held, taken, opcode, message, closed, closeSent, sock>>

\* A read is given up, by a timeout of the application.
Cancel ==
    /\ stage = "waiting" /\ stage' = "idle"
    /\ UNCHANGED <<client, held, taken, opcode, message, closed, closeSent, leftover,
                   want, sock, got>>

-----------------------------------------------------------------------------
(* read_message.                                                           *)

Begun    == held > 2 * taken
Next1    == stream[taken + 1]

\* Mutant: a frame is taken once its header is there.
CompleteWithHeader == Begun

Complete == held >= 2 * (taken + 1)

Payload(i) == [k \in 1..stream[i].size |-> <<i, k>>]

\* next_frame raises: nothing is deleted, closed or sent.
HeaderRaises ==
    /\ stage = "reading" /\ Begun /\ Next1.header = "bad"
    /\ stage' = "idle"
    /\ UNCHANGED <<client, held, taken, opcode, message, closed, closeSent, leftover,
                   want, sock, got>>

\* Mutant: the feed is asked although a frame is there.
LacksAlways == Begun => Next1.header = "good"

\* next_frame finds no whole frame.
Lacks == ~Complete /\ (Begun => Next1.header = "good")

\* The end, the next segment, or a wait for it.
NeedsMore ==
    /\ stage = "reading" /\ Lacks
    /\ IF closed THEN stage' = "idle" /\ UNCHANGED <<held, feed>>
       ELSE IF feed # <<>>
       THEN held' = Head(feed) /\ feed' = Tail(feed) /\ UNCHANGED stage
       ELSE stage' = "waiting" /\ UNCHANGED <<held, feed>>
    /\ UNCHANGED <<stream, arrived, taken, opcode, message, closed, closeSent, leftover,
                   want, sock, got>>

\* The feed has a segment for the reader that waits.
Wake ==
    /\ stage = "waiting" /\ feed # <<>>
    /\ held' = Head(feed) /\ feed' = Tail(feed) /\ stage' = "reading"
    /\ UNCHANGED <<stream, arrived, taken, opcode, message, closed, closeSent, leftover,
                   want, sock, got>>

\* next_frame returns a frame.
Takes == /\ stage = "reading" /\ Complete /\ Next1.header = "good"
         /\ taken' = taken + 1
         /\ UNCHANGED <<client, held, want>>

\* protocol_error: read raises.
ProtocolError == Close /\ closed' = TRUE /\ stage' = "idle" /\ UNCHANGED <<leftover, got>>

\* A close frame is answered with one and ends the connection.
TakeClose ==
    /\ Takes /\ Next1.op = "close"
    /\ IF ~Next1.fin \/ Next1.size = 1 THEN ProtocolError
       ELSE Close /\ closed' = TRUE /\ stage' = "idle" /\ UNCHANGED <<leftover, got>>
    /\ UNCHANGED <<opcode, message>>

\* Mutant: no pong while a message is being assembled.
PongsBetweenMessages ==
    IF Next1.op = "ping" /\ opcode = "none" THEN Put([op |-> "pong", frame |-> taken + 1], FALSE)
    ELSE UNCHANGED sock

\* A ping is answered with its payload, a pong is passed over.
Pong ==
    IF Next1.op = "ping" THEN Put([op |-> "pong", frame |-> taken + 1], FALSE)
    ELSE UNCHANGED sock

\* Neither ends the message being assembled.
TakePingPong ==
    /\ Takes /\ Next1.op \in {"ping", "pong"}
    /\ IF Next1.fin THEN Pong /\ UNCHANGED <<closed, closeSent, stage, leftover, got>>
       ELSE ProtocolError
    /\ UNCHANGED <<opcode, message>>

\* A data frame out of place, or no frame at all.
TakeMisplaced ==
    /\ Takes
    /\ \/ Next1.op \in Start /\ opcode # "none"
       \/ Next1.op = "continuation" /\ opcode = "none"
       \/ Next1.op = "unknown"
    /\ ProtocolError
    /\ UNCHANGED <<opcode, message>>

\* Mutant: a frame replaces the fragments before it.
LastFragment == Payload(taken + 1)

\* fragment_buffer and fragment_opcode with the frame.
Grown  == IF Next1.op \in Start THEN Payload(taken + 1) ELSE message \o Payload(taken + 1)

Opcode == IF Next1.op \in Start THEN Next1.op ELSE opcode

Decodes == Opcode = "text" => \A k \in DOMAIN Grown : stream[Grown[k][1]].utf8

\* A data frame in place: it makes the message too long, ends it or does not.
TakeData ==
    /\ Takes
    /\ IF opcode = "none" THEN Next1.op \in Start ELSE Next1.op = "continuation"
    /\ IF Len(Grown) <= MaxMessage /\ Next1.fin
       THEN /\ opcode' = "none" /\ message' = <<>>
            /\ IF Decodes THEN Answer(Grown, want) /\ UNCHANGED <<closed, closeSent, sock>>
               ELSE ProtocolError
       ELSE /\ opcode' = Opcode /\ message' = Grown
            /\ IF Len(Grown) > MaxMessage THEN ProtocolError
               ELSE UNCHANGED <<closed, closeSent, stage, leftover, got, sock>>

-----------------------------------------------------------------------------
Reader == \/ HeaderRaises \/ NeedsMore \/ Wake
          \/ TakeClose \/ TakePingPong \/ TakeMisplaced \/ TakeData

Application == AppWrites \/ AppCloses \/ Cancel \/ \E n \in Sizes : Read(n)

Loop == \/ ConnectionLost \/ BufferDrains \/ ServerCloses
        \/ \E p \in 1..(2 * Len(stream)) : DataReceived(p)

Next == Reader \/ (~HoldsLoop /\ (Application \/ Loop))

\* The event loop goes on with a reader that is ready.  Nothing makes a client
\* send or the application read.
Spec == Init /\ [][Next]_vars /\ WF_vars(Reader)

-----------------------------------------------------------------------------
Data == Seq(Nat \X Nat)

TypeOK ==
    /\ arrived \in 0..(2 * Len(stream)) /\ held \in 0..arrived
    /\ taken \in 0..Len(stream) /\ 2 * taken <= held
    /\ feed \in Seq(1..(2 * Len(stream)))
    /\ opcode \in Start \cup {"none"} /\ message \in Data
    /\ closed \in BOOLEAN /\ closeSent \in BOOLEAN
    /\ leftover \in Data /\ want \in Nat
    /\ stage \in {"idle", "reading", "waiting"}
    /\ transport \in {"open", "closing", "lost"} /\ buffered \in BOOLEAN
    /\ wire \in Seq([op : {"data", "pong", "close"}, frame : Nat])
    /\ got \in Seq(Data)

\* The units of a client in the order it sent them.
Before(u, v)    == u[1] < v[1] \/ (u[1] = v[1] /\ u[2] < v[2])
Sorted(s)       == \A k, l \in DOMAIN s : k < l => Before(s[k], s[l])
AllBefore(s, t) == \A u \in ToSet(s), v \in ToSet(t) : Before(u, v)

\* Frames that carry a message, the last of one among them.
IsData(i)      == stream[i].op \notin Control
EndsMessage(i) == IsData(i) /\ stream[i].fin
Sent           == UNION {ToSet(Payload(i)) : i \in {j \in 1..taken : IsData(j)}}

\* The message the frame i is of has come to its end; u and v are of one message.
Whole(i)          == \E j \in i..taken : EndsMessage(j)
OneMessage(u, v)  == \A j \in u[1]..(v[1] - 1) : ~EndsMessage(j)

\* What read returned, what it keeps of the last message and what there is of the next.
Pieces == got \o <<leftover, message>>

\* What read returns is in the order the client sent it, nothing twice, even when it is
\* called on after an error.  Until the connection is closed nothing is missing, whatever
\* is held back, and no piece is of two messages or of one that is not whole: however
\* they were cut into frames and segments, mixed with pings and read in pieces.
DeliversMessages ==
    /\ \A i \in DOMAIN Pieces : Sorted(Pieces[i])
    /\ \A i, j \in DOMAIN Pieces : i < j => AllBefore(Pieces[i], Pieces[j])
    /\ ~closed =>
           /\ UNION {ToSet(Pieces[i]) : i \in DOMAIN Pieces} = Sent
           /\ \A i \in 1..(Len(got) + 1) : \A u, v \in ToSet(Pieces[i]) :
                  Whole(u[1]) /\ OneMessage(u, v)
           /\ \A u \in ToSet(message) : ~Whole(u[1])

\* As long as the connection is open every ping read so far was answered, once
\* and in order, also one that came in the middle of a message.
Pongs == {a \in DOMAIN wire : wire[a].op = "pong"}
PongsAnswerPings ==
    transport = "open" =>
        /\ {wire[a].frame : a \in Pongs} = {i \in 1..taken : stream[i].op = "ping"}
        /\ \A a, b \in Pongs : a < b => wire[a].frame < wire[b].frame

\* A reader waits only for what it does not have: no frame, whole or faulty, lies
\* in the buffer of one that waits.
ReaderWaitsForMore ==
    stage = "waiting" => ~Complete /\ (Begun => Next1.header = "good") /\ ~closed

\* Whoever sends the close frame, it goes out once and takes the transport with
\* it, and a read that ended the connection leaves none open.
CloseEndsConnection ==
    /\ closeSent => transport # "open"
    /\ closed => closeSent
    /\ \A i, j \in DOMAIN wire : wire[i].op = "close" /\ wire[j].op = "close" => i = j

\* What is held for the application and what it gets stays within MAX_MESSAGE_SIZE: a
\* message being assembled until the connection is closed, a message and its rest always.
MessagesAreBounded ==
    /\ ~closed => Len(message) <= MaxMessage
    /\ Len(leftover) <= MaxMessage
    /\ \A i \in DOMAIN got : Len(got[i]) <= MaxMessage

\* What a reader can go through before it needs the event loop: segments and frames.
Effort == 2 * (Len(feed) + (Len(stream) - taken)) + (IF HoldsLoop THEN 1 ELSE 0)

\* The loop of read_message turns only on something new: each turn takes a segment or a
\* frame, or is the last.
ReaderGetsOn == [][Reader => Effort' < Effort]_vars

=============================================================================

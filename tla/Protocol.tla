------------------------------ MODULE Protocol ------------------------------
(***************************************************************************)
(* One client connection of an ORIGIN server: the asyncio.Protocol object  *)
(* of src/src/momiji/protocol.py with its worker task, its two timers, its *)
(* 408 tasks, flow control and the connection tracker's shutting_down flag *)
(* as this connection sees it.                                             *)
(*                                                                         *)
(* The event loop runs one callback or one task step at a time, so every   *)
(* action is the code between two awaits.  Where a task goes on without    *)
(* yielding, HoldsLoop keeps every other action disabled.  Time is         *)
(* abstract: a timer that is armed may fire.                               *)
(***************************************************************************)
EXTENDS Naturals, Sequences

CONSTANTS
    Kinds,           \* what a well-framed request asks for, see KindsAssumption
    Bodies,          \* the shapes of response body, see BodiesAssumption
    IdleTimeout,     \* BOOLEAN: idle_timeout is not None
    RequestTimeout,  \* BOOLEAN: request_timeout is not None
    RateLimit,       \* BOOLEAN: there is a rate limiter, which may refuse
    MaxRequests,     \* bound: parsed requests and parse errors of a connection
    MaxChunks        \* bound: chunks of a file or streamed body

ASSUME KindsAssumption == Kinds \subseteq {"plain", "close", "refused", "upgrade"}
ASSUME BodiesAssumption == Bodies \subseteq {"none", "bytes", "file", "stream"}  \* none: HEAD, 304
ASSUME SwitchesAssumption == /\ IdleTimeout \in BOOLEAN
                             /\ RequestTimeout \in BOOLEAN
                             /\ RateLimit \in BOOLEAN
ASSUME BoundsAssumption == MaxRequests \in Nat /\ MaxChunks \in Nat

VARIABLES
    transport,     \* "open", "closing" (close() was called) or "lost"
    buffered,      \* the transport's write buffer is not empty
    paused,        \* pause_writing() was called, resume_writing() not yet
    eof,           \* the client has shut down its sending side
    tracked,       \* this protocol is in ConnectionTracker.active
    shuttingDown,  \* ConnectionTracker.shutting_down
    received,      \* items the parser has put on the queue so far
    queue,         \* request_queue: requests and parse errors
    inProgress,    \* request_in_progress
    handling,      \* handling_request
    upgraded,      \* self.websocket is not None
    idleTimer,     \* the idle timer is armed
    requestTimer,  \* the request timer is armed
    timeouts,      \* the 408 tasks: not started, blocked on resume_event, woken
    stage,         \* where the worker task is suspended
    woken,         \* the worker, suspended in a write, may go on
    pending,       \* the part it will write then
    current,       \* the item it is handling
    body,          \* the shape of the response's body
    chunks,        \* chunks written of that body
    keepAlive,     \* handle_request's result, computed before its last awaits
    wire,          \* history: every part handed to an accepting transport
    late           \* history: items taken off the queue after the drain began

sock    == <<transport, buffered, paused, wire>>
peer    == <<eof, received, queue, inProgress>>
timers  == <<idleTimer, requestTimer>>
reply   == <<current, body, chunks, keepAlive>>
worker  == <<stage, woken, pending>>
vars    == <<sock, peer, timers, timeouts, worker, reply, tracked, shuttingDown,
             handling, upgraded, late>>

NoItem == [id |-> 0, kind |-> "none"]
Item   == [id : 1..MaxRequests, kind : Kinds \cup {"malformed"}]
Parts  == {"head", "body", "end", "error", "upgrade"}  \* what the worker writes
Stages == {"get", "next", "handler", "stat", "source", "write", "bytes", "settle", "done"}

\* The worker is running: it goes on to its next await before any other callback.
HoldsLoop == stage \in {"next", "bytes", "settle"}

-----------------------------------------------------------------------------
(* The transport, asyncio's or uvloop's, as protocol.py uses it.           *)

\* A closed transport still takes data while its buffer drains, then drops it.
Accepts == transport = "open" \/ (transport = "closing" /\ buffered)

\* transport.write: the kernel takes all of it, or some stays buffered and the
\* high-water mark may make the transport call pause_writing.
TransportWrite(id, part) ==
    IF Accepts
    THEN /\ wire' = Append(wire, [id |-> id, part |-> part])
         /\ buffered' \in {buffered, TRUE}
         /\ paused' \in {paused, paused \/ buffered'}
    ELSE UNCHANGED <<wire, buffered, paused>>

TransportClose == transport' = IF transport = "open" THEN "closing" ELSE transport

-----------------------------------------------------------------------------
Init ==
    \* connection_made with a tracker slot acquired: Server.tla has the refusal.
    /\ transport = "open" /\ buffered = FALSE /\ paused = FALSE /\ wire = <<>>
    /\ eof = FALSE /\ received = 0 /\ queue = <<>> /\ inProgress = FALSE
    /\ idleTimer = IdleTimeout /\ requestTimer = FALSE
    /\ timeouts = [fresh |-> 0, blocked |-> 0, woken |-> 0]
    /\ stage = "get" /\ woken = FALSE /\ pending = "none"
    /\ current = NoItem /\ body = "none" /\ chunks = 0 /\ keepAlive = TRUE
    /\ tracked = TRUE /\ shuttingDown = FALSE /\ handling = FALSE /\ upgraded = FALSE
    /\ late = 0

-----------------------------------------------------------------------------
(* Bytes from the client.  A segment holding several messages is the same  *)
(* as consecutive segments that each complete one and begin the next.      *)

\* The request timer after a segment: an error cancels it, a completed message
\* restarts it for the bytes behind it, a first fragment starts it.
RequestTimerAfter(k, more) ==
    CASE k = "malformed" -> FALSE
      [] k \in Kinds     -> more /\ RequestTimeout
      [] OTHER           -> IF inProgress THEN requestTimer ELSE RequestTimeout

\* data_received: k is what the parser completes ("none": nothing yet), more
\* says that bytes of a further message are left in its buffer.
DataReceived(k, more) ==
    /\ transport = "open" /\ ~eof /\ ~upgraded
    /\ k = "none" => more
    /\ k = "malformed" => more
    /\ idleTimer' = (idleTimer /\ inProgress)
    /\ requestTimer' = RequestTimerAfter(k, more)
    /\ inProgress' = more
    /\ IF k = "none"
       THEN UNCHANGED <<received, queue>>
       ELSE /\ received < MaxRequests
            /\ received' = received + 1
            /\ queue' = Append(queue, [id |-> received + 1, kind |-> k])
    /\ UNCHANGED <<sock, eof, timeouts, worker, reply, tracked, shuttingDown,
                   handling, upgraded, late>>

\* eof_received answers True: the connection stays open, half closed.
EofReceived ==
    /\ transport = "open" /\ ~eof
    /\ eof' = TRUE
    /\ UNCHANGED <<sock, received, queue, inProgress, timers, timeouts, worker, reply,
                   tracked, shuttingDown, handling, upgraded, late>>

-----------------------------------------------------------------------------
(* The worker task.                                                        *)

\* Mutant: no return after an error response or an upgrade.
AfterWriteServesOn(part) ==
    /\ stage' = IF part = "head" /\ body' = "stream" THEN "source" ELSE "settle"
    /\ UNCHANGED <<transport, upgraded>>

\* What the worker does between a write that went through and its next await.
AfterWrite(part) ==
    /\ stage' = CASE part \in {"error", "upgrade"} -> "done"
                  [] part = "head" -> (CASE body' = "none"  -> "settle"
                                         [] body' = "bytes" -> "bytes"
                                         [] OTHER           -> "source")
                  [] part = "body" -> IF body' = "bytes" THEN "settle" ELSE "source"
                  [] OTHER -> "settle"
    /\ upgraded' = (upgraded \/ part = "upgrade")
    /\ IF part = "error" THEN TransportClose ELSE UNCHANGED transport

\* Mutant: what is to be written is not kept while the worker waits.
WriteForgets(part) ==
    IF paused
    THEN /\ stage' = "write"
         /\ UNCHANGED <<sock, woken, pending, upgraded>>
    ELSE /\ TransportWrite(current'.id, part)
         /\ AfterWrite(part)
         /\ UNCHANGED <<woken, pending>>

\* await self.write(part): goes through at once unless writing is paused.
Write(part) ==
    IF paused
    THEN /\ stage' = "write" /\ pending' = part
         /\ UNCHANGED <<sock, woken, upgraded>>
    ELSE /\ TransportWrite(current'.id, part)
         /\ AfterWrite(part)
         /\ UNCHANGED <<woken, pending>>

\* request_queue.get() returns an item.  A parse error, a refusal of the rate
\* limiter and a request handle_request rejects are answered with an error.
Take ==
    /\ stage \in {"get", "next"} /\ queue # <<>>
    /\ current' = Head(queue) /\ queue' = Tail(queue)
    /\ handling' = TRUE
    /\ late' = IF shuttingDown THEN late + 1 ELSE late
    /\ \E limited \in {FALSE, RateLimit} :
         CASE limited \/ current'.kind \in {"malformed", "refused"} -> Write("error")
           [] ~limited /\ current'.kind = "upgrade" -> Write("upgrade")
           [] OTHER -> stage' = "handler" /\ UNCHANGED <<sock, woken, pending, upgraded>>
    /\ UNCHANGED <<eof, received, inProgress, timers, timeouts, body, chunks, keepAlive,
                   tracked, shuttingDown>>

\* Mutant: shutting_down is not consulted.
KeepAliveDespiteShutdown == current.kind # "close"

\* should_keep_alive, read while the response is prepared.
ShouldKeepAlive == ~shuttingDown /\ current.kind # "close"

\* on_request returns a response with body b, which itself may say
\* Connection: close.  finalize_response awaits os.stat for a file only.
HandlerReturns(b, close) ==
    /\ stage = "handler"
    /\ body' = b /\ chunks' = 0
    /\ keepAlive' = (ShouldKeepAlive /\ ~close)
    /\ UNCHANGED current
    /\ IF b = "file"
       THEN stage' = "stat" /\ UNCHANGED <<sock, woken, pending, upgraded>>
       ELSE Write("head")
    /\ UNCHANGED <<peer, timers, timeouts, tracked, shuttingDown, handling, late>>

\* os.stat returned: the head is written, for an unsatisfiable range (416)
\* without a body.
StatReturns(b) ==
    /\ stage = "stat"
    /\ body' = b
    /\ UNCHANGED <<current, chunks, keepAlive>>
    /\ Write("head")
    /\ UNCHANGED <<peer, timers, timeouts, tracked, shuttingDown, handling, late>>

\* The bytes body follows its head with no await in between.
WriteBytes ==
    /\ stage = "bytes"
    /\ UNCHANGED reply
    /\ Write("body")
    /\ UNCHANGED <<peer, timers, timeouts, tracked, shuttingDown, handling, late>>

\* The file read or the stream's next() returned a chunk.
SourceYields ==
    /\ stage = "source" /\ chunks < MaxChunks
    /\ chunks' = chunks + 1
    /\ UNCHANGED <<current, body, keepAlive>>
    /\ Write("body")
    /\ UNCHANGED <<peer, timers, timeouts, tracked, shuttingDown, handling, late>>

\* The source is exhausted: a stream still writes its last chunk and trailers,
\* a file only closes.
SourceEnds ==
    /\ stage = "source"
    /\ UNCHANGED reply
    /\ IF body = "stream"
       THEN Write("end")
       ELSE stage' = "settle" /\ UNCHANGED <<sock, woken, pending, upgraded>>
    /\ UNCHANGED <<peer, timers, timeouts, tracked, shuttingDown, handling, late>>

\* The handler, os.stat, open, a read or the stream raises: worker answers
\* with an error whatever has been written of the response.
Fails ==
    /\ stage \in {"handler", "stat", "source"}
    /\ UNCHANGED reply
    /\ Write("error")
    /\ UNCHANGED <<peer, timers, timeouts, tracked, shuttingDown, handling, late>>

\* Mutants: the timer is armed behind a half-received request; it is not armed.
IdleTimerAlways == IdleTimeout
IdleTimerNever  == idleTimer

\* An answered connection is idle unless a further request is arriving.
IdleTimerAfter == IF inProgress THEN idleTimer ELSE IdleTimeout

\* The end of the loop body.  queue.get() does not yield when there is an item.
Settle ==
    /\ stage = "settle"
    /\ IF keepAlive
       THEN /\ handling' = FALSE
            /\ idleTimer' = IdleTimerAfter
            /\ stage' = IF queue = <<>> THEN "get" ELSE "next"
            /\ UNCHANGED transport
       ELSE /\ TransportClose
            /\ stage' = "done"
            /\ UNCHANGED <<handling, idleTimer>>
    /\ UNCHANGED <<buffered, paused, wire, peer, requestTimer, timeouts, woken, pending,
                   reply, tracked, shuttingDown, upgraded, late>>

\* The worker goes on after resume_writing; await_writable looks only once.
WriteResumes ==
    /\ stage = "write" /\ woken
    /\ UNCHANGED reply
    /\ TransportWrite(current.id, pending)
    /\ AfterWrite(pending)
    /\ woken' = FALSE /\ pending' = "none"
    /\ UNCHANGED <<peer, timers, timeouts, tracked, shuttingDown, handling, late>>

Worker ==
    \/ Take
    \/ \E b \in Bodies, close \in BOOLEAN : HandlerReturns(b, close)
    \/ \E b \in {"file", "none"} : StatReturns(b)
    \/ WriteBytes
    \/ SourceYields
    \/ SourceEnds
    \/ Fails
    \/ Settle
    \/ WriteResumes

-----------------------------------------------------------------------------
(* Timers and the 408 tasks they create.                                   *)

\* The idle timer's callback is transport.close itself.
IdleTimerFires ==
    /\ idleTimer
    /\ idleTimer' = FALSE
    /\ TransportClose
    /\ UNCHANGED <<buffered, paused, wire, peer, requestTimer, timeouts, worker, reply,
                   tracked, shuttingDown, handling, upgraded, late>>

\* on_request_timeout creates a task.
RequestTimerFires ==
    /\ requestTimer
    /\ requestTimer' = FALSE
    /\ timeouts' = [timeouts EXCEPT !.fresh = @ + 1]
    /\ UNCHANGED <<sock, peer, idleTimer, worker, reply, tracked, shuttingDown,
                   handling, upgraded, late>>

\* send_request_timeout runs to its write, and past it unless writing is paused.
TimeoutTaskStarts ==
    /\ timeouts.fresh > 0
    /\ IF paused
       THEN /\ timeouts' = [fresh |-> timeouts.fresh - 1, blocked |-> timeouts.blocked + 1,
                           woken |-> timeouts.woken]
            /\ UNCHANGED sock
       ELSE /\ timeouts' = [timeouts EXCEPT !.fresh = @ - 1]
            /\ TransportWrite(0, "timeout")
            /\ TransportClose
    /\ UNCHANGED <<peer, timers, worker, reply, tracked, shuttingDown, handling,
                   upgraded, late>>

\* send_request_timeout after resume_event.wait().
TimeoutTaskResumes ==
    /\ timeouts.woken > 0
    /\ timeouts' = [timeouts EXCEPT !.woken = @ - 1]
    /\ TransportWrite(0, "timeout")
    /\ TransportClose
    /\ UNCHANGED <<peer, timers, worker, reply, tracked, shuttingDown, handling,
                   upgraded, late>>

-----------------------------------------------------------------------------
(* Flow control and the end of the connection.                             *)

\* Mutant: resume_event is not set.
ResumeWakesNobody ==
    /\ paused /\ transport # "lost"
    /\ paused' = FALSE
    /\ buffered' \in BOOLEAN
    /\ UNCHANGED <<transport, wire, peer, timers, timeouts, worker, reply, tracked,
                   shuttingDown, handling, upgraded, late>>

\* The client reads until the low-water mark: resume_writing sets resume_event,
\* which wakes every task that waits on it.
ResumeWriting ==
    /\ paused /\ transport # "lost"
    /\ paused' = FALSE
    /\ buffered' \in BOOLEAN
    /\ woken' = (stage = "write")
    /\ timeouts' = [fresh |-> timeouts.fresh, blocked |-> 0,
                     woken |-> timeouts.woken + timeouts.blocked]
    /\ UNCHANGED <<transport, wire, peer, timers, stage, pending, reply, tracked,
                   shuttingDown, handling, upgraded, late>>

\* The client reads what was left.
BufferDrains ==
    /\ buffered /\ ~paused /\ transport # "lost"
    /\ buffered' = FALSE
    /\ UNCHANGED <<transport, paused, wire, peer, timers, timeouts, worker, reply,
                   tracked, shuttingDown, handling, upgraded, late>>

\* Mutant: the worker task is not cancelled.
LostKeepsWorker ==
    /\ transport' = "lost" /\ buffered' = FALSE
    /\ idleTimer' = FALSE /\ requestTimer' = FALSE
    /\ tracked' = FALSE
    /\ UNCHANGED <<paused, wire, peer, timeouts, worker, reply, shuttingDown, handling,
                   upgraded, late>>

\* connection_lost: no timer, no slot, no worker is left.  The 408 tasks stay,
\* and so does what they wait for.
ConnectionLost ==
    /\ transport' = "lost" /\ buffered' = FALSE
    /\ idleTimer' = FALSE /\ requestTimer' = FALSE
    /\ tracked' = FALSE
    /\ stage' = "done" /\ woken' = FALSE /\ pending' = "none"
    /\ UNCHANGED <<paused, wire, peer, timeouts, reply, shuttingDown, handling,
                   upgraded, late>>

\* A closed transport with nothing to send ends the connection.
CloseCompletes == transport = "closing" /\ ~buffered /\ ConnectionLost

\* So does a reset by the client, at any time.
PeerResets == transport # "lost" /\ ConnectionLost

\* The handler of an upgraded connection calls WebSocket.close: a close frame,
\* written whether or not writing is paused, and the end of the connection.
WebSocketCloses ==
    /\ upgraded /\ transport = "open"
    /\ TransportWrite(current.id, "frame")
    /\ TransportClose
    /\ UNCHANGED <<peer, timers, timeouts, worker, reply, tracked, shuttingDown, handling,
                   upgraded, late>>

-----------------------------------------------------------------------------
(* Server.drain, for this connection.                                      *)

\* Mutant: the first pass closes every connection.
DrainSparesNone ==
    /\ ~shuttingDown
    /\ shuttingDown' = TRUE
    /\ TransportClose
    /\ UNCHANGED <<buffered, paused, wire, peer, timers, timeouts, worker, reply,
                   tracked, handling, upgraded, late>>

\* The first pass closes the connections that handle no request.
Drain ==
    /\ ~shuttingDown
    /\ shuttingDown' = TRUE
    /\ IF tracked /\ ~handling THEN TransportClose ELSE UNCHANGED transport
    /\ UNCHANGED <<buffered, paused, wire, peer, timers, timeouts, worker, reply,
                   tracked, handling, upgraded, late>>

\* Mutant: the second pass, too, spares the connections that handle a request.
DrainDeadlineSpares ==
    /\ shuttingDown /\ tracked /\ ~handling
    /\ TransportClose
    /\ UNCHANGED <<buffered, paused, wire, peer, timers, timeouts, worker, reply,
                   tracked, shuttingDown, handling, upgraded, late>>

\* The second pass, after shutdown_timeout, closes every connection.
DrainDeadline ==
    /\ shuttingDown /\ tracked
    /\ TransportClose
    /\ UNCHANGED <<buffered, paused, wire, peer, timers, timeouts, worker, reply,
                   tracked, shuttingDown, handling, upgraded, late>>

-----------------------------------------------------------------------------
Client ==
    \/ \E k \in Kinds \cup {"none", "malformed"}, more \in BOOLEAN : DataReceived(k, more)
    \/ EofReceived
    \/ ResumeWriting
    \/ BufferDrains
    \/ CloseCompletes
    \/ PeerResets

Callbacks ==
    \/ IdleTimerFires
    \/ RequestTimerFires
    \/ TimeoutTaskStarts
    \/ TimeoutTaskResumes
    \/ WebSocketCloses
    \/ Drain
    \/ DrainDeadline

Next == Worker \/ (~HoldsLoop /\ (Client \/ Callbacks))

\* The loop runs what is ready, timers expire, handlers and files answer, a
\* client that is sent data reads it.  Nothing makes a client send or leave,
\* nor the operator shut the server down.
Fairness ==
    /\ WF_vars(Worker)
    /\ WF_vars(~HoldsLoop /\ IdleTimerFires)
    /\ WF_vars(~HoldsLoop /\ RequestTimerFires)
    /\ WF_vars(~HoldsLoop /\ (TimeoutTaskStarts \/ TimeoutTaskResumes))
    /\ WF_vars(~HoldsLoop /\ (ResumeWriting \/ BufferDrains))
    /\ WF_vars(~HoldsLoop /\ CloseCompletes)
    /\ WF_vars(~HoldsLoop /\ DrainDeadline)

Spec == Init /\ [][Next]_vars /\ Fairness

-----------------------------------------------------------------------------
(* Properties.                                                             *)

SockTypeOK ==
    /\ transport \in {"open", "closing", "lost"}
    /\ buffered \in BOOLEAN /\ paused \in BOOLEAN
    /\ wire \in Seq([id : 0..MaxRequests, part : Parts \cup {"timeout", "frame"}])

PeerTypeOK ==
    /\ eof \in BOOLEAN /\ inProgress \in BOOLEAN
    /\ received \in 0..MaxRequests /\ queue \in Seq(Item)

TimerTypeOK ==
    /\ idleTimer \in BOOLEAN /\ requestTimer \in BOOLEAN
    /\ timeouts \in [fresh : Nat, blocked : Nat, woken : Nat]

WorkerTypeOK ==
    /\ stage \in Stages /\ woken \in BOOLEAN /\ pending \in Parts \cup {"none"}

ReplyTypeOK ==
    /\ current \in Item \cup {NoItem} /\ body \in {"none", "bytes", "file", "stream"}
    /\ chunks \in 0..MaxChunks /\ keepAlive \in BOOLEAN

FlagTypeOK ==
    /\ tracked \in BOOLEAN /\ shuttingDown \in BOOLEAN
    /\ handling \in BOOLEAN /\ upgraded \in BOOLEAN /\ late \in Nat

TypeOK == /\ SockTypeOK /\ PeerTypeOK /\ TimerTypeOK
          /\ WorkerTypeOK /\ ReplyTypeOK /\ FlagTypeOK

\* The idle timer only runs between requests and the request timer only while
\* one is arriving, although the worker, data_received and connection_lost arm
\* and cancel them independently: never both, so a 408 is never raced by an
\* idle close.
TimersFollowParser ==
    /\ idleTimer => ~inProgress
    /\ requestTimer => inProgress

\* Something always makes progress on a connection that is open: a timer is
\* armed, a 408 task is on its way, an item is queued or the worker is busy.
\* Were there none, the connection would keep its tracker slot for ever.
OpenIsWatched ==
    IdleTimeout /\ RequestTimeout /\ transport = "open" /\ ~upgraded =>
        \/ idleTimer \/ requestTimer
        \/ timeouts.fresh + timeouts.blocked + timeouts.woken > 0
        \/ queue # <<>>
        \/ stage \notin {"get", "done"}

\* connection_lost leaves nothing that could act on the dead transport but 408
\* tasks: both timers are off, the worker is gone and the slot is free, for good.
LostIsReleased ==
    transport = "lost" => ~idleTimer /\ ~requestTimer /\ ~tracked /\ stage = "done"

\* No wake-up is lost: whoever waits for resume_event waits on a transport that
\* is still paused, so that a resume_writing is to come.
WaitersArePaused ==
    /\ timeouts.blocked > 0 => paused
    /\ stage = "write" /\ ~woken => paused

\* Pipelined requests are answered in order, none is skipped, a body follows its
\* own head, and after an error or an upgrade the worker writes no HTTP part.
ResponsesInOrder ==
    \A b \in DOMAIN wire : wire[b].part \in Parts =>
        /\ \A a \in 1..(b - 1) :
               /\ wire[a].id <= wire[b].id
               /\ wire[a].part \notin {"error", "upgrade"}
               /\ wire[b].part = "head" => wire[a].id # wire[b].id
        /\ \A i \in 1..(wire[b].id - 1) : \E a \in 1..(b - 1) : wire[a].id = i
        /\ wire[b].part \in {"body", "end"} =>
               \E a \in 1..(b - 1) : wire[a] = [id |-> wire[b].id, part |-> "head"]

\* A drained server lets a connection take one more request at most, the one
\* that follows a keep-alive decided before the drain.
AtMostOneLateRequest == late <= 1

\* The connection as the rest of the server sees it.  The worker's verdict on
\* keep-alive is undecided until handle_request computed it.
Verdict ==
    CASE stage \in {"get", "next", "handler"} -> "undecided"
      [] stage = "done" \/ (stage = "write" /\ pending \in {"error", "upgrade"}) -> "last"
      [] OTHER -> IF keepAlive THEN "another" ELSE "last"

Life == INSTANCE Lifecycle WITH verdict <- Verdict

\* The connection keeps the promises of Lifecycle.tla, step by step.
ImplementsLifecycle == Life!Spec

\* A parsed request gets an answer, or the connection ends: the queue, the
\* pauses and the awaits never strand it.
RequestsAreAnswered ==
    \A i \in 1..MaxRequests :
        received >= i ~> \/ \E a \in DOMAIN wire : wire[a].id = i
                         \/ transport # "open" \/ upgraded

\* Drain ends the connection, whatever it was doing.
DrainEndsConnection == shuttingDown ~> transport = "lost"

\* With both timeouts configured a client that stops talking cannot hold the
\* connection, whatever it has sent before, unless it upgraded it.
SilenceEndsConnection == IdleTimeout /\ RequestTimeout => <>(transport = "lost" \/ upgraded)

\* The worker has a step to take.
WorkerReady ==
    \/ stage \notin {"get", "write", "done"}
    \/ stage = "get" /\ queue # <<>>
    \/ stage = "write" /\ woken

\* A connection at rest owes its client nothing: when the worker has nothing to do and
\* the client reads, an open connection has answered whatever was parsed.
NothingUnanswered ==
    ~WorkerReady /\ ~paused /\ transport = "open" /\ ~upgraded =>
        \A i \in 1..received : \E a \in DOMAIN wire : wire[a].id = i

=============================================================================

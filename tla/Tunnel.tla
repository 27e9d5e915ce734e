------------------------------- MODULE Tunnel -------------------------------
(***************************************************************************)
(* A CONNECT tunnel: Protocol.handle_connect, its two relay tasks and the  *)
(* Connection to the upstream server, of src/src/momiji/protocol.py, from  *)
(* the moment the worker awaits the connection.  Nothing has been written  *)
(* to the client before: a tunnel's first request is its only one, so the  *)
(* 200 or 502 never waits for resume_event.  A segment is a chunk of its   *)
(* own, known by its number.                                               *)
(***************************************************************************)
EXTENDS Naturals, Sequences

CONSTANTS
    MaxClient,      \* bound: segments the client sends
    MaxUpstream,    \* bound: segments the upstream server sends
    RequestTimeout  \* request_timeout is set

ASSUME BoundsAssumption == MaxClient \in Nat /\ MaxUpstream \in Nat
ASSUME TimeoutAssumption == RequestTimeout \in BOOLEAN

VARIABLES
    stage,      \* handle_connect: connecting, relaying, refused or cancelled
    sent,       \* segments data_received got from the client ...
    early,      \* ... and those of them that came before tunnel_queue was there
    clientEnd,  \* eof_received: open (not called), missed (no tunnel_queue) or seen
    got,        \* chunks client_to_upstream got from tunnel_queue
    c2u,        \* client_to_upstream: none, get (in queue.get), drain or done
    halfClose,  \* the task of upstream_half_close is there
    upstream,   \* the connection: none, open, closing, closed or lost
    toUpstream, upEnd,  \* what was written to it, and whether write_eof was called
    upPaused,   \* its writer is paused
    pressed,    \* history: it has been
    arrived, upstreamEnd,  \* receive_queue: chunks put on it, and the empty one
    taken,      \* chunks upstream_to_client got from it
    u2c,        \* upstream_to_client: none, get, blocked (on resume_event) or done
    transport,  \* the client's: open, closing or lost
    paused,     \* Protocol.paused
    reply,      \* what handle_connect wrote: none, 200 or 502
    toClient, downEnd,  \* what was relayed to it, and whether write_eof was called
    timer,      \* request_timer is armed
    intruded,   \* a 408 was written
    closer      \* the task of upstream_connection.close() is there

clientVars == <<sent, early, clientEnd>>
upVars == <<got, c2u, toUpstream, upEnd>>
queueVars == <<arrived, upstreamEnd>>
downVars == <<taken, u2c, toClient, downEnd>>
vars == <<stage, clientVars, upVars, halfClose, upstream, upPaused, pressed, queueVars,
          downVars, transport, paused, reply, timer, intruded, closer>>

Init ==
    /\ stage = "connecting"
    /\ sent = 0 /\ early = 0 /\ clientEnd = "open"
    /\ got = 0 /\ c2u = "none" /\ halfClose = FALSE
    /\ upstream = "none" /\ toUpstream = <<>> /\ upEnd = FALSE
    /\ upPaused = FALSE /\ pressed = FALSE
    /\ arrived = 0 /\ upstreamEnd = FALSE
    /\ taken = 0 /\ u2c = "none" /\ toClient = <<>> /\ downEnd = FALSE
    /\ transport \in {"open", "closing"} /\ paused = FALSE /\ reply = "none"
    /\ timer = FALSE /\ intruded = FALSE /\ closer = FALSE

\* Chunks on tunnel_queue.
Waiting == (sent - early) - got

-----------------------------------------------------------------------------
(* handle_connect.                                                         *)

Connected ==
    /\ stage = "connecting" /\ stage' = "relaying"
    /\ upstream' = "open" /\ c2u' = "get" /\ u2c' = "get"
    /\ reply' = "200"
    /\ UNCHANGED <<clientVars, got, halfClose, toUpstream, upEnd, upPaused, pressed, queueVars,
                   taken, toClient, downEnd, transport, paused, timer, intruded, closer>>

\* The 502, and the worker closes the transport.
Refused ==
    /\ stage = "connecting" /\ stage' = "refused"
    /\ reply' = "502" /\ transport' = "closing"
    /\ UNCHANGED <<clientVars, upVars, halfClose, upstream, upPaused, pressed, queueVars,
                   downVars, paused, timer, intruded, closer>>

-----------------------------------------------------------------------------
(* The client.                                                             *)

\* Before tunnel_queue is there the HTTP parser gets the bytes; an unfinished
\* message among them arms the request timer, and nothing disarms it later.
DataReceived ==
    /\ transport = "open" /\ clientEnd = "open" /\ sent < MaxClient
    /\ sent' = sent + 1
    /\ IF stage = "relaying" THEN UNCHANGED <<early, timer>>
       ELSE early' = early + 1 /\ timer' \in (IF RequestTimeout THEN BOOLEAN ELSE {FALSE})
    /\ UNCHANGED <<stage, clientEnd, upVars, halfClose, upstream, upPaused, pressed, queueVars,
                   downVars, transport, paused, reply, intruded, closer>>

\* Mutant: the parser is told, not the upstream connection.
EofForParser ==
    /\ transport = "open" /\ clientEnd = "open"
    /\ clientEnd' = IF stage = "relaying" THEN "seen" ELSE "missed"
    /\ UNCHANGED <<stage, sent, early, upVars, halfClose, upstream, upPaused, pressed, queueVars,
                   downVars, transport, paused, reply, timer, intruded, closer>>

EofReceived ==
    /\ transport = "open" /\ clientEnd = "open"
    /\ IF stage = "relaying" THEN clientEnd' = "seen" /\ halfClose' = TRUE
       ELSE clientEnd' = "missed" /\ UNCHANGED halfClose
    /\ UNCHANGED <<stage, sent, early, upVars, upstream, upPaused, pressed, queueVars,
                   downVars, transport, paused, reply, timer, intruded, closer>>

\* The client reads: resume_writing sets resume_event.
ResumeWriting ==
    /\ paused /\ transport # "lost" /\ paused' = FALSE
    /\ UNCHANGED <<stage, clientVars, upVars, halfClose, upstream, upPaused, pressed, queueVars,
                   downVars, transport, reply, timer, intruded, closer>>

\* The request timer's task, once it may write: a 408 and the end, unless the
\* transport no longer takes anything.
TimeoutStrikes ==
    /\ timer /\ ~paused /\ transport # "lost"
    /\ timer' = FALSE /\ transport' = "closing"
    /\ intruded' \in (IF downEnd THEN {FALSE} ELSE IF transport = "open" THEN {TRUE} ELSE BOOLEAN)
    /\ UNCHANGED <<stage, clientVars, upVars, halfClose, upstream, upPaused, pressed, queueVars,
                   downVars, paused, reply, closer>>

\* The second pass of drain.
ServerCloses ==
    /\ transport = "open" /\ transport' = "closing"
    /\ UNCHANGED <<stage, clientVars, upVars, halfClose, upstream, upPaused, pressed, queueVars,
                   downVars, paused, reply, timer, intruded, closer>>

\* Mutant: the upstream connection stays as it is.
LostAlone ==
    /\ transport # "lost" /\ transport' = "lost"
    /\ timer' = FALSE
    /\ stage' = IF stage = "connecting" THEN "cancelled" ELSE stage
    /\ UNCHANGED <<clientVars, upVars, halfClose, upstream, upPaused, pressed, queueVars,
                   downVars, paused, reply, intruded, closer>>

\* After a reset, or after close.  A worker that is still connecting is cancelled;
\* the relay tasks are not.
ConnectionLost ==
    /\ transport # "lost" /\ transport' = "lost"
    /\ timer' = FALSE
    /\ stage' = IF stage = "connecting" THEN "cancelled" ELSE stage
    /\ closer' = (stage = "relaying")
    /\ UNCHANGED <<clientVars, upVars, halfClose, upstream, upPaused, pressed, queueVars,
                   downVars, paused, reply, intruded>>

-----------------------------------------------------------------------------
(* The upstream server and Connection.                                     *)

\* pump: a chunk on receive_queue, without limit, until close cancels it.
Pumped ==
    /\ upstream = "open" /\ ~upstreamEnd /\ arrived < MaxUpstream
    /\ arrived' = arrived + 1
    /\ UNCHANGED <<stage, clientVars, upVars, halfClose, upstream, upPaused, pressed, upstreamEnd,
                   downVars, transport, paused, reply, timer, intruded, closer>>

\* The server has ended its side: pump puts the empty chunk and returns.
PumpEnds ==
    /\ upstream = "open" /\ ~upstreamEnd /\ upstreamEnd' = TRUE
    /\ UNCHANGED <<stage, clientVars, upVars, halfClose, upstream, upPaused, pressed, arrived,
                   downVars, transport, paused, reply, timer, intruded, closer>>

\* A reset: to pump it is an end like any other.
UpstreamResets ==
    /\ upstream \in {"open", "closing"}
    /\ upstream' = IF upstream = "open" THEN "lost" ELSE "closed"
    /\ upstreamEnd' = (upstreamEnd \/ upstream = "open")
    /\ upPaused' = FALSE
    /\ UNCHANGED <<stage, clientVars, upVars, halfClose, pressed, arrived, downVars, transport,
                   paused, reply, timer, intruded, closer>>

UpstreamReads ==
    /\ upPaused /\ upPaused' = FALSE
    /\ UNCHANGED <<stage, clientVars, upVars, halfClose, upstream, pressed, queueVars, downVars,
                   transport, paused, reply, timer, intruded, closer>>

\* Connection.close(half_close=True).
HalfCloses == upEnd' = (upEnd \/ upstream = "open")

\* upstream_half_close.  client_to_upstream was woken before this task was made if
\* it waits beside a chunk: it comes first, and empties the queue.  If it waits in
\* drain, the task overtakes what is on the queue.
HalfCloseRuns ==
    /\ halfClose /\ ~(c2u = "get" /\ Waiting > 0)
    /\ halfClose' = FALSE
    /\ HalfCloses
    /\ UNCHANGED <<stage, clientVars, got, c2u, toUpstream, upstream, upPaused, pressed,
                   queueVars, downVars, transport, paused, reply, timer, intruded, closer>>

\* upstream_connection.close(): the reader task is cancelled, the writer closed.
CloseRuns ==
    /\ closer /\ closer' = FALSE
    /\ upstream' = IF upstream = "open" THEN "closing" ELSE "closed"
    /\ UNCHANGED <<stage, clientVars, upVars, halfClose, upPaused, pressed, queueVars, downVars,
                   transport, paused, reply, timer, intruded>>

\* What was still to be sent has been, and the server sees the end of the stream.
CloseCompletes ==
    /\ upstream = "closing" /\ ~upPaused
    /\ upstream' = "closed" /\ upEnd' = TRUE
    /\ UNCHANGED <<stage, clientVars, got, c2u, toUpstream, halfClose, upPaused, pressed,
                   queueVars, downVars, transport, paused, reply, timer, intruded, closer>>

-----------------------------------------------------------------------------
(* The relay tasks.                                                        *)

\* Mutant: a chunk is taken before the writer is asked whether it is ready.
SendWhenReady ==
    \E pause \in BOOLEAN :
        /\ toUpstream' = IF pause THEN toUpstream ELSE Append(toUpstream, early + got + 1)
        /\ upPaused' = pause /\ pressed' = (pressed \/ pause)
        /\ c2u' = IF pause THEN "drain" ELSE "get"

\* Connection.send: write, then drain.
Send ==
    \E pause \in BOOLEAN :
        /\ toUpstream' = Append(toUpstream, early + got + 1)
        /\ upPaused' = pause /\ pressed' = (pressed \/ pause)
        /\ c2u' = IF pause THEN "drain" ELSE "get"

\* The writer refuses: after write_eof, or because the connection is gone.  The
\* chunk is lost, the task ends, and tunnel_queue has no reader any more.
SendFails ==
    /\ c2u' = "done"
    /\ UNCHANGED <<toUpstream, upPaused, pressed>>

\* client_to_upstream goes on with a chunk; nothing ever queues an empty one.  A
\* writer that is closing may take it or not.
ClientToUpstream ==
    /\ c2u = "get" /\ Waiting > 0
    /\ got' = got + 1
    /\ \/ upstream \in {"open", "closing"} /\ ~upEnd /\ Send
       \/ (upstream # "open" \/ upEnd) /\ SendFails
    /\ UNCHANGED <<stage, clientVars, upEnd, halfClose, upstream, queueVars, downVars, transport,
                   paused, reply, timer, intruded, closer>>

\* Mutant: a pause of the writer ends the relay.
DrainEndsRelay ==
    /\ c2u = "drain" /\ ~upPaused
    /\ c2u' = "done"
    /\ UNCHANGED <<stage, clientVars, got, toUpstream, upEnd, halfClose, upstream, upPaused,
                   pressed, queueVars, downVars, transport, paused, reply, timer, intruded, closer>>

\* drain returns, or raises if the connection was lost meanwhile.
DrainReturns ==
    /\ c2u = "drain" /\ ~upPaused
    /\ c2u' \in (IF upstream \in {"closed", "lost"} THEN {"get", "done"} ELSE {"get"})
    /\ UNCHANGED <<stage, clientVars, got, toUpstream, upEnd, halfClose, upstream, upPaused,
                   pressed, queueVars, downVars, transport, paused, reply, timer, intruded, closer>>

\* transport.write of chunk n; a closing transport takes it or drops this one and
\* all that follow, a lost one raises.
WriteChunk(n) ==
    \/ /\ transport # "lost"
       /\ toClient' = Append(toClient, n) /\ u2c' = "get"
       /\ paused' \in {paused, TRUE}
    \/ /\ transport # "open"
       /\ u2c' = "done"
       /\ UNCHANGED <<toClient, paused>>

\* upstream_to_client gets a chunk; write waits for resume_event first.
UpstreamToClient ==
    /\ u2c = "get" /\ taken < arrived
    /\ taken' = taken + 1
    /\ IF paused THEN u2c' = "blocked" /\ UNCHANGED <<toClient, paused>>
       ELSE WriteChunk(taken + 1)
    /\ UNCHANGED <<stage, clientVars, upVars, halfClose, upstream, upPaused, pressed, queueVars,
                   downEnd, transport, reply, timer, intruded, closer>>

\* Mutant: the relay goes on with a further chunk, which may not have come yet.
WriteResumesWithNext ==
    /\ u2c = "blocked" /\ ~paused
    /\ taken' = taken + 1 /\ WriteChunk(taken + 1)
    /\ UNCHANGED <<stage, clientVars, upVars, halfClose, upstream, upPaused, pressed, queueVars,
                   downEnd, transport, reply, timer, intruded, closer>>

WriteResumes ==
    /\ u2c = "blocked" /\ ~paused
    /\ WriteChunk(taken)
    /\ UNCHANGED <<stage, clientVars, upVars, halfClose, upstream, upPaused, pressed, queueVars,
                   taken, downEnd, transport, reply, timer, intruded, closer>>

\* Mutant: the end is taken for granted once the server has ended.
EndsAtOnce ==
    /\ u2c = "get" /\ upstreamEnd
    /\ u2c' = "done" /\ downEnd' = (transport = "open")
    /\ UNCHANGED <<stage, clientVars, upVars, halfClose, upstream, upPaused, pressed, queueVars,
                   taken, toClient, transport, paused, reply, timer, intruded, closer>>

\* The empty chunk: write_eof to the client, whose transport stays open.
UpstreamToClientEnds ==
    /\ u2c = "get" /\ taken = arrived /\ upstreamEnd
    /\ u2c' = "done" /\ downEnd' = (transport = "open")
    /\ UNCHANGED <<stage, clientVars, upVars, halfClose, upstream, upPaused, pressed, queueVars,
                   taken, toClient, transport, paused, reply, timer, intruded, closer>>

-----------------------------------------------------------------------------
Connect == Connected \/ Refused
Client == DataReceived \/ EofReceived \/ ResumeWriting \/ ConnectionLost
Server == Pumped \/ PumpEnds \/ UpstreamResets \/ UpstreamReads
Tasks == TimeoutStrikes \/ ServerCloses \/ HalfCloseRuns \/ CloseRuns \/ CloseCompletes
         \/ ClientToUpstream \/ DrainReturns
         \/ UpstreamToClient \/ WriteResumes \/ UpstreamToClientEnds

Next == Connect \/ Client \/ Server \/ Tasks

\* The loop runs every task that is ready, and both ends read what they are sent.
Fairness ==
    /\ WF_vars(HalfCloseRuns) /\ WF_vars(CloseRuns) /\ WF_vars(CloseCompletes)
    /\ WF_vars(ClientToUpstream) /\ WF_vars(DrainReturns)
    /\ WF_vars(UpstreamToClient) /\ WF_vars(WriteResumes) /\ WF_vars(UpstreamToClientEnds)
    /\ WF_vars(UpstreamReads) /\ WF_vars(ResumeWriting)

Spec == Init /\ [][Next]_vars /\ Fairness

-----------------------------------------------------------------------------
TypeOK ==
    /\ stage \in {"connecting", "relaying", "refused", "cancelled"}
    /\ sent \in 0..MaxClient /\ early \in 0..sent /\ clientEnd \in {"open", "missed", "seen"}
    /\ got \in 0..(sent - early) /\ c2u \in {"none", "get", "drain", "done"}
    /\ halfClose \in BOOLEAN
    /\ upstream \in {"none", "open", "closing", "closed", "lost"}
    /\ toUpstream \in Seq(1..MaxClient) /\ upEnd \in BOOLEAN
    /\ upPaused \in BOOLEAN /\ pressed \in BOOLEAN
    /\ arrived \in 0..MaxUpstream /\ upstreamEnd \in BOOLEAN
    /\ taken \in 0..arrived /\ u2c \in {"none", "get", "blocked", "done"}
    /\ toClient \in Seq(1..MaxUpstream) /\ downEnd \in BOOLEAN
    /\ transport \in {"open", "closing", "lost"} /\ paused \in BOOLEAN
    /\ reply \in {"none", "200", "502"}
    /\ timer \in BOOLEAN /\ intruded \in BOOLEAN /\ closer \in BOOLEAN

\* Each direction carries what was put in, in order, and ends behind the last of
\* it.  Downwards only a client that leaves breaks the pipe.
FromUpstream == [i \in 1..arrived |-> i]
Down == INSTANCE Pipe WITH Chunks <- 1..MaxUpstream,
    source <- FromUpstream, ended <- upstreamEnd,
    sink <- toClient, closed <- downEnd, broken <- transport # "open"
ImplementsPipeDown == Down!Spec

\* Upwards a pause of the upstream writer does, too: from then on half close may
\* overtake what is on the queue.  So does a missed eof.
FromClient == [i \in 1..(sent - early) |-> early + i]
Up == INSTANCE Pipe WITH Chunks <- 1..MaxClient,
    source <- FromClient, ended <- clientEnd # "open",
    sink <- toUpstream, closed <- upEnd,
    broken <- pressed \/ upstream \in {"closing", "closed", "lost"}
ImplementsPipeUp == Up!Spec

\* A chunk put in while the tunnel stands comes out, or the tunnel breaks.
ChunksArrive ==
    /\ \A n \in 1..MaxClient :
         stage = "relaying" /\ sent - early >= n
         ~> Len(toUpstream) >= n \/ upEnd \/ upstream # "open"
    /\ \A n \in 1..MaxUpstream :
         arrived >= n ~> Len(toClient) >= n \/ transport # "open"

\* An end of either side reaches the other side, whoever is paused.
EndsArrive ==
    /\ clientEnd = "seen" ~> upEnd \/ upstream # "open"
    /\ upstreamEnd ~> downEnd \/ transport # "open"

\* However the client goes, while connecting or relaying, no upstream connection
\* is left behind.
UpstreamIsReleased == transport = "lost" ~> upstream \in {"none", "closed"}

\* A task of the tunnel that the event loop could run now.
ReadyUp == \/ c2u = "get" /\ Waiting > 0
           \/ c2u = "drain" /\ ~upPaused
           \/ halfClose
ReadyDown == \/ u2c = "get" /\ (taken < arrived \/ upstreamEnd)
             \/ u2c = "blocked" /\ ~paused
ReadyToClose == closer \/ (upstream = "closing" /\ ~upPaused)

\* A tunnel at rest holds nothing back: when no task is ready and the sides read what
\* they are sent, every chunk and every end has arrived or that direction is broken,
\* and of a client that has gone no upstream connection is left.
NothingHeldBack ==
    /\ ~ReadyUp /\ ~upPaused /\ upstream = "open" /\ ~upEnd =>
           Len(toUpstream) = sent - early /\ clientEnd # "seen"
    /\ ~ReadyDown /\ ~paused /\ transport = "open" =>
           Len(toClient) = arrived /\ (upstreamEnd => downEnd)
    /\ ~ReadyToClose /\ ~upPaused /\ transport = "lost" => upstream \in {"none", "closed"}

\* The steps the tunnel's tasks may take before one of its sides does something.
One(b) == IF b THEN 1 ELSE 0
UpWork    == 2 * Waiting + One(c2u = "drain") + One(c2u # "done") + One(halfClose)
DownWork  == 2 * (arrived - taken) + One(u2c = "blocked") + One(u2c # "done")
CloseWork == 2 * One(closer) + One(upstream = "closing")
Work      == UpWork + DownWork + CloseWork

Relaying == HalfCloseRuns \/ CloseRuns \/ CloseCompletes \/ ClientToUpstream \/ DrainReturns
            \/ UpstreamToClient \/ WriteResumes \/ UpstreamToClientEnds

\* Tasks that run alone come to rest: none spins or hands work to and fro, and a side
\* that reads makes no work.
TasksComeToRest ==
    [][/\ Relaying => Work' < Work
       /\ ResumeWriting \/ UpstreamReads => Work' = Work]_vars

=============================================================================

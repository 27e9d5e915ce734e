# A TLA+ verification of momiji

momiji is an HTTP/1.1 server written in Python on asyncio (uvloop): an origin
server, with gateway, forward-proxy and tunnel roles. This directory models the
parts of it that are hard to test, checks them with TLC on small instances and
proves the central safety properties with TLAPS for every instance. Source
paths below are relative to `src/src/momiji/`.

- `*.tla` without a suffix: the specifications. `MC*.tla` and `MC*.cfg`: their
  instances for TLC. `*_proofs.tla`: theorems.
- `PROJECT.json` lists the components, runs, findings, hazards and theorems, and
  maps every definition to the lines it models.

Run a check with `tlc -config MCProtocol.cfg MCProtocol`, a proof with
`tlapm Protocol_proofs.tla`.

## 1. Inventory

| component | state | operations | where |
|---|---|---|---|
| Client connection (`Protocol`) | transport, request queue, parser, worker task, 408 tasks, `handling_request`, `request_in_progress`, two timers, `paused` / `resume_event`, `websocket`, `tunnel_queue` | `connection_made`, `data_received`, `eof_received`, `connection_lost`, `pause_writing`, `resume_writing`, the timer callbacks, `worker` and all it awaits | `protocol.py` 354-862 |
| Message parser | buffer, stage, framing of the message, `ChunkedDecoder` | `feed`, `signal_eof`, `try_parse` | `protocol.py` 56-266 |
| Connection tracker | `active`, `shutting_down` | `try_acquire`, `release` | `limits.py` 9-23 |
| Rate limiter | buckets by client address: `tokens`, `last_refill`, `last_used` | `allow`, `prune` | `limits.py` 25-66 |
| Server process | listening sockets, shutdown event, prune task | `serve`, `drain`, signal handlers | `server.py` 127-202 |
| Supervisor | worker pids | `run`, `fork_worker`, `forward_signal` | `server.py` 80-125 |
| Listener | configuration | `bind` | `server.py` 19-62 |
| Response framing | the response's headers and body | `finalize_response`, `send_response`, `write_body` | `finalizer.py`, `protocol.py` 777-862 |
| Request validation | none | `handle_request`, `finalize_request`, `build_upgrade_response` | `protocol.py` 31-54, 577-617, `finalizer.py` 12-42 |
| WebSocket | frame buffer, message being assembled, `closed`, `close_sent`, `leftover` | `next_frame`, `read`, `write`, `ping`, `close` | `websocket.py` |
| CONNECT tunnel | `tunnel_queue`, `upstream_connection`, two relay tasks | `handle_connect`, `upstream_half_close` | `protocol.py` 485-495, 709-759 |
| Upstream connection and proxy | reader task, receive queue, `eof`, `closed` | `Connection.connect/pump/send/receive/close`, `dispatch_proxy` | `protocol.py` 268-352, 633-707 |
| Header collections, URL | values | parse, build, get, set, quote | `headers.py`, `url.py` |
| Messages, content coding | values | `compress`, `decompress`, `minify`, `etag` | `models.py` |
| Response classes, errors | values | constructors | `responses.py`, `errors.py` |

### How they interact

One event loop runs callbacks and task steps one at a time, so the atomic steps
are the stretches of code between two awaits.

- The transport calls `data_received`; the parser cuts messages out of the bytes
  and they (or the `HTTPError` the parser raised) go on `request_queue`.
- The `worker` task takes one item at a time, asks the rate limiter, awaits the
  application's handler and writes the response, awaiting `resume_event` before
  each part while the transport has called `pause_writing`.
- Two timers run beside it. The idle timer's callback is `transport.close`; the
  request timer creates a task that writes a 408 and closes, without asking the
  worker.
- Every connection registers with the one `ConnectionTracker` of the process in
  `connection_made` and leaves it in `connection_lost`. On SIGTERM or SIGINT
  `Server.drain` sets `shutting_down`, which the workers read when they decide on
  keep-alive, closes the connections that handle no request, waits, and closes
  the rest.
- A WebSocket upgrade or a CONNECT ends the worker; a queue then feeds the
  application's or the relay tasks.

### What is hard, and what makes each part correct

- *Connection.* Worker, callbacks, timers, 408 tasks and drain interleave at
  every await, and the client may stop reading, reset or half-close in between.
  Correct means: responses come in the order of the requests, a parsed request is
  answered or the connection ends, no wake-up is lost, an open connection always
  has something that will move it on, a lost one keeps no timer, worker or slot,
  and drain ends it.
- *Parser.* Segments cut messages anywhere and hold several at once. Correct
  means: what is delivered is what was sent, whatever the segments; a peer that
  sends without end is refused, and no head or body is taken or refused for the way it was
  cut. (Chunk size lines, trailers and what follows an error fall short of that: section 4.)
- *Tracker and server.* Connections come, are refused and end while the process
  drains or is signalled again. Correct means: at most `max_connections` live,
  no slot leaks, drain cuts nobody short and ends.
- *Rate limiter.* Lazy refills and pruning must not be observable.
- *WebSocket.* Segments cut frames, fragments cut messages, control frames come in
  between, and both sides may close at once. Correct means: every message is read
  once, whole and in order, every ping is answered, a reader never waits beside a
  frame it has, and any close ends the connection with one close frame.
- *Tunnel.* Two relay tasks, a half-close task and the callbacks of two transports
  run beside each other, under back-pressure of either side, and outlive the
  connection. Correct means: each direction is a pipe (order, nothing lost or twice,
  the end behind the last chunk), what is sent arrives, and no upstream connection
  is left behind.
- *Proxy and framing.* An upstream may answer anything, or fail at any await; a
  handler may set any framing header on any body; a file may change. Correct means:
  a message ends where its head says, a connection is kept only for a client that
  asked for it, and the upstream connection is closed on every path.
- *Supervisor.* Signals come between any two steps of fork, wait and the list of
  pids. Correct means: one signal ends every worker, then the supervisor.

The `hazards` of `PROJECT.json` name every one of these at its line, with the
properties that would catch it.

## 2. Modules

    Lifecycle  <---- implemented by ----  Protocol          (one connection)
        ^------------ used by every connection of ------- Server (one process)
                                                             ^-- extended by -- Supervisor
    TokenBuckets <-- implemented by ----  RateLimiter
    Parser                                                  (one byte stream)
    Exchange                                                (one request, its response)
    Pipe       <---- implemented twice by Tunnel            (one CONNECT tunnel)
    WebSocket                                               (one upgraded connection)

### Lifecycle.tla - what a connection promises the process

Abstract. Six variables: the transport, the slot, `handling`, the verdict on
keep-alive, `shuttingDown`, and the number of requests taken since the drain
began. It says who may close when, that drain spares a connection that handles a
request, that `handling` ends only through a decided keep-alive and that a
draining server decides for none. `Protocol` implements it; `Server` composes
many of them.

### Protocol.tla - one client connection

An origin server's `Protocol` object. State and code:

| variable | code |
|---|---|
| `transport`, `buffered`, `wire` | the transport: open, closing or lost, bytes left to send, everything handed to it |
| `paused` | `self.paused`, which is also `not resume_event.is_set()` |
| `eof`, `received`, `queue`, `inProgress` | the client's side, `request_queue`, `request_in_progress` |
| `idleTimer`, `requestTimer`, `timeouts` | the timers, the tasks of `send_request_timeout` |
| `stage`, `woken`, `pending` | where `worker` is suspended |
| `current`, `body`, `chunks`, `keepAlive` | locals of `worker` and below |
| `tracked`, `shuttingDown` | the tracker as this connection sees it |
| `handling`, `upgraded` | `handling_request`, `websocket is not None` |
| `late` | history: requests taken after the drain began |

One action per callback, and one per stretch of the worker between two awaits:
`Take` (`queue.get` to the handler's await, or to the error response),
`HandlerReturns` (`send_response` to the first await), `StatReturns`,
`WriteBytes`, `SourceYields`, `SourceEnds`, `Fails`, `Settle` (the end of the
loop body), `WriteResumes`. An await that does not suspend (`queue.get` on a
queue that is not empty, a write while not paused) leaves the worker running:
`HoldsLoop` then disables everything else. `AfterWrite` is what follows a write
in the same stretch.

Abstractions. A message is `plain`, `close` (asks for it), `refused` (any
`HTTPError` of `handle_request` before the handler), `upgrade` or `malformed` (the
parser raised). A response body is none, bytes, a file or a stream. A segment with
several messages is the same as several segments with nothing between them: only
`data_received` runs, so the intermediate states are ones the code passes through
too, plus interleavings that a client may produce anyway by sending separately.
The transport is the environment: it takes what is written while open, or while
closing with data left, pauses when data stays buffered and resumes when the
client reads. Rate limiter and handler may answer anything. Time is not
modelled: an armed timer may fire.

### Server.tla - one worker process

`serve` and `drain` with the tracker and all connections. A connection is a
record with `Lifecycle`'s state. `Accept` schedules `connection_made`, which may
therefore run after the sockets were closed and after either pass of the drain.
A signal sets the event while the handlers are installed; before and after, it
ends the process, which is what the default action does.

### Supervisor.tla - the processes

Extends `Server`: one worker, `Worker`, is `Server`'s in full, of the `Others` the
supervisor sees only that they run, were told to stop, or ended. `Fork`,
`InstallHandlers`, `ForwardSignal`, `WaitReturns` and `RemovePid` are the steps of
`run`; between `WaitReturns` and `RemovePid` a pid is gone and still on the list. A
signal may reach a worker directly, too (Ctrl-C goes to the whole terminal), and
may come before the handlers are there (`ParentKilled`). With `workers = 0` there is
no supervisor (`parent = "none"`) and the run is that of `Server` alone.

### RateLimiter.tla and TokenBuckets.tla

`TokenBuckets` is the textbook: a full bucket per client, filling at a constant
rate. `RateLimiter` is the code: a dictionary filled on demand, refilled when
asked, pruned by age. Time is in whole ticks and tokens in whole units (`Cost`
units make the code's 1.0 token), so there is no rounding; the floating point of
the code is not modelled.

### Parser.tla - one byte stream

The stream is a sequence of units (head, fixed body, chunk line, chunk, trailer
section, body up to the end) that `WellFormed` says a sender may produce; the
units are known by start, length, framing fields and whether they are of a response
(`resp`), whose body may go on up to the end of the stream. The parser knows how many
bytes it holds, what it looks for and where the next terminator is. `Feed(n)`
delivers any number of bytes whenever `try_parse` has returned `None` or raised. Inside
a unit there is one flag, `ok`. `SignalEof` comes at any moment.

A raised `HTTPError` stops neither `data_received` nor the parser: the next segment is fed
and parsed from where the error left them (`Fail` with what the code has done by then).
An error raised before anything was deleted meets the same bytes again (`Keep`: a unit
that is too long; `DataEnds`, which has added the chunk to the body and adds it again).
One raised behind the deletion (`Drop`: a malformed head or size line) leaves the parser
at the next unit; if that is of another kind than it looks for, it is "astray", and what
it makes of the bytes from then on is left open (`Wander`). Refused trailers stay in the
decoder and are refused with each segment (`TrailersAgain`). `refused` remembers the unit
of the first error: the worker answers that one and serves nothing behind it, so `out`
holds the results ahead of it. The parser of an upstream's response is dropped with its
exchange when it raises.

### Exchange.tla - one request and its response

What a client takes off the wire. `HandlerReturns` (an origin server) or the chain
`Connected`, `Sent`, `Answered`/`TailBegins`/`UpstreamEnds`, `CloseReturns` (gateway
and proxy: `dispatch_proxy`) yield a response; `SendResponse` sends it through
`NotModified` (If-None-Match), `Compressed`, `Persists` (`should_keep_alive`) and
`Finalized` (`finalize_response`), and `WriteHead`, `FileIsWritten` (in pieces),
`ChunkIsWritten` and `StreamEnds` write it.

A body is a kind (none, bytes, file, stream) and a length, headers are the set of
Content-Length values, a Transfer-Encoding flag and the options of Connection. A
coding makes a body one unit longer, that of nothing included. `size` is the
file's, which another process may change between `os.stat` and the read
(`FileChanges`, remembered in `changed`). A stream has the lengths of the chunks it
yields, `written` those of the chunks on the wire, a last-chunk being one of length 0.
`asked` keeps the options the client sent; `request.options` are
those the code still sees, as `dispatch_proxy` removes the header from the request
itself. `Finally` is its `finally` clause: `connection.close()` on every way out.
Flow control, timers and drain are `Protocol`'s and are left out here; a failed
`os.stat` or read ends in the worker's own answer (`Fails`).

### Tunnel.tla and Pipe.tla - one CONNECT tunnel

`Pipe` is what one direction promises: what is put in comes out, in order, each
piece once, and the end behind the last piece, unless the pipe breaks. `Tunnel` is
`handle_connect` and what it leaves running. A segment is a chunk, known by its
number.

| variable | code |
|---|---|
| `stage`, `reply` | `handle_connect` |
| `sent`, `early`, `clientEnd` | `data_received`, `eof_received`; what came before `tunnel_queue` was set |
| `got`, `c2u` | `tunnel_queue` (`Waiting` chunks on it) and `client_to_upstream` |
| `halfClose`, `closer` | the tasks of `upstream_half_close` and `upstream_connection.close()` |
| `upstream`, `toUpstream`, `upEnd`, `upPaused` | the `Connection`'s writer: state, what was written, `write_eof`, back-pressure |
| `arrived`, `upstreamEnd`, `taken` | `pump` and `receive_queue` |
| `u2c`, `toClient`, `downEnd` | `upstream_to_client`, what it wrote, `write_eof` |
| `transport`, `paused`, `timer`, `intruded` | the client's side, with the request timer an early half message armed |
| `pressed` | history: the upstream writer has been paused |

`Tunnel` implements `Pipe` twice. Downwards the pipe is broken once the client's
transport is no longer open. Upwards it is broken once the upstream connection is
not, and from the first pause of its writer on: `upstream_half_close` is a task of
its own, and while `client_to_upstream` waits in `drain` it announces the end before
chunks that are still queued. What comes before `tunnel_queue` is set goes to the
HTTP parser and is no part of either pipe.

### WebSocket.tla - one upgraded connection

The `WebSocket` object from the 101 on, its application, and the client.

| variable | code |
|---|---|
| `stream`, `arrived` | what the client sends, and how much of it `data_received` got |
| `feed` | `ws_queue`: for each segment in it, how far in the stream it reaches |
| `held`, `taken` | `recv_buffer`: the stream from the frames deleted so far to the last segment added |
| `opcode`, `message`, `closed`, `closeSent`, `leftover` | `fragment_opcode`, `fragment_buffer`, `closed`, `close_sent`, `leftover` |
| `stage`, `want` | where the application's `read` stands, and its `size` |
| `transport`, `buffered` | as in `Protocol` |
| `wire`, `got` | history: frames written, values read |

A frame has two halves, header and payload, so a segment can end inside either or
between frames. `header = "bad"` stands for every fault `next_frame` finds in it:
it raises and neither deletes, closes nor answers. A payload is a sequence of units
marked with their frame and place, so that a unit lost, repeated or moved shows.

`read_message` suspends only in `feed.get()` on an empty queue. A reader is
therefore "reading" (`HoldsLoop`: nothing else runs, each of its steps deals with
one frame or takes one segment) or "waiting". `Read`, `AppWrites`, `AppCloses` and
`Cancel` are the application's, which may call them in any order, `close` and
`write` also while another task of it reads. One task at a time reads: concurrent
readers of one WebSocket are not modelled. `ServerCloses` is drain (or the request
timer of the HTTP side), which closes the transport without telling the WebSocket.
After a close frame or an error `read` may be called again, and what it does then
is part of the model.

## 3. Runs

Deadlock is not checked (`CHECK_DEADLOCK FALSE`): connections, processes and
streams end, and that is a state without steps.

| run | instance | shows |
|---|---|---|
| `protocol` (`MCProtocol.cfg`) | 2 requests or errors, all kinds and bodies, 1 chunk, both timeouts, rate limiter; 3.6 million states | `TimersFollowParser`, `OpenIsWatched`, `LostIsReleased`, `WaitersArePaused`, `ResponsesInOrder`, `AtMostOneLateRequest`, `ImplementsLifecycle` |
| `protocol_live` (`MCProtocolLive.cfg`) | 2 requests, plain or upgrade, streamed bodies | `RequestsAreAnswered`, `DrainEndsConnection`, `SilenceEndsConnection` |
| `idle_close` (`MCProtocolIdle.cfg`) | 2 plain requests | violated: see findings |
| `timeout_inside_response` (`MCProtocolTimeout.cfg`) | 2 plain requests, streamed bodies | violated: see findings |
| `rate_limiter` (`MCRateLimiter.cfg`) | 2 clients, 7 ticks, burst 5, rate 2, cost 3, prune after more than 3 | `WithinRate`, `ImplementsBuckets` |
| `server` (`MCServer.cfg`) | 3 connections, 2 slots, 2 signals, alone or with a supervisor and a second worker; 0.6 million states | `CapacityHeld`, `SlotsAreLive`, `ConnectionsFollowLifecycle`, `ShutdownEnds`, `StopReachesEveryWorker` |
| `parser` (`MCParser.cfg`) | requests or responses, one or two messages; 1.4 million states | `InStep`, `DeliversWhatWasSent`, `SameInAnySegments`, `BufferBounded` |
| `websocket` (`MCWebSocket.cfg`) | two ordinary frames and one of any sort, reads of 1 or 4 units, one write; 10 million states | `DeliversMessages`, `PongsAnswerPings`, `ReaderWaitsForMore`, `CloseEndsConnection` |
| `websocket_end` (`MCWebSocketEnd.cfg`) | one frame of any sort | violated: see findings |
| `tunnel` (`MCTunnel.cfg`) | 3 chunks up, 2 down; 78000 states | `ImplementsPipeUp`, `ImplementsPipeDown`, `ChunksArrive`, `EndsArrive`, `UpstreamIsReleased` |
| `exchange` (`MCExchange.cfg`) | every request; responses and answers of every status class, body, framing and range; streams with and without an empty chunk; files of 0 to 3 bytes; 70000 states | `ClientStaysInStep`, `PersistsOnlyIfAsked`, `UpstreamIsReleased` |
| `bodyless` (`MCExchangeBodyless.cfg`) | responses and answers without content | violated: see findings |

Bounds and why they are enough:

- *Two requests, one chunk.* The connection's hazards relate a request to the
  next one: one being answered, one queued, half received or timed out. One chunk
  gives a body the states "before", "between" and "after" its parts. Third and
  later requests repeat these; the theorems of section 5 hold for any number.
- *Three connections, two slots, two signals.* One client too many, a slot that
  becomes free, a connection accepted before and made after the drain began, and
  a signal during the drain.
- *7 ticks, burst 5, cost 3.* A bucket is emptied, refilled in part and in full,
  pruned at the boundary of `MaxIdle` and used again.
- *Limits of 6, 3 and 3 bytes.* The lengths lie below, at and above every limit;
  the first message takes every framing and every length, the one behind it every
  framing, requests and responses alike; `Feed` cuts everywhere. Refused units come in
  first and second place, and some before a further request: a unit refused in two pieces
  and passed in one, a buffer that grows past every limit and a parser gone astray are all
  among the states.
- *Two ordinary frames and one of any sort.* Three frames make a fragmented message
  with a frame between its parts, a message behind a message, and every fault with a
  message begun or not; text that does not decode and messages above the limit of 3
  units are among them. Reads of 1 unit leave something over, reads of 4 never do.
  The violation run needs one frame.

- *Three chunks up, two down.* One chunk written, one that fills the writer, one on
  the queue behind it when the end comes; downwards one blocked and one behind it.
- *Files of 0 to 3 bytes, `MaxOffload` 2.* Empty, small enough to be coded in
  memory, and too large; ranges before, across, at and behind the end. Streams yield up to
  three chunks, an empty one nowhere, in the middle or at the end.
- *One second worker.* It may end before, while and after the signal is forwarded,
  and be found gone by `os.kill`.

Every property of a passing run has a mutant of the code's definition that breaks
it (`PROJECT.json`, and the operators marked `Mutant` in the modules).

### Fairness

*Protocol.* Weak fairness on the worker (the event loop runs what is ready;
handlers and files answer eventually), on each armed timer (it expires), on the
408 tasks, on a transport that is closing with nothing to send, on the second pass
of a drain that has begun (`asyncio.sleep` and the deadline), and on the client's
reading of what it is sent. The last one is an assumption about the client, and it
is a real one: there is no write timeout in the code, and a client that never
reads keeps a paused worker, and with it the slot, until it resets. Nothing
obliges the client to send or leave, nor the operator to shut the server down. A
handler that never returns would hold its connection until the drain.

*Server.* Weak fairness on `serve` going on: start, wake-up after the event, the
deadline, the return. Nothing is assumed of connections, so `ShutdownEnds` holds
when all of them hang.

*Supervisor.* That of `Server`, and weak fairness on the loop on `os.wait` and on
other workers that were told to stop (each of them has its own `ShutdownEnds`). It
need not fork, and nobody need send a signal.

*Tunnel.* Weak fairness on every task of the event loop that is ready, and on both
ends reading what they are sent. The latter is an assumption about the peers, as in
*Protocol*: a paused transport whose peer never reads stops its direction for ever.
No peer is obliged to send, end or leave.

*WebSocket.* Weak fairness on the reader only: a task that is ready runs. Neither
client nor application is obliged to anything.

`RateLimiter`, `Parser` and `Exchange` have safety properties only.

## 4. Findings

1. `idle_close`. `worker` arms the idle timer after an answer unless a further
   request is *half* received (`protocol.py` 555). With the next pipelined request
   completely received and queued, the timer is armed and nothing cancels it:
   when the handler of that request takes longer than `idle_timeout`, its
   connection is closed under it. `tests/test_e2e_http.py:585` states the intent:
   idle timeouts close connections *without request*.
2. `timeout_inside_response`. The 408 task does not wait for the worker
   (`protocol.py` 418-424). While a streamed response is being written, a second,
   half-received request that times out puts its status line between two chunks,
   then the transport closes. `tests/test_e2e_http.py:154` expects sequential
   responses.
3. `websocket_end`. `read_message` ends on an empty chunk (`websocket.py` 126-128),
   but nothing puts one on `ws_queue`: neither `eof_received` nor `connection_lost`
   says anything to the WebSocket. A client that goes without a close frame leaves
   the handler's task waiting for ever, and the `finally` of the handler that
   `tests/test_e2e_websocket.py:60` presents as what "a real handler is expected to
   do" is never reached. The run has a fair reader, so this is no scheduling
   artefact.
4. `bodyless`. `send_response` compresses before `finalize_response` looks at the
   status, and `compress` looks at neither status nor length (`models.py` 62, 79-95):
   the empty body of a 204 (a handler's `b""`, or any bodyless answer of an upstream
   server, whose body the parser gives as `b""`) becomes the coding of nothing, a few
   bytes that are written behind a head without framing headers.
   `tests/test_finalizer.py:136` removes those headers because nothing follows. On
   a kept connection the client takes the bytes for its next response.

Some of what the code does is part of the properties rather than a run of its own,
because no document says otherwise, or the properties need it as a condition:

- `prune` gives a client its whole burst back if a bucket does not fill within five
  minutes; `WithinRate` and `ImplementsBuckets` are checked and proved under
  `PruneIsSafe`, the exact condition under which that cannot be observed.
- The verdict of the parser depends on the segments in three cases (`CutsDecide`). Up to
  three bytes of an unfinished terminator count towards the head limit, a finished one does
  not (`protocol.py` 198, 202): a head of 64 KiB, or up to two bytes less, is taken in one
  piece and refused when its terminator is cut. The limits of chunk size lines (4096 bytes,
  line 116) and trailer sections (64 KiB, line 159) count only while the CRLF is missing:
  *every* line and section above them, however long, is taken in one piece and refused in
  two. `SameInAnySegments` shows that these are all: no other unit is refused unless it is
  bad, and no bad one is ever passed. `tests/test_parser.py:232-237` claims that of heads
  above the limit only, for which it holds.
- After an error data goes on being fed and parsed (lines 461-483). While the worker is
  busy or paused, the buffer behind a 431 grows with whatever the peer sends, with no
  timer running, each segment queues a further error, and a chunk with a bad terminator is
  added to the body again with each segment (139 comes before 141). `BufferBounded` ends
  with the first error; `DeliversWhatWasSent` and `SameInAnySegments` are about what comes
  ahead of it, `InStep` about what comes behind it, too.
- `ClientStaysInStep` has four exceptions (`Misframed`): a bodyless status with a body
  (finding 4), a stream for an HTTP/1.0 client (chunks behind a head that announces
  none), a stream that yields an empty chunk (`protocol.py` 857-859 frame it as the
  last-chunk, and the client takes the rest of the body for its next response), a file
  that changed between `os.stat` and its last read.
- A proxied request loses its `Connection: close` before `should_keep_alive` reads it.
- Half close may overtake queued chunks (see `Tunnel`), early bytes and an early end
  of a tunnel are lost, and a tunnel both sides of which have ended is closed by
  nobody.
- Ctrl-C under a supervisor is two signals to each worker, the second of which ends
  it inside its drain.

## 5. Proofs

Each `*_proofs` module shows `Init => IInv` and `IInv /\ [Next]_vars => IInv'`, one
step per action, and derives its theorems.

- *Lifecycle_proofs.* `late <= 1` is not inductive: the invariant adds that once
  a late request has been taken no further verdict can be "another", and that
  slot and transport agree.
- *Protocol_proofs.* All safety invariants of the run and the refinement of
  `Lifecycle`. `OpenIsWatched` needs the timers' rules as they are
  at every stage: the idle timer is armed or a request is arriving when the
  worker waits; a request that is arriving has its timer or its 408 task; a
  worker that is done on an open transport has upgraded it.
  `AtMostOneLateRequest` needs that a keep-alive still true while the server
  drains was decided before a late request was taken. `ResponsesInOrder` has an
  invariant of its own (`OrderInv`): the queue goes on where the current item ends, a
  transport that does not accept never accepts again, and as long as it accepts the
  wire has an answer to every item before the current one, nothing of the current one
  while its response is being prepared, and its head while its body is written. The
  same invariant gives `NothingUnanswered` (`RestOwesNothing`): a worker that has
  nothing left to do on an open connection has answered all that was parsed.
  Assumptions: those named in `Protocol.tla` on the constants.
- *RateLimiter_proofs.* `WithinRate` follows from the potential `granted * Cost +
  Credit <= Burst + now * Rate`: what a client has had and could have now is never
  more than what it was given. The theorems on rate and refinement assume
  `PruneIsSafe` (`Burst <= MaxIdle * Rate`): a bucket that fills more slowly than it
  is pruned comes back full.
- *Server_proofs.* `active` is exactly the live connections; `try_acquire`
  compares its cardinality, so capacity follows by counting. Each step of the
  process is, for each admitted connection, a step of `Lifecycle` or a stutter,
  for any number of connections, slots and signals. Under a supervisor the worker in
  full takes only `Server`'s steps (`SupervisedIsAServer`), so its limits hold there
  too, and `run` returns only after the last worker (`SupervisorIsLast`).
  `LateBoundedForEach` carries `Lifecycle`'s bound on late requests over to every
  connection of a process: the step of the process is one of the abstract
  connection's, and that one keeps its invariant. `SignalReachesAll` is the safety
  half of `StopReachesEveryWorker`: once the signal has been forwarded every worker has
  it or has ended, whatever ended while the supervisor went through its list.
- *Parser_proofs.* For any well-formed stream, segmentation and limits the parser
  stands at the start of the unit it looks for (`InStep`), and each unit is passed or
  refused for what it is, or is one of those whose cut decides (`SameInAnySegments`). The
  invariant adds the types, that nothing but the end of a "close" body is parsed after
  eof, that every unit ahead of the first error was good, and when a parser may have lost
  its place: only after an error (`LostByErrors`). The lemmas `KeepStep` and `DropStep`
  deal with the two ways an error leaves the buffer, `VerdictStays` with the steps that
  pass no unit and refuse none for the first time. On top of it `BodyWithinLimit`
  counts the awaited part of a body with what is there, which bounds the buffer until the
  first error; and `Delivered` says of each result which unit it ends with, and of a body
  without framing that the stream had ended: no byte can come that was left out of it.
- *WebSocket_proofs.* `ReaderWaitsForMore` and `CloseEndsConnection` for any stream
  of frames, segmentation, message limit and sizes. The invariant adds that the
  segments of the feed go on, in order, where the buffer ends (without it a reader
  could step back behind a frame it has taken) and that no close frame is on the wire
  before `close_sent`. The lemmas `PutFrame` and `CloseOnce` deal with the socket,
  `AnswerTyped` with what a read keeps, `TakeStep` with all that a frame taken has in
  common.
  `AnswersPings` is inductive on top of that. `DeliversInOrder` needs `DataInv`: what
  was returned, what is left over and what is being assembled are in the order of the
  stream, each before the next, and made of nothing else (`Ordered`, `Kept`); a new
  message begins with an empty buffer and is handed out with nothing left over; and
  until the connection is closed every unit of every data frame is in one of the three
  places, on its side of the end of its message (`Assembled`). `GrownInOrder` says
  where a frame's units go, `AnswerSplits` how a read cuts a message in two,
  `SentGrows` and `WholeGrows` what one more frame does to what was sent.
  `MessagesBounded` limits what is held of a message and returned to
  `MAX_MESSAGE_SIZE`, and `ReaderYields` shows that the loop of `read_message`, which
  keeps every other task out, takes each segment and frame once: a measure (`Effort`)
  falls with each of its steps.
- *Tunnel_proofs.* Both refinements of `Pipe`, for any number of chunks. The invariant
  says where each chunk is: what was written upstream is an initial part of
  what came after the queue was set, and all that was taken from the queue unless
  the writer has refused one (`UpInv`); what was written to the client is what was
  taken, less the one a blocked relay holds (`DownInv`); and which flags go with
  which stage. `TunnelsAreWhole` then follows from the abstract specification alone.
  `RestHoldsNothing` and `RelaysComeToRest` are what `ChunksArrive`, `EndsArrive` and
  `UpstreamIsReleased` come to without fairness: every step of a task of the tunnel
  lowers `Work`, a natural number that peers who only read leave alone, and when no
  task is ready (`ReadyUp`, `ReadyDown`, `ReadyToClose`) and nobody is paused, every
  chunk and every end has arrived and a client that has gone has left no connection
  behind. Its invariant (`RestInv`) says what the tasks owe: a half close that was
  seen is on its way, a lost client's upstream connection is being closed.
- *Exchange_proofs.* The lemma `FramedIsWellFramed` says what `finalize_response` makes
  of any response with any framing headers, range and file; `WriteHeadKeeps` that what
  is written behind such a head ends where it says; `ChunkKeeps` and `StreamEndKeeps` that
  a stream's chunks on the wire are those it yielded, with one last-chunk behind them. The
  invariant adds that a head on the wire is still that of the response and was framed by
  the file as measured unless the file has changed, and that the options the verdict is
  taken on are those asked for unless the request was sent on. Assumptions: types of the
  constants.

Only model-checked: the liveness properties `RequestsAreAnswered`,
`DrainEndsConnection`, `SilenceEndsConnection`, `ShutdownEnds`,
`StopReachesEveryWorker`, `ChunksArrive`, `EndsArrive` and the tunnel's
`UpstreamIsReleased`. Liveness under fairness, and `ENABLED`, are out of the prover's
reach. Every invariant and action property of a passing run is proved.

Some proved properties are in no run: `OneLateRequestEach` (`Server`),
`SignalMissesNone` (`Supervisor`), `NothingHeldBack` and `TasksComeToRest` (`Tunnel`),
`MessagesAreBounded` and `ReaderGetsOn` (`WebSocket`), `NothingUnanswered` (`Protocol`),
`ExitsLast` (`Supervisor`) and both pipes' `Whole` (`Pipe`). Add them to the configuration of their component to
have TLC check them on its instance; it finds no violation. That the readiness
conditions used in them are the real ones (`ReadyUp \/ ReadyDown \/ ReadyToClose` is
`ENABLED Relaying`, `WorkerReady` is `ENABLED Worker`) TLC can check, the prover cannot.

## 6. Not modelled

- Bytes a client sends behind its upgrade request without waiting for the 101: they
  stay in the HTTP parser. `WebSocket` starts with the first segment after the 101.
- Header syntax, URLs, quoting, dates, the codings themselves and minification: pure
  functions on strings without state; the repository has unit tests of each.
- Request validation beyond its outcome: `handle_request` and `finalize_request`
  either refuse a request or hand it on (`refused` in `Protocol`).
- `Connection.receive(n)` for a given `n`: nothing calls it.
- `Listener.bind`: one sequence of system calls.
- Real time and its arithmetic; memory; threads of `asyncio.to_thread` beyond the
  await they are.

## 7. Plan

1. *Done:* `Lifecycle`, `Protocol`, `Server`, `Supervisor`, `TokenBuckets`, `RateLimiter`,
   `Parser`, `WebSocket`, `Pipe`, `Tunnel` and `Exchange` with their runs and proofs.
   Every safety property is proved; of the tunnel, the supervisor, the connection and
   the WebSocket's reader also the safety part of their liveness.
2. The hand-over from the HTTP parser to `WebSocket` when a client does not wait for
   the 101, and an abstract message stream that `WebSocket` implements.
3. Header and URL operators against reference definitions.

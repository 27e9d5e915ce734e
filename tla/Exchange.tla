------------------------------ MODULE Exchange ------------------------------
(***************************************************************************)
(* One request and its response, as a client takes them off the wire: the  *)
(* handler of an origin server or, in the gateway and proxy roles,         *)
(* dispatch_proxy and its Connection; then send_response,                  *)
(* finalize_response and write_body (src/src/momiji/protocol.py,           *)
(* finalizer.py, models.py).  Bodies are lengths, headers only those that  *)
(* frame a message.  Flow control, timers and drain are Protocol.tla's.    *)
(***************************************************************************)
EXTENDS Naturals, Sequences

CONSTANTS
    Requests,   \* what clients ask: see Request
    Responses,  \* what handlers return: see Response
    Answers,    \* what upstream servers send: see Response
    Sizes,      \* sizes a file may have
    MaxOffload  \* max_offload_filesize

VARIABLES
    role,       \* origin, or gateway for both proxy roles
    request,    \* the request, its headers as they are now
    asked,      \* history: the Connection options it came with
    stage,      \* where handle_request is suspended: see Stages
    response,   \* the response as it is now, or the answer found so far
    upstream,   \* the Connection: none, open, closing or closed
    size,       \* the size of the file that is the body, if one is
    changed,    \* history: it is no longer the size os.stat said
    keepAlive,  \* the verdict of should_keep_alive
    head,       \* what the head written says
    written     \* what was written behind it: see Written
vars == <<role, request, asked, stage, response, upstream, size, changed, keepAlive, head, written>>

Stages == {"start", "sending", "receiving", "tail", "closing", "raising", "stat", "opening",
           "streaming", "done", "failed", "cancelled"}

\* options: of Connection; accepts: Accept-Encoding has a coding the server knows;
\* matches: If-None-Match will equal the ETag.
Request == [method : {"GET", "HEAD"}, protocol : {"HTTP/1.0", "HTTP/1.1"},
            options : SUBSET {"close", "keep-alive"}, accepts : BOOLEAN, matches : BOOLEAN]

\* A body of len bytes (a file's length is size), or of chunks of the lengths yields;
\* length and chunked: the headers Content-Length and Transfer-Encoding; range <<>> or
\* <<first, last>>.
Response == [status : Nat, body : {"none", "bytes", "file", "stream"}, len : Nat,
             yields : Seq(Nat), length : SUBSET Nat, chunked : BOOLEAN, close : BOOLEAN,
             compression : BOOLEAN, range : {<<>>} \cup (Nat \X Nat)]

ASSUME RequestsAssumption == Requests \subseteq Request
ASSUME ResponsesAssumption == Responses \subseteq Response /\ Answers \subseteq Response
ASSUME SizesAssumption == Sizes \subseteq Nat /\ MaxOffload \in Nat

Min2(a, b) == IF a < b THEN a ELSE b

\* Statuses whose messages have no body.
Bodyless(status) == status \in {204, 304} \cup 100..199

\* n bytes as they are, or chunks of these lengths, each behind its length.
Written == [n : Nat, chunks : Seq(Nat)]

BadGateway == [status |-> 502, body |-> "bytes", len |-> 1, yields |-> <<>>, length |-> {},
               chunked |-> FALSE, close |-> FALSE, compression |-> TRUE, range |-> <<>>]
NoHead == [status |-> 0, length |-> {}, chunked |-> FALSE, persists |-> FALSE]
Nothing == [n |-> 0, chunks |-> <<>>]

Init ==
    /\ role \in {"origin", "gateway"}
    /\ request \in Requests /\ asked = request.options
    /\ stage = "start" /\ response = BadGateway /\ upstream = "none"
    /\ size \in Sizes /\ changed = FALSE
    /\ keepAlive = FALSE /\ head = NoHead /\ written = Nothing

-----------------------------------------------------------------------------
(* What happens to a response.                                             *)

\* If-None-Match is compared with the ETag whatever the status and the body.
NotModified(r) == IF request.matches THEN [r EXCEPT !.status = 304, !.body = "none"] ELSE r

\* A coding of n bytes: of another length, and never of none.
Coded(n) == n + 1

\* Response.compress: bytes, and files that are small and sent whole, which become
\* bytes.  Neither status nor method matter.
Compressed(r) ==
    IF ~(r.compression /\ request.accepts) THEN r
    ELSE CASE r.body = "bytes" -> [r EXCEPT !.len = Coded(r.len)]
           [] r.body = "file" /\ r.range = <<>> /\ size \in 1..MaxOffload ->
                [r EXCEPT !.body = "bytes", !.len = Coded(size)]
           [] OTHER -> r

\* Mutant: a first byte behind the end of the file is let through.
InOrder(r) == r.range[1] <= r.range[2]

\* The range is part of the file.
Satisfiable(r) == r.range[1] <= r.range[2] /\ r.range[1] < size

Partial(r) == Min2(r.range[2], size - 1) - r.range[1] + 1

\* Mutant: a Content-Length the handler has set is left alone.
LengthAsSet(r) == IF r.length # {} THEN r.length ELSE {r.len}

\* Content-Length of a body of bytes, of none, or of a file as os.stat finds it.
LengthOf(r) ==
    CASE r.body = "bytes" -> {r.len}
      [] r.body = "none"  -> {0}
      [] r.body = "file"  -> {IF r.range = <<>> THEN size ELSE Partial(r)}

\* finalize_response.
Framed(r) ==
    IF Bodyless(r.status) THEN [r EXCEPT !.length = {}, !.chunked = FALSE]
    ELSE IF r.body = "stream" THEN
        IF request.protocol = "HTTP/1.1" THEN [r EXCEPT !.length = {}, !.chunked = TRUE]
        ELSE [r EXCEPT !.length = {}, !.close = TRUE]
    ELSE IF r.body = "file" /\ r.range # <<>> /\ ~Satisfiable(r) THEN
        [r EXCEPT !.status = 416, !.body = "none", !.length = {0}, !.chunked = FALSE]
    ELSE [r EXCEPT !.status = IF r.body = "file" /\ r.range # <<>> THEN 206 ELSE @,
                   !.length = LengthOf(r), !.chunked = FALSE]

\* In the proxy roles the options of Connection go first, and Transfer-Encoding.
Finalized(r) ==
    Framed(IF role = "origin" THEN r ELSE [r EXCEPT !.close = FALSE, !.chunked = FALSE])

\* Mutant: every request may be followed by another.
PersistsAlways(options, protocol) == "close" \notin options

\* should_keep_alive, while the server does not shut down.
Persists(options, protocol) ==
    /\ "close" \notin options
    /\ protocol = "HTTP/1.1" \/ "keep-alive" \in options

-----------------------------------------------------------------------------
(* send_response.                                                          *)

\* The handler, dispatch_proxy before its connection, what is done with the file or
\* the stream raises: the worker's own answer follows, and the end of the connection.
Fails ==
    /\ stage \in {"start", "stat", "opening", "streaming"} /\ stage' = "failed"
    /\ UNCHANGED <<role, request, asked, response, upstream, size, changed, keepAlive, head,
                   written>>

\* The head, and a body that needs no await of its own.
WriteHead(r) ==
    /\ response' = r
    /\ head' = [status |-> r.status, length |-> r.length, chunked |-> r.chunked,
                persists |-> keepAlive' /\ ~r.close]
    /\ changed' = FALSE
    /\ stage' = CASE request.method # "HEAD" /\ r.body = "file"   -> "opening"
                  [] request.method # "HEAD" /\ r.body = "stream" -> "streaming"
                  [] OTHER -> "done"
    /\ written' = IF request.method # "HEAD" /\ r.body = "bytes"
                  THEN [n |-> r.len, chunks |-> <<>>] ELSE Nothing

\* Up to the head, or to the await of os.stat in finalize_response.
SendResponse(r) ==
    LET c == Compressed(NotModified(r))
    IN  /\ keepAlive' = Persists(request'.options, request.protocol)
        /\ IF c.body = "file" /\ ~Bodyless(c.status)
           THEN /\ stage' = "stat" /\ response' = c
                /\ UNCHANGED <<changed, head, written>>
           ELSE WriteHead(Finalized(c))

\* The handler of an origin server.
HandlerReturns ==
    /\ role = "origin" /\ stage = "start"
    /\ UNCHANGED <<role, request, asked, upstream, size>>
    /\ \E r \in Responses : SendResponse(r)

StatReturns ==
    /\ stage = "stat"
    /\ UNCHANGED <<role, request, asked, upstream, size, keepAlive>>
    /\ WriteHead(Finalized(response))

\* Another process writes to the file.
FileChanges ==
    /\ stage \in {"stat", "opening"}
    /\ size' \in Sizes \ {size} /\ changed' = TRUE
    /\ UNCHANGED <<role, request, asked, stage, response, upstream, keepAlive, head, written>>

\* What there is to read of a file of k bytes: all, or the range the handler asked for.
Readable(r, k) ==
    IF r = <<>> THEN k ELSE IF r[1] >= k \/ r[1] > r[2] THEN 0 ELSE Min2(r[2] + 1, k) - r[1]

\* write_body of a file, which it reads in pieces: if it changes meanwhile, they are
\* of one size and another.
FileIsWritten ==
    /\ stage = "opening" /\ stage' = "done"
    /\ \E n \in IF changed THEN UNION {0..Readable(response.range, k) : k \in Sizes}
              ELSE {Readable(response.range, size)} :
         written' = [n |-> n, chunks |-> <<>>]
    /\ UNCHANGED <<role, request, asked, response, upstream, size, changed, keepAlive, head>>

\* write_body of a stream, whatever the head said: each chunk is framed by its length,
\* an empty one too, which makes it the last-chunk.
ChunkIsWritten ==
    /\ stage = "streaming" /\ Len(written.chunks) < Len(response.yields)
    /\ written' = [written EXCEPT !.chunks = Append(@, response.yields[Len(@) + 1])]
    /\ UNCHANGED <<role, request, asked, stage, response, upstream, size, changed, keepAlive,
                   head>>

StreamEnds ==
    /\ stage = "streaming" /\ Len(written.chunks) = Len(response.yields)
    /\ stage' = "done" /\ written' = [written EXCEPT !.chunks = Append(@, 0)]
    /\ UNCHANGED <<role, request, asked, response, upstream, size, changed, keepAlive, head>>

-----------------------------------------------------------------------------
(* dispatch_proxy.                                                         *)

\* open_connection fails: a 502 of its own.
ConnectFails ==
    /\ role = "gateway" /\ stage = "start"
    /\ UNCHANGED <<role, request, asked, upstream, size>>
    /\ SendResponse(BadGateway)

\* The hop-by-hop headers are removed from the request itself, Connection among
\* them, and the rest is sent.
Connected ==
    /\ role = "gateway" /\ stage = "start" /\ stage' = "sending"
    /\ upstream' = "open"
    /\ request' = [request EXCEPT !.options = {}]
    /\ UNCHANGED <<role, asked, response, size, changed, keepAlive, head, written>>

Sent ==
    /\ stage = "sending" /\ stage' = "receiving"
    /\ UNCHANGED <<role, request, asked, response, upstream, size, changed, keepAlive, head,
                   written>>

\* The finally clause: connection.close(), after which next comes.
Finally(r, next) ==
    /\ upstream' = "closing" /\ stage' = next /\ response' = r
    /\ UNCHANGED <<role, request, asked, size, changed, keepAlive, head, written>>

\* The head of an answer says where its body ends: find_body_mode.
SaysItsEnd(a) == request.method = "HEAD" \/ Bodyless(a.status) \/ a.length # {} \/ a.chunked

\* The first message the parser completes is the response, a 1xx too; its body is
\* bytes, and what framed it is gone except for a Content-Length.
Answered ==
    /\ stage = "receiving"
    /\ \E a \in Answers :
         /\ SaysItsEnd(a)
         /\ Finally([a EXCEPT !.body = "bytes", !.chunked = FALSE, !.close = FALSE,
                              !.len = IF request.method = "HEAD" \/ Bodyless(a.status)
                                      THEN 0 ELSE @],
                    "closing")

\* Otherwise the body goes on until the connection ends.
TailBegins ==
    /\ stage = "receiving" /\ stage' = "tail"
    /\ \E a \in Answers : ~SaysItsEnd(a) /\ response' = [a EXCEPT !.body = "bytes", !.close = FALSE]
    /\ UNCHANGED <<role, request, asked, upstream, size, changed, keepAlive, head, written>>

\* pump reports a reset like an end: what has come of a body without a length is
\* the body, what has come of any other message is nothing.
UpstreamEnds ==
    \/ /\ stage = "tail"
       /\ \E n \in 0..response.len : Finally([response EXCEPT !.len = n], "closing")
    \/ /\ stage = "receiving"
       /\ Finally(BadGateway, "closing")

\* Mutant: what raises leaves the connection open.
RaisesPast ==
    /\ stage \in {"sending", "receiving", "tail"}
    /\ stage' = "raising"
    /\ UNCHANGED <<role, request, asked, response, upstream, size, changed, keepAlive, head,
                   written>>

\* The parser refuses what comes, or send finds the connection reset.
Raises ==
    /\ stage \in {"sending", "receiving", "tail"}
    /\ Finally(response, "raising")

\* wait_closed returns; an exception goes on to the worker's own answer.
CloseReturns ==
    /\ upstream = "closing" /\ upstream' = "closed"
    /\ UNCHANGED <<role, request, asked, size>>
    /\ IF stage = "closing" THEN SendResponse(response)
       ELSE /\ stage' = IF stage = "raising" THEN "failed" ELSE stage
            /\ UNCHANGED <<response, changed, keepAlive, head, written>>

\* connection_lost cancels the worker wherever it waits; dispatch_proxy's finally
\* clause runs.
ClientLost ==
    /\ stage \in {"start", "sending", "receiving", "tail", "closing", "raising", "stat", "opening",
                 "streaming"}
    /\ stage' = "cancelled"
    /\ upstream' = IF upstream = "open" THEN "closing" ELSE upstream
    /\ UNCHANGED <<role, request, asked, response, size, changed, keepAlive, head, written>>

-----------------------------------------------------------------------------
Answer == HandlerReturns \/ StatReturns \/ FileChanges \/ FileIsWritten \/ ChunkIsWritten
          \/ StreamEnds \/ Fails
Dispatch == ConnectFails \/ Connected \/ Sent \/ Answered \/ TailBegins \/ UpstreamEnds
            \/ Raises \/ CloseReturns
Next == Answer \/ Dispatch \/ ClientLost

Spec == Init /\ [][Next]_vars

-----------------------------------------------------------------------------
TypeOK ==
    /\ role \in {"origin", "gateway"} /\ request \in Request
    /\ asked \subseteq {"close", "keep-alive"}
    /\ stage \in Stages /\ response \in Response
    /\ upstream \in {"none", "open", "closing", "closed"}
    /\ size \in Sizes /\ changed \in BOOLEAN /\ keepAlive \in BOOLEAN
    /\ head \in [status : Nat, length : SUBSET Nat,
                 chunked : BOOLEAN, persists : BOOLEAN]
    /\ written \in Written

\* A chunked body goes up to the first chunk of length zero.
EndsWithLastChunk(chunks) ==
    chunks # <<>> /\ \A i \in 1..Len(chunks) : chunks[i] = 0 <=> i = Len(chunks)

\* Where the client, by RFC 7230 3.3.3, takes the message to end is where its
\* bytes end, so that the next response starts where the client looks for it.
EndsAsAnnounced ==
    IF request.method = "HEAD" \/ Bodyless(head.status) THEN written = Nothing
    ELSE \/ head.chunked /\ EndsWithLastChunk(written.chunks)
         \/ ~head.chunked /\ written.chunks = <<>> /\ head.length = {written.n}
         \/ ~head.chunked /\ written.chunks = <<>> /\ head.length = {} /\ ~head.persists

\* The four kinds of response the code gets wrong: a body with a status that has
\* none, a stream for HTTP/1.0, a stream with an empty chunk, a file that changed after
\* os.stat.
Misframed ==
    \/ /\ Bodyless(head.status)
       /\ response.body \in {"file", "stream"} \/ (response.body = "bytes" /\ response.len > 0)
    \/ request.protocol = "HTTP/1.0" /\ response.body = "stream"
    \/ response.body = "stream" /\ \E i \in 1..Len(response.yields) : response.yields[i] = 0
    \/ response.body = "file" /\ changed

\* For every other response, from wherever it comes and whatever is done to it.
ClientStaysInStep == stage = "done" /\ ~Misframed => EndsAsAnnounced

\* A connection is kept only for a client that asked for it, by its version or its
\* options as they came; but a request that was sent on has lost its "close".
PersistsOnlyIfAsked ==
    stage = "done" /\ head.persists =>
        /\ "close" \in asked => upstream # "none"
        /\ request.protocol = "HTTP/1.0" => "keep-alive" \in asked

\* On every path out of dispatch_proxy, exceptions and cancellation included, the
\* connection to the upstream server is being closed, or is closed, before anything
\* is answered.
UpstreamIsReleased ==
    upstream = "open" => stage \in {"sending", "receiving", "tail"}

\* test_bodyless_statuses_strip_length_and_transfer_encoding: 1xx, 204 and 304
\* have no body.
BodylessHasNoBody == stage = "done" /\ Bodyless(head.status) => written = Nothing

=============================================================================

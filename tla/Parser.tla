------------------------------- MODULE Parser -------------------------------
(***************************************************************************)
(* MessageParser, ChunkedDecoder and find_body_mode of                     *)
(* src/src/momiji/protocol.py: HTTP messages cut out of a byte stream that *)
(* arrives in segments of any size.  The stream is the sequence of units   *)
(* its sender put there, seen by their lengths; the parser knows only how  *)
(* many bytes it holds and where the next terminator is.                   *)
(*                                                                         *)
(* data_received calls try_parse until it returns None or raises, so a     *)
(* segment comes only while the parser Waits.  A raised HTTPError stops    *)
(* nothing: the next segment is fed and parsed like any other, from where  *)
(* the error left buffer and stage.  The worker answers the first error    *)
(* and serves nothing behind it (Protocol.tla).  The parser of a response  *)
(* is dropped with its exchange when it raises (dispatch_proxy).           *)
(***************************************************************************)
EXTENDS Naturals, Sequences

CONSTANTS
    Streams,  \* what may be sent, see StreamsAssumption
    MaxHead,  \* MAX_HEADER_SIZE
    MaxLine,  \* the limit of a chunk size line, 4096
    MaxBody   \* MAX_BODY_SIZE

(* A unit of the stream: kind "head", "fixed" (a Content-Length body),     *)
(* "line" (chunk size), "data" (chunk), "trailer" or "close" (a body ended *)
(* by the end of the stream).                                              *)
(*   start   where it begins, counted in bytes                             *)
(*   len     its length without the CRLFs that end it                      *)
(*   size    head: the Content-Length; line: the chunk size                *)
(*   before  bytes of body the same message has before it                  *)
(*   te, cl  head: its framing headers                                     *)
(*   resp    it is of a stream of responses, as the parser's is_response   *)
(*           says                                                          *)
(*   bare    head: answers HEAD, or the status forbids a body              *)
(*   ok      it is well formed                                             *)
Unit == [kind : {"head", "fixed", "line", "data", "trailer", "close"},
         start : Nat, len : Nat, size : Nat, before : Nat,
         te : {"absent", "chunked", "other"}, cl : {"absent", "one", "differ", "invalid"},
         resp : BOOLEAN, bare : BOOLEAN, ok : BOOLEAN]

\* The terminator: an empty trailer section is CRLF alone.
Ending(u) == CASE u.kind = "head"             -> 4
               [] u.kind \in {"line", "data"} -> 2
               [] u.kind = "trailer"          -> IF u.len = 0 THEN 2 ELSE 4
               [] OTHER                       -> 0
EndOf(u) == u.start + u.len + Ending(u)

\* What RFC 7230, 3.3.3, lets a sender put behind a unit ("head": next message).
NextKind(u) ==
    CASE u.kind = "head" /\ u.resp /\ u.bare -> "head"
      [] u.kind = "head" /\ ~(u.resp /\ u.bare) ->
             (CASE u.te # "absent"                    -> "line"
                [] u.te = "absent" /\ u.cl # "absent" -> "fixed"
                [] OTHER -> IF u.resp THEN "close" ELSE "head")
      [] u.kind = "line" -> IF u.size = 0 THEN "trailer" ELSE "data"
      [] u.kind = "data" -> "line"
      [] OTHER           -> "head"

Follows(u, v) ==
    /\ u.kind # "close"  \* it ends with the stream
    /\ v.start = EndOf(u) /\ v.kind = NextKind(u) /\ v.resp = u.resp
    /\ v.kind \in {"fixed", "data"} => v.len = u.size
    /\ v.before = CASE v.kind = "line" /\ u.kind = "data" -> u.before + u.len
                    [] v.kind \in {"data", "trailer"}     -> u.before
                    [] OTHER                              -> 0

WellFormed(s) ==
    /\ s \in Seq(Unit) /\ s # <<>>
    /\ s[1].kind = "head" /\ s[1].start = 0 /\ s[1].before = 0
    /\ \A i \in 1..(Len(s) - 1) : Follows(s[i], s[i + 1])
    /\ NextKind(s[Len(s)]) = "head" \/ ~s[Len(s)].ok

ASSUME LimitsAssumption == MaxHead \in Nat /\ MaxLine \in Nat /\ MaxBody \in Nat
ASSUME StreamsAssumption == \A s \in Streams : WellFormed(s)

VARIABLES
    stream,    \* what the peer sends
    received,  \* bytes fed
    eof,       \* closed_eof
    consumed,  \* bytes deleted from the front of the buffer
    at,        \* the unit the parser is in
    stage,     \* "head", or in the body "fixed", "line", "data", "trailer", "close";
               \* "kept": chunked.done, with trailers that were refused;
               \* "astray": what it looks for is not what comes next
    need,      \* content_length, or ChunkedDecoder.remaining
    body,      \* bytes of the body so far
    out,       \* history: results queued ahead of the first error, by their last unit
               \* and the size of the body
    raised,    \* the last try_parse raised, and nothing was fed since
    refused    \* history: the unit it first raised an HTTPError at, or 0
vars == <<stream, received, eof, consumed, at, stage, need, body, out, raised, refused>>

Total == EndOf(stream[Len(stream)])

\* The unit at the front of the buffer; behind the last, one that never comes.
Current ==
    IF at <= Len(stream) THEN stream[at]
    ELSE [kind |-> "head", start |-> Total, len |-> 1, size |-> 0, before |-> 0,
          te |-> "absent", cl |-> "absent", resp |-> stream[1].resp, bare |-> FALSE,
          ok |-> TRUE]

Init ==
    /\ stream \in Streams
    /\ received = 0 /\ eof = FALSE /\ consumed = 0 /\ at = 1
    /\ stage = "head" /\ need = 0 /\ body = 0 /\ out = <<>>
    /\ raised = FALSE /\ refused = 0

-----------------------------------------------------------------------------
\* An error is in the request queue.
failed == refused # 0

\* len(self.buffer)
Held == received - consumed

\* Mutant: a chunk is taken before the CRLF behind it is there.
NeededBeforeCRLF ==
    CASE stage = "head"    -> Current.len + 4
      [] stage = "fixed"   -> need
      [] stage = "line"    -> Current.len + 2
      [] stage = "data"    -> need
      [] stage = "trailer" -> Current.len + Ending(Current)
      [] OTHER             -> 0

\* How many bytes complete what the parser is looking for.
Needed ==
    CASE stage = "head"    -> Current.len + 4
      [] stage = "fixed"   -> need
      [] stage = "line"    -> Current.len + 2
      [] stage = "data"    -> need + 2
      [] stage = "trailer" -> Current.len + Ending(Current)
      [] OTHER             -> 0

\* Mutant: one byte too early.
CompleteOneShort ==
    IF stage = "close" THEN eof ELSE stage # "astray" /\ Held + 1 >= Needed

Complete == IF stage = "close" THEN eof ELSE stage # "astray" /\ Held >= Needed

\* Mutant: a trailer section may grow for ever.
OverrunInHeadsOnly ==
    ~Complete /\ \/ stage = "head" /\ Held > MaxHead
                 \/ stage = "line" /\ Held > MaxLine

\* No terminator in more bytes than are allowed before it.
Overrun ==
    ~Complete /\ \/ stage \in {"head", "trailer"} /\ Held > MaxHead
                 \/ stage = "line" /\ Held > MaxLine

\* try_parse returned None or raised.
Waits == IF raised THEN ~stream[1].resp ELSE ~Complete /\ ~Overrun

Feed(n) ==
    /\ Waits /\ ~eof /\ received + n <= Total
    /\ received' = received + n /\ raised' = FALSE
    /\ UNCHANGED <<stream, eof, consumed, at, stage, need, body, out, refused>>

SignalEof ==
    /\ Waits /\ ~eof
    /\ eof' = TRUE
    /\ UNCHANGED <<stream, received, consumed, at, stage, need, body, out, raised, refused>>

-----------------------------------------------------------------------------
\* An HTTPError is raised, and data_received queues it.
Fail ==
    /\ raised' = TRUE /\ refused' = IF failed THEN refused ELSE at
    /\ UNCHANGED <<stream, received, eof, need, out>>

\* It was raised before anything was deleted: the next segment meets the same bytes.
Keep == UNCHANGED <<consumed, at, stage, body>>

\* It was raised when the unit had been deleted but not left: what comes next is
\* taken for another of its kind.
Drop ==
    /\ consumed' = consumed + Needed
    /\ at' = at + 1 /\ stage' = IF Current'.kind = stage THEN stage ELSE "astray"
    /\ UNCHANGED body

\* The front unit is deleted from the buffer and the parser looks for another.
Goto(s) ==
    /\ consumed' = consumed + Needed
    /\ at' = at + 1 /\ stage' = s
    /\ UNCHANGED <<stream, received, eof, raised, refused>>

\* Mutant: reset() keeps the body.
DeliverWithoutReset(n) ==
    /\ out' = IF failed THEN out ELSE Append(out, [last |-> at, body |-> n])
    /\ need' = 0 /\ body' = n

\* try_parse returns a message with a body of n bytes and resets the parser.
Deliver(n) ==
    /\ out' = IF failed THEN out ELSE Append(out, [last |-> at, body |-> n])
    /\ need' = 0 /\ body' = 0

\* Mutant: a response to HEAD is read as one to GET.
FindBodyModeOfGet(u) ==
    CASE u.te # "absent" -> IF u.te = "chunked" /\ u.cl = "absent" THEN "line" ELSE "error"
      [] u.te = "absent" /\ u.cl # "absent" ->
             IF u.cl = "one" /\ u.size <= MaxBody THEN "fixed" ELSE "error"
      [] OTHER -> IF u.resp THEN "close" ELSE "none"

\* find_body_mode, with its modes named by the unit they make the parser expect.
FindBodyMode(u) ==
    CASE u.resp /\ u.bare -> "none"
      [] ~(u.resp /\ u.bare) /\ u.te # "absent" ->
             IF u.te = "chunked" /\ u.cl = "absent" THEN "line" ELSE "error"
      [] ~(u.resp /\ u.bare) /\ u.te = "absent" /\ u.cl # "absent" ->
             IF u.cl = "one" /\ u.size <= MaxBody THEN "fixed" ELSE "error"
      [] OTHER -> IF u.resp THEN "close" ELSE "none"

\* Mutant: a head that came in one piece may be as long as it likes.
HeadFitsAlways(u) == TRUE

\* The limit for a head whose terminator is there.
HeadFits(u) == u.len <= MaxHead

HeadEnds ==
    /\ stage = "head" /\ Complete
    /\ IF ~HeadFits(Current) THEN Fail /\ Keep
       ELSE IF ~Current.ok \/ FindBodyMode(Current) = "error" THEN Fail /\ Drop
       ELSE IF FindBodyMode(Current) = "none"
       THEN Goto("head") /\ Deliver(0)
       ELSE /\ Goto(FindBodyMode(Current))
            /\ need' = Current.size
            /\ UNCHANGED <<body, out>>

FixedEnds ==
    /\ stage = "fixed" /\ Complete
    /\ Goto("head") /\ Deliver(need)

\* A chunk size line has no limit once its CRLF is there.
LineEnds ==
    /\ stage = "line" /\ Complete
    /\ IF ~Current.ok \/ body + Current.size > MaxBody
       THEN Fail /\ Drop
       ELSE /\ Goto(IF Current.size = 0 THEN "trailer" ELSE "data")
            /\ need' = Current.size
            /\ UNCHANGED <<body, out>>

\* The chunk is added to the body before the CRLF behind it is looked at, and if that
\* is missing again with every segment.
DataEnds ==
    /\ stage = "data" /\ Complete
    /\ body' = body + need
    /\ IF ~Current.ok THEN Fail /\ UNCHANGED <<consumed, at, stage>>
       ELSE Goto("line") /\ UNCHANGED <<need, out>>

\* Nor has a trailer section.  A malformed one is off the buffer and stays in the
\* decoder.
TrailerEnds ==
    /\ stage = "trailer" /\ Complete
    /\ IF ~Current.ok
       THEN Fail /\ consumed' = consumed + Needed /\ stage' = "kept" /\ UNCHANGED <<at, body>>
       ELSE Goto("head") /\ Deliver(body)

\* It is refused again with every segment.
TrailersAgain == stage = "kept" /\ Fail /\ Keep

\* A body without framing is whatever came before the end of the stream.
CloseEnds ==
    /\ stage = "close" /\ Complete
    /\ consumed' = received /\ at' = at + 1 /\ stage' = "head"
    /\ Deliver(Held)
    /\ UNCHANGED <<stream, received, eof, raised, refused>>

TooLong == Overrun /\ Fail /\ Keep

\* What is made of bytes that were not sent as what they are taken for is left open:
\* any part of them is deleted, and more errors are raised or not.
Wander ==
    /\ stage = "astray" /\ ~eof
    /\ consumed' \in consumed..received /\ raised' \in BOOLEAN
    /\ UNCHANGED <<stream, received, eof, at, stage, need, body, out, refused>>

Parse == ~raised /\ (HeadEnds \/ FixedEnds \/ LineEnds \/ DataEnds \/ TrailerEnds
                     \/ TrailersAgain \/ CloseEnds \/ TooLong \/ Wander)

Next == Parse \/ SignalEof \/ \E n \in 1..Total : Feed(n)

Spec == Init /\ [][Next]_vars

-----------------------------------------------------------------------------
TypeOK ==
    /\ received \in Nat /\ consumed \in Nat /\ consumed <= received /\ received <= Total
    /\ eof \in BOOLEAN /\ raised \in BOOLEAN /\ refused \in 0..Len(stream)
    /\ at \in 1..(Len(stream) + 1)
    /\ stage \in {"head", "fixed", "line", "data", "trailer", "close", "kept", "astray"}
    /\ need \in Nat /\ body \in Nat
    /\ out \in Seq([last : Nat, body : Nat])

\* The parser never loses its place: between messages and inside chunks it stands
\* at the first byte of what it is looking for, however the bytes came.  After an
\* error too, unless what it refused had been deleted; but a chunk whose CRLF is
\* missing is then in the body more than once.
InStep ==
    stage \notin {"kept", "astray"} /\ (eof => stage = "close") =>
        /\ consumed = Current.start
        /\ stage = Current.kind
        /\ body = Current.before \/ (stage = "data" /\ ~Current.ok /\ failed)
        /\ stage \in {"fixed", "data"} => need = Current.len

\* The unit that decides how far the peer was understood: all before it were passed
\* before any was refused.
Ahead == IF failed THEN refused ELSE at

\* Ahead of the first error, behind which nothing is served, messages are delivered
\* one for one and in order, each with the body its sender gave it and nothing of
\* another's.
EndsMessage(i) == i = Len(stream) \/ stream[i + 1].kind = "head"
BodySize(u) == CASE u.kind \in {"fixed", "close"} -> u.len
                 [] u.kind = "trailer"            -> u.before
                 [] OTHER                         -> 0
DeliversWhatWasSent ==
    /\ {out[j].last : j \in DOMAIN out} = {i \in 1..(Ahead - 1) : EndsMessage(i)}
    /\ \A j \in DOMAIN out :
           /\ j > 1 => out[j - 1].last < out[j].last
           /\ out[j].body = BodySize(stream[out[j].last])
              \/ (stream[out[j].last].kind = "close" /\ received < Total)

\* What is wrong with a unit that is there as a whole.
Bad(u) ==
    \/ ~u.ok /\ u.kind \notin {"fixed", "close"}
    \/ u.kind = "head" /\ (u.len > MaxHead \/ FindBodyMode(u) = "error")
    \/ u.kind = "line" /\ u.before + u.size > MaxBody

\* Units that are passed or refused by the way they are cut: a head so close to the
\* limit that an unfinished terminator takes the buffer over it, and every size
\* line and trailer section of the limit or more, since those limits count only
\* while the terminator has not come.
CutsDecide(u) ==
    \/ u.kind = "head" /\ u.len <= MaxHead /\ u.len + 3 > MaxHead
    \/ u.kind = "trailer" /\ u.len + 3 > MaxHead
    \/ u.kind = "line" /\ u.len >= MaxLine

\* The verdict on a head and on a body is its own, whatever segments it comes in: a
\* bad one is never passed, and a good one refused only if it is a head within two
\* bytes of the limit.  On a size line or a trailer section it is so only below the
\* limit: above, the malformed ones alone are refused however they come.
SameInAnySegments ==
    /\ \A i \in 1..(Ahead - 1) : ~Bad(stream[i])
    /\ failed => Bad(stream[refused]) \/ CutsDecide(stream[refused])

\* Until it refuses something the parser holds, while it waits for more, no more
\* than its limits allow: a peer that sends without end is refused.  A body that
\* ends with the stream has no limit at all, nor has anything after an error.
LargestLimit == IF MaxHead < MaxBody + 1 THEN MaxBody + 1 ELSE MaxHead
BufferBounded ==
    ~failed /\ Waits /\ stage # "close" =>
        /\ body <= MaxBody
        /\ Held <= IF LargestLimit < MaxLine THEN MaxLine ELSE LargestLimit

=============================================================================

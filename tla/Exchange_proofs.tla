--------------------------- MODULE Exchange_proofs ---------------------------
(***************************************************************************)
(* Proofs about Exchange.tla, for every request, response, upstream answer *)
(* and file size: a client is left where the next response starts, a       *)
(* connection is kept only when that was asked for, an upstream connection *)
(* is released before anything is answered.                                *)
(***************************************************************************)
EXTENDS Exchange, TLAPS

\* The length of a file's body, if the file has n bytes.
FileLen(range, n) == IF range = <<>> THEN n ELSE Min2(range[2], n - 1) - range[1] + 1

\* What finalize_response makes of a response, with a file of n bytes.
WellFramed(r, n) ==
    \/ Bodyless(r.status)
    \/ r.body = "stream" /\ (request.protocol = "HTTP/1.1" => r.chunked)
    \/ r.body = "bytes" /\ r.length = {r.len} /\ ~r.chunked
    \/ r.body = "none" /\ r.length = {0} /\ ~r.chunked
    \/ /\ r.body = "file" /\ r.length = {FileLen(r.range, n)} /\ ~r.chunked
       /\ r.range = <<>> \/ (r.range[1] <= r.range[2] /\ r.range[1] < n)

\* A head on the wire is that of the response.
HeadInv ==
    stage \in {"opening", "streaming", "done"} =>
        /\ head.status = response.status /\ head.length = response.length
        /\ head.chunked = response.chunked
        /\ head.persists => keepAlive

\* A body that is still to come is framed by its head: a file by its size if it did
\* not change, a stream by what it has yielded so far.
FramedInv ==
    /\ stage = "opening" =>
         /\ response.body = "file" /\ request.method # "HEAD"
         /\ ~changed => WellFramed(response, size)
    /\ stage = "streaming" =>
         /\ response.body = "stream" /\ request.method # "HEAD" /\ WellFramed(response, size)
         /\ written.n = 0 /\ Len(written.chunks) <= Len(response.yields)
         /\ \A i \in 1..Len(written.chunks) : written.chunks[i] = response.yields[i]

\* The verdict is on the options as they are when it is taken.
OptionsInv ==
    /\ request.options \subseteq asked
    /\ upstream = "none" => request.options = asked
    /\ stage \in {"stat", "opening", "streaming", "done"} =>
         (keepAlive => Persists(request.options, request.protocol))

\* The inductive invariant.
IInv == TypeOK /\ HeadInv /\ FramedInv /\ OptionsInv /\ ClientStaysInStep /\ UpstreamIsReleased

-----------------------------------------------------------------------------
(* Responses.                                                              *)

LEMMA ResponseFields ==
    ASSUME NEW r \in Response
    PROVE  /\ r.status \in Nat /\ r.body \in {"none", "bytes", "file", "stream"} /\ r.len \in Nat
           /\ r.yields \in Seq(Nat) /\ r.length \in SUBSET Nat /\ r.chunked \in BOOLEAN /\ r.close \in BOOLEAN
           /\ r.compression \in BOOLEAN
           /\ r.range = <<>> \/ (r.range # <<>> /\ r.range[1] \in Nat /\ r.range[2] \in Nat)
BY DEF Response

LEMMA BadGatewayTyped == BadGateway \in Response
BY DEF BadGateway, Response

LEMMA NotModifiedTyped ==
    ASSUME NEW r \in Response
    PROVE  NotModified(r) \in Response
<1>. DEFINE b == "none"
            n == 304
<1>1. b \in {"none", "bytes", "file", "stream"} /\ n \in Nat
  OBVIOUS
<1>2. NotModified(r) = IF request.matches THEN [r EXCEPT !.status = n, !.body = b] ELSE r
  BY DEF NotModified
<1>. HIDE DEF b, n
<1>3. [r EXCEPT !.status = n, !.body = b] \in Response
  BY <1>1 DEF Response
<1>. QED
  BY <1>2, <1>3

LEMMA CompressedTyped ==
    ASSUME NEW r \in Response, size \in Nat
    PROVE  Compressed(r) \in Response
<1>1. [r EXCEPT !.len = Coded(r.len)] \in Response
  BY DEF Response, Coded
<1>2. [r EXCEPT !.body = "bytes", !.len = Coded(size)] \in Response
  <2>. DEFINE b == "bytes"
  <2>1. b \in {"none", "bytes", "file", "stream"} /\ Coded(size) \in Nat
    BY DEF Coded
  <2>2. [r EXCEPT !.body = b, !.len = Coded(size)] \in Response
    <3>. HIDE DEF b
    <3>. QED
      BY <2>1 DEF Response
  <2>. QED
    BY <2>2
<1>3. r.body \in {"none", "bytes", "file", "stream"}
  BY ResponseFields
<1>. QED
  BY <1>1, <1>2, <1>3 DEF Compressed

\* A part of a file has a length.
LEMMA LengthTyped ==
    ASSUME NEW r \in Response, size \in Nat, r.body # "stream",
           r.body = "file" => r.range = <<>> \/ Satisfiable(r)
    PROVE  LengthOf(r) \in SUBSET Nat
BY ResponseFields DEF LengthOf, Partial, Min2, Satisfiable

LEMMA FramedIsWellFramed ==
    ASSUME NEW r \in Response, size \in Nat, request \in Request
    PROVE  Framed(r) \in Response /\ WellFramed(Framed(r), size)
<1>0. request.protocol \in {"HTTP/1.0", "HTTP/1.1"}
  BY DEF Request
<1>1. CASE Bodyless(r.status)
  <2>1. [r EXCEPT !.length = {}, !.chunked = FALSE] \in Response
    BY DEF Response
  <2>2. [r EXCEPT !.length = {}, !.chunked = FALSE].status = r.status
    BY DEF Response
  <2>. QED
    BY <1>1, <2>1, <2>2 DEF Framed, WellFramed
<1>2. CASE ~Bodyless(r.status) /\ r.body = "stream"
  <2>1. /\ [r EXCEPT !.length = {}, !.chunked = TRUE] \in Response
        /\ [r EXCEPT !.length = {}, !.chunked = TRUE].body = "stream"
        /\ [r EXCEPT !.length = {}, !.chunked = TRUE].chunked
    BY <1>2 DEF Response
  <2>2. /\ [r EXCEPT !.length = {}, !.close = TRUE] \in Response
        /\ [r EXCEPT !.length = {}, !.close = TRUE].body = "stream"
    BY <1>2 DEF Response
  <2>. QED
    BY <1>0, <1>2, <2>1, <2>2 DEF Framed, WellFramed
<1>3. CASE /\ ~Bodyless(r.status) /\ r.body = "file" /\ r.range # <<>> /\ ~Satisfiable(r)
  <2>. DEFINE b == "none"
              l == {0}
              n == 416
              q == [r EXCEPT !.status = n, !.body = b, !.length = l, !.chunked = FALSE]
  <2>1. b \in {"none", "bytes", "file", "stream"} /\ l \in SUBSET Nat /\ n \in Nat
    OBVIOUS
  <2>2. q \in Response /\ q.body = b /\ q.length = l /\ ~q.chunked
    <3>. HIDE DEF b, l, n
    <3>1. q \in Response
      BY <2>1 DEF Response
    <3>2. q.body = b /\ q.length = l
      BY DEF Response
    <3>3. ~q.chunked
      BY DEF Response
    <3>. QED
      BY <3>1, <3>2, <3>3
  <2>3. Framed(r) = q
    BY <1>3 DEF Framed
  <2>4. q \in Response /\ WellFramed(q, size)
    <3>. HIDE DEF q
    <3>. QED
      BY <2>2 DEF WellFramed
  <2>. QED
    BY <2>3, <2>4
<1>4. CASE /\ ~Bodyless(r.status) /\ r.body # "stream"
           /\ ~(r.body = "file" /\ r.range # <<>> /\ ~Satisfiable(r))
  <2>. DEFINE st == IF r.body = "file" /\ r.range # <<>> THEN 206 ELSE r.status
              q == [r EXCEPT !.status = st, !.length = LengthOf(r), !.chunked = FALSE]
  <2>1. LengthOf(r) \in SUBSET Nat
    BY <1>4, LengthTyped
  <2>2. st \in Nat
    BY ResponseFields
  <2>3. /\ q \in Response /\ q.body = r.body /\ q.length = LengthOf(r) /\ ~q.chunked
        /\ q.len = r.len /\ q.range = r.range
    <3>. HIDE DEF st
    <3>. QED
      BY <2>1, <2>2 DEF Response
  <2>4. Framed(r) = q
    BY <1>4 DEF Framed
  <2>5. WellFramed(q, size)
    <3>. HIDE DEF q
    <3>. QED
      BY <1>4, <2>3, ResponseFields DEF WellFramed, LengthOf, FileLen, Partial, Satisfiable
  <2>. QED
    BY <2>3, <2>4, <2>5
<1>. QED
  BY <1>1, <1>2, <1>3, <1>4

LEMMA FinalizedIsWellFramed ==
    ASSUME NEW r \in Response, size \in Nat, request \in Request
    PROVE  Finalized(r) \in Response /\ WellFramed(Finalized(r), size)
<1>1. [r EXCEPT !.close = FALSE, !.chunked = FALSE] \in Response
  BY DEF Response
<1>. QED
  BY <1>1, FramedIsWellFramed DEF Finalized

-----------------------------------------------------------------------------
(* Writing.                                                                *)

\* The facts of TypeOK about the variables an answer sets, after a step.
Typed ==
    /\ response \in Response /\ changed \in BOOLEAN /\ keepAlive \in BOOLEAN
    /\ head \in [status : Nat, length : SUBSET Nat, chunked : BOOLEAN, persists : BOOLEAN]
    /\ written \in Written

\* A head and what needs no file behind it leave the client in step.
LEMMA WriteHeadKeeps ==
    ASSUME TypeOK, NEW r \in Response, WellFramed(r, size), keepAlive' \in BOOLEAN,
           UNCHANGED <<request, size>>, WriteHead(r)
    PROVE  /\ Typed' /\ stage' \in {"opening", "streaming", "done"}
           /\ HeadInv' /\ FramedInv' /\ ClientStaysInStep'
<1>. DEFINE h == [status |-> r.status, length |-> r.length, chunked |-> r.chunked,
                  persists |-> keepAlive' /\ ~r.close]
<1>1. /\ response' = r /\ changed' = FALSE /\ head' = h
      /\ request' = request /\ size' = size
  BY DEF WriteHead
<1>2. /\ r.status \in Nat /\ r.body \in {"none", "bytes", "file", "stream"} /\ r.len \in Nat
      /\ r.length \in SUBSET Nat /\ r.chunked \in BOOLEAN /\ r.close \in BOOLEAN
  BY ResponseFields
<1>3. /\ h.status = r.status /\ h.length = r.length /\ h.chunked = r.chunked
      /\ h.persists => keepAlive'
  OBVIOUS
<1>4. h \in [status : Nat, length : SUBSET Nat, chunked : BOOLEAN, persists : BOOLEAN]
  BY <1>2
<1>5. request.protocol \in {"HTTP/1.0", "HTTP/1.1"} /\ size \in Sizes
      /\ written \in Written
  BY DEF TypeOK, Request
<1>. HIDE DEF h
<1>6. HeadInv'
  BY <1>1, <1>3 DEF HeadInv
<1>9. Nothing \in Written /\ Nothing.n = 0 /\ Nothing.chunks = <<>> /\ Len(Nothing.chunks) = 0
  BY DEF Nothing, Written
<1>7. CASE r.body \in {"file", "stream"} /\ request.method # "HEAD"
  <2>1. /\ stage' = IF r.body = "file" THEN "opening" ELSE "streaming"
        /\ written' = Nothing
    BY <1>7 DEF WriteHead
  <2>2. Typed'
    BY <1>1, <1>4, <1>5, <1>9, <2>1 DEF Typed
  <2>3. FramedInv'
    <3>1. WellFramed(r, size)' = WellFramed(r, size)
      BY <1>1 DEF WellFramed
    <3>2. Len(r.yields) \in Nat
      BY ResponseFields
    <3>. QED
      BY <1>1, <1>7, <1>9, <2>1, <3>1, <3>2 DEF FramedInv, WellFramed
  <2>. QED
    BY <1>6, <2>1, <2>2, <2>3 DEF ClientStaysInStep
<1>8. CASE ~(r.body \in {"file", "stream"} /\ request.method # "HEAD")
  <2>1. /\ stage' = "done"
        /\ \/ request.method = "HEAD" /\ written' = Nothing
           \/ request.method # "HEAD" /\ r.body = "none" /\ written' = Nothing
           \/ request.method # "HEAD" /\ r.body = "bytes" /\ written' = [n |-> r.len, chunks |-> <<>>]
    BY <1>2, <1>8 DEF WriteHead
  <2>2. written' \in Written
    <3>1. [n |-> r.len, chunks |-> <<>>] \in Written
      BY <1>2 DEF Written
    <3>. QED
      BY <1>9, <2>1, <3>1
  <2>3. Typed'
    BY <1>1, <1>4, <1>5, <2>2 DEF Typed
  <2>4. FramedInv'
    BY <2>1 DEF FramedInv
  <2>5. ASSUME ~Misframed' PROVE EndsAsAnnounced'
    <3>1. CASE request.method = "HEAD"
      BY <1>1, <2>1, <3>1 DEF EndsAsAnnounced
    <3>2. CASE request.method # "HEAD" /\ Bodyless(r.status)
      <4>1. r.body \notin {"file", "stream"} /\ ~(r.body = "bytes" /\ r.len > 0)
        BY <1>1, <1>3, <2>5, <3>2 DEF Misframed
      <4>2. written' = Nothing
        BY <1>2, <2>1, <3>2, <4>1 DEF Nothing
      <4>. QED
        BY <1>1, <1>3, <3>2, <4>2 DEF EndsAsAnnounced
    <3>3. CASE request.method # "HEAD" /\ ~Bodyless(r.status)
      <4>0. ~r.chunked /\ written'.chunks = <<>> /\ r.length = {written'.n} => EndsAsAnnounced'
        BY <1>1, <1>3, <3>3 DEF EndsAsAnnounced
      <4>2. CASE r.body = "bytes"
        BY <2>1, <3>3, <4>0, <4>2 DEF WellFramed
      <4>3. CASE r.body = "none"
        BY <1>9, <2>1, <3>3, <4>0, <4>3 DEF WellFramed
      <4>. QED
        BY <1>2, <1>8, <3>3, <4>2, <4>3
    <3>. QED
      BY <3>1, <3>2, <3>3
  <2>. QED
    BY <1>6, <2>1, <2>3, <2>4, <2>5 DEF ClientStaysInStep
<1>. QED
  BY <1>7, <1>8

LEMMA SendResponseKeeps ==
    ASSUME TypeOK, NEW r \in Response, SendResponse(r), UNCHANGED <<request, size>>
    PROVE  /\ Typed' /\ stage' \in {"stat", "opening", "streaming", "done"}
           /\ HeadInv' /\ FramedInv' /\ ClientStaysInStep'
           /\ keepAlive' = Persists(request'.options, request'.protocol)
<1>. DEFINE c == Compressed(NotModified(r))
<1>0. size \in Nat /\ request \in Request
  BY SizesAssumption DEF TypeOK
<1>1. c \in Response
  BY <1>0, NotModifiedTyped, CompressedTyped
<1>2. keepAlive' = Persists(request'.options, request'.protocol)
  BY DEF SendResponse
<1>3. keepAlive' \in BOOLEAN
  BY <1>2 DEF Persists
<1>4. CASE c.body = "file" /\ ~Bodyless(c.status)
  <2>1. /\ stage' = "stat" /\ response' = c
        /\ UNCHANGED <<changed, head, written>>
    BY <1>4 DEF SendResponse
  <2>2. Typed'
    <3>. HIDE DEF c
    <3>. QED
      BY <1>1, <1>3, <2>1 DEF Typed, TypeOK
  <2>. QED
    BY <1>2, <2>1, <2>2 DEF HeadInv, FramedInv, ClientStaysInStep
<1>5. CASE ~(c.body = "file" /\ ~Bodyless(c.status))
  <2>1. WriteHead(Finalized(c))
    BY <1>5 DEF SendResponse
  <2>2. Finalized(c) \in Response /\ WellFramed(Finalized(c), size)
    <3>. HIDE DEF c
    <3>. QED
      BY <1>0, <1>1, FinalizedIsWellFramed
  <2>. QED
    BY <1>2, <1>3, <2>1, <2>2, WriteHeadKeeps
<1>. QED
  BY <1>4, <1>5

-----------------------------------------------------------------------------
(* Steps.                                                                  *)

\* The facts of TypeOK about the other variables.
TypedRest ==
    /\ role \in {"origin", "gateway"} /\ request \in Request
    /\ asked \subseteq {"close", "keep-alive"} /\ stage \in Stages
    /\ upstream \in {"none", "open", "closing", "closed"} /\ size \in Sizes

LEMMA TypeOKParts ==
    /\ TypeOK <=> Typed /\ TypedRest
    /\ TypeOK' <=> Typed' /\ TypedRest'
BY DEF TypeOK, Typed, TypedRest

\* A step that answers, and leaves request and upstream alone or closes the latter.
LEMMA AnswerKeeps ==
    ASSUME IInv, NEW r \in Response, SendResponse(r), UNCHANGED <<role, request, asked, size>>,
           upstream # "open",
           upstream' = upstream \/ (upstream' = "closed" /\ upstream = "closing")
    PROVE  IInv'
<1>1. /\ Typed' /\ stage' \in {"stat", "opening", "streaming", "done"}
      /\ HeadInv' /\ FramedInv' /\ ClientStaysInStep'
      /\ keepAlive' = Persists(request'.options, request'.protocol)
  BY SendResponseKeeps DEF IInv
<1>2. TypedRest'
  BY <1>1, TypeOKParts DEF IInv, TypedRest, Stages
<1>3. OptionsInv'
  BY <1>1 DEF IInv, OptionsInv
<1>4. UpstreamIsReleased'
  BY <1>1 DEF UpstreamIsReleased
<1>. QED
  BY <1>1, <1>2, <1>3, <1>4, TypeOKParts DEF IInv

\* A step that neither writes nor decides.
LEMMA QuietKeeps ==
    ASSUME IInv, UNCHANGED <<role, asked, size, changed, keepAlive, head, written>>,
           request' = request \/ (request' = [request EXCEPT !.options = {}] /\ upstream' # "none"),
           response' \in Response, upstream' \in {"open", "closing", "closed", "none"},
           upstream' = "none" => upstream = "none",
           stage' \in Stages \ {"stat", "opening", "streaming", "done"},
           upstream' = "open" => stage' \in {"sending", "receiving", "tail"}
    PROVE  IInv'
<1>1. Typed'
  BY TypeOKParts DEF IInv, Typed
<1>2. request' \in Request /\ request'.options \subseteq asked
      /\ (request' = request \/ upstream' # "none")
  BY TypeOKParts DEF IInv, TypedRest, Request, OptionsInv
<1>3. TypedRest'
  BY <1>2, TypeOKParts DEF IInv, TypedRest
<1>4. OptionsInv'
  BY <1>2 DEF IInv, OptionsInv
<1>. QED
  BY <1>1, <1>3, <1>4, TypeOKParts
  DEF IInv, HeadInv, FramedInv, ClientStaysInStep, UpstreamIsReleased

LEMMA InitInv == Init => IInv
<1>. SUFFICES ASSUME Init PROVE IInv
  OBVIOUS
<1>1. request \in Request /\ request.options \subseteq {"close", "keep-alive"}
  BY RequestsAssumption DEF Init, Request
<1>2. Typed
  <2>1. Nothing \in Written
    BY DEF Nothing, Written
  <2>. QED
    BY <2>1, BadGatewayTyped DEF Init, Typed, NoHead
<1>3. TypedRest
  BY <1>1 DEF Init, TypedRest, Stages
<1>. QED
  BY <1>2, <1>3, TypeOKParts
  DEF Init, IInv, HeadInv, FramedInv, OptionsInv, ClientStaysInStep, UpstreamIsReleased

\* write_body reads of a file that did not change what its head announced.
LEMMA FileKeeps == IInv /\ FileIsWritten => IInv'
<1>. SUFFICES ASSUME IInv, FileIsWritten PROVE IInv'
  OBVIOUS
<1>1. /\ stage = "opening" /\ stage' = "done"
      /\ UNCHANGED <<role, request, asked, response, upstream, size, changed, keepAlive, head>>
  BY DEF FileIsWritten
<1>. DEFINE r == response.range
<1>2. /\ response \in Response /\ size \in Nat
      /\ head.status = response.status /\ head.length = response.length
      /\ head.chunked = response.chunked
      /\ response.body = "file" /\ request.method # "HEAD"
      /\ ~changed => WellFramed(response, size)
  BY <1>1, SizesAssumption DEF IInv, TypeOK, HeadInv, FramedInv
<1>7. ASSUME NEW k \in Nat PROVE Readable(r, k) \in Nat
  BY <1>2, ResponseFields DEF Readable, Min2
<1>8. PICK n : /\ written' = [n |-> n, chunks |-> <<>>]
               /\ n \in IF changed THEN UNION {0..Readable(r, k) : k \in Sizes}
                        ELSE {Readable(r, size)}
  BY DEF FileIsWritten
<1>3. n \in Nat
  <2>1. CASE changed
    <3>1. PICK k \in Sizes : n \in 0..Readable(r, k)
      BY <1>8, <2>1
    <3>. QED
      BY <1>7, <3>1, SizesAssumption
  <2>2. CASE ~changed
    BY <1>2, <1>7, <1>8, <2>2
  <2>. QED
    BY <2>1, <2>2
<1>4. Typed'
  <2>1. written' \in Written
    BY <1>3, <1>8 DEF Written
  <2>. QED
    BY <1>1, <2>1, TypeOKParts DEF IInv, Typed
<1>5. TypedRest'
  BY <1>1, TypeOKParts DEF IInv, TypedRest, Stages
<1>6. ASSUME ~Misframed' PROVE EndsAsAnnounced'
  <2>1. ~changed /\ ~Bodyless(response.status)
    BY <1>1, <1>2, <1>6 DEF Misframed
  <2>2. /\ response.length = {FileLen(r, size)} /\ ~response.chunked
        /\ r = <<>> \/ (r[1] <= r[2] /\ r[1] < size)
    BY <1>2, <2>1 DEF WellFramed
  <2>3. FileLen(r, size) = n
    BY <1>2, <1>8, <2>1, <2>2, ResponseFields DEF FileLen, Min2, Readable
  <2>4. written'.n = n /\ written'.chunks = <<>>
    BY <1>8
  <2>. QED
    BY <1>1, <1>2, <2>1, <2>2, <2>3, <2>4 DEF EndsAsAnnounced
<1>. QED
  BY <1>1, <1>4, <1>5, <1>6, TypeOKParts
  DEF IInv, HeadInv, FramedInv, OptionsInv, ClientStaysInStep, UpstreamIsReleased

\* One more chunk is one more of what the stream yields.
LEMMA ChunkKeeps == IInv /\ ChunkIsWritten => IInv'
<1>. SUFFICES ASSUME IInv, ChunkIsWritten PROVE IInv'
  OBVIOUS
<1>. DEFINE c == written.chunks
            y == response.yields
<1>1. /\ stage = "streaming" /\ Len(c) < Len(y)
      /\ written' = [written EXCEPT !.chunks = Append(c, y[Len(c) + 1])]
      /\ UNCHANGED <<role, request, asked, stage, response, upstream, size, changed, keepAlive,
                     head>>
  BY DEF ChunkIsWritten
<1>2. /\ c \in Seq(Nat) /\ y \in Seq(Nat) /\ written \in Written /\ written.n = 0
      /\ \A i \in 1..Len(c) : c[i] = y[i]
  BY <1>1, ResponseFields DEF IInv, TypeOK, FramedInv, Written
<1>3. y[Len(c) + 1] \in Nat
  BY <1>1, <1>2
<1>4. /\ Append(c, y[Len(c) + 1]) \in Seq(Nat) /\ Len(Append(c, y[Len(c) + 1])) = Len(c) + 1
      /\ \A i \in 1..(Len(c) + 1) : Append(c, y[Len(c) + 1])[i] = y[i]
  BY <1>2, <1>3
<1>5. written'.chunks = Append(c, y[Len(c) + 1]) /\ written'.n = 0 /\ written' \in Written
  BY <1>1, <1>2, <1>4 DEF Written
<1>6. Typed' /\ TypedRest'
  BY <1>1, <1>5, TypeOKParts DEF IInv, Typed, TypedRest
<1>7. FramedInv'
  <2>1. WellFramed(response, size)
    BY <1>1 DEF IInv, FramedInv
  <2>2. Len(c) + 1 <= Len(y)
    BY <1>1, <1>2
  <2>. HIDE DEF c, y
  <2>3. /\ stage' = "streaming" /\ response' = response /\ request' = request /\ size' = size
        /\ response.body = "stream" /\ request.method # "HEAD"
    BY <1>1 DEF IInv, FramedInv
  <2>4. WellFramed(response, size)'
    BY <2>1, <2>3 DEF WellFramed
  <2>. QED
    BY <1>4, <1>5, <2>2, <2>3, <2>4 DEF FramedInv, y
<1>. QED
  BY <1>1, <1>6, <1>7, TypeOKParts
  DEF IInv, HeadInv, OptionsInv, ClientStaysInStep, UpstreamIsReleased

\* A stream without an empty chunk has one chunk of length zero, the last.
LEMMA StreamEndKeeps == IInv /\ StreamEnds => IInv'
<1>. SUFFICES ASSUME IInv, StreamEnds PROVE IInv'
  OBVIOUS
<1>. DEFINE c == written.chunks
            y == response.yields
<1>1. /\ stage = "streaming" /\ stage' = "done" /\ Len(c) = Len(y)
      /\ written' = [written EXCEPT !.chunks = Append(c, 0)]
      /\ UNCHANGED <<role, request, asked, response, upstream, size, changed, keepAlive, head>>
  BY DEF StreamEnds
<1>2. /\ c \in Seq(Nat) /\ y \in Seq(Nat) /\ written \in Written
      /\ \A i \in 1..Len(c) : c[i] = y[i]
      /\ head.status = response.status /\ head.chunked = response.chunked
      /\ response.body = "stream" /\ request.method # "HEAD" /\ WellFramed(response, size)
  BY <1>1, ResponseFields DEF IInv, TypeOK, HeadInv, FramedInv, Written
<1>3. /\ Append(c, 0) \in Seq(Nat) /\ Len(Append(c, 0)) = Len(c) + 1
      /\ \A i \in 1..Len(c) : Append(c, 0)[i] = c[i]
      /\ Append(c, 0)[Len(c) + 1] = 0 /\ Append(c, 0) # <<>>
  BY <1>2
<1>4. written'.chunks = Append(c, 0) /\ written' \in Written
  BY <1>1, <1>2, <1>3 DEF Written
<1>5. Typed' /\ TypedRest'
  BY <1>1, <1>4, TypeOKParts DEF IInv, Typed, TypedRest, Stages
<1>6. ASSUME ~Misframed' PROVE EndsAsAnnounced'
  <2>1. ~Bodyless(response.status) /\ request.protocol # "HTTP/1.0"
        /\ \A i \in 1..Len(y) : y[i] # 0
    BY <1>1, <1>2, <1>6 DEF Misframed
  <2>2. response.chunked
    BY <1>2, <2>1 DEF WellFramed, IInv, TypeOK, Request
  <2>3. EndsWithLastChunk(Append(c, 0))
    <3>. HIDE DEF c, y
    <3>1. \A i \in 1..(Len(c) + 1) : i \in 1..Len(c) \/ i = Len(c) + 1
      BY <1>2
    <3>2. \A i \in 1..Len(c) : Append(c, 0)[i] # 0 /\ i # Len(c) + 1
      BY <1>1, <1>2, <1>3, <2>1
    <3>. QED
      BY <1>3, <3>1, <3>2 DEF EndsWithLastChunk
  <2>. QED
    BY <1>1, <1>2, <1>4, <2>1, <2>2, <2>3 DEF EndsAsAnnounced
<1>. QED
  BY <1>1, <1>5, <1>6, TypeOKParts
  DEF IInv, HeadInv, FramedInv, OptionsInv, ClientStaysInStep, UpstreamIsReleased

LEMMA NextInv == IInv /\ [Next]_vars => IInv'
<1>. SUFFICES ASSUME IInv, [Next]_vars PROVE IInv'
  OBVIOUS
<1>0. /\ TypeOK /\ Typed /\ TypedRest /\ UpstreamIsReleased
      /\ response \in Response
  BY TypeOKParts DEF IInv, Typed
<1>1. CASE HandlerReturns
  BY <1>0, <1>1, AnswerKeeps, ResponsesAssumption DEF HandlerReturns, UpstreamIsReleased
<1>2. CASE StatReturns
  <2>1. keepAlive' \in BOOLEAN /\ size \in Nat /\ request \in Request
    BY <1>0, <1>2, SizesAssumption DEF StatReturns, TypeOK
  <2>2. /\ Typed' /\ stage' \in {"opening", "streaming", "done"}
        /\ HeadInv' /\ FramedInv' /\ ClientStaysInStep'
    BY <1>0, <1>2, <2>1, FinalizedIsWellFramed, WriteHeadKeeps DEF StatReturns
  <2>3. TypedRest'
    BY <1>0, <1>2, <2>2 DEF StatReturns, TypedRest, Stages
  <2>4. OptionsInv' /\ UpstreamIsReleased'
    BY <1>0, <1>2, <2>2 DEF StatReturns, IInv, OptionsInv, UpstreamIsReleased
  <2>. QED
    BY <2>2, <2>3, <2>4, TypeOKParts DEF IInv
<1>3. CASE FileChanges
  <2>1. Typed' /\ TypedRest'
    BY <1>0, <1>3 DEF FileChanges, Typed, TypedRest
  <2>2. HeadInv' /\ OptionsInv' /\ ClientStaysInStep' /\ UpstreamIsReleased'
    BY <1>3 DEF FileChanges, IInv, HeadInv, OptionsInv, ClientStaysInStep, UpstreamIsReleased
  <2>3. FramedInv'
    BY <1>3 DEF FileChanges, IInv, FramedInv, WellFramed
  <2>. QED
    BY <2>1, <2>2, <2>3, TypeOKParts DEF IInv
<1>4. CASE FileIsWritten
  BY <1>4, FileKeeps
<1>17. CASE ChunkIsWritten
  BY <1>17, ChunkKeeps
<1>18. CASE StreamEnds
  BY <1>18, StreamEndKeeps
<1>5. CASE ConnectFails
  BY <1>0, <1>5, AnswerKeeps, BadGatewayTyped DEF ConnectFails, UpstreamIsReleased
<1>6. CASE Connected
  BY <1>0, <1>6, QuietKeeps DEF Connected, Stages
<1>7. CASE Sent
  BY <1>0, <1>7, QuietKeeps DEF Sent, Stages, TypedRest
<1>8. ASSUME NEW r \in Response, NEW next \in {"closing", "raising"}, Finally(r, next)
      PROVE  IInv'
  BY <1>0, <1>8, QuietKeeps DEF Finally, Stages
<1>9. CASE Answered
  <2>1. PICK a \in Answers :
          Finally([a EXCEPT !.body = "bytes", !.chunked = FALSE, !.close = FALSE,
                            !.len = IF request.method = "HEAD" \/ Bodyless(a.status)
                                    THEN 0 ELSE @], "closing")
    BY <1>9 DEF Answered
  <2>. DEFINE b == "bytes"
              n == IF request.method = "HEAD" \/ Bodyless(a.status) THEN 0 ELSE a.len
              r == [a EXCEPT !.body = b, !.chunked = FALSE, !.close = FALSE, !.len = n]
  <2>2. a \in Response /\ b \in {"none", "bytes", "file", "stream"} /\ n \in Nat
    BY ResponsesAssumption, ResponseFields
  <2>3. r \in Response
    <3>. HIDE DEF b, n
    <3>. QED
      BY <2>2 DEF Response
  <2>4. Finally(r, "closing")
    BY <2>1
  <2>. HIDE DEF r
  <2>. QED
    BY <1>8, <2>3, <2>4
<1>10. CASE TailBegins
  <2>1. PICK a \in Answers : response' = [a EXCEPT !.body = "bytes", !.close = FALSE]
    BY <1>10 DEF TailBegins
  <2>. DEFINE b == "bytes"
  <2>2. b \in {"none", "bytes", "file", "stream"}
    OBVIOUS
  <2>3. response' = [a EXCEPT !.body = b, !.close = FALSE]
    BY <2>1
  <2>. HIDE DEF b
  <2>4. response' \in Response
    BY <2>2, <2>3, ResponsesAssumption DEF Response
  <2>. QED
    BY <1>0, <1>10, <2>4, QuietKeeps DEF TailBegins, Stages, TypedRest
<1>11. CASE UpstreamEnds
  <2>1. CASE \E n \in 0..response.len : Finally([response EXCEPT !.len = n], "closing")
    <3>1. PICK n \in 0..response.len : Finally([response EXCEPT !.len = n], "closing")
      BY <2>1
    <3>2. [response EXCEPT !.len = n] \in Response
      BY <1>0 DEF Response
    <3>. QED
      BY <1>8, <3>1, <3>2
  <2>2. CASE Finally(BadGateway, "closing")
    BY <1>8, <2>2, BadGatewayTyped
  <2>. QED
    BY <1>11, <2>1, <2>2 DEF UpstreamEnds
<1>12. CASE Raises
  BY <1>0, <1>8, <1>12 DEF Raises
<1>13. CASE CloseReturns
  <2>1. CASE stage = "closing"
    BY <1>0, <1>13, <2>1, AnswerKeeps DEF CloseReturns
  <2>2. CASE stage = "raising"
    BY <1>0, <1>13, <2>2, QuietKeeps DEF CloseReturns, Stages
  <2>3. CASE stage \notin {"closing", "raising"}
    <3>1. /\ upstream = "closing" /\ upstream' = "closed"
          /\ UNCHANGED <<role, request, asked, size, stage, response, changed, keepAlive, head,
                         written>>
      BY <1>13, <2>3 DEF CloseReturns
    <3>2. Typed' /\ TypedRest'
      BY <1>0, <3>1 DEF Typed, TypedRest
    <3>. QED
      BY <3>1, <3>2, TypeOKParts
      DEF IInv, HeadInv, FramedInv, WellFramed, OptionsInv, ClientStaysInStep, Misframed,
          EndsAsAnnounced, UpstreamIsReleased
  <2>. QED
    BY <2>1, <2>2, <2>3
<1>14. CASE ClientLost
  BY <1>0, <1>14, QuietKeeps DEF ClientLost, Stages, TypedRest
<1>15. CASE Fails
  BY <1>0, <1>15, QuietKeeps DEF Fails, Stages, TypedRest, UpstreamIsReleased
<1>16. CASE UNCHANGED vars
  BY <1>0, <1>16, TypeOKParts
  DEF vars, IInv, Typed, TypedRest, HeadInv, FramedInv, WellFramed, OptionsInv,
      ClientStaysInStep, Misframed, EndsAsAnnounced, UpstreamIsReleased
<1>. QED
  BY <1>1, <1>2, <1>3, <1>4, <1>5, <1>6, <1>7, <1>9, <1>10, <1>11, <1>12, <1>13, <1>14, <1>15, <1>16,
     <1>17, <1>18
  DEF Next, Answer, Dispatch

-----------------------------------------------------------------------------
(* Theorems.                                                               *)

LEMMA Invariance == Spec => []IInv
BY InitInv, NextInv, PTL DEF Spec

\* Every variable has its type at every await of handle_request.
THEOREM TypeCorrect == Spec => []TypeOK
<1>1. IInv => TypeOK
  BY DEF IInv
<1>. QED
  BY <1>1, Invariance, PTL

\* Whatever handlers and upstream servers answer, finalize_response and write_body
\* leave the client at the end of the message, save for the four kinds of response
\* that Misframed names.
THEOREM KeepsClientInStep == Spec => []ClientStaysInStep
<1>1. IInv => ClientStaysInStep
  BY DEF IInv
<1>. QED
  BY <1>1, Invariance, PTL

\* A client that did not ask for it, by version or by Connection, is not kept; a
\* "close" is lost only by a request that was sent on.
THEOREM PersistenceIsAskedFor == Spec => []PersistsOnlyIfAsked
<1>1. IInv => PersistsOnlyIfAsked
  BY DEF IInv, HeadInv, OptionsInv, Persists, PersistsOnlyIfAsked
<1>. QED
  BY <1>1, Invariance, PTL

\* No path through dispatch_proxy answers, fails or is cancelled with its upstream
\* connection still open.
THEOREM ReleasesUpstream == Spec => []UpstreamIsReleased
<1>1. IInv => UpstreamIsReleased
  BY DEF IInv
<1>. QED
  BY <1>1, Invariance, PTL

=============================================================================

------------------------------ MODULE MCParser ------------------------------
(***************************************************************************)
(* Parser.tla for TLC: every stream of one or two messages, requests or    *)
(* responses, made of the lengths below, with limits of a few bytes.       *)
(***************************************************************************)
EXTENDS Parser
LOCAL INSTANCE SequencesExt

CONSTANTS
    HeadLengths,     \* lengths of heads
    LineLengths,     \* lengths of chunk size lines
    TrailerLengths,  \* lengths of trailer sections
    Sizes            \* sizes of bodies and chunks

U(kind, len, size) ==
    [kind |-> kind, start |-> 0, len |-> len, size |-> size, before |-> 0,
     te |-> "absent", cl |-> "absent", resp |-> FALSE, bare |-> FALSE, ok |-> TRUE]

\* The stream s with the unit u behind it.
Behind(s, u) ==
    IF s = <<>> THEN <<u>>
    ELSE LET p == s[Len(s)]
         IN  Append(s, [u EXCEPT
                 !.start = EndOf(p),
                 !.before = CASE u.kind = "line" /\ p.kind = "data" -> p.before + p.len
                              [] u.kind \in {"data", "trailer"}     -> p.before
                              [] OTHER                              -> 0])

Heads == {U("head", h, 0) : h \in HeadLengths}
Chunked(h) == [h EXCEPT !.te = "chunked"]
Lengthy(h, n) == [h EXCEPT !.cl = "one", !.size = n]
Short == U("head", 2, 0)

Chunk(l, n, ok) == <<U("line", l, n), [U("data", n, 0) EXCEPT !.ok = ok]>>
End(l, t, ok) == <<U("line", l, 0), [U("trailer", t, 0) EXCEPT !.ok = ok]>>

\* Messages with a body, the last two in one or two chunks.
Framed ==
    {<<Lengthy(h, n), U("fixed", n, 0)>> : h \in Heads, n \in Sizes}
    \cup {<<Chunked(h)>> \o End(1, t, ok) : h \in Heads, t \in TrailerLengths, ok \in BOOLEAN}
    \cup {<<Chunked(Short)>> \o Chunk(l, n, ok) \o End(1, t, TRUE) :
             l \in LineLengths, n \in Sizes \ {0}, ok \in BOOLEAN, t \in TrailerLengths}
    \cup {<<Chunked(Short)>> \o Chunk(1, n, TRUE) \o Chunk(l, m, TRUE) \o End(1, 0, TRUE) :
             n \in Sizes \ {0}, l \in LineLengths, m \in Sizes \ {0}}

\* Messages without one; a response without framing headers ends with the stream.
Bodyless(resp) ==
    IF resp THEN {<<[h EXCEPT !.bare = TRUE]>> :
                      h \in {Short, Chunked(Short), Lengthy(Short, 2)}}
    ELSE {<<h>> : h \in Heads}
Endless(resp) == IF resp THEN {<<Short, U("close", n, 0)>> : n \in Sizes} ELSE {}

\* Heads the parser must refuse: TE and CL, a last coding other than chunked,
\* several lengths, no number, a malformed field; and a malformed chunk size.
Refused ==
    {<<[h EXCEPT !.ok = FALSE]>> : h \in {Short, Chunked(Short)}}
    \cup {<<[Short EXCEPT !.te = t, !.cl = c]>> \o End(1, 0, TRUE) :
             t \in {"chunked", "other"}, c \in {"absent", "one", "differ"}}
    \cup {<<[Short EXCEPT !.cl = c], U("fixed", 0, 0)>> : c \in {"differ", "invalid"}}
    \cup {<<Chunked(Short), [U("line", 1, 2) EXCEPT !.ok = FALSE]>>}

Second(resp) == Refused \cup Endless(resp) \cup
    {<<Lengthy(Short, 2), U("fixed", 2, 0)>>,
     <<Chunked(Short)>> \o Chunk(1, 2, TRUE) \o End(1, 0, TRUE)}

\* Units laid end to end, all of requests or all of responses.
Stream(resp, m) == FoldLeft(Behind, <<>>, [i \in DOMAIN m |-> [m[i] EXCEPT !.resp = resp]])

\* Requests that are refused and followed by another.
Pipelined ==
    {Stream(FALSE, m \o <<Lengthy(Short, 2), U("fixed", 2, 0)>>) :
         m \in {m \in Refused : NextKind(m[Len(m)]) = "head"}}

MCStreams ==
    Pipelined \cup
    UNION {{Stream(r, m) : m \in Refused \cup Endless(r)}
           \cup {Stream(r, m \o n) : m \in Framed \cup Bodyless(r), n \in Second(r)} :
              r \in BOOLEAN}

=============================================================================

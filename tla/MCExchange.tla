----------------------------- MODULE MCExchange -----------------------------
(***************************************************************************)
(* Exchange.tla for TLC: every request, responses and upstream answers     *)
(* with every status that matters, framing headers right, wrong or absent. *)
(***************************************************************************)
EXTENDS Exchange

MCRequests == Request

R(status, body, len, length, chunked, close, range) ==
    [status |-> status, body |-> body, len |-> len, yields |-> <<>>, length |-> length,
     chunked |-> chunked, close |-> close, compression |-> TRUE, range |-> range]

\* What streams yield: nothing, chunks, an empty one among them or behind them.
MCYields == {<<>>, <<1>>, <<2, 1>>, <<1, 0, 1>>, <<1, 0>>}

MCResponses ==
    {[R(s, "stream", 0, l, t, c, <<>>) EXCEPT !.yields = y] :
         s \in {103, 200, 204}, l \in {{}, {5}}, t \in BOOLEAN, c \in BOOLEAN, y \in MCYields}
    \cup {R(s, b, 1, l, t, c, <<>>) : s \in {103, 200, 204}, b \in {"none", "bytes", "file"},
                                 l \in {{}, {5}}, t \in BOOLEAN, c \in BOOLEAN}
    \cup {R(200, "file", 0, {}, FALSE, FALSE, <<a, b>>) : a \in 0..2, b \in 0..3}
    \cup {[R(200, b, 0, {5}, FALSE, FALSE, <<>>) EXCEPT !.compression = FALSE] :
              b \in {"bytes", "file"}}

\* By the time an upstream server's answer is whole, its length is its body's.
MCAnswers ==
    {R(s, "bytes", n, {}, t, c, <<>>) : s \in {100, 200, 204, 304}, n \in 0..1,
                                       t \in BOOLEAN, c \in BOOLEAN}
    \cup {R(s, "bytes", n, {n}, FALSE, c, <<>>) : s \in {200, 204, 304}, n \in 0..1, c \in BOOLEAN}

\* Handlers and servers that answer without a byte of content.
EmptyResponses == {R(s, b, 0, {}, FALSE, FALSE, <<>>) : s \in {200, 204, 304}, b \in {"none", "bytes"}}

=============================================================================

-------------------------------- MODULE Pipe --------------------------------
(***************************************************************************)
(* What one direction of a tunnel promises: the bytes put in at one end    *)
(* come out at the other, each once and in order, and the end of the       *)
(* stream is announced behind the last of them - unless the pipe breaks,   *)
(* when the bytes still inside may be lost.                                *)
(***************************************************************************)
EXTENDS Naturals, Sequences

CONSTANT Chunks  \* what may be put in

VARIABLES
    source,  \* what has been put in
    ended,   \* nothing more will be
    sink,    \* what has come out
    closed,  \* the end has come out, too
    broken   \* the pipe may lose what is inside
vars == <<source, ended, sink, closed, broken>>

Init ==
    /\ source = <<>> /\ ended = FALSE
    /\ sink = <<>> /\ closed = FALSE /\ broken \in BOOLEAN

Put ==
    /\ ~ended
    /\ \E x \in Chunks : source' = Append(source, x)
    /\ UNCHANGED <<ended, sink, closed, broken>>

End == ended' = TRUE /\ UNCHANGED <<source, sink, closed, broken>>

\* The next piece comes out; a piece that breaks the pipe is its last whole one.
Move ==
    /\ ~closed /\ Len(sink) < Len(source)
    /\ sink' = Append(sink, source[Len(sink) + 1])
    /\ broken' \in {broken, TRUE}
    /\ UNCHANGED <<source, ended, closed>>

Close ==
    /\ broken \/ (ended /\ sink = source)
    /\ closed' = TRUE
    /\ UNCHANGED <<source, ended, sink, broken>>

Break ==
    /\ broken' = TRUE
    /\ ended' \in {ended, TRUE} /\ closed' \in {closed, TRUE}
    /\ UNCHANGED <<source, sink>>

Next == Put \/ End \/ Move \/ Close \/ Break

Spec == Init /\ [][Next]_vars

-----------------------------------------------------------------------------
\* What comes out is what went in, and whole when the end comes out of a pipe
\* that is not broken.
Whole ==
    /\ sink = SubSeq(source, 1, Len(sink))
    /\ closed /\ ~broken => sink = source

=============================================================================

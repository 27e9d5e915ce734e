---------------------------- MODULE MCWebSocket ----------------------------
(***************************************************************************)
(* WebSocket.tla for TLC: a client that sends a few frames of every sort   *)
(* in every order, and a claim of the repository's tests that its second   *)
(* run refutes.                                                            *)
(***************************************************************************)
EXTENDS WebSocket

CONSTANTS
    MaxOrdinary  \* ordinary frames a client sends first

F(op, fin, size) ==
    [op |-> op, fin |-> fin, size |-> size, header |-> "good", utf8 |-> TRUE]

\* Frames after which a connection goes on, and the others.
Ordinary == {
    F("text", TRUE, 2), [F("text", FALSE, 1) EXCEPT !.utf8 = FALSE], F("binary", FALSE, 2),
    F("continuation", FALSE, 1), F("continuation", TRUE, 2), F("ping", TRUE, 0)}
Others == {
    F("text", TRUE, 0), [F("text", FALSE, 1) EXCEPT !.header = "bad"], F("unknown", TRUE, 1),
    F("pong", TRUE, 1), F("ping", FALSE, 0), F("close", TRUE, 0), F("close", TRUE, 1)}

\* Some ordinary frames and one of any sort.
MCStreams == {Append(s, f) : s \in [1..MaxOrdinary -> Ordinary], f \in Ordinary \cup Others}

\* echo_handler of test_e2e_websocket.py closes the transport once read has ended:
\* a reader is told when the client has gone.
ReaderLearnsOfTheEnd == stage = "waiting" /\ transport = "lost" ~> stage # "waiting"

=============================================================================

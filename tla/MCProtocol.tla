----------------------------- MODULE MCProtocol -----------------------------
(***************************************************************************)
(* Protocol.tla for TLC, and the two claims of the repository's tests that *)
(* its runs refute.                                                        *)
(***************************************************************************)
EXTENDS Protocol

\* The head of a response was written and not yet all of its body.
InsideResponse ==
    \/ stage = "source"
    \/ stage = "write" /\ pending \in {"body", "end"}

\* test_idle_timeout_closes_connection_without_request: the idle timeout closes a
\* connection on which no request is being handled.
IdleCloseSparesRequests ==
    [][idleTimer /\ ~idleTimer' /\ transport = "open" /\ transport' = "closing"
        => ~handling]_vars

\* test_pipelined_requests_get_sequential_responses: the response to a request
\* that follows does not start inside the response that precedes it; here the 408
\* a half-received request gets.
TimeoutsComeBetweenResponses ==
    [][Len(wire') > Len(wire) /\ wire'[Len(wire')].part = "timeout" => ~InsideResponse]_vars

=============================================================================

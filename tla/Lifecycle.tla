----------------------------- MODULE Lifecycle -----------------------------
(***************************************************************************)
(* What one client connection promises the rest of the server: how its     *)
(* transport, its tracker slot and handling_request evolve, and how many   *)
(* requests it still takes once the server drains.  Protocol.tla and every *)
(* connection of Server.tla implement this specification.                  *)
(***************************************************************************)
EXTENDS Naturals

VARIABLES
    transport,     \* "open", "closing" or "lost"
    tracked,       \* the connection holds a slot of the tracker
    handling,      \* handling_request, what drain looks at
    verdict,       \* may another request follow the one being handled?
    shuttingDown,  \* the server drains
    late           \* requests taken since the drain began

vars == <<transport, tracked, handling, verdict, shuttingDown, late>>

Init ==
    /\ transport = "open" /\ tracked = TRUE /\ handling = FALSE
    /\ verdict = "undecided" /\ shuttingDown \in BOOLEAN /\ late = 0

\* A step may also close the transport.
MayClose == transport' \in {transport, IF transport = "open" THEN "closing" ELSE transport}

\* A request is taken, maybe to be refused at once, which ends the connection.
Take ==
    /\ tracked /\ ~handling /\ verdict = "undecided"
    /\ handling' = TRUE
    /\ verdict' \in {"undecided", "last"}
    /\ late' = IF shuttingDown THEN late + 1 ELSE late
    /\ MayClose
    /\ UNCHANGED <<tracked, shuttingDown>>

\* Whether the connection goes on is decided while the request is handled;
\* a draining server lets none go on, and the decision may be revoked.
Decide ==
    /\ tracked /\ handling
    /\ verdict' \in {"another", "last"}
    /\ verdict' = "another" => verdict = "undecided" /\ ~shuttingDown
    /\ MayClose
    /\ UNCHANGED <<tracked, handling, shuttingDown, late>>

\* The request is answered and another may follow.
Answer ==
    /\ tracked /\ handling /\ verdict = "another"
    /\ handling' = FALSE /\ verdict' = "undecided"
    /\ UNCHANGED <<transport, tracked, shuttingDown, late>>

\* Anyone may close the transport: a timer, the answer to a last request, drain.
Close ==
    /\ transport = "open"
    /\ transport' = "closing"
    /\ UNCHANGED <<tracked, handling, verdict, shuttingDown, late>>

\* drain spares a connection that handles a request, and no other.
Drain ==
    /\ ~shuttingDown
    /\ shuttingDown' = TRUE
    /\ transport' = IF transport = "open" /\ ~handling THEN "closing" ELSE transport
    /\ UNCHANGED <<tracked, handling, verdict, late>>

\* The end of the connection gives the slot back.
Lose ==
    /\ transport # "lost"
    /\ transport' = "lost" /\ tracked' = FALSE
    /\ verdict' \in {verdict, "last"}
    /\ UNCHANGED <<handling, shuttingDown, late>>

Next == Take \/ Decide \/ Answer \/ Close \/ Drain \/ Lose

Spec == Init /\ [][Next]_vars

-----------------------------------------------------------------------------
TypeOK ==
    /\ transport \in {"open", "closing", "lost"}
    /\ tracked \in BOOLEAN /\ handling \in BOOLEAN /\ shuttingDown \in BOOLEAN
    /\ verdict \in {"undecided", "another", "last"}
    /\ late \in Nat

\* A connection takes at most one request after the drain began: the one that
\* follows an answer whose keep-alive was decided before (Server.drain does not
\* close a connection it finds handling, should_keep_alive is read early).
AtMostOneLateRequest == late <= 1

\* The slot is held exactly as long as the connection lives.
SlotWhileAlive == tracked <=> transport # "lost"

=============================================================================

------------------------------- MODULE Server -------------------------------
(***************************************************************************)
(* One worker process: Server.serve and Server.drain of                    *)
(* src/src/momiji/server.py, the ConnectionTracker of limits.py and the    *)
(* connections that share it.  A connection is seen as Lifecycle.tla       *)
(* describes it, which Protocol.tla implements.                            *)
(***************************************************************************)
EXTENDS Naturals, FiniteSets

CONSTANTS
    Conns,           \* the connections clients make, each one once
    MaxConnections,  \* max_connections (None: as many as there are Conns)
    MaxSignals       \* bound: SIGTERM or SIGINT sent to the process

ASSUME ConnsAssumption == IsFiniteSet(Conns)
ASSUME LimitsAssumption == MaxConnections \in Nat /\ MaxSignals \in Nat

VARIABLES
    stage,         \* where serve() is: see Stages
    shutdown,      \* shutdown_event is set
    signals,       \* history: signals sent
    shuttingDown,  \* tracker.shutting_down
    active,        \* tracker.active
    conns          \* the connections
vars == <<stage, shutdown, signals, shuttingDown, active, conns>>

\* starting: servers are being created, no signal handler yet; serving; draining:
\* drain() sleeps; leaving: drain() is over; ended: the process is gone.
Stages == {"starting", "serving", "draining", "leaving", "ended"}

\* new: not there; accepted: connection_made is scheduled; then one of the rest.
Conn == [state : {"new", "accepted", "admitted", "refused"},
         transport : {"open", "closing", "lost"},
         handling : BOOLEAN, verdict : {"undecided", "another", "last"}, late : Nat]

\* Mutant: abort() in place of close(), whatever is still to be sent.
ClosedAbruptly(t) == IF t = "open" THEN "aborted" ELSE t

\* transport.close() of an asyncio transport.
Closed(t) == IF t = "open" THEN "closing" ELSE t

Alive == stage # "ended"

Init ==
    /\ stage = "starting" /\ shutdown = FALSE /\ signals = 0
    /\ shuttingDown = FALSE /\ active = {}
    /\ conns = [c \in Conns |-> [state |-> "new", transport |-> "open", handling |-> FALSE,
                                 verdict |-> "undecided", late |-> 0]]

-----------------------------------------------------------------------------
(* Connections.                                                            *)

\* The loop accepts a client and schedules connection_made, until the listening
\* sockets are closed.
Accept(c) ==
    /\ stage \in {"starting", "serving"} /\ conns[c].state = "new"
    /\ conns' = [conns EXCEPT ![c].state = "accepted"]
    /\ UNCHANGED <<stage, shutdown, signals, shuttingDown, active>>

\* Mutant: one connection too many.
FullLate == Cardinality(active) > MaxConnections

\* What try_acquire finds.
Full == Cardinality(active) >= MaxConnections

\* connection_made: a slot of the tracker, or a 503 and the end.
ConnectionMade(c) ==
    /\ Alive /\ conns[c].state = "accepted"
    /\ IF Full
       THEN /\ conns' = [conns EXCEPT ![c].state = "refused", ![c].transport = "closing"]
            /\ UNCHANGED active
       ELSE /\ active' = active \cup {c}
            /\ conns' = [conns EXCEPT ![c].state = "admitted"]
    /\ UNCHANGED <<stage, shutdown, signals, shuttingDown>>

\* Serving c changes its record to r.
Becomes(c, r) ==
    /\ Alive /\ c \in active
    /\ conns' = [conns EXCEPT ![c] = r]
    /\ UNCHANGED <<stage, shutdown, signals, shuttingDown, active>>

\* worker takes a request, or one that it answers with an error.
Take(c) ==
    /\ ~conns[c].handling /\ conns[c].verdict = "undecided"
    /\ \E v \in {"undecided", "last"} :
         Becomes(c, [conns[c] EXCEPT !.handling = TRUE, !.verdict = v,
                                     !.late = IF shuttingDown THEN @ + 1 ELSE @])

\* should_keep_alive, or an error that ends the connection after all.
Decide(c) ==
    /\ conns[c].handling
    /\ \E v \in {"another", "last"} :
         /\ v = "another" => conns[c].verdict = "undecided" /\ ~shuttingDown
         /\ Becomes(c, [conns[c] EXCEPT !.verdict = v])

\* The answer is written and the worker waits for the next request.
Answer(c) ==
    /\ conns[c].handling /\ conns[c].verdict = "another"
    /\ Becomes(c, [conns[c] EXCEPT !.handling = FALSE, !.verdict = "undecided"])

\* A timer or the worker closes the transport.
Close(c) ==
    /\ conns[c].transport = "open"
    /\ Becomes(c, [conns[c] EXCEPT !.transport = "closing"])

\* Mutant: the slot is not released.
LoseKeepsSlot(c) ==
    /\ Alive /\ conns[c].state \in {"admitted", "refused"} /\ conns[c].transport # "lost"
    /\ conns' = [conns EXCEPT ![c].transport = "lost"]
    /\ UNCHANGED <<stage, shutdown, signals, shuttingDown, active>>

\* connection_lost: release discards a protocol that never had a slot, too.
Lose(c) ==
    /\ Alive /\ conns[c].state \in {"admitted", "refused"} /\ conns[c].transport # "lost"
    /\ conns' = [conns EXCEPT ![c].transport = "lost"]
    /\ active' = active \ {c}
    /\ UNCHANGED <<stage, shutdown, signals, shuttingDown>>

-----------------------------------------------------------------------------
(* The process.                                                            *)

\* The process is gone, and every connection with it.
End ==
    /\ stage' = "ended" /\ active' = {}
    /\ conns' = [c \in Conns |-> [conns[c] EXCEPT !.transport = "lost"]]

\* The servers are created and the signal handlers installed.
Start ==
    /\ stage = "starting" /\ stage' = "serving"
    /\ UNCHANGED <<shutdown, signals, shuttingDown, active, conns>>

\* SIGTERM or SIGINT.  Before serve has installed its handlers and after it has
\* removed them for the drain, the default action ends the process.
Signal ==
    /\ Alive /\ signals < MaxSignals
    /\ signals' = signals + 1
    /\ IF stage = "serving"
       THEN shutdown' = TRUE /\ UNCHANGED <<stage, active, conns>>
       ELSE End /\ UNCHANGED shutdown
    /\ UNCHANGED shuttingDown

\* Mutant: the first pass closes every connection.
SparedNone(c) == FALSE

\* drain's first pass spares a connection that handles a request.
Spared(c) == conns[c].handling

\* serve wakes up, closes the listening sockets and starts drain, which does not
\* even yield when there is no connection.
BeginDrain ==
    /\ stage = "serving" /\ shutdown
    /\ shuttingDown' = TRUE
    /\ conns' = [c \in Conns |->
                    IF c \in active /\ ~Spared(c)
                    THEN [conns[c] EXCEPT !.transport = Closed(@)] ELSE conns[c]]
    /\ stage' = IF active = {} THEN "leaving" ELSE "draining"
    /\ UNCHANGED <<shutdown, signals, active>>

\* Mutant: drain waits for its connections however long they take.
DrainWaits ==
    /\ stage = "draining" /\ active = {}
    /\ stage' = "leaving"
    /\ UNCHANGED <<shutdown, signals, shuttingDown, active, conns>>

\* drain wakes up to no connection left, or past the deadline: the second pass.
DrainEnds ==
    /\ stage = "draining"
    /\ stage' = "leaving"
    /\ conns' = [c \in Conns |->
                    IF c \in active THEN [conns[c] EXCEPT !.transport = Closed(@)]
                    ELSE conns[c]]
    /\ UNCHANGED <<shutdown, signals, shuttingDown, active>>

\* serve returns and asyncio.run tears the loop down.
Leave ==
    /\ stage = "leaving"
    /\ End
    /\ UNCHANGED <<shutdown, signals, shuttingDown>>

-----------------------------------------------------------------------------
Connection(c) == Accept(c) \/ ConnectionMade(c) \/ Take(c) \/ Decide(c) \/ Answer(c)
                 \/ Close(c) \/ Lose(c)

Process == Start \/ Signal \/ BeginDrain \/ DrainEnds \/ Leave

Next == Process \/ \E c \in Conns : Connection(c)

\* serve goes on when it can and its deadline passes; connections owe nothing.
Fairness == WF_vars(Start) /\ WF_vars(BeginDrain) /\ WF_vars(DrainEnds) /\ WF_vars(Leave)

Spec == Init /\ [][Next]_vars /\ Fairness

-----------------------------------------------------------------------------
TypeOK ==
    /\ stage \in Stages /\ shutdown \in BOOLEAN /\ signals \in 0..MaxSignals
    /\ shuttingDown \in BOOLEAN
    /\ active \subseteq Conns
    /\ conns \in [Conns -> Conn]

\* However connections come, fail and are refused, no more than max_connections
\* are served at a time: by what they are, not by what the tracker believes.
Live(c) == conns[c].state = "admitted" /\ conns[c].transport # "lost"
CapacityHeld == Cardinality({c \in Conns : Live(c)}) <= MaxConnections

\* The tracker holds the slot of a connection exactly as long as it lives: none
\* leaks, so a refused client finds room once another has left, and drain sees
\* every connection.
SlotsAreLive == active = {c \in Conns : Live(c)}

Life(c) == INSTANCE Lifecycle WITH
    transport <- conns[c].transport, tracked <- c \in active, handling <- conns[c].handling,
    verdict <- conns[c].verdict, late <- conns[c].late

\* From connection_made on, whatever the process and the other connections do,
\* drains, deadlines and second signals included, a connection's life is the one
\* Lifecycle.tla allows: drain closes no connection that handles a request.
ConnectionsFollowLifecycle ==
    [][\A c \in Conns : conns[c].state = "admitted" =>
           Life(c)!Next \/ UNCHANGED Life(c)!vars]_vars

\* Once the process drains no connection takes more than one request: however its
\* answers, the passes of drain and the late connections of others come in between.
OneLateRequestEach == \A c \in Conns : conns[c].late <= 1

\* A process told to stop does, even when its connections never end and others
\* were accepted as it began to drain.
ShutdownEnds == shutdown ~> stage = "ended"

=============================================================================

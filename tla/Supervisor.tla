----------------------------- MODULE Supervisor -----------------------------
(***************************************************************************)
(* Server.run of src/src/momiji/server.py around the worker process of     *)
(* Server.tla: the supervisor forks its workers, forwards the signals it   *)
(* gets and reaps what ends.  One worker, Worker, is Server.tla's in full; *)
(* of the others the supervisor sees no more than what is here.  With      *)
(* workers = 0 the process serves itself and there is no supervisor.       *)
(***************************************************************************)
EXTENDS Server

CONSTANTS
    Worker,  \* the worker that Server.tla describes
    Others   \* the other workers

Workers == {Worker} \cup Others

VARIABLES
    parent,  \* none: workers = 0; forking; waiting: in the loop on os.wait; exited: run
             \* returned; killed: by a signal
    pids,    \* the list pids: workers forked and not yet found to have ended
    others,  \* the processes of Others
    reaped,  \* the workers os.wait has returned: their pids are gone
    told     \* history: a signal has reached the supervisor in its loop
svars == <<parent, pids, others, reaped, told>>

SInit ==
    /\ Init
    /\ parent \in {"none", "forking"}
    /\ pids = {} /\ reaped = {} /\ told = FALSE
    /\ others = [w \in Others |-> "unborn"]

\* The process of a worker: not there, there, or ended.
Forked(w) == parent = "none" \/ w \in pids \cup reaped
HasEnded(w) == IF w = Worker THEN stage = "ended" ELSE others[w] = "ended"

-----------------------------------------------------------------------------
\* A child starts out with the default action for both signals, in Server.tla's
\* "starting".
Fork(w) ==
    /\ parent = "forking" /\ ~Forked(w)
    /\ pids' = pids \cup {w}
    /\ others' = IF w = Worker THEN others ELSE [others EXCEPT ![w] = "running"]
    /\ UNCHANGED <<vars, parent, reaped, told>>

\* The handlers are installed once all workers are there.
InstallHandlers ==
    /\ parent = "forking" /\ pids = Workers
    /\ parent' = "waiting"
    /\ UNCHANGED <<vars, pids, others, reaped, told>>

\* Before that a signal ends the supervisor, and its workers stay.
ParentKilled ==
    /\ parent = "forking"
    /\ parent' = "killed"
    /\ UNCHANGED <<vars, pids, others, reaped, told>>

\* os.kill for a worker: one that has ended and is not reaped takes it as well.
Signalled(w) == w \in pids \ reaped /\ ~HasEnded(w)

\* Mutant: a pid that is gone ends forward_signal, and run, with an exception.
ForwardStopsAtGone ==
    /\ parent = "waiting"
    /\ told' = TRUE
    /\ IF pids \cap reaped # {} THEN parent' = "killed" /\ UNCHANGED <<vars, others>>
       ELSE /\ IF Signalled(Worker) THEN Signal ELSE UNCHANGED vars
            /\ others' = [w \in Others |-> IF Signalled(w) THEN "stopping" ELSE others[w]]
            /\ UNCHANGED parent
    /\ UNCHANGED <<pids, reaped>>

\* forward_signal, between any two steps of the loop: a pid that os.wait has
\* returned may still be on the list, and the ProcessLookupError is ignored.
ForwardSignal ==
    /\ parent = "waiting"
    /\ told' = TRUE
    /\ IF Signalled(Worker) THEN Signal ELSE UNCHANGED vars
    /\ others' = [w \in Others |-> IF Signalled(w) THEN "stopping" ELSE others[w]]
    /\ UNCHANGED <<parent, pids, reaped>>

\* os.wait returns a worker that has ended ...
WaitReturns(w) ==
    /\ parent = "waiting" /\ pids \cap reaped = {}
    /\ w \in pids /\ HasEnded(w)
    /\ reaped' = reaped \cup {w}
    /\ UNCHANGED <<vars, parent, pids, others, told>>

\* ... which is taken off the list, and run returns when that is empty.
RemovePid ==
    /\ parent = "waiting" /\ pids \cap reaped # {}
    /\ pids' = pids \ reaped
    /\ parent' = IF pids' = {} THEN "exited" ELSE parent
    /\ UNCHANGED <<vars, others, reaped, told>>

\* Another worker ends when it was told to, by ShutdownEnds of its own, ...
OtherStops(w) ==
    /\ others[w] = "stopping"
    /\ others' = [others EXCEPT ![w] = "ended"]
    /\ UNCHANGED <<vars, parent, pids, reaped, told>>

\* ... or for a reason of its own.  Nobody replaces it.
OtherFails(w) ==
    /\ others[w] = "running"
    /\ others' = [others EXCEPT ![w] = "ended"]
    /\ UNCHANGED <<vars, parent, pids, reaped, told>>

-----------------------------------------------------------------------------
\* A step of the worker, which a signal may also reach directly: Ctrl-C goes to
\* every process of the terminal.
WorkerStep(A) == A /\ Forked(Worker) /\ UNCHANGED svars

Waits == RemovePid \/ \E w \in Workers : WaitReturns(w)

SNext ==
    \/ WorkerStep(Next)
    \/ \E w \in Workers : Fork(w)
    \/ InstallHandlers \/ ParentKilled \/ ForwardSignal \/ Waits
    \/ \E w \in Others : OtherStops(w) \/ OtherFails(w)

all == <<vars, svars>>

\* The worker's fairness, that of workers told to stop, and the supervisor's loop
\* goes on; it need not fork.
SFairness ==
    /\ WF_all(WorkerStep(Start)) /\ WF_all(WorkerStep(BeginDrain))
    /\ WF_all(WorkerStep(DrainEnds)) /\ WF_all(WorkerStep(Leave))
    /\ WF_all(Waits)
    /\ \A w \in Others : WF_all(OtherStops(w))

SSpec == SInit /\ [][SNext]_all /\ SFairness

-----------------------------------------------------------------------------
\* One signal to the supervisor is enough: whatever workers end or are reaped
\* while it is forwarded, every other one gets it, drains and ends, and run returns.
StopReachesEveryWorker ==
    told ~> /\ parent = "exited"
            /\ \A w \in Workers : HasEnded(w)

\* A worker that will end: it was told to, or has ended already.
Knows(w) == IF w = Worker THEN shutdown \/ stage = "ended" ELSE others[w] \in {"stopping", "ended"}

\* Nobody is missed by the signal: a pid that os.wait has returned meanwhile is that of
\* a worker that has ended, and no worker is forked later.
SignalMissesNone == told => \A w \in Workers : Knows(w)

\* run returns after the last worker has ended, and not before.
ExitsLast == parent = "exited" => \A w \in Workers : HasEnded(w)

=============================================================================

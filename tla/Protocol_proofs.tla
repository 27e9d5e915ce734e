-------------------------- MODULE Protocol_proofs --------------------------
(***************************************************************************)
(* Safety of one connection, for every set of requests and bodies, every   *)
(* combination of timeouts and every bound.  IInv is inductive; the parts  *)
(* it adds to the checked invariants say what each stage of the worker     *)
(* implies, which parse error explains a missing request timer, and why a  *)
(* late request is the last.  OrderInv, on top of it, says which items the *)
(* parts on the wire belong to, and so that a worker at rest owes nothing. *)
(***************************************************************************)
EXTENDS Protocol, TLAPS

Shapes == {"none", "bytes", "file", "stream"}
Entry  == [id : 0..MaxRequests, part : Parts \cup {"timeout", "frame"}]

StageOK ==
    /\ upgraded => stage = "done"
    /\ stage = "done" => transport # "open" \/ upgraded
    /\ stage = "next" => queue # <<>>
    /\ stage = "write" <=> pending # "none"
    /\ woken => stage = "write"
    /\ stage \in {"get", "next"} => ~handling
    /\ stage \notin {"get", "next", "done"} => handling
    /\ tracked <=> transport # "lost"

\* A parse error the worker has not answered yet.
ErrorPending == \/ \E i \in 1..Len(queue) : queue[i].kind = "malformed"
                \/ pending = "error"

NoTimeoutTask == timeouts.fresh = 0 /\ timeouts.blocked = 0 /\ timeouts.woken = 0

WatchOK ==
    transport = "open" /\ ~upgraded =>
        /\ IdleTimeout /\ ~inProgress /\ stage = "get" /\ queue = <<>> => idleTimer
        /\ RequestTimeout /\ inProgress /\ ~requestTimer /\ NoTimeoutTask => ErrorPending

LateOK ==
    \/ late = 0
    \/ late = 1 /\ shuttingDown /\ handling /\ Verdict # "another"

IInv == /\ TypeOK /\ StageOK /\ TimersFollowParser /\ LostIsReleased
        /\ WaitersArePaused /\ WatchOK /\ LateOK

-----------------------------------------------------------------------------
(* The operators the actions share.                                        *)

\* The conjuncts of TypeOK: a leaf that does not cite TypeOK sees none of them.
USE DEF SockTypeOK, PeerTypeOK, TimerTypeOK, WorkerTypeOK, ReplyTypeOK, FlagTypeOK

LEMMA SendFacts ==
    ASSUME TypeOK, NEW id \in 0..MaxRequests, NEW part \in Parts \cup {"timeout", "frame"},
           TransportWrite(id, part)
    PROVE  /\ wire' \in Seq(Entry) /\ buffered' \in BOOLEAN /\ paused' \in BOOLEAN
           /\ paused => paused'
  <1>1. CASE Accepts
    <2>1. [id |-> id, part |-> part] \in Entry
      BY DEF Entry
    <2>2. wire \in Seq(Entry)
      BY DEF TypeOK, Entry
    <2>3. wire' = Append(wire, [id |-> id, part |-> part])
      BY <1>1 DEF TransportWrite
    <2>4. wire' \in Seq(Entry)
      BY <2>1, <2>2, <2>3
    <2>5. buffered' \in {buffered, TRUE} /\ paused' \in {paused, paused \/ buffered'}
      BY <1>1 DEF TransportWrite
    <2>6. buffered \in BOOLEAN /\ paused \in BOOLEAN
      BY DEF TypeOK
    <2> QED
      BY <2>4, <2>5, <2>6
  <1>2. CASE ~Accepts
    BY <1>2 DEF TransportWrite, TypeOK, Entry
  <1> QED
    BY <1>1, <1>2

LEMMA CloseFacts ==
    ASSUME TypeOK, TransportClose
    PROVE  /\ transport' \in {"closing", "lost"}
           /\ transport' = "lost" <=> transport = "lost"
  BY DEF TransportClose, TypeOK

\* Where a write that went through leaves the worker.
LEMMA AfterWriteFacts ==
    ASSUME TypeOK, NEW part \in Parts, AfterWrite(part)
    PROVE  /\ stage' \in {"done", "settle", "bytes", "source"}
           /\ stage' = "done" <=> part \in {"error", "upgrade"}
           /\ upgraded' \in BOOLEAN
           /\ upgraded' <=> upgraded \/ part = "upgrade"
           /\ part # "error" => transport' = transport
           /\ part = "error" => transport' \in {"closing", "lost"}
           /\ transport' \in {"open", "closing", "lost"}
           /\ transport' = "lost" <=> transport = "lost"
  <1>1. upgraded' \in BOOLEAN /\ (upgraded' <=> upgraded \/ part = "upgrade")
    BY DEF AfterWrite, TypeOK
  <1>2. /\ stage' \in {"done", "settle", "bytes", "source"}
        /\ stage' = "done" <=> part \in {"error", "upgrade"}
    BY DEF AfterWrite, Parts
  <1>3. IF part = "error" THEN TransportClose ELSE UNCHANGED transport
    BY DEF AfterWrite
  <1> QED
    BY <1>1, <1>2, <1>3, CloseFacts DEF TypeOK

\* Where a write leaves the worker: past it, or suspended in it.
LEMMA WriteFacts ==
    ASSUME TypeOK, NEW part \in Parts, Write(part), current' \in Item \cup {NoItem}
    PROVE  /\ wire' \in Seq(Entry) /\ buffered' \in BOOLEAN /\ paused' \in BOOLEAN
           /\ paused => paused'
           /\ woken' = woken
           /\ upgraded' \in BOOLEAN
           /\ transport' \in {"open", "closing", "lost"}
           /\ transport' = "lost" <=> transport = "lost"
           /\ \/ /\ paused /\ stage' = "write" /\ pending' = part
                 /\ transport' = transport /\ upgraded' = upgraded
              \/ /\ stage' \in {"done", "settle", "bytes", "source"}
                 /\ stage' = "done" <=> part \in {"error", "upgrade"}
                 /\ pending' = pending
                 /\ upgraded' <=> upgraded \/ part = "upgrade"
                 /\ part = "error" => transport' \in {"closing", "lost"}
                 /\ part # "error" => transport' = transport
  <1>1. CASE paused
    BY <1>1 DEF Write, sock, TypeOK, Entry
  <1>2. CASE ~paused
    <2>1. TransportWrite(current'.id, part) /\ AfterWrite(part) /\ UNCHANGED <<woken, pending>>
      BY <1>2 DEF Write
    <2>2. current'.id \in 0..MaxRequests
      BY BoundsAssumption DEF Item, NoItem
    <2> QED
      BY <2>1, <2>2, SendFacts, AfterWriteFacts
  <1> QED
    BY <1>1, <1>2

-----------------------------------------------------------------------------
(* The steps of the worker.                                                *)

\* Writing a part of the response being prepared.
LEMMA WriteKeepsIInv ==
    ASSUME IInv, stage \in {"handler", "stat", "source", "bytes"},
           NEW part \in Parts \ {"upgrade"}, Write(part),
           UNCHANGED <<peer, timers, timeouts, tracked, shuttingDown, handling, late, current>>,
           body' \in Shapes, chunks' \in 0..MaxChunks, keepAlive' \in BOOLEAN,
           keepAlive' => \/ ~shuttingDown \/ part = "error"
                         \/ keepAlive /\ stage # "handler"
    PROVE  IInv'
  <1>1. TypeOK /\ current' \in Item \cup {NoItem}
    BY DEF IInv, TypeOK
  <1>2. /\ wire' \in Seq(Entry) /\ buffered' \in BOOLEAN /\ paused' \in BOOLEAN
        /\ paused => paused'
        /\ woken' = woken
        /\ upgraded' \in BOOLEAN
        /\ transport' \in {"open", "closing", "lost"}
        /\ transport' = "lost" <=> transport = "lost"
        /\ \/ /\ paused /\ stage' = "write" /\ pending' = part
              /\ transport' = transport /\ upgraded' = upgraded
           \/ /\ stage' \in {"done", "settle", "bytes", "source"}
              /\ stage' = "done" <=> part \in {"error", "upgrade"}
              /\ pending' = pending
              /\ upgraded' <=> upgraded \/ part = "upgrade"
              /\ part = "error" => transport' \in {"closing", "lost"}
              /\ part # "error" => transport' = transport
    BY <1>1, WriteFacts
  <1>3. /\ eof' = eof /\ received' = received /\ queue' = queue /\ inProgress' = inProgress
        /\ idleTimer' = idleTimer /\ requestTimer' = requestTimer /\ timeouts' = timeouts
        /\ tracked' = tracked /\ shuttingDown' = shuttingDown /\ handling' = handling
        /\ late' = late /\ current' = current
    BY DEF peer, timers
  <1>4. StageOK /\ transport # "lost" /\ pending = "none" /\ ~woken /\ ~upgraded /\ handling
    BY DEF IInv, StageOK, LostIsReleased, TypeOK
  <1>5. TypeOK'
    BY <1>1, <1>2, <1>3 DEF TypeOK, Shapes, Entry, Stages, Parts
  <1>6. StageOK'
    BY <1>2, <1>3, <1>4 DEF StageOK, Parts
  <1>7. TimersFollowParser' /\ LostIsReleased'
    BY <1>2, <1>3, <1>4 DEF IInv, TimersFollowParser, LostIsReleased
  <1>8. WaitersArePaused'
    BY <1>2, <1>3, <1>4 DEF IInv, WaitersArePaused
  <1>9. WatchOK'
    BY <1>2, <1>3, <1>4 DEF IInv, WatchOK, NoTimeoutTask, ErrorPending
  <1>10. LateOK'
    <2>1. ASSUME late = 1 PROVE ~keepAlive' \/ part = "error"
      BY <2>1, <1>4 DEF IInv, LateOK, Verdict
    <2>2. ASSUME ~keepAlive' \/ part = "error" PROVE Verdict' # "another"
      BY <2>2, <1>2 DEF Verdict
    <2> QED
      BY <2>1, <2>2, <1>3 DEF IInv, LateOK
  <1> QED
    BY <1>5, <1>6, <1>7, <1>8, <1>9, <1>10 DEF IInv

LEMMA HandlerReturnsIInv ==
    ASSUME IInv, NEW b \in Bodies, NEW close \in BOOLEAN, HandlerReturns(b, close)
    PROVE  IInv'
  <1>1. /\ stage = "handler" /\ body' \in Shapes /\ chunks' \in 0..MaxChunks
        /\ keepAlive' \in BOOLEAN /\ (keepAlive' => ~shuttingDown) /\ current' = current
    <2>1. /\ stage = "handler" /\ body' = b /\ chunks' = 0 /\ current' = current
          /\ keepAlive' = (ShouldKeepAlive /\ ~close)
      BY DEF HandlerReturns
    <2>2. body' \in Shapes /\ chunks' \in 0..MaxChunks
      BY <2>1, BodiesAssumption, BoundsAssumption DEF Shapes
    <2>3. keepAlive' \in BOOLEAN /\ (keepAlive' => ~shuttingDown)
      BY <2>1, Zenon DEF ShouldKeepAlive
    <2> QED
      BY <2>1, <2>2, <2>3
  <1>2. CASE b = "file"
    <2>1. /\ stage' = "stat"
          /\ UNCHANGED <<sock, woken, pending, upgraded, peer, timers, timeouts, tracked,
                         shuttingDown, handling, late>>
      BY <1>2 DEF HandlerReturns
    <2> USE <1>1, <2>1 DEF IInv, sock, peer, timers
    <2>2. TypeOK'
      BY DEF TypeOK, Shapes, Stages
    <2>3. StageOK' /\ TimersFollowParser' /\ LostIsReleased' /\ WaitersArePaused'
      BY DEF StageOK, TimersFollowParser, LostIsReleased, WaitersArePaused
    <2>4. WatchOK'
      BY DEF WatchOK, NoTimeoutTask, ErrorPending
    <2>5. LateOK'
      BY DEF LateOK, Verdict, StageOK
    <2> QED
      BY <2>2, <2>3, <2>4, <2>5
  <1>3. CASE b # "file"
    <2>1. /\ Write("head")
          /\ UNCHANGED <<peer, timers, timeouts, tracked, shuttingDown, handling, late, current>>
      BY <1>3 DEF HandlerReturns
    <2> QED
      BY <1>1, <2>1, WriteKeepsIInv DEF Parts
  <1> QED
    BY <1>2, <1>3

LEMMA StatReturnsIInv ==
    ASSUME IInv, NEW b \in {"file", "none"}, StatReturns(b)
    PROVE  IInv'
  BY WriteKeepsIInv DEF StatReturns, Parts, Shapes, IInv, TypeOK

LEMMA WriteBytesIInv ==
    ASSUME IInv, WriteBytes
    PROVE  IInv'
  BY WriteKeepsIInv DEF WriteBytes, reply, Parts, Shapes, IInv, TypeOK

LEMMA SourceYieldsIInv ==
    ASSUME IInv, SourceYields
    PROVE  IInv'
  <1>1. /\ Write("body") /\ stage = "source"
        /\ UNCHANGED <<peer, timers, timeouts, tracked, shuttingDown, handling, late, current>>
        /\ body' \in Shapes /\ keepAlive' \in BOOLEAN /\ keepAlive' = keepAlive
    BY DEF SourceYields, Shapes, IInv, TypeOK
  <1>2. chunks' \in 0..MaxChunks
    BY BoundsAssumption DEF SourceYields, IInv, TypeOK
  <1> QED
    BY <1>1, <1>2, WriteKeepsIInv DEF Parts

LEMMA SourceEndsIInv ==
    ASSUME IInv, SourceEnds
    PROVE  IInv'
  <1>1. /\ stage = "source"
        /\ UNCHANGED <<peer, timers, timeouts, tracked, shuttingDown, handling, late, reply>>
        /\ body' \in Shapes /\ chunks' \in 0..MaxChunks /\ keepAlive' \in BOOLEAN
    BY DEF SourceEnds, reply, Shapes, IInv, TypeOK
  <1>2. CASE body = "stream"
    BY <1>1, <1>2, WriteKeepsIInv DEF SourceEnds, reply, Parts
  <1>3. CASE body # "stream"
    <2>1. stage' = "settle" /\ UNCHANGED <<sock, woken, pending, upgraded>>
      BY <1>3 DEF SourceEnds
    <2> USE <1>1, <2>1 DEF IInv, sock, peer, timers, reply
    <2>2. TypeOK'
      BY DEF TypeOK, Shapes, Stages
    <2>3. StageOK' /\ TimersFollowParser' /\ LostIsReleased' /\ WaitersArePaused'
      BY DEF StageOK, TimersFollowParser, LostIsReleased, WaitersArePaused
    <2>4. WatchOK'
      BY DEF WatchOK, NoTimeoutTask, ErrorPending, StageOK
    <2>5. LateOK'
      BY DEF LateOK, Verdict, StageOK
    <2> QED
      BY <2>2, <2>3, <2>4, <2>5
  <1> QED
    BY <1>2, <1>3

LEMMA FailsIInv ==
    ASSUME IInv, Fails
    PROVE  IInv'
  <1>1. /\ Write("error") /\ stage \in {"handler", "stat", "source"}
        /\ UNCHANGED <<peer, timers, timeouts, tracked, shuttingDown, handling, late, current>>
        /\ body' \in Shapes /\ chunks' \in 0..MaxChunks /\ keepAlive' \in BOOLEAN
    BY DEF Fails, reply, Shapes, IInv, TypeOK
  <1> QED
    BY <1>1, WriteKeepsIInv DEF Parts

LEMMA SettleIInv ==
    ASSUME IInv, Settle
    PROVE  IInv'
  <1>1. /\ stage = "settle" /\ handling /\ ~upgraded /\ transport # "lost"
        /\ pending = "none" /\ ~woken
        /\ UNCHANGED <<buffered, paused, wire, peer, requestTimer, timeouts, woken, pending,
                       reply, tracked, shuttingDown, upgraded, late>>
    BY DEF Settle, IInv, StageOK, LostIsReleased, TypeOK
  <1>2. CASE keepAlive
    <2>1. /\ handling' = FALSE /\ transport' = transport
          /\ idleTimer' = (IF inProgress THEN idleTimer ELSE IdleTimeout)
          /\ stage' = (IF queue = <<>> THEN "get" ELSE "next")
      BY <1>2 DEF Settle, IdleTimerAfter
    <2>2. late = 0
      BY <1>1, <1>2 DEF IInv, LateOK, Verdict
    <2> USE <1>1, <2>1, SwitchesAssumption DEF IInv, peer, reply
    <2>3. TypeOK'
      BY DEF TypeOK, Stages
    <2>4. StageOK' /\ TimersFollowParser' /\ LostIsReleased' /\ WaitersArePaused'
      BY DEF StageOK, TimersFollowParser, LostIsReleased, WaitersArePaused, TypeOK
    <2>5. WatchOK'
      BY DEF WatchOK, NoTimeoutTask, ErrorPending, TypeOK
    <2>6. LateOK'
      BY <2>2 DEF LateOK
    <2> QED
      BY <2>3, <2>4, <2>5, <2>6
  <1>3. CASE ~keepAlive
    <2>1. /\ handling' = handling /\ idleTimer' = idleTimer /\ stage' = "done"
          /\ transport' \in {"closing", "lost"}
          /\ transport' = "lost" <=> transport = "lost"
      BY <1>3, CloseFacts DEF Settle, IInv
    <2> USE <1>1, <2>1 DEF IInv, peer, reply
    <2>2. TypeOK'
      BY DEF TypeOK, Stages
    <2>3. StageOK' /\ TimersFollowParser' /\ LostIsReleased' /\ WaitersArePaused'
      BY DEF StageOK, TimersFollowParser, LostIsReleased, WaitersArePaused, TypeOK
    <2>4. WatchOK'
      BY DEF WatchOK
    <2>5. LateOK'
      BY DEF LateOK, Verdict
    <2> QED
      BY <2>2, <2>3, <2>4, <2>5
  <1> QED
    BY <1>2, <1>3

LEMMA WriteResumesIInv ==
    ASSUME IInv, WriteResumes
    PROVE  IInv'
  <1>1. /\ stage = "write" /\ handling /\ ~upgraded /\ transport # "lost"
        /\ pending \in Parts /\ woken' = FALSE /\ pending' = "none"
        /\ UNCHANGED <<peer, timers, timeouts, tracked, shuttingDown, handling, late, reply>>
    BY DEF WriteResumes, IInv, StageOK, LostIsReleased, TypeOK
  <1>2. TypeOK /\ current.id \in 0..MaxRequests
    BY BoundsAssumption DEF IInv, TypeOK, Item, NoItem
  <1>3. /\ wire' \in Seq(Entry) /\ buffered' \in BOOLEAN /\ paused' \in BOOLEAN
        /\ paused => paused'
    BY <1>1, <1>2, SendFacts DEF WriteResumes
  <1>4. /\ stage' \in {"done", "settle", "bytes", "source"}
        /\ stage' = "done" <=> pending \in {"error", "upgrade"}
        /\ upgraded' \in BOOLEAN
        /\ upgraded' <=> upgraded \/ pending = "upgrade"
        /\ pending # "error" => transport' = transport
        /\ pending = "error" => transport' \in {"closing", "lost"}
        /\ transport' \in {"open", "closing", "lost"}
        /\ transport' = "lost" <=> transport = "lost"
    BY <1>1, <1>2, AfterWriteFacts DEF WriteResumes
  <1> USE <1>1, <1>3, <1>4 DEF IInv, peer, timers, reply
  <1>5. TypeOK'
    BY DEF TypeOK, Stages, Entry
  <1>6. StageOK' /\ TimersFollowParser' /\ LostIsReleased' /\ WaitersArePaused'
    BY DEF StageOK, TimersFollowParser, LostIsReleased, WaitersArePaused, TypeOK
  <1>7. WatchOK'
    BY DEF WatchOK, NoTimeoutTask, ErrorPending
  <1>8. LateOK'
    BY DEF LateOK, Verdict
  <1> QED
    BY <1>5, <1>6, <1>7, <1>8

\* An item leaves the queue: a parse error that was pending still is, or is
\* the one the worker answers now.
LEMMA TakeFacts ==
    ASSUME IInv, Take
    PROVE  /\ current' \in Item /\ queue' \in Seq(Item)
           /\ \A i \in 1..Len(queue) :
                  queue[i].kind = "malformed" =>
                      \/ current'.kind = "malformed"
                      \/ \E j \in 1..Len(queue') : queue'[j].kind = "malformed"
  <1>1. queue \in Seq(Item) /\ queue # <<>> /\ current' = Head(queue) /\ queue' = Tail(queue)
    BY DEF Take, IInv, TypeOK
  <1>2. /\ current' = queue[1] /\ Len(queue') = Len(queue) - 1
        /\ \A j \in 1..(Len(queue) - 1) : queue'[j] = queue[j + 1]
    BY <1>1
  <1>3. current' \in Item /\ queue' \in Seq(Item)
    BY <1>1
  <1>4. ASSUME NEW i \in 1..Len(queue), queue[i].kind = "malformed", i # 1
        PROVE  \E j \in 1..Len(queue') : queue'[j].kind = "malformed"
    <2>1. i - 1 \in 1..Len(queue') /\ queue'[i - 1] = queue[i]
      BY <1>1, <1>2, <1>4
    <2> QED
      BY <2>1, <1>4
  <1> QED
    BY <1>2, <1>3, <1>4

LEMMA TakeIInv ==
    ASSUME IInv, Take
    PROVE  IInv'
  <1>1. /\ stage \in {"get", "next"} /\ ~handling /\ ~upgraded /\ transport # "lost"
        /\ pending = "none" /\ ~woken /\ late = 0 /\ handling' = TRUE
        /\ late' = (IF shuttingDown THEN late + 1 ELSE late)
        /\ UNCHANGED <<eof, received, inProgress, timers, timeouts, body, chunks, keepAlive,
                       tracked, shuttingDown>>
    BY DEF Take, IInv, StageOK, LostIsReleased, TypeOK, LateOK
  <1>2. /\ current' \in Item /\ queue' \in Seq(Item)
        /\ (\E i \in 1..Len(queue) : queue[i].kind = "malformed") =>
               \/ current'.kind = "malformed"
               \/ \E j \in 1..Len(queue') : queue'[j].kind = "malformed"
    BY TakeFacts
  <1>3. PICK limited \in {FALSE, RateLimit} :
            CASE limited \/ current'.kind \in {"malformed", "refused"} -> Write("error")
              [] ~limited /\ current'.kind = "upgrade" -> Write("upgrade")
              [] OTHER -> stage' = "handler" /\ UNCHANGED <<sock, woken, pending, upgraded>>
    BY DEF Take
  <1>4. \/ Write("error")
        \/ Write("upgrade") /\ current'.kind = "upgrade"
        \/ /\ stage' = "handler" /\ UNCHANGED <<sock, woken, pending, upgraded>>
           /\ current'.kind # "malformed"
    BY <1>3
  <1> USE <1>1, <1>2 DEF IInv, peer, timers
  <1>5. CASE stage' = "handler" /\ UNCHANGED <<sock, woken, pending, upgraded>>
             /\ current'.kind # "malformed"
    <2>1. TypeOK'
      BY <1>5 DEF TypeOK, Stages, sock
    <2>2. StageOK' /\ TimersFollowParser' /\ LostIsReleased' /\ WaitersArePaused'
      BY <1>5 DEF StageOK, TimersFollowParser, LostIsReleased, WaitersArePaused, sock
    <2>3. WatchOK'
      BY <1>5 DEF WatchOK, NoTimeoutTask, ErrorPending, sock
    <2>4. LateOK'
      BY <1>5 DEF LateOK, Verdict
    <2> QED
      BY <2>1, <2>2, <2>3, <2>4
  <1>6. ASSUME NEW part \in {"error", "upgrade"}, Write(part),
               part = "upgrade" => current'.kind # "malformed"
        PROVE  IInv'
    <2>1. /\ wire' \in Seq(Entry) /\ buffered' \in BOOLEAN /\ paused' \in BOOLEAN
          /\ paused => paused'
          /\ woken' = woken
          /\ upgraded' \in BOOLEAN
          /\ transport' \in {"open", "closing", "lost"}
          /\ transport' = "lost" <=> transport = "lost"
          /\ \/ /\ paused /\ stage' = "write" /\ pending' = part
                /\ transport' = transport /\ upgraded' = upgraded
             \/ /\ stage' = "done" /\ pending' = pending
                /\ upgraded' <=> upgraded \/ part = "upgrade"
                /\ part = "error" => transport' \in {"closing", "lost"}
                /\ part # "error" => transport' = transport
      <3>1. TypeOK /\ part \in Parts /\ current' \in Item \cup {NoItem}
        BY <1>6 DEF Parts
      <3> QED
        BY <3>1, <1>6, WriteFacts
    <2>2. TypeOK'
      BY <2>1 DEF TypeOK, Stages, Parts, Entry
    <2>3. StageOK' /\ TimersFollowParser' /\ LostIsReleased'
      BY <2>1 DEF StageOK, TimersFollowParser, LostIsReleased
    <2>4. WaitersArePaused'
      BY <2>1 DEF WaitersArePaused
    <2>5. WatchOK'
      BY <1>6, <2>1 DEF WatchOK, NoTimeoutTask, ErrorPending
    <2>6. LateOK'
      BY <2>1 DEF LateOK, Verdict
    <2> QED
      BY <2>2, <2>3, <2>4, <2>5, <2>6
  <1> QED
    BY <1>4, <1>5, <1>6

LEMMA WorkerIInv ==
    ASSUME IInv, Worker
    PROVE  IInv'
  BY TakeIInv, HandlerReturnsIInv, StatReturnsIInv, WriteBytesIInv, SourceYieldsIInv,
     SourceEndsIInv, FailsIInv, SettleIInv, WriteResumesIInv DEF Worker

-----------------------------------------------------------------------------
(* The steps of the client.                                                *)

LEMMA DataReceivedIInv ==
    ASSUME IInv, ~HoldsLoop, NEW k \in Kinds \cup {"none", "malformed"}, NEW more \in BOOLEAN,
           DataReceived(k, more)
    PROVE  IInv'
  <1>1. /\ transport = "open" /\ ~upgraded
        /\ inProgress' = more
        /\ idleTimer' \in BOOLEAN /\ (idleTimer' <=> idleTimer /\ inProgress)
        /\ UNCHANGED <<sock, eof, timeouts, worker, reply, tracked, shuttingDown,
                       handling, upgraded, late>>
    <2>1. idleTimer' = (idleTimer /\ inProgress)
      BY DEF DataReceived
    <2>2. idleTimer' \in BOOLEAN /\ (idleTimer' <=> idleTimer /\ inProgress)
      BY <2>1, Zenon
    <2> QED
      BY <2>2 DEF DataReceived
  <1>2. /\ requestTimer' \in BOOLEAN
        /\ requestTimer' => more
        /\ RequestTimeout /\ more /\ ~requestTimer' =>
               \/ k = "malformed"
               \/ k = "none" /\ inProgress /\ ~requestTimer
    <2>1. requestTimer' = RequestTimerAfter(k, more) /\ (k = "none" => more)
      BY DEF DataReceived
    <2>2. CASE k = "malformed"
      BY <2>1, <2>2 DEF RequestTimerAfter
    <2>3. CASE k = "none"
      BY <2>1, <2>3, KindsAssumption, SwitchesAssumption DEF RequestTimerAfter, IInv, TypeOK
    <2>4. CASE k \in Kinds
      <3>1. requestTimer' = (more /\ RequestTimeout)
        BY <2>1, <2>4, KindsAssumption DEF RequestTimerAfter
      <3>2. /\ requestTimer' \in BOOLEAN /\ (requestTimer' => more)
            /\ RequestTimeout /\ more => requestTimer'
        BY <3>1, Zenon
      <3> QED
        BY <3>2
    <2> QED
      BY <2>2, <2>3, <2>4
  <1>3. /\ received' \in 0..MaxRequests /\ queue' \in Seq(Item)
        /\ k = "none" => queue' = queue
        /\ k # "none" => queue' # <<>>
        /\ queue # <<>> => queue' # <<>>
        /\ k = "malformed" => \E i \in 1..Len(queue') : queue'[i].kind = "malformed"
        /\ \A i \in 1..Len(queue) : i \in 1..Len(queue') /\ queue'[i] = queue[i]
    <2>1. queue \in Seq(Item) /\ received \in 0..MaxRequests
      BY DEF IInv, TypeOK
    <2>2. CASE k = "none"
      BY <2>1, <2>2 DEF DataReceived
    <2>3. CASE k # "none"
      <3>1. /\ received < MaxRequests /\ received' = received + 1
            /\ queue' = Append(queue, [id |-> received + 1, kind |-> k])
        BY <2>3 DEF DataReceived
      <3>2. [id |-> received + 1, kind |-> k] \in Item
        BY <2>1, <2>3, <3>1, BoundsAssumption DEF Item
      <3>3. received' \in 0..MaxRequests
        BY <2>1, <3>1, BoundsAssumption
      <3>4. /\ queue' \in Seq(Item) /\ Len(queue') = Len(queue) + 1
            /\ queue'[Len(queue) + 1] = [id |-> received + 1, kind |-> k]
            /\ \A i \in 1..Len(queue) : queue'[i] = queue[i]
        BY <2>1, <3>1, <3>2
      <3>5. Len(queue) \in Nat /\ queue' # <<>>
        BY <2>1, <3>4
      <3>6. Len(queue) + 1 \in 1..Len(queue') /\ queue'[Len(queue) + 1].kind = k
        BY <3>4, <3>5
      <3> QED
        BY <2>3, <3>3, <3>4, <3>5, <3>6
    <2> QED
      BY <2>2, <2>3
  <1> USE <1>1, <1>2, <1>3 DEF IInv, sock, worker, reply
  <1>4. TypeOK'
    BY DEF TypeOK
  <1>5. StageOK' /\ LostIsReleased' /\ WaitersArePaused'
    BY DEF StageOK, LostIsReleased, WaitersArePaused
  <1>6. TimersFollowParser'
    <2>1. k = "none" /\ inProgress => ~idleTimer'
      BY DEF TimersFollowParser
    <2> QED
      BY DEF TimersFollowParser
  <1>7. WatchOK'
    <2>1. IdleTimeout /\ ~inProgress' /\ stage' = "get" /\ queue' = <<>> => idleTimer'
      BY DEF DataReceived
    <2>2. ErrorPending \/ k = "malformed" => ErrorPending'
      BY DEF ErrorPending
    <2>3. ASSUME RequestTimeout, inProgress', ~requestTimer', NoTimeoutTask'
          PROVE  ErrorPending'
      BY <2>2, <2>3 DEF WatchOK, NoTimeoutTask
    <2> QED
      BY <2>1, <2>3 DEF WatchOK
  <1>8. LateOK'
    BY DEF LateOK, Verdict
  <1> QED
    BY <1>4, <1>5, <1>6, <1>7, <1>8

LEMMA EofReceivedIInv ==
    ASSUME IInv, EofReceived
    PROVE  IInv'
  <1> USE DEF EofReceived, IInv, sock, timers, worker, reply
  <1>1. TypeOK'
    BY DEF TypeOK
  <1>2. StageOK' /\ TimersFollowParser' /\ LostIsReleased' /\ WaitersArePaused'
    BY DEF StageOK, TimersFollowParser, LostIsReleased, WaitersArePaused
  <1>3. WatchOK' /\ LateOK'
    BY DEF WatchOK, NoTimeoutTask, ErrorPending, LateOK, Verdict
  <1> QED
    BY <1>1, <1>2, <1>3

LEMMA ResumeWritingIInv ==
    ASSUME IInv, ResumeWriting
    PROVE  IInv'
  <1>1. /\ timeouts \in [fresh : Nat, blocked : Nat, woken : Nat]
        /\ timeouts' = [fresh |-> timeouts.fresh, blocked |-> 0,
                         woken |-> timeouts.woken + timeouts.blocked]
    BY DEF ResumeWriting, IInv, TypeOK
  <1>2. /\ timeouts' \in [fresh : Nat, blocked : Nat, woken : Nat]
        /\ timeouts'.blocked = 0
        /\ NoTimeoutTask' => NoTimeoutTask
    <2>1. /\ timeouts.fresh \in Nat /\ timeouts.blocked \in Nat /\ timeouts.woken \in Nat
          /\ timeouts'.fresh = timeouts.fresh /\ timeouts'.blocked = 0
          /\ timeouts'.woken = timeouts.woken + timeouts.blocked
      BY <1>1
    <2>2. timeouts' \in [fresh : Nat, blocked : Nat, woken : Nat]
      BY <1>1
    <2> QED
      BY <2>1, <2>2 DEF NoTimeoutTask
  <1>3. /\ woken' \in BOOLEAN /\ (woken' <=> stage = "write")
    <2>1. woken' = (stage = "write")
      BY DEF ResumeWriting
    <2> QED
      BY <2>1, Zenon
  <1>4. /\ paused' = FALSE /\ buffered' \in BOOLEAN
        /\ UNCHANGED <<transport, wire, peer, timers, stage, pending, reply, tracked,
                       shuttingDown, handling, upgraded, late>>
    BY DEF ResumeWriting
  <1> USE <1>2, <1>3, <1>4 DEF IInv, peer, timers, reply
  <1>5. TypeOK'
    <2>1. SockTypeOK'
      BY DEF TypeOK
    <2>2. PeerTypeOK'
      BY DEF TypeOK
    <2>3. TimerTypeOK'
      BY DEF TypeOK
    <2>4. WorkerTypeOK'
      BY DEF TypeOK
    <2>5. ReplyTypeOK'
      BY DEF TypeOK
    <2>6. FlagTypeOK'
      BY DEF TypeOK
    <2> QED
      BY <2>1, <2>2, <2>3, <2>4, <2>5, <2>6 DEF TypeOK
  <1>6. StageOK' /\ TimersFollowParser' /\ LostIsReleased' /\ WaitersArePaused'
    BY DEF StageOK, TimersFollowParser, LostIsReleased, WaitersArePaused
  <1>7. WatchOK' /\ LateOK'
    BY DEF WatchOK, ErrorPending, LateOK, Verdict
  <1> QED
    BY <1>5, <1>6, <1>7

LEMMA BufferDrainsIInv ==
    ASSUME IInv, BufferDrains
    PROVE  IInv'
  <1> USE DEF BufferDrains, IInv, peer, timers, worker, reply
  <1>1. TypeOK'
    <2>1. SockTypeOK'
      BY DEF TypeOK
    <2>2. PeerTypeOK'
      BY DEF TypeOK
    <2>3. TimerTypeOK'
      BY DEF TypeOK
    <2>4. WorkerTypeOK'
      BY DEF TypeOK
    <2>5. ReplyTypeOK'
      BY DEF TypeOK
    <2>6. FlagTypeOK'
      BY DEF TypeOK
    <2> QED
      BY <2>1, <2>2, <2>3, <2>4, <2>5, <2>6 DEF TypeOK
  <1>2. StageOK' /\ TimersFollowParser' /\ LostIsReleased' /\ WaitersArePaused'
    BY DEF StageOK, TimersFollowParser, LostIsReleased, WaitersArePaused
  <1>3. WatchOK' /\ LateOK'
    BY DEF WatchOK, NoTimeoutTask, ErrorPending, LateOK, Verdict
  <1> QED
    BY <1>1, <1>2, <1>3

LEMMA ConnectionLostIInv ==
    ASSUME IInv, transport # "lost", ConnectionLost
    PROVE  IInv'
  <1> USE DEF ConnectionLost, IInv, peer, reply
  <1>1. TypeOK'
    BY DEF TypeOK, Stages
  <1>2. StageOK' /\ TimersFollowParser' /\ LostIsReleased' /\ WaitersArePaused'
    BY DEF StageOK, TimersFollowParser, LostIsReleased, WaitersArePaused
  <1>3. WatchOK' /\ LateOK'
    BY DEF WatchOK, LateOK, Verdict
  <1> QED
    BY <1>1, <1>2, <1>3

LEMMA ClientIInv ==
    ASSUME IInv, ~HoldsLoop, Client
    PROVE  IInv'
  BY DataReceivedIInv, EofReceivedIInv, ResumeWritingIInv, BufferDrainsIInv,
     ConnectionLostIInv DEF Client, CloseCompletes, PeerResets

-----------------------------------------------------------------------------
(* Timers, 408 tasks and the drain.                                        *)

\* A step that only closes the transport, and may disarm the idle timer and
\* flip shutting_down.
LEMMA CloseKeepsIInv ==
    ASSUME IInv, TransportClose \/ UNCHANGED transport,
           buffered' \in BOOLEAN, paused' \in BOOLEAN, paused => paused', wire' \in Seq(Entry),
           UNCHANGED <<peer, requestTimer, timeouts, worker, reply, tracked, handling,
                       upgraded, late>>,
           shuttingDown' \in BOOLEAN, shuttingDown => shuttingDown',
           idleTimer' = idleTimer \/ (idleTimer' = FALSE /\ TransportClose)
    PROVE  IInv'
  <1>1. /\ transport' \in {"open", "closing", "lost"}
        /\ transport' = "lost" <=> transport = "lost"
        /\ transport' = "open" => transport = "open" /\ idleTimer' = idleTimer
    BY CloseFacts DEF IInv, TypeOK
  <1>2. idleTimer' \in BOOLEAN /\ (idleTimer' => idleTimer)
    <2>1. idleTimer \in BOOLEAN
      BY DEF IInv, TypeOK
    <2>2. idleTimer' = idleTimer \/ idleTimer' = FALSE
      OBVIOUS
    <2>3. CASE idleTimer' = idleTimer
      BY <2>1, <2>3, Zenon
    <2>4. CASE idleTimer' = FALSE
      BY <2>4, Zenon
    <2> QED
      BY <2>2, <2>3, <2>4
  <1> USE <1>1, <1>2 DEF IInv, peer, worker, reply
  <1>3. TypeOK'
    <2>1. SockTypeOK'
      BY DEF TypeOK, Entry
    <2>2. PeerTypeOK'
      BY DEF TypeOK, Entry
    <2>3. TimerTypeOK'
      BY DEF TypeOK, Entry
    <2>4. WorkerTypeOK'
      BY DEF TypeOK, Entry
    <2>5. ReplyTypeOK'
      BY DEF TypeOK, Entry
    <2>6. FlagTypeOK'
      BY DEF TypeOK, Entry
    <2> QED
      BY <2>1, <2>2, <2>3, <2>4, <2>5, <2>6 DEF TypeOK
  <1>4. StageOK' /\ TimersFollowParser' /\ LostIsReleased' /\ WaitersArePaused'
    BY DEF StageOK, TimersFollowParser, LostIsReleased, WaitersArePaused
  <1>5. WatchOK' /\ LateOK'
    BY DEF WatchOK, NoTimeoutTask, ErrorPending, LateOK, Verdict
  <1> QED
    BY <1>3, <1>4, <1>5

LEMMA IdleTimerFiresIInv ==
    ASSUME IInv, IdleTimerFires
    PROVE  IInv'
  BY CloseKeepsIInv DEF IdleTimerFires, IInv, TypeOK, Entry

LEMMA WebSocketClosesIInv ==
    ASSUME IInv, WebSocketCloses
    PROVE  IInv'
  <1>1. TypeOK /\ current.id \in 0..MaxRequests
    BY BoundsAssumption DEF IInv, TypeOK, Item, NoItem
  <1>2. /\ wire' \in Seq(Entry) /\ buffered' \in BOOLEAN /\ paused' \in BOOLEAN
        /\ paused => paused'
    BY <1>1, SendFacts DEF WebSocketCloses
  <1> QED
    BY <1>1, <1>2, CloseKeepsIInv DEF WebSocketCloses, timers, TypeOK

LEMMA DrainIInv ==
    ASSUME IInv, Drain
    PROVE  IInv'
  <1>1. TransportClose \/ UNCHANGED transport
    BY DEF Drain
  <1> QED
    BY <1>1, CloseKeepsIInv DEF Drain, timers, IInv, TypeOK, Entry

LEMMA DrainDeadlineIInv ==
    ASSUME IInv, DrainDeadline
    PROVE  IInv'
  BY CloseKeepsIInv DEF DrainDeadline, timers, IInv, TypeOK, Entry

LEMMA RequestTimerFiresIInv ==
    ASSUME IInv, RequestTimerFires
    PROVE  IInv'
  <1>1. /\ timeouts \in [fresh : Nat, blocked : Nat, woken : Nat]
        /\ timeouts' = [timeouts EXCEPT !.fresh = @ + 1]
    BY DEF RequestTimerFires, IInv, TypeOK
  <1>2. /\ timeouts' \in [fresh : Nat, blocked : Nat, woken : Nat]
        /\ timeouts'.blocked = timeouts.blocked /\ ~NoTimeoutTask'
    BY <1>1 DEF NoTimeoutTask
  <1>3. /\ requestTimer /\ requestTimer' = FALSE
        /\ UNCHANGED <<sock, peer, idleTimer, worker, reply, tracked, shuttingDown,
                       handling, upgraded, late>>
    BY DEF RequestTimerFires
  <1> USE <1>2, <1>3 DEF IInv, sock, peer, worker, reply
  <1>4. TypeOK'
    <2>1. SockTypeOK'
      BY DEF TypeOK
    <2>2. PeerTypeOK'
      BY DEF TypeOK
    <2>3. TimerTypeOK'
      BY DEF TypeOK
    <2>4. WorkerTypeOK'
      BY DEF TypeOK
    <2>5. ReplyTypeOK'
      BY DEF TypeOK
    <2>6. FlagTypeOK'
      BY DEF TypeOK
    <2> QED
      BY <2>1, <2>2, <2>3, <2>4, <2>5, <2>6 DEF TypeOK
  <1>5. StageOK' /\ TimersFollowParser' /\ LostIsReleased' /\ WaitersArePaused'
    BY DEF StageOK, TimersFollowParser, LostIsReleased, WaitersArePaused
  <1>6. WatchOK' /\ LateOK'
    BY DEF WatchOK, LateOK, Verdict
  <1> QED
    BY <1>4, <1>5, <1>6

\* A 408 task either blocks, on a paused transport, or writes and closes.
LEMMA TimeoutTaskIInv ==
    ASSUME IInv, TimeoutTaskStarts \/ TimeoutTaskResumes
    PROVE  IInv'
  <1>1. UNCHANGED <<peer, timers, worker, reply, tracked, shuttingDown, handling,
                    upgraded, late>>
    BY DEF TimeoutTaskStarts, TimeoutTaskResumes
  <1>2. TypeOK /\ timeouts \in [fresh : Nat, blocked : Nat, woken : Nat] /\ 0 \in 0..MaxRequests
    BY BoundsAssumption DEF IInv, TypeOK
  <1>3. CASE TimeoutTaskStarts /\ paused
    <2>1. /\ UNCHANGED sock /\ timeouts.fresh > 0
          /\ timeouts' = [fresh |-> timeouts.fresh - 1, blocked |-> timeouts.blocked + 1,
                           woken |-> timeouts.woken]
      BY <1>3 DEF TimeoutTaskStarts
    <2>2. timeouts' \in [fresh : Nat, blocked : Nat, woken : Nat] /\ ~NoTimeoutTask'
      BY <1>2, <2>1 DEF NoTimeoutTask
    <2> USE <1>1, <1>3, <2>1, <2>2 DEF IInv, sock, peer, timers, worker, reply
    <2>3. TypeOK'
      <3>1. SockTypeOK'
        BY DEF TypeOK
      <3>2. PeerTypeOK'
        BY DEF TypeOK
      <3>3. TimerTypeOK'
        BY DEF TypeOK
      <3>4. WorkerTypeOK'
        BY DEF TypeOK
      <3>5. ReplyTypeOK'
        BY DEF TypeOK
      <3>6. FlagTypeOK'
        BY DEF TypeOK
      <3> QED
        BY <3>1, <3>2, <3>3, <3>4, <3>5, <3>6 DEF TypeOK
    <2>4. StageOK' /\ TimersFollowParser' /\ LostIsReleased' /\ WaitersArePaused'
      BY DEF StageOK, TimersFollowParser, LostIsReleased, WaitersArePaused
    <2>5. WatchOK' /\ LateOK'
      BY DEF WatchOK, LateOK, Verdict
    <2> QED
      BY <2>3, <2>4, <2>5
  <1>4. CASE ~(TimeoutTaskStarts /\ paused)
    <2>1. TransportWrite(0, "timeout") /\ TransportClose
      BY <1>4 DEF TimeoutTaskStarts, TimeoutTaskResumes
    <2>2. /\ timeouts' \in [fresh : Nat, blocked : Nat, woken : Nat]
          /\ timeouts'.blocked = timeouts.blocked
      <3>1. \/ timeouts.fresh > 0 /\ timeouts' = [timeouts EXCEPT !.fresh = @ - 1]
            \/ timeouts.woken > 0 /\ timeouts' = [timeouts EXCEPT !.woken = @ - 1]
        BY <1>4 DEF TimeoutTaskStarts, TimeoutTaskResumes
      <3> QED
        BY <3>1, <1>2
    <2>3. /\ wire' \in Seq(Entry) /\ buffered' \in BOOLEAN /\ paused' \in BOOLEAN
          /\ paused => paused'
      BY <1>2, <2>1, SendFacts
    <2>4. /\ transport' \in {"closing", "lost"}
          /\ transport' = "lost" <=> transport = "lost"
      BY <1>2, <2>1, CloseFacts
    <2> USE <1>1, <2>2, <2>3, <2>4 DEF IInv, peer, timers, worker, reply
    <2>5. TypeOK'
      BY DEF TypeOK, Entry
    <2>6. StageOK' /\ TimersFollowParser' /\ LostIsReleased' /\ WaitersArePaused'
      BY DEF StageOK, TimersFollowParser, LostIsReleased, WaitersArePaused
    <2>7. WatchOK' /\ LateOK'
      BY DEF WatchOK, LateOK, Verdict
    <2> QED
      BY <2>5, <2>6, <2>7
  <1> QED
    BY <1>3, <1>4

-----------------------------------------------------------------------------
(* Invariance, and what follows from it.                                   *)

LEMMA InitIInv == Init => IInv
  <1> SUFFICES ASSUME Init PROVE IInv
    OBVIOUS
  <1> USE DEF Init
  <1>1. TypeOK
    <2>1. SockTypeOK /\ PeerTypeOK
      <3>1. wire \in Seq([id : 0..MaxRequests, part : Parts \cup {"timeout", "frame"}])
        OBVIOUS
      <3>2. queue \in Seq(Item) /\ received \in 0..MaxRequests
        BY BoundsAssumption
      <3> QED
        BY <3>1, <3>2
    <2>2. TimerTypeOK
      BY SwitchesAssumption
    <2>3. WorkerTypeOK /\ FlagTypeOK
      BY DEF Stages
    <2>4. ReplyTypeOK
      BY BoundsAssumption
    <2> QED
      BY <2>1, <2>2, <2>3, <2>4 DEF TypeOK
  <1>2. StageOK
    BY DEF StageOK
  <1>3. TimersFollowParser
    BY DEF TimersFollowParser
  <1>4. LostIsReleased /\ WaitersArePaused
    BY DEF LostIsReleased, WaitersArePaused
  <1>5. WatchOK
    BY DEF WatchOK
  <1>6. LateOK
    BY DEF LateOK
  <1> QED
    BY <1>1, <1>2, <1>3, <1>4, <1>5, <1>6 DEF IInv

LEMMA StutterIInv ==
    ASSUME IInv, UNCHANGED vars
    PROVE  IInv'
  <1> USE DEF IInv, vars, sock, peer, timers, worker, reply
  <1>1. TypeOK'
    BY DEF TypeOK
  <1>2. StageOK' /\ TimersFollowParser' /\ LostIsReleased' /\ WaitersArePaused'
    BY DEF StageOK, TimersFollowParser, LostIsReleased, WaitersArePaused
  <1>3. WatchOK' /\ LateOK'
    BY DEF WatchOK, NoTimeoutTask, ErrorPending, LateOK, Verdict
  <1> QED
    BY <1>1, <1>2, <1>3

LEMMA NextIInv == IInv /\ [Next]_vars => IInv'
  <1> SUFFICES ASSUME IInv, [Next]_vars
               PROVE  IInv'
    OBVIOUS
  <1>1. CASE Worker
    BY <1>1, WorkerIInv
  <1>2. CASE ~HoldsLoop /\ Client
    BY <1>2, ClientIInv
  <1>3. CASE Callbacks
    BY <1>3, IdleTimerFiresIInv, RequestTimerFiresIInv, TimeoutTaskIInv,
       WebSocketClosesIInv, DrainIInv, DrainDeadlineIInv DEF Callbacks
  <1>4. CASE UNCHANGED vars
    BY <1>4, StutterIInv
  <1> QED
    BY <1>1, <1>2, <1>3, <1>4 DEF Next

LEMMA Invariance == Spec => []IInv
  BY InitIInv, NextIInv, PTL DEF Spec

\* Every variable keeps its type.
THEOREM TypeCorrect == Spec => []TypeOK
  <1>1. IInv => TypeOK
    BY DEF IInv
  <1> QED
    BY <1>1, Invariance, PTL

\* The idle timer and the request timer are never armed together.
THEOREM TimersExclude == Spec => []TimersFollowParser
  <1>1. IInv => TimersFollowParser
    BY DEF IInv
  <1> QED
    BY <1>1, Invariance, PTL

\* An open connection always has a timer, a task or an item to move it on.
THEOREM NeverUnwatched == Spec => []OpenIsWatched
  <1>1. IInv => OpenIsWatched
    <2> SUFFICES ASSUME IInv, IdleTimeout, RequestTimeout, transport = "open", ~upgraded,
                        ~idleTimer, ~requestTimer, queue = <<>>, stage \in {"get", "done"},
                        ~(timeouts.fresh + timeouts.blocked + timeouts.woken > 0)
                 PROVE  FALSE
      BY DEF OpenIsWatched
    <2>1. stage = "get" /\ pending = "none" /\ ~ErrorPending
      BY DEF IInv, StageOK, ErrorPending
    <2>2. NoTimeoutTask
      BY DEF IInv, TypeOK, NoTimeoutTask
    <2> QED
      BY <2>1, <2>2 DEF IInv, WatchOK
  <1> QED
    BY <1>1, Invariance, PTL

\* A lost connection holds neither timer nor worker nor tracker slot.
THEOREM LostReleases == Spec => []LostIsReleased
  <1>1. IInv => LostIsReleased
    BY DEF IInv
  <1> QED
    BY <1>1, Invariance, PTL

\* Nobody waits for a resume_writing that has already come.
THEOREM NoLostWakeup == Spec => []WaitersArePaused
  <1>1. IInv => WaitersArePaused
    BY DEF IInv
  <1> QED
    BY <1>1, Invariance, PTL

\* At most one request is taken after the drain began.
THEOREM LateBounded == Spec => []AtMostOneLateRequest
  <1>1. IInv => AtMostOneLateRequest
    BY DEF IInv, LateOK, AtMostOneLateRequest
  <1> QED
    BY <1>1, Invariance, PTL

-----------------------------------------------------------------------------
(* The order of what the worker writes.                                    *)

Answered(i) == \E a \in 1..Len(wire) : wire[a].id = i
HeadOf(i)   == \E a \in 1..Len(wire) : wire[a] = [id |-> i, part |-> "head"]

\* Where the worker is with its item: nothing written yet, behind the head, done.
Fresh   == stage \in {"handler", "stat"} \/ pending \in {"head", "upgrade"}
Inside  == stage \in {"bytes", "source"} \/ pending \in {"body", "end"}
Between == stage \in {"get", "next", "settle"}

\* The queue goes on where the current item ends.
QueueInOrder ==
    /\ current.id + Len(queue) = received
    /\ \A j \in 1..Len(queue) : queue[j].id = current.id + j

\* A transport that does not accept never accepts again.
PausedIsBuffered == paused /\ transport # "lost" => buffered

WireOK ==
    /\ \A a \in 1..Len(wire) : wire[a].id <= current.id
    /\ Fresh => current.id > 0 /\ \A a \in 1..Len(wire) : wire[a].id # current.id
    /\ stage # "done" => \A a \in 1..Len(wire) : wire[a].part \notin {"error", "upgrade"}
    /\ Accepts => /\ stage # "done" => \A i \in 1..(current.id - 1) : Answered(i)
                  /\ Between /\ current.id > 0 => Answered(current.id)
                  /\ Inside => HeadOf(current.id)

OrderInv == ResponsesInOrder /\ QueueInOrder /\ PausedIsBuffered /\ WireOK

LEMMA OrderTypes ==
    ASSUME TypeOK
    PROVE  /\ wire \in Seq(Entry) /\ Len(wire) \in Nat /\ DOMAIN wire = 1..Len(wire)
           /\ \A a \in 1..Len(wire) : wire[a] \in Entry /\ wire[a].id \in Nat
           /\ current.id \in Nat /\ received \in Nat /\ Len(queue) \in Nat
  <1>1. wire \in Seq(Entry) /\ queue \in Seq(Item) /\ received \in Nat
    BY BoundsAssumption DEF TypeOK, Entry
  <1>2. \A a \in 1..Len(wire) : wire[a] \in Entry
    BY <1>1
  <1>3. \A e \in Entry : e.id \in Nat
    BY BoundsAssumption DEF Entry
  <1>4. current.id \in Nat
    BY BoundsAssumption DEF TypeOK, Item, NoItem
  <1> QED
    BY <1>1, <1>2, <1>3, <1>4

\* Nothing is written and the worker goes on with the same item.
LEMMA QuietOrder ==
    ASSUME TypeOK, OrderInv, UNCHANGED <<wire, current>>,
           QueueInOrder', PausedIsBuffered', Accepts' => Accepts,
           Fresh' => Fresh, stage' # "done" => stage # "done",
           Accepts' /\ Inside' => Inside, Accepts' /\ Between' => Between \/ Inside
    PROVE  OrderInv'
  <1>1. ResponsesInOrder'
    BY DEF OrderInv, ResponsesInOrder
  <1>2. (\A i : Answered(i)' <=> Answered(i)) /\ (\A i : HeadOf(i)' <=> HeadOf(i))
    BY DEF Answered, HeadOf
  <1>3. \A i : HeadOf(i) => Answered(i)
    BY DEF Answered, HeadOf
  <1>4. WireOK'
    <2>1. /\ \A a \in 1..Len(wire') : wire'[a].id <= current'.id
          /\ Fresh' => current'.id > 0 /\ \A a \in 1..Len(wire') : wire'[a].id # current'.id
          /\ stage' # "done" =>
                 \A a \in 1..Len(wire') : wire'[a].part \notin {"error", "upgrade"}
      BY DEF OrderInv, WireOK
    <2>2. ASSUME Accepts'
          PROVE  /\ stage' # "done" => \A i \in 1..(current'.id - 1) : Answered(i)'
                 /\ Between' /\ current'.id > 0 => Answered(current.id)'
                 /\ Inside' => HeadOf(current.id)'
      BY <1>2, <1>3, <2>2 DEF OrderInv, WireOK
    <2> QED
      BY <2>1, <2>2 DEF WireOK, Answered, HeadOf
  <1> QED
    BY <1>1, <1>4 DEF OrderInv

\* The worker takes the next item and writes nothing, or writes to a transport that
\* does not accept.
LEMMA TakenOrder ==
    ASSUME TypeOK, OrderInv, stage \in {"get", "next"}, pending = "none",
           wire' = wire, current'.id = current.id + 1,
           QueueInOrder', PausedIsBuffered', Accepts' => Accepts,
           ~Inside', ~Between'
    PROVE  OrderInv'
  <1>1. ResponsesInOrder'
    BY DEF OrderInv, ResponsesInOrder
  <1>2. \A i : Answered(i)' <=> Answered(i)
    BY DEF Answered
  <1>3. \A a \in 1..Len(wire) : wire[a].id <= current.id /\ wire[a].id \in Nat
    BY OrderTypes DEF OrderInv, WireOK
  <1>4. \A a \in 1..Len(wire) : wire[a].part \notin {"error", "upgrade"}
    BY DEF OrderInv, WireOK
  <1>5. ASSUME Accepts', NEW i \in 1..(current'.id - 1)
        PROVE  Answered(i)'
    <2>1. i \in 1..(current.id - 1) \/ (i = current.id /\ current.id > 0)
      BY OrderTypes
    <2>2. Answered(i)
      BY <1>5, <2>1 DEF OrderInv, WireOK, Between
    <2> QED
      BY <1>2, <2>2
  <1>6. WireOK'
    <2>1. /\ \A a \in 1..Len(wire') : wire'[a].id <= current'.id
          /\ current'.id > 0 /\ \A a \in 1..Len(wire') : wire'[a].id # current'.id
      BY <1>3, OrderTypes
    <2> QED
      BY <1>4, <1>5, <2>1 DEF WireOK
  <1> QED
    BY <1>1, <1>6 DEF OrderInv

LEMMA AppendFacts ==
    ASSUME TypeOK, NEW e, e \in Entry, wire' = Append(wire, e)
    PROVE  /\ Len(wire') = Len(wire) + 1 /\ wire'[Len(wire) + 1] = e
           /\ \A a \in 1..Len(wire) : a \in 1..Len(wire') /\ wire'[a] = wire[a]
           /\ \A a \in 1..Len(wire') : a \in 1..Len(wire) \/ a = Len(wire) + 1
           /\ DOMAIN wire' = 1..Len(wire')
           /\ \A i : Answered(i) => Answered(i)'
           /\ \A i : HeadOf(i) => HeadOf(i)'
  <1>1. /\ Len(wire) \in Nat /\ Len(wire') = Len(wire) + 1 /\ wire'[Len(wire) + 1] = e
        /\ \A a \in 1..Len(wire) : wire'[a] = wire[a]
        /\ DOMAIN wire' = 1..Len(wire')
    BY OrderTypes
  <1>2. /\ \A a \in 1..Len(wire) : a \in 1..Len(wire')
        /\ \A a \in 1..Len(wire') : a \in 1..Len(wire) \/ a = Len(wire) + 1
    BY <1>1
  <1> QED
    BY <1>1, <1>2 DEF Answered, HeadOf

\* The worker's next part reaches a transport that accepts: the first of an item
\* behind all that precede it, or a further one behind the item's head.
LEMMA PartOrder ==
    ASSUME TypeOK, OrderInv, stage # "done", NEW id \in 0..MaxRequests, NEW part \in Parts,
           wire' = Append(wire, [id |-> id, part |-> part]), current'.id = id,
           \A a \in 1..Len(wire) : wire[a].id <= id,
           \A i \in 1..(id - 1) : Answered(i),
           part = "head" => \A a \in 1..Len(wire) : wire[a].id # id,
           part \in {"body", "end"} => HeadOf(id),
           QueueInOrder', PausedIsBuffered', ~Fresh',
           stage' # "done" => part \notin {"error", "upgrade"},
           Inside' => part = "head" \/ HeadOf(id)
    PROVE  OrderInv'
  <1> DEFINE e == [id |-> id, part |-> part]
  <1>1. e \in Entry /\ id \in Nat
    BY BoundsAssumption DEF Entry
  <1>2. /\ Len(wire') = Len(wire) + 1 /\ wire'[Len(wire) + 1] = e
        /\ \A a \in 1..Len(wire) : a \in 1..Len(wire') /\ wire'[a] = wire[a]
        /\ \A a \in 1..Len(wire') : a \in 1..Len(wire) \/ a = Len(wire) + 1
        /\ DOMAIN wire' = 1..Len(wire')
        /\ \A i : Answered(i) => Answered(i)'
        /\ \A i : HeadOf(i) => HeadOf(i)'
        /\ Len(wire) \in Nat /\ DOMAIN wire = 1..Len(wire)
    BY <1>1, AppendFacts, OrderTypes
  <1>3. \A a \in 1..Len(wire) : wire[a].part \notin {"error", "upgrade"}
    BY DEF OrderInv, WireOK
  <1>4. e.id = id /\ e.part = part
    OBVIOUS
  <1> HIDE DEF e
  <1>5. ResponsesInOrder'
    <2> SUFFICES ASSUME NEW b \in 1..Len(wire'), wire'[b].part \in Parts
                 PROVE  /\ \A a \in 1..(b - 1) :
                               /\ wire'[a].id <= wire'[b].id
                               /\ wire'[a].part \notin {"error", "upgrade"}
                               /\ wire'[b].part = "head" => wire'[a].id # wire'[b].id
                        /\ \A i \in 1..(wire'[b].id - 1) :
                               \E a \in 1..(b - 1) : wire'[a].id = i
                        /\ wire'[b].part \in {"body", "end"} =>
                               \E a \in 1..(b - 1) :
                                   wire'[a] = [id |-> wire'[b].id, part |-> "head"]
      BY <1>2 DEF ResponsesInOrder
    <2>1. CASE b \in 1..Len(wire)
      <3>1. \A a \in 1..(b - 1) : wire'[a] = wire[a]
        BY <1>2, <2>1
      <3>2. wire'[b] = wire[b] /\ b \in DOMAIN wire
        BY <1>2, <2>1
      <3> QED
        BY <3>1, <3>2 DEF OrderInv, ResponsesInOrder
    <2>2. CASE b = Len(wire) + 1
      <3>1. wire'[b] = e /\ 1..(b - 1) = 1..Len(wire)
        BY <1>2, <2>2
      <3> QED
        BY <1>2, <1>3, <1>4, <3>1 DEF Answered, HeadOf
    <2> QED
      BY <1>2, <2>1, <2>2
  <1>6. Answered(id)' /\ (part = "head" => HeadOf(id)')
    <2>1. Len(wire) + 1 \in 1..Len(wire')
      BY <1>2
    <2>2. Answered(id)'
      BY <1>2, <1>4, <2>1 DEF Answered
    <2>3. ASSUME part = "head" PROVE HeadOf(id)'
      BY <1>2, <2>1, <2>3 DEF HeadOf, e
    <2> QED
      BY <2>2, <2>3
  <1>7. WireOK'
    <2>1. \A a \in 1..Len(wire') : wire'[a].id <= current'.id
      BY <1>1, <1>2, <1>4
    <2>2. stage' # "done" =>
              \A a \in 1..Len(wire') : wire'[a].part \notin {"error", "upgrade"}
      BY <1>2, <1>3, <1>4
    <2>3. /\ \A i \in 1..(current'.id - 1) : Answered(i)'
          /\ Answered(id)'
          /\ Inside' => HeadOf(id)'
      BY <1>2, <1>6
    <2> QED
      BY <2>1, <2>2, <2>3 DEF WireOK, Answered, HeadOf
  <1> QED
    BY <1>5, <1>7 DEF OrderInv

\* A 408 or a WebSocket's frame goes out beside the worker.
LEMMA ForeignOrder ==
    ASSUME TypeOK, OrderInv, NEW id \in 0..MaxRequests, NEW part \in {"timeout", "frame"},
           wire' = Append(wire, [id |-> id, part |-> part]),
           UNCHANGED <<current, stage, pending>>, id <= current.id, Fresh => id # current.id,
           QueueInOrder', PausedIsBuffered', Accepts' => Accepts
    PROVE  OrderInv'
  <1> DEFINE e == [id |-> id, part |-> part]
  <1>1. e \in Entry /\ id \in Nat
    BY BoundsAssumption DEF Entry
  <1>2. /\ Len(wire') = Len(wire) + 1 /\ wire'[Len(wire) + 1] = e
        /\ \A a \in 1..Len(wire) : a \in 1..Len(wire') /\ wire'[a] = wire[a]
        /\ \A a \in 1..Len(wire') : a \in 1..Len(wire) \/ a = Len(wire) + 1
        /\ DOMAIN wire' = 1..Len(wire')
        /\ \A i : Answered(i) => Answered(i)'
        /\ \A i : HeadOf(i) => HeadOf(i)'
        /\ Len(wire) \in Nat /\ DOMAIN wire = 1..Len(wire)
    BY <1>1, AppendFacts, OrderTypes
  <1>3. e.id = id /\ e.part \in {"timeout", "frame"} /\ e.part \notin Parts
    BY DEF Parts
  <1> HIDE DEF e
  <1>4. ResponsesInOrder'
    <2> SUFFICES ASSUME NEW b \in 1..Len(wire'), wire'[b].part \in Parts
                 PROVE  /\ \A a \in 1..(b - 1) :
                               /\ wire'[a].id <= wire'[b].id
                               /\ wire'[a].part \notin {"error", "upgrade"}
                               /\ wire'[b].part = "head" => wire'[a].id # wire'[b].id
                        /\ \A i \in 1..(wire'[b].id - 1) :
                               \E a \in 1..(b - 1) : wire'[a].id = i
                        /\ wire'[b].part \in {"body", "end"} =>
                               \E a \in 1..(b - 1) :
                                   wire'[a] = [id |-> wire'[b].id, part |-> "head"]
      BY <1>2 DEF ResponsesInOrder
    <2>1. b \in 1..Len(wire)
      BY <1>2, <1>3
    <2>2. \A a \in 1..(b - 1) : wire'[a] = wire[a]
      BY <1>2, <2>1
    <2>3. wire'[b] = wire[b] /\ b \in DOMAIN wire
      BY <1>2, <2>1
    <2> QED
      BY <2>2, <2>3 DEF OrderInv, ResponsesInOrder
  <1>5. (Fresh' <=> Fresh) /\ (Inside' <=> Inside) /\ (Between' <=> Between)
    BY DEF Fresh, Inside, Between
  <1>6. WireOK'
    <2>1. \A a \in 1..Len(wire') : wire'[a].id <= current'.id
      BY <1>2, <1>3 DEF OrderInv, WireOK
    <2>2. Fresh' => current'.id > 0 /\ \A a \in 1..Len(wire') : wire'[a].id # current'.id
      BY <1>2, <1>3, <1>5 DEF OrderInv, WireOK
    <2>3. stage' # "done" =>
              \A a \in 1..Len(wire') : wire'[a].part \notin {"error", "upgrade"}
      BY <1>2, <1>3 DEF OrderInv, WireOK
    <2>4. ASSUME Accepts'
          PROVE  /\ stage' # "done" => \A i \in 1..(current.id - 1) : Answered(i)'
                 /\ Between' /\ current.id > 0 => Answered(current.id)'
                 /\ Inside' => HeadOf(current.id)'
      BY <1>2, <1>5, <2>4 DEF OrderInv, WireOK
    <2> QED
      BY <2>1, <2>2, <2>3, <2>4 DEF WireOK, Answered, HeadOf
  <1> QED
    BY <1>4, <1>6 DEF OrderInv

-----------------------------------------------------------------------------
(* The same for each action.                                               *)

\* A write while the transport's state changes by at most a close.
LEMMA SendOrder ==
    ASSUME TypeOK, PausedIsBuffered, NEW id, NEW part, TransportWrite(id, part),
           transport' = transport \/ TransportClose
    PROVE  /\ PausedIsBuffered'
           /\ Accepts' => Accepts
           /\ Accepts => wire' = Append(wire, [id |-> id, part |-> part])
           /\ ~Accepts => wire' = wire
  <1>1. transport' = transport \/ (transport' = "closing" /\ transport = "open")
    BY DEF TransportClose
  <1>2. /\ buffered \in BOOLEAN /\ paused \in BOOLEAN
        /\ transport \in {"open", "closing", "lost"}
    BY DEF TypeOK
  <1>3. CASE Accepts
    <2>1. /\ wire' = Append(wire, [id |-> id, part |-> part])
          /\ buffered' \in {buffered, TRUE} /\ paused' \in {paused, paused \/ buffered'}
      BY <1>3 DEF TransportWrite
    <2>2. buffered => buffered'
      <3>1. buffered' = buffered \/ buffered' = TRUE
        BY <2>1
      <3> QED
        BY <3>1
    <2>3. paused' => paused \/ buffered'
      <3>1. paused' = paused \/ paused' = (paused \/ buffered')
        BY <2>1
      <3> QED
        BY <3>1
    <2>4. paused /\ transport # "lost" => buffered
      BY DEF PausedIsBuffered
    <2>5. PausedIsBuffered'
      BY <1>1, <2>2, <2>3, <2>4 DEF PausedIsBuffered
    <2> QED
      BY <1>3, <2>1, <2>5
  <1>4. CASE ~Accepts
    BY <1>1, <1>2, <1>4 DEF TransportWrite, PausedIsBuffered, Accepts
  <1> QED
    BY <1>3, <1>4

\* The worker writes a part of the item it is handling.
LEMMA SentOrder ==
    ASSUME IInv, OrderInv, stage # "done", NEW part \in Parts,
           TransportWrite(current.id, part), AfterWrite(part), pending' = "none",
           UNCHANGED <<current, queue, received>>,
           part \in {"head", "upgrade"} => Fresh, part \in {"body", "end"} => Inside
    PROVE  OrderInv'
  <1>1. TypeOK /\ PausedIsBuffered /\ current.id \in 0..MaxRequests
    BY BoundsAssumption DEF IInv, OrderInv, TypeOK, Item, NoItem
  <1>2. transport' = transport \/ TransportClose
    BY DEF AfterWrite
  <1>3. /\ PausedIsBuffered' /\ (Accepts' => Accepts)
        /\ Accepts => wire' = Append(wire, [id |-> current.id, part |-> part])
        /\ ~Accepts => wire' = wire
    BY <1>1, <1>2, SendOrder
  <1>4. QueueInOrder'
    BY DEF OrderInv, QueueInOrder
  <1>5. /\ stage' \in {"done", "settle", "bytes", "source"}
        /\ stage' # "done" => part \notin {"error", "upgrade"}
    BY <1>1, AfterWriteFacts
  <1>6. ~Fresh' /\ (Inside' => part \in {"head", "body"})
    BY <1>5 DEF Fresh, Inside, AfterWrite, Parts
  <1>7. CASE Accepts
    <2>1. /\ \A a \in 1..Len(wire) : wire[a].id <= current.id
          /\ \A i \in 1..(current.id - 1) : Answered(i)
          /\ part = "head" => \A a \in 1..Len(wire) : wire[a].id # current.id
          /\ part \in {"body", "end"} => HeadOf(current.id)
      BY <1>7 DEF OrderInv, WireOK
    <2> QED
      BY <1>1, <1>3, <1>4, <1>5, <1>6, <1>7, <2>1, PartOrder
  <1>8. CASE ~Accepts
    BY <1>1, <1>3, <1>4, <1>5, <1>6, <1>8, QuietOrder
  <1> QED
    BY <1>7, <1>8

LEMMA WriteOrder ==
    ASSUME IInv, OrderInv, stage \in {"handler", "stat", "source", "bytes"},
           NEW part \in Parts \ {"upgrade"}, Write(part),
           UNCHANGED <<current, queue, received>>,
           part = "head" => stage \in {"handler", "stat"},
           part \in {"body", "end"} => stage \in {"bytes", "source"}
    PROVE  OrderInv'
  <1>1. TypeOK /\ pending = "none"
    BY DEF IInv, StageOK
  <1>2. CASE paused
    <2>1. /\ stage' = "write" /\ pending' = part
          /\ UNCHANGED <<transport, buffered, paused, wire>>
      BY <1>2 DEF Write, sock
    <2>2. QueueInOrder' /\ PausedIsBuffered' /\ (Accepts' => Accepts)
      BY <2>1 DEF OrderInv, QueueInOrder, PausedIsBuffered, Accepts
    <2>3. (Fresh' => Fresh) /\ (Inside' => Inside) /\ ~Between'
      BY <2>1 DEF Fresh, Inside, Between
    <2> QED
      BY <1>1, <2>1, <2>2, <2>3, QuietOrder
  <1>3. CASE ~paused
    <2>1. TransportWrite(current.id, part) /\ AfterWrite(part) /\ pending' = "none"
      BY <1>1, <1>3 DEF Write
    <2>2. (part = "head" => Fresh) /\ (part \in {"body", "end"} => Inside)
      BY DEF Fresh, Inside
    <2> QED
      BY <2>1, <2>2, SentOrder
  <1> QED
    BY <1>2, <1>3

LEMMA TakeOrder ==
    ASSUME IInv, OrderInv, Take
    PROVE  OrderInv'
  <1>1. /\ TypeOK /\ pending = "none" /\ stage \in {"get", "next"}
        /\ queue \in Seq(Item) /\ queue # <<>>
        /\ current' = Head(queue) /\ queue' = Tail(queue) /\ received' = received
    BY DEF Take, IInv, StageOK, TypeOK
  <1>2. current.id \in Nat /\ received \in Nat /\ Len(queue) \in Nat
    BY <1>1, OrderTypes
  <1>3. /\ current' = queue[1] /\ Len(queue') = Len(queue) - 1 /\ Len(queue) > 0
        /\ \A j \in 1..(Len(queue) - 1) : queue'[j] = queue[j + 1]
        /\ current' \in Item
    BY <1>1
  <1>4. current'.id = current.id + 1
    BY <1>2, <1>3 DEF OrderInv, QueueInOrder
  <1>5. QueueInOrder'
    <2>1. current'.id + Len(queue') = received'
      BY <1>1, <1>2, <1>3, <1>4 DEF OrderInv, QueueInOrder
    <2>2. ASSUME NEW j \in 1..Len(queue') PROVE queue'[j].id = current'.id + j
      <3>1. j + 1 \in 1..Len(queue) /\ queue'[j] = queue[j + 1]
        BY <1>2, <1>3
      <3>2. queue[j + 1].id = current.id + (j + 1)
        BY <3>1 DEF OrderInv, QueueInOrder
      <3> QED
        BY <1>2, <1>4, <3>1, <3>2
    <2> QED
      BY <2>1, <2>2 DEF QueueInOrder
  <1>6. \/ stage' = "handler" /\ UNCHANGED <<sock, pending>>
        \/ \E part \in {"error", "upgrade"} : Write(part)
    BY DEF Take
  <1>7. CASE stage' = "handler" /\ UNCHANGED <<sock, pending>>
    <2>1. wire' = wire /\ PausedIsBuffered' /\ (Accepts' => Accepts)
      BY <1>7 DEF OrderInv, PausedIsBuffered, Accepts, sock
    <2>2. ~Inside' /\ ~Between'
      BY <1>1, <1>7 DEF Inside, Between
    <2> QED
      BY <1>1, <1>4, <1>5, <2>1, <2>2, TakenOrder
  <1>8. ASSUME NEW part \in {"error", "upgrade"}, Write(part)
        PROVE  OrderInv'
    <2>1. part \in Parts
      BY DEF Parts
    <2>2. CASE paused
      <3>1. /\ stage' = "write" /\ pending' = part
            /\ UNCHANGED <<transport, buffered, paused, wire>>
        BY <1>8, <2>2 DEF Write, sock
      <3>2. PausedIsBuffered' /\ (Accepts' => Accepts) /\ ~Inside' /\ ~Between'
        BY <3>1 DEF OrderInv, PausedIsBuffered, Accepts, Inside, Between
      <3> QED
        BY <1>1, <1>4, <1>5, <3>1, <3>2, TakenOrder
    <2>3. CASE ~paused
      <3>1. TransportWrite(current'.id, part) /\ AfterWrite(part) /\ pending' = "none"
        BY <1>1, <1>8, <2>3 DEF Write
      <3>2. stage' = "done" /\ (transport' = transport \/ TransportClose)
        BY <3>1, <2>1, <1>1, AfterWriteFacts DEF AfterWrite
      <3>3. /\ PausedIsBuffered' /\ (Accepts' => Accepts)
            /\ Accepts => wire' = Append(wire, [id |-> current'.id, part |-> part])
            /\ ~Accepts => wire' = wire
        BY <1>1, <3>1, <3>2, SendOrder DEF OrderInv
      <3>4. ~Fresh' /\ ~Inside' /\ ~Between'
        BY <3>1, <3>2 DEF Fresh, Inside, Between
      <3>5. CASE ~Accepts
        BY <1>1, <1>4, <1>5, <3>3, <3>4, <3>5, TakenOrder
      <3>6. CASE Accepts
        <4>1. ASSUME NEW a \in 1..Len(wire) PROVE wire[a].id <= current'.id
          <5>1. wire[a].id <= current.id /\ wire[a].id \in Nat
            BY <1>1, OrderTypes DEF OrderInv, WireOK
          <5> QED
            BY <1>2, <1>4, <5>1
        <4>2. ASSUME NEW i \in 1..(current'.id - 1) PROVE Answered(i)
          <5>1. i \in 1..(current.id - 1) \/ (i = current.id /\ current.id > 0)
            BY <1>2, <1>4
          <5> QED
            BY <1>1, <3>6, <5>1 DEF OrderInv, WireOK, Between
        <4>3. current'.id \in 0..MaxRequests
          BY <1>3, BoundsAssumption DEF Item
        <4> QED
          BY <1>1, <1>5, <2>1, <3>2, <3>3, <3>4, <3>6, <4>1, <4>2, <4>3, PartOrder
      <3> QED
        BY <3>5, <3>6
    <2> QED
      BY <2>2, <2>3
  <1> QED
    BY <1>6, <1>7, <1>8

LEMMA WorkerOrder ==
    ASSUME IInv, OrderInv, Worker
    PROVE  OrderInv'
  <1>1. TypeOK /\ (stage = "write" <=> pending # "none")
    BY DEF IInv, StageOK
  <1>2. CASE Take
    BY <1>2, TakeOrder
  <1>3. CASE \E b \in Bodies, close \in BOOLEAN : HandlerReturns(b, close)
    <2>1. PICK b \in Bodies, close \in BOOLEAN : HandlerReturns(b, close)
      BY <1>3
    <2>2. stage = "handler" /\ UNCHANGED <<current, queue, received>>
      BY <2>1 DEF HandlerReturns, peer
    <2>3. CASE b = "file"
      <3>1. stage' = "stat" /\ UNCHANGED <<sock, pending>>
        BY <2>1, <2>3 DEF HandlerReturns
      <3>2. QueueInOrder' /\ PausedIsBuffered' /\ (Accepts' => Accepts) /\ wire' = wire
        BY <2>2, <3>1 DEF OrderInv, QueueInOrder, PausedIsBuffered, Accepts, sock
      <3>3. Fresh /\ ~Between' /\ (Inside' => Inside)
        BY <2>2, <3>1 DEF Fresh, Inside, Between
      <3> QED
        BY <1>1, <2>2, <3>1, <3>2, <3>3, QuietOrder
    <2>4. CASE b # "file"
      <3>1. Write("head") /\ "head" \in Parts \ {"upgrade"}
        BY <2>1, <2>4 DEF HandlerReturns, Parts
      <3> QED
        BY <2>2, <3>1, WriteOrder
    <2> QED
      BY <2>3, <2>4
  <1>4. CASE \E b \in {"file", "none"} : StatReturns(b)
    <2>1. /\ stage = "stat" /\ UNCHANGED <<current, queue, received>> /\ Write("head")
          /\ "head" \in Parts \ {"upgrade"}
      BY <1>4 DEF StatReturns, peer, Parts
    <2> QED
      BY <2>1, WriteOrder
  <1>5. CASE WriteBytes \/ SourceYields
    <2>1. /\ stage \in {"bytes", "source"} /\ UNCHANGED <<current, queue, received>>
          /\ Write("body") /\ "body" \in Parts \ {"upgrade"}
      BY <1>5 DEF WriteBytes, SourceYields, reply, peer, Parts
    <2> QED
      BY <2>1, WriteOrder
  <1>6. CASE SourceEnds
    <2>1. stage = "source" /\ UNCHANGED <<current, queue, received>>
      BY <1>6 DEF SourceEnds, reply, peer
    <2>2. CASE body = "stream"
      <3>1. Write("end") /\ "end" \in Parts \ {"upgrade"}
        BY <1>6, <2>2 DEF SourceEnds, Parts
      <3> QED
        BY <2>1, <3>1, WriteOrder
    <2>3. CASE body # "stream"
      <3>1. stage' = "settle" /\ UNCHANGED <<sock, pending>>
        BY <1>6, <2>3 DEF SourceEnds
      <3>2. QueueInOrder' /\ PausedIsBuffered' /\ (Accepts' => Accepts) /\ wire' = wire
        BY <2>1, <3>1 DEF OrderInv, QueueInOrder, PausedIsBuffered, Accepts, sock
      <3>3. Inside /\ (Fresh' => Fresh)
        BY <2>1, <3>1 DEF Fresh, Inside
      <3> QED
        BY <1>1, <2>1, <3>1, <3>2, <3>3, QuietOrder
    <2> QED
      BY <2>2, <2>3
  <1>7. CASE Fails
    <2>1. /\ stage \in {"handler", "stat", "source"} /\ UNCHANGED <<current, queue, received>>
          /\ Write("error") /\ "error" \in Parts \ {"upgrade"}
      BY <1>7 DEF Fails, reply, peer, Parts
    <2> QED
      BY <2>1, WriteOrder
  <1>8. CASE Settle
    <2>1. /\ stage = "settle" /\ stage' \in {"get", "next", "done"}
          /\ UNCHANGED <<buffered, paused, wire, current, queue, received, pending>>
          /\ transport' = transport \/ TransportClose
      BY <1>8 DEF Settle, peer, reply
    <2>2. QueueInOrder' /\ PausedIsBuffered' /\ (Accepts' => Accepts)
      BY <1>1, <2>1 DEF OrderInv, QueueInOrder, PausedIsBuffered, Accepts, TransportClose
    <2>3. Between /\ (Fresh' => Fresh) /\ (Inside' => Inside)
      BY <2>1 DEF Fresh, Inside, Between
    <2> QED
      BY <1>1, <2>1, <2>2, <2>3, QuietOrder
  <1>9. CASE WriteResumes
    <2>1. /\ stage = "write" /\ pending # "none" /\ pending \in Parts
          /\ TransportWrite(current.id, pending) /\ AfterWrite(pending)
          /\ pending' = "none" /\ UNCHANGED <<current, queue, received>>
      BY <1>1, <1>9 DEF WriteResumes, reply, peer, TypeOK
    <2>2. /\ pending \in {"head", "upgrade"} => Fresh
          /\ pending \in {"body", "end"} => Inside
      BY DEF Fresh, Inside
    <2> QED
      BY <2>1, <2>2, SentOrder
  <1> QED
    BY <1>2, <1>3, <1>4, <1>5, <1>6, <1>7, <1>8, <1>9 DEF Worker

\* Timers, flow control, the drain and the end: nothing for the worker's order.
LEMMA AsideOrder ==
    ASSUME IInv, OrderInv, UNCHANGED <<wire, current, queue, received>>,
           PausedIsBuffered', Accepts' => Accepts,
           UNCHANGED <<stage, pending>> \/ (stage' = "done" /\ pending' = "none")
    PROVE  OrderInv'
  <1>1. TypeOK /\ QueueInOrder'
    BY DEF IInv, OrderInv, QueueInOrder
  <1>2. /\ Fresh' => Fresh
        /\ Inside' => Inside
        /\ Between' => Between
        /\ stage' # "done" => stage # "done"
    BY DEF Fresh, Inside, Between
  <1> QED
    BY <1>1, <1>2, QuietOrder

\* A part that is not the worker's.
LEMMA BesideOrder ==
    ASSUME IInv, OrderInv, NEW id \in 0..MaxRequests, NEW part \in {"timeout", "frame"},
           TransportWrite(id, part), TransportClose,
           UNCHANGED <<current, queue, received, stage, pending>>,
           id <= current.id, Fresh => id # current.id
    PROVE  OrderInv'
  <1>1. TypeOK /\ PausedIsBuffered
    BY DEF IInv, OrderInv
  <1>2. /\ PausedIsBuffered' /\ (Accepts' => Accepts)
        /\ Accepts => wire' = Append(wire, [id |-> id, part |-> part])
        /\ ~Accepts => wire' = wire
    BY <1>1, SendOrder
  <1>3. QueueInOrder'
    BY DEF OrderInv, QueueInOrder
  <1>4. CASE Accepts
    BY <1>1, <1>2, <1>3, <1>4, ForeignOrder
  <1>5. CASE ~Accepts
    BY <1>2, <1>5, AsideOrder
  <1> QED
    BY <1>4, <1>5

LEMMA ClientOrder ==
    ASSUME IInv, OrderInv, Client
    PROVE  OrderInv'
  <1>1. TypeOK
    BY DEF IInv
  <1>2. ASSUME NEW k \in Kinds \cup {"none", "malformed"}, NEW more \in BOOLEAN,
               DataReceived(k, more)
        PROVE  OrderInv'
    <2>1. UNCHANGED <<sock, current, stage, pending>>
      BY <1>2 DEF DataReceived, reply, worker
    <2>2. /\ wire' = wire /\ PausedIsBuffered' /\ (Accepts' => Accepts)
          /\ (Fresh' <=> Fresh) /\ (Inside' <=> Inside) /\ (Between' <=> Between)
      BY <2>1 DEF OrderInv, PausedIsBuffered, Accepts, Fresh, Inside, Between, sock
    <2>3. QueueInOrder'
      <3>1. CASE UNCHANGED <<received, queue>>
        BY <2>1, <3>1 DEF OrderInv, QueueInOrder
      <3>2. CASE /\ received' = received + 1
                 /\ queue' = Append(queue, [id |-> received + 1, kind |-> k])
        <4>1. /\ queue \in Seq(Item) /\ received \in Nat /\ Len(queue) \in Nat
              /\ current.id \in Nat
          BY <1>1, OrderTypes DEF TypeOK
        <4>2. /\ Len(queue') = Len(queue) + 1
              /\ queue'[Len(queue) + 1] = [id |-> received + 1, kind |-> k]
              /\ \A j \in 1..Len(queue) : queue'[j] = queue[j]
          BY <3>2, <4>1
        <4>3. current.id + Len(queue) = received
          BY DEF OrderInv, QueueInOrder
        <4>4. ASSUME NEW j \in 1..Len(queue') PROVE queue'[j].id = current.id + j
          <5>1. CASE j \in 1..Len(queue)
            BY <4>2, <5>1 DEF OrderInv, QueueInOrder
          <5>2. CASE j = Len(queue) + 1
            BY <4>1, <4>2, <4>3, <5>2
          <5> QED
            BY <4>1, <4>2, <5>1, <5>2
        <4> QED
          BY <2>1, <3>2, <4>1, <4>2, <4>3, <4>4 DEF QueueInOrder
      <3> QED
        BY <1>2, <3>1, <3>2 DEF DataReceived
    <2> QED
      BY <1>1, <2>1, <2>2, <2>3, QuietOrder
  <1>3. CASE EofReceived
    BY <1>3, AsideOrder DEF EofReceived, sock, reply, worker, OrderInv, PausedIsBuffered, Accepts
  <1>4. CASE ResumeWriting
    <2>1. /\ paused /\ ~paused' /\ transport # "lost" /\ buffered' \in BOOLEAN
          /\ UNCHANGED <<transport, wire, current, queue, received, stage, pending>>
      BY <1>4 DEF ResumeWriting, peer, reply
    <2>2. PausedIsBuffered' /\ (Accepts' => Accepts)
      BY <1>1, <2>1 DEF OrderInv, PausedIsBuffered, Accepts, TypeOK
    <2> QED
      BY <2>1, <2>2, AsideOrder
  <1>5. CASE BufferDrains
    <2>1. /\ buffered /\ ~buffered' /\ ~paused
          /\ UNCHANGED <<transport, paused, wire, current, queue, received, stage, pending>>
      BY <1>5 DEF BufferDrains, peer, reply, worker
    <2>2. PausedIsBuffered' /\ (Accepts' => Accepts)
      BY <2>1 DEF PausedIsBuffered, Accepts
    <2> QED
      BY <2>1, <2>2, AsideOrder
  <1>6. CASE CloseCompletes \/ PeerResets
    <2>1. /\ transport' = "lost" /\ stage' = "done" /\ pending' = "none"
          /\ UNCHANGED <<wire, current, queue, received>>
      BY <1>6 DEF CloseCompletes, PeerResets, ConnectionLost, peer, reply
    <2>2. PausedIsBuffered' /\ ~Accepts'
      BY <2>1 DEF PausedIsBuffered, Accepts
    <2> QED
      BY <2>1, <2>2, AsideOrder
  <1> QED
    BY <1>2, <1>3, <1>4, <1>5, <1>6 DEF Client

LEMMA CallbacksOrder ==
    ASSUME IInv, OrderInv, Callbacks
    PROVE  OrderInv'
  <1>1. TypeOK
    BY DEF IInv
  <1>2. ASSUME UNCHANGED <<buffered, paused, wire, current, queue, received, stage, pending>>,
               transport' = transport \/ TransportClose
        PROVE  OrderInv'
    <2>1. PausedIsBuffered' /\ (Accepts' => Accepts)
      BY <1>1, <1>2 DEF OrderInv, PausedIsBuffered, Accepts, TransportClose
    <2> QED
      BY <1>2, <2>1, AsideOrder
  <1>3. CASE IdleTimerFires \/ Drain \/ DrainDeadline
    BY <1>2, <1>3 DEF IdleTimerFires, Drain, DrainDeadline, peer, worker, reply
  <1>4. CASE RequestTimerFires
    BY <1>2, <1>4 DEF RequestTimerFires, sock, peer, worker, reply
  <1>5. ASSUME TransportWrite(0, "timeout"), TransportClose,
               UNCHANGED <<peer, worker, reply>>
        PROVE  OrderInv'
    <2>1. 0 \in 0..MaxRequests /\ 0 <= current.id /\ (Fresh => 0 # current.id)
      BY <1>1, OrderTypes, BoundsAssumption DEF OrderInv, WireOK
    <2>2. UNCHANGED <<current, queue, received, stage, pending>>
      BY <1>5 DEF peer, worker, reply
    <2> QED
      BY <1>5, <2>1, <2>2, BesideOrder
  <1>6. CASE TimeoutTaskStarts
    <2>1. CASE paused
      BY <1>2, <1>6, <2>1 DEF TimeoutTaskStarts, sock, peer, worker, reply
    <2>2. CASE ~paused
      BY <1>5, <1>6, <2>2 DEF TimeoutTaskStarts
    <2> QED
      BY <2>1, <2>2
  <1>7. CASE TimeoutTaskResumes
    BY <1>5, <1>7 DEF TimeoutTaskResumes
  <1>8. CASE WebSocketCloses
    <2>1. /\ TransportWrite(current.id, "frame") /\ TransportClose
          /\ UNCHANGED <<current, queue, received, stage, pending>>
      BY <1>8 DEF WebSocketCloses, peer, worker, reply
    <2>2. ~Fresh
      BY <1>8 DEF WebSocketCloses, IInv, StageOK, Fresh
    <2>3. current.id \in 0..MaxRequests /\ current.id <= current.id
      BY <1>1, BoundsAssumption DEF TypeOK, Item, NoItem
    <2> QED
      BY <2>1, <2>2, <2>3, BesideOrder
  <1> QED
    BY <1>3, <1>4, <1>6, <1>7, <1>8 DEF Callbacks

LEMMA OrderInvariance == Spec => [](IInv /\ OrderInv)
  <1>1. Init => OrderInv
    <2> SUFFICES ASSUME Init PROVE OrderInv
      OBVIOUS
    <2>1. /\ wire = <<>> /\ Len(wire) = 0 /\ queue = <<>> /\ received = 0 /\ paused = FALSE
          /\ stage = "get" /\ pending = "none" /\ current.id = 0
      BY DEF Init, NoItem
    <2>2. ResponsesInOrder /\ QueueInOrder /\ PausedIsBuffered
      BY <2>1 DEF ResponsesInOrder, QueueInOrder, PausedIsBuffered
    <2>3. WireOK
      BY <2>1 DEF WireOK, Fresh, Inside, Between
    <2> QED
      BY <2>2, <2>3 DEF OrderInv
  <1>2. IInv /\ OrderInv /\ [Next]_vars => OrderInv'
    <2> SUFFICES ASSUME IInv, OrderInv, [Next]_vars PROVE OrderInv'
      OBVIOUS
    <2>1. CASE UNCHANGED vars
      BY <2>1, AsideOrder DEF vars, sock, peer, worker, reply, OrderInv, PausedIsBuffered, Accepts
    <2> QED
      BY <2>1, WorkerOrder, ClientOrder, CallbacksOrder DEF Next
  <1> QED
    BY <1>1, <1>2, InitIInv, NextIInv, PTL DEF Spec

\* Whatever the interleaving, a client reads the responses to its requests in the
\* order it sent them, none missing and each body behind its own head.
THEOREM AnswersInOrder == Spec => []ResponsesInOrder
  <1>1. OrderInv => ResponsesInOrder
    BY DEF OrderInv
  <1> QED
    BY <1>1, OrderInvariance, PTL

\* A worker that waits has answered the item it had last, and that is the last received.
LEMMA RestAnswers ==
    ASSUME IInv, OrderInv
    PROVE  NothingUnanswered
  <1> SUFFICES ASSUME ~WorkerReady, ~paused, transport = "open", ~upgraded, NEW i \in 1..received
               PROVE  \E a \in DOMAIN wire : wire[a].id = i
    BY DEF NothingUnanswered
  <1>1. stage = "get" /\ queue = <<>>
    BY DEF WorkerReady, IInv, StageOK, WaitersArePaused, TypeOK, Stages
  <1>2. /\ DOMAIN wire = 1..Len(wire) /\ current.id \in Nat /\ received \in Nat
    BY OrderTypes DEF IInv
  <1>3. current.id = received
    BY <1>1, <1>2 DEF OrderInv, QueueInOrder
  <1>4. /\ \A j \in 1..(current.id - 1) : Answered(j)
        /\ current.id > 0 => Answered(current.id)
    BY <1>1 DEF OrderInv, WireOK, Accepts, Between
  <1>5. Answered(i)
    BY <1>2, <1>3, <1>4
  <1> QED
    BY <1>2, <1>5 DEF Answered

\* However requests, pauses, timers and other tasks come: when an open connection's worker
\* has nothing left to do, nothing that was parsed is without an answer.
THEOREM RestOwesNothing == Spec => []NothingUnanswered
  <1>1. IInv /\ OrderInv => NothingUnanswered
    BY RestAnswers
  <1> QED
    BY <1>1, OrderInvariance, PTL

-----------------------------------------------------------------------------
(* The connection implements Lifecycle.tla.                                *)

\* A step of the worker inside a request, or of a timer, is a decision, a close
\* or invisible.
LEMMA DecideRefines ==
    ASSUME TypeOK, tracked, handling,
           UNCHANGED <<tracked, handling, shuttingDown, late>>,
           transport' = transport \/ TransportClose,
           \/ Verdict' = Verdict
           \/ Verdict' = "last"
           \/ Verdict' = "another" /\ Verdict = "undecided" /\ ~shuttingDown
    PROVE  Life!Next \/ UNCHANGED Life!vars
  <1>1. transport' = transport \/ (transport = "open" /\ transport' = "closing")
    BY DEF TransportClose
  <1>2. CASE Verdict' = Verdict
    BY <1>1, <1>2 DEF Life!Next, Life!Close, Life!vars
  <1>3. CASE Verdict' # Verdict
    BY <1>1, <1>3 DEF Life!Next, Life!Decide, Life!MayClose
  <1> QED
    BY <1>2, <1>3

\* What a write makes of the verdict and the transport.
LEMMA WriteRefines ==
    ASSUME IInv, NEW part \in Parts, Write(part), current' \in Item \cup {NoItem}
    PROVE  /\ transport' = transport \/ TransportClose
           /\ part \in {"error", "upgrade"} => Verdict' = "last"
           /\ part \notin {"error", "upgrade"} /\ pending = "none" =>
                  Verdict' = IF keepAlive' THEN "another" ELSE "last"
  <1>1. TypeOK
    BY DEF IInv
  <1>2. transport' = transport \/ TransportClose
    BY DEF Write, AfterWrite, sock
  <1>3. \/ stage' = "write" /\ pending' = part
        \/ /\ stage' \in {"done", "settle", "bytes", "source"} /\ pending' = pending
           /\ stage' = "done" <=> part \in {"error", "upgrade"}
    BY <1>1, WriteFacts
  <1> QED
    BY <1>2, <1>3 DEF Verdict

\* A step of the worker while it prepares and writes a response: another request
\* may follow only if that was decided before, or is now and no drain has begun.
MayFollow ==
    /\ stage = "handler" /\ keepAlive' => ~shuttingDown
    /\ stage # "handler" => keepAlive' = keepAlive

LEMMA ReplyRefines ==
    ASSUME IInv, stage \in {"handler", "stat", "source", "bytes"},
           current' = current, UNCHANGED <<tracked, shuttingDown, handling, late>>,
           \/ Write("error")
           \/ MayFollow /\ \E part \in {"head", "body", "end"} : Write(part)
           \/ MayFollow /\ stage' \in {"stat", "settle"} /\ UNCHANGED <<sock, pending>>
    PROVE  Life!Next \/ UNCHANGED Life!vars
  <1>1. TypeOK /\ current' \in Item \cup {NoItem} /\ tracked /\ handling /\ pending = "none"
    BY DEF IInv, TypeOK, StageOK, LostIsReleased
  <1>2. CASE Write("error")
    <2>1. Verdict' = "last" /\ (transport' = transport \/ TransportClose)
      BY <1>1, <1>2, WriteRefines DEF Parts
    <2> QED
      BY <1>1, <2>1, DecideRefines
  <1>3. CASE MayFollow /\ \/ \E part \in {"head", "body", "end"} : Write(part)
                          \/ stage' \in {"stat", "settle"} /\ UNCHANGED <<sock, pending>>
    <2>1. /\ transport' = transport \/ TransportClose
          /\ Verdict' = IF keepAlive' THEN "another" ELSE "last"
      <3>1. CASE \E part \in {"head", "body", "end"} : Write(part)
        BY <1>1, <3>1, WriteRefines DEF Parts
      <3>2. CASE stage' \in {"stat", "settle"} /\ UNCHANGED <<sock, pending>>
        BY <1>1, <3>2 DEF sock, Verdict
      <3> QED
        BY <1>3, <3>1, <3>2
    <2>2. CASE stage = "handler"
      <3>1. Verdict = "undecided"
        BY <2>2 DEF Verdict
      <3>2. keepAlive' => ~shuttingDown
        BY <1>3, <2>2, Zenon DEF MayFollow
      <3> QED
        BY <1>1, <2>1, <3>1, <3>2, DecideRefines
    <2>3. CASE stage # "handler"
      <3>1. keepAlive' = keepAlive /\ Verdict = IF keepAlive THEN "another" ELSE "last"
        BY <1>1, <1>3, <2>3 DEF Verdict, MayFollow
      <3>2. Verdict' = Verdict
        BY <2>1, <3>1
      <3> QED
        BY <1>1, <2>1, <3>2, DecideRefines
    <2> QED
      BY <2>2, <2>3
  <1> QED
    BY <1>2, <1>3

LEMMA WorkerRefines ==
    ASSUME IInv, Worker
    PROVE  Life!Next \/ UNCHANGED Life!vars
  <1>1. TypeOK /\ current \in Item \cup {NoItem}
    BY DEF IInv, TypeOK
  <1>2. tracked
    <2>1. stage # "done"
      BY DEF Worker, Take, HandlerReturns, StatReturns, WriteBytes, SourceYields, SourceEnds,
             Fails, Settle, WriteResumes
    <2> QED
      BY <2>1 DEF IInv, StageOK, LostIsReleased
  <1>3. ASSUME Take PROVE Life!Next
    <2>1. /\ ~handling /\ Verdict = "undecided" /\ handling' = TRUE
          /\ late' = (IF shuttingDown THEN late + 1 ELSE late)
          /\ UNCHANGED <<tracked, shuttingDown>> /\ current' \in Item \cup {NoItem}
      BY <1>3, TakeFacts DEF Take, Verdict, IInv, StageOK
    <2>2. \/ Write("error") \/ Write("upgrade")
          \/ stage' = "handler" /\ UNCHANGED <<sock, woken, pending, upgraded>>
      BY <1>3 DEF Take
    <2>3. /\ transport' = transport \/ TransportClose
          /\ Verdict' \in {"undecided", "last"}
      BY <2>1, <2>2, WriteRefines DEF sock, Verdict, Parts
    <2> QED
      BY <1>2, <2>1, <2>3 DEF Life!Next, Life!Take, Life!MayClose, TransportClose
  <1>4. ASSUME Settle PROVE Life!Next \/ UNCHANGED Life!vars
    <2>1. /\ handling /\ stage = "settle" /\ pending = "none"
          /\ UNCHANGED <<pending, keepAlive, tracked, shuttingDown, late>>
      BY <1>4 DEF Settle, reply, IInv, StageOK
    <2>2. CASE keepAlive
      <3>1. /\ handling' = FALSE /\ transport' = transport /\ stage' \in {"get", "next"}
        BY <1>4, <2>2 DEF Settle
      <3>2. Verdict = "another" /\ Verdict' = "undecided"
        BY <2>1, <2>2, <3>1 DEF Verdict
      <3> QED
        BY <1>2, <2>1, <3>1, <3>2 DEF Life!Next, Life!Answer
    <2>3. CASE ~keepAlive
      <3>1. /\ handling' = handling /\ TransportClose /\ stage' = "done"
        BY <1>4, <2>3 DEF Settle
      <3>2. Verdict' = "last"
        BY <3>1 DEF Verdict
      <3> QED
        BY <1>1, <1>2, <2>1, <3>1, <3>2, DecideRefines
    <2> QED
      BY <2>2, <2>3
  <1>5. ASSUME WriteResumes PROVE Life!Next \/ UNCHANGED Life!vars
    <2>1. /\ stage = "write" /\ handling /\ pending \in Parts /\ pending' = "none"
          /\ UNCHANGED <<tracked, shuttingDown, handling, late, keepAlive>>
          /\ AfterWrite(pending)
      BY <1>5 DEF WriteResumes, reply, IInv, StageOK, TypeOK
    <2>2. /\ transport' = transport \/ TransportClose
          /\ stage' \in {"done", "settle", "bytes", "source"}
          /\ stage' = "done" <=> pending \in {"error", "upgrade"}
      BY <1>1, <2>1, AfterWriteFacts DEF AfterWrite
    <2>3. Verdict' = Verdict
      BY <2>1, <2>2 DEF Verdict
    <2> QED
      BY <1>1, <1>2, <2>1, <2>2, <2>3, DecideRefines
  <1>6. ASSUME NEW b \in Bodies, NEW close \in BOOLEAN, HandlerReturns(b, close)
        PROVE  Life!Next \/ UNCHANGED Life!vars
    <2>1. /\ stage = "handler" /\ current' = current
          /\ UNCHANGED <<tracked, shuttingDown, handling, late>>
          /\ keepAlive' = (ShouldKeepAlive /\ ~close)
          /\ \/ Write("head")
             \/ stage' = "stat" /\ UNCHANGED <<sock, pending>>
      BY <1>6 DEF HandlerReturns
    <2>2. keepAlive' => ~shuttingDown
      BY <2>1, Zenon DEF ShouldKeepAlive
    <2> QED
      BY <2>1, <2>2, ReplyRefines DEF MayFollow
  <1>7. ASSUME NEW b \in {"file", "none"}, StatReturns(b)
        PROVE  Life!Next \/ UNCHANGED Life!vars
    BY <1>7, ReplyRefines DEF StatReturns, MayFollow
  <1>8. ASSUME WriteBytes PROVE Life!Next \/ UNCHANGED Life!vars
    BY <1>8, ReplyRefines DEF WriteBytes, MayFollow, reply
  <1>9. ASSUME SourceYields PROVE Life!Next \/ UNCHANGED Life!vars
    BY <1>9, ReplyRefines DEF SourceYields, MayFollow
  <1>10. ASSUME SourceEnds PROVE Life!Next \/ UNCHANGED Life!vars
    BY <1>10, ReplyRefines DEF SourceEnds, MayFollow, reply
  <1>11. ASSUME Fails PROVE Life!Next \/ UNCHANGED Life!vars
    BY <1>11, ReplyRefines DEF Fails, reply
  <1> QED
    BY <1>3, <1>4, <1>5, <1>6, <1>7, <1>8, <1>9, <1>10, <1>11 DEF Worker

LEMMA OthersRefine ==
    ASSUME IInv, Client \/ Callbacks
    PROVE  Life!Next \/ UNCHANGED Life!vars
  <1>1. ASSUME ConnectionLost, transport # "lost" PROVE Life!Next
    <2>1. /\ transport' = "lost" /\ tracked' = FALSE /\ Verdict' = "last"
          /\ UNCHANGED <<handling, shuttingDown, late>>
      BY <1>1 DEF ConnectionLost, Verdict
    <2> QED
      BY <1>1, <2>1 DEF Life!Next, Life!Lose
  <1>2. ASSUME Drain PROVE Life!Next
    <2>1. /\ UNCHANGED <<tracked, handling, late, stage, pending, keepAlive>>
          /\ shuttingDown = FALSE /\ shuttingDown' = TRUE
          /\ transport' = (IF transport = "open" /\ ~handling THEN "closing" ELSE transport)
      BY <1>2 DEF Drain, TransportClose, worker, reply, IInv, StageOK, TypeOK
    <2>2. Verdict' = Verdict
      BY <2>1 DEF Verdict
    <2> QED
      BY <2>1, <2>2 DEF Life!Next, Life!Drain
  <1>3. ASSUME transport' = transport \/ TransportClose,
               UNCHANGED <<tracked, handling, shuttingDown, late, stage, pending, keepAlive>>
        PROVE  Life!Next \/ UNCHANGED Life!vars
    <2>1. Verdict' = Verdict
      BY <1>3 DEF Verdict
    <2> QED
      BY <1>3, <2>1 DEF TransportClose, Life!Next, Life!Close, Life!vars
  <1>4. CASE Client
    BY <1>1, <1>3, <1>4 DEF Client, DataReceived, EofReceived, ResumeWriting, BufferDrains,
                            CloseCompletes, PeerResets, sock, worker, reply
  <1>5. CASE Callbacks
    BY <1>2, <1>3, <1>5 DEF Callbacks, IdleTimerFires, RequestTimerFires, TimeoutTaskStarts,
                            TimeoutTaskResumes, WebSocketCloses, DrainDeadline,
                            sock, worker, reply
  <1> QED
    BY <1>4, <1>5

\* A connection keeps the promises of Lifecycle.tla whatever its requests,
\* bodies, timeouts and bounds: its slot, its drain, its one late request.
THEOREM RefinesLifecycle == Spec => ImplementsLifecycle
  <1>1. Init => Life!Init
    BY DEF Init, Life!Init, Verdict
  <1>2. IInv /\ [Next]_vars => [Life!Next]_(Life!vars)
    <2> SUFFICES ASSUME IInv, [Next]_vars
                 PROVE  Life!Next \/ UNCHANGED Life!vars
      OBVIOUS
    <2>1. CASE Next
      BY <2>1, WorkerRefines, OthersRefine DEF Next
    <2>2. CASE UNCHANGED vars
      BY <2>2 DEF vars, sock, worker, reply, Verdict, Life!vars
    <2> QED
      BY <2>1, <2>2
  <1> QED
    BY <1>1, <1>2, Invariance, PTL DEF Spec, Life!Spec, ImplementsLifecycle

=============================================================================

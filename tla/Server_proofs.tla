--------------------------- MODULE Server_proofs ---------------------------
(***************************************************************************)
(* The tracker counts exactly the connections that live, for any number of *)
(* connections and any limit; and each of them lives as Lifecycle.tla says *)
(* whatever the process does to all of them at once, also under a          *)
(* supervisor, whose signal misses no worker and which returns after the   *)
(* last of them.                                                           *)
(***************************************************************************)
EXTENDS Supervisor, FiniteSetTheorems, TLAPS

\* A connection that is not made yet has not ended, and no drain has begun
\* before the process stops serving.
FreshIsOpen ==
    Alive => \A c \in Conns : conns[c].state \in {"new", "accepted"} => conns[c].transport = "open"
DrainFollowsServing == stage \in {"starting", "serving"} => ~shuttingDown

WithinLimit == Cardinality(active) <= MaxConnections

IInv == /\ TypeOK /\ SlotsAreLive /\ WithinLimit /\ FreshIsOpen /\ DrainFollowsServing

-----------------------------------------------------------------------------
LEMMA InitInv == Init => IInv
  <1> SUFFICES ASSUME Init PROVE IInv
    OBVIOUS
  <1>1. TypeOK
    <2>1. conns \in [Conns -> Conn]
      BY DEF Init, Conn
    <2>2. signals \in 0..MaxSignals
      BY LimitsAssumption DEF Init
    <2> QED
      BY <2>1, <2>2 DEF Init, TypeOK, Stages
  <1>2. SlotsAreLive
    BY DEF Init, SlotsAreLive, Live
  <1>3. WithinLimit
    BY FS_EmptySet, LimitsAssumption DEF Init, WithinLimit
  <1>4. FreshIsOpen /\ DrainFollowsServing
    BY DEF Init, FreshIsOpen, DrainFollowsServing
  <1> QED
    BY <1>1, <1>2, <1>3, <1>4 DEF IInv

\* A set that shrinks stays within the limit.
LEMMA FewerSlots ==
    ASSUME TypeOK, WithinLimit, NEW S \in SUBSET active
    PROVE  Cardinality(S) <= MaxConnections
  <1>1. IsFiniteSet(active)
    BY ConnsAssumption, FS_Subset DEF TypeOK
  <1>2. Cardinality(S) <= Cardinality(active) /\ IsFiniteSet(S)
    BY <1>1, FS_Subset
  <1>3. Cardinality(S) \in Nat /\ Cardinality(active) \in Nat
    BY <1>1, <1>2, FS_CardinalityType
  <1> QED
    BY <1>2, <1>3, LimitsAssumption DEF WithinLimit

LEMMA EmptyWithinLimit == Cardinality({}) <= MaxConnections
  BY FS_EmptySet, LimitsAssumption

-----------------------------------------------------------------------------
(* One lemma per kind of step.                                             *)

LEMMA AcceptStep ==
    ASSUME IInv, NEW c \in Conns, Accept(c)
    PROVE  IInv'
  <1>1. /\ conns' = [conns EXCEPT ![c].state = "accepted"] /\ conns[c].state = "new"
        /\ stage' = stage /\ shutdown' = shutdown /\ signals' = signals
        /\ shuttingDown' = shuttingDown /\ active' = active
    BY DEF Accept
  <1>2. TypeOK'
    BY <1>1 DEF IInv, TypeOK, Conn
  <1>3. SlotsAreLive'
    BY <1>1 DEF IInv, TypeOK, SlotsAreLive, Live, Conn
  <1>4. FreshIsOpen'
    BY <1>1 DEF IInv, TypeOK, FreshIsOpen, Alive, Conn
  <1> QED
    BY <1>1, <1>2, <1>3, <1>4 DEF IInv, WithinLimit, DrainFollowsServing

LEMMA MadeStep ==
    ASSUME IInv, NEW c \in Conns, ConnectionMade(c)
    PROVE  IInv'
  <1>1. /\ stage' = stage /\ shutdown' = shutdown /\ signals' = signals
        /\ shuttingDown' = shuttingDown /\ Alive /\ conns[c].state = "accepted"
    BY DEF ConnectionMade
  <1>2. conns[c].transport = "open" /\ c \notin active
    BY <1>1 DEF IInv, FreshIsOpen, SlotsAreLive, Live
  <1>3. CASE Full
    <2>1. /\ conns' = [conns EXCEPT ![c].state = "refused", ![c].transport = "closing"]
          /\ active' = active
      BY <1>3 DEF ConnectionMade
    <2>2. TypeOK'
      BY <1>1, <2>1 DEF IInv, TypeOK, Conn
    <2>3. SlotsAreLive'
      BY <1>1, <2>1 DEF IInv, TypeOK, SlotsAreLive, Live, Conn
    <2>4. FreshIsOpen'
      BY <1>1, <2>1 DEF IInv, TypeOK, FreshIsOpen, Alive, Conn
    <2> QED
      BY <1>1, <2>1, <2>2, <2>3, <2>4 DEF IInv, WithinLimit, DrainFollowsServing
  <1>4. CASE ~Full
    <2>1. /\ active' = active \cup {c}
          /\ conns' = [conns EXCEPT ![c].state = "admitted"]
      BY <1>4 DEF ConnectionMade
    <2>2. TypeOK'
      BY <1>1, <2>1 DEF IInv, TypeOK, Conn
    <2>3. SlotsAreLive'
      BY <1>1, <1>2, <2>1 DEF IInv, TypeOK, SlotsAreLive, Live, Conn
    <2>4. FreshIsOpen'
      BY <1>1, <2>1 DEF IInv, TypeOK, FreshIsOpen, Alive, Conn
    <2>5. WithinLimit'
      <3>1. IsFiniteSet(active)
        BY ConnsAssumption, FS_Subset DEF IInv, TypeOK
      <3>2. Cardinality(active') = Cardinality(active) + 1
        BY <1>2, <2>1, <3>1, FS_AddElement
      <3>3. Cardinality(active) \in Nat
        BY <3>1, FS_CardinalityType
      <3> QED
        BY <1>4, <3>2, <3>3, LimitsAssumption DEF Full, WithinLimit
    <2> QED
      BY <1>1, <2>1, <2>2, <2>3, <2>4, <2>5 DEF IInv, DrainFollowsServing
  <1> QED
    BY <1>3, <1>4

\* What the steps of a connection that is served have in common.
LEMMA ServedStep ==
    ASSUME IInv, NEW c \in active, NEW r \in Conn, Becomes(c, r),
           r.state = conns[c].state, r.transport # "lost"
    PROVE  IInv'
  <1>1. /\ conns' = [conns EXCEPT ![c] = r]
        /\ stage' = stage /\ shutdown' = shutdown /\ signals' = signals
        /\ shuttingDown' = shuttingDown /\ active' = active
    BY DEF Becomes
  <1>2. c \in Conns /\ conns[c].state = "admitted"
    BY DEF IInv, TypeOK, SlotsAreLive, Live
  <1>3. TypeOK'
    BY <1>1 DEF IInv, TypeOK
  <1>4. SlotsAreLive'
    BY <1>1, <1>2 DEF IInv, TypeOK, SlotsAreLive, Live
  <1>5. FreshIsOpen'
    BY <1>1, <1>2 DEF IInv, TypeOK, FreshIsOpen, Alive
  <1> QED
    BY <1>1, <1>3, <1>4, <1>5 DEF IInv, WithinLimit, DrainFollowsServing

LEMMA LoseStep ==
    ASSUME IInv, NEW c \in Conns, Lose(c)
    PROVE  IInv'
  <1>1. /\ conns' = [conns EXCEPT ![c].transport = "lost"] /\ active' = active \ {c}
        /\ stage' = stage /\ shutdown' = shutdown /\ signals' = signals
        /\ shuttingDown' = shuttingDown /\ conns[c].state \in {"admitted", "refused"}
    BY DEF Lose
  <1>2. TypeOK'
    BY <1>1 DEF IInv, TypeOK, Conn
  <1>3. SlotsAreLive'
    BY <1>1 DEF IInv, TypeOK, SlotsAreLive, Live, Conn
  <1>4. FreshIsOpen'
    BY <1>1 DEF IInv, TypeOK, FreshIsOpen, Alive, Conn
  <1>5. WithinLimit'
    BY <1>1, FewerSlots DEF IInv, WithinLimit
  <1> QED
    BY <1>1, <1>2, <1>3, <1>4, <1>5 DEF IInv, DrainFollowsServing

LEMMA EndStep ==
    ASSUME IInv, End, shutdown' \in BOOLEAN, signals' \in 0..MaxSignals,
           shuttingDown' \in BOOLEAN
    PROVE  IInv'
  <1>1. /\ stage' = "ended" /\ active' = {}
        /\ conns' = [c \in Conns |-> [conns[c] EXCEPT !.transport = "lost"]]
    BY DEF End
  <1>2. TypeOK'
    BY <1>1 DEF IInv, TypeOK, Stages, Conn
  <1>3. SlotsAreLive'
    BY <1>1 DEF IInv, TypeOK, SlotsAreLive, Live, Conn
  <1>4. FreshIsOpen' /\ DrainFollowsServing'
    BY <1>1 DEF FreshIsOpen, Alive, DrainFollowsServing
  <1>5. WithinLimit'
    BY <1>1, EmptyWithinLimit DEF WithinLimit
  <1> QED
    BY <1>2, <1>3, <1>4, <1>5 DEF IInv

\* Both passes of drain: some transports close, none is lost.
LEMMA PassStep ==
    ASSUME IInv, NEW S \in SUBSET Conns,
           conns' = [c \in Conns |-> IF c \in S
                                     THEN [conns[c] EXCEPT !.transport = Closed(@)]
                                     ELSE conns[c]],
           S \subseteq active, active' = active, Alive
    PROVE  /\ conns' \in [Conns -> Conn] /\ active' \subseteq Conns
           /\ SlotsAreLive' /\ WithinLimit' /\ FreshIsOpen'
  <1>1. conns \in [Conns -> Conn] /\ active \subseteq Conns
    BY DEF IInv, TypeOK
  <1>2. ASSUME NEW c \in Conns
        PROVE  /\ conns'[c] \in Conn /\ conns'[c].state = conns[c].state
               /\ conns'[c].transport = "lost" <=> conns[c].transport = "lost"
               /\ c \notin S => conns'[c] = conns[c]
    BY <1>1 DEF Conn, Closed
  <1>3. SlotsAreLive'
    BY <1>2 DEF IInv, SlotsAreLive, Live
  <1>4. FreshIsOpen'
    <2>1. ASSUME NEW c \in S
          PROVE  conns[c].state = "admitted"
      BY DEF IInv, SlotsAreLive, Live
    <2> QED
      BY <1>2, <2>1 DEF IInv, FreshIsOpen, Alive
  <1> QED
    BY <1>1, <1>2, <1>3, <1>4 DEF IInv, WithinLimit

LEMMA StepInv == IInv /\ [Next]_vars => IInv'
  <1> SUFFICES ASSUME IInv, [Next]_vars PROVE IInv'
    OBVIOUS
  <1>1. CASE Start
    BY <1>1 DEF Start, IInv, TypeOK, Stages, SlotsAreLive, Live, WithinLimit, FreshIsOpen,
                Alive, DrainFollowsServing
  <1>2. CASE Signal
    <2>1. signals' \in 0..MaxSignals /\ shuttingDown' = shuttingDown
      BY <1>2, LimitsAssumption DEF Signal, IInv, TypeOK
    <2>2. CASE stage = "serving"
      <3>1. shutdown' = TRUE /\ stage' = stage /\ active' = active /\ conns' = conns
        BY <1>2, <2>2 DEF Signal
      <3> QED
        BY <2>1, <3>1 DEF IInv, TypeOK, SlotsAreLive, Live, WithinLimit, FreshIsOpen, Alive,
                          DrainFollowsServing
    <2>3. CASE stage # "serving"
      <3>1. End /\ shutdown' = shutdown
        BY <1>2, <2>3 DEF Signal
      <3> QED
        BY <2>1, <3>1, EndStep DEF IInv, TypeOK
    <2> QED
      BY <2>2, <2>3
  <1>3. CASE BeginDrain
    <2> DEFINE S == {c \in active : ~Spared(c)}
    <2>1. /\ stage = "serving" /\ shuttingDown' = TRUE /\ stage' \in {"leaving", "draining"}
          /\ shutdown' = shutdown /\ signals' = signals /\ active' = active
      BY <1>3 DEF BeginDrain
    <2>2. S \in SUBSET Conns /\ S \subseteq active /\ Alive
      BY <2>1 DEF IInv, TypeOK, Alive
    <2>3. conns' = [c \in Conns |-> IF c \in S
                                    THEN [conns[c] EXCEPT !.transport = Closed(@)]
                                    ELSE conns[c]]
      BY <1>3 DEF BeginDrain
    <2> HIDE DEF S
    <2>4. /\ conns' \in [Conns -> Conn] /\ active' \subseteq Conns
          /\ SlotsAreLive' /\ WithinLimit' /\ FreshIsOpen'
      BY <2>1, <2>2, <2>3, PassStep
    <2> QED
      BY <2>1, <2>4 DEF IInv, TypeOK, Stages, DrainFollowsServing
  <1>4. CASE DrainEnds
    <2>1. /\ stage = "draining" /\ stage' = "leaving" /\ shuttingDown' = shuttingDown
          /\ shutdown' = shutdown /\ signals' = signals /\ active' = active
      BY <1>4 DEF DrainEnds
    <2>2. active \in SUBSET Conns /\ Alive
      BY <2>1 DEF IInv, TypeOK, Alive
    <2>3. /\ conns' \in [Conns -> Conn] /\ active' \subseteq Conns
          /\ SlotsAreLive' /\ WithinLimit' /\ FreshIsOpen'
      BY <1>4, <2>1, <2>2, PassStep DEF DrainEnds
    <2> QED
      BY <2>1, <2>3 DEF IInv, TypeOK, Stages, DrainFollowsServing
  <1>5. CASE Leave
    BY <1>5, EndStep DEF Leave, IInv, TypeOK
  <1>6. ASSUME NEW c \in Conns, Connection(c)
        PROVE  IInv'
    <2>0. conns[c] \in Conn
      BY DEF IInv, TypeOK
    <2>1. CASE Accept(c)
      BY <2>1, AcceptStep
    <2>2. CASE ConnectionMade(c)
      BY <2>2, MadeStep
    <2>3. CASE c \in active /\ (Take(c) \/ Decide(c) \/ Answer(c) \/ Close(c))
      <3>1. conns[c].transport # "lost"
        BY <2>3 DEF IInv, SlotsAreLive, Live
      <3>2. \E r \in Conn : /\ Becomes(c, r) /\ r.state = conns[c].state
                            /\ r.transport # "lost"
        <4>1. CASE Take(c)
          <5>1. PICK v \in {"undecided", "last"} :
                   Becomes(c, [conns[c] EXCEPT !.handling = TRUE, !.verdict = v,
                                               !.late = IF shuttingDown THEN @ + 1 ELSE @])
            BY <4>1 DEF Take
          <5> DEFINE n == IF shuttingDown THEN conns[c].late + 1 ELSE conns[c].late
                     r == [conns[c] EXCEPT !.handling = TRUE, !.verdict = v, !.late = n]
          <5>2. n \in Nat
            BY <2>0 DEF Conn
          <5>3. Becomes(c, r)
            BY <5>1
          <5> HIDE DEF n
          <5>4. r \in Conn /\ r.state = conns[c].state /\ r.transport = conns[c].transport
            BY <2>0, <5>2 DEF Conn
          <5> QED
            BY <3>1, <5>3, <5>4
        <4>2. CASE Decide(c)
          <5>1. PICK v \in {"another", "last"} : Becomes(c, [conns[c] EXCEPT !.verdict = v])
            BY <4>2 DEF Decide
          <5>2. [conns[c] EXCEPT !.verdict = v] \in Conn
            BY <2>0 DEF Conn
          <5> QED
            BY <2>0, <3>1, <5>1, <5>2 DEF Conn
        <4>3. CASE Answer(c)
          <5> DEFINE r == [conns[c] EXCEPT !.handling = FALSE, !.verdict = "undecided"]
          <5>1. Becomes(c, r)
            BY <4>3 DEF Answer
          <5>2. r \in Conn /\ r.state = conns[c].state /\ r.transport = conns[c].transport
            BY <2>0 DEF Conn
          <5> HIDE DEF r
          <5> QED
            BY <3>1, <5>1, <5>2
        <4>4. CASE Close(c)
          BY <2>0, <3>1, <4>4 DEF Close, Conn
        <4> QED
          BY <2>3, <4>1, <4>2, <4>3, <4>4
      <3> QED
        BY <2>3, <3>2, ServedStep
    <2>4. CASE Lose(c)
      BY <2>4, LoseStep
    <2> QED
      BY <1>6, <2>1, <2>2, <2>3, <2>4 DEF Connection, Take, Decide, Answer, Close, Becomes
  <1>7. CASE UNCHANGED vars
    BY <1>7 DEF vars, IInv, TypeOK, SlotsAreLive, Live, WithinLimit, FreshIsOpen, Alive,
                DrainFollowsServing
  <1> QED
    BY <1>1, <1>2, <1>3, <1>4, <1>5, <1>6, <1>7 DEF Next, Process

-----------------------------------------------------------------------------
(* The theorems.                                                           *)

\* Every variable of a worker process keeps its type.
THEOREM TypeCorrect == Spec => []TypeOK
  <1>1. IInv => TypeOK
    BY DEF IInv
  <1> QED
    BY <1>1, InitInv, StepInv, PTL DEF Spec

\* No slot of the tracker leaks and none is missing.
THEOREM SlotsMatch == Spec => []SlotsAreLive
  <1>1. IInv => SlotsAreLive
    BY DEF IInv
  <1> QED
    BY <1>1, InitInv, StepInv, PTL DEF Spec

\* No more than max_connections connections live at a time.
THEOREM NeverOverCapacity == Spec => []CapacityHeld
  <1>1. IInv => CapacityHeld
    BY DEF IInv, CapacityHeld, SlotsAreLive, WithinLimit
  <1> QED
    BY <1>1, InitInv, StepInv, PTL DEF Spec

-----------------------------------------------------------------------------
(* Every connection lives as Lifecycle.tla says.                           *)

\* What c shares with the rest of the process, left alone.
LEMMA LeftAlone ==
    ASSUME NEW c \in Conns, conns'[c] = conns[c], shuttingDown' = shuttingDown,
           c \in active' <=> c \in active
    PROVE  UNCHANGED Life(c)!vars
  <1>1. (c \in active') = (c \in active)
    OBVIOUS
  <1> QED
    BY <1>1 DEF Life!vars

LEMMA LifeStep ==
    ASSUME IInv, [Next]_vars, NEW c \in Conns, conns[c].state = "admitted"
    PROVE  Life(c)!Next \/ UNCHANGED Life(c)!vars
  <1>0. conns[c] \in Conn /\ (c \in active <=> conns[c].transport # "lost")
    BY DEF IInv, TypeOK, SlotsAreLive, Live
  <1>a. ASSUME End, shuttingDown' = shuttingDown
        PROVE  Life(c)!Next \/ UNCHANGED Life(c)!vars
    <2>1. conns'[c] = [conns[c] EXCEPT !.transport = "lost"] /\ c \notin active'
      BY <1>a DEF End
    <2>2. /\ conns'[c].transport = "lost" /\ conns'[c].handling = conns[c].handling
          /\ conns'[c].verdict = conns[c].verdict /\ conns'[c].late = conns[c].late
          /\ (c \in active') = FALSE
      BY <1>0, <2>1 DEF Conn
    <2>3. CASE c \in active
      BY <1>0, <1>a, <2>2, <2>3 DEF Life!Next, Life!Lose
    <2>4. CASE c \notin active
      <3>1. conns'[c] = conns[c]
        BY <1>0, <2>1, <2>4 DEF Conn
      <3> QED
        BY <1>a, <2>1, <2>4, <3>1, LeftAlone
    <2> QED
      BY <2>3, <2>4
  <1>1. CASE Start
    BY <1>1, LeftAlone DEF Start
  <1>2. CASE Signal
    <2>1. shuttingDown' = shuttingDown
      BY <1>2 DEF Signal
    <2>2. CASE stage = "serving"
      BY <1>2, <2>1, <2>2, LeftAlone DEF Signal
    <2>3. CASE stage # "serving"
      BY <1>2, <1>a, <2>1, <2>3 DEF Signal
    <2> QED
      BY <2>2, <2>3
  <1>3. CASE BeginDrain
    <2>1. shuttingDown = FALSE /\ shuttingDown' = TRUE /\ active' = active
      BY <1>3 DEF BeginDrain, IInv, TypeOK, DrainFollowsServing
    <2>2. conns'[c] = IF c \in active /\ ~conns[c].handling
                      THEN [conns[c] EXCEPT !.transport = Closed(@)] ELSE conns[c]
      BY <1>3 DEF BeginDrain, Spared
    <2>3. /\ conns'[c].handling = conns[c].handling
          /\ conns'[c].verdict = conns[c].verdict /\ conns'[c].late = conns[c].late
          /\ conns'[c].transport = IF conns[c].transport = "open" /\ ~conns[c].handling
                                   THEN "closing" ELSE conns[c].transport
      BY <1>0, <2>2 DEF Conn, Closed
    <2>4. (c \in active') = (c \in active)
      BY <2>1
    <2> QED
      BY <2>1, <2>3, <2>4 DEF Life!Next, Life!Drain
  <1>4. CASE DrainEnds
    <2>1. /\ shuttingDown' = shuttingDown /\ active' = active
          /\ conns'[c] = IF c \in active THEN [conns[c] EXCEPT !.transport = Closed(@)]
                         ELSE conns[c]
      BY <1>4 DEF DrainEnds
    <2>2. CASE conns[c].transport = "open"
      <3>1. /\ conns'[c].transport = "closing" /\ conns'[c].handling = conns[c].handling
            /\ conns'[c].verdict = conns[c].verdict /\ conns'[c].late = conns[c].late
        BY <1>0, <2>1, <2>2 DEF Conn, Closed
      <3>2. (c \in active') = (c \in active)
        BY <2>1
      <3> QED
        BY <2>1, <2>2, <3>1, <3>2 DEF Life!Next, Life!Close
    <2>3. CASE conns[c].transport # "open"
      <3>1. conns'[c] = conns[c]
        BY <1>0, <2>1, <2>3 DEF Conn, Closed
      <3> QED
        BY <2>1, <3>1, LeftAlone
    <2> QED
      BY <2>2, <2>3
  <1>5. CASE Leave
    BY <1>5, <1>a DEF Leave
  <1>6. ASSUME NEW d \in Conns, Connection(d), d # c
        PROVE  UNCHANGED Life(c)!vars
    <2>1. conns'[c] = conns[c] /\ shuttingDown' = shuttingDown
      BY <1>6 DEF Connection, Accept, ConnectionMade, Take, Decide, Answer, Close, Lose,
                  Becomes, IInv, TypeOK
    <2>2. c \in active' <=> c \in active
      BY <1>6 DEF Connection, Accept, ConnectionMade, Take, Decide, Answer, Close, Lose,
                  Becomes
    <2> QED
      BY <2>1, <2>2, LeftAlone
  <1>7. CASE Connection(c)
    <2>0. conns \in [Conns -> Conn]
      BY DEF IInv, TypeOK
    <2>1. CASE Take(c)
      <3>1. PICK v \in {"undecided", "last"} :
               Becomes(c, [conns[c] EXCEPT !.handling = TRUE, !.verdict = v,
                                           !.late = IF shuttingDown THEN @ + 1 ELSE @])
        BY <2>1 DEF Take
      <3>2. /\ conns'[c].transport = conns[c].transport /\ conns'[c].handling = TRUE
            /\ conns'[c].verdict = v
            /\ conns'[c].late = IF shuttingDown THEN conns[c].late + 1 ELSE conns[c].late
        BY <1>0, <2>0, <3>1 DEF Becomes, Conn
      <3>3. c \in active /\ active' = active /\ shuttingDown' = shuttingDown
            /\ ~conns[c].handling /\ conns[c].verdict = "undecided"
        BY <2>1, <3>1 DEF Take, Becomes
      <3>4. (c \in active') = (c \in active)
        BY <3>3
      <3> QED
        BY <3>2, <3>3, <3>4 DEF Life!Next, Life!Take, Life!MayClose
    <2>2. CASE Decide(c)
      <3>1. PICK v \in {"another", "last"} :
               /\ v = "another" => conns[c].verdict = "undecided" /\ ~shuttingDown
               /\ Becomes(c, [conns[c] EXCEPT !.verdict = v])
        BY <2>2 DEF Decide
      <3>2. /\ conns'[c].transport = conns[c].transport /\ conns'[c].verdict = v
            /\ conns'[c].handling = conns[c].handling /\ conns'[c].late = conns[c].late
        BY <1>0, <2>0, <3>1 DEF Becomes, Conn
      <3>3. c \in active /\ active' = active /\ shuttingDown' = shuttingDown
            /\ conns[c].handling
        BY <2>2, <3>1 DEF Decide, Becomes
      <3>4. (c \in active') = (c \in active)
        BY <3>3
      <3> QED
        BY <3>1, <3>2, <3>3, <3>4 DEF Life!Next, Life!Decide, Life!MayClose
    <2>3. CASE Answer(c)
      <3>1. /\ conns'[c].transport = conns[c].transport /\ conns'[c].verdict = "undecided"
            /\ conns'[c].handling = FALSE /\ conns'[c].late = conns[c].late
        BY <1>0, <2>0, <2>3 DEF Answer, Becomes, Conn
      <3>2. c \in active /\ active' = active /\ shuttingDown' = shuttingDown
            /\ conns[c].handling /\ conns[c].verdict = "another"
        BY <2>3 DEF Answer, Becomes
      <3>3. (c \in active') = (c \in active)
        BY <3>2
      <3> QED
        BY <3>1, <3>2, <3>3 DEF Life!Next, Life!Answer
    <2>4. CASE Close(c)
      <3>1. /\ conns'[c].transport = "closing" /\ conns'[c].verdict = conns[c].verdict
            /\ conns'[c].handling = conns[c].handling /\ conns'[c].late = conns[c].late
        BY <1>0, <2>0, <2>4 DEF Close, Becomes, Conn
      <3>2. active' = active /\ shuttingDown' = shuttingDown /\ conns[c].transport = "open"
        BY <2>4 DEF Close, Becomes
      <3>3. (c \in active') = (c \in active)
        BY <3>2
      <3> QED
        BY <3>1, <3>2, <3>3 DEF Life!Next, Life!Close
    <2>5. CASE Lose(c)
      <3>1. /\ conns'[c].transport = "lost" /\ conns'[c].verdict = conns[c].verdict
            /\ conns'[c].handling = conns[c].handling /\ conns'[c].late = conns[c].late
        BY <1>0, <2>0, <2>5 DEF Lose, Conn
      <3>2. shuttingDown' = shuttingDown /\ conns[c].transport # "lost"
        BY <2>5 DEF Lose
      <3>3. (c \in active') = FALSE
        BY <2>5 DEF Lose
      <3> QED
        BY <3>1, <3>2, <3>3 DEF Life!Next, Life!Lose
    <2> QED
      BY <1>7, <2>1, <2>2, <2>3, <2>4, <2>5 DEF Connection, Accept, ConnectionMade
  <1>8. CASE UNCHANGED vars
    BY <1>8, LeftAlone DEF vars
  <1> QED
    BY <1>1, <1>2, <1>3, <1>4, <1>5, <1>6, <1>7, <1>8 DEF Next, Process

\* From connection_made on every connection lives as Lifecycle.tla says, whatever
\* the process and the other connections do.
THEOREM EachFollowsLifecycle == Spec => ConnectionsFollowLifecycle
  <1>1. IInv /\ [Next]_vars =>
          [\A c \in Conns : conns[c].state = "admitted" =>
               Life(c)!Next \/ UNCHANGED Life(c)!vars]_vars
    BY LifeStep
  <1> QED
    BY <1>1, InitInv, StepInv, PTL DEF Spec, ConnectionsFollowLifecycle

\* A connection that has taken a late request takes no other: the keep-alive for it
\* is decided after the drain began.
LateIsLast(c) ==
    \/ conns[c].late = 0
    \/ conns[c].late = 1 /\ shuttingDown /\ conns[c].handling /\ conns[c].verdict # "another"

\* An admitted connection stays one, and no other takes a request.
LEMMA TakersAreAdmitted ==
    ASSUME IInv, [Next]_vars, NEW c \in Conns
    PROVE  /\ conns[c].state = "admitted" => conns'[c].state = "admitted"
           /\ conns[c].state # "admitted" => conns'[c].late = conns[c].late
  <1>0. conns[c] \in Conn /\ conns \in [Conns -> Conn] /\ \A d \in active : conns[d].state = "admitted"
    BY DEF IInv, TypeOK, SlotsAreLive, Live
  <1>1. CASE End \/ BeginDrain \/ DrainEnds
    <2>1. /\ conns'[c].state = conns[c].state /\ conns'[c].late = conns[c].late
      BY <1>0, <1>1 DEF End, BeginDrain, DrainEnds, Conn
    <2> QED
      BY <2>1
  <1>2. CASE conns' = conns
    BY <1>2
  <1>3. ASSUME NEW d \in Conns, Accept(d) \/ ConnectionMade(d) \/ Lose(d)
        PROVE  /\ conns[c].state = "admitted" => conns'[c].state = "admitted"
               /\ conns'[c].late = conns[c].late
    BY <1>0, <1>3 DEF Accept, ConnectionMade, Lose, Conn
  <1>4. ASSUME NEW d \in Conns, Take(d) \/ Decide(d) \/ Answer(d) \/ Close(d)
        PROVE  /\ conns[c].state = "admitted" => conns'[c].state = "admitted"
               /\ conns[c].state # "admitted" => conns'[c].late = conns[c].late
    <2>1. \E r : Becomes(d, r) /\ r.state = conns[d].state
      <3> DEFINE k == conns[d]
                 n == IF shuttingDown THEN k.late + 1 ELSE k.late
      <3>0. k \in Conn
        BY DEF IInv, TypeOK
      <3>1. CASE Take(d)
        <4>1. PICK v \in {"undecided", "last"} :
                 Becomes(d, [k EXCEPT !.handling = TRUE, !.verdict = v, !.late = n])
          BY <3>1 DEF Take
        <4>2. [k EXCEPT !.handling = TRUE, !.verdict = v, !.late = n].state = k.state
          BY <3>0 DEF Conn
        <4> QED
          BY <4>1, <4>2
      <3>2. CASE Decide(d)
        <4>1. PICK v \in {"another", "last"} : Becomes(d, [k EXCEPT !.verdict = v])
          BY <3>2 DEF Decide
        <4>2. [k EXCEPT !.verdict = v].state = k.state
          BY <3>0 DEF Conn
        <4> QED
          BY <4>1, <4>2
      <3>3. CASE Answer(d)
        <4>1. [k EXCEPT !.handling = FALSE, !.verdict = "undecided"].state = k.state
          BY <3>0 DEF Conn
        <4> QED
          BY <3>3, <4>1 DEF Answer
      <3>4. CASE Close(d)
        <4>1. [k EXCEPT !.transport = "closing"].state = k.state
          BY <3>0 DEF Conn
        <4> QED
          BY <3>4, <4>1 DEF Close
      <3> QED
        BY <1>4, <3>1, <3>2, <3>3, <3>4
    <2>2. PICK r : Becomes(d, r) /\ r.state = conns[d].state
      BY <2>1
    <2>3. d \in active /\ conns' = [conns EXCEPT ![d] = r]
      BY <2>2 DEF Becomes
    <2> QED
      BY <1>0, <2>2, <2>3
  <1> QED
    BY <1>1, <1>2, <1>3, <1>4 DEF Next, Process, Start, Signal, Leave, Connection, vars

LEMMA LateStep ==
    ASSUME IInv, [Next]_vars, NEW c \in Conns, LateIsLast(c),
           conns[c].state # "admitted" => conns[c].late = 0
    PROVE  LateIsLast(c)' /\ (conns'[c].state # "admitted" => conns'[c].late = 0)
  <1>1. CASE conns[c].state = "admitted"
    <2>1. conns'[c].state = "admitted"
      BY <1>1, TakersAreAdmitted
    <2>2. CASE UNCHANGED Life(c)!vars
      BY <2>1, <2>2 DEF Life!vars, LateIsLast
    <2>3. CASE Life(c)!Take
      BY <2>1, <2>3 DEF Life!Take, LateIsLast
    <2>4. CASE Life(c)!Decide
      BY <2>1, <2>4 DEF Life!Decide, LateIsLast
    <2>5. CASE Life(c)!Answer
      BY <2>1, <2>5 DEF Life!Answer, LateIsLast
    <2>6. CASE Life(c)!Close \/ Life(c)!Lose
      BY <2>1, <2>6 DEF Life!Close, Life!Lose, LateIsLast
    <2>7. CASE Life(c)!Drain
      BY <2>1, <2>7 DEF Life!Drain, LateIsLast
    <2> QED
      BY <1>1, <2>1, <2>2, <2>3, <2>4, <2>5, <2>6, <2>7, LifeStep DEF Life!Next
  <1>2. CASE conns[c].state # "admitted"
    BY <1>2, TakersAreAdmitted DEF LateIsLast
  <1> QED
    BY <1>1, <1>2

\* A process that drains takes at most one more request of each connection.
THEOREM LateBoundedForEach == Spec => []OneLateRequestEach
  <1> DEFINE I == \A c \in Conns :
                      LateIsLast(c) /\ (conns[c].state # "admitted" => conns[c].late = 0)
  <1>1. Init => I
    BY DEF Init, LateIsLast
  <1>2. IInv /\ I /\ [Next]_vars => I'
    <2> SUFFICES ASSUME IInv, I, [Next]_vars, NEW c \in Conns
                 PROVE  LateIsLast(c)' /\ (conns'[c].state # "admitted" => conns'[c].late = 0)
      OBVIOUS
    <2>1. LateIsLast(c) /\ (conns[c].state # "admitted" => conns[c].late = 0)
      OBVIOUS
    <2> QED
      BY <2>1, LateStep
  <1>3. I => OneLateRequestEach
    <2>1. ASSUME NEW c \in Conns, LateIsLast(c) PROVE conns[c].late <= 1
      BY <2>1 DEF LateIsLast
    <2> QED
      BY <2>1 DEF OneLateRequestEach
  <1> HIDE DEF I
  <1> QED
    BY <1>1, <1>2, <1>3, InitInv, StepInv, PTL DEF Spec

-----------------------------------------------------------------------------
(* The supervisor.                                                         *)

LEMMA WorkerStepIsAStep == [SNext]_all => [Next]_vars
  <1> SUFFICES ASSUME [SNext]_all PROVE [Next]_vars
    OBVIOUS
  <1>1. CASE WorkerStep(Next)
    BY <1>1 DEF WorkerStep
  <1>2. CASE ForwardSignal
    BY <1>2 DEF ForwardSignal, Next, Process
  <1>3. CASE /\ ~WorkerStep(Next) /\ ~ForwardSignal
    BY <1>3 DEF SNext, Fork, InstallHandlers, ParentKilled, Waits, WaitReturns, RemovePid,
                OtherStops, OtherFails, all
  <1> QED
    BY <1>1, <1>2, <1>3

\* Whoever signals it, a worker under the supervisor is a Server.
THEOREM SupervisedIsAServer == SSpec => Init /\ [][Next]_vars
  <1>1. SInit => Init
    BY DEF SInit
  <1> QED
    BY <1>1, WorkerStepIsAStep, PTL DEF SSpec

\* What the server theorems say of a process of its own they say of a worker.
THEOREM SupervisedKeepsLimits == SSpec => [](TypeOK /\ SlotsAreLive /\ CapacityHeld)
  <1>1. IInv => TypeOK /\ SlotsAreLive /\ CapacityHeld
    BY DEF IInv, SlotsAreLive, WithinLimit, CapacityHeld
  <1> QED
    BY <1>1, SupervisedIsAServer, InitInv, StepInv, PTL

\* The list of pids and the workers found to have ended make up all that were
\* forked, and only a worker that has ended is found so.
SupervisorInv ==
    /\ others \in [Others -> {"unborn", "running", "stopping", "ended"}]
    /\ parent \in {"waiting", "exited"} => Workers = pids \cup reaped
    /\ parent = "exited" => pids = {}
    /\ \A w \in reaped : w \in Workers /\ HasEnded(w)

\* A process that has ended stays so.
LEMMA EndedForGood == ASSUME [Next]_vars, stage = "ended" PROVE stage' = "ended"
BY DEF Next, Process, Start, Signal, BeginDrain, DrainEnds, Leave, End, Alive, Connection, Accept,
       ConnectionMade, Take, Decide, Answer, Close, Lose, Becomes, vars

LEMMA SupervisorStep == SupervisorInv /\ [SNext]_all => SupervisorInv'
  <1> SUFFICES ASSUME SupervisorInv, [SNext]_all PROVE SupervisorInv'
    OBVIOUS
  <1>0. stage = "ended" => stage' = "ended"
    BY WorkerStepIsAStep, EndedForGood
  <1>1. CASE WorkerStep(Next) \/ UNCHANGED all
    <2>1. UNCHANGED svars
      BY <1>1 DEF WorkerStep, all, svars
    <2> QED
      BY <1>0, <2>1 DEF SupervisorInv, HasEnded, svars
  <1>2. ASSUME NEW w \in Workers, Fork(w) PROVE SupervisorInv'
    <2>1. parent' = "forking" /\ reaped' = reaped /\ w \notin reaped
      BY <1>2 DEF Fork, Forked
    <2>2. others' \in [Others -> {"unborn", "running", "stopping", "ended"}]
      BY <1>2 DEF Fork, SupervisorInv
    <2>3. \A v \in reaped : HasEnded(v)'
      BY <1>0, <1>2, <2>1 DEF Fork, SupervisorInv, HasEnded, Workers
    <2> QED
      BY <2>1, <2>2, <2>3 DEF SupervisorInv
  <1>3. CASE InstallHandlers \/ ParentKilled
    BY <1>0, <1>3 DEF InstallHandlers, ParentKilled, SupervisorInv, HasEnded
  <1>4. CASE ForwardSignal
    <2>1. UNCHANGED <<parent, pids, reaped>>
      BY <1>4 DEF ForwardSignal
    <2>2. others' = [w \in Others |-> IF Signalled(w) THEN "stopping" ELSE others[w]]
      BY <1>4 DEF ForwardSignal
    <2>3. \A w \in reaped : ~Signalled(w)
      BY DEF Signalled
    <2>4. \A w \in reaped : HasEnded(w)'
      BY <1>0, <2>2, <2>3 DEF SupervisorInv, HasEnded, Workers
    <2> QED
      BY <2>1, <2>2, <2>4 DEF SupervisorInv
  <1>5. ASSUME NEW w \in Workers, WaitReturns(w) PROVE SupervisorInv'
    BY <1>0, <1>5 DEF WaitReturns, SupervisorInv, HasEnded
  <1>6. CASE RemovePid
    BY <1>0, <1>6 DEF RemovePid, SupervisorInv, HasEnded
  <1>7. ASSUME NEW w \in Others, OtherStops(w) \/ OtherFails(w) PROVE SupervisorInv'
    BY <1>0, <1>7 DEF OtherStops, OtherFails, SupervisorInv, HasEnded, Workers
  <1> QED
    BY <1>1, <1>2, <1>3, <1>4, <1>5, <1>6, <1>7 DEF SNext, Waits

\* The supervisor returns after all of its workers, however they ended.
THEOREM SupervisorIsLast == SSpec => []ExitsLast
  <1>1. SInit => SupervisorInv
    BY DEF SInit, SupervisorInv
  <1>2. SupervisorInv => ExitsLast
    BY DEF SupervisorInv, ExitsLast
  <1> QED
    BY <1>1, <1>2, SupervisorStep, PTL DEF SSpec

\* Once a signal was forwarded no worker is left that serves on: the supervisor's list
\* may name workers that are gone, but it lacks none that is there.
SignalInv ==
    /\ told => parent # "forking" /\ \A w \in Workers : Knows(w)
    /\ parent = "none" => ~told

LEMMA KnowsForGood == ASSUME [Next]_vars, shutdown \/ stage = "ended"
                      PROVE  shutdown' \/ stage' = "ended"
  <1>1. CASE stage = "ended"
    BY <1>1, EndedForGood
  <1>2. CASE shutdown
    <2>1. CASE Process
      BY <1>2, <2>1 DEF Process, Start, Signal, BeginDrain, DrainEnds, Leave, End
    <2>2. ASSUME NEW c \in Conns, Connection(c) PROVE shutdown' = shutdown
      BY <2>2 DEF Connection, Accept, ConnectionMade, Take, Decide, Answer, Close, Lose, Becomes
    <2> QED
      BY <1>2, <2>1, <2>2 DEF Next, vars
  <1> QED
    BY <1>1, <1>2

LEMMA SignalStep == SupervisorInv /\ SignalInv /\ [SNext]_all => SignalInv'
  <1> SUFFICES ASSUME SupervisorInv, SignalInv, [SNext]_all PROVE SignalInv'
    OBVIOUS
  <1>0. shutdown \/ stage = "ended" => shutdown' \/ stage' = "ended"
    BY WorkerStepIsAStep, KnowsForGood
  <1>1. CASE WorkerStep(Next) \/ UNCHANGED all
    <2>1. UNCHANGED svars
      BY <1>1 DEF WorkerStep, all, svars
    <2> QED
      BY <1>0, <2>1 DEF SignalInv, Knows, svars
  <1>2. CASE InstallHandlers \/ ParentKilled \/ \E w \in Workers : Fork(w)
    BY <1>2 DEF InstallHandlers, ParentKilled, Fork, SignalInv
  <1>3. CASE ForwardSignal
    <2>1. parent = "waiting" /\ parent' = "waiting" /\ Workers = pids \cup reaped
      BY <1>3 DEF ForwardSignal, SupervisorInv
    <2>2. \A w \in Workers : Signalled(w) \/ HasEnded(w)
      BY <2>1 DEF Signalled, SupervisorInv
    <2>3. Worker \in Workers /\ \A w \in Others : w \in Workers
      BY DEF Workers
    <2>4. Knows(Worker)'
      <3>1. CASE Signalled(Worker)
        BY <1>3, <3>1 DEF ForwardSignal, Signal, End, Knows
      <3>2. CASE HasEnded(Worker)
        BY <1>0, <3>2 DEF HasEnded, Knows
      <3> QED
        BY <2>2, <2>3, <3>1, <3>2
    <2>5. ASSUME NEW w \in Others, w # Worker
          PROVE  Knows(w)'
      <3>1. others'[w] = IF Signalled(w) THEN "stopping" ELSE others[w]
        BY <1>3 DEF ForwardSignal
      <3>2. Signalled(w) \/ others[w] = "ended"
        BY <2>2, <2>3, <2>5 DEF HasEnded
      <3> QED
        BY <2>5, <3>1, <3>2 DEF Knows
    <2> QED
      BY <2>1, <2>4, <2>5 DEF SignalInv, Workers
  <1>4. CASE Waits
    <2>1. told' = told /\ others' = others /\ parent \in {"waiting"} /\ parent' \in {"waiting", "exited"}
      BY <1>4 DEF Waits, WaitReturns, RemovePid
    <2> QED
      BY <1>0, <2>1 DEF SignalInv, Knows
  <1>5. ASSUME NEW w \in Others, OtherStops(w) \/ OtherFails(w)
        PROVE  SignalInv'
    <2>1. /\ UNCHANGED <<parent, told>> /\ others' = [others EXCEPT ![w] = "ended"]
      BY <1>5 DEF OtherStops, OtherFails
    <2>2. \A v \in Others : others'[v] = others[v] \/ others'[v] = "ended"
      BY <2>1 DEF SupervisorInv
    <2> QED
      BY <1>0, <2>1, <2>2 DEF SignalInv, Knows, Workers
  <1> QED
    BY <1>1, <1>2, <1>3, <1>4, <1>5 DEF SNext

\* One signal reaches every worker, whatever ends and is reaped while it is forwarded.
THEOREM SignalReachesAll == SSpec => []SignalMissesNone
  <1>1. SInit => SupervisorInv /\ SignalInv
    BY DEF SInit, SupervisorInv, SignalInv
  <1>2. SignalInv => SignalMissesNone
    BY DEF SignalInv, SignalMissesNone
  <1> QED
    BY <1>1, <1>2, SupervisorStep, SignalStep, PTL DEF SSpec

=============================================================================

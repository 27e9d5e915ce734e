--------------------------- MODULE Parser_proofs ---------------------------
(***************************************************************************)
(* The parser of Parser.tla keeps its place in every well formed stream,   *)
(* for all limits, lengths and segments; what it refuses is bad, or is of  *)
(* a length at which the segments decide.                                  *)
(***************************************************************************)
EXTENDS Parser, TLAPS

Kinds == {"head", "fixed", "line", "data", "trailer", "close"}

\* The end of the stream changes nothing but for a body that waits for it.
EofIsLast == eof /\ stage # "close" => raised \/ (~Complete /\ ~Overrun)

\* What only an error brings about.
LostByErrors == raised \/ stage \in {"kept", "astray"} => failed

IInv == /\ stream \in Streams
        /\ TypeOK
        /\ InStep
        /\ EofIsLast
        /\ LostByErrors
        /\ SameInAnySegments

-----------------------------------------------------------------------------
LEMMA UnitFacts ==
    ASSUME NEW u \in Unit
    PROVE  /\ Ending(u) \in Nat /\ EndOf(u) \in Nat
           /\ u.start + u.len + Ending(u) = EndOf(u)
           /\ u.kind \in Kinds
           /\ u.start \in Nat /\ u.len \in Nat /\ u.size \in Nat /\ u.before \in Nat
  <1>1. u.kind \in Kinds /\ u.start \in Nat /\ u.len \in Nat /\ u.size \in Nat /\ u.before \in Nat
    BY DEF Unit, Kinds
  <1>2. Ending(u) \in Nat
    BY <1>1 DEF Ending, Kinds
  <1> QED
    BY <1>1, <1>2 DEF EndOf

LEMMA StreamFacts ==
    ASSUME stream \in Streams
    PROVE  /\ Len(stream) \in Nat /\ Len(stream) > 0
           /\ \A i \in 1..Len(stream) : stream[i] \in Unit
           /\ stream[1].kind = "head" /\ stream[1].start = 0 /\ stream[1].before = 0
           /\ \A i \in 1..(Len(stream) - 1) : Follows(stream[i], stream[i + 1])
           /\ NextKind(stream[Len(stream)]) = "head" \/ ~stream[Len(stream)].ok
           /\ Total \in Nat
  <1>1. WellFormed(stream)
    BY StreamsAssumption
  <1>2. stream \in Seq(Unit) /\ stream # <<>>
    BY <1>1 DEF WellFormed
  <1>3. Len(stream) \in Nat /\ Len(stream) > 0 /\ \A i \in 1..Len(stream) : stream[i] \in Unit
    BY <1>2
  <1>4. Total \in Nat
    BY <1>3, UnitFacts DEF Total
  <1> QED
    BY <1>1, <1>3, <1>4 DEF WellFormed

LEMMA CurrentFacts ==
    ASSUME stream \in Streams, at \in 1..(Len(stream) + 1)
    PROVE  /\ Current \in Unit
           /\ at <= Len(stream) => Current = stream[at]
           /\ at = Len(stream) + 1 => /\ Current.kind = "head" /\ Current.start = Total
                                      /\ Current.before = 0 /\ Current.len = 1
  <1>1. CASE at <= Len(stream)
    BY <1>1, StreamFacts DEF Current
  <1>2. CASE at = Len(stream) + 1
    <2>1. ~(at <= Len(stream))
      BY <1>2, StreamFacts
    <2> QED
      BY <1>2, <2>1, StreamFacts DEF Current, Unit
  <1> QED
    BY <1>1, <1>2, StreamFacts

LEMMA InitInv == Init => IInv
  <1> SUFFICES ASSUME Init PROVE IInv
    OBVIOUS
  <1>1. stream \in Streams /\ Len(stream) \in Nat /\ Len(stream) > 0 /\ Total \in Nat
    BY StreamFacts DEF Init
  <1>2. TypeOK
    <2>1. 1 \in 1..(Len(stream) + 1) /\ 0 <= Total
      BY <1>1
    <2>2. <<>> \in Seq([last : Nat, body : Nat])
      OBVIOUS
    <2>3. /\ received = 0 /\ eof = FALSE /\ consumed = 0 /\ at = 1 /\ stage = "head"
          /\ need = 0 /\ body = 0 /\ out = <<>> /\ raised = FALSE /\ refused = 0
      BY DEF Init
    <2>4. /\ at \in 1..(Len(stream) + 1) /\ received \in Nat /\ received <= Total
          /\ refused \in 0..Len(stream)
      BY <1>1, <2>1, <2>3
    <2>5. consumed \in Nat /\ consumed <= received /\ need \in Nat /\ body \in Nat
      BY <2>3
    <2> QED
      BY <2>2, <2>3, <2>4, <2>5 DEF TypeOK
  <1>3. Current = stream[1]
    BY <1>1 DEF Init, Current
  <1>4. InStep
    BY <1>1, <1>3, StreamFacts DEF Init, InStep
  <1>5. EofIsLast /\ LostByErrors /\ SameInAnySegments
    BY DEF Init, EofIsLast, LostByErrors, SameInAnySegments, Ahead, failed
  <1> QED
    BY <1>1, <1>2, <1>4, <1>5 DEF IInv

-----------------------------------------------------------------------------
(* A unit is complete, or too long, only if it is there.                   *)

LEMMA NeededFacts ==
    ASSUME IInv, stage \notin {"kept", "astray"}, eof => stage = "close"
    PROVE  /\ Current \in Unit /\ Held \in Nat
           /\ consumed = Current.start /\ stage = Current.kind
           /\ body = Current.before \/ (stage = "data" /\ ~Current.ok /\ failed)
           /\ stage # "close" => /\ Needed = Current.len + Ending(Current)
                                 /\ Needed \in Nat
  <1>1. /\ Current \in Unit /\ consumed = Current.start /\ stage = Current.kind
        /\ body = Current.before \/ (stage = "data" /\ ~Current.ok /\ failed)
        /\ stage \in {"fixed", "data"} => need = Current.len
    BY CurrentFacts DEF IInv, TypeOK, InStep
  <1>2. Held \in Nat
    BY DEF IInv, TypeOK, Held
  <1>3. stage # "close" => Needed = Current.len + Ending(Current)
    BY <1>1, UnitFacts DEF Needed, Ending, Kinds
  <1> QED
    BY <1>1, <1>2, <1>3, UnitFacts

LEMMA NothingBehind ==
    ASSUME IInv, stage \notin {"kept", "astray"}, eof => stage = "close", stage # "close",
           Complete \/ Overrun
    PROVE  at \in 1..Len(stream) /\ Current = stream[at]
  <1>1. at \in 1..(Len(stream) + 1) /\ Len(stream) \in Nat
    BY StreamFacts DEF IInv, TypeOK
  <1>2. SUFFICES ASSUME at = Len(stream) + 1 PROVE FALSE
    BY <1>1, <1>2, CurrentFacts DEF IInv
  <1>3. consumed = Total /\ stage = "head" /\ Needed = 5
    BY <1>1, <1>2, NeededFacts, CurrentFacts DEF IInv, Ending
  <1>4. Held = 0
    BY <1>3, StreamFacts DEF IInv, TypeOK, Held
  <1> QED
    BY <1>3, <1>4, LimitsAssumption DEF Complete, Overrun

-----------------------------------------------------------------------------
(* Moving on to the next unit.                                             *)

LEMMA Advance ==
    ASSUME IInv, at \in 1..Len(stream), stream' = stream, at' = at + 1
    PROVE  /\ at' \in 1..(Len(stream') + 1) /\ Total' = Total
           /\ Current'.start = EndOf(stream[at])
           /\ stream[at].ok \/ NextKind(stream[at]) = "head" =>
                  Current'.kind = NextKind(stream[at])
           /\ at < Len(stream) => Follows(stream[at], Current')
           /\ at = Len(stream) => Current'.before = 0 /\ Current'.kind = "head"
           /\ Current' \in Unit
  <1>1. Len(stream) \in Nat /\ at' \in 1..(Len(stream) + 1)
    BY StreamFacts DEF IInv
  <1>2. Total' = Total
    BY DEF Total
  <1>3. CASE at < Len(stream)
    <2>1. at' <= Len(stream) /\ at \in 1..(Len(stream) - 1)
      BY <1>1, <1>3
    <2>2. Current' = stream[at + 1]
      BY <2>1 DEF Current
    <2>3. Follows(stream[at], stream[at + 1]) /\ stream[at + 1] \in Unit
      BY <1>1, <2>1, StreamFacts DEF IInv
    <2> QED
      BY <1>1, <1>2, <1>3, <2>2, <2>3 DEF Follows
  <1>4. CASE at = Len(stream)
    <2>1. ~(at' <= Len(stream'))
      BY <1>1, <1>4
    <2>2. /\ Current'.kind = "head" /\ Current'.start = Total /\ Current'.before = 0
          /\ Current' \in Unit
      BY <1>2, <2>1, StreamFacts DEF Current, Unit, IInv
    <2>3. Total = EndOf(stream[at])
      BY <1>4 DEF Total
    <2>4. NextKind(stream[at]) = "head" \/ ~stream[at].ok
      BY <1>4, StreamFacts DEF IInv
    <2> QED
      BY <1>1, <1>2, <1>4, <2>2, <2>3, <2>4
  <1> QED
    BY <1>1, <1>3, <1>4

\* A step without a verdict.
LEMMA VerdictStays ==
    ASSUME IInv, stream' = stream, refused' = refused, at' = at
    PROVE  SameInAnySegments'
  <1>1. \A u : Bad(u)' = Bad(u) /\ CutsDecide(u)' = CutsDecide(u)
    BY DEF Bad, FindBodyMode, CutsDecide
  <1> QED
    BY <1>1 DEF IInv, SameInAnySegments, Ahead, failed

\* A good unit is passed.
LEMMA PassedIsGood ==
    ASSUME IInv, at \in 1..Len(stream), stream' = stream, refused' = refused, at' = at + 1,
           ~Bad(stream[at])
    PROVE  SameInAnySegments'
  <1>1. \A u : Bad(u)' = Bad(u) /\ CutsDecide(u)' = CutsDecide(u)
    BY DEF Bad, FindBodyMode, CutsDecide
  <1>2. failed' = failed /\ at \in Nat
    BY DEF failed, IInv, TypeOK
  <1>3. CASE failed
    BY <1>1, <1>2, <1>3 DEF IInv, SameInAnySegments, Ahead
  <1>4. CASE ~failed
    <2>1. Ahead = at /\ Ahead' = at + 1
      BY <1>2, <1>4 DEF Ahead
    <2>2. \A i \in 1..(Ahead' - 1) : i \in 1..(Ahead - 1) \/ i = at
      BY <1>2, <2>1
    <2>3. \A i \in 1..(Ahead' - 1) : ~Bad(stream[i])
      BY <2>2 DEF IInv, SameInAnySegments
    <2> QED
      BY <1>1, <1>2, <1>4, <2>3 DEF SameInAnySegments
  <1> QED
    BY <1>3, <1>4

\* A step that leaves the unit.
LEMMA GotoStep ==
    ASSUME IInv, stage \notin {"kept", "astray"}, eof => stage = "close", stage # "close",
           Complete, NEW s, Goto(s), s = NextKind(Current), Current.ok \/ s = "head",
           ~Bad(Current),
           body' \in Nat, need' \in Nat, out' \in Seq([last : Nat, body : Nat]),
           s \in {"fixed", "data"} => need' = Current.size,
           body' = CASE s = "line" /\ Current.kind = "data" -> Current.before + Current.len
                     [] s \in {"data", "trailer"}           -> Current.before
                     [] OTHER                               -> 0
    PROVE  IInv'
  <1>1. /\ consumed' = consumed + Needed /\ at' = at + 1 /\ stage' = s
        /\ stream' = stream /\ received' = received /\ eof' = eof
        /\ raised' = raised /\ refused' = refused
    BY DEF Goto
  <1>2. at \in 1..Len(stream) /\ Current = stream[at] /\ ~eof
    BY NothingBehind
  <1>3. /\ Current \in Unit /\ Needed = Current.len + Ending(Current) /\ Needed \in Nat
        /\ consumed = Current.start
    BY NeededFacts
  <1>4. consumed' = EndOf(Current) /\ consumed' \in Nat
    BY <1>1, <1>3, UnitFacts DEF EndOf
  <1>5. /\ at' \in 1..(Len(stream') + 1) /\ Total' = Total /\ Current' \in Unit
        /\ Current'.start = EndOf(stream[at]) /\ Current'.kind = NextKind(stream[at])
        /\ at < Len(stream) => Follows(stream[at], Current')
        /\ at = Len(stream) => Current'.before = 0
    BY <1>1, <1>2, Advance
  <1>6. consumed' <= received'
    BY <1>1, <1>3 DEF IInv, TypeOK, Complete, Held
  <1>7. stage' = Current'.kind /\ stage' \in Kinds
    BY <1>1, <1>2, <1>5, UnitFacts
  <1>8. TypeOK'
    BY <1>1, <1>4, <1>5, <1>6, <1>7 DEF IInv, TypeOK, Kinds
  <1>9. InStep'
    <2>1. CASE at < Len(stream)
      <3>1. /\ Current'.before = CASE s = "line" /\ Current.kind = "data" ->
                                           Current.before + Current.len
                                   [] s \in {"data", "trailer"} -> Current.before
                                   [] OTHER -> 0
            /\ s \in {"fixed", "data"} => Current'.len = Current.size
        BY <1>1, <1>2, <1>5, <1>7, <2>1 DEF Follows
      <3>2. body' = Current'.before
        BY <3>1
      <3> QED
        BY <1>1, <1>2, <1>4, <1>5, <1>7, <3>1, <3>2 DEF InStep
    <2>2. CASE at = Len(stream)
      <3>1. s = "head"
        BY <1>2, <2>2, StreamFacts DEF IInv
      <3>2. body' = 0
        BY <3>1
      <3> QED
        BY <1>1, <1>2, <1>4, <1>5, <1>7, <2>2, <3>1, <3>2 DEF InStep
    <2> QED
      BY <1>2, <2>1, <2>2, StreamFacts DEF IInv
  <1>10. EofIsLast' /\ LostByErrors'
    BY <1>1, <1>2, <1>7 DEF IInv, EofIsLast, LostByErrors, failed, Kinds
  <1>11. SameInAnySegments'
    BY <1>1, <1>2, PassedIsGood
  <1> QED
    BY <1>1, <1>8, <1>9, <1>10, <1>11 DEF IInv

\* A message starts with an empty body.
LEMMA HeadBefore ==
    ASSUME IInv, Current.kind = "head"
    PROVE  Current.before = 0
  <1>1. at \in 1..(Len(stream) + 1) /\ Len(stream) \in Nat
    BY StreamFacts DEF IInv, TypeOK
  <1>2. CASE at = 1
    BY <1>1, <1>2, StreamFacts, CurrentFacts DEF IInv
  <1>3. CASE at > 1 /\ at <= Len(stream)
    <2>1. at - 1 \in 1..(Len(stream) - 1) /\ (at - 1) + 1 = at
      BY <1>1, <1>3
    <2>2. Follows(stream[at - 1], stream[(at - 1) + 1])
      BY <2>1, StreamFacts DEF IInv
    <2>3. Follows(stream[at - 1], Current)
      BY <1>1, <1>3, <2>1, <2>2, CurrentFacts DEF IInv
    <2> QED
      BY <2>3 DEF Follows
  <1>4. CASE at = Len(stream) + 1
    BY <1>1, <1>4, CurrentFacts DEF IInv
  <1> QED
    BY <1>1, <1>2, <1>3, <1>4

\* A step that raises an error.
LEMMA FailFacts ==
    ASSUME IInv, Fail, at \in 1..Len(stream), Current = stream[at],
           failed \/ Bad(Current) \/ CutsDecide(Current)
    PROVE  /\ raised' = TRUE /\ stream' = stream /\ received' = received /\ eof' = eof
           /\ need' = need /\ out' = out /\ Total' = Total
           /\ refused' \in 0..Len(stream') /\ failed'
           /\ EofIsLast' /\ LostByErrors' /\ SameInAnySegments'
  <1>1. /\ raised' = TRUE /\ stream' = stream /\ received' = received /\ eof' = eof
        /\ need' = need /\ out' = out /\ refused' = IF failed THEN refused ELSE at
    BY DEF Fail
  <1>2. at \in Nat /\ at > 0 /\ Total' = Total
    BY <1>1, StreamFacts DEF IInv, Total
  <1>3. refused' \in 0..Len(stream') /\ failed'
    BY <1>1, <1>2, StreamFacts DEF IInv, TypeOK, failed
  <1>4. Ahead' = Ahead /\ refused' = Ahead
    BY <1>1, <1>3 DEF Ahead
  <1>5. \A u : Bad(u)' = Bad(u) /\ CutsDecide(u)' = CutsDecide(u)
    BY DEF Bad, FindBodyMode, CutsDecide
  <1>6. Bad(stream[refused']) \/ CutsDecide(stream[refused'])
    BY <1>1 DEF IInv, SameInAnySegments
  <1>7. SameInAnySegments'
    BY <1>1, <1>4, <1>5, <1>6 DEF IInv, SameInAnySegments
  <1>8. EofIsLast' /\ LostByErrors'
    BY <1>1, <1>3 DEF EofIsLast, LostByErrors
  <1> QED
    BY <1>1, <1>2, <1>3, <1>7, <1>8

\* The unit stays at the front of the buffer.
LEMMA KeepStep ==
    ASSUME IInv, Fail, Keep, at \in 1..Len(stream), Current = stream[at],
           failed \/ Bad(Current) \/ CutsDecide(Current)
    PROVE  IInv'
  <1>1. /\ raised' = TRUE /\ stream' = stream /\ received' = received /\ eof' = eof
        /\ need' = need /\ out' = out /\ Total' = Total
        /\ refused' \in 0..Len(stream') /\ failed'
        /\ EofIsLast' /\ LostByErrors' /\ SameInAnySegments'
    BY FailFacts
  <1>2. consumed' = consumed /\ at' = at /\ stage' = stage /\ body' = body
    BY DEF Keep
  <1>3. Current' = Current
    BY <1>1, <1>2 DEF Current
  <1>4. TypeOK'
    BY <1>1, <1>2 DEF IInv, TypeOK
  <1>5. InStep'
    BY <1>1, <1>2, <1>3 DEF IInv, InStep
  <1> QED
    BY <1>1, <1>4, <1>5 DEF IInv

\* The unit is deleted, and another of its kind is looked for where none need be.
LEMMA DropStep ==
    ASSUME IInv, Fail, Drop, stage \in {"head", "line"}, ~eof, Complete, Bad(Current)
    PROVE  IInv'
  <1>1. /\ Current \in Unit /\ consumed = Current.start /\ stage = Current.kind
        /\ body = Current.before /\ Needed = Current.len + Ending(Current) /\ Needed \in Nat
        /\ at \in 1..Len(stream) /\ Current = stream[at]
    BY NeededFacts, NothingBehind
  <1>2. /\ raised' = TRUE /\ stream' = stream /\ received' = received /\ eof' = eof
        /\ need' = need /\ out' = out /\ Total' = Total
        /\ refused' \in 0..Len(stream') /\ failed'
        /\ EofIsLast' /\ LostByErrors' /\ SameInAnySegments'
    BY <1>1, FailFacts
  <1>3. /\ consumed' = consumed + Needed /\ at' = at + 1 /\ body' = body
        /\ stage' = IF Current'.kind = stage THEN stage ELSE "astray"
    BY DEF Drop
  <1>4. /\ at' \in 1..(Len(stream') + 1) /\ Current'.start = EndOf(stream[at])
        /\ at < Len(stream) => Follows(stream[at], Current')
        /\ at = Len(stream) => Current'.before = 0 /\ Current'.kind = "head"
    BY <1>1, <1>2, <1>3, Advance
  <1>5. consumed' = EndOf(Current) /\ consumed' \in Nat /\ consumed' <= received
    BY <1>1, <1>3, UnitFacts DEF IInv, TypeOK, Complete, Held, EndOf
  <1>6. TypeOK'
    BY <1>2, <1>3, <1>4, <1>5 DEF IInv, TypeOK
  <1>7. stage' # "astray" => stage' = "head" /\ Current'.kind = "head" /\ Current'.before = 0
    <2>1. CASE at < Len(stream)
      BY <1>1, <1>3, <1>4, <2>1 DEF Follows, NextKind
    <2>2. CASE at = Len(stream)
      BY <1>3, <1>4, <2>2
    <2> QED
      BY <1>1, <2>1, <2>2, StreamFacts DEF IInv
  <1>8. stage = "head" => body = 0
    BY <1>1, HeadBefore
  <1>9. InStep'
    BY <1>1, <1>3, <1>4, <1>5, <1>7, <1>8 DEF InStep
  <1> QED
    BY <1>2, <1>6, <1>9 DEF IInv

-----------------------------------------------------------------------------
(* One lemma per action.                                                   *)

\* The modes of find_body_mode are what the sender does.
LEMMA ModeFacts ==
    ASSUME NEW u \in Unit, u.kind = "head", FindBodyMode(u) # "error"
    PROVE  /\ FindBodyMode(u) = "none" => NextKind(u) = "head"
           /\ FindBodyMode(u) # "none" => /\ FindBodyMode(u) = NextKind(u)
                                          /\ NextKind(u) \in {"line", "fixed", "close"}
  BY DEF FindBodyMode, NextKind, Unit

LEMMA DeliverType ==
    ASSUME IInv, NEW n \in Nat, Deliver(n)
    PROVE  body' = 0 /\ need' = 0 /\ out' \in Seq([last : Nat, body : Nat])
  <1>1. at \in Nat /\ out \in Seq([last : Nat, body : Nat])
    BY StreamFacts DEF IInv, TypeOK
  <1>2. [last |-> at, body |-> n] \in [last : Nat, body : Nat]
    BY <1>1
  <1>3. Append(out, [last |-> at, body |-> n]) \in Seq([last : Nat, body : Nat])
    BY <1>1, <1>2
  <1> QED
    BY <1>1, <1>3 DEF Deliver

LEMMA HeadStep ==
    ASSUME IInv, ~raised, HeadEnds
    PROVE  IInv'
  <1>1. stage = "head" /\ Complete
    BY DEF HeadEnds
  <1>2. ~eof
    BY <1>1 DEF IInv, EofIsLast
  <1>3. Current \in Unit /\ Current.kind = "head"
    BY <1>1, <1>2, NeededFacts
  <1>4. CASE ~HeadFits(Current) \/ ~Current.ok \/ FindBodyMode(Current) = "error"
    <2>1. Fail /\ (Keep \/ Drop)
      BY <1>4 DEF HeadEnds
    <2>2. Bad(Current)
      BY <1>3, <1>4, LimitsAssumption DEF Bad, HeadFits, Unit
    <2>3. at \in 1..Len(stream) /\ Current = stream[at]
      BY <1>1, <1>2, NothingBehind
    <2> QED
      BY <1>1, <1>2, <2>1, <2>2, <2>3, KeepStep, DropStep
  <1>5. CASE HeadFits(Current) /\ Current.ok /\ FindBodyMode(Current) # "error"
    <2>1. ~Bad(Current)
      BY <1>3, <1>5, LimitsAssumption DEF Bad, HeadFits, Unit
    <2>2. body = 0 /\ Current.before = body
      BY <1>1, <1>2, <1>3, HeadBefore, NeededFacts
    <2>3. CASE FindBodyMode(Current) = "none"
      <3>1. Goto("head") /\ Deliver(0)
        BY <1>5, <2>3 DEF HeadEnds
      <3>2. NextKind(Current) = "head"
        BY <1>3, <2>3, ModeFacts
      <3>3. body' = 0 /\ need' = 0 /\ out' \in Seq([last : Nat, body : Nat])
        BY <3>1, DeliverType
      <3> QED
        BY <1>1, <1>2, <1>5, <2>1, <3>1, <3>2, <3>3, GotoStep
    <2>4. CASE FindBodyMode(Current) # "none"
      <3>1. /\ Goto(FindBodyMode(Current)) /\ need' = Current.size
            /\ body' = body /\ out' = out
        BY <1>5, <2>4 DEF HeadEnds
      <3>2. /\ FindBodyMode(Current) = NextKind(Current)
            /\ FindBodyMode(Current) \in {"line", "fixed", "close"}
        BY <1>3, <1>5, <2>4, ModeFacts
      <3>3. body' = 0 /\ need' \in Nat /\ out' \in Seq([last : Nat, body : Nat])
        BY <1>3, <2>2, <3>1, UnitFacts DEF IInv, TypeOK
      <3> QED
        BY <1>1, <1>2, <1>3, <1>5, <2>1, <3>1, <3>2, <3>3, GotoStep
    <2> QED
      BY <2>3, <2>4
  <1> QED
    BY <1>4, <1>5

LEMMA FixedStep ==
    ASSUME IInv, ~raised, FixedEnds
    PROVE  IInv'
  <1>1. stage = "fixed" /\ Complete /\ Goto("head") /\ Deliver(need)
    BY DEF FixedEnds
  <1>2. ~eof
    BY <1>1 DEF IInv, EofIsLast
  <1>3. Current \in Unit /\ Current.kind = "fixed" /\ need \in Nat
    BY <1>1, <1>2, NeededFacts DEF IInv, TypeOK
  <1>4. body' = 0 /\ need' = 0 /\ out' \in Seq([last : Nat, body : Nat])
    BY <1>1, <1>3, DeliverType
  <1>5. ~Bad(Current) /\ NextKind(Current) = "head"
    BY <1>3 DEF Bad, NextKind
  <1> QED
    BY <1>1, <1>2, <1>4, <1>5, GotoStep

LEMMA LineStep ==
    ASSUME IInv, ~raised, LineEnds
    PROVE  IInv'
  <1>1. stage = "line" /\ Complete
    BY DEF LineEnds
  <1>2. ~eof
    BY <1>1 DEF IInv, EofIsLast
  <1>3. Current \in Unit /\ Current.kind = "line" /\ body = Current.before
    BY <1>1, <1>2, NeededFacts
  <1>4. CASE ~Current.ok \/ body + Current.size > MaxBody
    <2>1. Fail /\ Drop
      BY <1>4 DEF LineEnds
    <2>2. Bad(Current)
      BY <1>3, <1>4 DEF Bad
    <2> QED
      BY <1>1, <1>2, <2>1, <2>2, DropStep
  <1>5. CASE ~(~Current.ok \/ body + Current.size > MaxBody)
    <2>1. /\ Goto(IF Current.size = 0 THEN "trailer" ELSE "data")
          /\ need' = Current.size /\ body' = body /\ out' = out
      BY <1>5 DEF LineEnds
    <2>2. ~Bad(Current)
      BY <1>3, <1>5 DEF Bad
    <2>3. NextKind(Current) = (IF Current.size = 0 THEN "trailer" ELSE "data")
      BY <1>3 DEF NextKind
    <2>4. Goto(NextKind(Current)) /\ NextKind(Current) \in {"trailer", "data"}
      BY <2>1, <2>3
    <2>5. body' \in Nat /\ need' \in Nat /\ out' \in Seq([last : Nat, body : Nat])
      BY <1>3, <2>1, UnitFacts DEF IInv, TypeOK
    <2> QED
      BY <1>1, <1>2, <1>3, <1>5, <2>1, <2>2, <2>4, <2>5, GotoStep
  <1> QED
    BY <1>4, <1>5

LEMMA DataStep ==
    ASSUME IInv, ~raised, DataEnds
    PROVE  IInv'
  <1>1. stage = "data" /\ Complete
    BY DEF DataEnds
  <1>2. ~eof
    BY <1>1 DEF IInv, EofIsLast
  <1>3. /\ Current \in Unit /\ Current.kind = "data" /\ consumed = Current.start
        /\ body = Current.before \/ (~Current.ok /\ failed)
        /\ need = Current.len /\ at \in 1..Len(stream) /\ Current = stream[at]
    BY <1>1, <1>2, NeededFacts, NothingBehind DEF IInv, InStep
  <1>4. CASE ~Current.ok
    <2>1. /\ Fail /\ consumed' = consumed /\ at' = at /\ stage' = stage
          /\ body' = body + need
      BY <1>4 DEF DataEnds
    <2>2. Bad(Current)
      BY <1>3, <1>4 DEF Bad
    <2>3. /\ raised' = TRUE /\ stream' = stream /\ received' = received /\ eof' = eof
          /\ need' = need /\ out' = out /\ Total' = Total
          /\ refused' \in 0..Len(stream') /\ failed'
          /\ EofIsLast' /\ LostByErrors' /\ SameInAnySegments'
      BY <1>3, <2>1, <2>2, FailFacts
    <2>4. Current' = Current
      BY <2>1, <2>3 DEF Current
    <2>5. TypeOK'
      BY <2>1, <2>3 DEF IInv, TypeOK
    <2>6. InStep'
      BY <1>1, <1>3, <1>4, <2>1, <2>3, <2>4 DEF InStep
    <2> QED
      BY <2>3, <2>5, <2>6 DEF IInv
  <1>5. CASE Current.ok
    <2>1. Goto("line") /\ body' = body + need /\ need' = need /\ out' = out
      BY <1>5 DEF DataEnds
    <2>2. ~Bad(Current) /\ NextKind(Current) = "line"
      BY <1>3, <1>5 DEF Bad, NextKind
    <2>3. body' \in Nat /\ need' \in Nat /\ out' \in Seq([last : Nat, body : Nat])
      BY <2>1 DEF IInv, TypeOK
    <2> QED
      BY <1>1, <1>2, <1>3, <1>5, <2>1, <2>2, <2>3, GotoStep
  <1> QED
    BY <1>4, <1>5

LEMMA TrailerStep ==
    ASSUME IInv, ~raised, TrailerEnds
    PROVE  IInv'
  <1>1. stage = "trailer" /\ Complete
    BY DEF TrailerEnds
  <1>2. ~eof
    BY <1>1 DEF IInv, EofIsLast
  <1>3. Current \in Unit /\ Current.kind = "trailer"
    BY <1>1, <1>2, NeededFacts
  <1>4. CASE ~Current.ok
    <2>1. /\ Fail /\ consumed' = consumed + Needed /\ at' = at /\ stage' = "kept"
          /\ body' = body
      BY <1>4 DEF TrailerEnds
    <2>2. Bad(Current) /\ at \in 1..Len(stream) /\ Current = stream[at]
      BY <1>1, <1>2, <1>3, <1>4, NothingBehind DEF Bad
    <2>3. /\ raised' = TRUE /\ stream' = stream /\ received' = received /\ eof' = eof
          /\ need' = need /\ out' = out /\ Total' = Total
          /\ refused' \in 0..Len(stream') /\ failed'
          /\ EofIsLast' /\ LostByErrors' /\ SameInAnySegments'
      BY <2>1, <2>2, FailFacts
    <2>4. Needed \in Nat /\ consumed + Needed <= received
      BY <1>1, <1>2, NeededFacts DEF IInv, TypeOK, Complete, Held
    <2>5. TypeOK'
      BY <2>1, <2>3, <2>4 DEF IInv, TypeOK
    <2>6. InStep'
      BY <2>1 DEF InStep
    <2> QED
      BY <2>3, <2>5, <2>6 DEF IInv
  <1>5. CASE Current.ok
    <2>1. Goto("head") /\ Deliver(body) /\ body \in Nat
      BY <1>5 DEF TrailerEnds, IInv, TypeOK
    <2>2. ~Bad(Current) /\ NextKind(Current) = "head"
      BY <1>3, <1>5 DEF Bad, NextKind
    <2>3. body' = 0 /\ need' = 0 /\ out' \in Seq([last : Nat, body : Nat])
      BY <2>1, DeliverType
    <2> QED
      BY <1>1, <1>2, <1>5, <2>1, <2>2, <2>3, GotoStep
  <1> QED
    BY <1>4, <1>5

LEMMA CloseStep ==
    ASSUME IInv, ~raised, CloseEnds
    PROVE  IInv'
  <1>1. /\ stage = "close" /\ eof /\ consumed' = received /\ at' = at + 1
        /\ stage' = "head" /\ Deliver(Held) /\ stream' = stream /\ received' = received
        /\ eof' = eof /\ raised' = raised /\ refused' = refused
    BY DEF CloseEnds, Complete
  <1>2. Current.kind = "close" /\ Held \in Nat
    BY <1>1, NeededFacts
  <1>3. at \in 1..Len(stream) /\ Current = stream[at] /\ Len(stream) \in Nat
    BY <1>2, StreamFacts, CurrentFacts DEF IInv, TypeOK
  <1>4. at' \in 1..(Len(stream') + 1) /\ Total' = Total /\ Current' \in Unit
    BY <1>1, <1>3, Advance
  <1>5. body' = 0 /\ need' = 0 /\ out' \in Seq([last : Nat, body : Nat])
    BY <1>1, <1>2, DeliverType
  <1>6. TypeOK'
    BY <1>1, <1>4, <1>5 DEF IInv, TypeOK
  <1>7. InStep' /\ LostByErrors'
    BY <1>1 DEF IInv, InStep, LostByErrors, failed
  <1>8. EofIsLast'
    <2>1. Held' = 0
      BY <1>1 DEF Held, IInv, TypeOK
    <2>2. Needed' \in Nat /\ Needed' > 0
      BY <1>1, <1>4, UnitFacts DEF Needed
    <2> QED
      BY <1>1, <2>1, <2>2, LimitsAssumption DEF EofIsLast, Complete, Overrun
  <1>9. SameInAnySegments'
    <2>1. ~Bad(stream[at])
      BY <1>2, <1>3 DEF Bad
    <2> QED
      BY <1>1, <1>3, <2>1, PassedIsGood
  <1> QED
    BY <1>1, <1>6, <1>7, <1>8, <1>9 DEF IInv

\* A terminator that is missing in too many bytes is missing for good, or it is
\* cut up at the limit.
LEMMA TooLongStep ==
    ASSUME IInv, ~raised, TooLong
    PROVE  IInv'
  <1>1. Overrun /\ Fail /\ Keep /\ ~Complete
    BY DEF TooLong, Overrun
  <1>2. stage \in {"head", "trailer", "line"}
    BY <1>1 DEF Overrun
  <1>3. ~eof
    BY <1>1, <1>2 DEF IInv, EofIsLast
  <1>4. /\ Current \in Unit /\ Held \in Nat /\ stage = Current.kind
        /\ Needed = Current.len + Ending(Current) /\ Held < Needed /\ Current.len \in Nat
    BY <1>1, <1>2, <1>3, NeededFacts, UnitFacts DEF Complete
  <1>5. Bad(Current) \/ CutsDecide(Current)
    BY <1>1, <1>2, <1>4, LimitsAssumption DEF Overrun, Bad, CutsDecide, Ending
  <1>6. at \in 1..Len(stream) /\ Current = stream[at]
    BY <1>1, <1>2, <1>3, NothingBehind
  <1> QED
    BY <1>1, <1>5, <1>6, KeepStep

\* What goes on after an error, where nothing is in step.
LEMMA TrailersStep ==
    ASSUME IInv, TrailersAgain
    PROVE  IInv'
  <1>1. stage = "kept" /\ failed /\ Fail /\ Keep
    BY DEF TrailersAgain, IInv, LostByErrors
  <1>2. /\ raised' = TRUE /\ refused' = refused
        /\ UNCHANGED <<stream, received, eof, need, out, consumed, at, stage, body>>
    BY <1>1 DEF Fail, Keep
  <1>3. Total' = Total /\ failed'
    BY <1>1, <1>2 DEF Total, failed
  <1>4. TypeOK'
    BY <1>2, <1>3 DEF IInv, TypeOK
  <1>5. InStep' /\ EofIsLast' /\ LostByErrors'
    BY <1>1, <1>2, <1>3 DEF InStep, EofIsLast, LostByErrors
  <1> QED
    BY <1>2, <1>4, <1>5, VerdictStays DEF IInv

LEMMA WanderStep ==
    ASSUME IInv, Wander
    PROVE  IInv'
  <1>1. /\ stage = "astray" /\ failed /\ ~eof /\ consumed' \in consumed..received
        /\ raised' \in BOOLEAN
        /\ UNCHANGED <<stream, received, eof, at, stage, need, body, out, refused>>
    BY DEF Wander, IInv, LostByErrors
  <1>2. Total' = Total /\ failed'
    BY <1>1 DEF Total, failed
  <1>3. consumed' \in Nat /\ consumed' <= received
    BY <1>1 DEF IInv, TypeOK
  <1>4. TypeOK'
    BY <1>1, <1>2, <1>3 DEF IInv, TypeOK
  <1>5. InStep' /\ EofIsLast' /\ LostByErrors'
    BY <1>1, <1>2 DEF InStep, EofIsLast, LostByErrors
  <1> QED
    BY <1>1, <1>4, <1>5, VerdictStays DEF IInv

LEMMA FeedStep ==
    ASSUME IInv, NEW n \in 1..Total, Feed(n)
    PROVE  IInv'
  <1>1. /\ ~eof /\ received' = received + n /\ received + n <= Total /\ raised' = FALSE
        /\ stream' = stream /\ eof' = eof /\ consumed' = consumed /\ at' = at
        /\ stage' = stage /\ need' = need /\ body' = body /\ out' = out
        /\ refused' = refused
    BY DEF Feed
  <1>2. Total' = Total /\ Current' = Current /\ Total \in Nat /\ failed' = failed
    BY <1>1, StreamFacts DEF Total, Current, IInv, failed
  <1>3. TypeOK'
    <2>1. received' \in Nat /\ consumed <= received' /\ received' <= Total
      BY <1>1, <1>2 DEF IInv, TypeOK
    <2> QED
      BY <1>1, <1>2, <2>1 DEF IInv, TypeOK
  <1>4. InStep' /\ EofIsLast' /\ LostByErrors'
    BY <1>1, <1>2 DEF IInv, InStep, EofIsLast, LostByErrors
  <1> QED
    BY <1>1, <1>3, <1>4, VerdictStays DEF IInv

LEMMA EofStep ==
    ASSUME IInv, SignalEof
    PROVE  IInv'
  <1>1. /\ Waits /\ ~eof /\ eof' = TRUE /\ received' = received
        /\ stream' = stream /\ consumed' = consumed /\ at' = at
        /\ stage' = stage /\ need' = need /\ body' = body /\ out' = out
        /\ raised' = raised /\ refused' = refused
    BY DEF SignalEof
  <1>2. Total' = Total /\ Current' = Current /\ failed' = failed
    BY <1>1 DEF Total, Current, failed
  <1>3. TypeOK'
    BY <1>1, <1>2 DEF IInv, TypeOK
  <1>4. InStep' /\ LostByErrors'
    BY <1>1, <1>2 DEF IInv, InStep, LostByErrors
  <1>5. EofIsLast'
    <2>1. Held' = Held /\ Needed' = Needed
      BY <1>1, <1>2 DEF Held, Needed, Ending
    <2> QED
      BY <1>1, <2>1 DEF EofIsLast, Waits, Complete, Overrun
  <1> QED
    BY <1>1, <1>3, <1>4, <1>5, VerdictStays DEF IInv

LEMMA StutterStep ==
    ASSUME IInv, UNCHANGED vars
    PROVE  IInv'
  <1>1. Total' = Total /\ Current' = Current /\ failed' = failed
    BY DEF vars, Total, Current, failed
  <1>2. Held' = Held /\ Needed' = Needed
    BY <1>1 DEF vars, Held, Needed, Ending
  <1>3. TypeOK' /\ InStep' /\ LostByErrors'
    BY <1>1 DEF vars, IInv, TypeOK, InStep, LostByErrors
  <1>4. EofIsLast'
    BY <1>2 DEF vars, IInv, EofIsLast, Complete, Overrun
  <1> QED
    BY <1>3, <1>4, VerdictStays DEF vars, IInv

LEMMA StepInv == IInv /\ [Next]_vars => IInv'
  <1> SUFFICES ASSUME IInv, [Next]_vars PROVE IInv'
    OBVIOUS
  <1>1. CASE Parse
    BY <1>1, HeadStep, FixedStep, LineStep, DataStep, TrailerStep, CloseStep, TooLongStep,
       TrailersStep, WanderStep
       DEF Parse
  <1>2. CASE SignalEof
    BY <1>2, EofStep
  <1>3. CASE \E n \in 1..Total : Feed(n)
    BY <1>3, FeedStep
  <1>4. CASE UNCHANGED vars
    BY <1>4, StutterStep
  <1> QED
    BY <1>1, <1>2, <1>3, <1>4 DEF Next

-----------------------------------------------------------------------------
(* The theorems.                                                           *)

\* The parser never takes more than it was fed, and its counts stay in range.
THEOREM TypeCorrect == Spec => []TypeOK
  <1>1. IInv => TypeOK
    BY DEF IInv
  <1> QED
    BY <1>1, InitInv, StepInv, PTL DEF Spec

\* It stands at the first byte of what it is looking for: no byte of one message
\* is read as another's.
THEOREM KeepsInStep == Spec => []InStep
  <1>1. IInv => InStep
    BY DEF IInv
  <1> QED
    BY <1>1, InitInv, StepInv, PTL DEF Spec

\* Whether a head or a body is passed or refused depends on it and not on how its
\* bytes came, but for heads within three bytes of their limit; size lines and
\* trailer sections are judged by themselves only below their limits.
THEOREM SegmentsDoNotMatter == Spec => []SameInAnySegments
  <1>1. IInv => SameInAnySegments
    BY DEF IInv
  <1> QED
    BY <1>1, InitInv, StepInv, PTL DEF Spec

-----------------------------------------------------------------------------
(* What it holds.                                                          *)

\* The body so far, with the part that is awaited, is within the limit.
BodyWithinLimit ==
    ~failed => /\ body <= MaxBody
               /\ stage = "fixed" => need <= MaxBody
               /\ stage = "data" => body + need <= MaxBody

LEMMA BodyStep ==
    ASSUME IInv, BodyWithinLimit, [Next]_vars
    PROVE  BodyWithinLimit'
  <1> USE LimitsAssumption
  <1> USE DEF BodyWithinLimit, failed
  <1>1. /\ body \in Nat /\ need \in Nat /\ MaxBody \in Nat
        /\ Current.size \in Nat
    BY CurrentFacts, UnitFacts DEF IInv, TypeOK
  <1>0. /\ refused \in Nat /\ at \in Nat /\ at > 0
        /\ stage \in {"kept", "astray"} => failed
    BY StreamFacts DEF IInv, TypeOK, LostByErrors
  <1>a. Fail => failed'
    BY <1>0 DEF Fail
  <1>2. CASE ~failed /\ HeadEnds
    <2>1. CASE failed'
      BY <2>1
    <2>2. CASE ~failed'
      <3>1. HeadFits(Current) /\ FindBodyMode(Current) # "error"
        BY <1>a, <1>2, <2>2 DEF HeadEnds
      <3>2. CASE FindBodyMode(Current) = "none"
        BY <1>a, <1>1, <1>2, <2>2, <3>1, <3>2 DEF HeadEnds, Goto, Deliver
      <3>3. CASE FindBodyMode(Current) # "none"
        <4>1. stage' = FindBodyMode(Current) /\ need' = Current.size /\ body' = body
          BY <1>a, <1>2, <2>2, <3>1, <3>3 DEF HeadEnds, Goto
        <4>2. FindBodyMode(Current) \in {"line", "fixed", "close"}
          BY <3>1, <3>3 DEF FindBodyMode
        <4>3. FindBodyMode(Current) = "fixed" => Current.size <= MaxBody
          BY DEF FindBodyMode
        <4> QED
          BY <1>1, <1>2, <4>1, <4>2, <4>3
      <3> QED
        BY <3>2, <3>3
    <2> QED
      BY <2>1, <2>2
  <1>3. CASE ~failed /\ (FixedEnds \/ TrailerEnds \/ CloseEnds)
    BY <1>a, <1>1, <1>3 DEF FixedEnds, TrailerEnds, CloseEnds, Goto, Deliver
  <1>4. CASE ~failed /\ LineEnds
    BY <1>a, <1>1, <1>4 DEF LineEnds, Goto
  <1>5. CASE ~failed /\ DataEnds
    BY <1>a, <1>1, <1>5 DEF DataEnds, Goto
  <1>6. CASE ~failed /\ (TooLong \/ TrailersAgain \/ Wander)
    BY <1>a, <1>0, <1>6 DEF TooLong, TrailersAgain, Wander
  <1>7. CASE failed
    <2>1. Fail => refused' = refused
      BY <1>7 DEF Fail
    <2>2. refused' = refused
      BY <2>1 DEF Next, Parse, HeadEnds, FixedEnds, LineEnds, DataEnds, TrailerEnds, CloseEnds,
                  TooLong, TrailersAgain, Wander, SignalEof, Feed, vars, Goto
    <2> QED
      BY <1>7, <2>2
  <1>8. CASE SignalEof \/ UNCHANGED vars \/ \E n \in 1..Total : Feed(n)
    BY <1>8 DEF SignalEof, Feed, vars
  <1> QED
    BY <1>2, <1>3, <1>4, <1>5, <1>6, <1>7, <1>8 DEF Next, Parse

LEMMA BoundedNow ==
    ASSUME IInv, BodyWithinLimit
    PROVE  BufferBounded
  <1> SUFFICES ASSUME ~failed, Waits, stage # "close"
               PROVE  /\ body <= MaxBody
                      /\ Held <= IF LargestLimit < MaxLine THEN MaxLine ELSE LargestLimit
    BY DEF BufferBounded
  <1>1. ~Complete /\ ~Overrun /\ stage \notin {"kept", "astray"}
    BY DEF Waits, IInv, LostByErrors
  <1>2. /\ body \in Nat /\ need \in Nat /\ Held \in Nat
        /\ stage \in {"head", "fixed", "line", "data", "trailer"}
    BY <1>1 DEF IInv, TypeOK, Held
  <1>3. stage \in {"head", "trailer"} => Held <= MaxHead
    BY <1>1, <1>2, LimitsAssumption DEF Overrun
  <1>4. stage = "line" => Held <= MaxLine
    BY <1>1, <1>2, LimitsAssumption DEF Overrun
  <1>5. stage = "fixed" => Held < need
    BY <1>1, <1>2 DEF Complete, Needed
  <1>6. stage = "data" => Held < need + 2
    BY <1>1, <1>2 DEF Complete, Needed
  <1>7. body <= MaxBody /\ (stage \in {"fixed", "data"} => need <= MaxBody)
    BY <1>1, <1>2, LimitsAssumption DEF BodyWithinLimit
  <1>8. stage \in {"fixed", "data"} => Held <= MaxBody + 1
    BY <1>2, <1>5, <1>6, <1>7, LimitsAssumption
  <1> QED
    BY <1>2, <1>3, <1>4, <1>7, <1>8, LimitsAssumption DEF LargestLimit

\* However a peer cuts what it sends and however much it declares, until the first
\* error the parser waits for more only with a buffer and a body within the limits.
THEOREM BufferStaysBounded == Spec => []BufferBounded
  <1>1. Init => IInv /\ BodyWithinLimit
    BY InitInv, LimitsAssumption DEF Init, BodyWithinLimit
  <1>2. IInv /\ BodyWithinLimit /\ [Next]_vars => IInv' /\ BodyWithinLimit'
    BY StepInv, BodyStep
  <1>3. IInv /\ BodyWithinLimit => BufferBounded
    BY BoundedNow
  <1> QED
    BY <1>1, <1>2, <1>3, PTL DEF Spec

-----------------------------------------------------------------------------
(* What it delivers.                                                       *)

\* DeliversWhatWasSent, made inductive: a body without framing is delivered only
\* when the stream has ended, so what came before it is all that ever comes.
Delivered ==
    /\ \A j \in 1..Len(out) :
           /\ out[j].last \in 1..(Ahead - 1) /\ EndsMessage(out[j].last)
           /\ j > 1 => out[j - 1].last < out[j].last
           /\ out[j].body = BodySize(stream[out[j].last])
              \/ (stream[out[j].last].kind = "close" /\ received < Total)
           /\ stream[out[j].last].kind = "close" => eof
    /\ \A i \in 1..(Ahead - 1) : EndsMessage(i) => \E j \in 1..Len(out) : out[j].last = i

\* A step that delivers nothing that counts.
LEMMA QuietStep ==
    ASSUME Delivered, UNCHANGED <<stream, out>>, Ahead' = Ahead,
           eof => received' = received /\ eof'
    PROVE  Delivered'
  <1>1. Total' = Total /\ \A i : EndsMessage(i)' = EndsMessage(i)
    BY DEF Total, EndsMessage
  <1> QED
    BY <1>1 DEF Delivered

\* A step that delivers the message the unit at the front ends.
LEMMA DeliveryStep ==
    ASSUME IInv, Delivered, ~failed, at \in 1..Len(stream), at' = at + 1,
           UNCHANGED <<stream, received, eof, refused>>, NEW n \in Nat, Deliver(n),
           EndsMessage(at), stream[at].kind = "close" => eof,
           n = BodySize(stream[at]) \/ (stream[at].kind = "close" /\ received < Total)
    PROVE  Delivered'
  <1>1. /\ at \in Nat /\ at > 0 /\ Len(out) \in Nat
        /\ out \in Seq([last : Nat, body : Nat])
    BY StreamFacts DEF IInv, TypeOK
  <1>2. [last |-> at, body |-> n] \in [last : Nat, body : Nat]
        /\ out' = Append(out, [last |-> at, body |-> n])
    BY <1>1 DEF Deliver
  <1>0. Ahead = at /\ Ahead' = at'
    BY DEF Ahead, failed
  <1>3. /\ Len(out') = Len(out) + 1
        /\ \A j \in 1..Len(out) : out'[j] = out[j]
        /\ out'[Len(out) + 1] = [last |-> at, body |-> n]
    BY <1>1, <1>2
  <1>4. Total' = Total /\ \A i : EndsMessage(i)' = EndsMessage(i)
    BY DEF Total, EndsMessage
  <1>5. ASSUME NEW j \in 1..Len(out')
        PROVE  /\ out'[j].last \in 1..(at' - 1) /\ EndsMessage(out'[j].last)
               /\ j > 1 => out'[j - 1].last < out'[j].last
               /\ out'[j].body = BodySize(stream[out'[j].last])
                  \/ (stream[out'[j].last].kind = "close" /\ received < Total)
               /\ stream[out'[j].last].kind = "close" => eof
    <2>1. CASE j \in 1..Len(out)
      <3>1. j > 1 => j - 1 \in 1..Len(out)
        BY <1>1, <2>1
      <3>2. out'[j] = out[j] /\ (j > 1 => out'[j - 1] = out[j - 1])
        BY <1>3, <2>1, <3>1
      <3>3. out[j].last \in 1..(at - 1) /\ 1..(at - 1) \subseteq 1..(at' - 1)
        BY <1>0, <1>1, <2>1 DEF Delivered
      <3>4. /\ EndsMessage(out[j].last) /\ (j > 1 => out[j - 1].last < out[j].last)
            /\ out[j].body = BodySize(stream[out[j].last])
               \/ (stream[out[j].last].kind = "close" /\ received < Total)
            /\ stream[out[j].last].kind = "close" => eof
        BY <2>1 DEF Delivered
      <3> QED
        BY <3>2, <3>3, <3>4
    <2>2. CASE j = Len(out) + 1
      <3>1. j > 1 => /\ j - 1 \in 1..Len(out) /\ out'[j - 1] = out[j - 1]
                     /\ out[j - 1].last \in 1..(at - 1)
        BY <1>0, <1>1, <1>3, <2>2 DEF Delivered
      <3> QED
        BY <1>1, <1>3, <2>2, <3>1
    <2> QED
      BY <1>1, <1>3, <2>1, <2>2
  <1>6. ASSUME NEW i \in 1..(at' - 1), EndsMessage(i)
        PROVE  \E j \in 1..Len(out') : out'[j].last = i
    <2>1. CASE i = at
      <3>1. Len(out) + 1 \in 1..Len(out') /\ out'[Len(out) + 1].last = i
        BY <1>1, <1>3, <2>1
      <3> QED
        BY <3>1
    <2>2. CASE i # at
      <3>1. i \in 1..(at - 1)
        BY <1>1, <2>2
      <3>2. PICK j \in 1..Len(out) : out[j].last = i
        BY <1>0, <1>6, <3>1 DEF Delivered
      <3> QED
        BY <1>1, <1>3, <3>2
    <2> QED
      BY <2>1, <2>2
  <1> QED
    BY <1>0, <1>4, <1>5, <1>6 DEF Delivered

\* A step that leaves a unit which ends no message.
LEMMA PassStep ==
    ASSUME IInv, Delivered, ~failed, at \in 1..Len(stream), at' = at + 1,
           UNCHANGED <<stream, received, eof, out, refused>>, ~EndsMessage(at)
    PROVE  Delivered'
  <1>1. at \in Nat /\ Ahead = at /\ Ahead' = at'
    BY DEF IInv, TypeOK, Ahead, failed
  <1>2. Total' = Total /\ \A i : EndsMessage(i)' = EndsMessage(i)
    BY DEF Total, EndsMessage
  <1>3. \A i \in 1..(at' - 1) : i \in 1..(at - 1) \/ i = at
    BY <1>1
  <1>4. 1..(at - 1) \subseteq 1..(at' - 1)
    BY <1>1
  <1> QED
    BY <1>1, <1>2, <1>3, <1>4 DEF Delivered

\* A unit ends its message exactly if a head may follow it.
LEMMA EndOfMessage ==
    ASSUME stream \in Streams, at \in 1..Len(stream)
    PROVE  /\ NextKind(stream[at]) = "head" => EndsMessage(at)
           /\ NextKind(stream[at]) # "head" /\ stream[at].ok => ~EndsMessage(at)
  <1>1. Len(stream) \in Nat /\ at \in Nat
    BY StreamFacts
  <1>2. CASE at = Len(stream)
    BY <1>1, <1>2, StreamFacts DEF EndsMessage
  <1>3. CASE at # Len(stream)
    <2>1. Follows(stream[at], stream[at + 1])
      BY <1>1, <1>3, StreamFacts
    <2> QED
      BY <1>3, <2>1 DEF Follows, EndsMessage
  <1> QED
    BY <1>2, <1>3

LEMMA DeliversStep ==
    ASSUME IInv, Delivered, [Next]_vars
    PROVE  Delivered'
  <1>0. at \in Nat /\ at > 0
    BY StreamFacts DEF IInv, TypeOK
  <1>1. ASSUME UNCHANGED <<stream, at, refused, out, received, eof>>
        PROVE  Delivered'
    BY <1>1, QuietStep DEF Ahead, failed
  <1>2. CASE SignalEof \/ \E n \in 1..Total : Feed(n)
    BY <1>2, QuietStep DEF SignalEof, Feed, Ahead, failed
  <1>3. CASE Fail
    BY <1>0, <1>3, QuietStep DEF Fail, Ahead, failed
  <1>4. CASE UNCHANGED vars \/ Wander
    BY <1>1, <1>4 DEF vars, Wander
  <1>5. CASE failed /\ Parse /\ ~Fail /\ ~Wander
    <2>1. UNCHANGED <<stream, received, eof, refused, out>>
      BY <1>5 DEF Parse, HeadEnds, FixedEnds, LineEnds, DataEnds, TrailerEnds, CloseEnds,
                  TooLong, TrailersAgain, Goto, Deliver
    <2> QED
      BY <1>5, <2>1, QuietStep DEF Ahead, failed
  <1>6. ASSUME ~failed, stage \notin {"close", "kept", "astray"}, Complete
        PROVE  /\ ~eof /\ at \in 1..Len(stream) /\ Current = stream[at] /\ Current \in Unit
               /\ stage = Current.kind /\ body = Current.before
               /\ stage \in {"fixed", "data"} => need = Current.len
    <2>1. ~eof
      BY <1>6 DEF IInv, EofIsLast, LostByErrors
    <2> QED
      BY <1>6, <2>1, NothingBehind, NeededFacts DEF IInv, InStep
  <1>7. CASE ~failed /\ HeadEnds /\ ~Fail
    <2>1. stage = "head" /\ Complete /\ HeadFits(Current) /\ Current.ok
          /\ FindBodyMode(Current) # "error"
      BY <1>7 DEF HeadEnds
    <2>2. at \in 1..Len(stream) /\ Current = stream[at] /\ Current \in Unit /\ Current.kind = "head"
      BY <1>6, <1>7, <2>1
    <2>3. CASE FindBodyMode(Current) = "none"
      <3>1. EndsMessage(at)
        BY <2>2, <2>3, ModeFacts, EndOfMessage DEF IInv
      <3>2. Goto("head") /\ Deliver(0)
        BY <1>7, <2>1, <2>3 DEF HeadEnds
      <3>3. BodySize(stream[at]) = 0
        BY <2>2 DEF BodySize
      <3> QED
        BY <1>7, <2>2, <3>1, <3>2, <3>3, DeliveryStep DEF Goto
    <2>4. CASE FindBodyMode(Current) # "none"
      <3>1. NextKind(Current) # "head"
        BY <2>1, <2>2, <2>4, ModeFacts
      <3>2. ~EndsMessage(at)
        BY <2>1, <2>2, <3>1, EndOfMessage DEF IInv
      <3>3. Goto(FindBodyMode(Current)) /\ out' = out
        BY <1>7, <2>1, <2>4 DEF HeadEnds
      <3> QED
        BY <1>7, <2>2, <3>2, <3>3, PassStep DEF Goto
    <2> QED
      BY <2>3, <2>4
  <1>8. CASE ~failed /\ FixedEnds
    <2>1. stage = "fixed" /\ Complete /\ Goto("head") /\ Deliver(need)
      BY <1>8 DEF FixedEnds
    <2>2. /\ at \in 1..Len(stream) /\ stream[at].kind = "fixed"
          /\ need = stream[at].len /\ need \in Nat
      BY <1>6, <1>8, <2>1 DEF IInv, TypeOK
    <2>3. EndsMessage(at) /\ BodySize(stream[at]) = need
      BY <2>2, EndOfMessage DEF IInv, NextKind, BodySize
    <2> QED
      BY <1>8, <2>1, <2>2, <2>3, DeliveryStep DEF Goto
  <1>9. CASE ~failed /\ TrailerEnds /\ ~Fail
    <2>1. stage = "trailer" /\ Complete /\ Goto("head") /\ Deliver(body)
      BY <1>9 DEF TrailerEnds
    <2>2. /\ at \in 1..Len(stream) /\ stream[at].kind = "trailer"
          /\ body = stream[at].before /\ body \in Nat
      BY <1>6, <1>9, <2>1 DEF IInv, TypeOK
    <2>3. EndsMessage(at) /\ BodySize(stream[at]) = body
      BY <2>2, EndOfMessage DEF IInv, NextKind, BodySize
    <2> QED
      BY <1>9, <2>1, <2>2, <2>3, DeliveryStep DEF Goto
  <1>10. CASE ~failed /\ LineEnds /\ ~Fail
    <2>1. stage = "line" /\ Complete /\ Current.ok /\ out' = out
          /\ Goto(IF Current.size = 0 THEN "trailer" ELSE "data")
      BY <1>10 DEF LineEnds
    <2>2. at \in 1..Len(stream) /\ stream[at].kind = "line" /\ stream[at].ok
      BY <1>6, <1>10, <2>1
    <2>3. ~EndsMessage(at)
      BY <2>2, EndOfMessage DEF IInv, NextKind
    <2> QED
      BY <1>10, <2>1, <2>2, <2>3, PassStep DEF Goto
  <1>11. CASE ~failed /\ DataEnds /\ ~Fail
    <2>1. stage = "data" /\ Complete /\ Current.ok /\ out' = out /\ Goto("line")
      BY <1>11 DEF DataEnds
    <2>2. at \in 1..Len(stream) /\ stream[at].kind = "data" /\ stream[at].ok
      BY <1>6, <1>11, <2>1
    <2>3. ~EndsMessage(at)
      BY <2>2, EndOfMessage DEF IInv, NextKind
    <2> QED
      BY <1>11, <2>1, <2>2, <2>3, PassStep DEF Goto
  <1>12. CASE ~failed /\ CloseEnds
    <2>1. /\ stage = "close" /\ eof /\ at' = at + 1 /\ Deliver(Held)
          /\ UNCHANGED <<stream, received, eof, refused>>
      BY <1>12 DEF CloseEnds, Complete
    <2>2. Current.kind = "close" /\ Held \in Nat /\ consumed = Current.start
      BY <1>12, <2>1, NeededFacts
    <2>3. at \in 1..Len(stream) /\ Current = stream[at]
      BY <2>2, StreamFacts, CurrentFacts DEF IInv, TypeOK
    <2>4. EndsMessage(at) /\ BodySize(stream[at]) = stream[at].len
      BY <2>2, <2>3, EndOfMessage DEF IInv, NextKind, BodySize
    <2>5. at = Len(stream)
      <3>1. SUFFICES ASSUME at # Len(stream) PROVE FALSE
        OBVIOUS
      <3>2. Follows(stream[at], stream[at + 1])
        BY <2>3, <3>1, StreamFacts DEF IInv
      <3> QED
        BY <2>2, <2>3, <3>2 DEF Follows
    <2>6. Total = stream[at].start + stream[at].len
      <3>1. stream[at] \in Unit /\ Ending(stream[at]) = 0
        BY <2>2, <2>3, StreamFacts DEF IInv, Ending
      <3> QED
        BY <2>5, <3>1, UnitFacts DEF Total
    <2>7. Held = stream[at].len \/ received < Total
      <3>1. stream[at].start \in Nat /\ stream[at].len \in Nat
        BY <2>3, StreamFacts, UnitFacts DEF IInv
      <3> QED
        BY <2>2, <2>3, <2>6, <3>1 DEF Held, IInv, TypeOK
    <2> QED
      BY <1>12, <2>1, <2>2, <2>3, <2>4, <2>7, DeliveryStep
  <1>13. CASE TooLong \/ TrailersAgain
    BY <1>3, <1>13 DEF TooLong, TrailersAgain
  <1> QED
    BY <1>2, <1>3, <1>4, <1>5, <1>7, <1>8, <1>9, <1>10, <1>11, <1>12, <1>13 DEF Next, Parse

\* Message for message, in order and with its own body: whatever the framing and
\* however the stream was cut, what try_parse returns is what the peer sent.
THEOREM DeliversEverything == Spec => []DeliversWhatWasSent
  <1>1. Init => IInv /\ Delivered
    <2>1. Init => Delivered
      BY DEF Init, Delivered, Ahead, failed
    <2> QED
      BY <2>1, InitInv
  <1>2. IInv /\ Delivered /\ [Next]_vars => IInv' /\ Delivered'
    BY StepInv, DeliversStep
  <1>3. IInv /\ Delivered => DeliversWhatWasSent
    <2> SUFFICES ASSUME IInv, Delivered PROVE DeliversWhatWasSent
      OBVIOUS
    <2>1. DOMAIN out = 1..Len(out)
      BY DEF IInv, TypeOK
    <2>2. {out[j].last : j \in 1..Len(out)} = {i \in 1..(Ahead - 1) : EndsMessage(i)}
      BY DEF Delivered
    <2> QED
      BY <2>1, <2>2 DEF Delivered, DeliversWhatWasSent
  <1> QED
    BY <1>1, <1>2, <1>3, PTL DEF Spec

=============================================================================

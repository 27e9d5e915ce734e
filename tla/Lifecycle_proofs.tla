-------------------------- MODULE Lifecycle_proofs --------------------------
(***************************************************************************)
(* The promises of Lifecycle.tla hold in every behaviour of it, hence of   *)
(* everything that implements it.                                          *)
(***************************************************************************)
EXTENDS Lifecycle, TLAPS

\* A late request is the last one: it is being handled, no keep-alive decision
\* made before the drain is left to let another in.
LateIsLast ==
    \/ late = 0
    \/ late = 1 /\ shuttingDown /\ handling /\ verdict # "another"

Inv == TypeOK /\ SlotWhileAlive /\ LateIsLast

LEMMA InitInv == Init => Inv
  <1> SUFFICES ASSUME Init PROVE Inv
    OBVIOUS
  <1>1. TypeOK
    BY DEF Init, TypeOK
  <1>2. SlotWhileAlive
    BY DEF Init, SlotWhileAlive
  <1>3. LateIsLast
    BY DEF Init, LateIsLast
  <1> QED
    BY <1>1, <1>2, <1>3 DEF Inv

LEMMA NextInv == Inv /\ [Next]_vars => Inv'
  <1> SUFFICES ASSUME Inv, [Next]_vars
               PROVE  Inv'
    OBVIOUS
  <1> USE DEF Inv, TypeOK, SlotWhileAlive, LateIsLast
  <1>1. CASE Take
    BY <1>1 DEF Take, MayClose
  <1>2. CASE Decide
    BY <1>2 DEF Decide, MayClose
  <1>3. CASE Answer
    BY <1>3 DEF Answer
  <1>4. CASE Close
    BY <1>4 DEF Close
  <1>5. CASE Drain
    BY <1>5 DEF Drain
  <1>6. CASE Lose
    BY <1>6 DEF Lose
  <1>7. CASE UNCHANGED vars
    BY <1>7 DEF vars
  <1> QED
    BY <1>1, <1>2, <1>3, <1>4, <1>5, <1>6, <1>7 DEF Next

LEMMA Invariance == Spec => []Inv
  BY InitInv, NextInv, PTL DEF Spec

\* At most one request is taken after the drain began (Server.drain,
\* Protocol.should_keep_alive).
THEOREM LateBounded == Spec => []AtMostOneLateRequest
  <1>1. Inv => AtMostOneLateRequest
    BY DEF Inv, LateIsLast, AtMostOneLateRequest
  <1> QED
    BY <1>1, Invariance, PTL

\* The tracker slot is held exactly while the connection lives
\* (Protocol.connection_made and connection_lost).
THEOREM SlotHeld == Spec => []SlotWhileAlive
  <1>1. Inv => SlotWhileAlive
    BY DEF Inv
  <1> QED
    BY <1>1, Invariance, PTL

=============================================================================

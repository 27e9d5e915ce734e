---------------------------- MODULE Tunnel_proofs ----------------------------
(***************************************************************************)
(* Both directions of a tunnel are pipes as Pipe.tla describes them, for   *)
(* any number of segments and whatever ends, resets and pauses come; its   *)
(* tasks come to rest, and at rest hold nothing back.                      *)
(***************************************************************************)
EXTENDS Tunnel, TLAPS

\* What was relayed to the client is the front of what the server sent, and the
\* place of upstream_to_client follows from it.
DownInv ==
    /\ \A i \in 1..Len(toClient) : toClient[i] = i
    /\ u2c = "get" => Len(toClient) = taken
    /\ u2c = "blocked" => Len(toClient) + 1 = taken
    /\ Len(toClient) <= taken
    /\ downEnd => u2c = "done"

\* The same for what was sent to the server.  While its connection is open and not
\* ended, client_to_upstream lives, and only a paused writer keeps it from its queue.
UpInv ==
    /\ \A i \in 1..Len(toUpstream) : toUpstream[i] = early + i
    /\ c2u \in {"get", "drain"} => Len(toUpstream) = got
    /\ Len(toUpstream) <= got
    /\ c2u = "drain" => pressed
    /\ stage = "relaying" /\ upstream = "open" /\ ~upEnd => c2u \in {"get", "drain"}
    /\ halfClose => clientEnd = "seen"

\* Before and without a tunnel nothing is relayed.
StageInv ==
    /\ stage # "relaying" => /\ sent = early /\ got = 0 /\ taken = 0
                             /\ c2u = "none" /\ u2c = "none" /\ upstream = "none"
                             /\ ~halfClose /\ ~closer /\ ~upEnd /\ ~downEnd
    /\ stage = "relaying" => upstream # "none"

\* The two halves of TypeOK.
FlagsOK ==
    /\ halfClose \in BOOLEAN /\ upEnd \in BOOLEAN /\ upPaused \in BOOLEAN
    /\ pressed \in BOOLEAN /\ upstreamEnd \in BOOLEAN /\ downEnd \in BOOLEAN
    /\ paused \in BOOLEAN /\ timer \in BOOLEAN /\ intruded \in BOOLEAN /\ closer \in BOOLEAN
PlacesOK ==
    /\ stage \in {"connecting", "relaying", "refused", "cancelled"}
    /\ sent \in 0..MaxClient /\ early \in 0..sent /\ clientEnd \in {"open", "missed", "seen"}
    /\ got \in 0..(sent - early) /\ c2u \in {"none", "get", "drain", "done"}
    /\ upstream \in {"none", "open", "closing", "closed", "lost"}
    /\ toUpstream \in Seq(1..MaxClient)
    /\ arrived \in 0..MaxUpstream
    /\ taken \in 0..arrived /\ u2c \in {"none", "get", "blocked", "done"}
    /\ toClient \in Seq(1..MaxUpstream)
    /\ transport \in {"open", "closing", "lost"}
    /\ reply \in {"none", "200", "502"}

IInv == FlagsOK /\ PlacesOK /\ DownInv /\ UpInv /\ StageInv

-----------------------------------------------------------------------------
(* Sequences of numbers that follow each other.                            *)

LEMMA AppendIs ==
    ASSUME NEW S, NEW s \in Seq(S), NEW x
    PROVE  /\ Len(Append(s, x)) = Len(s) + 1
           /\ \A i \in 1..Len(s) : Append(s, x)[i] = s[i]
           /\ Append(s, x)[Len(s) + 1] = x
           /\ x \in S => Append(s, x) \in Seq(S)
  OBVIOUS

\* The sequence k + 1, ..., k + n.
From(k, n) == [i \in 1..n |-> k + i]

LEMMA FromIs ==
    ASSUME NEW k \in Nat, NEW n \in Nat
    PROVE  From(k, n) \in Seq(Nat) /\ Len(From(k, n)) = n
  BY DEF From

LEMMA FromGrows ==
    ASSUME NEW k \in Nat, NEW n \in Nat
    PROVE  From(k, n + 1) = Append(From(k, n), k + n + 1)
  <1> DEFINE s == From(k, n)
             t == Append(s, k + n + 1)
  <1>1. s \in Seq(Nat) /\ Len(s) = n
    BY FromIs
  <1>2. /\ t \in Seq(Nat) /\ Len(t) = n + 1
        /\ \A i \in 1..n : t[i] = s[i]
        /\ t[n + 1] = k + n + 1
    BY <1>1, AppendIs
  <1>3. \A i \in 1..n : s[i] = k + i
    BY DEF From
  <1> HIDE DEF s, t
  <1>4. \A i \in 1..(n + 1) : t[i] = k + i
    BY <1>2, <1>3
  <1>5. t = [i \in 1..(n + 1) |-> k + i]
    BY <1>2, <1>4
  <1> QED
    BY <1>5 DEF s, t, From

\* A sequence is the one its elements say it is.
LEMMA FromEqual ==
    ASSUME NEW S, NEW s \in Seq(S), NEW k \in Nat, NEW n \in Nat, Len(s) = n,
           \A i \in 1..n : s[i] = k + i
    PROVE  s = From(k, n)
  <1>1. s = [i \in 1..n |-> s[i]]
    OBVIOUS
  <1> QED
    BY <1>1 DEF From

-----------------------------------------------------------------------------
LEMMA Types == TypeOK <=> FlagsOK /\ PlacesOK
  BY DEF TypeOK, FlagsOK, PlacesOK

LEMMA InitInv == Init => IInv
  <1> SUFFICES ASSUME Init PROVE IInv
    OBVIOUS
  <1>1. PlacesOK
    <2>1. 0 \in 0..MaxClient /\ 0 \in 0..MaxUpstream /\ 0 \in 0..0 /\ 0 \in 0..(0 - 0)
      BY BoundsAssumption
    <2>2. <<>> \in Seq(1..MaxClient) /\ <<>> \in Seq(1..MaxUpstream)
      OBVIOUS
    <2> QED
      BY <2>1, <2>2 DEF Init, PlacesOK
  <1>0. FlagsOK
    BY DEF Init, FlagsOK
  <1>2. DownInv /\ UpInv
    BY DEF Init, DownInv, UpInv
  <1>3. StageInv
    BY DEF Init, StageInv
  <1> QED
    BY <1>0, <1>1, <1>2, <1>3 DEF IInv

\* The steps that relay nothing.
LEMMA QuietStep ==
    ASSUME IInv, Connected \/ Refused \/ DataReceived \/ EofReceived \/ ResumeWriting \/ ConnectionLost \/ TimeoutStrikes \/ ServerCloses \/ Pumped \/ PumpEnds \/ UpstreamResets \/ UpstreamReads \/ HalfCloseRuns \/ CloseRuns \/ CloseCompletes \/ DrainReturns
    PROVE  IInv'
  <1>1. CASE Connected
    <2>0. FlagsOK'
      BY <1>1, Zenon DEF Connected, IInv, FlagsOK, clientVars, upVars, queueVars, downVars
    <2>1. PlacesOK'
      BY <1>1, BoundsAssumption DEF Connected, IInv, PlacesOK, clientVars, upVars, queueVars, downVars
    <2>2. DownInv' /\ UpInv' /\ StageInv'
      BY <1>1 DEF Connected, IInv, PlacesOK, DownInv, UpInv, StageInv, clientVars, upVars, queueVars,
                  downVars
    <2> QED
      BY <2>0, <2>1, <2>2 DEF IInv
  <1>2. CASE Refused
    <2>0. FlagsOK'
      BY <1>2, Zenon DEF Refused, IInv, FlagsOK, clientVars, upVars, queueVars, downVars
    <2>1. PlacesOK'
      BY <1>2, BoundsAssumption DEF Refused, IInv, PlacesOK, clientVars, upVars, queueVars, downVars
    <2>2. DownInv' /\ UpInv' /\ StageInv'
      BY <1>2 DEF Refused, IInv, PlacesOK, DownInv, UpInv, StageInv, clientVars, upVars, queueVars,
                  downVars
    <2> QED
      BY <2>0, <2>1, <2>2 DEF IInv
  <1>3. CASE DataReceived
    <2>0. FlagsOK'
      BY <1>3, Zenon DEF DataReceived, IInv, FlagsOK, clientVars, upVars, queueVars, downVars
    <2>3. /\ sent < MaxClient /\ sent' = sent + 1 /\ clientEnd' = clientEnd /\ stage' = stage
          /\ UNCHANGED <<upVars, halfClose, upstream, pressed, queueVars, downVars, transport,
                         reply, closer>>
          /\ stage = "relaying" => early' = early
          /\ stage # "relaying" => early' = early + 1
      BY <1>3 DEF DataReceived
    <2>4. sent \in 0..MaxClient /\ early \in 0..sent /\ got \in 0..(sent - early)
      BY DEF IInv, PlacesOK
    <2>5. sent' \in 0..MaxClient /\ early' \in 0..sent'
      BY <2>3, <2>4, BoundsAssumption
    <2>6. got' \in 0..(sent' - early')
      BY <2>3, <2>4 DEF upVars
    <2>1. PlacesOK'
      BY <2>3, <2>5, <2>6 DEF IInv, PlacesOK, upVars, queueVars, downVars
    <2>7. stage # "relaying" => Len(toUpstream) = 0
      BY DEF IInv, PlacesOK, UpInv, StageInv
    <2>2. DownInv' /\ UpInv' /\ StageInv'
      <3>1. DownInv'
        BY <2>3 DEF IInv, DownInv, downVars
      <3>2. UpInv'
        BY <2>3, <2>7 DEF IInv, UpInv, upVars
      <3>3. StageInv'
        BY <2>3, <2>4 DEF IInv, StageInv, upVars, downVars
      <3> QED
        BY <3>1, <3>2, <3>3
    <2> QED
      BY <2>0, <2>1, <2>2 DEF IInv
  <1>4. CASE EofReceived
    <2>0. FlagsOK'
      BY <1>4, Zenon DEF EofReceived, IInv, FlagsOK, clientVars, upVars, queueVars, downVars
    <2>1. PlacesOK'
      BY <1>4, BoundsAssumption DEF EofReceived, IInv, PlacesOK, clientVars, upVars, queueVars, downVars
    <2>2. DownInv' /\ UpInv' /\ StageInv'
      BY <1>4 DEF EofReceived, IInv, PlacesOK, DownInv, UpInv, StageInv, clientVars, upVars, queueVars,
                  downVars
    <2> QED
      BY <2>0, <2>1, <2>2 DEF IInv
  <1>5. CASE ResumeWriting
    <2>0. FlagsOK'
      BY <1>5, Zenon DEF ResumeWriting, IInv, FlagsOK, clientVars, upVars, queueVars, downVars
    <2>1. PlacesOK'
      BY <1>5, BoundsAssumption DEF ResumeWriting, IInv, PlacesOK, clientVars, upVars, queueVars, downVars
    <2>2. DownInv' /\ UpInv' /\ StageInv'
      BY <1>5 DEF ResumeWriting, IInv, PlacesOK, DownInv, UpInv, StageInv, clientVars, upVars, queueVars,
                  downVars
    <2> QED
      BY <2>0, <2>1, <2>2 DEF IInv
  <1>6. CASE ConnectionLost
    <2>0. FlagsOK'
      BY <1>6, Zenon DEF ConnectionLost, IInv, FlagsOK, clientVars, upVars, queueVars, downVars
    <2>1. PlacesOK'
      BY <1>6, BoundsAssumption DEF ConnectionLost, IInv, PlacesOK, clientVars, upVars, queueVars, downVars
    <2>2. DownInv' /\ UpInv' /\ StageInv'
      BY <1>6 DEF ConnectionLost, IInv, PlacesOK, DownInv, UpInv, StageInv, clientVars, upVars, queueVars,
                  downVars
    <2> QED
      BY <2>0, <2>1, <2>2 DEF IInv
  <1>7. CASE TimeoutStrikes
    <2>0. FlagsOK'
      BY <1>7, Zenon DEF TimeoutStrikes, IInv, FlagsOK, clientVars, upVars, queueVars, downVars
    <2>1. PlacesOK'
      BY <1>7, BoundsAssumption DEF TimeoutStrikes, IInv, PlacesOK, clientVars, upVars, queueVars, downVars
    <2>2. DownInv' /\ UpInv' /\ StageInv'
      BY <1>7 DEF TimeoutStrikes, IInv, PlacesOK, DownInv, UpInv, StageInv, clientVars, upVars, queueVars,
                  downVars
    <2> QED
      BY <2>0, <2>1, <2>2 DEF IInv
  <1>8. CASE ServerCloses
    <2>0. FlagsOK'
      BY <1>8, Zenon DEF ServerCloses, IInv, FlagsOK, clientVars, upVars, queueVars, downVars
    <2>1. PlacesOK'
      BY <1>8, BoundsAssumption DEF ServerCloses, IInv, PlacesOK, clientVars, upVars, queueVars, downVars
    <2>2. DownInv' /\ UpInv' /\ StageInv'
      BY <1>8 DEF ServerCloses, IInv, PlacesOK, DownInv, UpInv, StageInv, clientVars, upVars, queueVars,
                  downVars
    <2> QED
      BY <2>0, <2>1, <2>2 DEF IInv
  <1>9. CASE Pumped
    <2>0. FlagsOK'
      BY <1>9, Zenon DEF Pumped, IInv, FlagsOK, clientVars, upVars, queueVars, downVars
    <2>1. PlacesOK'
      BY <1>9, BoundsAssumption DEF Pumped, IInv, PlacesOK, clientVars, upVars, queueVars, downVars
    <2>2. DownInv' /\ UpInv' /\ StageInv'
      BY <1>9 DEF Pumped, IInv, PlacesOK, DownInv, UpInv, StageInv, clientVars, upVars, queueVars,
                  downVars
    <2> QED
      BY <2>0, <2>1, <2>2 DEF IInv
  <1>10. CASE PumpEnds
    <2>0. FlagsOK'
      BY <1>10, Zenon DEF PumpEnds, IInv, FlagsOK, clientVars, upVars, queueVars, downVars
    <2>1. PlacesOK'
      BY <1>10, BoundsAssumption DEF PumpEnds, IInv, PlacesOK, clientVars, upVars, queueVars, downVars
    <2>2. DownInv' /\ UpInv' /\ StageInv'
      BY <1>10 DEF PumpEnds, IInv, PlacesOK, DownInv, UpInv, StageInv, clientVars, upVars, queueVars,
                  downVars
    <2> QED
      BY <2>0, <2>1, <2>2 DEF IInv
  <1>11. CASE UpstreamResets
    <2>0. FlagsOK'
      BY <1>11, Zenon DEF UpstreamResets, IInv, FlagsOK, clientVars, upVars, queueVars, downVars
    <2>1. PlacesOK'
      BY <1>11, BoundsAssumption DEF UpstreamResets, IInv, PlacesOK, clientVars, upVars, queueVars, downVars
    <2>2. DownInv' /\ UpInv' /\ StageInv'
      BY <1>11 DEF UpstreamResets, IInv, PlacesOK, DownInv, UpInv, StageInv, clientVars, upVars, queueVars,
                  downVars
    <2> QED
      BY <2>0, <2>1, <2>2 DEF IInv
  <1>12. CASE UpstreamReads
    <2>0. FlagsOK'
      BY <1>12, Zenon DEF UpstreamReads, IInv, FlagsOK, clientVars, upVars, queueVars, downVars
    <2>1. PlacesOK'
      BY <1>12, BoundsAssumption DEF UpstreamReads, IInv, PlacesOK, clientVars, upVars, queueVars, downVars
    <2>2. DownInv' /\ UpInv' /\ StageInv'
      BY <1>12 DEF UpstreamReads, IInv, PlacesOK, DownInv, UpInv, StageInv, clientVars, upVars, queueVars,
                  downVars
    <2> QED
      BY <2>0, <2>1, <2>2 DEF IInv
  <1>13. CASE HalfCloseRuns
    <2>0. FlagsOK'
      BY <1>13, Zenon DEF HalfCloseRuns, HalfCloses, IInv, FlagsOK, clientVars, upVars, queueVars, downVars
    <2>1. PlacesOK'
      BY <1>13, BoundsAssumption DEF HalfCloseRuns, IInv, PlacesOK, clientVars, upVars, queueVars, downVars
    <2>2. DownInv' /\ UpInv' /\ StageInv'
      BY <1>13 DEF HalfCloseRuns, HalfCloses, IInv, PlacesOK, DownInv, UpInv, StageInv,
                   clientVars, upVars, queueVars, downVars
    <2> QED
      BY <2>0, <2>1, <2>2 DEF IInv
  <1>14. CASE CloseRuns
    <2>0. FlagsOK'
      BY <1>14, Zenon DEF CloseRuns, IInv, FlagsOK, clientVars, upVars, queueVars, downVars
    <2>1. PlacesOK'
      BY <1>14, BoundsAssumption DEF CloseRuns, IInv, PlacesOK, clientVars, upVars, queueVars, downVars
    <2>2. DownInv' /\ UpInv' /\ StageInv'
      BY <1>14 DEF CloseRuns, IInv, PlacesOK, DownInv, UpInv, StageInv, clientVars, upVars, queueVars,
                  downVars
    <2> QED
      BY <2>0, <2>1, <2>2 DEF IInv
  <1>15. CASE CloseCompletes
    <2>0. FlagsOK'
      BY <1>15, Zenon DEF CloseCompletes, IInv, FlagsOK, clientVars, upVars, queueVars, downVars
    <2>1. PlacesOK'
      BY <1>15, BoundsAssumption DEF CloseCompletes, IInv, PlacesOK, clientVars, upVars, queueVars, downVars
    <2>2. DownInv' /\ UpInv' /\ StageInv'
      BY <1>15 DEF CloseCompletes, IInv, PlacesOK, DownInv, UpInv, StageInv, clientVars, upVars, queueVars,
                  downVars
    <2> QED
      BY <2>0, <2>1, <2>2 DEF IInv
  <1>16. CASE DrainReturns
    <2>0. FlagsOK'
      BY <1>16, Zenon DEF DrainReturns, IInv, FlagsOK, clientVars, upVars, queueVars, downVars
    <2>1. PlacesOK'
      BY <1>16, BoundsAssumption DEF DrainReturns, IInv, PlacesOK, clientVars, upVars, queueVars, downVars
    <2>2. DownInv' /\ UpInv' /\ StageInv'
      BY <1>16 DEF DrainReturns, IInv, PlacesOK, DownInv, UpInv, StageInv, clientVars, upVars, queueVars,
                  downVars
    <2> QED
      BY <2>0, <2>1, <2>2 DEF IInv
  <1> QED
    BY <1>1, <1>2, <1>3, <1>4, <1>5, <1>6, <1>7, <1>8, <1>9, <1>10, <1>11, <1>12, <1>13, <1>14, <1>15, <1>16

\* A chunk that goes up is the next one of the client's.
LEMMA UpStep ==
    ASSUME IInv, ClientToUpstream PROVE IInv'
  <1>1. /\ c2u = "get" /\ got < sent - early /\ got' = got + 1
        /\ UNCHANGED <<stage, clientVars, upEnd, halfClose, upstream, queueVars, downVars,
                       transport, paused, reply, timer, intruded, closer>>
    BY DEF ClientToUpstream, Waiting, IInv, PlacesOK
  <1>2. stage = "relaying" /\ Len(toUpstream) = got
    BY <1>1 DEF IInv, UpInv, StageInv
  <1>3. DownInv'
    BY <1>1 DEF IInv, DownInv, queueVars, downVars
  <1>4. StageInv'
    BY <1>1, <1>2 DEF IInv, StageInv, clientVars, downVars
  <1>7. FlagsOK'
    BY Zenon DEF ClientToUpstream, Send, SendFails, IInv, FlagsOK, clientVars, queueVars, downVars
  <1>5. CASE Send
    <2>1. PICK pause \in BOOLEAN :
             /\ toUpstream' = Append(toUpstream, early + got + 1)
             /\ upPaused' = pause /\ pressed' = (pressed \/ pause)
             /\ c2u' = IF pause THEN "drain" ELSE "get"
      BY <1>5 DEF Send
    <2>2. early + got + 1 \in 1..MaxClient /\ toUpstream \in Seq(1..MaxClient)
      BY <1>1, BoundsAssumption DEF IInv, PlacesOK
    <2>3. /\ Len(toUpstream') = got + 1 /\ toUpstream' \in Seq(1..MaxClient)
          /\ \A i \in 1..got : toUpstream'[i] = toUpstream[i]
          /\ toUpstream'[got + 1] = early + got + 1
      BY <1>2, <2>1, <2>2, AppendIs
    <2>4. PlacesOK'
      BY <1>1, <2>1, <2>3 DEF IInv, PlacesOK, clientVars, queueVars, downVars
    <2>5. UpInv'
      <3>1. ASSUME NEW i \in 1..Len(toUpstream') PROVE toUpstream'[i] = early' + i
        <4>1. CASE i \in 1..got
          BY <1>1, <1>2, <2>3, <4>1 DEF IInv, UpInv, clientVars
        <4>2. CASE i = got + 1
          BY <1>1, <2>3, <4>2 DEF IInv, PlacesOK, clientVars
        <4> QED
          BY <2>3, <4>1, <4>2 DEF IInv, PlacesOK
      <3>2. Len(toUpstream') = got' /\ got' <= got'
        BY <1>1, <2>3 DEF IInv, PlacesOK
      <3> QED
        BY <1>1, <2>1, <3>1, <3>2 DEF IInv, UpInv, clientVars
    <2> QED
      BY <1>3, <1>4, <1>7, <2>4, <2>5 DEF IInv
  <1>6. CASE SendFails /\ (upstream # "open" \/ upEnd)
    <2>1. PlacesOK'
      BY <1>1, <1>6 DEF SendFails, IInv, PlacesOK, clientVars, queueVars, downVars
    <2>2. UpInv'
      BY <1>1, <1>2, <1>6 DEF SendFails, IInv, PlacesOK, UpInv, clientVars
    <2> QED
      BY <1>3, <1>4, <1>7, <2>1, <2>2 DEF IInv
  <1> QED
    BY <1>5, <1>6 DEF ClientToUpstream

\* A chunk that goes down is the next one of the server's.
LEMMA ChunkStep ==
    ASSUME IInv, NEW n \in 1..MaxUpstream, n = Len(toClient) + 1, WriteChunk(n)
    PROVE  /\ toClient' \in Seq(1..MaxUpstream) /\ u2c' \in {"get", "done"}
            /\ \A i \in 1..Len(toClient') : toClient'[i] = i
           /\ u2c' = "get" => Len(toClient') = n
           /\ Len(toClient') <= n
  <1>0. toClient \in Seq(1..MaxUpstream) /\ Len(toClient) \in Nat
    BY DEF IInv, PlacesOK
  <1>1. CASE toClient' = Append(toClient, n) /\ u2c' = "get" /\ paused' \in {paused, TRUE}
    <2>1. /\ Len(toClient') = n /\ toClient' \in Seq(1..MaxUpstream)
          /\ \A i \in 1..Len(toClient) : toClient'[i] = toClient[i]
          /\ toClient'[n] = n
      BY <1>0, <1>1, AppendIs
    <2>2. \A i \in 1..Len(toClient') : i \in 1..Len(toClient) \/ i = n
      BY <1>0, <2>1
    <2> QED
      BY <1>1, <2>1, <2>2 DEF IInv, PlacesOK, DownInv
  <1>2. CASE u2c' = "done" /\ UNCHANGED <<toClient, paused>>
    BY <1>0, <1>2 DEF IInv, PlacesOK, DownInv
  <1> QED
    BY <1>1, <1>2 DEF WriteChunk

LEMMA DownStep ==
    ASSUME IInv, UpstreamToClient \/ WriteResumes \/ UpstreamToClientEnds
    PROVE  IInv'
  <1>0. /\ UNCHANGED <<stage, clientVars, upVars, halfClose, upstream, upPaused, pressed,
                       queueVars, transport, reply, timer, intruded, closer>>
        /\ u2c # "none"
    BY DEF UpstreamToClient, WriteResumes, UpstreamToClientEnds
  <1>1. stage = "relaying"
    BY <1>0 DEF IInv, StageInv
  <1>2. UpInv' /\ StageInv'
    BY <1>0, <1>1 DEF IInv, UpInv, StageInv, clientVars, upVars
  <1>7. FlagsOK'
    BY Zenon DEF UpstreamToClient, WriteResumes, UpstreamToClientEnds, WriteChunk, IInv, FlagsOK,
                 clientVars, upVars, queueVars
  <1>3. CASE UpstreamToClient
    <2>1. /\ u2c = "get" /\ taken < arrived /\ taken' = taken + 1 /\ downEnd' = downEnd
          /\ Len(toClient) = taken /\ ~downEnd
      BY <1>3 DEF UpstreamToClient, IInv, DownInv
    <2>2. CASE paused /\ u2c' = "blocked" /\ UNCHANGED <<toClient, paused>>
      <3>1. PlacesOK'
        BY <1>0, <2>1, <2>2 DEF IInv, PlacesOK, clientVars, upVars, queueVars
      <3>2. DownInv'
        BY <2>1, <2>2 DEF IInv, PlacesOK, DownInv
      <3> QED
        BY <1>2, <1>7, <3>1, <3>2 DEF IInv
    <2>3. CASE WriteChunk(taken + 1)
      <3>1. taken + 1 \in 1..MaxUpstream
        BY <2>1, BoundsAssumption DEF IInv, PlacesOK
      <3>2. /\ toClient' \in Seq(1..MaxUpstream) /\ u2c' \in {"get", "done"}
              /\ \A i \in 1..Len(toClient') : toClient'[i] = i
            /\ u2c' = "get" => Len(toClient') = taken + 1
            /\ Len(toClient') <= taken + 1
        BY <2>1, <2>3, <3>1, ChunkStep
      <3>3. PlacesOK'
        BY <1>0, <2>1, <3>2 DEF IInv, PlacesOK, clientVars, upVars, queueVars
      <3>4. DownInv'
        BY <2>1, <3>2 DEF IInv, DownInv
      <3> QED
        BY <1>2, <1>7, <3>3, <3>4 DEF IInv
    <2> QED
      BY <1>3, <2>2, <2>3 DEF UpstreamToClient
  <1>4. CASE WriteResumes
    <2>1. /\ u2c = "blocked" /\ WriteChunk(taken) /\ taken' = taken /\ downEnd' = downEnd
          /\ Len(toClient) + 1 = taken /\ ~downEnd
      BY <1>4 DEF WriteResumes, IInv, DownInv
    <2>2. taken \in 1..MaxUpstream
      BY <2>1, BoundsAssumption DEF IInv, PlacesOK
    <2>3. /\ toClient' \in Seq(1..MaxUpstream) /\ u2c' \in {"get", "done"}
          /\ \A i \in 1..Len(toClient') : toClient'[i] = i
          /\ u2c' = "get" => Len(toClient') = taken
          /\ Len(toClient') <= taken
      BY <2>1, <2>2, ChunkStep
    <2>4. PlacesOK'
      BY <1>0, <2>1, <2>3 DEF IInv, PlacesOK, clientVars, upVars, queueVars
    <2>5. DownInv'
      BY <2>1, <2>3 DEF IInv, DownInv
    <2> QED
      BY <1>2, <1>7, <2>4, <2>5 DEF IInv
  <1>5. CASE UpstreamToClientEnds
    <2>1. /\ u2c = "get" /\ u2c' = "done" /\ downEnd' = (transport = "open")
          /\ taken' = taken /\ toClient' = toClient /\ paused' = paused
      BY <1>5 DEF UpstreamToClientEnds
    <2>2. PlacesOK'
      BY <1>0, <2>1 DEF IInv, PlacesOK, clientVars, upVars, queueVars
    <2>3. DownInv'
      BY <2>1 DEF IInv, DownInv
    <2> QED
      BY <1>2, <1>7, <2>2, <2>3 DEF IInv
  <1> QED
    BY <1>3, <1>4, <1>5

LEMMA StepInv == IInv /\ [Next]_vars => IInv'
  <1> SUFFICES ASSUME IInv, [Next]_vars PROVE IInv'
    OBVIOUS
  <1>1. CASE UNCHANGED vars
    <2>1. FlagsOK'
      BY <1>1, Zenon DEF vars, clientVars, upVars, queueVars, downVars, IInv, FlagsOK
    <2>2. PlacesOK' /\ DownInv' /\ UpInv' /\ StageInv'
      BY <1>1 DEF vars, clientVars, upVars, queueVars, downVars, IInv, PlacesOK, DownInv, UpInv,
                  StageInv
    <2> QED
      BY <2>1, <2>2 DEF IInv
  <1> QED
    BY <1>1, QuietStep, UpStep, DownStep
       DEF Next, Connect, Client, Server, Tasks

\* Every variable of a tunnel keeps its type: nothing is relayed that was not sent.
THEOREM TypeCorrect == Spec => []TypeOK
  <1>1. IInv => TypeOK
    BY Types DEF IInv
  <1> QED
    BY <1>1, InitInv, StepInv, PTL DEF Spec

-----------------------------------------------------------------------------
(* Downwards.                                                              *)

LEMMA UpstreamIs ==
    ASSUME IInv
    PROVE  /\ FromUpstream = From(0, arrived) /\ FromUpstream \in Seq(Nat)
           /\ Len(FromUpstream) = arrived
           /\ \A i \in 1..arrived : FromUpstream[i] = i
  <1>1. arrived \in Nat
    BY BoundsAssumption DEF IInv, PlacesOK
  <1>2. FromUpstream = From(0, arrived)
    BY <1>1 DEF FromUpstream, From
  <1> QED
    BY <1>1, <1>2, FromIs DEF FromUpstream

LEMMA DownQuiet ==
    ASSUME arrived' = arrived, upstreamEnd' = upstreamEnd, toClient' = toClient,
           downEnd' = downEnd, transport' = transport
    PROVE  UNCHANGED Down!vars
  <1>1. FromUpstream' = FromUpstream
    BY DEF FromUpstream
  <1> QED
    BY <1>1 DEF Down!vars

\* A client that leaves, by a reset, a 502, a 408 or the server's close.
LEMMA DownBreaks ==
    ASSUME arrived' = arrived, upstreamEnd' = upstreamEnd, toClient' = toClient,
           downEnd' = downEnd, transport' # "open"
    PROVE  Down!Next
  <1>1. FromUpstream' = FromUpstream
    BY DEF FromUpstream
  <1> QED
    BY <1>1 DEF Down!Next, Down!Break

\* A chunk that is written is the next one.
LEMMA DownMoves ==
    ASSUME IInv, NEW n, n = Len(toClient) + 1, n <= arrived, ~downEnd, WriteChunk(n),
           arrived' = arrived, upstreamEnd' = upstreamEnd, downEnd' = downEnd,
           transport' = transport
    PROVE  Down!Next \/ UNCHANGED Down!vars
  <1>1. FromUpstream' = FromUpstream
    BY DEF FromUpstream
  <1>2. CASE toClient' = Append(toClient, n)
    <2>1. Len(toClient) \in Nat
      BY DEF IInv, PlacesOK
    <2>2. n \in 1..arrived /\ Len(toClient) < arrived /\ arrived \in Nat
      BY <2>1, BoundsAssumption DEF IInv, PlacesOK
    <2>3. FromUpstream[Len(toClient) + 1] = n /\ Len(FromUpstream) = arrived
      BY <2>2, UpstreamIs
    <2>4. Len(toClient) < Len(FromUpstream)
      BY <2>2, <2>3
    <2> QED
      BY <1>1, <1>2, <2>3, <2>4 DEF Down!Next, Down!Move
  <1>3. CASE toClient' = toClient
    BY <1>3, DownQuiet
  <1> QED
    BY <1>2, <1>3 DEF WriteChunk

LEMMA DownRefines ==
    ASSUME IInv, [Next]_vars PROVE Down!Next \/ UNCHANGED Down!vars
  <1>1. CASE Pumped
    <2>1. /\ ~upstreamEnd /\ arrived' = arrived + 1 /\ upstreamEnd' = upstreamEnd
          /\ toClient' = toClient /\ downEnd' = downEnd /\ transport' = transport
          /\ arrived \in Nat /\ arrived + 1 \in 1..MaxUpstream
      BY <1>1, BoundsAssumption DEF Pumped, downVars, IInv, PlacesOK
    <2>2. FromUpstream' = From(0, arrived + 1)
      BY <2>1 DEF FromUpstream, From
    <2>3. FromUpstream' = Append(FromUpstream, arrived + 1)
      <3>1. From(0, arrived + 1) = Append(From(0, arrived), 0 + arrived + 1)
        BY <2>1, FromGrows
      <3>2. 0 + arrived + 1 = arrived + 1
        BY <2>1
      <3> QED
        BY <2>2, <3>1, <3>2, UpstreamIs
    <2> QED
      BY <2>1, <2>3 DEF Down!Next, Down!Put
  <1>2. CASE PumpEnds \/ UpstreamResets
    <2>1. /\ upstreamEnd' = upstreamEnd \/ upstreamEnd' = TRUE
          /\ arrived' = arrived /\ toClient' = toClient /\ downEnd' = downEnd
          /\ transport' = transport
      BY <1>2, Zenon DEF PumpEnds, UpstreamResets, downVars, IInv, FlagsOK
    <2>2. FromUpstream' = FromUpstream
      BY <2>1 DEF FromUpstream
    <2>3. CASE upstreamEnd' = TRUE
      BY <2>1, <2>2, <2>3 DEF Down!Next, Down!End
    <2>4. CASE upstreamEnd' = upstreamEnd
      BY <2>1, <2>4, DownQuiet
    <2> QED
      BY <2>1, <2>3, <2>4
  <1>3. CASE Refused \/ TimeoutStrikes \/ ServerCloses \/ ConnectionLost
    BY <1>3, DownBreaks
       DEF Refused, TimeoutStrikes, ServerCloses, ConnectionLost, queueVars, downVars
  <1>4. CASE Connected \/ DataReceived \/ EofReceived \/ ResumeWriting \/ UpstreamReads
             \/ HalfCloseRuns \/ CloseRuns \/ CloseCompletes \/ ClientToUpstream \/ DrainReturns
    BY <1>4, DownQuiet
       DEF Connected, DataReceived, EofReceived, ResumeWriting, UpstreamReads, HalfCloseRuns,
           CloseRuns, CloseCompletes, ClientToUpstream, DrainReturns, queueVars, downVars
  <1>5. CASE UpstreamToClient
    <2>1. /\ u2c = "get" /\ taken < arrived /\ arrived' = arrived
          /\ upstreamEnd' = upstreamEnd /\ downEnd' = downEnd /\ transport' = transport
      BY <1>5 DEF UpstreamToClient, queueVars
    <2>2. taken + 1 = Len(toClient) + 1 /\ taken + 1 <= arrived /\ ~downEnd
      BY <2>1, BoundsAssumption DEF IInv, PlacesOK, DownInv
    <2>3. CASE toClient' = toClient
      BY <2>1, <2>3, DownQuiet
    <2>4. CASE WriteChunk(taken + 1)
      BY <2>1, <2>2, <2>4, DownMoves
    <2> QED
      BY <1>5, <2>3, <2>4 DEF UpstreamToClient
  <1>6. CASE WriteResumes
    <2>1. /\ u2c = "blocked" /\ WriteChunk(taken) /\ arrived' = arrived
          /\ upstreamEnd' = upstreamEnd /\ downEnd' = downEnd /\ transport' = transport
      BY <1>6 DEF WriteResumes, queueVars
    <2>2. taken = Len(toClient) + 1 /\ taken <= arrived /\ ~downEnd
      BY <2>1, BoundsAssumption DEF IInv, PlacesOK, DownInv
    <2> QED
      BY <2>1, <2>2, DownMoves
  <1>7. CASE UpstreamToClientEnds
    <2>1. /\ u2c = "get" /\ taken = arrived /\ upstreamEnd /\ downEnd' = (transport = "open")
          /\ arrived' = arrived /\ upstreamEnd' = upstreamEnd /\ toClient' = toClient
          /\ transport' = transport
      BY <1>7 DEF UpstreamToClientEnds, queueVars
    <2>2. FromUpstream' = FromUpstream
      BY <2>1 DEF FromUpstream
    <2>3. CASE transport = "open"
      <3>1. Len(toClient) = arrived /\ toClient \in Seq(1..MaxUpstream) /\ arrived \in Nat
        BY <2>1, BoundsAssumption DEF IInv, DownInv, PlacesOK
      <3>2. \A i \in 1..arrived : toClient[i] = 0 + i
        BY <3>1 DEF IInv, DownInv
      <3>3. toClient = From(0, arrived)
        BY <3>1, <3>2, FromEqual
      <3>4. toClient = FromUpstream
        BY <3>3, UpstreamIs
      <3> QED
        BY <2>1, <2>2, <2>3, <3>4 DEF Down!Next, Down!Close
    <2>4. CASE transport # "open"
      <3>1. downEnd = FALSE
        BY <2>1, Zenon DEF IInv, DownInv, FlagsOK
      <3>2. downEnd' = FALSE
        BY <2>1, <2>4
      <3> QED
        BY <2>1, <3>1, <3>2, DownQuiet
    <2> QED
      BY <2>3, <2>4
  <1>8. CASE UNCHANGED vars
    BY <1>8, DownQuiet DEF vars, queueVars, downVars
  <1> QED
    BY <1>1, <1>2, <1>3, <1>4, <1>5, <1>6, <1>7, <1>8 DEF Next, Connect, Client, Server, Tasks

\* What the upstream server sends reaches the client in order, and its end behind
\* the last of it, unless the client leaves.
THEOREM RefinesPipeDown == Spec => ImplementsPipeDown
  <1>1. Init => Down!Init
    <2>1. ASSUME Init PROVE FromUpstream = <<>>
      BY <2>1 DEF Init, FromUpstream
    <2> QED
      BY <2>1 DEF Init, Down!Init
  <1>2. IInv /\ [Next]_vars => [Down!Next]_Down!vars
    BY DownRefines
  <1> QED
    BY <1>1, <1>2, InitInv, StepInv, PTL DEF Spec, ImplementsPipeDown, Down!Spec

-----------------------------------------------------------------------------
(* Upwards.                                                                *)

LEMMA ClientIs ==
    ASSUME IInv
    PROVE  /\ FromClient = From(early, sent - early) /\ FromClient \in Seq(Nat)
           /\ Len(FromClient) = sent - early /\ sent - early \in Nat /\ early \in Nat
           /\ \A i \in 1..(sent - early) : FromClient[i] = early + i
  <1>1. early \in Nat /\ sent - early \in Nat
    BY BoundsAssumption DEF IInv, PlacesOK
  <1>2. FromClient = From(early, sent - early)
    BY <1>1 DEF FromClient, From
  <1> QED
    BY <1>1, <1>2, FromIs DEF FromClient

\* What the pipe upwards is broken by.
UpBroken == pressed \/ upstream \in {"closing", "closed", "lost"}

LEMMA UpQuiet ==
    ASSUME sent' = sent, early' = early, clientEnd' = clientEnd, toUpstream' = toUpstream,
           upEnd' = upEnd, UpBroken' = UpBroken
    PROVE  UNCHANGED Up!vars
  <1>1. FromClient' = FromClient
    BY DEF FromClient
  <1> QED
    BY <1>1 DEF Up!vars, UpBroken

LEMMA UpSame ==
    ASSUME UNCHANGED <<clientVars, upVars, pressed, upstream>>
    PROVE  UNCHANGED Up!vars
  BY UpQuiet DEF UpBroken, clientVars, upVars

LEMMA UpRefines ==
    ASSUME IInv, [Next]_vars PROVE Up!Next \/ UNCHANGED Up!vars
  <1>1. CASE DataReceived
    <2>1. /\ clientEnd = "open" /\ sent < MaxClient /\ sent' = sent + 1
          /\ clientEnd' = clientEnd /\ toUpstream' = toUpstream /\ upEnd' = upEnd
          /\ pressed' = pressed /\ upstream' = upstream
          /\ stage = "relaying" => early' = early
          /\ stage # "relaying" => early' = early + 1
      BY <1>1 DEF DataReceived, upVars
    <2>2. sent \in Nat /\ early \in Nat /\ sent - early \in Nat
      BY BoundsAssumption DEF IInv, PlacesOK
    <2>3. CASE stage = "relaying"
      <3>1. FromClient' = From(early, (sent - early) + 1)
        <4>1. sent' - early' = (sent - early) + 1 /\ early' = early
          BY <2>1, <2>2, <2>3
        <4> QED
          BY <4>1 DEF FromClient, From
      <3>2. FromClient' = Append(FromClient, early + (sent - early) + 1)
        BY <2>2, <3>1, FromGrows, ClientIs
      <3>3. early + (sent - early) + 1 \in 1..MaxClient
        BY <2>1, <2>2, BoundsAssumption
      <3> QED
        BY <2>1, <3>2, <3>3 DEF Up!Next, Up!Put
    <2>4. CASE stage # "relaying"
      <3>1. sent - early = 0 /\ sent' - early' = 0
        BY <2>1, <2>2, <2>4 DEF IInv, StageInv
      <3>2. FromClient = <<>> /\ FromClient' = <<>>
        BY <3>1 DEF FromClient
      <3> QED
        BY <2>1, <3>2 DEF Up!vars
    <2> QED
      BY <2>3, <2>4
  <1>2. CASE EofReceived
    <2>1. /\ clientEnd' # "open" /\ sent' = sent /\ early' = early
          /\ toUpstream' = toUpstream /\ upEnd' = upEnd
          /\ pressed' = pressed /\ upstream' = upstream
      BY <1>2 DEF EofReceived, upVars
    <2>2. FromClient' = FromClient
      BY <2>1 DEF FromClient
    <2> QED
      BY <2>1, <2>2 DEF Up!Next, Up!End
  <1>3. CASE Connected
    <2>1. stage = "connecting" /\ upstream' = "open" /\ pressed' = pressed /\ upEnd' = upEnd
          /\ toUpstream' = toUpstream /\ UNCHANGED clientVars
      BY <1>3 DEF Connected
    <2>2. upstream = "none"
      BY <2>1 DEF IInv, StageInv
    <2>3. UpBroken' = UpBroken
      BY <2>1, <2>2 DEF UpBroken
    <2> QED
      BY <2>1, <2>3, UpQuiet DEF clientVars
  <1>4. CASE Refused \/ ResumeWriting \/ TimeoutStrikes \/ ServerCloses \/ ConnectionLost
             \/ Pumped \/ PumpEnds \/ UpstreamReads
             \/ UpstreamToClient \/ WriteResumes \/ UpstreamToClientEnds
    BY <1>4, UpSame
       DEF Refused, ResumeWriting, TimeoutStrikes, ServerCloses, ConnectionLost, Pumped,
           PumpEnds, UpstreamReads, UpstreamToClient, WriteResumes, UpstreamToClientEnds
  <1>5. CASE UpstreamResets \/ CloseRuns
    <2>1. UNCHANGED <<clientVars, upVars, pressed>> /\ upstream' \in {"closing", "closed", "lost"}
      BY <1>5 DEF UpstreamResets, CloseRuns
    <2>2. FromClient' = FromClient
      BY <2>1 DEF FromClient, clientVars
    <2> QED
      BY <2>1, <2>2 DEF Up!Next, Up!Break, clientVars, upVars
  <1>6. CASE CloseCompletes
    <2>1. /\ upstream = "closing" /\ upstream' = "closed" /\ upEnd' = TRUE
          /\ UNCHANGED clientVars /\ toUpstream' = toUpstream /\ pressed' = pressed
      BY <1>6 DEF CloseCompletes
    <2>2. FromClient' = FromClient
      BY <2>1 DEF FromClient, clientVars
    <2> QED
      BY <2>1, <2>2 DEF Up!Next, Up!Break, clientVars
  <1>7. CASE HalfCloseRuns
    <2>1. /\ halfClose /\ ~(c2u = "get" /\ Waiting > 0) /\ upEnd' = (upEnd \/ upstream = "open")
          /\ UNCHANGED clientVars /\ toUpstream' = toUpstream /\ pressed' = pressed
          /\ upstream' = upstream
      BY <1>7 DEF HalfCloseRuns, HalfCloses
    <2>2. stage = "relaying" /\ clientEnd = "seen"
      BY <2>1 DEF IInv, UpInv, StageInv
    <2>3. FromClient' = FromClient /\ UpBroken' = UpBroken
      BY <2>1 DEF FromClient, clientVars, UpBroken
    <2>4. CASE upEnd \/ upstream # "open"
      <3>1. upEnd' = upEnd
        BY <2>1, <2>4, Zenon DEF IInv, FlagsOK
      <3> QED
        BY <2>1, <2>3, <3>1, UpQuiet DEF clientVars
    <2>5. CASE ~upEnd /\ upstream = "open" /\ UpBroken
      BY <2>1, <2>3, <2>5 DEF Up!Next, Up!Close, UpBroken, clientVars
    <2>6. CASE ~upEnd /\ upstream = "open" /\ ~UpBroken
      <3>1. c2u = "get" /\ Len(toUpstream) = got
        BY <2>2, <2>6 DEF IInv, UpInv, UpBroken
      <3>2. ~(sent - early - got > 0) /\ sent - early \in Nat /\ got \in 0..(sent - early)
        BY <2>1, <3>1, ClientIs DEF Waiting, IInv, PlacesOK
      <3>3. Len(toUpstream) = sent - early
        BY <3>1, <3>2
      <3>4. toUpstream \in Seq(1..MaxClient) /\ early \in Nat
        BY ClientIs DEF IInv, PlacesOK
      <3>5. \A i \in 1..(sent - early) : toUpstream[i] = early + i
        BY <3>3 DEF IInv, UpInv
      <3>6. toUpstream = From(early, sent - early)
        BY <3>2, <3>3, <3>4, <3>5, FromEqual
      <3>7. toUpstream = FromClient
        BY <3>6, ClientIs
      <3> QED
        BY <2>1, <2>2, <2>3, <2>6, <3>7 DEF Up!Next, Up!Close, UpBroken, clientVars
    <2> QED
      BY <2>4, <2>5, <2>6
  <1>8. CASE ClientToUpstream
    <2>1. /\ c2u = "get" /\ got < sent - early /\ upEnd' = upEnd /\ upstream' = upstream
          /\ UNCHANGED clientVars
      BY <1>8 DEF ClientToUpstream, Waiting, IInv, PlacesOK
    <2>2. FromClient' = FromClient
      BY <2>1 DEF FromClient, clientVars
    <2>3. CASE ~upEnd /\ Send
      <3>1. PICK pause \in BOOLEAN :
               /\ toUpstream' = Append(toUpstream, early + got + 1)
               /\ pressed' = (pressed \/ pause)
        BY <2>3 DEF Send
      <3>2. Len(toUpstream) = got /\ got \in Nat /\ got + 1 \in 1..(sent - early)
        BY <2>1, ClientIs DEF IInv, UpInv, PlacesOK
      <3>3. Len(toUpstream) < Len(FromClient) /\ FromClient[Len(toUpstream) + 1] = early + (got + 1)
        BY <2>1, <3>2, ClientIs
      <3>4. early + (got + 1) = early + got + 1
        BY <3>2, ClientIs
      <3>5. toUpstream' = Append(toUpstream, FromClient[Len(toUpstream) + 1])
        BY <3>1, <3>3, <3>4
      <3>6. UpBroken' = UpBroken \/ UpBroken' = TRUE
        BY <2>1, <3>1, Zenon DEF UpBroken
      <3> QED
        BY <2>1, <2>2, <2>3, <3>3, <3>5, <3>6 DEF Up!Next, Up!Move, UpBroken, clientVars
    <2>4. CASE SendFails
      BY <2>1, <2>4, UpQuiet DEF SendFails, UpBroken, clientVars
    <2> QED
      BY <1>8, <2>3, <2>4 DEF ClientToUpstream
  <1>9. CASE DrainReturns
    BY <1>9, UpQuiet DEF DrainReturns, UpBroken, clientVars
  <1>10. CASE UNCHANGED vars
    BY <1>10, UpSame DEF vars
  <1> QED
    BY <1>1, <1>2, <1>3, <1>4, <1>5, <1>6, <1>7, <1>8, <1>9, <1>10
       DEF Next, Connect, Client, Server, Tasks

\* What the client sends into the tunnel reaches the upstream server in order, and
\* the client's end behind the last of it, unless the server's writer was paused or
\* its connection ends.
THEOREM RefinesPipeUp == Spec => ImplementsPipeUp
  <1>1. Init => Up!Init
    <2>1. ASSUME Init PROVE FromClient = <<>>
      BY <2>1 DEF Init, FromClient
    <2> QED
      BY <2>1 DEF Init, Up!Init
  <1>2. IInv /\ [Next]_vars => [Up!Next]_Up!vars
    BY UpRefines
  <1> QED
    BY <1>1, <1>2, InitInv, StepInv, PTL DEF Spec, ImplementsPipeUp, Up!Spec

-----------------------------------------------------------------------------
(* What the pipes promise.                                                 *)

\* The end of an unbroken direction is behind everything.
DownEnded == downEnd /\ transport = "open" => upstreamEnd /\ toClient = FromUpstream
UpEnded == upEnd /\ ~UpBroken => clientEnd # "open" /\ toUpstream = FromClient

LEMMA EndedStep ==
    ASSUME IInv, [Next]_vars, DownEnded, UpEnded PROVE DownEnded' /\ UpEnded'
  <1>1. DownEnded'
    BY DownRefines DEF DownEnded, Down!Next, Down!vars, Down!Put, Down!End, Down!Move,
                       Down!Close, Down!Break
  <1>2. UpEnded'
    BY UpRefines DEF UpEnded, UpBroken, Up!Next, Up!vars, Up!Put, Up!End, Up!Move, Up!Close,
                     Up!Break
  <1> QED
    BY <1>1, <1>2

\* A front of k + 1, ..., k + n.
LEMMA FrontIs ==
    ASSUME NEW S, NEW s \in Seq(S), NEW k \in Nat, NEW n \in Nat, Len(s) <= n,
           \A i \in 1..Len(s) : s[i] = k + i
    PROVE  s = SubSeq(From(k, n), 1, Len(s))
  <1> DEFINE t == SubSeq(From(k, n), 1, Len(s))
  <1>1. From(k, n) \in Seq(Nat) /\ Len(From(k, n)) = n /\ Len(s) \in Nat
    BY FromIs
  <1>2. /\ t \in Seq(Nat) /\ Len(t) = Len(s)
        /\ \A i \in 1..Len(s) : t[i] = From(k, n)[i]
    BY <1>1
  <1>3. \A i \in 1..Len(s) : From(k, n)[i] = k + i
    BY <1>1 DEF From
  <1> HIDE DEF t
  <1>4. t = From(k, Len(s))
    <2>1. \A i \in 1..Len(s) : t[i] = k + i
      BY <1>2, <1>3
    <2> QED
      BY <1>1, <1>2, <2>1, FromEqual
  <1>5. s = From(k, Len(s))
    BY <1>1, FromEqual
  <1> QED
    BY <1>4, <1>5 DEF t

LEMMA FrontsAreWhole == IInv /\ DownEnded /\ UpEnded => Down!Whole /\ Up!Whole
  <1> SUFFICES ASSUME IInv, DownEnded, UpEnded PROVE Down!Whole /\ Up!Whole
    OBVIOUS
  <1>1. toClient = SubSeq(FromUpstream, 1, Len(toClient))
    <2>1. toClient \in Seq(1..MaxUpstream) /\ Len(toClient) <= arrived /\ arrived \in Nat
      BY BoundsAssumption DEF IInv, PlacesOK, DownInv
    <2>2. \A i \in 1..Len(toClient) : toClient[i] = 0 + i
      BY <2>1 DEF IInv, DownInv
    <2> QED
      BY <2>1, <2>2, FrontIs, UpstreamIs
  <1>2. toUpstream = SubSeq(FromClient, 1, Len(toUpstream))
    <2>1. toUpstream \in Seq(1..MaxClient) /\ Len(toUpstream) <= sent - early
      BY BoundsAssumption DEF IInv, PlacesOK, UpInv
    <2> QED
      BY <2>1, FrontIs, ClientIs DEF IInv, UpInv
  <1> QED
    BY <1>1, <1>2 DEF Down!Whole, Up!Whole, DownEnded, UpEnded, UpBroken

\* In both directions what comes out is a front of what went in, and all of it when
\* the end comes out unbroken: no segment is lost, repeated or moved.
THEOREM TunnelsAreWhole == Spec => [](Down!Whole /\ Up!Whole)
  <1>1. Init => DownEnded /\ UpEnded
    BY DEF Init, DownEnded, UpEnded
  <1> QED
    BY <1>1, InitInv, StepInv, EndedStep, FrontsAreWhole, PTL DEF Spec

-----------------------------------------------------------------------------
(* A tunnel at rest.                                                       *)

\* What the tasks owe: an end that was taken is announced, a half close that was seen is
\* on its way, the upstream connection of a client that is gone is being closed.
RestInv ==
    /\ u2c = "done" /\ transport = "open" => downEnd
    /\ clientEnd = "seen" => halfClose \/ upEnd \/ upstream # "open"
    /\ transport = "lost" =>
           stage # "connecting" /\ (closer \/ upstream \in {"none", "closing", "closed"})
    /\ stage = "relaying" => u2c # "none"
    /\ stage # "relaying" => arrived = 0 /\ ~upstreamEnd /\ clientEnd # "seen"

LEMMA RestStep ==
    ASSUME IInv, RestInv, [Next]_vars PROVE RestInv'
  <1>1. CASE Connected
    BY <1>1 DEF Connected, IInv, StageInv, RestInv, clientVars, upVars, queueVars, downVars
  <1>2. CASE Refused
    BY <1>2 DEF Refused, IInv, StageInv, RestInv, clientVars, upVars, queueVars, downVars
  <1>3. CASE DataReceived
    BY <1>3 DEF DataReceived, RestInv, clientVars, upVars, queueVars, downVars
  <1>4. CASE ResumeWriting
    BY <1>4 DEF ResumeWriting, RestInv, clientVars, upVars, queueVars, downVars
  <1>5. CASE UpstreamReads
    BY <1>5 DEF UpstreamReads, RestInv, clientVars, upVars, queueVars, downVars
  <1>6. CASE TimeoutStrikes
    BY <1>6 DEF TimeoutStrikes, IInv, PlacesOK, RestInv, clientVars, upVars, queueVars, downVars
  <1>7. CASE ServerCloses
    BY <1>7 DEF ServerCloses, RestInv, clientVars, upVars, queueVars, downVars
  <1>8. CASE EofReceived
    BY <1>8 DEF EofReceived, RestInv, clientVars, upVars, queueVars, downVars
  <1>9. CASE ConnectionLost
    BY <1>9 DEF ConnectionLost, IInv, PlacesOK, StageInv, RestInv, clientVars, upVars, queueVars, downVars
  <1>10. CASE Pumped
    BY <1>10 DEF Pumped, IInv, StageInv, RestInv, clientVars, upVars, queueVars, downVars
  <1>11. CASE PumpEnds
    BY <1>11 DEF PumpEnds, IInv, StageInv, RestInv, clientVars, upVars, queueVars, downVars
  <1>12. CASE UpstreamResets
    BY <1>12 DEF UpstreamResets, IInv, StageInv, RestInv, clientVars, upVars, queueVars, downVars
  <1>13. CASE HalfCloseRuns
    BY <1>13 DEF HalfCloseRuns, HalfCloses, RestInv, clientVars, upVars, queueVars, downVars
  <1>14. CASE CloseRuns
    BY <1>14 DEF CloseRuns, IInv, PlacesOK, RestInv, clientVars, upVars, queueVars, downVars
  <1>15. CASE CloseCompletes
    BY <1>15 DEF CloseCompletes, RestInv, clientVars, upVars, queueVars, downVars
  <1>16. CASE ClientToUpstream
    BY <1>16 DEF ClientToUpstream, RestInv, clientVars, upVars, queueVars, downVars
  <1>17. CASE DrainReturns
    BY <1>17 DEF DrainReturns, RestInv, clientVars, upVars, queueVars, downVars
  <1>18. CASE UpstreamToClient
    BY <1>18 DEF UpstreamToClient, WriteChunk, RestInv, clientVars, upVars, queueVars, downVars
  <1>19. CASE WriteResumes
    BY <1>19 DEF WriteResumes, WriteChunk, RestInv, clientVars, upVars, queueVars, downVars
  <1>20. CASE UpstreamToClientEnds
    BY <1>20 DEF UpstreamToClientEnds, RestInv, clientVars, upVars, queueVars, downVars
  <1>21. CASE UNCHANGED vars
    BY <1>21 DEF vars, RestInv, clientVars, upVars, queueVars, downVars
  <1> QED
    BY <1>1, <1>2, <1>3, <1>4, <1>5, <1>6, <1>7, <1>8, <1>9, <1>10, <1>11, <1>12, <1>13, <1>14, <1>15, <1>16, <1>17, <1>18, <1>19, <1>20, <1>21
       DEF Next, Connect, Client, Server, Tasks

LEMMA RestIsComplete ==
    ASSUME IInv, RestInv, DownEnded PROVE NothingHeldBack
  <1>1. ASSUME ~ReadyUp, ~upPaused, upstream = "open", ~upEnd
        PROVE  Len(toUpstream) = sent - early /\ clientEnd # "seen"
    <2>1. c2u = "get" /\ Len(toUpstream) = got
      BY <1>1 DEF ReadyUp, IInv, UpInv, StageInv
    <2>2. ~(sent - early - got > 0) /\ sent - early \in Nat /\ got \in 0..(sent - early)
      BY <1>1, <2>1, ClientIs DEF ReadyUp, Waiting, IInv, PlacesOK
    <2> QED
      BY <1>1, <2>1, <2>2 DEF ReadyUp, RestInv
  <1>2. ASSUME ~ReadyDown, ~paused, transport = "open"
        PROVE  Len(toClient) = arrived /\ (upstreamEnd => downEnd)
    <2>1. /\ arrived \in Nat /\ taken \in 0..arrived /\ Len(toClient) \in Nat
          /\ u2c \in {"none", "get", "blocked", "done"} /\ Len(toClient) <= taken
      BY BoundsAssumption DEF IInv, PlacesOK, DownInv
    <2>2. CASE u2c = "none"
      BY <2>1, <2>2 DEF RestInv
    <2>3. CASE u2c = "get"
      BY <1>2, <2>1, <2>3 DEF ReadyDown, IInv, DownInv
    <2>4. CASE u2c = "blocked"
      BY <1>2, <2>4 DEF ReadyDown
    <2>5. CASE u2c = "done"
      <3>1. downEnd /\ toClient = FromUpstream
        BY <1>2, <2>5 DEF RestInv, DownEnded
      <3> QED
        BY <3>1, UpstreamIs
    <2> QED
      BY <2>1, <2>2, <2>3, <2>4, <2>5
  <1>3. ASSUME ~ReadyToClose, ~upPaused, transport = "lost"
        PROVE  upstream \in {"none", "closed"}
    BY <1>3 DEF ReadyToClose, RestInv
  <1> QED
    BY <1>1, <1>2, <1>3 DEF NothingHeldBack

\* Whatever a tunnel's sides did and in whatever order its tasks ran: when none is left
\* to run nothing is held back, in either direction, and nothing is left open for a
\* client that has gone.
THEOREM RestHoldsNothing == Spec => []NothingHeldBack
  <1>1. Init => RestInv /\ DownEnded /\ UpEnded
    BY DEF Init, RestInv, DownEnded, UpEnded
  <1> QED
    BY <1>1, InitInv, StepInv, EndedStep, RestStep, RestIsComplete, PTL DEF Spec

LEMMA WorkIs ==
    IInv => /\ UpWork \in Nat /\ DownWork \in Nat /\ CloseWork \in Nat /\ Work \in Nat
            /\ Waiting \in Nat /\ arrived - taken \in Nat
  <1> SUFFICES ASSUME IInv
               PROVE  /\ UpWork \in Nat /\ DownWork \in Nat /\ CloseWork \in Nat /\ Work \in Nat
                      /\ Waiting \in Nat /\ arrived - taken \in Nat
    OBVIOUS
  <1>1. Waiting \in Nat /\ arrived - taken \in Nat
    BY ClientIs, BoundsAssumption DEF Waiting, IInv, PlacesOK
  <1>2. UpWork \in Nat
    BY <1>1 DEF UpWork, One
  <1>3. DownWork \in Nat
    BY <1>1 DEF DownWork, One
  <1>4. CloseWork \in Nat
    BY DEF CloseWork, One
  <1> QED
    BY <1>1, <1>2, <1>3, <1>4 DEF Work

LEMMA NextWorkIs ==
    (IInv => UpWork \in Nat /\ DownWork \in Nat /\ CloseWork \in Nat)'
  <1>1. IInv => UpWork \in Nat /\ DownWork \in Nat /\ CloseWork \in Nat
    BY WorkIs
  <1> QED
    BY <1>1, PTL

LEMMA UpWorkKept ==
    ASSUME UNCHANGED <<clientVars, got, c2u, halfClose>> PROVE UpWork' = UpWork
  BY DEF UpWork, Waiting, clientVars

LEMMA DownWorkKept ==
    ASSUME UNCHANGED <<arrived, taken, u2c>> PROVE DownWork' = DownWork
  BY DEF DownWork

LEMMA CloseWorkKept ==
    ASSUME UNCHANGED <<closer, upstream>> PROVE CloseWork' = CloseWork
  BY DEF CloseWork

\* Upwards a task's step takes a chunk, leaves drain or announces the end.
LEMMA UpWorkFalls ==
    ASSUME IInv, HalfCloseRuns \/ ClientToUpstream \/ DrainReturns PROVE UpWork' < UpWork
  <1>0. Waiting \in Nat
    BY WorkIs
  <1>1. CASE HalfCloseRuns
    <2>1. /\ halfClose /\ halfClose' = FALSE /\ Waiting' = Waiting /\ c2u' = c2u
      BY <1>1 DEF HalfCloseRuns, Waiting, clientVars
    <2>2. One(halfClose) = 1 /\ One(halfClose)' = 0
      BY <2>1 DEF One
    <2> DEFINE d == One(c2u = "drain")
               e == One(c2u # "done")
    <2>3. d \in Nat /\ e \in Nat /\ d' = d /\ e' = e
      BY <2>1 DEF One
    <2>4. UpWork = 2 * Waiting + d + e + One(halfClose)
      BY DEF UpWork
    <2>5. UpWork' = 2 * Waiting' + d' + e' + One(halfClose)'
      BY DEF UpWork
    <2> HIDE DEF d, e
    <2> QED
      BY <1>0, <2>1, <2>2, <2>3, <2>4, <2>5
  <1>2. CASE ClientToUpstream
    <2>1. /\ c2u = "get" /\ c2u' \in {"get", "drain", "done"} /\ halfClose' = halfClose
          /\ got' = got + 1 /\ sent' = sent /\ early' = early
      BY <1>2 DEF ClientToUpstream, Send, SendFails, clientVars
    <2>2. Waiting' = Waiting - 1
      BY <2>1, BoundsAssumption DEF Waiting, IInv, PlacesOK
    <2>3. /\ One(c2u = "drain") = 0 /\ One(c2u # "done") = 1
          /\ One(c2u = "drain")' + One(c2u # "done")' \in 0..2
      BY <2>1 DEF One
    <2>4. One(halfClose)' = One(halfClose) /\ One(halfClose) \in Nat
      BY <2>1 DEF One
    <2>5. One(c2u = "drain")' \in Nat /\ One(c2u # "done")' \in Nat
      BY DEF One
    <2> QED
      BY <1>0, <2>2, <2>3, <2>4, <2>5 DEF UpWork
  <1>3. CASE DrainReturns
    <2>1. /\ c2u = "drain" /\ c2u' \in {"get", "done"} /\ halfClose' = halfClose
          /\ Waiting' = Waiting
      BY <1>3 DEF DrainReturns, Waiting, clientVars
    <2>2. /\ One(c2u = "drain") = 1 /\ One(c2u # "done") = 1
          /\ One(c2u = "drain")' = 0 /\ One(c2u # "done")' \in 0..1
      BY <2>1 DEF One
    <2>3. One(halfClose)' = One(halfClose) /\ One(halfClose) \in Nat
      BY <2>1 DEF One
    <2> QED
      BY <1>0, <2>1, <2>2, <2>3 DEF UpWork
  <1> QED
    BY <1>1, <1>2, <1>3

\* Downwards it takes a chunk, writes the one it holds or takes the end.
LEMMA DownWorkFalls ==
    ASSUME IInv, UpstreamToClient \/ WriteResumes \/ UpstreamToClientEnds
    PROVE  DownWork' < DownWork
  <1>0. arrived \in Nat /\ taken \in Nat /\ arrived - taken \in Nat
    BY WorkIs, BoundsAssumption DEF IInv, PlacesOK
  <1>1. CASE UpstreamToClient
    <2>1. /\ u2c = "get" /\ u2c' \in {"get", "blocked", "done"} /\ arrived' = arrived
          /\ taken' = taken + 1
      BY <1>1 DEF UpstreamToClient, WriteChunk, queueVars
    <2>2. arrived' - taken' = (arrived - taken) - 1
      BY <1>0, <2>1
    <2>3. /\ One(u2c = "blocked") = 0 /\ One(u2c # "done") = 1
          /\ One(u2c = "blocked")' \in 0..1 /\ One(u2c # "done")' \in 0..1
      BY <2>1 DEF One
    <2> QED
      BY <1>0, <2>2, <2>3 DEF DownWork
  <1>2. CASE WriteResumes
    <2>1. /\ u2c = "blocked" /\ u2c' \in {"get", "done"} /\ arrived' = arrived
          /\ taken' = taken
      BY <1>2 DEF WriteResumes, WriteChunk, queueVars
    <2>2. /\ One(u2c = "blocked") = 1 /\ One(u2c # "done") = 1
          /\ One(u2c = "blocked")' = 0 /\ One(u2c # "done")' \in 0..1
      BY <2>1 DEF One
    <2> QED
      BY <1>0, <2>1, <2>2 DEF DownWork
  <1>3. CASE UpstreamToClientEnds
    <2>1. /\ u2c = "get" /\ u2c' = "done" /\ arrived' = arrived /\ taken' = taken
      BY <1>3 DEF UpstreamToClientEnds, queueVars
    <2>2. /\ One(u2c = "blocked") = 0 /\ One(u2c # "done") = 1
          /\ One(u2c = "blocked")' = 0 /\ One(u2c # "done")' = 0
      BY <2>1 DEF One
    <2> QED
      BY <1>0, <2>1, <2>2 DEF DownWork
  <1> QED
    BY <1>1, <1>2, <1>3

LEMMA CloseWorkFalls ==
    ASSUME CloseRuns \/ CloseCompletes PROVE CloseWork' < CloseWork
  <1>1. CASE CloseRuns
    <2>1. closer /\ closer' = FALSE
      BY <1>1 DEF CloseRuns
    <2>2. /\ One(closer) = 1 /\ One(closer)' = 0
          /\ One(upstream = "closing") \in 0..1 /\ One(upstream = "closing")' \in 0..1
      BY <2>1 DEF One
    <2> QED
      BY <2>2 DEF CloseWork
  <1>2. CASE CloseCompletes
    <2>1. upstream = "closing" /\ upstream' = "closed" /\ closer' = closer
      BY <1>2 DEF CloseCompletes
    <2>2. /\ One(upstream = "closing") = 1 /\ One(upstream = "closing")' = 0
          /\ One(closer)' = One(closer) /\ One(closer) \in Nat
      BY <2>1 DEF One
    <2> QED
      BY <2>2 DEF CloseWork
  <1> QED
    BY <1>1, <1>2

LEMMA RelayingWorks ==
    ASSUME IInv, IInv'
    PROVE  /\ Relaying => Work' < Work
           /\ ResumeWriting \/ UpstreamReads => Work' = Work
  <1>1. /\ UpWork \in Nat /\ DownWork \in Nat /\ CloseWork \in Nat
        /\ UpWork' \in Nat /\ DownWork' \in Nat /\ CloseWork' \in Nat
    BY WorkIs, NextWorkIs
  <1>2. PICK a, b, c, d, e, f \in Nat :
            /\ a = UpWork /\ b = DownWork /\ c = CloseWork
            /\ d = UpWork' /\ e = DownWork' /\ f = CloseWork'
    BY <1>1
  <1>3. Work = a + b + c /\ Work' = d + e + f
    BY <1>2 DEF Work
  <1>4. ASSUME HalfCloseRuns \/ ClientToUpstream \/ DrainReturns PROVE Work' < Work
    <2>1. UNCHANGED <<arrived, taken, u2c, closer, upstream>>
      BY <1>4 DEF HalfCloseRuns, ClientToUpstream, DrainReturns, queueVars, downVars
    <2>2. UpWork' < UpWork /\ DownWork' <= DownWork /\ CloseWork' <= CloseWork
      BY <1>4, <2>1, <1>1, UpWorkFalls, DownWorkKept, CloseWorkKept
    <2>3. d < a /\ e <= b /\ f <= c
      BY <1>2, <2>2
    <2> QED
      BY <1>3, <2>3
  <1>5. ASSUME UpstreamToClient \/ WriteResumes \/ UpstreamToClientEnds PROVE Work' < Work
    <2>1. UNCHANGED <<clientVars, got, c2u, halfClose, closer, upstream>>
      BY <1>5 DEF UpstreamToClient, WriteResumes, UpstreamToClientEnds, upVars
    <2>2. DownWork' < DownWork /\ UpWork' <= UpWork /\ CloseWork' <= CloseWork
      BY <1>5, <2>1, <1>1, DownWorkFalls, UpWorkKept, CloseWorkKept
    <2>3. d <= a /\ e < b /\ f <= c
      BY <1>2, <2>2
    <2> QED
      BY <1>3, <2>3
  <1>6. ASSUME CloseRuns \/ CloseCompletes PROVE Work' < Work
    <2>1. UNCHANGED <<clientVars, got, c2u, halfClose, arrived, taken, u2c>>
      BY <1>6 DEF CloseRuns, CloseCompletes, upVars, queueVars, downVars
    <2>2. CloseWork' < CloseWork /\ UpWork' <= UpWork /\ DownWork' <= DownWork
      BY <1>6, <2>1, <1>1, CloseWorkFalls, UpWorkKept, DownWorkKept
    <2>3. d <= a /\ e <= b /\ f < c
      BY <1>2, <2>2
    <2> QED
      BY <1>3, <2>3
  <1>7. ASSUME ResumeWriting \/ UpstreamReads
        PROVE  Work' = Work
    <2>1. UNCHANGED <<clientVars, got, c2u, halfClose, arrived, taken, u2c, closer, upstream>>
      BY <1>7 DEF ResumeWriting, UpstreamReads, upVars, queueVars, downVars
    <2> QED
      BY <2>1, UpWorkKept, DownWorkKept, CloseWorkKept DEF Work
  <1> QED
    BY <1>4, <1>5, <1>6, <1>7 DEF Relaying

\* The work the tasks of a tunnel have is a natural number that each of their steps
\* lowers: left alone they come to rest after at most as many.
THEOREM RelaysComeToRest == Spec => [](Work \in Nat) /\ TasksComeToRest
  <1>1. IInv /\ IInv' =>
            [/\ Relaying => Work' < Work
             /\ ResumeWriting \/ UpstreamReads => Work' = Work]_vars
    BY RelayingWorks
  <1>2. IInv => Work \in Nat
    BY WorkIs
  <1> QED
    BY <1>1, <1>2, InitInv, StepInv, PTL DEF Spec, TasksComeToRest

=============================================================================

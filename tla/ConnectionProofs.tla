-------------------------- MODULE ConnectionProofs --------------------------
(***************************************************************************)
(* What the timers and the authentication exchange of a connection         *)
(* guarantee, for all keep-alive configurations, timeouts and bounds.      *)
(*                                                                         *)
(* A property that compares a timer with the time that really went by is   *)
(* not inductive: the invariants below add that what is left of a timer    *)
(* and the age of what it watches make up the timeout.                     *)
(***************************************************************************)
EXTENDS Connection, SequenceTheorems, TLAPS

USE DEF environment, handshakeVars, pingVars

Down == conn \in {"idle", "ping_timeout"}

\* Types, and what a connection that is down leaves behind: nothing (Ended).
ConnTypeOK ==
    /\ conn \in {"idle", "connecting", "challenged", "up", "ping_timeout"}
    /\ driver \in {"flush", "parked", "select"}
    /\ challenges \in Nat
    /\ response_timer \in Nat \cup {NoTimer}
    /\ waited \in Nat
    /\ cfg_keep_alive \in [ping_after : Nat, response_timeout : Nat]
    /\ ping_after \in Nat
    /\ idle \in Nat
    /\ pingresp_timer \in Nat \cup {NoTimer}
    /\ pingreq \in Seq(Nat)

\* The server has named no method but that of CONNECT.
ExchangeInv ==
    /\ heard \subseteq {method}
    /\ Down => heard = {}
    /\ MethodConfirmed

\* The response timer runs from the moment the request is flushed.
WaitInv ==
    /\ Down => waited = 0
    /\ ~blocks =>
         /\ waited <= ConnectTimeout
         /\ conn = "connecting" => driver \in {"flush", "select"}
         /\ (conn = "connecting" /\ driver = "flush") => waited = 0
         /\ AwaitsResponse => response_timer >= 0 /\ waited + response_timer = ConnectTimeout

\* PINGREQs and their timer exist only while the loop runs; a timer that runs has
\* been started by the last PINGREQ or by a later one.
PingInv ==
    /\ (conn # "up" \/ driver = "parked") => pingreq = <<>> /\ pingresp_timer = NoTimer
    /\ pingresp_timer # NoTimer =>
         /\ pingreq # <<>>
         /\ pingreq[Len(pingreq)] + pingresp_timer >= ResponseTimeout

\* Only the keep-alive sends PINGREQs, and writes do not take time.
Quiet == ~manual /\ ~blocks

\* With an interval longer than the response timeout, there is at most one PINGREQ,
\* the timer is that of this PINGREQ, and no other is due before it.
SilentInv ==
    (Quiet /\ conn = "up" /\ ping_after > ResponseTimeout
        /\ ResponseTimeout # Infinite /\ pingreq # <<>>) =>
        /\ Len(pingreq) = 1
        /\ pingresp_timer >= 0
        /\ pingreq[1] + pingresp_timer = ResponseTimeout
        /\ idle <= pingreq[1]

ConnInv == ConnTypeOK /\ ExchangeInv /\ WaitInv /\ PingInv /\ SilentInv
-----------------------------------------------------------------------------
\* The initial state.
LEMMA ConnInit == Init => ConnInv
  BY ConnectionAssumption
     DEF Init, ConnInv, ConnTypeOK, ExchangeInv, MethodConfirmed, WaitInv, PingInv,
         SilentInv, Down, AwaitsResponse, InfiniteConfig, Infinite, NoTimer

\* The ages of PINGREQs stay natural numbers as they grow.
LEMMA AgesType ==
    ASSUME NEW q \in Seq(Nat), NEW bound \in Nat
    PROVE  [i \in DOMAIN q |-> AtMost(q[i] + 1, bound)] \in Seq(Nat)
<1>1. \A n \in Nat : AtMost(n + 1, bound) \in Nat
  BY DEF AtMost
<1>2. DOMAIN q = 1..Len(q) /\ Len(q) \in Nat /\ \A i \in 1..Len(q) : q[i] \in Nat
  OBVIOUS
<1>3. [i \in DOMAIN q |-> AtMost(q[i] + 1, bound)] \in [1..Len(q) -> Nat]
  BY <1>1, <1>2
<1> QED
  BY <1>2, <1>3, SeqDef

\* A sequence of one element has nothing behind its head.
LEMMA TailOfOne ==
    ASSUME NEW q \in Seq(Nat), Len(q) = 1
    PROVE  Tail(q) = <<>>
<1>1. q # <<>>
  <2>1. Len(<<>>) # 1
    OBVIOUS
  <2> QED
    BY Zenon, <2>1
<1>2. Tail(q) \in Seq(Nat) /\ Len(Tail(q)) = 0
  BY <1>1, HeadTailProperties
<1> QED
  BY <1>2, EmptySeq

\* Application and transport do not change their ways.
LEMMA EnvironmentStays == [Next]_vars => manual' = manual /\ blocks' = blocks
<1> SUFFICES ASSUME [Next]_vars
             PROVE  manual' = manual /\ blocks' = blocks
  OBVIOUS
<1>1. CASE Handshake
  BY Zenon, <1>1 DEF Handshake, connect, continue_auth, request_flushed,
     receive_connack, receive_auth, connect_fails, connect_timeout, Ended
<1>2. CASE run_until_disconnect \/ send_ping \/ send_keep_alive \/ send_packet
  BY Zenon, <1>2 DEF run_until_disconnect, send_ping, send_keep_alive, SendPing,
     send_packet
<1>3. CASE flushed \/ incoming_pingresp \/ ping_timeout \/ disconnected \/ Tick
  BY Zenon, <1>3 DEF flushed, incoming_pingresp, ping_timeout, disconnected, Ended, Tick
<1>4. CASE UNCHANGED vars
  BY Zenon, <1>4 DEF vars
<1> QED
  BY Zenon, <1>1, <1>2, <1>3, <1>4 DEF Next

\* The type invariant.
LEMMA ConnTypeStep == ConnTypeOK /\ [Next]_vars => ConnTypeOK'
<1> SUFFICES ASSUME ConnTypeOK, [Next]_vars
             PROVE  ConnTypeOK'
  OBVIOUS
<1> USE ConnectionAssumption DEF ConnTypeOK, NoTimer
<1>1. ASSUME NEW m \in Methods \cup {NoMethod}, NEW k \in ClientKeepAlives,
             connect(m, k)
      PROVE  ConnTypeOK'
  BY <1>1 DEF connect, InfiniteConfig, Infinite
<1>2. CASE continue_auth
  BY <1>2 DEF continue_auth
<1>3. CASE request_flushed
  BY <1>3 DEF request_flushed, ArmedResponse
<1>4. ASSUME NEW m \in Methods \cup {NoMethod}, NEW s \in ServerKeepAlives,
             receive_connack(m, s)
      PROVE  ConnTypeOK'
  BY <1>4 DEF receive_connack, IntervalInEffect
<1>5. ASSUME NEW m \in Methods \cup {NoMethod}, receive_auth(m)
      PROVE  ConnTypeOK'
  BY <1>5 DEF receive_auth
<1>6. CASE Ended("idle") \/ Ended("ping_timeout")
  <2>1. /\ InfiniteConfig \in [ping_after : Nat, response_timeout : Nat]
        /\ Infinite \in Nat
    BY DEF InfiniteConfig, Infinite
  <2>2. /\ conn' \in {"idle", "ping_timeout"}
        /\ driver' = "parked"
        /\ challenges' = 0 /\ waited' = 0 /\ idle' = 0
        /\ response_timer' = NoTimer /\ pingresp_timer' = NoTimer
        /\ cfg_keep_alive' = InfiniteConfig /\ ping_after' = Infinite
        /\ pingreq' = <<>>
    BY <1>6 DEF Ended
  <2> QED
    BY <2>1, <2>2
<1>7. CASE run_until_disconnect \/ flushed
  BY <1>7 DEF run_until_disconnect, flushed
<1>8. CASE send_ping \/ send_keep_alive
  <2>1. SendPing
    BY Zenon, <1>8 DEF send_ping, send_keep_alive
  <2> QED
    BY <2>1 DEF SendPing, ArmedByPing, ResponseTimeout
<1>9. CASE send_packet
  BY <1>9 DEF send_packet
<1>10. CASE incoming_pingresp
  BY <1>10 DEF incoming_pingresp
<1>11. CASE Tick
  <2>1. AgeBound \in Nat /\ WaitBound \in Nat
    BY DEF AgeBound, WaitBound
  <2>2. \A n, b \in Nat : AtMost(n + 1, b) \in Nat
    BY DEF AtMost
  <2>3. pingreq' \in Seq(Nat)
    BY <1>11, <2>1, AgesType DEF Tick
  <2>4. /\ response_timer' \in Nat \cup {NoTimer}
        /\ pingresp_timer' \in Nat \cup {NoTimer}
    BY <1>11 DEF Tick, CountDown
  <2>5. waited' \in Nat /\ idle' \in Nat
    BY <1>11, <2>1, <2>2 DEF Tick
  <2> QED
    BY <1>11, <2>3, <2>4, <2>5 DEF Tick
<1>12. CASE UNCHANGED vars
  BY <1>12 DEF vars
<1> QED
  BY Zenon, <1>1, <1>2, <1>3, <1>4, <1>5, <1>6, <1>7, <1>8, <1>9, <1>10, <1>11,
     <1>12 DEF Next, Handshake,
     connect_fails, connect_timeout, ping_timeout, disconnected

\* What the server confirms is the method of CONNECT: a packet with another is
\* refused, and a new attempt starts with nothing heard.
LEMMA ExchangeStep == ExchangeInv /\ [Next]_vars => ExchangeInv'
<1> SUFFICES ASSUME ExchangeInv, [Next]_vars
             PROVE  ExchangeInv'
  OBVIOUS
<1> USE DEF ExchangeInv, MethodConfirmed, Down
<1>1. ASSUME NEW m \in Methods \cup {NoMethod}, NEW k \in ClientKeepAlives,
             connect(m, k)
      PROVE  ExchangeInv'
  BY <1>1 DEF connect
<1>2. CASE continue_auth
  BY <1>2 DEF continue_auth
<1>3. CASE request_flushed
  BY <1>3 DEF request_flushed
<1>4. ASSUME NEW m \in Methods \cup {NoMethod}, NEW s \in ServerKeepAlives,
             receive_connack(m, s)
      PROVE  ExchangeInv'
  BY <1>4 DEF receive_connack, AwaitsResponse, MethodMatches
<1>5. ASSUME NEW m \in Methods \cup {NoMethod}, receive_auth(m)
      PROVE  ExchangeInv'
  BY <1>5 DEF receive_auth, AwaitsResponse, MethodMatches
<1>6. CASE Ended("idle") \/ Ended("ping_timeout")
  BY <1>6 DEF Ended
<1>7. CASE run_until_disconnect \/ flushed
  BY <1>7 DEF run_until_disconnect, flushed
<1>8. CASE send_ping \/ send_keep_alive
  BY <1>8 DEF send_ping, send_keep_alive, SendPing, Waiting
<1>9. CASE send_packet
  BY <1>9 DEF send_packet, Waiting
<1>10. CASE incoming_pingresp
  BY <1>10 DEF incoming_pingresp, Waiting
<1>11. CASE Tick
  BY <1>11 DEF Tick
<1>12. CASE UNCHANGED vars
  BY <1>12 DEF vars
<1> QED
  BY Zenon, <1>1, <1>2, <1>3, <1>4, <1>5, <1>6, <1>7, <1>8, <1>9, <1>10, <1>11,
     <1>12 DEF Next, Handshake,
     connect_fails, connect_timeout, ping_timeout, disconnected

\* Waiting uses up the response timer, and waiting is all that takes time.
LEMMA WaitStep == ConnTypeOK /\ WaitInv /\ [Next]_vars => WaitInv'
<1> SUFFICES ASSUME ConnTypeOK, WaitInv, [Next]_vars
             PROVE  WaitInv'
  OBVIOUS
<1> USE ConnectionAssumption DEF WaitInv, ConnTypeOK, Down, AwaitsResponse, NoTimer
<1>1. ASSUME NEW m \in Methods \cup {NoMethod}, NEW k \in ClientKeepAlives,
             connect(m, k)
      PROVE  WaitInv'
  BY <1>1 DEF connect
<1>2. CASE continue_auth
  BY <1>2 DEF continue_auth
<1>3. CASE request_flushed
  BY <1>3 DEF request_flushed, ArmedResponse
<1>4. ASSUME NEW m \in Methods \cup {NoMethod}, NEW s \in ServerKeepAlives,
             receive_connack(m, s)
      PROVE  WaitInv'
  BY <1>4 DEF receive_connack
<1>5. ASSUME NEW m \in Methods \cup {NoMethod}, receive_auth(m)
      PROVE  WaitInv'
  BY <1>5 DEF receive_auth
<1>6. CASE Ended("idle") \/ Ended("ping_timeout")
  BY <1>6 DEF Ended
<1>7. CASE run_until_disconnect \/ flushed
  BY <1>7 DEF run_until_disconnect, flushed
<1>8. CASE send_ping \/ send_keep_alive
  BY <1>8 DEF send_ping, send_keep_alive, SendPing, Waiting
<1>9. CASE send_packet
  BY <1>9 DEF send_packet, Waiting
<1>10. CASE incoming_pingresp
  BY <1>10 DEF incoming_pingresp, Waiting
<1>11. CASE Tick
  BY <1>11 DEF Tick, CountDown, AtMost, WaitBound, MayWait, Waiting
<1>12. CASE UNCHANGED vars
  BY <1>12 DEF vars
<1> QED
  BY Zenon, <1>1, <1>2, <1>3, <1>4, <1>5, <1>6, <1>7, <1>8, <1>9, <1>10, <1>11,
     <1>12 DEF Next, Handshake,
     connect_fails, connect_timeout, ping_timeout, disconnected

\* A PINGREQ restarts the timer; a PINGRESP stops it.
LEMMA PingStep == ConnTypeOK /\ PingInv /\ [Next]_vars => PingInv'
<1> SUFFICES ASSUME ConnTypeOK, PingInv, [Next]_vars
             PROVE  PingInv'
  OBVIOUS
<1> USE DEF PingInv, ConnTypeOK, NoTimer, ResponseTimeout
<1>1. ASSUME NEW m \in Methods \cup {NoMethod}, NEW k \in ClientKeepAlives,
             connect(m, k)
      PROVE  PingInv'
  BY <1>1 DEF connect
<1>2. CASE continue_auth
  BY <1>2 DEF continue_auth
<1>3. CASE request_flushed
  BY <1>3 DEF request_flushed
<1>4. ASSUME NEW m \in Methods \cup {NoMethod}, NEW s \in ServerKeepAlives,
             receive_connack(m, s)
      PROVE  PingInv'
  BY <1>4 DEF receive_connack, AwaitsResponse
<1>5. ASSUME NEW m \in Methods \cup {NoMethod}, receive_auth(m)
      PROVE  PingInv'
  BY <1>5 DEF receive_auth, AwaitsResponse
<1>6. CASE Ended("idle") \/ Ended("ping_timeout")
  BY <1>6 DEF Ended
<1>7. CASE run_until_disconnect \/ flushed
  BY <1>7 DEF run_until_disconnect, flushed
<1>8. CASE send_ping \/ send_keep_alive
  BY <1>8 DEF send_ping, send_keep_alive, SendPing, Waiting, ArmedByPing, Infinite
<1>9. CASE send_packet
  BY <1>9 DEF send_packet, Waiting
<1>10. CASE incoming_pingresp
  BY <1>10 DEF incoming_pingresp, Waiting
<1>11. CASE Tick
  BY <1>11 DEF Tick, CountDown, AtMost, AgeBound
<1>12. CASE UNCHANGED vars
  BY <1>12 DEF vars
<1> QED
  BY Zenon, <1>1, <1>2, <1>3, <1>4, <1>5, <1>6, <1>7, <1>8, <1>9, <1>10, <1>11,
     <1>12 DEF Next, Handshake,
     connect_fails, connect_timeout, ping_timeout, disconnected

\* While the PINGREQ is in flight no other comes due, and time passes only with
\* its timer.
LEMMA SilentStep == ConnTypeOK /\ PingInv /\ SilentInv /\ [Next]_vars => SilentInv'
<1> SUFFICES ASSUME ConnTypeOK, PingInv, SilentInv, [Next]_vars
             PROVE  SilentInv'
  OBVIOUS
<1>q. Quiet' <=> Quiet
  <2>1. manual' = manual /\ blocks' = blocks
    BY Zenon, EnvironmentStays
  <2> QED
    BY Zenon, <2>1 DEF Quiet
<1> SUFFICES ASSUME Quiet
             PROVE  SilentInv'
  BY <1>q DEF SilentInv
<1>0. Quiet
  OBVIOUS
<1> USE DEF SilentInv, PingInv, ConnTypeOK, NoTimer, ResponseTimeout, Infinite
<1>1. ASSUME NEW m \in Methods \cup {NoMethod}, NEW k \in ClientKeepAlives,
             connect(m, k)
      PROVE  SilentInv'
  BY <1>1 DEF connect
<1>2. CASE continue_auth \/ request_flushed
  BY <1>2 DEF continue_auth, request_flushed
<1>3. ASSUME NEW m \in Methods \cup {NoMethod}, NEW s \in ServerKeepAlives,
             receive_connack(m, s)
      PROVE  SilentInv'
  BY <1>3 DEF receive_connack, AwaitsResponse
<1>4. ASSUME NEW m \in Methods \cup {NoMethod}, receive_auth(m)
      PROVE  SilentInv'
  BY <1>4 DEF receive_auth
<1>5. CASE Ended("idle") \/ Ended("ping_timeout")
  BY <1>5 DEF Ended
<1>6. CASE run_until_disconnect \/ flushed
  BY <1>0, <1>6 DEF run_until_disconnect, flushed
<1>7. CASE send_ping \/ send_keep_alive
  <2>1. Waiting /\ KeepAliveDue /\ SendPing
    BY Zenon, <1>0, <1>7 DEF send_ping, send_keep_alive, Quiet
  <2> SUFFICES ASSUME ping_after > ResponseTimeout, ResponseTimeout # Infinite
               PROVE  SilentInv'
    BY <2>1 DEF SendPing
  <2>2. pingreq = <<>>
    BY <1>0, <2>1 DEF Waiting, KeepAliveDue
  <2>3. pingreq' = <<0>> /\ pingresp_timer' = ResponseTimeout /\ idle' = 0
    BY <2>1, <2>2 DEF SendPing, ArmedByPing
  <2> QED
    BY <2>1, <2>3 DEF SendPing
<1>8. CASE send_packet
  BY <1>0, <1>8 DEF send_packet, Waiting
<1>9. CASE incoming_pingresp
  <2> SUFFICES ASSUME ping_after > ResponseTimeout, ResponseTimeout # Infinite
               PROVE  SilentInv'
    BY <1>9 DEF incoming_pingresp
  <2>1. Len(pingreq) = 1
    BY <1>0, <1>9 DEF incoming_pingresp, Waiting
  <2>2. pingreq' = <<>>
    BY <1>9, <2>1, TailOfOne DEF incoming_pingresp
  <2> QED
    BY <2>2
<1>10. CASE Tick
  <2> SUFFICES ASSUME conn = "up", ping_after > ResponseTimeout,
                      ResponseTimeout # Infinite, pingreq # <<>>
               PROVE  SilentInv'
    BY <1>10 DEF Tick
  <2>1. pingresp_timer # 0 /\ pingresp_timer > 0
    <3>1. pingresp_timer # 0
      <4>1. ~blocks
        BY Zenon, <1>0 DEF Quiet
      <4> QED
        BY <1>10, <4>1 DEF Tick, MayWait, Waiting, AwaitsResponse
    <3> QED
      BY <1>0, <3>1
  <2>2. pingreq[1] \in Nat /\ Len(pingreq) = 1
    BY <1>0
  <2>3. /\ Len(pingreq') = 1
        /\ pingreq'[1] = pingreq[1] + 1
    BY <1>0, <1>10, <2>1, <2>2 DEF Tick, AtMost, AgeBound
  <2> QED
    BY <1>0, <1>10, <2>1, <2>2, <2>3 DEF Tick, CountDown, AtMost
<1>11. CASE UNCHANGED vars
  BY <1>0, <1>11 DEF vars
<1> QED
  BY Zenon, <1>1, <1>2, <1>3, <1>4, <1>5, <1>6, <1>7, <1>8, <1>9, <1>10, <1>11
     DEF Next, Handshake, connect_fails, connect_timeout, ping_timeout, disconnected

\* The inductive invariant of a connection.
LEMMA ConnInvariant == Spec => []ConnInv
<1>1. ConnInv /\ [Next]_vars => ConnInv'
  BY ConnTypeStep, ExchangeStep, WaitStep, PingStep, SilentStep DEF ConnInv
<1> QED
  BY ConnInit, <1>1, PTL DEF Spec

\* A connection comes up only with the authentication method that CONNECT named, as
\* every AUTH and the CONNACK confirm it (authentication_method_matches).
THEOREM MethodAlwaysConfirmed == Spec => []MethodConfirmed
<1>1. ConnInv => MethodConfirmed
  BY DEF ConnInv, ExchangeInv
<1> QED
  BY ConnInvariant, <1>1, PTL

\* Neither CONNECT nor an AUTH waits longer than the response timeout, however many
\* AUTH packets are exchanged (maybe_timeout around mqtt_receive).
THEOREM ResponsesInTime == Spec => []ResponseAwaitedWithinTimeout
<1>1. ConnInv => ResponseAwaitedWithinTimeout
  BY DEF ConnInv, WaitInv, ResponseAwaitedWithinTimeout
<1> QED
  BY ConnInvariant, <1>1, PTL

\* A server that stops answering is noticed within the response timeout, for every
\* keep-alive interval that is longer (run_until_disconnect_inner).
THEOREM SilenceAlwaysDetected == Spec => []SilentServerDetected
<1>1. ConnInv => SilentServerDetected
  <2> SUFFICES ASSUME ConnInv, Quiet, ping_after > ResponseTimeout
               PROVE  ResponseTimeoutEnforced
    BY Zenon DEF SilentServerDetected, Quiet
  <2> SUFFICES ASSUME conn = "up", pingreq # <<>>, ResponseTimeout # Infinite
               PROVE  Head(pingreq) <= ResponseTimeout
    BY DEF ResponseTimeoutEnforced
  <2>1. pingreq \in Seq(Nat) /\ pingreq # <<>>
    BY DEF ConnInv, ConnTypeOK
  <2>2. Head(pingreq) = pingreq[1] /\ pingreq[1] \in Nat
    BY <2>1
  <2>3. pingresp_timer >= 0 /\ pingreq[1] + pingresp_timer = ResponseTimeout
    BY DEF ConnInv, SilentInv
  <2>4. pingresp_timer \in Int /\ ResponseTimeout \in Int
    BY DEF ConnInv, ConnTypeOK, NoTimer, ResponseTimeout
  <2> QED
    BY <2>2, <2>3, <2>4
<1> QED
  BY ConnInvariant, <1>1, PTL

\* PingTimeout is reported only after the response timeout has gone by since the
\* last PINGREQ, whatever was sent and answered before (maybe_timeout).
THEOREM TimeoutsAreTrue == Spec => NoFalseTimeout
<1>1. ConnInv /\ [Next]_vars =>
        [conn' = "ping_timeout" /\ conn = "up" =>
           pingreq # <<>> /\ pingreq[Len(pingreq)] >= ResponseTimeout]_vars
  <2> SUFFICES ASSUME ConnInv, [Next]_vars, conn' = "ping_timeout", conn = "up"
               PROVE  pingreq # <<>> /\ pingreq[Len(pingreq)] >= ResponseTimeout
    BY Zenon
  <2>1. pingresp_timer = 0
    BY DEF Next, Handshake, connect, continue_auth, request_flushed, receive_connack,
       receive_auth, connect_fails, connect_timeout, Ended, run_until_disconnect,
       send_ping, send_keep_alive, SendPing, send_packet, flushed, incoming_pingresp,
       ping_timeout, disconnected, Tick, vars
  <2>2. pingreq # <<>> /\ pingreq[Len(pingreq)] + 0 >= ResponseTimeout
    BY <2>1 DEF ConnInv, PingInv, NoTimer
  <2>3. pingreq[Len(pingreq)] \in Nat
    BY <2>2 DEF ConnInv, ConnTypeOK
  <2> QED
    BY <2>2, <2>3
<1> QED
  BY ConnInvariant, <1>1, PTL DEF Spec, NoFalseTimeout
=============================================================================

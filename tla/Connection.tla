----------------------------- MODULE Connection -----------------------------
(***************************************************************************)
(* A connection in discrete time (src/src/client.rs): the CONNECT exchange *)
(* with its response timeouts (ConnectHandle, EnhancedAuthHandle), then    *)
(* the keep-alive of run_until_disconnect_inner: the PINGREQ timer of the  *)
(* session (src/src/client/session.rs) and the PINGRESP timer of the loop, *)
(* both a Timer (src/src/client/timer.rs).                                 *)
(*                                                                         *)
(* The client acts as soon as it can: time passes only while it waits for  *)
(* the next event, for the transport to accept what it writes, or for the  *)
(* application to call it.                                                 *)
(***************************************************************************)
EXTENDS Integers, Sequences

CONSTANTS
    ClientKeepAlives,   \* KeepAliveConfig: [ping_after, response_timeout]
    ServerKeepAlives,   \* Server Keep Alive of a CONNACK, or Absent
    Absent,
    Methods,            \* authentication methods
    NoMethod,           \* no authentication method
    ConnectTimeout,     \* response_timeout of connect and continue_auth
    ManualPings,        \* whether the application calls Client::ping
    WritesBlock,        \* whether the transport may take time to accept data
    MaxPings,           \* bound: PINGREQs without a response
    MaxChallenges       \* bound: AUTH packets of one attempt

\* The keep-alive interval Infinite, which CONNECT and CONNACK encode as zero.
Infinite == 0

\* KeepAliveConfig::Infinite has no response timeout.
InfiniteConfig == [ping_after |-> Infinite, response_timeout |-> Infinite]

ASSUME ConnectionAssumption ==
    /\ \A k \in ClientKeepAlives :
         k = InfiniteConfig \/ k \in [ping_after : Nat \ {0}, response_timeout : Nat \ {0}]
    /\ InfiniteConfig \in ClientKeepAlives
    /\ ServerKeepAlives \subseteq Nat \cup {Absent}
    /\ NoMethod \notin Methods
    /\ ConnectTimeout \in Nat \ {0}
    /\ ManualPings \subseteq BOOLEAN /\ WritesBlock \subseteq BOOLEAN
    /\ MaxPings \in Nat \ {0}
    /\ MaxChallenges \in Nat

VARIABLES
    manual, blocks,     \* what application and transport do, chosen at the start
    conn,               \* "idle", "connecting", "challenged", "up", "ping_timeout"
    driver,             \* "flush" while a write is awaited, "parked" while the
                        \* application holds the handle, otherwise "select"
    method,             \* the method of CONNECT
    heard,              \* history: methods of the server's packets accepted
    challenges,         \* how many AUTH packets the attempt has seen
    response_timer,     \* time left of maybe_timeout in the CONNECT exchange
    waited,             \* history: time since the last packet of the exchange was sent
    cfg_keep_alive,     \* the KeepAliveConfig of the attempt
    ping_after,         \* keep-alive interval in effect
    idle,               \* time since pingreq_timer was reset
    pingresp_timer,     \* time that remains, or NoTimer
    pingreq             \* how long each PINGREQ in flight has been waiting

environment == <<manual, blocks>>
handshakeVars == <<method, heard, challenges, response_timer, waited, cfg_keep_alive>>
pingVars == <<ping_after, idle, pingresp_timer, pingreq>>
vars == <<environment, conn, driver, handshakeVars, pingVars>>

NoTimer == -1

\* Ages count up to a bound that stands for every larger one.
AtMost(n, bound) == IF n > bound THEN bound ELSE n
AgeBound == cfg_keep_alive.response_timeout + 1
WaitBound == ConnectTimeout + 1

Init ==
    /\ manual \in ManualPings
    /\ blocks \in WritesBlock
    /\ conn = "idle"
    /\ driver = "parked"
    /\ method = NoMethod
    /\ heard = {}
    /\ challenges = 0
    /\ response_timer = NoTimer
    /\ waited = 0
    /\ cfg_keep_alive = InfiniteConfig
    /\ ping_after = Infinite
    /\ idle = 0
    /\ pingresp_timer = NoTimer
    /\ pingreq = <<>>

-----------------------------------------------------------------------------
(***************************************************************************)
(* The CONNECT exchange.                                                   *)
(***************************************************************************)

\* The application gets the ConnectHandle back, with the connection closed.
Ended(reason) ==
    /\ conn' = reason
    /\ driver' = "parked"
    /\ method' = NoMethod
    /\ heard' = {}
    /\ challenges' = 0
    /\ response_timer' = NoTimer
    /\ waited' = 0
    /\ cfg_keep_alive' = InfiniteConfig
    /\ ping_after' = Infinite
    /\ idle' = 0
    /\ pingresp_timer' = NoTimer
    /\ pingreq' = <<>>
    /\ UNCHANGED environment

\* The transport is established; CONNECT is written.
connect(m, k) ==
    /\ conn \in {"idle", "ping_timeout"}
    /\ conn' = "connecting"
    /\ driver' = "flush"
    /\ method' = m
    /\ cfg_keep_alive' = k
    /\ UNCHANGED <<environment, heard, challenges, response_timer, waited, pingVars>>

\* EnhancedAuthHandle::continue_auth writes an AUTH packet.
continue_auth ==
    /\ conn = "challenged"
    /\ conn' = "connecting"
    /\ driver' = "flush"
    /\ waited' = 0
    /\ UNCHANGED <<environment, method, heard, challenges, response_timer,
                   cfg_keep_alive, pingVars>>

\* Fault: the timeout is armed only for the first response.
ArmedResponseOnce == IF challenges = 0 THEN ConnectTimeout ELSE NoTimer

\* What maybe_timeout starts with once the request is flushed.
ArmedResponse == ConnectTimeout

request_flushed ==
    /\ conn = "connecting"
    /\ driver = "flush"
    /\ driver' = "select"
    /\ response_timer' = ArmedResponse
    /\ UNCHANGED <<environment, conn, method, heard, challenges, waited,
                   cfg_keep_alive, pingVars>>

\* mqtt_receive is awaited.
AwaitsResponse == conn = "connecting" /\ driver = "select"

\* Fault: a server that sends no method is taken to agree.
MethodMatchesOrAbsent(m) == m \in {method, NoMethod}

\* authentication_method_matches
MethodMatches(m) == m = method

\* The keep-alive interval in effect: the server's, if it gives one.
IntervalInEffect(server) ==
    IF server # Absent THEN server ELSE cfg_keep_alive.ping_after

\* A successful CONNACK: the Connection is handed to the application.
receive_connack(m, server) ==
    /\ AwaitsResponse
    /\ MethodMatches(m)
    /\ conn' = "up"
    /\ driver' = "parked"
    /\ heard' = heard \cup {m}
    /\ response_timer' = NoTimer
    /\ waited' = 0
    /\ ping_after' = IntervalInEffect(server)
    /\ UNCHANGED <<environment, method, challenges, cfg_keep_alive, idle,
                   pingresp_timer, pingreq>>

\* An AUTH challenge: ConnectEnhancedAuthResult::Continue.
receive_auth(m) ==
    /\ AwaitsResponse
    /\ method # NoMethod
    /\ MethodMatches(m)
    /\ challenges < MaxChallenges
    /\ conn' = "challenged"
    /\ driver' = "parked"
    /\ heard' = heard \cup {m}
    /\ challenges' = challenges + 1
    /\ response_timer' = NoTimer
    /\ UNCHANGED <<environment, method, waited, cfg_keep_alive, pingVars>>

\* Every other outcome: an I/O error at any point, a CONNACK that refuses, another
\* method, an unexpected packet.  The application may also give a challenge up.
connect_fails ==
    /\ conn \in {"connecting", "challenged"}
    /\ Ended("idle")

\* ConnectError::ResponseTimeout
connect_timeout ==
    /\ AwaitsResponse
    /\ response_timer = 0
    /\ Ended("idle")

-----------------------------------------------------------------------------
(***************************************************************************)
(* The connection.                                                         *)
(***************************************************************************)
run_until_disconnect ==
    /\ conn = "up"
    /\ driver = "parked"
    /\ driver' = "select"
    /\ UNCHANGED <<environment, conn, handshakeVars, pingVars>>

\* The loop is at its select.
Waiting == conn = "up" /\ driver = "select"

\* poll_for_outgoing_request finds the keep-alive timer elapsed.
KeepAliveDue == ping_after # Infinite /\ idle >= ping_after

ResponseTimeout == cfg_keep_alive.response_timeout

\* Fault: a timer that runs already is left to run.
ArmedByPingOnce ==
    IF ResponseTimeout = Infinite \/ pingresp_timer # NoTimer THEN pingresp_timer
    ELSE ResponseTimeout

\* Fault: no timer is started.
ArmedByPingNever == pingresp_timer

\* The timer as a PINGREQ leaves it: a new one in place of the old, if the
\* KeepAliveConfig has a response timeout.
ArmedByPing == IF ResponseTimeout = Infinite THEN pingresp_timer ELSE ResponseTimeout

SendPing ==
    /\ Len(pingreq) < MaxPings
    /\ pingreq' = Append(pingreq, 0)
    /\ pingresp_timer' = ArmedByPing
    /\ idle' = 0
    /\ driver' = "flush"
    /\ UNCHANGED <<environment, conn, handshakeVars, ping_after>>

send_ping == Waiting /\ manual /\ SendPing

send_keep_alive == Waiting /\ KeepAliveDue /\ SendPing

\* Any other packet restarts the keep-alive interval.
send_packet ==
    /\ Waiting
    /\ idle' = 0
    /\ driver' = "flush"
    /\ UNCHANGED <<environment, conn, handshakeVars, ping_after, pingresp_timer, pingreq>>

\* write and flush return.
flushed ==
    /\ conn = "up"
    /\ driver = "flush"
    /\ driver' = "select"
    /\ UNCHANGED <<environment, conn, handshakeVars, pingVars>>

\* The loop looks for packets to send before it reads.
incoming_pingresp ==
    /\ Waiting
    /\ ~KeepAliveDue
    /\ pingreq # <<>>
    /\ pingreq' = Tail(pingreq)
    /\ pingresp_timer' = NoTimer
    /\ UNCHANGED <<environment, conn, driver, handshakeVars, ping_after, idle>>

\* maybe_timeout: the timeout is looked at after sending and reading.
ping_timeout ==
    /\ Waiting
    /\ ~KeepAliveDue
    /\ pingresp_timer = 0
    /\ Ended("ping_timeout")

\* Every other end of the connection.
disconnected ==
    /\ conn = "up"
    /\ driver # "parked"
    /\ Ended("idle")

-----------------------------------------------------------------------------
\* Someone waits, and nothing that the client does by itself is due.
MayWait ==
    \/ driver = "flush" /\ blocks
    \/ driver = "parked" /\ conn \in {"challenged", "up"}
    \/ AwaitsResponse /\ response_timer # 0
    \/ Waiting /\ ~KeepAliveDue /\ pingresp_timer # 0

CountDown(timer) == IF timer > 0 THEN timer - 1 ELSE timer

Tick ==
    /\ MayWait
    /\ response_timer' = CountDown(response_timer)
    /\ waited' = IF conn = "connecting" THEN AtMost(waited + 1, WaitBound) ELSE waited
    /\ idle' = IF conn = "up" THEN AtMost(idle + 1, ping_after) ELSE idle
    /\ pingresp_timer' = CountDown(pingresp_timer)
    /\ pingreq' = [i \in DOMAIN pingreq |-> AtMost(pingreq[i] + 1, AgeBound)]
    /\ UNCHANGED <<environment, conn, driver, method, heard, challenges,
                   cfg_keep_alive, ping_after>>

Handshake ==
    \/ \E m \in Methods \cup {NoMethod}, k \in ClientKeepAlives : connect(m, k)
    \/ continue_auth
    \/ request_flushed
    \/ \E m \in Methods \cup {NoMethod}, s \in ServerKeepAlives : receive_connack(m, s)
    \/ \E m \in Methods \cup {NoMethod} : receive_auth(m)
    \/ connect_fails
    \/ connect_timeout

Next ==
    \/ Handshake
    \/ run_until_disconnect
    \/ send_ping
    \/ send_keep_alive
    \/ send_packet
    \/ flushed
    \/ incoming_pingresp
    \/ ping_timeout
    \/ disconnected
    \/ Tick

Spec == Init /\ [][Next]_vars

-----------------------------------------------------------------------------
\* A connection comes up only if the server confirmed the authentication method
\* of CONNECT in every AUTH packet of the exchange and in the CONNACK
\* (EnhancedAuthHandle::receive_response, Session::incoming_connack).
MethodConfirmed == conn = "up" => heard = {method}

\* response_timeout is an "Optional timeout for the MQTT CONNECT operation"
\* (client.rs, ConnectHandle::connect): as long as the transport takes what is
\* written, neither CONNECT nor any AUTH of the exchange waits longer for its answer.
ResponseAwaitedWithinTimeout == ~blocks => waited <= ConnectTimeout

\* "Maximum time to wait for PINGRESP before ending the connection." (client.rs,
\* KeepAliveConfig): while the connection is up, no PINGREQ has been waiting for
\* its PINGRESP longer than response_timeout.
ResponseTimeoutEnforced ==
    (conn = "up" /\ pingreq # <<>> /\ ResponseTimeout # Infinite)
        => Head(pingreq) <= ResponseTimeout

\* When that does hold in the loop of run_until_disconnect_inner: the interval in
\* effect, which the server may have chosen, is longer than the response timeout,
\* the application sends no PINGREQs of its own and writes do not block.
SilentServerDetected ==
    (ping_after > ResponseTimeout /\ ~manual /\ ~blocks) => ResponseTimeoutEnforced

\* "The server did not respond to PINGREQ before the configured response timeout."
\* (client.rs, DisconnectedEvent::PingTimeout): when the connection ends for this
\* reason, even the most recent PINGREQ went unanswered that long.
NoFalseTimeout ==
    [][conn' = "ping_timeout" /\ conn = "up" =>
         pingreq # <<>> /\ pingreq[Len(pingreq)] >= ResponseTimeout]_vars
=============================================================================

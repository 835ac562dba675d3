----------------------------- MODULE Scheduling -----------------------------
(***************************************************************************)
(* Who gets the connection next: the loop of run_until_disconnect_inner    *)
(* (src/src/client.rs), which prefers an outgoing packet to an incoming    *)
(* one, and the order in which next_outgoing_packet, next_outgoing_request *)
(* and poll_for_outgoing_request (src/src/client/session.rs) look for an   *)
(* outgoing packet.                                                        *)
(*                                                                         *)
(* Session has the contents of these packets and bounds how many there     *)
(* are.  Here a channel is how many requests wait in it, an identifier is  *)
(* one of a number, and the application never stops: the model is cyclic,  *)
(* so that it can say who may be starved, by whom.                         *)
(***************************************************************************)
EXTENDS Integers, Sequences, SequencesExt

CONSTANTS
    Applications,       \* the sets of channels an application may use
    Capacity,           \* bound: requests waiting in one channel
    PkidCount,          \* how many packet identifiers the pool has
    MaxUnacked          \* bound: deliveries the application has not acknowledged

\* The receivers of Channels that carry requests, except ack_rx.
Channels == {"disconnect", "auth", "ping", "sub", "qos0", "qos12"}

\* Fault: disconnects are polled after publishes.
PollOrderDisconnectLast ==
    <<"ack", "auth", "ping", "sub", "qos0", "qos12", "keepalive", "disconnect">>

\* Fault: acknowledgements are polled after QoS 0 publishes.
PollOrderAckLate ==
    <<"disconnect", "auth", "ping", "sub", "qos0", "ack", "qos12", "keepalive">>

\* Fault: QoS 1 and QoS 2 publishes are polled before subscriptions.
PollOrderSubLate ==
    <<"disconnect", "ack", "auth", "ping", "qos0", "qos12", "sub", "keepalive">>

\* The order in which poll_for_outgoing_request looks at its sources.
PollOrder ==
    <<"disconnect", "ack", "auth", "ping", "sub", "qos0", "qos12", "keepalive">>

Polled == ToSet(PollOrder)

ASSUME SchedulingAssumption ==
    /\ Applications \subseteq SUBSET Channels
    /\ Capacity \in Nat \ {0}
    /\ PkidCount \in 1..65535
    /\ MaxUnacked \in Nat

VARIABLES
    uses, alive,        \* the application's channels, whether the server answers
    pc,                 \* where the loop is
    packet,             \* the source of the packet being written
    budget,             \* whether tokio still lets the task take from a channel or a
                        \* socket before it yields
    waiting,            \* requests in each channel
    tracker,            \* in_application.publishes: "held" by the application,
                        \* "requested" in ack_rx, "ready" to be sent
    replay,             \* length of packets_to_replay
    unflushed, owed, answers,   \* identifiers in use, by where the exchange is:
                        \* in the write buffer, at the server, acknowledged and unread
    publishes,          \* whether a PUBLISH of the server is unread
    pingreq,            \* where the newest PINGREQ exchange is
    pingresp_timer,     \* "off", "running" or "elapsed"
    pingreq_elapsed     \* whether the keep-alive timer has elapsed

environment == <<uses, alive>>
driverVars == <<pc, packet, budget>>
serverVars == <<owed, answers, publishes>>
pingVars == <<pingreq, pingresp_timer>>
vars == <<environment, driverVars, waiting, tracker, replay, unflushed, serverVars,
          pingVars, pingreq_elapsed>>

Init ==
    /\ uses \in Applications
    /\ alive \in BOOLEAN
    /\ pc = "select"
    /\ packet = "none"
    /\ budget = TRUE
    /\ waiting = [c \in Channels |-> 0]
    /\ tracker = <<>>
    /\ replay \in 0..PkidCount
    /\ unflushed = 0 /\ owed = 0 /\ answers = 0
    /\ publishes = FALSE
    /\ pingreq = "none"
    /\ pingresp_timer = "off"
    /\ pingreq_elapsed = FALSE

-----------------------------------------------------------------------------
(***************************************************************************)
(* The application and the server, each at any time.                       *)
(***************************************************************************)

\* A request enters a channel.  The DisconnectHandle can be used once.
request(c) ==
    /\ c \in uses
    /\ pc # "done"
    /\ waiting[c] < (IF c = "disconnect" THEN 1 ELSE Capacity)
    /\ waiting' = [waiting EXCEPT ![c] = @ + 1]
    /\ UNCHANGED <<environment, driverVars, tracker, replay, unflushed, serverVars,
                   pingVars, pingreq_elapsed>>

\* PubAckToken::accept, in any order of the deliveries.
acknowledge(i) ==
    /\ tracker[i] = "held"
    /\ tracker' = [tracker EXCEPT ![i] = "requested"]
    /\ UNCHANGED <<environment, driverVars, waiting, replay, unflushed, serverVars,
                   pingVars, pingreq_elapsed>>

\* A server that is alive acknowledges, answers a PINGREQ, or publishes.
server_acknowledges ==
    /\ alive /\ pc # "done"
    /\ owed > 0
    /\ owed' = owed - 1
    /\ answers' = answers + 1
    /\ UNCHANGED <<environment, driverVars, waiting, tracker, replay, unflushed,
                   publishes, pingVars, pingreq_elapsed>>

server_pingresp ==
    /\ alive /\ pc # "done"
    /\ pingreq = "owed"
    /\ pingreq' = "answered"
    /\ UNCHANGED <<environment, driverVars, waiting, tracker, replay, unflushed,
                   serverVars, pingresp_timer, pingreq_elapsed>>

server_publishes ==
    /\ alive /\ pc # "done"
    /\ ~publishes
    /\ Len(tracker) < MaxUnacked
    /\ publishes' = TRUE
    /\ UNCHANGED <<environment, driverVars, waiting, tracker, replay, unflushed, owed,
                   answers, pingVars, pingreq_elapsed>>

-----------------------------------------------------------------------------
(***************************************************************************)
(* next_outgoing_packet.                                                   *)
(***************************************************************************)
InUse == replay + unflushed + owed + answers

PkidAvailable == InUse < PkidCount

FrontReady == tracker # <<>> /\ Head(tracker) = "ready"

\* Whether poll_for_outgoing_request finds something at a source.  Only a request
\* that gets an identifier is taken from its channel.
Pollable(s) ==
    CASE s = "ack" -> "requested" \in ToSet(tracker)
      [] s = "keepalive" -> pingreq_elapsed
      [] s \in {"sub", "qos12"} -> waiting[s] > 0 /\ PkidAvailable
      [] OTHER -> waiting[s] > 0

\* The source poll_for_outgoing_request takes from.
PolledFirst(s) ==
    \E i \in 1..Len(PollOrder) :
        /\ s = PollOrder[i]
        /\ Pollable(s)
        /\ \A j \in 1..(i - 1) : ~Pollable(PollOrder[j])

\* The source next_outgoing_packet takes from: the replay and the acknowledgement
\* at the front of the tracker come before anything is polled, and need no budget.
\* (Nor does a request that peek() already holds, at most one of a channel; that is
\* left out.)
TakenFirst(s) ==
    \/ s = "replay" /\ replay > 0
    \/ s = "ready" /\ replay = 0 /\ FrontReady
    \/ replay = 0 /\ ~FrontReady /\ budget /\ PolledFirst(s)

Sources == {"replay", "ready"} \cup Polled

Outgoing == replay > 0 \/ FrontReady \/ (budget /\ \E s \in Polled : Pollable(s))

\* Taking from a channel or a socket may use up the budget.
Spends == budget' \in {budget, FALSE}

\* next_outgoing_packet returns a packet of source s, which is then written.
take(s) ==
    /\ TakenFirst(s)
    /\ s # "ack"
    /\ pc' = "write"
    /\ packet' = s
    /\ IF s \in {"replay", "ready"} THEN UNCHANGED budget ELSE Spends
    /\ waiting' = IF s \in Channels THEN [waiting EXCEPT ![s] = @ - 1] ELSE waiting
    /\ tracker' = IF s = "ready" THEN Tail(tracker) ELSE tracker
    /\ replay' = IF s = "replay" THEN replay - 1 ELSE replay
    /\ unflushed' = IF s \in {"replay", "sub", "qos12"} THEN unflushed + 1 ELSE unflushed
    /\ pingreq_elapsed' = FALSE
    /\ UNCHANGED <<environment, serverVars, pingVars>>

\* The loop of next_outgoing_request moves an acknowledgement into the tracker and
\* looks again.
route(i) ==
    /\ pc \in {"select", "next"}
    /\ TakenFirst("ack")
    /\ tracker[i] = "requested"
    /\ tracker' = [tracker EXCEPT ![i] = "ready"]
    /\ Spends
    /\ UNCHANGED <<environment, pc, packet, waiting, replay, unflushed, serverVars,
                   pingVars, pingreq_elapsed>>

-----------------------------------------------------------------------------
(***************************************************************************)
(* run_until_disconnect_inner.                                             *)
(***************************************************************************)

\* select polls next_outgoing_packet first; now_or_never polls it once more.
outgoing(s) ==
    /\ pc \in {"select", "next"}
    /\ take(s)

\* The loop returns and the session disconnects: the PUBLISHes among the open
\* exchanges will be replayed, unless the server turns out to have lost the session,
\* the identifiers of the others are free, and the deliveries are forgotten.
Returned ==
    /\ pc' = "done"
    /\ packet' = "none"
    /\ budget' = TRUE
    /\ tracker' = <<>>
    /\ replay' \in 0..InUse
    /\ unflushed' = 0 /\ owed' = 0 /\ answers' = 0
    /\ publishes' = FALSE
    /\ pingreq' = "none"
    /\ pingresp_timer' = "off"
    /\ pingreq_elapsed' = FALSE
    /\ UNCHANGED <<environment, waiting>>

\* Fault: only a PINGREQ the application asked for starts the response timer.
IsPingManual == packet = "ping"

IsPing == packet \in {"ping", "keepalive"}

\* Where the loop goes once a packet is written.
AfterWrite == IF packet = "disconnect" THEN "last" ELSE "next"

\* writer.write; a PINGREQ starts the response timer.
write ==
    /\ pc = "write"
    /\ pc' = AfterWrite
    /\ packet' = "none"
    /\ pingreq' = IF IsPing THEN "written" ELSE pingreq
    /\ pingresp_timer' = IF IsPing THEN "running" ELSE pingresp_timer
    /\ UNCHANGED <<environment, budget, waiting, tracker, replay, unflushed, serverVars,
                   pingreq_elapsed>>

\* Fault: the loop goes back to waiting without a flush.
DrainedToSelect == pc = "next" /\ ~Outgoing /\ pc' = "select"

\* now_or_never finds nothing: no packet is ready, or the budget is used up and the
\* channels report none.
Drained == pc = "next" /\ ~Outgoing /\ pc' = "flush"

drained ==
    /\ Drained
    /\ UNCHANGED <<environment, packet, budget, waiting, tracker, replay, unflushed,
                   serverVars, pingVars, pingreq_elapsed>>

\* writer.flush after the last packet of a batch.  It waits for the socket, on a new
\* budget if the task has to yield.
flush ==
    /\ pc = "flush"
    /\ pc' = "select"
    /\ budget' \in BOOLEAN
    /\ unflushed' = 0
    /\ owed' = owed + unflushed
    /\ pingreq' = IF pingreq = "written" THEN "owed" ELSE pingreq
    /\ UNCHANGED <<environment, packet, waiting, tracker, replay, answers, publishes,
                   pingresp_timer, pingreq_elapsed>>

\* writer.flush after DISCONNECT.
disconnected ==
    /\ pc = "last"
    /\ Returned

Arrived == answers > 0 \/ publishes \/ pingreq = "answered"

\* select takes the incoming side when there is nothing to send.  Without budget it
\* takes what the Reader has buffered, although requests may be waiting.
Reads == pc = "select" /\ ~Outgoing

\* An acknowledgement frees its identifier.
receive_ack ==
    /\ Reads
    /\ answers > 0
    /\ answers' = answers - 1
    /\ Spends
    /\ UNCHANGED <<environment, pc, packet, waiting, tracker, replay, unflushed, owed,
                   publishes, pingVars, pingreq_elapsed>>

\* incoming_publish
receive_publish ==
    /\ Reads
    /\ publishes
    /\ publishes' = FALSE
    /\ tracker' = Append(tracker, "held")
    /\ Spends
    /\ UNCHANGED <<environment, pc, packet, waiting, replay, unflushed, owed, answers,
                   pingVars, pingreq_elapsed>>

\* PINGRESP takes the response timer away.
receive_pingresp ==
    /\ Reads
    /\ pingreq = "answered"
    /\ pingreq' = "none"
    /\ pingresp_timer' = "off"
    /\ Spends
    /\ UNCHANGED <<environment, pc, packet, waiting, tracker, replay, unflushed,
                   serverVars, pingreq_elapsed>>

receive == receive_ack \/ receive_publish \/ receive_pingresp

\* Neither side of select is ready without budget: the task yields and gets a new
\* one.  What the Reader has buffered may be read before, but it is finite.
yield ==
    /\ Reads
    /\ ~budget
    /\ budget' = TRUE
    /\ UNCHANGED <<environment, pc, packet, waiting, tracker, replay, unflushed,
                   serverVars, pingVars, pingreq_elapsed>>

\* Time passes only while the loop waits, and the server's response is due before
\* the next keep-alive.
Waits == Reads /\ ~Arrived /\ budget

pingreq_timer_elapses ==
    /\ Waits
    /\ pingresp_timer = "off"
    /\ pingreq_elapsed' = TRUE
    /\ UNCHANGED <<environment, driverVars, waiting, tracker, replay, unflushed,
                   serverVars, pingVars>>

pingresp_timer_elapses ==
    /\ Waits
    /\ pingresp_timer = "running"
    /\ pingresp_timer' = "elapsed"
    /\ UNCHANGED <<environment, driverVars, waiting, tracker, replay, unflushed,
                   serverVars, pingreq, pingreq_elapsed>>

\* maybe_timeout polls the two sides of select before its own deadline, which it
\* also looks at when these used up the budget.
ping_timeout ==
    /\ Reads
    /\ Arrived => ~budget
    /\ pingresp_timer = "elapsed"
    /\ Returned

\* A read, a write or a flush fails, or the server sends DISCONNECT.
connection_lost ==
    /\ pc # "done"
    /\ Returned

\* The application connects again, with a new DisconnectHandle; requests still wait.
reconnect ==
    /\ pc = "done"
    /\ pc' = "select"
    /\ waiting' = [waiting EXCEPT !["disconnect"] = 0]
    /\ UNCHANGED <<environment, packet, budget, tracker, replay, unflushed, serverVars,
                   pingVars, pingreq_elapsed>>

Driver ==
    \/ \E s \in Sources : outgoing(s)
    \/ \E i \in DOMAIN tracker : route(i)
    \/ write
    \/ drained
    \/ flush
    \/ disconnected
    \/ receive
    \/ yield
    \/ ping_timeout

Next ==
    \/ \E c \in Channels : request(c)
    \/ \E i \in DOMAIN tracker : acknowledge(i)
    \/ server_acknowledges
    \/ server_pingresp
    \/ server_publishes
    \/ pingreq_timer_elapses
    \/ pingresp_timer_elapses
    \/ Driver
    \/ connection_lost
    \/ reconnect

\* The task of the connection is polled whenever it is woken, a transport accepts
\* what is written or fails, time passes, and a server that is alive acknowledges.
\* Nothing obliges the application to stop, or the server to publish.
Spec ==
    /\ Init
    /\ [][Next]_vars
    /\ WF_vars(Driver)
    /\ WF_vars(yield)
    /\ WF_vars(pingresp_timer_elapses)
    /\ WF_vars(pingreq_timer_elapses)
    /\ WF_vars(server_acknowledges)

-----------------------------------------------------------------------------
(***************************************************************************)
(* Properties.                                                             *)
(***************************************************************************)
\* Client and server never wait for each other over a packet that is only in the
\* write buffer: when the loop waits, all it wrote is flushed (client.rs, the flush
\* after the inner loop of run_until_disconnect_inner).
FlushedWhileWaiting == pc = "select" => unflushed = 0 /\ pingreq # "written"

\* A disconnect the application asks for ends the connection, whatever it goes on
\* asking for and whatever the server goes on sending ("Disconnects get top
\* priority", poll_for_outgoing_request).
DisconnectServed == waiting["disconnect"] > 0 ~> pc = "done"

\* An acknowledgement that is next in order is sent, or the connection ends: no
\* amount of other requests keeps it back ("Next priority are acknowledgements",
\* poll_for_outgoing_request).
AcksServed ==
    tracker # <<>> /\ Head(tracker) = "requested" ~> packet = "ready" \/ pc = "done"

\* The order the comment on poll_for_outgoing_request gives.
DocumentedOrder ==
    <<"disconnect", "ack", "auth", "ping", "sub", "qos0", "qos12", "keepalive">>

Outrank(c) ==
    {"replay", "ready"} \cup
    {DocumentedOrder[i] : i \in {j \in 1..8 : \E k \in (j + 1)..8 : DocumentedOrder[k] = c}}

Ended == []<>(pc = "done")

\* A channel is starved only by the ones that come before it in the documented
\* order, with one exception: while all identifiers are in use, what needs one waits
\* for the loop to read, and sending of any kind can keep it from reading
\* (poll_for_outgoing_request and the select of run_until_disconnect_inner).
StarvedByPriorityOnly ==
    \A c \in Channels :
        alive /\ <>[](waiting[c] > 0 /\ packet # c) =>
            \/ []<>(packet \in Outrank(c))
            \/ c \in {"sub", "qos12"} /\ <>[]~PkidAvailable /\ []<>(pc = "write")
            \/ Ended

Requests == (Channels \ {"disconnect"}) \cup {"ready"}

\* A server that never answers is noticed by the keep-alive, unless the application
\* keeps the loop sending: the PINGRESP timeout is looked at only when there is
\* nothing to send (maybe_timeout in run_until_disconnect_inner).
DeadServerNoticed ==
    ~alive => <>(pc = "done") \/ []<>(packet \in Requests)
=============================================================================

------------------------------ MODULE Session -------------------------------
(***************************************************************************)
(* The MQTT session of the client together with the loop that drives it on *)
(* a connection:                                                           *)
(*                                                                         *)
(*   src/src/client/session.rs     the Session and its handlers            *)
(*   src/src/client.rs             the application's handles, connect, and *)
(*                                 Connection::run_until_disconnect        *)
(*   src/src/client/token/*.rs     completion and acknowledgement tokens   *)
(*                                                                         *)
(* One step is one request of the application, one iteration of the send   *)
(* loop, one incoming packet, or one exit of the connection with the       *)
(* session transition it performs.  The server is open: it may send any    *)
(* packet at any time.                                                     *)
(*                                                                         *)
(* Operations are numbered in the order in which the application submits   *)
(* them; incoming QoS 1 PUBLISHes are numbered in the order in which they  *)
(* arrive.  These numbers identify notifiers and tokens, and order them.   *)
(***************************************************************************)
EXTENDS PkidPool, Sequences

CONSTANTS
    Kinds,              \* the operations that the application uses
    Methods,            \* authentication methods of enhanced authentication
    NoMethod,           \* a CONNECT without an authentication method
    ServerPkids,        \* identifiers the server uses for its PUBLISHes
    Expiries,           \* Session Expiry Intervals in use; 0 ends the session
    Absent,             \* an optional property that is not in the packet
    KeepAlives,         \* keep-alive outcomes of a CONNECT, see connect
    QueueSize,          \* capacity of each PUBLISH channel
    MaxOps,             \* bound: operations submitted
    MaxDeliveries,      \* bound: QoS 1 PUBLISHes received
    MaxEpoch,           \* bound: connections established
    MaxSent             \* bound: keep-alive PINGREQs only within so many packets

ASSUME SessionAssumption ==
    /\ Kinds \subseteq {"q0", "q1", "sub", "unsub", "ping", "reauth"}
    /\ NoMethod \notin Methods
    /\ ServerPkids \subseteq Nat \ {0}
    /\ Expiries \subseteq Nat
    /\ Absent \notin Expiries
    /\ KeepAlives \subseteq [ping_after : BOOLEAN, response_timeout : BOOLEAN]
    /\ {QueueSize, MaxOps, MaxDeliveries, MaxEpoch, MaxSent} \subseteq Nat

VARIABLES
    \* Channels from the application's handles to the session.
    sub_rx, o_pub_q0_rx, o_pub_q12_rx, ping_rx, auth_rx, ack_rx, disconnect_rx,
    \* InflightTracker.
    publish_qos1, subscribe, unsubscribe, packets_to_replay, auth, pingreq,
    \* InApplicationTracker.
    publishes,
    \* Connection-scoped state of the session.
    mode, connection_epoch, expiry_interval, pingreq_timer,
    \* State of run_until_disconnect_inner.
    driver, pingresp_timer, cfg_pingresp_timeout,
    \* What the application holds.
    token, deliveries, reauth_handles, reauth_tokens,
    \* History: the packets written on the connection, and its CONNECT's method.
    sent, conn_method

channels == <<sub_rx, o_pub_q0_rx, o_pub_q12_rx, ping_rx, auth_rx>>
inflight == <<publish_qos1, subscribe, unsubscribe, auth, pingreq>>
connection == <<mode, connection_epoch, expiry_interval, pingreq_timer,
                cfg_pingresp_timeout, conn_method>>
handles == <<reauth_handles, reauth_tokens>>

sessionVars == <<poolVars, channels, ack_rx, disconnect_rx, inflight,
                 packets_to_replay, publishes, connection, driver,
                 pingresp_timer, token, deliveries, handles, sent>>

-----------------------------------------------------------------------------
(***************************************************************************)
(* Data.                                                                   *)
(***************************************************************************)
Ops == 1..Len(token)
Alive == mode \in {"ready", "connected"}

\* An entry of an in-flight map: the packet identifier and the operation.
Entry(p, o) == [pkid |-> p, op |-> o]
Entries(s) == {s[i] : i \in DOMAIN s}
PkidsOf(S) == {e.pkid : e \in S}
OpsOf(S) == {e.op : e \in S}

NoAuth == [op |-> 0, method |-> NoMethod]
NoDisconnect == [state |-> "none", expiry |-> Absent]

Pkt(type, p, o, dup) == [type |-> type, pkid |-> p, op |-> o, dup |-> dup]

\* IndexMap::insert keeps the position of a key that is present already.
IndexInsert(map, e) ==
    IF \E i \in DOMAIN map : map[i].pkid = e.pkid
    THEN [i \in DOMAIN map |-> IF map[i].pkid = e.pkid THEN e ELSE map[i]]
    ELSE Append(map, e)

\* Fault: IndexMap::swap_remove, which moves the last entry to the gap.
ShiftRemoveSwaps(map, p) ==
    [i \in 1..(Len(map) - 1) |-> IF map[i].pkid = p THEN map[Len(map)] ELSE map[i]]

\* IndexMap::shift_remove of the entry with key p: later entries close the gap.
ShiftRemove(map, p) ==
    LET gap == CHOOSE i \in DOMAIN map : map[i].pkid = p
    IN [i \in 1..(Len(map) - 1) |-> IF i < gap THEN map[i] ELSE map[i + 1]]

\* HashMap::insert.
HashInsert(map, e) == {f \in map : f.pkid # e.pkid} \cup {e}

\* The operations whose notifiers an insertion with key p overwrites: a notifier
\* that is dropped resolves its token as detached (completion.rs, poll).
Overwritten(map, p) == {e.op : e \in {f \in map : f.pkid = p}}

\* Resolve the completion tokens of the operations in S.
Resolve(S, outcome) == [o \in Ops |-> IF o \in S THEN outcome ELSE token[o]]

\* The acknowledgement requests D lose their notifiers.
Detach(D) == [d \in DOMAIN deliveries |->
                IF d \in D THEN [deliveries[d] EXCEPT !.ack = "detached"]
                           ELSE deliveries[d]]

Init ==
    /\ PoolInit
    /\ sub_rx = <<>> /\ o_pub_q0_rx = <<>> /\ o_pub_q12_rx = <<>>
    /\ ping_rx = <<>> /\ auth_rx = <<>> /\ ack_rx = <<>>
    /\ disconnect_rx = NoDisconnect
    /\ publish_qos1 = <<>> /\ subscribe = {} /\ unsubscribe = {}
    /\ packets_to_replay = <<>> /\ auth = NoAuth /\ pingreq = <<>>
    /\ publishes = <<>>
    /\ mode = "ready"
    /\ connection_epoch = 0
    /\ expiry_interval = 0
    /\ pingreq_timer = FALSE
    /\ driver = "select"
    /\ pingresp_timer = FALSE
    /\ cfg_pingresp_timeout = FALSE
    /\ token = <<>>
    /\ deliveries = <<>>
    /\ reauth_handles = {} /\ reauth_tokens = {}
    /\ sent = <<>>
    /\ conn_method = NoMethod

-----------------------------------------------------------------------------
(***************************************************************************)
(* The application.  A call on a handle puts a request and a fresh notifier *)
(* into a bounded channel, in any connection state; it waits while the     *)
(* channel is full, and fails without a token once the session is gone.    *)
(***************************************************************************)
Submit(kind) ==
    /\ Alive
    /\ kind \in Kinds
    /\ Len(token) < MaxOps
    /\ token' = Append(token, "pending")
    /\ UNCHANGED <<poolVars, ack_rx, disconnect_rx, inflight, packets_to_replay,
                   publishes, connection, driver, pingresp_timer, deliveries,
                   reauth_handles, sent>>

NewOp == Len(token) + 1

\* sub_rx and o_pub_q12_rx are Peekable: the request that waits for a packet
\* identifier has left the channel for the slot of the stream.
PeekSlot == 1

publish_qos0_call ==
    /\ Submit("q0")
    /\ Len(o_pub_q0_rx) < QueueSize
    /\ o_pub_q0_rx' = Append(o_pub_q0_rx, NewOp)
    /\ UNCHANGED <<sub_rx, o_pub_q12_rx, ping_rx, auth_rx, reauth_tokens>>

publish_qos1_call ==
    /\ Submit("q1")
    /\ Len(o_pub_q12_rx) < QueueSize + PeekSlot
    /\ o_pub_q12_rx' = Append(o_pub_q12_rx, NewOp)
    /\ UNCHANGED <<sub_rx, o_pub_q0_rx, ping_rx, auth_rx, reauth_tokens>>

subscription_call(kind) ==
    /\ Submit(kind)
    /\ Len(sub_rx) < 1 + PeekSlot
    /\ sub_rx' = Append(sub_rx, [kind |-> kind, op |-> NewOp])
    /\ UNCHANGED <<o_pub_q0_rx, o_pub_q12_rx, ping_rx, auth_rx, reauth_tokens>>

ping_call ==
    /\ Submit("ping")
    /\ Len(ping_rx) < 1
    /\ ping_rx' = Append(ping_rx, NewOp)
    /\ UNCHANGED <<sub_rx, o_pub_q0_rx, o_pub_q12_rx, auth_rx, reauth_tokens>>

\* ReauthHandle::reauth borrows its handle; the handle and the channel outlive
\* the connection they came from.
reauth_call(m) ==
    /\ Submit("reauth")
    /\ m \in reauth_handles
    /\ Len(auth_rx) < 1
    /\ auth_rx' = Append(auth_rx, [method |-> m, op |-> NewOp])
    /\ UNCHANGED <<sub_rx, o_pub_q0_rx, o_pub_q12_rx, ping_rx, reauth_tokens>>

\* ReauthToken::continue_reauth consumes its token.
continue_reauth_call(t) ==
    /\ Submit("reauth")
    /\ Len(auth_rx) < 1
    /\ auth_rx' = Append(auth_rx, [method |-> t.method, op |-> NewOp])
    /\ reauth_tokens' = reauth_tokens \ {t}
    /\ UNCHANGED <<sub_rx, o_pub_q0_rx, o_pub_q12_rx, ping_rx>>

\* PubAckToken: accept, reject and Drop all submit one acknowledgement request.
acknowledge(d) ==
    /\ Alive
    /\ deliveries[d].ack = "held"
    /\ deliveries' = [deliveries EXCEPT ![d].ack = "pending"]
    /\ ack_rx' = Append(ack_rx, d)
    /\ UNCHANGED <<poolVars, channels, disconnect_rx, inflight, packets_to_replay,
                   publishes, connection, driver, pingresp_timer, token, handles,
                   sent>>

\* DisconnectHandle::disconnect consumes the one-shot sender of the connection.
disconnect_call(e) ==
    /\ Alive
    /\ disconnect_rx.state = "armed"
    /\ disconnect_rx' = [state |-> "requested", expiry |-> e]
    /\ UNCHANGED <<poolVars, channels, ack_rx, inflight, packets_to_replay,
                   publishes, connection, driver, pingresp_timer, token,
                   deliveries, handles, sent>>

\* The owner of the session ends: every notifier in a channel or in flight is
\* dropped with it.  how is "gone" when the application drops its ConnectHandle
\* or Connection, and the name of a panic of the driver otherwise.
SessionDropped(how) ==
    /\ mode' = how
    /\ token' = Resolve({o \in Ops : token[o] = "pending"}, "detached")
    /\ deliveries' = Detach({d \in DOMAIN deliveries : deliveries[d].ack = "pending"})
    /\ UNCHANGED <<poolVars, channels, ack_rx, disconnect_rx, inflight,
                   packets_to_replay, publishes, connection_epoch, expiry_interval,
                   pingreq_timer, cfg_pingresp_timeout, conn_method, driver,
                   pingresp_timer, handles, sent>>

drop_handle == Alive /\ SessionDropped("gone")

-----------------------------------------------------------------------------
(***************************************************************************)
(* Sending.  next_outgoing_packet takes the first of these sources that is *)
(* ready, in this order; every step below is one turn of its loop, guarded *)
(* by the emptiness of what comes before it.                               *)
(***************************************************************************)
Sending == mode = "connected" /\ driver \in {"select", "drain"}

AckReady == publishes # <<>> /\ Head(publishes).ack # 0

NeedsPkid(q) == q # <<>> /\ ~Exhausted

\* How far poll_for_outgoing_request gets before it finds a request.
Polls == Sending /\ packets_to_replay = <<>> /\ ~AckReady
PollsAcks == Polls /\ disconnect_rx.state # "requested"
PollsAuth == PollsAcks /\ ack_rx = <<>>
PollsPings == PollsAuth /\ auth_rx = <<>>
PollsSubscriptions == PollsPings /\ ping_rx = <<>>
PollsQoS0 == PollsSubscriptions /\ ~NeedsPkid(sub_rx)
PollsQoS1 == PollsQoS0 /\ o_pub_q0_rx = <<>>
NothingToSend == PollsQoS1 /\ ~NeedsPkid(o_pub_q12_rx)

\* next_outgoing_packet is not ready when there is nothing to send.  It also is not
\* when the task has used up its tokio budget: then the channels report nothing,
\* whatever they hold.
NotReady == Polls

\* The packet goes to the writer and the loop comes back for the next one.
Write(pkt) ==
    /\ sent' = Append(sent, pkt)
    /\ driver' = "drain"

UnchangedBySending ==
    UNCHANGED <<connection, handles>>

\* A replayed PUBLISH has the DUP flag, and its notifier stays in flight.
send_replayed ==
    /\ Sending
    /\ packets_to_replay # <<>>
    /\ packets_to_replay' = Tail(packets_to_replay)
    /\ Write(Pkt("PUBLISH", Head(packets_to_replay).pkid,
                 Head(packets_to_replay).op, TRUE))
    /\ UNCHANGED <<poolVars, channels, ack_rx, disconnect_rx, inflight, publishes,
                   pingresp_timer, token, deliveries>>
    /\ UnchangedBySending

\* Fault: the epochs are not compared.
StaleNever(d) == FALSE

\* An acknowledgement of an earlier connection.
Stale(d) == deliveries[d].epoch # connection_epoch

\* The PUBLISH at the front is acknowledged: its PUBACK is complete for the
\* application before it is written, and dropped when its epoch is over.
send_ready_ack ==
    /\ Sending
    /\ packets_to_replay = <<>>
    /\ AckReady
    /\ publishes' = Tail(publishes)
    /\ LET d == Head(publishes).ack IN
       IF Stale(d)
       THEN deliveries' = Detach({d}) /\ UNCHANGED <<sent, driver>>
       ELSE /\ deliveries' = [deliveries EXCEPT ![d].ack = "completed"]
            /\ Write(Pkt("PUBACK", deliveries[d].pkid, d, FALSE))
    /\ UNCHANGED <<poolVars, channels, ack_rx, disconnect_rx, inflight,
                   packets_to_replay, pingresp_timer, token>>
    /\ UnchangedBySending

\* Fault: the request is taken for the PUBLISH at the front.
MarkReadyFront(d) == [publishes EXCEPT ![1].ack = d]

\* Fault: the request is dropped.
MarkReadyLost(d) == publishes

\* An acknowledgement request waits in the tracker until it is its turn.
MarkReady(d) ==
    [i \in DOMAIN publishes |->
        IF publishes[i].pkid = deliveries[d].pkid
        THEN [publishes[i] EXCEPT !.ack = d] ELSE publishes[i]]

route_ack ==
    /\ PollsAcks
    /\ ack_rx # <<>>
    /\ LET d == Head(ack_rx) IN
       IF Stale(d) \/ \E i \in DOMAIN publishes : publishes[i].pkid = deliveries[d].pkid
       THEN /\ ack_rx' = Tail(ack_rx)
            /\ publishes' = IF Stale(d) THEN publishes ELSE MarkReady(d)
            /\ deliveries' = IF Stale(d) THEN Detach({d}) ELSE deliveries
            /\ UNCHANGED <<poolVars, channels, disconnect_rx, inflight, sent, driver,
                           packets_to_replay, pingresp_timer, token>>
            /\ UnchangedBySending
       ELSE SessionDropped("panic_forged_ack")

send_disconnect ==
    /\ Polls
    /\ disconnect_rx.state = "requested"
    /\ disconnect_rx' = [disconnect_rx EXCEPT !.state = "taken"]
    /\ sent' = Append(sent, Pkt("DISCONNECT", 0, 0, FALSE))
    /\ driver' = "closing"
    /\ UNCHANGED <<poolVars, channels, ack_rx, inflight, packets_to_replay, publishes,
                   pingresp_timer, token, deliveries>>
    /\ UnchangedBySending

\* The one slot for an AUTH in flight is overwritten without a look at it.
send_auth ==
    /\ PollsAuth
    /\ auth_rx # <<>>
    /\ auth_rx' = Tail(auth_rx)
    /\ token' = Resolve({auth.op} \ {0}, "detached")
    /\ auth' = [op |-> Head(auth_rx).op, method |-> Head(auth_rx).method]
    /\ Write(Pkt("AUTH", 0, Head(auth_rx).op, FALSE))
    /\ UNCHANGED <<poolVars, sub_rx, o_pub_q0_rx, o_pub_q12_rx, ping_rx, ack_rx,
                   disconnect_rx, publish_qos1, subscribe, unsubscribe, pingreq,
                   packets_to_replay, publishes, pingresp_timer, deliveries>>
    /\ UnchangedBySending

\* A PINGREQ, of the application or of the keep-alive timer (operation 0), joins
\* the queue of those awaiting a PINGRESP and restarts the response timer.
WritePing(o) ==
    /\ pingreq' = Append(pingreq, o)
    /\ pingresp_timer' = (pingresp_timer \/ cfg_pingresp_timeout)
    /\ Write(Pkt("PINGREQ", 0, o, FALSE))
    /\ UNCHANGED <<poolVars, sub_rx, o_pub_q0_rx, o_pub_q12_rx, auth_rx, ack_rx,
                   disconnect_rx, publish_qos1, subscribe, unsubscribe, auth,
                   packets_to_replay, publishes, token, deliveries>>
    /\ UnchangedBySending

send_ping ==
    /\ PollsPings
    /\ ping_rx # <<>>
    /\ ping_rx' = Tail(ping_rx)
    /\ WritePing(Head(ping_rx))

\* The keep-alive timer elapses at any time while nothing else is to be sent.
send_keep_alive ==
    /\ NothingToSend
    /\ pingreq_timer
    /\ Len(sent) < MaxSent
    /\ WritePing(0)
    /\ UNCHANGED ping_rx

send_subscription(p) ==
    /\ PollsSubscriptions
    /\ sub_rx # <<>>
    /\ lease_next_pkid(p)
    /\ LET req == Head(sub_rx)
           map == IF req.kind = "sub" THEN subscribe ELSE unsubscribe
       IN /\ token' = Resolve(Overwritten(map, p), "detached")
          /\ IF req.kind = "sub"
             THEN /\ subscribe' = HashInsert(subscribe, Entry(p, req.op))
                  /\ UNCHANGED unsubscribe
             ELSE /\ unsubscribe' = HashInsert(unsubscribe, Entry(p, req.op))
                  /\ UNCHANGED subscribe
          /\ Write(Pkt(IF req.kind = "sub" THEN "SUBSCRIBE" ELSE "UNSUBSCRIBE",
                       p, req.op, FALSE))
    /\ sub_rx' = Tail(sub_rx)
    /\ UNCHANGED <<o_pub_q0_rx, o_pub_q12_rx, ping_rx, auth_rx, ack_rx,
                   disconnect_rx, publish_qos1, auth, pingreq, packets_to_replay,
                   publishes, pingresp_timer, deliveries>>
    /\ UnchangedBySending

\* A QoS 0 PUBLISH is complete for the application before it is written.
send_publish_qos0 ==
    /\ PollsQoS0
    /\ o_pub_q0_rx # <<>>
    /\ o_pub_q0_rx' = Tail(o_pub_q0_rx)
    /\ token' = Resolve({Head(o_pub_q0_rx)}, "completed")
    /\ Write(Pkt("PUBLISH", 0, Head(o_pub_q0_rx), FALSE))
    /\ UNCHANGED <<poolVars, sub_rx, o_pub_q12_rx, ping_rx, auth_rx, ack_rx,
                   disconnect_rx, inflight, packets_to_replay, publishes,
                   pingresp_timer, deliveries>>
    /\ UnchangedBySending

send_publish_qos1(p) ==
    /\ PollsQoS1
    /\ o_pub_q12_rx # <<>>
    /\ lease_next_pkid(p)
    /\ o_pub_q12_rx' = Tail(o_pub_q12_rx)
    /\ publish_qos1' = IndexInsert(publish_qos1, Entry(p, Head(o_pub_q12_rx)))
    /\ token' = Resolve(Overwritten(Entries(publish_qos1), p), "detached")
    /\ Write(Pkt("PUBLISH", p, Head(o_pub_q12_rx), FALSE))
    /\ UNCHANGED <<sub_rx, o_pub_q0_rx, ping_rx, auth_rx, ack_rx, disconnect_rx,
                   subscribe, unsubscribe, auth, pingreq, packets_to_replay,
                   publishes, pingresp_timer, deliveries>>
    /\ UnchangedBySending

\* No packet is ready: the writer is flushed and the loop may read again.
flush ==
    /\ driver = "drain"
    /\ NotReady
    /\ driver' = "select"
    /\ UNCHANGED <<poolVars, channels, ack_rx, disconnect_rx, inflight,
                   packets_to_replay, publishes, pingresp_timer, token, deliveries,
                   sent>>
    /\ UnchangedBySending

-----------------------------------------------------------------------------
(***************************************************************************)
(* The end of a connection.  Every exit of run_until_disconnect performs   *)
(* one of client_disconnect, server_disconnect and transport_disconnect:   *)
(* disconnected(), then session_expired() if the interval in effect is 0.  *)
(***************************************************************************)

\* Fault: PINGREQs in flight are forgotten.
CanceledOnDisconnectNoPings == OpsOf(subscribe) \cup OpsOf(unsubscribe) \cup ({auth.op} \ {0})

\* disconnected(): requests whose answer cannot arrive any more.
CanceledOnDisconnect ==
    OpsOf(subscribe) \cup OpsOf(unsubscribe)
        \cup (({auth.op} \cup {pingreq[i] : i \in DOMAIN pingreq}) \ {0})

\* Fault: the identifiers of cancelled SUBSCRIBEs stay leased.
ReleasedOnDisconnectLeaks == PkidsOf(unsubscribe)

\* Fault: so are released those of the PUBLISHes that will be replayed.
ReleasedOnDisconnectAll == PkidsOf(subscribe \cup unsubscribe \cup Entries(publish_qos1))

ReleasedOnDisconnect == PkidsOf(subscribe) \cup PkidsOf(unsubscribe)

\* Fault: the list of an earlier connection is not built anew.
ToReplayStale == packets_to_replay

\* Fault: the list is built from the other end.
ToReplayReversed ==
    [i \in DOMAIN publish_qos1 |-> publish_qos1[Len(publish_qos1) + 1 - i]]

\* PUBLISHes are redelivered in the order in which they were first sent.
ToReplay == publish_qos1

\* Fault: deliveries of the connection stay in the tracker.
SlotsKept == publishes

\* Acknowledgements and their order are connection-scoped.
SlotsAfterDisconnect == <<>>

ReadyAcks == {publishes[i].ack : i \in DOMAIN publishes} \ {0}

\* session_expired(): PUBLISHes that the server will not remember.
CanceledOnExpiry == OpsOf(Entries(publish_qos1))
ReleasedOnExpiry == PkidsOf(Entries(publish_qos1))

\* The connection ends with Session Expiry Interval e in effect.  Identifiers in
\* freed were released by the same step already.
EndConnection(e, freed) ==
    LET expired == e = 0 IN
    /\ mode' = "ready"
    /\ expiry_interval' = e
    /\ leased' = leased \ (freed \cup ReleasedOnDisconnect
                              \cup IF expired THEN ReleasedOnExpiry ELSE {})
    /\ token' = Resolve(CanceledOnDisconnect
                           \cup IF expired THEN CanceledOnExpiry ELSE {}, "canceled")
    /\ subscribe' = {}
    /\ unsubscribe' = {}
    /\ auth' = NoAuth
    /\ pingreq' = <<>>
    /\ publishes' = SlotsAfterDisconnect
    /\ deliveries' = Detach(ReadyAcks)
    /\ publish_qos1' = IF expired THEN <<>> ELSE publish_qos1
    /\ packets_to_replay' = IF expired THEN <<>> ELSE ToReplay
    /\ pingreq_timer' = FALSE
    /\ driver' = "select"
    /\ pingresp_timer' = FALSE
    /\ UNCHANGED <<cursor, channels, ack_rx, disconnect_rx, connection_epoch,
                   cfg_pingresp_timeout, conn_method, handles, sent>>

\* DISCONNECT is written and flushed: client_disconnect.
application_disconnect ==
    /\ mode = "connected"
    /\ driver = "closing"
    /\ EndConnection(IF disconnect_rx.expiry = Absent THEN expiry_interval
                     ELSE disconnect_rx.expiry, {})

\* A read, a write or a flush fails, or the transport ends: transport_disconnect.
\* Reads fail only while the loop reads.
io_error ==
    /\ mode = "connected"
    /\ driver = "select" => NotReady
    /\ EndConnection(expiry_interval, {})

\* No PINGRESP within the timeout, and neither a packet to send nor one to read.
ping_timeout ==
    /\ driver = "select"
    /\ NotReady
    /\ pingresp_timer
    /\ EndConnection(expiry_interval, {})

-----------------------------------------------------------------------------
(***************************************************************************)
(* Receiving.  The loop polls the session first: it reads when no packet   *)
(* to send is ready and what was written is flushed.                       *)
(***************************************************************************)
Reading == driver = "select" /\ NotReady

UnchangedByReceiving ==
    UNCHANGED <<channels, ack_rx, disconnect_rx, packets_to_replay, connection,
                driver, sent>>

incoming_disconnect == Reading /\ EndConnection(expiry_interval, {})

\* A packet that does not decode, that no handler takes, or that a handler
\* refuses (an AUTH when none is in flight, with another method, or with reason
\* ReAuthenticate): ProtocolError.
protocol_error(freed) == EndConnection(expiry_interval, freed)

unexpected_packet == Reading /\ protocol_error({})

\* complete_inflight: the identifier is released before the in-flight map is
\* consulted, whether or not the map has it.
AckMatches(S, p) ==
    /\ Reading
    /\ p \in PkidsOf(S)
    /\ release_pkids({p})
    /\ token' = Resolve(Overwritten(S, p), "completed")
    /\ UNCHANGED <<auth, pingreq, publishes, pingresp_timer, deliveries, handles>>
    /\ UnchangedByReceiving

AckUnmatched(S, p) ==
    /\ Reading
    /\ p \notin PkidsOf(S)
    /\ protocol_error({p})

incoming_suback(p) ==
    \/ /\ AckMatches(subscribe, p)
       /\ subscribe' = {e \in subscribe : e.pkid # p}
       /\ UNCHANGED <<publish_qos1, unsubscribe>>
    \/ AckUnmatched(subscribe, p)

incoming_unsuback(p) ==
    \/ /\ AckMatches(unsubscribe, p)
       /\ unsubscribe' = {e \in unsubscribe : e.pkid # p}
       /\ UNCHANGED <<publish_qos1, subscribe>>
    \/ AckUnmatched(unsubscribe, p)

incoming_puback(p) ==
    \/ /\ AckMatches(Entries(publish_qos1), p)
       /\ publish_qos1' = ShiftRemove(publish_qos1, p)
       /\ UNCHANGED <<subscribe, unsubscribe>>
    \/ AckUnmatched(Entries(publish_qos1), p)

\* QoS 2 is not implemented: no PUBLISH awaits a PUBREC.  A PUBREC that reports
\* success makes a PubRelToken before the lookup fails, and dropping it panics.
incoming_pubrec(p) ==
    \/ AckUnmatched({}, p)
    \/ Reading /\ SessionDropped("panic_qos2")

\* A QoS 1 PUBLISH goes to the application with the token that acknowledges it.
\* The arriving packet must not use an identifier that awaits its PUBACK.
incoming_publish_qos1(p) ==
    /\ Reading
    /\ Len(deliveries) < MaxDeliveries
    /\ \/ /\ \A i \in DOMAIN publishes : publishes[i].pkid # p
          /\ publishes' = Append(publishes,
                                 [pkid |-> p, d |-> Len(deliveries) + 1, ack |-> 0])
          /\ deliveries' = Append(deliveries,
                                  [pkid |-> p, epoch |-> connection_epoch, ack |-> "held"])
          /\ UNCHANGED <<poolVars, inflight, pingresp_timer, token, handles>>
          /\ UnchangedByReceiving
       \/ /\ \E i \in DOMAIN publishes : publishes[i].pkid = p
          /\ SessionDropped("panic_duplicate_publish")

incoming_publish_qos2 == Reading /\ SessionDropped("panic_qos2")

\* The server ends a reauthentication, or asks for its next step; its AUTH
\* carries the method that the AUTH in flight has.
incoming_auth_success ==
    /\ Reading
    /\ auth # NoAuth
    /\ auth' = NoAuth
    /\ token' = Resolve({auth.op}, "completed")
    /\ UNCHANGED <<poolVars, publish_qos1, subscribe, unsubscribe, pingreq, publishes,
                   pingresp_timer, deliveries, handles>>
    /\ UnchangedByReceiving

incoming_auth_continue ==
    /\ Reading
    /\ auth # NoAuth
    /\ auth' = NoAuth
    /\ token' = Resolve({auth.op}, "completed")
    /\ reauth_tokens' = reauth_tokens \cup {auth}
    /\ UNCHANGED <<poolVars, publish_qos1, subscribe, unsubscribe, pingreq, publishes,
                   pingresp_timer, deliveries, reauth_handles>>
    /\ UnchangedByReceiving

\* PINGRESPs answer PINGREQs in order; one that answers none is ignored.  Every
\* one of them stops the response timer.
incoming_pingresp ==
    /\ Reading
    /\ pingresp_timer' = FALSE
    /\ pingreq' = IF pingreq = <<>> THEN <<>> ELSE Tail(pingreq)
    /\ token' = IF pingreq = <<>> THEN token
                ELSE Resolve({Head(pingreq)} \ {0}, "completed")
    /\ UNCHANGED <<poolVars, publish_qos1, subscribe, unsubscribe, auth, publishes,
                   deliveries, handles>>
    /\ UnchangedByReceiving

-----------------------------------------------------------------------------
(***************************************************************************)
(* Connecting.  The session changes only when the CONNACK reports success  *)
(* and repeats the authentication method; every other outcome returns the  *)
(* ConnectHandle with the session as it was.                               *)
(***************************************************************************)

\* Fault: the CONNACK's interval is used even when it has none.
EffectiveExpiryServer(client, server) == server

\* The CONNACK's Session Expiry Interval, if present, replaces the CONNECT's.
EffectiveExpiry(client, server) == IF server = Absent THEN client ELSE server

\* Server Keep Alive replaces ping_after, so the two timers are independent:
\* ka.ping_after says whether there is a keep-alive, ka.response_timeout whether
\* PINGRESPs are awaited with a timeout.
connect(session_present, client, server, m, ka) ==
    /\ mode = "ready"
    /\ connection_epoch < MaxEpoch
    /\ IF session_present
       THEN UNCHANGED <<poolVars, token, publish_qos1, packets_to_replay>>
       ELSE /\ release_pkids(ReleasedOnExpiry)
            /\ token' = Resolve(CanceledOnExpiry, "canceled")
            /\ publish_qos1' = <<>>
            /\ packets_to_replay' = <<>>
    /\ mode' = "connected"
    /\ connection_epoch' = connection_epoch + 1
    /\ expiry_interval' = EffectiveExpiry(client, server)
    /\ pingreq_timer' = ka.ping_after
    /\ cfg_pingresp_timeout' = ka.response_timeout
    /\ conn_method' = m
    /\ disconnect_rx' = [state |-> "armed", expiry |-> Absent]
    /\ reauth_handles' = reauth_handles \cup ({m} \ {NoMethod})
    /\ sent' = <<>>
    /\ UNCHANGED <<channels, ack_rx, subscribe, unsubscribe, auth, pingreq, publishes,
                   driver, pingresp_timer, deliveries, reauth_tokens>>

-----------------------------------------------------------------------------
Application ==
    \/ publish_qos0_call
    \/ publish_qos1_call
    \/ \E kind \in {"sub", "unsub"} : subscription_call(kind)
    \/ ping_call
    \/ \E m \in Methods : reauth_call(m)
    \/ \E t \in reauth_tokens : continue_reauth_call(t)
    \/ \E d \in DOMAIN deliveries : acknowledge(d)
    \/ \E e \in Expiries \cup {Absent} : disconnect_call(e)
    \/ drop_handle

Connect ==
    \E session_present \in BOOLEAN, client \in Expiries,
       server \in Expiries \cup {Absent}, m \in Methods \cup {NoMethod},
       ka \in KeepAlives : connect(session_present, client, server, m, ka)

Send ==
    \/ send_replayed
    \/ send_ready_ack
    \/ route_ack
    \/ send_disconnect
    \/ send_auth
    \/ send_ping
    \/ send_keep_alive
    \/ \E p \in Pkids : send_subscription(p)
    \/ send_publish_qos0
    \/ \E p \in Pkids : send_publish_qos1(p)
    \/ flush

Receive ==
    \/ \E p \in Pkids : \/ incoming_suback(p)
                        \/ incoming_unsuback(p)
                        \/ incoming_puback(p)
                        \/ incoming_pubrec(p)
    \/ \E p \in ServerPkids : incoming_publish_qos1(p)
    \/ incoming_publish_qos2
    \/ incoming_auth_success
    \/ incoming_auth_continue
    \/ incoming_pingresp
    \/ incoming_disconnect
    \/ unexpected_packet

Disconnect ==
    \/ application_disconnect
    \/ io_error
    \/ ping_timeout

Next == Application \/ Connect \/ Send \/ Receive \/ Disconnect

Spec == Init /\ [][Next]_sessionVars

-----------------------------------------------------------------------------
(***************************************************************************)
(* Properties.                                                             *)
(***************************************************************************)
Outcomes == {"pending", "completed", "canceled", "detached"}
Panics == {"panic_forged_ack", "panic_duplicate_publish", "panic_qos2"}
EntryType == [pkid : Pkids, op : Nat \ {0}]
SubscriptionType == [kind : {"sub", "unsub"}, op : Nat \ {0}]
AuthType == [method : Methods, op : Nat \ {0}]
SlotType == [pkid : ServerPkids, d : Nat \ {0}, ack : Nat]
DeliveryType == [pkid : ServerPkids, epoch : Nat,
                 ack : {"held", "pending", "completed", "detached"}]
PacketType == [type : {"PUBLISH", "PUBACK", "SUBSCRIBE", "UNSUBSCRIBE", "PINGREQ",
                       "AUTH", "DISCONNECT"},
               pkid : Nat, op : Nat, dup : BOOLEAN]

ChannelsTypeOK ==
    /\ sub_rx \in Seq(SubscriptionType)
    /\ o_pub_q0_rx \in Seq(Nat \ {0})
    /\ o_pub_q12_rx \in Seq(Nat \ {0})
    /\ ping_rx \in Seq(Nat \ {0})
    /\ auth_rx \in Seq(AuthType)
    /\ ack_rx \in Seq(Nat \ {0})
    /\ disconnect_rx \in [state : {"none", "armed", "requested", "taken"},
                          expiry : Expiries \cup {Absent}]

InflightTypeOK ==
    /\ publish_qos1 \in Seq(EntryType)
    /\ subscribe \subseteq EntryType
    /\ unsubscribe \subseteq EntryType
    /\ packets_to_replay \in Seq(EntryType)
    /\ auth \in {NoAuth} \cup AuthType
    /\ pingreq \in Seq(Nat)
    /\ publishes \in Seq(SlotType)

ConnectionTypeOK ==
    /\ mode \in {"ready", "connected", "gone"} \cup Panics
    /\ connection_epoch \in Nat
    /\ expiry_interval \in Expiries \cup {0}
    /\ pingreq_timer \in BOOLEAN
    /\ driver \in {"select", "drain", "closing"}
    /\ pingresp_timer \in BOOLEAN
    /\ cfg_pingresp_timeout \in BOOLEAN
    /\ conn_method \in Methods \cup {NoMethod}
    /\ sent \in Seq(PacketType)

HandlesTypeOK ==
    /\ token \in Seq(Outcomes)
    /\ deliveries \in Seq(DeliveryType)
    /\ reauth_handles \subseteq Methods
    /\ reauth_tokens \subseteq AuthType

\* The type invariant of the session, its driver and the application's handles.
TypeOK ==
    /\ PoolTypeOK
    /\ ChannelsTypeOK
    /\ InflightTypeOK
    /\ ConnectionTypeOK
    /\ HandlesTypeOK

\* How many of the first n packets of s have the type.
CountOf(s, type, n) == Cardinality({i \in 1..n : s[i].type = type})

\* The deliveries of earlier connections.
Outdated == {d \in DOMAIN deliveries : Stale(d)}

\* The PUBACKs of a connection answer the QoS 1 PUBLISHes that arrived on it, in
\* the order of their arrival and without a gap, each with the identifier of the
\* PUBLISH it answers, however late and in whatever order the application uses
\* its tokens: an old token must not affect a new delivery (session.rs, next_outgoing_request).
PubAcksInArrivalOrder ==
    \A i \in DOMAIN sent : sent[i].type = "PUBACK" =>
        LET d == Cardinality(Outdated) + CountOf(sent, "PUBACK", i)
        IN /\ d \in DOMAIN deliveries
           /\ sent[i].op = d
           /\ sent[i].pkid = deliveries[d].pkid

\* An acknowledgement is reported as complete only after those of all the
\* PUBLISHes that arrived before it on the same connection.
AcksCompleteInOrder ==
    \A c, d \in DOMAIN deliveries :
        (c < d /\ deliveries[c].epoch = deliveries[d].epoch
               /\ deliveries[d].ack = "completed")
        => deliveries[c].ack = "completed"

\* The number of deliveries that have left the tracker.
Acked == Len(deliveries) - Len(publishes)

OpenSlots ==
    /\ mode = "ready" => publishes = <<>>
    /\ Len(publishes) <= Len(deliveries)
    /\ \A i \in DOMAIN publishes :
         /\ publishes[i].d = Acked + i
         /\ publishes[i].pkid = deliveries[Acked + i].pkid
         /\ ~Stale(Acked + i)
         /\ publishes[i].ack # 0 => /\ publishes[i].ack = Acked + i
                                    /\ deliveries[Acked + i].ack = "pending"
         /\ \A j \in DOMAIN publishes : publishes[j].pkid = publishes[i].pkid => j = i

ClosedSlots ==
    /\ \A d \in DOMAIN deliveries : deliveries[d].epoch <= connection_epoch
    /\ mode = "connected" =>
         \A d \in 1..Acked : Stale(d) \/ deliveries[d].ack = "completed"

QueuedAcks ==
    \A k \in DOMAIN ack_rx :
        /\ ack_rx[k] \in DOMAIN deliveries
        /\ deliveries[ack_rx[k]].ack = "pending"
        /\ \A j \in DOMAIN ack_rx : ack_rx[j] = ack_rx[k] => j = k
        /\ mode = "connected" =>
             \/ Stale(ack_rx[k])
             \/ \E i \in DOMAIN publishes :
                   publishes[i].d = ack_rx[k] /\ publishes[i].ack = 0

\* How the tracker of incoming PUBLISHes, the acknowledgement channel and the
\* application's tokens fit together while the session lives: the slots are the
\* last deliveries of the connection in their order of arrival, with distinct
\* identifiers; all earlier ones of the connection are acknowledged; and every
\* request in the channel that is not of an earlier connection finds its slot
\* still open (session.rs, next_outgoing_request).
AckTracker == Alive => OpenSlots /\ ClosedSlots /\ QueuedAcks

\* The expect("application forged an AcknowledgementRequest ...") of
\* next_outgoing_request never fires, whatever the server sends and whenever
\* connections end.
NoForgedAck == mode # "panic_forged_ack"

Holders(s, o) == Cardinality({i \in DOMAIN s : s[i] = o})
EntryHolders(S, o) == Cardinality({e \in S : e.op = o})
OpHolders(s, o) == Cardinality({i \in DOMAIN s : s[i].op = o})

\* While the session lives, an unresolved token has its notifier in exactly one
\* place (a channel, or one in-flight slot), and a resolved one has it nowhere:
\* no operation is forgotten, and none can be resolved twice.
NotifierConservation ==
    Alive => \A o \in Ops :
        (  Holders(o_pub_q0_rx, o) + Holders(o_pub_q12_rx, o) + OpHolders(sub_rx, o)
         + Holders(ping_rx, o) + OpHolders(auth_rx, o) + Holders(pingreq, o)
         + OpHolders(publish_qos1, o) + EntryHolders(subscribe, o)
         + EntryHolders(unsubscribe, o) + EntryHolders({auth}, o))
        = IF token[o] = "pending" THEN 1 ELSE 0

\* "None of these hashmaps should ever use the same key at the same time"
\* (session.rs, InflightTracker): the maps of operations in flight share no packet
\* identifier.
InflightKeysDisjoint ==
    LET q == PkidsOf(Entries(publish_qos1))
        u == PkidsOf(unsubscribe)
        v == PkidsOf(subscribe)
    IN q \cap u = {} /\ q \cap v = {} /\ u \cap v = {}

\* Packet identifiers neither leak nor collide: the pool has leased exactly those
\* of the operations in flight, through cancellations, replays and expiries, and
\* each belongs to one operation.
PkidsExclusive ==
    /\ leased = PkidsOf(Entries(publish_qos1) \cup subscribe \cup unsubscribe)
    /\ Cardinality(leased) = Len(publish_qos1) + Cardinality(subscribe)
                                + Cardinality(unsubscribe)

\* QoS 1 PUBLISHes are written in the order in which the application submitted
\* them, replayed ones first and in their original order.
PublishesInOrder ==
    LET qos1 == {i \in DOMAIN sent : sent[i].type = "PUBLISH" /\ sent[i].pkid # 0}
    IN \A i, j \in qos1 : i < j => sent[i].op < sent[j].op

\* At least once: while connected, every QoS 1 PUBLISH in flight has been written
\* on this connection or is about to be replayed; and only a PUBLISH that is
\* still in flight is replayed.
ReplayCoversInflight ==
    /\ Entries(packets_to_replay) \subseteq Entries(publish_qos1)
    /\ mode = "connected" =>
         \A e \in Entries(publish_qos1) :
            \/ e \in Entries(packets_to_replay)
            \/ \E i \in DOMAIN sent : sent[i].type = "PUBLISH" /\ sent[i].pkid = e.pkid
                                        /\ sent[i].op = e.op

\* Re-authentication uses the method of the connection: "an AUTH packet is only
\* valid on a connection established with a matching authentication method"
\* (doc/design/overview.md).
AuthMatchesConnection == auth # NoAuth => auth.method = conn_method
=============================================================================

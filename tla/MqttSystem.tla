----------------------------- MODULE MqttSystem -----------------------------
(***************************************************************************)
(* The client session connected to an MQTT server.  The client is Session  *)
(* with the open server's choices replaced by the packets that this server *)
(* really sends.  The server and the network are external to the           *)
(* repository: a conforming MQTT 5 server for the packets that the client  *)
(* writes, and a transport that delivers in order while a connection lasts *)
(* and loses an arbitrary suffix of each direction when it ends.           *)
(***************************************************************************)
EXTENDS Session

CONSTANT MaxPublishes   \* bound: messages that the server publishes to the client

\* The operations are those that the server answers.  Re-authentication is left
\* to Session, where overlapping ones already lose a notifier.
ASSUME SystemAssumption ==
    /\ MaxPublishes \in Nat
    /\ Kinds \subseteq {"q1", "sub", "unsub", "ping"}

VARIABLES
    received,           \* how much of `sent` the server has processed
    to_client,          \* packets of the server in transit
    outbound,           \* the server's QoS 1 messages in flight: [pkid, msg]
    published,          \* how many messages the server has published
    \* History.
    processed,          \* operations of the client that the server carried out
    arrivals,           \* QoS 1 operations in the order of their first arrival
    acknowledged,       \* messages whose PUBACK the server has received
    message             \* the message of each element of deliveries

serverVars == <<received, to_client, outbound, published, processed, arrivals,
                acknowledged, message>>
systemVars == <<sessionVars, serverVars>>

SystemInit ==
    /\ Init
    /\ received = 0
    /\ to_client = <<>>
    /\ outbound = <<>>
    /\ published = 0
    /\ processed = {}
    /\ arrivals = <<>>
    /\ acknowledged = {}
    /\ message = <<>>

Reply(type, p) == [type |-> type, pkid |-> p, msg |-> 0]
Message(m) == [type |-> "PUBLISH", pkid |-> m.pkid, msg |-> m.msg]

-----------------------------------------------------------------------------
(***************************************************************************)
(* The server.  It processes packets also after the client has given the   *)
(* connection up, and then its answers are lost.                           *)
(***************************************************************************)
Answer(replies) ==
    to_client' = IF mode = "connected" THEN to_client \o replies ELSE to_client

ServerPublish(p) ==
    /\ mode = "connected"
    /\ published < MaxPublishes
    /\ \A i \in DOMAIN outbound : outbound[i].pkid # p
    /\ published' = published + 1
    /\ LET m == [pkid |-> p, msg |-> published + 1]
       IN /\ outbound' = Append(outbound, m)
          /\ Answer(<<Message(m)>>)
    /\ UNCHANGED <<sessionVars, received, processed, arrivals, acknowledged, message>>

\* What the server answers.
Replies(pkt) ==
    CASE pkt.type = "PUBLISH" -> <<Reply("PUBACK", pkt.pkid)>>
      [] pkt.type = "SUBSCRIBE" -> <<Reply("SUBACK", pkt.pkid)>>
      [] pkt.type = "UNSUBSCRIBE" -> <<Reply("UNSUBACK", pkt.pkid)>>
      [] pkt.type = "PINGREQ" -> <<Reply("PINGRESP", 0)>>
      [] OTHER -> <<>>

ServerReceive ==
    /\ received < Len(sent)
    /\ received' = received + 1
    /\ LET pkt == sent[received + 1]
           acked == {i \in DOMAIN outbound :
                        pkt.type = "PUBACK" /\ outbound[i].pkid = pkt.pkid}
       IN /\ Answer(Replies(pkt))
          /\ processed' = processed \cup (IF pkt.type = "PUBACK" THEN {} ELSE {pkt.op} \ {0})
          /\ arrivals' = IF pkt.type = "PUBLISH" /\ pkt.op \notin processed
                         THEN Append(arrivals, pkt.op) ELSE arrivals
          /\ acknowledged' = acknowledged \cup {outbound[i].msg : i \in acked}
          /\ outbound' = IF acked = {} THEN outbound ELSE ShiftRemove(outbound, pkt.pkid)
    /\ UNCHANGED <<sessionVars, published, message>>

-----------------------------------------------------------------------------
(***************************************************************************)
(* The client.                                                             *)
(***************************************************************************)
ClientLocal ==
    /\ Application \/ Send
    /\ UNCHANGED serverVars

\* The session that the server has, if any, is resumed or lost.  What it resumes
\* with is what it still has in flight.
SystemConnect ==
    /\ \E session_present \in BOOLEAN, e \in Expiries, m \in Methods \cup {NoMethod},
          ka \in KeepAlives :
         /\ session_present => connection_epoch > 0
         /\ connect(session_present, e, Absent, m, ka)
         /\ outbound' = IF session_present THEN outbound ELSE <<>>
         /\ to_client' = IF session_present
                         THEN [i \in DOMAIN outbound |-> Message(outbound[i])] ELSE <<>>
    /\ received' = 0
    /\ UNCHANGED <<published, processed, arrivals, acknowledged, message>>

\* The handler of run_until_disconnect_inner that takes the packet.
Handle(pkt) ==
    \/ pkt.type = "SUBACK" /\ incoming_suback(pkt.pkid)
    \/ pkt.type = "UNSUBACK" /\ incoming_unsuback(pkt.pkid)
    \/ pkt.type = "PUBACK" /\ incoming_puback(pkt.pkid)
    \/ pkt.type = "PUBLISH" /\ incoming_publish_qos1(pkt.pkid)
    \/ pkt.type = "PINGRESP" /\ incoming_pingresp

ClientReceive ==
    /\ to_client # <<>>
    /\ Handle(Head(to_client))
    /\ to_client' = IF mode' = "connected" THEN Tail(to_client) ELSE <<>>
    /\ message' = IF Len(deliveries') > Len(deliveries)
                  THEN Append(message, Head(to_client).msg) ELSE message
    /\ UNCHANGED <<received, outbound, published, processed, arrivals, acknowledged>>

ConnectionEnds ==
    /\ Disconnect \/ incoming_disconnect
    /\ to_client' = <<>>
    /\ UNCHANGED <<received, outbound, published, processed, arrivals, acknowledged,
                   message>>

SystemNext ==
    \/ ClientLocal
    \/ SystemConnect
    \/ ClientReceive
    \/ ConnectionEnds
    \/ ServerReceive
    \/ \E p \in ServerPkids : ServerPublish(p)

SystemSpec == SystemInit /\ [][SystemNext]_systemVars

\* The driver runs while it has something to send or to read, the server reads
\* what arrives, and the application uses or drops its acknowledgement tokens
\* (dropping one acknowledges).  Nothing obliges anyone to connect, to submit
\* operations or to end a connection.
Fairness ==
    /\ WF_systemVars(ClientLocal /\ Send)
    /\ WF_systemVars(ClientReceive)
    /\ WF_systemVars(ConnectionEnds /\ application_disconnect)
    /\ WF_systemVars(ServerReceive)
    /\ \A d \in 1..MaxDeliveries :
         WF_systemVars(d \in DOMAIN deliveries /\ acknowledge(d) /\ UNCHANGED serverVars)

FairSystemSpec == SystemSpec /\ Fairness

-----------------------------------------------------------------------------
\* A conforming server never makes the client panic or report a protocol error:
\* every answer finds its operation in flight, and no PUBLISH arrives with an
\* identifier that still awaits its PUBACK (the assert of incoming_publish).
ConformingServerAccepted ==
    /\ mode \notin Panics
    /\ (Reading /\ to_client # <<>>) =>
         LET pkt == Head(to_client)
         IN /\ pkt.type = "SUBACK" => pkt.pkid \in PkidsOf(subscribe)
            /\ pkt.type = "UNSUBACK" => pkt.pkid \in PkidsOf(unsubscribe)
            /\ pkt.type = "PUBACK" => pkt.pkid \in PkidsOf(Entries(publish_qos1))
            /\ pkt.type = "PINGRESP" => pingreq # <<>>

\* A token resolves successfully only if the server carried out that very
\* operation: an answer is never credited to another operation that has the same
\* packet identifier or ping position, on this connection or on a later one.
CompletedMeansProcessed ==
    \A o \in Ops : token[o] = "completed" => o \in processed

\* QoS 1 messages first reach the server in the order in which the application
\* published them, across reconnections and replays.
FirstArrivalsInOrder ==
    \A i, j \in DOMAIN arrivals : i < j => arrivals[i] < arrivals[j]

\* The server takes a message as acknowledged only if the application was given
\* that very message and has used (or dropped) the token of one of its
\* deliveries: a token of an earlier connection acknowledges nothing else.
AcknowledgedByApplication ==
    \A m \in acknowledged :
        \E d \in DOMAIN deliveries : message[d] = m /\ deliveries[d].ack # "held"

Waits(o) == o \in Ops /\ token[o] = "pending"
AckWaits(d) == d \in DOMAIN deliveries /\ deliveries[d].ack = "pending"

\* Every operation submitted is answered as long as the connection lasts: none
\* waits forever for a packet identifier, a channel or its turn.
OperationsResolve ==
    \A o \in 1..MaxOps :
        (mode = "connected" /\ Waits(o)) ~> (mode # "connected" \/ ~Waits(o))

\* Every acknowledgement is written, or its connection ends, even though it waits
\* for those of all earlier deliveries.
AcknowledgementsResolve ==
    \A d \in 1..MaxDeliveries :
        (mode = "connected" /\ AckWaits(d)) ~> (mode # "connected" \/ ~AckWaits(d))
=============================================================================

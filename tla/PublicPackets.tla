---------------------------- MODULE PublicPackets ---------------------------
(***************************************************************************)
(* The packets as the application sees them (src/src/packet.rs), and their *)
(* conversions from and to those of the codec, Packets.  A struct of       *)
(* properties is a function from its fields, named as the properties are;  *)
(* an option or a vector is a sequence there as in Packets.  Reason codes  *)
(* are the subject of Reasons and pass through here.                       *)
(***************************************************************************)
EXTENDS Packets

-----------------------------------------------------------------------------
(***************************************************************************)
(* Properties: the fields of each struct, which the conversions copy one   *)
(* by one.  Authentication is no field of CONNECT's and CONNACK's, and the *)
(* conversion to the wire leaves it out.                                   *)
(***************************************************************************)
ConnectFields ==
    {"SessionExpiryInterval", "ReceiveMaximum", "MaximumPacketSize", "TopicAliasMaximum",
     "RequestResponseInformation", "RequestProblemInformation", "UserProperty"}

ConnAckFields ==
    {"SessionExpiryInterval", "ReceiveMaximum", "MaximumQoS", "RetainAvailable",
     "MaximumPacketSize", "AssignedClientIdentifier", "TopicAliasMaximum",
     "ReasonString", "UserProperty", "WildcardSubscriptionAvailable",
     "SubscriptionIdentifiersAvailable", "SharedSubscriptionAvailable",
     "ServerKeepAlive", "ResponseInformation", "ServerReference"}

PublishFields ==
    {"PayloadFormatIndicator", "MessageExpiryInterval", "TopicAlias", "ResponseTopic",
     "CorrelationData", "UserProperty", "SubscriptionIdentifier", "ContentType"}

WillFields ==
    {"WillDelayInterval", "PayloadFormatIndicator", "MessageExpiryInterval",
     "ContentType", "ResponseTopic", "CorrelationData", "UserProperty"}

PubAckFields == {"ReasonString", "UserProperty"}
PubRecFields == {"ReasonString", "UserProperty"}
PubRelFields == {"ReasonString", "UserProperty"}
PubCompFields == {"ReasonString", "UserProperty"}
SubscribeFields == {"SubscriptionIdentifier", "UserProperty"}
SubAckFields == {"ReasonString", "UserProperty"}
UnsubscribeFields == {"UserProperty"}
UnsubAckFields == {"ReasonString", "UserProperty"}
DisconnectFields ==
    {"SessionExpiryInterval", "ReasonString", "UserProperty", "ServerReference"}
AuthFields == {"ReasonString", "UserProperty"}

PublicFields ==
    [CONNECT |-> ConnectFields, CONNACK |-> ConnAckFields, PUBLISH |-> PublishFields,
     PUBACK |-> PubAckFields, PUBREC |-> PubRecFields, PUBREL |-> PubRelFields,
     PUBCOMP |-> PubCompFields, SUBSCRIBE |-> SubscribeFields, SUBACK |-> SubAckFields,
     UNSUBSCRIBE |-> UnsubscribeFields, UNSUBACK |-> UnsubAckFields,
     DISCONNECT |-> DisconnectFields, AUTH |-> AuthFields]

\* The layouts of Packets, by the same types
Layouts ==
    [CONNECT |-> ConnectProperties, CONNACK |-> ConnAckProperties,
     PUBLISH |-> PublishProperties, PUBACK |-> PubAck.properties,
     PUBREC |-> PubRec.properties, PUBREL |-> PubRel.properties,
     PUBCOMP |-> PubComp.properties, SUBSCRIBE |-> SubscribeProperties,
     SUBACK |-> SubAckProperties, UNSUBSCRIBE |-> UnsubscribeProperties,
     UNSUBACK |-> UnsubAckProperties, DISCONNECT |-> DisconnectProperties,
     AUTH |-> AuthProperties]

\* PayloadFormatIndicator and payload_is_utf8
IndicatorOf(is_utf8) == IF is_utf8 = 1 THEN "UTF8" ELSE "Unspecified"
IsUtf8(indicator) == IF indicator = "UTF8" THEN 1 ELSE 0

FromWire(names, fields) ==
    [n \in names |-> IF n = "PayloadFormatIndicator"
                     THEN <<IndicatorOf(fields["PayloadIsUtf8"][1])>> ELSE fields[n]]

ToWire(layout, public) ==
    [n \in DOMAIN NoProperties(layout) |->
        CASE n = "PayloadIsUtf8" -> <<IsUtf8(public["PayloadFormatIndicator"][1])>>
          [] n \in DOMAIN public -> public[n]
          [] OTHER -> <<>>]

\* Default of ConnectProperties, ConnAckProperties, PublishProperties; the other
\* structs derive it: no option, no user property.
ConnectDefault ==
    [SessionExpiryInterval |-> <<0>>, ReceiveMaximum |-> <<LargestInt>>,
     MaximumPacketSize |-> <<LargestInt>>, TopicAliasMaximum |-> <<0>>,
     RequestResponseInformation |-> <<0>>, RequestProblemInformation |-> <<1>>,
     UserProperty |-> <<>>]

ConnAckDefault ==
    [SessionExpiryInterval |-> <<>>, ReceiveMaximum |-> <<LargestInt>>,
     MaximumQoS |-> <<2>>, RetainAvailable |-> <<1>>, MaximumPacketSize |-> <<LargestInt>>,
     AssignedClientIdentifier |-> <<>>, TopicAliasMaximum |-> <<0>>,
     ReasonString |-> <<>>, UserProperty |-> <<>>, WildcardSubscriptionAvailable |-> <<1>>,
     SubscriptionIdentifiersAvailable |-> <<1>>, SharedSubscriptionAvailable |-> <<1>>,
     ServerKeepAlive |-> <<>>, ResponseInformation |-> <<>>, ServerReference |-> <<>>]

PublishDefault ==
    [n \in PublishFields |-> IF n = "PayloadFormatIndicator" THEN <<"Unspecified">> ELSE <<>>]

\* AuthenticationInfo: a method, and perhaps data
AuthenticationInfo(fields) ==
    IF fields["AuthenticationMethod"] = <<>> THEN <<>>
    ELSE <<[method |-> fields["AuthenticationMethod"][1],
            data |-> fields["AuthenticationData"]]>>

AuthenticatedWith(fields, info) ==
    IF info = <<>> THEN fields
    ELSE [fields EXCEPT !["AuthenticationMethod"] = <<info[1].method>>,
                        !["AuthenticationData"] = info[1].data]

-----------------------------------------------------------------------------
(***************************************************************************)
(* Packets that arrive.                                                    *)
(***************************************************************************)
PropertiesFrom(p) == FromWire(PublicFields[p.type], p.fields)

ConnAckFrom(p) ==
    [session_present |-> IF p.reason_code = 0 THEN p.session_present ELSE 0,
     reason |-> p.reason_code, properties |-> PropertiesFrom(p)]

\* A fault: a redelivery looks like the first delivery.
DeliveryQoSFirst(qos, id, dup) ==
    IF qos = 0 THEN [qos |-> 0]
    ELSE [qos |-> qos, packet_identifier |-> id, dup |-> 0]

\* DeliveryQoS: the identifier and DUP are there from QoS 1 on.
DeliveryQoS(qos, id, dup) ==
    IF qos = 0 THEN [qos |-> 0]
    ELSE [qos |-> qos, packet_identifier |-> id, dup |-> dup]

PublishFrom(p) ==
    [payload |-> p.payload, qos |-> DeliveryQoS(p.qos, p.packet_identifier, p.dup),
     retain |-> p.retain, topic_name |-> p.topic_name, properties |-> PropertiesFrom(p)]

\* PUBACK, PUBREC, PUBREL and PUBCOMP
AckFrom(p) ==
    [packet_identifier |-> p.packet_identifier, reason |-> p.reason_code,
     properties |-> PropertiesFrom(p)]

SubAckFrom(p) ==
    [packet_identifier |-> p.packet_identifier, reasons |-> p.list,
     properties |-> PropertiesFrom(p)]

UnsubAckFrom(p) ==
    [packet_identifier |-> p.packet_identifier, reasons |-> p.list,
     properties |-> PropertiesFrom(p)]

DisconnectFrom(p) == [reason |-> p.reason_code, properties |-> PropertiesFrom(p)]

AuthFrom(p) ==
    [reason |-> p.reason_code, authentication_info |-> AuthenticationInfo(p.fields),
     properties |-> PropertiesFrom(p)]

-----------------------------------------------------------------------------
(***************************************************************************)
(* Packets that leave.                                                     *)
(***************************************************************************)
PubAckTo(public) ==
    [type |-> "PUBACK", packet_identifier |-> public.packet_identifier,
     reason_code |-> public.reason,
     fields |-> ToWire(Layouts["PUBACK"], public.properties)]

AuthTo(public) ==
    [type |-> "AUTH", reason_code |-> public.reason,
     fields |-> AuthenticatedWith(ToWire(Layouts["AUTH"], public.properties),
                                  public.authentication_info)]

\* The will, which is a publication and a delay
WillTo(will) ==
    [qos |-> will.qos, retain |-> will.retain, topic_name |-> will.topic_name,
     payload |-> will.payload, fields |-> ToWire(WillProperties, will.properties)]

\* ConnectHandle::mqtt_connect: the CONNECT for what the application configured
mqtt_connect(c) ==
    [type |-> "CONNECT", clean_start |-> c.clean_start, keep_alive |-> c.keep_alive,
     client_id |-> c.client_id, will |-> [i \in DOMAIN c.will |-> WillTo(c.will[i])],
     username |-> c.username, password |-> c.password,
     fields |-> AuthenticatedWith(ToWire(Layouts["CONNECT"], c.properties),
                                  c.authentication_info)]

\* PacketIdentifierDupQoS from DeliveryQoS
DupQoS(d) ==
    IF d.qos = 0 THEN [qos |-> 0, packet_identifier |-> 0, dup |-> 0] ELSE d

(***************************************************************************)
(* The methods of the handles, up to the packet that the session makes of  *)
(* the request with the packet identifier id.  Those that take QoS 2       *)
(* panic.                                                                  *)
(***************************************************************************)
publish_qos0(topic_name, payload, retain, properties) ==
    [type |-> "PUBLISH", topic_name |-> topic_name, qos |-> 0, dup |-> 0,
     packet_identifier |-> 0, retain |-> retain, payload |-> payload,
     fields |-> ToWire(PublishProperties, properties)]

publish_qos1(topic_name, payload, retain, properties, id) ==
    [type |-> "PUBLISH", topic_name |-> topic_name, qos |-> 1, dup |-> 0,
     packet_identifier |-> id, retain |-> retain, payload |-> payload,
     fields |-> ToWire(PublishProperties, properties)]

\* A fault: the two retain options change places.
subscribe_swapped(topic_filter, max_qos, no_local, retain_options, properties, id) ==
    [type |-> "SUBSCRIBE", packet_identifier |-> id,
     subscribe_to |-> <<[topic_filter |-> topic_filter, maximum_qos |-> max_qos,
                         no_local |-> retain_options.retain_as_published,
                         retain_as_published |-> no_local,
                         retain_handling |-> retain_options.retain_handling]>>,
     fields |-> ToWire(SubscribeProperties, properties)]

subscribe(topic_filter, max_qos, no_local, retain_options, properties, id) ==
    [type |-> "SUBSCRIBE", packet_identifier |-> id,
     subscribe_to |-> <<[topic_filter |-> topic_filter, maximum_qos |-> max_qos,
                         no_local |-> no_local,
                         retain_as_published |-> retain_options.retain_as_published,
                         retain_handling |-> retain_options.retain_handling]>>,
     fields |-> ToWire(SubscribeProperties, properties)]

\* RetainOptions::default
RetainDefault == [retain_as_published |-> 1, retain_handling |-> 0]

unsubscribe(topic_filter, properties, id) ==
    [type |-> "UNSUBSCRIBE", packet_identifier |-> id, list |-> <<topic_filter>>,
     fields |-> ToWire(UnsubscribeProperties, properties)]

\* DisconnectHandle::disconnect
disconnect(properties) ==
    [type |-> "DISCONNECT", reason_code |-> 0,
     fields |-> ToWire(DisconnectProperties, properties)]
=============================================================================

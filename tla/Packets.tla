------------------------------- MODULE Packets ------------------------------
(***************************************************************************)
(* The bodies of the packets of MQTT 5 (src/src/mqtt_proto/*.rs): how each *)
(* is encoded and decoded.  The client passes ProtocolVersion::V5          *)
(* everywhere, so the branches for version 3 are left out.                 *)
(*                                                                         *)
(* On the wire a packet is a record of its type, the flags of its first    *)
(* byte, what precedes the properties (head), the property section, the    *)
(* will's property section and what follows (tail).  A section is a        *)
(* sequence of properties [prop, val]; one that is not there is the empty  *)
(* sequence, one that is there a sequence of one.                          *)
(*                                                                         *)
(* Every value is 0, 1 or 2.  Of an integer, 2 is the largest; of a byte   *)
(* that encodes a Boolean, 2 is neither; of a reason code, 0 is success    *)
(* and 2 is not recognised; of a string, 0 is the empty one; of a filter,  *)
(* 0 is invalid and 2 is shared.  Bytes made of bits keep their bits.      *)
(*                                                                         *)
(* A decoder that can fail returns a set: empty, or of the one result.     *)
(***************************************************************************)
EXTENDS Integers, SequencesExt

LargestInt == 2
Unrecognized == 2
Values == 0..2

Bit(n, k) == (n \div 2^k) % 2

\* try_get_u8 and the like, on a body of which too little may be there
TryGet(s, i) == IF i \in DOMAIN s THEN {s[i]} ELSE {}
TryGetPacketIdentifier(s) == TryGet(s, 1) \ {0}

-----------------------------------------------------------------------------
(***************************************************************************)
(* Properties.                                                             *)
(***************************************************************************)
Booleans ==
    {"PayloadIsUtf8", "RequestProblemInformation", "RequestResponseInformation",
     "RetainAvailable", "WildcardSubscriptionAvailable",
     "SharedSubscriptionAvailable", "SubscriptionIdentifiersAvailable"}

NonZeros == {"MaximumPacketSize", "ReceiveMaximum", "SubscriptionIdentifier", "TopicAlias"}

Others ==
    {"AssignedClientIdentifier", "AuthenticationData", "AuthenticationMethod",
     "ContentType", "CorrelationData", "MessageExpiryInterval", "ReasonString",
     "ResponseInformation", "ServerKeepAlive", "ServerReference",
     "SessionExpiryInterval", "TopicAliasMaximum", "UserProperty", "WillDelayInterval"}

Properties == Booleans \cup NonZeros \cup Others \cup {"MaximumQoS", "ResponseTopic"}

\* Property::decode
Decodable(p) ==
    \/ p.prop \in Others
    \/ p.prop \in Booleans \cup {"MaximumQoS"} /\ p.val \in {0, 1}
    \/ p.prop \in NonZeros \cup {"ResponseTopic"} /\ p.val # 0

\* PropertyRef::encode: the value that each kind of property is not written for
Default ==
    [ConnectSessionExpiryInterval |-> 0,
     MaximumPacketSize |-> LargestInt,
     MaximumQoS |-> 2,
     PayloadIsUtf8 |-> 0,
     ReceiveMaximum |-> LargestInt,
     RequestProblemInformation |-> 1,
     RequestResponseInformation |-> 0,
     RetainAvailable |-> 1,
     SharedSubscriptionAvailable |-> 1,
     SubscriptionIdentifiersAvailable |-> 1,
     TopicAliasMaximum |-> 0,
     WildcardSubscriptionAvailable |-> 1,
     WillDelayInterval |-> 0]

\* A fault: every property with a default is left out when it is zero.
WrittenNonZero(ref, v) == ref \notin DOMAIN Default \/ v # 0

Written(ref, v) == ref \notin DOMAIN Default \/ v # Default[ref]

\* A field of a packet that travels as a property: how often, what it is when the
\* property is not there, and the variant of PropertyRef that writes it.
Optional(p) == [prop |-> p, ref |-> p, repeats |-> FALSE, absent |-> <<>>]
Repeated(p) == [Optional(p) EXCEPT !.repeats = TRUE]
Defaulting(p, d) == [Optional(p) EXCEPT !.absent = <<d>>]

Occurrences(section, prop) ==
    LET found == SelectSeq(section, LAMBDA p : p.prop = prop)
    IN [i \in DOMAIN found |-> found[i].val]

\* What the fields of a layout are when no property is there
NoProperties(layout) ==
    [prop \in {f.prop : f \in ToSet(layout)} |->
        (CHOOSE f \in ToSet(layout) : f.prop = prop).absent]

\* A fault: a property that may occur once is accepted twice.
AcceptedRepeated(layout, section) ==
    \A i \in DOMAIN section :
        Decodable(section[i]) /\ \E f \in ToSet(layout) : f.prop = section[i].prop

Accepted(layout, section) ==
    /\ \A i \in DOMAIN section :
          Decodable(section[i]) /\ \E f \in ToSet(layout) : f.prop = section[i].prop
    /\ \A f \in ToSet(layout) : f.repeats \/ Len(Occurrences(section, f.prop)) <= 1

\* decode_properties!
decode_properties(layout, section) ==
    IF Accepted(layout, section)
    THEN {[prop \in DOMAIN NoProperties(layout) |->
              IF Occurrences(section, prop) = <<>> THEN NoProperties(layout)[prop]
              ELSE Occurrences(section, prop)]}
    ELSE {}

\* encode_properties!
encode_properties(layout, fields) ==
    FlattenSeq([i \in DOMAIN layout |->
        LET vals == SelectSeq(fields[layout[i].prop],
                              LAMBDA v : Written(layout[i].ref, v))
        IN [j \in DOMAIN vals |-> [prop |-> layout[i].prop, val |-> vals[j]]]])

\* Authentication::of refuses data without a method.
Authenticated(fields) ==
    fields["AuthenticationData"] # <<>> => fields["AuthenticationMethod"] # <<>>

\* A section that must be there, and one that a short form leaves out
Section(layout, sections) ==
    UNION {decode_properties(layout, s) : s \in ToSet(sections)}

OptionalSection(layout, sections) ==
    IF sections = <<>> THEN {NoProperties(layout)} ELSE Section(layout, sections)

Wire(type, flags, head, sections, tail) ==
    [type |-> type, flags |-> flags, head |-> head, section |-> sections,
     will |-> <<>>, tail |-> tail]

-----------------------------------------------------------------------------
(***************************************************************************)
(* PUBACK, PUBREC, PUBREL and PUBCOMP, which the source spells out four    *)
(* times with the same code: without a reason code it is success, and      *)
(* without a property length there are no properties.                      *)
(***************************************************************************)
PubAck == [flags |-> 0, properties |-> <<Optional("ReasonString"), Repeated("UserProperty")>>]
PubRec == [flags |-> 0, properties |-> <<Optional("ReasonString"), Repeated("UserProperty")>>]
PubRel == [flags |-> 2, properties |-> <<Optional("ReasonString"), Repeated("UserProperty")>>]
PubComp == [flags |-> 0, properties |-> <<Optional("ReasonString"), Repeated("UserProperty")>>]

Acks == [PUBACK |-> PubAck, PUBREC |-> PubRec, PUBREL |-> PubRel, PUBCOMP |-> PubComp]

ShortReason(s, i) == IF i \in DOMAIN s THEN {s[i]} \ {Unrecognized} ELSE {0}

DecodeAck(w) ==
    {[type |-> w.type, packet_identifier |-> id, reason_code |-> r, fields |-> f] :
        id \in TryGetPacketIdentifier(w.head), r \in ShortReason(w.head, 2),
        f \in OptionalSection(Acks[w.type].properties, w.section)}

EncodeAck(p) ==
    LET layout == Acks[p.type].properties
        plain == p.fields = NoProperties(layout)
    IN Wire(p.type, Acks[p.type].flags,
            IF p.reason_code = 0 /\ plain THEN <<p.packet_identifier>>
            ELSE <<p.packet_identifier, p.reason_code>>,
            IF plain THEN <<>> ELSE <<encode_properties(layout, p.fields)>>,
            <<>>)

-----------------------------------------------------------------------------
(***************************************************************************)
(* DISCONNECT, with the same short forms, and AUTH, with only the empty    *)
(* one, which is never written.                                            *)
(***************************************************************************)
DisconnectProperties ==
    <<Optional("SessionExpiryInterval"), Optional("ReasonString"),
      Repeated("UserProperty"), Optional("ServerReference")>>

DecodeDisconnect(w) ==
    {[type |-> w.type, reason_code |-> r, fields |-> f] :
        r \in ShortReason(w.head, 1),
        f \in OptionalSection(DisconnectProperties, w.section)}

EncodeDisconnect(p) ==
    LET plain == p.fields = NoProperties(DisconnectProperties)
    IN Wire(p.type, 0,
            IF p.reason_code = 0 /\ plain THEN <<>> ELSE <<p.reason_code>>,
            IF plain THEN <<>> ELSE <<encode_properties(DisconnectProperties, p.fields)>>,
            <<>>)

AuthProperties ==
    <<Optional("AuthenticationMethod"), Optional("AuthenticationData"),
      Optional("ReasonString"), Repeated("UserProperty")>>

DecodeAuth(w) ==
    {[type |-> w.type, reason_code |-> r, fields |-> f] :
        r \in ShortReason(w.head, 1),
        f \in {g \in IF w.head = <<>> THEN {NoProperties(AuthProperties)}
                     ELSE Section(AuthProperties, w.section) : Authenticated(g)}}

EncodeAuth(p) ==
    Wire(p.type, 0, <<p.reason_code>>, <<encode_properties(AuthProperties, p.fields)>>, <<>>)

-----------------------------------------------------------------------------
(***************************************************************************)
(* SUBSCRIBE and UNSUBSCRIBE, and their acknowledgements.                  *)
(***************************************************************************)
SubscribeProperties == <<Optional("SubscriptionIdentifier"), Repeated("UserProperty")>>

\* SubscribeOptions::encode
SubscribeOptionsByte(o) ==
    o.maximum_qos + 4 * o.no_local + 8 * o.retain_as_published + 16 * o.retain_handling

\* SubscribeTo::decode: a filter, and the byte of its options
DecodeSubscribeTo(filter, byte) ==
    IF /\ filter # 0
       /\ byte % 4 # 3 /\ (byte \div 16) % 4 # 3 /\ byte < 64
       /\ ~(filter = 2 /\ Bit(byte, 2) = 1)
    THEN {[topic_filter |-> filter, maximum_qos |-> byte % 4, no_local |-> Bit(byte, 2),
           retain_as_published |-> Bit(byte, 3), retain_handling |-> (byte \div 16) % 4]}
    ELSE {}

DecodeSubscribe(w) ==
    LET requests == [i \in 1..(Len(w.tail) \div 2) |->
                        DecodeSubscribeTo(w.tail[2 * i - 1], w.tail[2 * i])]
    IN IF \/ w.tail = <<>> \/ Len(w.tail) % 2 = 1
          \/ \E i \in DOMAIN requests : requests[i] = {}
       THEN {}
       ELSE {[type |-> w.type, packet_identifier |-> id, fields |-> f,
              subscribe_to |-> [i \in DOMAIN requests |-> CHOOSE r \in requests[i] : TRUE]] :
                id \in TryGetPacketIdentifier(w.head),
                f \in Section(SubscribeProperties, w.section)}

EncodeSubscribe(p) ==
    Wire(p.type, 2, <<p.packet_identifier>>,
         <<encode_properties(SubscribeProperties, p.fields)>>,
         FlattenSeq([i \in DOMAIN p.subscribe_to |->
             <<p.subscribe_to[i].topic_filter, SubscribeOptionsByte(p.subscribe_to[i])>>]))

UnsubscribeProperties == <<Repeated("UserProperty")>>

\* A packet identifier, properties, and at least one of something, none of it refused
DecodeList(w, layout, refused) ==
    IF w.tail = <<>> \/ Contains(w.tail, refused) THEN {}
    ELSE {[type |-> w.type, packet_identifier |-> id, fields |-> f, list |-> w.tail] :
              id \in TryGetPacketIdentifier(w.head), f \in Section(layout, w.section)}

DecodeUnsubscribe(w) == DecodeList(w, UnsubscribeProperties, 0)

EncodeUnsubscribe(p) ==
    Wire(p.type, 2, <<p.packet_identifier>>,
         <<encode_properties(UnsubscribeProperties, p.fields)>>, p.list)

SubAckProperties == <<Optional("ReasonString"), Repeated("UserProperty")>>

DecodeSubAck(w) == DecodeList(w, SubAckProperties, Unrecognized)

EncodeSubAck(p) ==
    Wire(p.type, 0, <<p.packet_identifier>>,
         <<encode_properties(SubAckProperties, p.fields)>>, p.list)

UnsubAckProperties == <<Optional("ReasonString"), Repeated("UserProperty")>>

DecodeUnsubAck(w) == DecodeList(w, UnsubAckProperties, Unrecognized)

EncodeUnsubAck(p) ==
    Wire(p.type, 0, <<p.packet_identifier>>,
         <<encode_properties(UnsubAckProperties, p.fields)>>, p.list)

-----------------------------------------------------------------------------
(***************************************************************************)
(* PUBLISH: the flags of the first byte, a topic, an identifier unless the *)
(* quality of service is 0, and a payload that is all the rest.            *)
(***************************************************************************)
PublishProperties ==
    <<Defaulting("PayloadIsUtf8", 0), Optional("MessageExpiryInterval"),
      Optional("TopicAlias"), Optional("ResponseTopic"), Optional("CorrelationData"),
      Repeated("UserProperty"), Repeated("SubscriptionIdentifier"),
      Optional("ContentType")>>

DecodePublish(w) ==
    LET dup == Bit(w.flags, 3)
        qos == (w.flags \div 2) % 4
    IN IF qos = 3 \/ (qos = 0 /\ dup = 1) THEN {}
       ELSE {[type |-> w.type, topic_name |-> t, qos |-> qos, dup |-> dup,
              packet_identifier |-> id, retain |-> Bit(w.flags, 0), fields |-> f,
              payload |-> w.tail] :
                t \in TryGet(w.head, 1) \ {0},
                id \in IF qos = 0 THEN {0} ELSE TryGet(w.head, 2) \ {0},
                f \in Section(PublishProperties, w.section)}

\* Publish::encode, and the flags that PacketRef::encode gives it
EncodePublish(p) ==
    Wire(p.type, 8 * p.dup + 2 * p.qos + p.retain,
         IF p.qos = 0 THEN <<p.topic_name>> ELSE <<p.topic_name, p.packet_identifier>>,
         <<encode_properties(PublishProperties, p.fields)>>, p.payload)

-----------------------------------------------------------------------------
(***************************************************************************)
(* CONNECT: version, flags and keep-alive; properties; and strings, of     *)
(* which the flags say which are there: the client identifier, the will    *)
(* with its topic and payload, the user name and the password.             *)
(***************************************************************************)
V5 == 5

ConnectProperties ==
    <<[Defaulting("SessionExpiryInterval", 0) EXCEPT !.ref = "ConnectSessionExpiryInterval"],
      Defaulting("ReceiveMaximum", LargestInt), Defaulting("MaximumPacketSize", LargestInt),
      Defaulting("TopicAliasMaximum", 0), Defaulting("RequestResponseInformation", 0),
      Defaulting("RequestProblemInformation", 1), Repeated("UserProperty"),
      Optional("AuthenticationMethod"), Optional("AuthenticationData")>>

WillProperties ==
    <<Defaulting("WillDelayInterval", 0), Defaulting("PayloadIsUtf8", 0),
      Optional("MessageExpiryInterval"), Optional("ContentType"), Optional("ResponseTopic"),
      Optional("CorrelationData"), Repeated("UserProperty")>>

\* The will: none, or one with its fields
DecodeWill(flags, tail, section) ==
    IF Bit(flags, 2) = 0
    THEN IF (flags \div 8) % 8 = 0 THEN {<<>>} ELSE {}
    ELSE {<<[qos |-> (flags \div 8) % 4, retain |-> Bit(flags, 5), topic_name |-> t,
             payload |-> b, fields |-> f]>> :
              t \in TryGet(tail, 2) \ {0}, b \in TryGet(tail, 3),
              f \in IF (flags \div 8) % 4 = 3 THEN {} ELSE Section(WillProperties, section)}

\* decode_start and Connect::decode_rest_v5
DecodeConnect(w) ==
    LET flags == w.head[2]
        named == 1 + 2 * Bit(flags, 2)      \* strings before the user name
        users == named + Bit(flags, 7)
    IN IF \/ Len(w.head) < 3 \/ w.head[1] # V5 \/ Bit(flags, 0) = 1
          \/ Len(w.tail) # users + Bit(flags, 6)
       THEN {}
       ELSE {[type |-> w.type, clean_start |-> Bit(flags, 1), keep_alive |-> w.head[3],
              client_id |-> SelectSeq(<<w.tail[1]>>, LAMBDA id : id # 0), will |-> will,
              username |-> SubSeq(w.tail, named + 1, users),
              password |-> SubSeq(w.tail, users + 1, Len(w.tail)), fields |-> f] :
                will \in DecodeWill(flags, w.tail, w.will),
                f \in {g \in Section(ConnectProperties, w.section) : Authenticated(g)}}

ClientStrings(p) ==
    (IF p.client_id = <<>> THEN <<0>> ELSE p.client_id)
        \o (IF p.will = <<>> THEN <<>> ELSE <<p.will[1].topic_name, p.will[1].payload>>)

\* Connect::encode
EncodeConnect(p) ==
    LET will == p.will # <<>>
        flags == 128 * Len(p.username) + 64 * Len(p.password) + 2 * p.clean_start
                 + IF will THEN 4 + 8 * p.will[1].qos + 32 * p.will[1].retain ELSE 0
    IN [Wire(p.type, 0, <<V5, flags, p.keep_alive>>,
             <<encode_properties(ConnectProperties, p.fields)>>,
             ClientStrings(p) \o p.username \o p.password)
        EXCEPT !.will = IF will THEN <<encode_properties(WillProperties, p.will[1].fields)>>
                        ELSE <<>>]

-----------------------------------------------------------------------------
(***************************************************************************)
(* CONNACK: of a refused connection, whether a session is present is       *)
(* forgotten.                                                              *)
(***************************************************************************)
ConnAckProperties ==
    <<Optional("SessionExpiryInterval"), Defaulting("ReceiveMaximum", LargestInt),
      Defaulting("MaximumQoS", 2), Defaulting("RetainAvailable", 1),
      Defaulting("MaximumPacketSize", LargestInt), Optional("AssignedClientIdentifier"),
      Defaulting("TopicAliasMaximum", 0), Optional("ReasonString"),
      Repeated("UserProperty"), Defaulting("WildcardSubscriptionAvailable", 1),
      Defaulting("SharedSubscriptionAvailable", 1),
      Defaulting("SubscriptionIdentifiersAvailable", 1), Optional("ServerKeepAlive"),
      Optional("ResponseInformation"), Optional("ServerReference"),
      Optional("AuthenticationMethod"), Optional("AuthenticationData")>>

DecodeConnAck(w) ==
    {[type |-> w.type, session_present |-> IF r = 0 THEN s ELSE 0, reason_code |-> r,
      fields |-> f] :
        s \in TryGet(w.head, 1) \cap {0, 1}, r \in TryGet(w.head, 2) \ {Unrecognized},
        f \in {g \in Section(ConnAckProperties, w.section) : Authenticated(g)}}

EncodeConnAck(p) ==
    Wire(p.type, 0, <<p.session_present, p.reason_code>>,
         <<encode_properties(ConnAckProperties, p.fields)>>, <<>>)

-----------------------------------------------------------------------------
(***************************************************************************)
(* All packets.                                                            *)
(***************************************************************************)
PingTypes == {"PINGREQ", "PINGRESP"}

\* The types whose flags are 2, and those that end before a tail
SetsFlags == {"PUBREL", "SUBSCRIBE", "UNSUBSCRIBE"}
Tailless == DOMAIN Acks \cup PingTypes \cup {"DISCONNECT", "AUTH", "CONNACK"}

\* PingReq::decode and PingResp::decode read nothing; Packet::decode finds what is left.
DecodePing(w) == IF w.head = <<>> /\ w.section = <<>> THEN {[type |-> w.type]} ELSE {}

\* Packet::decode: a type and its flags, and nothing left over
Recognized(w) ==
    /\ w.type = "PUBLISH" \/ w.flags = IF w.type \in SetsFlags THEN 2 ELSE 0
    /\ w.type \in Tailless => w.tail = <<>>

DecodeBody(w) ==
    CASE w.type \in DOMAIN Acks -> DecodeAck(w)
      [] w.type \in PingTypes -> DecodePing(w)
      [] w.type = "DISCONNECT" -> DecodeDisconnect(w)
      [] w.type = "AUTH" -> DecodeAuth(w)
      [] w.type = "SUBSCRIBE" -> DecodeSubscribe(w)
      [] w.type = "UNSUBSCRIBE" -> DecodeUnsubscribe(w)
      [] w.type = "SUBACK" -> DecodeSubAck(w)
      [] w.type = "UNSUBACK" -> DecodeUnsubAck(w)
      [] w.type = "PUBLISH" -> DecodePublish(w)
      [] w.type = "CONNECT" -> DecodeConnect(w)
      [] w.type = "CONNACK" -> DecodeConnAck(w)

Decode(w) == IF Recognized(w) THEN DecodeBody(w) ELSE {}

\* PacketRef::encode
Encode(p) ==
    CASE p.type \in DOMAIN Acks -> EncodeAck(p)
      [] p.type \in PingTypes -> Wire(p.type, 0, <<>>, <<>>, <<>>)
      [] p.type = "DISCONNECT" -> EncodeDisconnect(p)
      [] p.type = "AUTH" -> EncodeAuth(p)
      [] p.type = "SUBSCRIBE" -> EncodeSubscribe(p)
      [] p.type = "UNSUBSCRIBE" -> EncodeUnsubscribe(p)
      [] p.type = "SUBACK" -> EncodeSubAck(p)
      [] p.type = "UNSUBACK" -> EncodeUnsubAck(p)
      [] p.type = "PUBLISH" -> EncodePublish(p)
      [] p.type = "CONNECT" -> EncodeConnect(p)
      [] p.type = "CONNACK" -> EncodeConnAck(p)

-----------------------------------------------------------------------------
(***************************************************************************)
(* What MQTT 5 says of properties (its table 2-4): the packets each may be *)
(* in, "Will" being the will's section of CONNECT.                         *)
(***************************************************************************)
MqttTable ==
    [PayloadIsUtf8 |-> {"PUBLISH", "Will"},
     MessageExpiryInterval |-> {"PUBLISH", "Will"},
     ContentType |-> {"PUBLISH", "Will"},
     ResponseTopic |-> {"PUBLISH", "Will"},
     CorrelationData |-> {"PUBLISH", "Will"},
     SubscriptionIdentifier |-> {"PUBLISH", "SUBSCRIBE"},
     SessionExpiryInterval |-> {"CONNECT", "CONNACK", "DISCONNECT"},
     AssignedClientIdentifier |-> {"CONNACK"},
     ServerKeepAlive |-> {"CONNACK"},
     AuthenticationMethod |-> {"CONNECT", "CONNACK", "AUTH"},
     AuthenticationData |-> {"CONNECT", "CONNACK", "AUTH"},
     RequestProblemInformation |-> {"CONNECT"},
     WillDelayInterval |-> {"Will"},
     RequestResponseInformation |-> {"CONNECT"},
     ResponseInformation |-> {"CONNACK"},
     ServerReference |-> {"CONNACK", "DISCONNECT"},
     ReasonString |-> {"CONNACK", "PUBACK", "PUBREC", "PUBREL", "PUBCOMP", "SUBACK",
                       "UNSUBACK", "DISCONNECT", "AUTH"},
     ReceiveMaximum |-> {"CONNECT", "CONNACK"},
     TopicAliasMaximum |-> {"CONNECT", "CONNACK"},
     TopicAlias |-> {"PUBLISH"},
     MaximumQoS |-> {"CONNACK"},
     RetainAvailable |-> {"CONNACK"},
     UserProperty |-> {"CONNECT", "CONNACK", "PUBLISH", "Will", "PUBACK", "PUBREC",
                       "PUBREL", "PUBCOMP", "SUBSCRIBE", "SUBACK", "UNSUBSCRIBE",
                       "UNSUBACK", "DISCONNECT", "AUTH"},
     MaximumPacketSize |-> {"CONNECT", "CONNACK"},
     WildcardSubscriptionAvailable |-> {"CONNACK"},
     SubscriptionIdentifiersAvailable |-> {"CONNACK"},
     SharedSubscriptionAvailable |-> {"CONNACK"}]

\* Values that are protocol errors, and a response topic that is no topic
MqttValue(p) ==
    CASE p.prop \in {"MaximumQoS", "PayloadIsUtf8", "RequestProblemInformation",
                     "RequestResponseInformation", "RetainAvailable",
                     "WildcardSubscriptionAvailable", "SharedSubscriptionAvailable",
                     "SubscriptionIdentifiersAvailable"} -> p.val < 2
      [] p.prop \in {"MaximumPacketSize", "ReceiveMaximum", "ResponseTopic",
                     "SubscriptionIdentifier", "TopicAlias"} -> p.val > 0
      [] OTHER -> TRUE

MqttSection(place, section) ==
    /\ \A p \in ToSet(section) :
          p.prop \in DOMAIN MqttTable /\ place \in MqttTable[p.prop] /\ MqttValue(p)
    /\ \A i, j \in DOMAIN section :
          i # j /\ section[i].prop = section[j].prop =>
              \/ section[i].prop = "UserProperty"
              \/ section[i].prop = "SubscriptionIdentifier" /\ place = "PUBLISH"
    /\ (\E p \in ToSet(section) : p.prop = "AuthenticationData") =>
           \E p \in ToSet(section) : p.prop = "AuthenticationMethod"
=============================================================================

------------------------------- MODULE MCCodec ------------------------------
(***************************************************************************)
(* The pure functions of the packet codec and of the transports, against   *)
(* reference definitions.  A filter and a topic, a sequence of bytes, the  *)
(* properties of a packet, its reason codes or the answer of a proxy grow  *)
(* one character, byte, property, code or line at a time; the invariants   *)
(* compare, in every state, what the code computes for them with what MQTT *)
(* or HTTP defines, or with the inverse computation.                       *)
(***************************************************************************)
EXTENDS Topics, Varint, PublicPackets, Reasons, Transport

CONSTANTS
    FilterStarts,       \* beginnings of a filter
    FilterCharacters, TopicCharacters,
    MaxGrowth,          \* bound: characters appended to the beginning of a filter
    MaxTopic,           \* bound: length of a topic
    MaxBytes,           \* bound: length of a sequence of bytes
    MaxProperties,      \* bound: properties of a packet
    MaxCodes,           \* bound: reason codes of a SUBACK or UNSUBACK
    MaxLines            \* bound: lines of a proxy's response

VARIABLES filter, room, topic, bytes, wire, kind, codes, config, response, eof

connectVars == <<config, response, eof>>
vars == <<filter, room, topic, bytes, wire, kind, codes, connectVars>>

\* Packets that carry properties, one of each type, and one with a will
Carriers ==
    {Wire(t, Acks[t].flags, <<1, 0>>, << <<>> >>, <<>>) : t \in DOMAIN Acks}
    \cup {Wire("DISCONNECT", 0, <<0>>, << <<>> >>, <<>>),
          Wire("AUTH", 0, <<0>>, << <<>> >>, <<>>),
          Wire("CONNACK", 0, <<0, 0>>, << <<>> >>, <<>>),
          Wire("SUBSCRIBE", 2, <<1>>, << <<>> >>, <<1, 0>>),
          Wire("UNSUBSCRIBE", 2, <<1>>, << <<>> >>, <<1>>),
          Wire("SUBACK", 0, <<1>>, << <<>> >>, <<0>>),
          Wire("UNSUBACK", 0, <<1>>, << <<>> >>, <<0>>),
          Wire("PUBLISH", 0, <<1>>, << <<>> >>, <<>>),
          Wire("CONNECT", 0, <<V5, 0, 0>>, << <<>> >>, <<0>>),
          [Wire("CONNECT", 0, <<V5, 4, 0>>, << <<>> >>, <<0, 1, 1>>) EXCEPT !.will = << <<>> >>]}

Cut(s) == {SubSeq(s, 1, n) : n \in 0..Len(s)}

\* Packets without properties: all flags, short forms, and bodies cut short or too long
Bare ==
    {Wire(t, flags, head, <<>>, <<>>) : t \in DOMAIN Acks, flags \in 0..3,
        head \in UNION {Cut(<<id, r>>) : id \in 0..1, r \in Values}}
    \cup {Wire(t, flags, head, <<>>, <<>>) : t \in PingTypes \cup {"DISCONNECT", "AUTH"},
            flags \in 0..1, head \in {<<>>, <<0>>, <<1>>, <<2>>}}
    \cup {Wire(t, flags, <<id>>, sections, tail) :
            t \in {"UNSUBSCRIBE", "SUBACK", "UNSUBACK"}, flags \in 0..3, id \in 0..1,
            sections \in {<<>>, << <<>> >>},
            tail \in UNION {Cut(<<a, b>>) : a \in Values, b \in Values}}
    \cup {Wire("SUBSCRIBE", 2, <<1>>, << <<>> >>, tail) :
            tail \in {<<f, o>> : f \in Values, o \in 0..127}
                     \cup {<<1, 0, f>> : f \in Values}
                     \cup {<<1, 0, f, o>> : f \in Values, o \in 0..63}}
    \cup {Wire("PUBLISH", flags, <<t>>, << <<>> >>, <<1>>) : flags \in {0, 1, 8, 9}, t \in Values}
    \cup {Wire("PUBLISH", flags, <<t, id>>, << <<>> >>, <<>>) :
            flags \in 0..15 \ {0, 1, 8, 9}, t \in Values, id \in Values}
    \cup {Wire("CONNACK", 0, <<s, r>>, sections, tail) :
            s \in Values, r \in Values, sections \in {<<>>, << <<>> >>}, tail \in {<<>>, <<0>>}}
    \cup {[Wire("CONNECT", 0, <<v, flags, k>>, << <<>> >>, tail)
             EXCEPT !.will = IF Bit(flags, 2) = 1 THEN << <<>> >> ELSE <<>>] :
            v \in {4, V5}, flags \in 0..255, k \in {0, 1},
            tail \in Cut(<<0, 1, 2, 1, 2, 0>>) \cup Cut(<<1, 1, 0, 2, 1, 0>>)}

NoWire == Wire("", 0, <<>>, <<>>, <<>>)

NoKind == ""

Host(name) == [name |-> name, colons |-> name = "v6", control |-> name = "split"]

\* A server and a proxy for each transport, with hosts a request can and cannot name
Configurations ==
    [type : {"Tcp", "Tls", "Ws"}, host : {Host("a"), Host("v6"), Host("split"), Host("")},
     port : {0, 1}, tls : BOOLEAN, scheme : {"ws", "wss", "http"},
     proxy : {<<>>} \cup {<<[https |-> s, host |-> Host("p"), port |-> 2, auth |-> a]>> :
                            s \in BOOLEAN, a \in {"None", "Basic"}}]

NoConfig == [type |-> ""]

\* Status lines that open a tunnel, status lines that do not, headers, blank lines
Successful == {Line(2, FALSE, "HTTP/1.1", 3, 200), Line(2, FALSE, "HTTP/1.0", 3, 299)}
Lines ==
    Successful
    \cup {Line(2, FALSE, "HTTP/1.1", 3, 199), Line(2, FALSE, "HTTP/1.1", 3, 300),
          Line(2, FALSE, "HTTP/1.1", 4, 200), Line(2, FALSE, "HTTP/2", 3, 200)}
    \cup {CutLine(2), CutLine(3), Line(1, TRUE, "", 0, 0), Line(2, TRUE, "", 0, 0)}

Init ==
    /\ \/ /\ filter \in FilterStarts /\ room = MaxGrowth
          /\ wire = NoWire /\ kind = NoKind /\ config = NoConfig
       \/ /\ filter = <<>> /\ room = 0
          /\ \/ wire \in Carriers \cup Bare /\ kind = NoKind /\ config = NoConfig
             \/ wire = NoWire /\ kind \in DOMAIN WireReasons /\ config = NoConfig
             \/ wire = NoWire /\ kind = NoKind /\ config \in Configurations
    /\ response = <<>>
    /\ eof = FALSE
    /\ topic = <<>>
    /\ bytes = <<>>
    /\ codes = <<>>

GrowFilter ==
    /\ bytes = <<>>
    /\ room > 0
    /\ room' = room - 1
    /\ \E c \in FilterCharacters : filter' = Append(filter, c)
    /\ UNCHANGED <<topic, bytes, wire, kind, codes, connectVars>>

GrowTopic ==
    /\ bytes = <<>> /\ wire = NoWire /\ kind = NoKind /\ config = NoConfig
    /\ Len(topic) < MaxTopic
    /\ \E c \in TopicCharacters : topic' = Append(topic, c)
    /\ UNCHANGED <<filter, room, bytes, wire, kind, codes, connectVars>>

GrowBytes ==
    /\ filter = <<>> /\ topic = <<>> /\ wire = NoWire /\ kind = NoKind /\ config = NoConfig
    /\ Len(bytes) < MaxBytes
    /\ \E b \in Bytes : bytes' = Append(bytes, b)
    /\ UNCHANGED <<filter, room, topic, wire, kind, codes, connectVars>>

AddProperty ==
    /\ wire.section # <<>>
    /\ [wire EXCEPT !.section = << <<>> >>] \in Carriers
    /\ Len(wire.section[1]) < MaxProperties
    /\ \E p \in Properties \cup {"unknown"}, v \in Values :
          wire' = [wire EXCEPT !.section[1] = Append(@, [prop |-> p, val |-> v])]
    /\ UNCHANGED <<filter, room, topic, bytes, kind, codes, connectVars>>

AddWillProperty ==
    /\ wire.will # <<>>
    /\ [wire EXCEPT !.will = << <<>> >>] \in Carriers
    /\ Len(wire.will[1]) < MaxProperties
    /\ \E p \in Properties \cup {"unknown"}, v \in Values :
          wire' = [wire EXCEPT !.will[1] = Append(@, [prop |-> p, val |-> v])]
    /\ UNCHANGED <<filter, room, topic, bytes, kind, codes, connectVars>>

\* The codes that were read, as variants of the wire's enumeration
Reasons(read) == [i \in DOMAIN read |-> CHOOSE r \in try_from(kind, read[i]) : TRUE]
Recognizable(read) == \A i \in DOMAIN read : try_from(kind, read[i]) # {}

AddCode ==
    /\ kind # NoKind
    /\ Recognizable(codes)
    /\ Len(codes) < IF kind \in SubscriptionAcks THEN MaxCodes ELSE 1
    /\ \E b \in Byte : codes' = Append(codes, b)
    /\ UNCHANGED <<filter, room, topic, bytes, wire, kind, connectVars>>

\* A proxy answers the CONNECT request of one of the configurations.
AnswerLine ==
    /\ config \in Configurations
    /\ config = [type |-> "Tcp", host |-> Host("a"), port |-> 1, tls |-> FALSE, scheme |-> "ws",
                 proxy |-> <<[https |-> FALSE, host |-> Host("p"), port |-> 2, auth |-> "None"]>>]
    /\ ~eof
    /\ \/ /\ Len(response) < MaxLines
          /\ \E line \in Lines : response' = Append(response, line)
          /\ UNCHANGED eof
       \/ eof' = TRUE /\ UNCHANGED response
    /\ UNCHANGED <<filter, room, topic, bytes, wire, kind, codes, config>>

Next ==
    \/ GrowFilter \/ GrowTopic \/ GrowBytes
    \/ AddProperty \/ AddWillProperty \/ AddCode
    \/ AnswerLine

Spec == Init /\ [][Next]_vars

-----------------------------------------------------------------------------
\* Filter::new accepts exactly the topic filters of MQTT, shared ones included, and
\* classify() cuts a shared filter where MQTT does: character by character in the
\* code, level by level in the specification of the protocol.
FilterSyntax ==
    /\ ValidFilter(filter) <=> MqttFilter(filter)
    /\ ValidFilter(filter) => Levels(SubFilter(filter)) = OwnLevels(Levels(filter))

\* matches_topic routes a message to a receiver only if its topic matches the
\* filter by the rules of MQTT, and misses a match in exactly two cases: the parent
\* of a "#", and a wildcard that meets a "$" below the first level.
MatchRules ==
    ValidFilter(filter) /\ ValidTopic(topic) =>
        LET f == OwnLevels(Levels(filter))
            t == Levels(topic)
        IN matches_topic(filter, topic) <=>
               MqttMatches(f, t) /\ ~ParentLevel(f, t) /\ ~DollarBelow(f, t)

\* decode_varint and encode_varint agree: every value that a complete sequence of
\* bytes decodes to can be encoded, in no more bytes than were read, and decodes to
\* itself whatever follows it.
VarintsAgree ==
    Complete(bytes) =>
        LET n == decode_varint(bytes)
        IN /\ Encodable(n)
           /\ Len(encode_varint[n]) <= VarintLen(bytes)
           /\ \A rest \in {<<>>, bytes} : decode_varint(encode_varint[n] \o rest) = n

\* The properties that a packet may carry are those of the table of MQTT, at most once
\* where MQTT says so, with the values it allows, and authentication data only with a
\* method: decode_properties!, with one list of properties per packet type in the code
\* and one list of packet types per property in the specification of the protocol.
PropertyRules ==
    /\ wire.section # <<>>
    /\ [wire EXCEPT !.section = << <<>> >>, !.will = IF @ = <<>> THEN @ ELSE << <<>> >>]
          \in Carriers
    =>
    (Decode(wire) # {} <=>
        /\ MqttSection(wire.type, wire.section[1])
        /\ wire.will # <<>> => MqttSection("Will", wire.will[1]))

\* What was decoded from any body, in a short form or a long one, with defaults spelled
\* out or left out, is what is decoded again after encode: no field is lost, moved, or
\* changed by a default that one side assumes and the other does not write.
ReencodingStable ==
    wire # NoWire => \A p \in Decode(wire) : Decode(Encode(p)) = {p}

-----------------------------------------------------------------------------
(***************************************************************************)
(* The application's packets.                                              *)
(***************************************************************************)
\* The fields of a struct of properties leave authentication out.
WithoutAuthentication(fields) ==
    [n \in DOMAIN fields |->
        IF n \in {"AuthenticationMethod", "AuthenticationData"} THEN <<>> ELSE fields[n]]

\* What an application that was given the packet p would ask the client for
Configuration(p) ==
    [clean_start |-> p.clean_start, keep_alive |-> p.keep_alive, client_id |-> p.client_id,
     will |-> [i \in DOMAIN p.will |->
                 [qos |-> p.will[i].qos, retain |-> p.will[i].retain,
                  topic_name |-> p.will[i].topic_name, payload |-> p.will[i].payload,
                  properties |-> FromWire(WillFields, p.will[i].fields)]],
     username |-> p.username, password |-> p.password, properties |-> PropertiesFrom(p),
     authentication_info |-> AuthenticationInfo(p.fields)]

\* The packets that a client sends, at the qualities of service it supports
Sendable(p) ==
    CASE p.type = "PUBLISH" -> p.qos < 2 /\ p.dup = 0
      [] p.type = "SUBSCRIBE" -> Len(p.subscribe_to) = 1 /\ p.subscribe_to[1].maximum_qos < 2
      [] p.type = "UNSUBSCRIBE" -> Len(p.list) = 1
      [] p.type = "DISCONNECT" -> p.reason_code = 0
      [] OTHER -> p.type \in {"CONNECT", "PUBACK", "AUTH"}

Sent(p) ==
    CASE p.type = "CONNECT" -> mqtt_connect(Configuration(p))
      [] p.type = "PUBACK" -> PubAckTo(AckFrom(p))
      [] p.type = "AUTH" -> AuthTo(AuthFrom(p))
      [] p.type = "DISCONNECT" -> disconnect(DisconnectFrom(p).properties)
      [] p.type = "UNSUBSCRIBE" ->
            unsubscribe(p.list[1], PropertiesFrom(p), p.packet_identifier)
      [] p.type = "SUBSCRIBE" ->
            LET to == p.subscribe_to[1]
            IN subscribe(to.topic_filter, to.maximum_qos, to.no_local,
                         [retain_as_published |-> to.retain_as_published,
                          retain_handling |-> to.retain_handling],
                         PropertiesFrom(p), p.packet_identifier)
      [] p.type = "PUBLISH" ->
            LET m == PublishFrom(p)
            IN IF m.qos.qos = 0
               THEN publish_qos0(m.topic_name, m.payload, m.retain, m.properties)
               ELSE publish_qos1(m.topic_name, m.payload, m.retain, m.properties,
                                 m.qos.packet_identifier)

Defaults == [CONNECT |-> ConnectDefault, CONNACK |-> ConnAckDefault, PUBLISH |-> PublishDefault]

\* What an application reads of a packet and asks the client to send is the packet it
\* read: through the structs of packet.rs, the handles' methods and the conversions to
\* the codec's packets nothing is lost, moved or defaulted, the will and the
\* authentication that CONNECT carries outside of its struct of properties included.
\* A default() of the properties says nothing on the wire.
SentAsAsked ==
    /\ wire # NoWire => \A p \in Decode(wire) : Sendable(p) => Sent(p) = p
    /\ wire.type \in DOMAIN Defaults =>
          encode_properties(Layouts[wire.type], ToWire(Layouts[wire.type], Defaults[wire.type]))
              = <<>>

Arriving ==
    DOMAIN Acks \cup SubscriptionAcks \cup {"CONNACK", "PUBLISH", "DISCONNECT", "AUTH"}

\* What the application is given of a packet that arrives
Received(p) ==
    CASE p.type = "CONNACK" -> ConnAckFrom(p)
      [] p.type = "PUBLISH" -> PublishFrom(p)
      [] p.type \in DOMAIN Acks -> AckFrom(p)
      [] p.type = "SUBACK" -> SubAckFrom(p)
      [] p.type = "UNSUBACK" -> UnsubAckFrom(p)
      [] p.type = "DISCONNECT" -> DisconnectFrom(p)
      [] p.type = "AUTH" -> AuthFrom(p)

\* Of a packet that arrives the application is given everything: its properties go back
\* to the wire as they came, except for authentication, which only AUTH passes on; an
\* acknowledgement has the codes in their order; a PUBLISH keeps its quality of service,
\* identifier and DUP, and a CONNACK its session.  A packet without properties is given
\* with the default() of packet.rs.
GivenAsReceived ==
    wire # NoWire =>
        \A p \in {q \in Decode(wire) : q.type \in Arriving} :
            LET given == Received(p)
            IN /\ ToWire(Layouts[p.type], given.properties) = WithoutAuthentication(p.fields)
               /\ p.type = "AUTH" =>
                     AuthenticatedWith(WithoutAuthentication(p.fields),
                                       given.authentication_info) = p.fields
               /\ p.type \in SubscriptionAcks => given.reasons = p.list
               /\ p.type = "CONNACK" => given.session_present = p.session_present
               /\ p.type = "PUBLISH" =>
                     DupQoS(given.qos) = [qos |-> p.qos, dup |-> p.dup,
                                          packet_identifier |-> p.packet_identifier]
               /\ wire \in Carriers /\ p.type \in DOMAIN Defaults =>
                     given.properties = Defaults[p.type]

-----------------------------------------------------------------------------
(***************************************************************************)
(* Reason codes.                                                           *)
(***************************************************************************)
\* Kinds whose reasons are converted back to the wire
Returned == DOMAIN WireReasons \ {"CONNACK"}

\* What is read is told apart by the application and goes back to the wire as it was
CodesReturn ==
    \A i \in DOMAIN codes :
        LET r == Reasons(codes)[i]
        IN /\ PublicReason(kind, r) \in DOMAIN PublicReasons[kind]
           /\ kind \in Returned =>
                 to_u8(kind, WireReason(kind, PublicReason(kind, r))) = codes[i]
           /\ kind = "CONNACK" =>
                 /\ to_u8_v3(r) = 0 <=> codes[i] = 0
                 /\ \A q \in try_from_v3(to_u8_v3(r)) : to_u8_v3(q) = to_u8_v3(r)

\* Success is what the numbers say, that all are below 0x80
SuccessByCode ==
    LET reasons == [i \in DOMAIN codes |-> PublicReason(kind, Reasons(codes)[i])]
        failures == SelectSeq(codes, LAMBDA b : b >= 128)
    IN /\ is_success(kind, reasons) <=> failures = <<>>
       /\ as_result(kind, reasons) =
             [i \in DOMAIN failures |-> PublicReason(kind, Reasons(failures)[i])]
       /\ kind \in PublishAcks =>
             (failures # <<>> <=>
                 \E r \in DOMAIN PubRejectReason : RejectCode(kind, r) = codes[1])

\* A packet accepts exactly the reason codes that MQTT lists for it; what is read is
\* told apart by the application, and goes back to the wire as the code it was.  A
\* refusal that version 3 has no code for is still a refusal.  is_success says of an
\* acknowledgement what its numbers say, as_result lists exactly the failures, in order,
\* and the reasons to reject a PUBLISH with are the failures of its acknowledgement.
ReasonsSurvive ==
    /\ codes # <<>> => (Recognizable(codes) <=> MqttReason(kind, Last(codes)))
    /\ Recognizable(codes) => CodesReturn
    /\ Recognizable(codes) /\ kind \in DOMAIN Successes /\ codes # <<>> => SuccessByCode

\* The codes that the application's enumerations give their variants are the reason
\* codes of the packets.
PublicCodesMatchWire ==
    Recognizable(codes) =>
        \A i \in DOMAIN codes :
            PublicReasons[kind][PublicReason(kind, Reasons(codes)[i])] = codes[i]

-----------------------------------------------------------------------------
(***************************************************************************)
(* Establishing a stream.                                                  *)
(***************************************************************************)
Size(n) == FoldLeft(LAMBDA sum, line : sum + line.size, 0, SubSeq(response, 1, n))

\* The response ends with its nth line: the first blank one after the status line, or
\* the last one before the stream ends.
EndsWith(n) ==
    /\ \A i \in 2..(n - 1) : ~response[i].blank
    /\ \/ n >= 2 /\ response[n].blank
       \/ n = Len(response) /\ eof

\* http_connect_exchange opens the tunnel exactly if the proxy accepts with a response
\* within the limit, and the tunnel begins right after that response: no header of it
\* is left to be read as MQTT, and it takes no line that follows.  A response that is
\* one byte too long is an error, never a response cut short.
TunnelAfterResponse ==
    LET e == http_connect_exchange(response, eof)
        Opens(n) == /\ response[1] \in Successful
                    /\ EndsWith(n)
                    /\ Size(n) <= MAX_PROXY_RESPONSE_HEADER_BYTES
    IN /\ e.at = "tunnel" <=> \E n \in 1..Len(response) : Opens(n)
       /\ e.at = "tunnel" =>
             \E n \in 1..Len(response) :
                 Opens(n) /\ e.rest = SubSeq(response, n + 1, Len(response))

\* Who is at the other end of a stream, and whether what is written is encrypted for it
Reaches(stream) ==
    FoldLeft(LAMBDA to, l :
                 CASE l.layer = "tcp" -> [to EXCEPT !.name = l.host.name]
                   [] l.layer = "connect" -> [to EXCEPT !.name = l.to.host, !.encrypted = FALSE]
                   [] l.layer = "tls" -> [to EXCEPT !.encrypted = TRUE,
                                                    !.checked = @ /\ l.host.name = to.name]
                   [] OTHER -> to,
             [name |-> "", encrypted |-> FALSE, checked |-> TRUE], stream)

\* Every stream that transport_connect hands out ends at the server of the
\* configuration, directly or through a proxy; it is encrypted up to the server exactly
\* if the configuration says so, and every certificate on the way is checked against
\* the name of the party that presents it.
StreamReachesServer ==
    config # NoConfig =>
        \A stream \in transport_connect(config) :
            /\ Reaches(stream).name = config.host.name
            /\ Reaches(stream).encrypted <=>
                  config.type = "Tls" \/ (config.type = "Ws" /\ config.scheme = "wss")
            /\ Reaches(stream).checked

-----------------------------------------------------------------------------
SomeStarts == {<<>>, SharePrefix, SharePrefix \o <<"a", Separator>>}
=============================================================================

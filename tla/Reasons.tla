------------------------------- MODULE Reasons ------------------------------
(***************************************************************************)
(* Reason codes.  Each packet that has one has two enumerations of them:   *)
(* the wire's (src/src/mqtt_proto/*.rs, by the macro define_u8_code!) and  *)
(* the application's (src/src/packet.rs), with conversions both ways and   *)
(* tests for success.  An enumeration is a function from its variants to   *)
(* their codes.                                                            *)
(***************************************************************************)
EXTENDS Integers, Sequences, SequencesExt

Byte == 0..255

-----------------------------------------------------------------------------
(***************************************************************************)
(* The wire's enumerations.                                                *)
(***************************************************************************)
ConnectionRefusedReason ==
    [UnspecifiedError |-> 128, MalformedPacket |-> 129, ProtocolError |-> 130,
     ImplementationSpecificError |-> 131, UnsupportedProtocolVersion |-> 132,
     ClientIdentifierNotValid |-> 133, BadUserNameOrPassword |-> 134,
     NotAuthorized |-> 135, ServerUnavailable |-> 136, ServerBusy |-> 137,
     Banned |-> 138, BadAuthenticationMethod |-> 140, TopicNameInvalid |-> 144,
     PacketTooLarge |-> 149, QuotaExceeded |-> 151, PayloadFormatInvalid |-> 153,
     RetainNotSupported |-> 154, QoSNotSupported |-> 155, UseAnotherServer |-> 156,
     ServerMoved |-> 157, ConnectionRateExceeded |-> 159]

\* ConnectReasonCode::try_from and to_u8 for version 5
ConnectReasonCode == [Success |-> 0] @@ ConnectionRefusedReason

PubAckReasonCode ==
    [Success |-> 0, NoMatchingSubscribers |-> 16, UnspecifiedError |-> 128,
     ImplementationSpecificError |-> 131, NotAuthorized |-> 135,
     TopicNameInvalid |-> 144, PacketIdentifierInUse |-> 145,
     QuotaExceeded |-> 151, PayloadFormatInvalid |-> 153]

PubRecReasonCode ==
    [Success |-> 0, NoMatchingSubscribers |-> 16, UnspecifiedError |-> 128,
     ImplementationSpecificError |-> 131, NotAuthorized |-> 135,
     TopicNameInvalid |-> 144, PacketIdentifierInUse |-> 145,
     QuotaExceeded |-> 151, PayloadFormatInvalid |-> 153]

PubRelReasonCode == [Success |-> 0, PacketIdentifierNotFound |-> 146]
PubCompReasonCode == [Success |-> 0, PacketIdentifierNotFound |-> 146]

SubscribeReasonCode ==
    [GrantedQoS0 |-> 0, GrantedQoS1 |-> 1, GrantedQoS2 |-> 2,
     UnspecifiedError |-> 128, ImplementationSpecificError |-> 131,
     NotAuthorized |-> 135, TopicFilterInvalid |-> 143,
     PacketIdentifierInUse |-> 145, QuotaExceeded |-> 151,
     SharedSubscriptionsNotSupported |-> 158,
     SubscriptionIdentifiersNotSupported |-> 161,
     WildcardSubscriptionsNotSupported |-> 162]

UnsubAckReasonCode ==
    [Success |-> 0, NoSubscriptionExisted |-> 17, UnspecifiedError |-> 128,
     ImplementationSpecificError |-> 131, NotAuthorized |-> 135,
     TopicFilterInvalid |-> 143, PacketIdentifierInUse |-> 145]

DisconnectReasonCode ==
    [Normal |-> 0, DisconnectWithWillMessage |-> 4, UnspecifiedError |-> 128,
     MalformedPacket |-> 129, ProtocolError |-> 130,
     ImplementationSpecificError |-> 131, NotAuthorized |-> 135,
     ServerBusy |-> 137, ServerShuttingDown |-> 139, KeepAliveTimeout |-> 141,
     SessionTakenOver |-> 142, TopicFilterInvalid |-> 143, TopicNameInvalid |-> 144,
     ReceiveMaximumExceeded |-> 147, TopicAliasInvalid |-> 148,
     PacketTooLarge |-> 149, MessageRateTooHigh |-> 150, QuotaExceeded |-> 151,
     AdministrativeAction |-> 152, PayloadFormatInvalid |-> 153,
     RetainNotSupported |-> 154, QosNotSupported |-> 155, UseAnotherServer |-> 156,
     ServerMoved |-> 157, SharedSubscriptionsNotSupported |-> 158,
     ConnectionRateExceeded |-> 159, MaximumConnectTime |-> 160,
     SubscriptionIdentifiersNotSupported |-> 161,
     WildcardSubscriptionsNotSupported |-> 162]

AuthenticateReasonCode ==
    [Success |-> 0, ContinueAuthentication |-> 24, ReAuthenticate |-> 25]

WireReasons ==
    [CONNACK |-> ConnectReasonCode, PUBACK |-> PubAckReasonCode,
     PUBREC |-> PubRecReasonCode, PUBREL |-> PubRelReasonCode,
     PUBCOMP |-> PubCompReasonCode, SUBACK |-> SubscribeReasonCode,
     UNSUBACK |-> UnsubAckReasonCode, DISCONNECT |-> DisconnectReasonCode,
     AUTH |-> AuthenticateReasonCode]

\* define_u8_code!: TryFrom<u8>, which refuses a code of no variant, and the code
\* of a variant.
try_from(kind, byte) == {r \in DOMAIN WireReasons[kind] : WireReasons[kind][r] = byte}
to_u8(kind, reason) == WireReasons[kind][reason]

-----------------------------------------------------------------------------
(***************************************************************************)
(* The application's enumerations.  The conversions between the two map    *)
(* every variant to its namesake, but for the three of Renamed.            *)
(***************************************************************************)
ConnAckReason ==
    [Success |-> 0, UnspecifiedError |-> 128, MalformedPacket |-> 129,
     ProtocolError |-> 130, ImplementationSpecificError |-> 131,
     UnsupportedProtocolVersion |-> 132, ClientIdentifierNotValid |-> 133,
     BadUserNameOrPassword |-> 134, NotAuthorized |-> 135, ServerUnavailable |-> 136,
     ServerBusy |-> 137, Banned |-> 138, BadAuthenticationMethod |-> 140,
     TopicNameInvalid |-> 144, PacketTooLarge |-> 149, QuotaExceeded |-> 151,
     PayloadFormatInvalid |-> 153, RetainNotSupported |-> 154, QoSNotSupported |-> 155,
     UseAnotherServer |-> 156, ServerMoved |-> 157, ConnectionRateExceeded |-> 159]

PubAckReason ==
    [Success |-> 0, NoMatchingSubscribers |-> 16, UnspecifiedError |-> 128,
     ImplementationSpecificError |-> 131, NotAuthorized |-> 135,
     TopicNameInvalid |-> 144, PacketIdentifierInUse |-> 145,
     QuotaExceeded |-> 151, PayloadFormatInvalid |-> 153]

PubRecReason ==
    [Success |-> 0, NoMatchingSubscribers |-> 16, UnspecifiedError |-> 128,
     ImplementationSpecificError |-> 131, NotAuthorized |-> 135,
     TopicNameInvalid |-> 144, PacketIdentifierInUse |-> 145,
     QuotaExceeded |-> 151, PayloadFormatInvalid |-> 153]

PubRelReason == [Success |-> 0, PacketIdentifierNotFound |-> 146]
PubCompReason == [Success |-> 0, PacketIdentifierNotFound |-> 146]

SubAckReason ==
    [GrantedQoS0 |-> 0, GrantedQoS1 |-> 1, GrantedQoS2 |-> 2,
     UnspecifiedError |-> 128, ImplementationSpecificError |-> 131,
     NotAuthorized |-> 135, TopicFilterInvalid |-> 143,
     PacketIdentifierInUse |-> 145, QuotaExceeded |-> 151,
     SharedSubscriptionsNotSupported |-> 154,
     SubscriptionIdentifiersNotSupported |-> 161,
     WildcardSubscriptionsNotSupported |-> 162]

UnsubAckReason ==
    [Success |-> 0, NoSubscriptionExisted |-> 17, UnspecifiedError |-> 128,
     ImplementationSpecificError |-> 131, NotAuthorized |-> 135,
     TopicFilterInvalid |-> 143, PacketIdentifierInUse |-> 145]

DisconnectReason ==
    [NormalDisconnection |-> 0, DisconnectWithWillMessage |-> 4,
     UnspecifiedError |-> 128, MalformedPacket |-> 129, ProtocolError |-> 130,
     ImplementationSpecificError |-> 131, NotAuthorized |-> 135,
     ServerBusy |-> 137, ServerShuttingDown |-> 139, KeepAliveTimeout |-> 141,
     SessionTakenOver |-> 142, TopicFilterInvalid |-> 143, TopicNameInvalid |-> 144,
     ReceiveMaximumExceeded |-> 147, TopicAliasInvalid |-> 148,
     PacketTooLarge |-> 149, MessageRateTooHigh |-> 150, QuotaExceeded |-> 151,
     AdministrativeAction |-> 152, PayloadFormatInvalid |-> 153,
     RetainNotSupported |-> 154, QoSNotSupported |-> 155, UseAnotherServer |-> 156,
     ServerMoved |-> 157, SharedSubscriptionsNotSupported |-> 158,
     ConnectionRateExceeded |-> 159, MaximumConnectTime |-> 160,
     SubscriptionIdentifiersNotSupported |-> 161,
     WildcardSubscriptionsNotSupported |-> 162]

AuthReason == [Success |-> 0, ContinueAuthentication |-> 24, Reauthenticate |-> 25]

PublicReasons ==
    [CONNACK |-> ConnAckReason, PUBACK |-> PubAckReason, PUBREC |-> PubRecReason,
     PUBREL |-> PubRelReason, PUBCOMP |-> PubCompReason, SUBACK |-> SubAckReason,
     UNSUBACK |-> UnsubAckReason, DISCONNECT |-> DisconnectReason,
     AUTH |-> AuthReason]

Renamed ==
    [DISCONNECT |-> {<<"Normal", "NormalDisconnection">>,
                     <<"QosNotSupported", "QoSNotSupported">>},
     AUTH |-> {<<"ReAuthenticate", "Reauthenticate">>}]

RenamedIn(kind) == IF kind \in DOMAIN Renamed THEN Renamed[kind] ELSE {}

\* A fault: an arm of the match names the variant before it.
PublicReasonShifted(kind, reason) ==
    IF reason = "PacketIdentifierInUse" THEN "TopicFilterInvalid" ELSE reason

\* From<wire reason> for the application's, and back
PublicReason(kind, reason) ==
    IF \E r \in RenamedIn(kind) : r[1] = reason
    THEN (CHOOSE r \in RenamedIn(kind) : r[1] = reason)[2] ELSE reason

WireReason(kind, reason) ==
    IF \E r \in RenamedIn(kind) : r[2] = reason
    THEN (CHOOSE r \in RenamedIn(kind) : r[2] = reason)[1] ELSE reason

\* What PubAckToken::reject and PubRecToken::reject take, which becomes a reason of
\* a PUBACK or PUBREC.
PubRejectReason ==
    [UnspecifiedError |-> 128, ImplementationSpecificError |-> 131,
     NotAuthorized |-> 135, TopicNameInvalid |-> 144, PacketIdentifierInUse |-> 145,
     QuotaExceeded |-> 151, PayloadFormatInvalid |-> 153]

\* The byte it becomes: the code of its namesake
RejectCode(kind, reason) == to_u8(kind, WireReason(kind, reason))

-----------------------------------------------------------------------------
(***************************************************************************)
(* is_success and as_result of the application's packets.  A result is the *)
(* reasons that the OperationFailure lists, none if it is Ok.              *)
(***************************************************************************)
ConnAckSuccess == {"Success"}
PubAckSuccess == {"Success", "NoMatchingSubscribers"}
PubRecSuccess == {"Success", "NoMatchingSubscribers"}
SubAckSuccess == {"GrantedQoS0", "GrantedQoS1", "GrantedQoS2"}
UnsubAckSuccess == {"Success", "NoSubscriptionExisted"}

Successes ==
    [CONNACK |-> ConnAckSuccess, PUBACK |-> PubAckSuccess, PUBREC |-> PubRecSuccess,
     SUBACK |-> SubAckSuccess, UNSUBACK |-> UnsubAckSuccess]

is_success(kind, reasons) == \A r \in ToSet(reasons) : r \in Successes[kind]

as_result(kind, reasons) ==
    IF is_success(kind, reasons) THEN <<>>
    ELSE SelectSeq(reasons, LAMBDA r : r \notin Successes[kind])

-----------------------------------------------------------------------------
(***************************************************************************)
(* The return codes of version 3's CONNACK: five refusals, which are the   *)
(* only ones that version has, and the one that every other becomes.       *)
(***************************************************************************)
V3RefusedReasonCodes ==
    [UnsupportedProtocolVersion |-> 1, ClientIdentifierNotValid |-> 2,
     ServerUnavailable |-> 3, BadUserNameOrPassword |-> 4, NotAuthorized |-> 5]

\* ConnectReasonCode::try_from, for version 3
try_from_v3(byte) ==
    IF byte = 0 THEN {"Success"}
    ELSE {r \in DOMAIN V3RefusedReasonCodes : V3RefusedReasonCodes[r] = byte}

\* ConnectReasonCode::to_u8, for version 3
to_u8_v3(reason) ==
    CASE reason = "Success" -> 0
      [] reason \in DOMAIN V3RefusedReasonCodes -> V3RefusedReasonCodes[reason]
      [] OTHER -> V3RefusedReasonCodes["ServerUnavailable"]

-----------------------------------------------------------------------------
(***************************************************************************)
(* What MQTT 5 says of reason codes: the packets that each may be in.      *)
(***************************************************************************)
PublishAcks == {"PUBACK", "PUBREC"}
SubscriptionAcks == {"SUBACK", "UNSUBACK"}

MqttReasonTable ==
    {<<0, DOMAIN WireReasons>>, <<1, {"SUBACK"}>>, <<2, {"SUBACK"}>>,
     <<4, {"DISCONNECT"}>>, <<16, PublishAcks>>, <<17, {"UNSUBACK"}>>,
     <<24, {"AUTH"}>>, <<25, {"AUTH"}>>,
     <<143, SubscriptionAcks \cup {"DISCONNECT"}>>,
     <<144, PublishAcks \cup {"CONNACK", "DISCONNECT"}>>,
     <<145, PublishAcks \cup SubscriptionAcks>>, <<146, {"PUBREL", "PUBCOMP"}>>,
     <<151, PublishAcks \cup {"CONNACK", "SUBACK", "DISCONNECT"}>>,
     <<153, PublishAcks \cup {"CONNACK", "DISCONNECT"}>>}
    \cup {128, 131, 135} \X {PublishAcks \cup SubscriptionAcks \cup {"CONNACK", "DISCONNECT"}}
    \cup {129, 130, 137, 149, 154, 155, 156, 157, 159} \X {{"CONNACK", "DISCONNECT"}}
    \cup {132, 133, 134, 136, 138, 140} \X {{"CONNACK"}}
    \cup {139, 141, 142, 147, 148, 150, 152, 160} \X {{"DISCONNECT"}}
    \cup {158, 161, 162} \X {{"SUBACK", "DISCONNECT"}}

MqttReason(kind, byte) == \E row \in MqttReasonTable : row[1] = byte /\ kind \in row[2]
=============================================================================

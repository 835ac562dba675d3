---------------------------- MODULE MCMqttSystem ----------------------------
(***************************************************************************)
(* Instances of MqttSystem for TLC.                                        *)
(***************************************************************************)
EXTENDS MqttSystem

\* KeepAliveConfig::Infinite, and no Server Keep Alive.
NoKeepAlive == {[ping_after |-> FALSE, response_timeout |-> FALSE]}

-----------------------------------------------------------------------------
(***************************************************************************)
(* For safety, a behaviour has operations of the client or messages of the *)
(* server, the latter over one more connection; system_live has both.      *)
(***************************************************************************)
MaxRequestEpoch == 2

\* The operation that can take an identifier again is a publish.
LastIsPublish ==
    Len(token) < Len(token') /\ Len(token') = MaxOps => UNCHANGED <<ping_rx, sub_rx>>

OperationsOnly ==
    /\ published' = 0
    /\ connection_epoch' <= MaxRequestEpoch
    /\ LastIsPublish
MessagesOnly == token' = <<>>

EitherSystemNext == SystemNext /\ (OperationsOnly \/ MessagesOnly)

EitherSystemSpec == SystemInit /\ [][EitherSystemNext]_systemVars
=============================================================================

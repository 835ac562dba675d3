----------------------------- MODULE MCSession ------------------------------
(***************************************************************************)
(* Instances of Session for TLC.  The configurations choose which          *)
(* operations the application uses; a keep-alive outcome is a record, which *)
(* a configuration file cannot write.                                      *)
(***************************************************************************)
EXTENDS Session

\* KeepAliveConfig::Infinite, and no Server Keep Alive.
NoKeepAlive == {[ping_after |-> FALSE, response_timeout |-> FALSE]}

\* That, and KeepAliveConfig::Duration.
SomeKeepAlives == NoKeepAlive \cup {[ping_after |-> TRUE, response_timeout |-> TRUE]}

-----------------------------------------------------------------------------
(***************************************************************************)
(* Operations and incoming PUBLISHes together are too many for TLC, and    *)
(* the session keeps them apart: a behaviour has the ones or the others,   *)
(* the latter over one more connection.                                    *)
(***************************************************************************)
MaxRequestEpoch == 2

OperationsOnly == deliveries' = <<>> /\ connection_epoch' <= MaxRequestEpoch

DeliveriesOnly ==
    /\ token' = <<>>
    /\ expiry_interval' = 0
    /\ ~pingreq_timer'
    /\ conn_method' = NoMethod

EitherNext == Next /\ (OperationsOnly \/ DeliveriesOnly)

EitherSpec == Init /\ [][EitherNext]_sessionVars
=============================================================================

---------------------------- MODULE MCScheduling ----------------------------
(***************************************************************************)
(* Scheduling for TLC.  Starvation needs two channels: one that waits and  *)
(* one that is never empty.  QoS 0 publishes, which wait for nothing,      *)
(* compete with the others; then the two channels that need identifiers    *)
(* compete, and two that come before them.                                 *)
(***************************************************************************)
EXTENDS Scheduling

Competitors ==
    {{c, "qos0"} : c \in {"disconnect", "ping", "sub", "qos12"}}
    \cup {{"sub", "qos12"}, {"auth", "ping"}}
=============================================================================

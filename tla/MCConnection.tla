---------------------------- MODULE MCConnection ----------------------------
(***************************************************************************)
(* Instances of Connection for TLC.  A keep-alive configuration is a       *)
(* record, which a configuration file cannot write.                        *)
(***************************************************************************)
EXTENDS Connection

\* Infinite, and a response timeout shorter and longer than the interval.
SomeKeepAlives ==
    {InfiniteConfig, [ping_after |-> 5, response_timeout |-> 3],
     [ping_after |-> 2, response_timeout |-> 4]}

\* Infinite, and an interval longer than the response timeout.
LongInterval == {InfiniteConfig, [ping_after |-> 5, response_timeout |-> 3]}
=============================================================================

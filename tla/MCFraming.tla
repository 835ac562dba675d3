----------------------------- MODULE MCFraming ------------------------------
(***************************************************************************)
(* An instance of Framing for TLC.                                         *)
(***************************************************************************)
EXTENDS Framing

Copied(b) == [shared |-> FALSE, bytes |-> b]
Shared(b) == [shared |-> TRUE, bytes |-> b]

\* A packet without a body; one whose length takes two bytes, in several chunks,
\* with bytes that look like headers; and one that is too large.
SomePackets ==
    {[first_byte |-> 3, parts |-> <<>>],
     [first_byte |-> 1, parts |-> <<Shared(<<3>>), Copied(<<0>>), Shared(<<2>>), Shared(<<>>)>>],
     [first_byte |-> 2, parts |-> <<Copied(<<0, 0, 0, 0>>)>>]}
=============================================================================

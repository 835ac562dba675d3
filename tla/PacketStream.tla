---------------------------- MODULE PacketStream ----------------------------
(***************************************************************************)
(* What the two ends of a connection rely on: packets are received in the  *)
(* order in which they were sent, each once and as it was sent, up to the  *)
(* point where the connection is lost.                                     *)
(***************************************************************************)
EXTENDS Sequences, Naturals

CONSTANT Packet

VARIABLES sent, received

streamVars == <<sent, received>>

Init == sent = <<>> /\ received = <<>>

Send(p) ==
    /\ sent' = Append(sent, p)
    /\ UNCHANGED received

Receive ==
    /\ Len(received) < Len(sent)
    /\ received' = Append(received, sent[Len(received) + 1])
    /\ UNCHANGED sent

Next == Receive \/ \E p \in Packet : Send(p)

Spec == Init /\ [][Next]_streamVars
=============================================================================

----------------------- MODULE SessionCountingProofs ------------------------
(***************************************************************************)
(* What the session counts, for every value of the constants: the PUBACKs  *)
(* of a connection and the notifiers of an operation.                      *)
(*                                                                         *)
(* PubAcksInArrivalOrder needs PubAckInv: the deliveries of earlier        *)
(* connections come first, and the PUBACKs of the connection are as many   *)
(* as its deliveries that have left the tracker.                           *)
(*                                                                         *)
(* NotifierConservation says that no operation is forgotten and none is    *)
(* resolved twice.  Held(o) counts the notifiers of operation o over the   *)
(* five channels and the five in-flight places.  The inductive invariant   *)
(* says of every number o, submitted yet or not, that it is 1 if token o   *)
(* is pending and 0 otherwise; it also needs that the keys of publish_qos1 *)
(* are distinct, since shift_remove takes one entry and complete_inflight  *)
(* resolves all that have the key.                                         *)
(***************************************************************************)
EXTENDS SessionProofs, FiniteSetTheorems

USE DEF poolVars, channels, inflight, connection, handles

-----------------------------------------------------------------------------
\* The positions of a sequence that satisfy something are finitely many.
LEMMA PositionsFinite ==
    ASSUME NEW n \in Nat, NEW I \in SUBSET (1..n)
    PROVE  IsFiniteSet(I) /\ Cardinality(I) \in Nat
<1>1. IsFiniteSet(1..n)
  BY FS_Interval
<1>2. IsFiniteSet(I)
  BY Zenon, <1>1, FS_Subset
<1> QED
  BY Zenon, <1>2, FS_CardinalityType

\* Positions above a gap move down by one when the gap closes.
LEMMA GapCardinality ==
    ASSUME NEW n \in Nat, NEW g \in 1..n, NEW I \in SUBSET (1..n), NEW J,
           J = {i \in 1..(n - 1) : (IF i < g THEN i ELSE i + 1) \in I}
    PROVE  Cardinality(J) = Cardinality(I) - IF g \in I THEN 1 ELSE 0
<1> DEFINE K == I \ {g}
           f == [i \in J |-> IF i < g THEN i ELSE i + 1]
<1>1. IsFiniteSet(I) /\ Cardinality(I) \in Nat
  BY Zenon, PositionsFinite
<1>2. IsFiniteSet(K) /\ Cardinality(K) = Cardinality(I) - IF g \in I THEN 1 ELSE 0
  <2>1. CASE g \in I
    BY Zenon, <1>1, <2>1, FS_RemoveElement
  <2>2. CASE g \notin I
    <3>1. K = I
      BY Zenon, <2>2
    <3> QED
      BY <1>1, <2>2, <3>1
  <2> QED
    BY Zenon, <2>1, <2>2
<1>3. IsFiniteSet(J)
  <2>1. n - 1 \in Nat /\ J \in SUBSET (1..(n - 1))
    OBVIOUS
  <2> QED
    BY Zenon, <2>1, PositionsFinite
<1>4. f \in [J -> K]
  <2> SUFFICES ASSUME NEW i \in J
               PROVE  (IF i < g THEN i ELSE i + 1) \in K
    BY Zenon
  <2>1. i \in 1..(n - 1) /\ (IF i < g THEN i ELSE i + 1) \in I
    BY Zenon
  <2> QED
    BY <2>1
<1>5. \A i, j \in J : f[i] = f[j] => i = j
  <2>1. \A i \in J : i \in 1..(n - 1) /\ f[i] = IF i < g THEN i ELSE i + 1
    BY Zenon
  <2> HIDE DEF f
  <2> QED
    BY <2>1
<1>6. \A k \in K : \E i \in J : f[i] = k
  <2> SUFFICES ASSUME NEW k \in K
               PROVE  \E i \in J : f[i] = k
    BY Zenon
  <2>1. k \in 1..n /\ k # g /\ k \in I
    BY Zenon
  <2>2. CASE k < g
    <3>1. k \in 1..(n - 1) /\ (IF k < g THEN k ELSE k + 1) = k
      BY <2>1, <2>2
    <3>2. k \in J
      BY Zenon, <2>1, <3>1
    <3>3. f[k] = k
      BY Zenon, <3>1, <3>2
    <3> QED
      BY Zenon, <3>2, <3>3
  <2>3. CASE k > g
    <3>1. k - 1 \in 1..(n - 1) /\ (IF k - 1 < g THEN k - 1 ELSE (k - 1) + 1) = k
      BY <2>1, <2>3
    <3>2. k - 1 \in J
      BY Zenon, <2>1, <3>1
    <3>3. f[k - 1] = k
      BY Zenon, <3>1, <3>2
    <3> QED
      BY Zenon, <3>2, <3>3
  <2>4. k < g \/ k > g
    BY <2>1
  <2> QED
    BY Zenon, <2>2, <2>3, <2>4
<1>7. f \in Bijection(J, K)
  BY Zenon, <1>4, <1>5, <1>6 DEF Bijection, Injection, Surjection, IsInjective
<1>8. Cardinality(K) = Cardinality(J)
  BY Zenon, <1>3, <1>7, FS_Bijection DEF ExistsBijection
<1> QED
  BY Zenon, <1>2, <1>8

-----------------------------------------------------------------------------
\* Counting packets gives a natural number.
LEMMA CountNat ==
    ASSUME NEW s, NEW type, NEW n \in Nat
    PROVE  CountOf(s, type, n) \in Nat
<1>1. IsFiniteSet(1..n)
  BY FS_Interval
<1>2. IsFiniteSet({i \in 1..n : s[i].type = type})
  BY Zenon, <1>1, FS_Subset
<1> QED
  BY Zenon, <1>2, FS_CardinalityType DEF CountOf

\* Among no packets there are none of any type.
LEMMA CountZero ==
    ASSUME NEW s, NEW type
    PROVE  CountOf(s, type, 0) = 0
<1>1. {i \in 1..0 : s[i].type = type} = {}
  OBVIOUS
<1> QED
  BY Zenon, <1>1, FS_EmptySet DEF CountOf

\* One more packet.
LEMMA CountNext ==
    ASSUME NEW s, NEW type, NEW n \in Nat
    PROVE  CountOf(s, type, n + 1) =
              CountOf(s, type, n) + IF s[n + 1].type = type THEN 1 ELSE 0
<1> DEFINE S == {i \in 1..n : s[i].type = type}
<1>1. IsFiniteSet(S)
  <2>1. IsFiniteSet(1..n)
    BY FS_Interval
  <2> QED
    BY Zenon, <2>1, FS_Subset
<1>2. n + 1 \notin S
  OBVIOUS
<1>3. CASE s[n + 1].type = type
  <2>1. {i \in 1..(n + 1) : s[i].type = type} = S \cup {n + 1}
    BY <1>3
  <2>2. Cardinality(S \cup {n + 1}) = Cardinality(S) + 1
    BY Zenon, <1>1, <1>2, FS_AddElement
  <2> QED
    BY Zenon, <1>3, <2>1, <2>2 DEF CountOf
<1>4. CASE s[n + 1].type # type
  <2>1. {i \in 1..(n + 1) : s[i].type = type} = S
    BY <1>4
  <2>2. CountOf(s, type, n + 1) = CountOf(s, type, n)
    BY Zenon, <2>1 DEF CountOf
  <2> QED
    BY <1>4, <2>2, CountNat
<1> QED
  BY Zenon, <1>3, <1>4

\* Only the packets that are counted matter.
LEMMA CountSame ==
    ASSUME NEW s, NEW t, NEW type, NEW n \in Nat, \A i \in 1..n : t[i] = s[i]
    PROVE  CountOf(t, type, n) = CountOf(s, type, n)
<1>1. {i \in 1..n : t[i].type = type} = {i \in 1..n : s[i].type = type}
  BY Zenon
<1> QED
  BY Zenon, <1>1 DEF CountOf

\* A packet is written: what was counted stays counted.
LEMMA CountAppend ==
    ASSUME NEW S, NEW s \in Seq(S), NEW x \in S, NEW type
    PROVE  /\ \A n \in 0..Len(s) : CountOf(Append(s, x), type, n) = CountOf(s, type, n)
           /\ CountOf(Append(s, x), type, Len(s) + 1) =
                CountOf(s, type, Len(s)) + IF x.type = type THEN 1 ELSE 0
<1> DEFINE t == Append(s, x)
<1>1. /\ Len(s) \in Nat
      /\ \A i \in 1..Len(s) : t[i] = s[i]
      /\ t[Len(s) + 1] = x
  BY Appended
<1> HIDE DEF t
<1>2. ASSUME NEW n \in 0..Len(s)
      PROVE  CountOf(t, type, n) = CountOf(s, type, n)
  <2>1. n \in Nat
    BY <1>1
  <2>2. \A i \in 1..n : t[i] = s[i]
    BY <1>1, <2>1
  <2> QED
    BY <2>1, <2>2, CountSame
<1>3. CountOf(t, type, Len(s) + 1) =
        CountOf(t, type, Len(s)) + IF x.type = type THEN 1 ELSE 0
  BY <1>1, CountNext
<1>4. Len(s) \in 0..Len(s)
  BY <1>1
<1> QED
  BY Zenon, <1>2, <1>3, <1>4 DEF t

\* The deliveries of earlier connections are the first ones, and the PUBACKs of the
\* connection are as many as its deliveries that have left the tracker.
PubAckInv ==
    /\ Cardinality(Outdated) \in Nat
    /\ Outdated = 1..Cardinality(Outdated)
    /\ mode = "connected" =>
         Cardinality(Outdated) + CountOf(sent, "PUBACK", Len(sent)) = Acked
    /\ PubAcksInArrivalOrder

\* The size of an interval.
LEMMA IntervalSize ==
    ASSUME NEW n \in Nat
    PROVE  Cardinality(1..n) = n
<1>1. Cardinality(1..n) = IF 1 > n THEN 0 ELSE n - 1 + 1
  BY FS_Interval
<1> QED
  BY <1>1

\* Every step keeps the invariant.
LEMMA PubAckStep ==
    ASSUME TypeOK, TypeOK', AckInv, PubAckInv, [Next]_sessionVars
    PROVE  PubAckInv'

\* What the lemmas use of the type invariant.
<1>TypesOfPubAcks.
    ASSUME TypeOK
    PROVE  /\ publishes \in Seq(SlotType) /\ Len(publishes) \in Nat
           /\ deliveries \in Seq(DeliveryType) /\ Len(deliveries) \in Nat
           /\ DOMAIN deliveries = 1..Len(deliveries)
           /\ sent \in Seq(PacketType) /\ Len(sent) \in Nat
           /\ DOMAIN sent = 1..Len(sent)
           /\ connection_epoch \in Nat
  BY <1>TypesOfPubAcks DEF TypeOK, InflightTypeOK, HandlesTypeOK, ConnectionTypeOK

\* Steps that write nothing, deliver nothing and acknowledge nothing.
<1>PubAckFrame.
    ASSUME TypeOK, TypeOK', PubAckInv, NEW D, NEW a, OnlyAckChanged(D, a),
           UNCHANGED <<connection_epoch, sent>>,
           mode' = "connected" => mode = "connected" /\ Len(publishes') = Len(publishes)
    PROVE  PubAckInv'
  <2> USE <1>PubAckFrame
  <2>1. DOMAIN deliveries' = DOMAIN deliveries
    BY <1>TypesOfPubAcks DEF OnlyAckChanged, TypeOK, HandlesTypeOK
  <2>2. Outdated' = Outdated
    BY Zenon, <2>1 DEF Outdated, Stale, OnlyAckChanged
  <2>3. mode' = "connected" => Acked' = Acked
    BY Zenon DEF Acked, OnlyAckChanged
  <2>4. PubAcksInArrivalOrder'
    BY Zenon, <2>1, <2>2 DEF PubAckInv, PubAcksInArrivalOrder, OnlyAckChanged
  <2> QED
    BY Zenon, <2>2, <2>3, <2>4 DEF PubAckInv

\* Steps that leave all of it alone.
<1>PubAckStays.
    ASSUME PubAckInv, UNCHANGED <<publishes, deliveries, connection_epoch, mode, sent>>
    PROVE  PubAckInv'
  BY Zenon, <1>PubAckStays DEF PubAckInv, PubAcksInArrivalOrder, Outdated, Stale, Acked

\* A packet is written: the PUBACKs that were written stay in their places.
<1>WriteKeepsOrder.
    ASSUME TypeOK, TypeOK', PubAckInv, NEW pkt \in PacketType, sent' = Append(sent, pkt),
           DOMAIN deliveries' = DOMAIN deliveries,
           \A d \in DOMAIN deliveries : deliveries'[d].pkid = deliveries[d].pkid,
           Outdated' = Outdated,
           NEW n, n = Cardinality(Outdated) + CountOf(sent, "PUBACK", Len(sent)) + 1,
           pkt.type = "PUBACK" =>
              /\ n \in DOMAIN deliveries
              /\ pkt.op = n
              /\ pkt.pkid = deliveries[n].pkid
    PROVE  PubAcksInArrivalOrder'
  <2> USE <1>WriteKeepsOrder
  <2>1. /\ sent \in Seq(PacketType) /\ Len(sent) \in Nat /\ DOMAIN sent = 1..Len(sent)
        /\ Cardinality(Outdated) \in Nat
    BY Zenon, <1>TypesOfPubAcks DEF PubAckInv
  <2>2. /\ DOMAIN sent' = 1..(Len(sent) + 1)
        /\ \A i \in 1..Len(sent) : sent'[i] = sent[i]
        /\ sent'[Len(sent) + 1] = pkt
    BY <2>1, Appended
  <2>3. /\ \A i \in 0..Len(sent) : CountOf(sent', "PUBACK", i) = CountOf(sent, "PUBACK", i)
        /\ CountOf(sent', "PUBACK", Len(sent) + 1) =
             CountOf(sent, "PUBACK", Len(sent)) + IF pkt.type = "PUBACK" THEN 1 ELSE 0
    <3>1. /\ \A i \in 0..Len(sent) :
               CountOf(Append(sent, pkt), "PUBACK", i) = CountOf(sent, "PUBACK", i)
          /\ CountOf(Append(sent, pkt), "PUBACK", Len(sent) + 1) =
               CountOf(sent, "PUBACK", Len(sent)) + IF pkt.type = "PUBACK" THEN 1 ELSE 0
      BY <2>1, CountAppend
    <3> QED
      BY Zenon, <3>1
  <2> SUFFICES ASSUME NEW i \in DOMAIN sent', sent'[i].type = "PUBACK"
               PROVE  LET d == Cardinality(Outdated) + CountOf(sent', "PUBACK", i)
                      IN /\ d \in DOMAIN deliveries
                         /\ sent'[i].op = d
                         /\ sent'[i].pkid = deliveries'[d].pkid
    BY Zenon DEF PubAcksInArrivalOrder
  <2>4. CASE i \in 1..Len(sent)
    <3>1. sent'[i] = sent[i] /\ CountOf(sent', "PUBACK", i) = CountOf(sent, "PUBACK", i)
      BY <2>1, <2>2, <2>3, <2>4
    <3> QED
      BY Zenon, <2>1, <2>4, <3>1 DEF PubAckInv, PubAcksInArrivalOrder
  <2>5. CASE i = Len(sent) + 1
    <3>1. sent'[i] = pkt /\ pkt.type = "PUBACK"
      BY Zenon, <2>2, <2>5
    <3>2. Cardinality(Outdated) + CountOf(sent', "PUBACK", i) = n
      BY <2>1, <2>3, <2>5, <3>1, CountNat
    <3> QED
      BY Zenon, <3>1, <3>2
  <2>6. i \in 1..Len(sent) \/ i = Len(sent) + 1
    BY <2>1, <2>2
  <2> QED
    BY Zenon, <2>4, <2>5, <2>6

\* Every packet but a PUBACK.
<1>WritePubAck.
    ASSUME TypeOK, TypeOK', PubAckInv, NEW pkt \in PacketType, pkt.type # "PUBACK",
           sent' = Append(sent, pkt),
           UNCHANGED <<publishes, deliveries, connection_epoch, mode>>
    PROVE  PubAckInv'
  <2> USE <1>WritePubAck
  <2>1. sent \in Seq(PacketType) /\ Len(sent) \in Nat
    BY Zenon, <1>TypesOfPubAcks
  <2>2. Outdated' = Outdated /\ Acked' = Acked
    BY Zenon DEF Outdated, Stale, Acked
  <2>3. PubAcksInArrivalOrder'
    BY Zenon, <2>2, <1>WriteKeepsOrder
  <2>4. CountOf(sent', "PUBACK", Len(sent')) = CountOf(sent, "PUBACK", Len(sent))
    <3>1. CountOf(sent', "PUBACK", Len(sent) + 1) =
            CountOf(sent, "PUBACK", Len(sent)) + IF pkt.type = "PUBACK" THEN 1 ELSE 0
      BY Zenon, <2>1, CountAppend
    <3>2. Len(sent') = Len(sent) + 1
      BY <2>1
    <3> QED
      BY <2>1, <3>1, <3>2, CountNat
  <2> QED
    BY Zenon, <2>2, <2>3, <2>4 DEF PubAckInv

\* The PUBACK that is written answers the oldest delivery of the connection that
\* has not been answered.
<1>SendReadyAckPubAck.
    ASSUME TypeOK, TypeOK', AckInv, PubAckInv, send_ready_ack
    PROVE  PubAckInv'
  <2> USE <1>SendReadyAckPubAck
  <2> DEFINE d == Acked + 1
  <2> DEFINE pkt == Pkt("PUBACK", deliveries[d].pkid, d, FALSE)
  <2>1. AckTypes /\ AckTypes'
    BY Zenon, TypesOfAcks
  <2>2. OpenSlots /\ mode = "connected" /\ publishes # <<>>
    BY Zenon DEF AckInv, AckTracker, Alive, send_ready_ack, Sending, AckReady
  <2>3. /\ d \in DOMAIN deliveries
        /\ Head(publishes) = publishes[1]
        /\ 1 \in DOMAIN publishes
        /\ Acked \in Nat
    BY <2>1, <2>2 DEF OpenSlots, Acked, AckTypes
  <2>4. publishes[1].ack = d /\ ~Stale(d)
    BY Zenon, <2>2, <2>3 DEF OpenSlots, send_ready_ack, AckReady
  <2>5. /\ publishes' = Tail(publishes)
        /\ deliveries' = [deliveries EXCEPT ![d].ack = "completed"]
        /\ sent' = Append(sent, pkt)
        /\ UNCHANGED <<connection_epoch, mode>>
    BY Zenon, <2>3, <2>4 DEF send_ready_ack, UnchangedBySending, Write
  <2>6. OnlyAckChanged({d}, "completed") /\ DOMAIN deliveries' = DOMAIN deliveries
    BY <2>1, <2>3, <2>5, SetAckChanges DEF AckTypes, OnlyAckChanged
  <2>7. /\ Outdated' = Outdated
        /\ \A c \in DOMAIN deliveries : deliveries'[c].pkid = deliveries[c].pkid
    BY Zenon, <2>5, <2>6 DEF Outdated, Stale, OnlyAckChanged
  <2>8. Acked' = d
    BY <2>1, <2>2, <2>3, <2>5, <2>6 DEF Acked, AckTypes, OnlyAckChanged
  <2>9. /\ pkt \in PacketType /\ pkt.type = "PUBACK"
        /\ pkt.op = d /\ pkt.pkid = deliveries[d].pkid
    <3>1. deliveries[d] \in DeliveryType
      BY <2>1, <2>3 DEF AckTypes
    <3>2. deliveries[d].pkid \in Nat
      BY Zenon, <3>1, SessionAssumption DEF DeliveryType
    <3> QED
      BY <2>3, <3>2 DEF Pkt, PacketType
  <2>10. /\ Cardinality(Outdated) + CountOf(sent, "PUBACK", Len(sent)) + 1 = d
         /\ Cardinality(Outdated) \in Nat
    BY Zenon, <2>2 DEF PubAckInv
  <2>11. sent \in Seq(PacketType) /\ Len(sent) \in Nat
    BY Zenon, <1>TypesOfPubAcks
  <2> HIDE DEF pkt, d
  <2>12. PubAcksInArrivalOrder'
    BY Zenon, <2>3, <2>5, <2>6, <2>7, <2>9, <2>10, <1>WriteKeepsOrder
  <2>13. Cardinality(Outdated) + CountOf(sent', "PUBACK", Len(sent')) = d
    <3>1. CountOf(sent', "PUBACK", Len(sent) + 1) =
            CountOf(sent, "PUBACK", Len(sent)) + IF pkt.type = "PUBACK" THEN 1 ELSE 0
      <4>1. CountOf(Append(sent, pkt), "PUBACK", Len(sent) + 1) =
              CountOf(sent, "PUBACK", Len(sent)) + IF pkt.type = "PUBACK" THEN 1 ELSE 0
        BY <2>9, <2>11, CountAppend
      <4> QED
        BY Zenon, <2>5, <4>1
    <3>2. Len(sent') = Len(sent) + 1
      BY <2>5, <2>11
    <3> QED
      BY <2>9, <2>10, <2>11, <3>1, <3>2, CountNat
  <2> QED
    BY Zenon, <2>7, <2>8, <2>12, <2>13 DEF PubAckInv

\* A new connection starts with no PUBACK, and all deliveries are of earlier ones.
<1>ConnectPubAck.
    ASSUME TypeOK, TypeOK', AckInv, NEW sp, NEW client, NEW server, NEW m, NEW ka,
           connect(sp, client, server, m, ka)
    PROVE  PubAckInv'
  <2> USE <1>ConnectPubAck
  <2>1. /\ OpenSlots /\ ClosedSlots
        /\ publishes' = <<>>
        /\ connection_epoch' = connection_epoch + 1
        /\ sent' = <<>>
        /\ deliveries' = deliveries
    BY Zenon DEF AckInv, AckTracker, Alive, OpenSlots, connect
  <2>2. /\ deliveries \in Seq(DeliveryType) /\ DOMAIN deliveries = 1..Len(deliveries)
        /\ Len(deliveries) \in Nat /\ connection_epoch \in Nat
    BY Zenon, <1>TypesOfPubAcks
  <2>3. \A d \in DOMAIN deliveries : deliveries[d].epoch # connection_epoch + 1
    <3>1. \A d \in DOMAIN deliveries : deliveries[d] \in DeliveryType
      BY <2>2
    <3>2. \A d \in DOMAIN deliveries : deliveries[d].epoch \in Nat
      BY Zenon, <3>1 DEF DeliveryType
    <3> QED
      BY <2>1, <2>2, <3>2 DEF ClosedSlots
  <2>4. Outdated' = 1..Len(deliveries)
    BY Zenon, <2>1, <2>2, <2>3 DEF Outdated, Stale
  <2>5. Cardinality(Outdated') = Len(deliveries)
    <3>1. Cardinality(1..Len(deliveries)) = Len(deliveries)
      BY Zenon, <2>2, IntervalSize
    <3> QED
      BY Zenon, <2>4, <3>1
  <2>6. Acked' = Len(deliveries)
    BY <2>1, <2>2 DEF Acked
  <2>7. CountOf(sent', "PUBACK", Len(sent')) = 0
    BY Zenon, <2>1, CountZero
  <2>8. PubAcksInArrivalOrder'
    BY <2>1 DEF PubAcksInArrivalOrder
  <2> QED
    BY <2>2, <2>4, <2>5, <2>6, <2>7, <2>8 DEF PubAckInv

\* A delivery of the connection joins the others.
<1>DeliverPubAck.
    ASSUME TypeOK, TypeOK', PubAckInv, NEW p,
           publishes' = Append(publishes,
                               [pkid |-> p, d |-> Len(deliveries) + 1, ack |-> 0]),
           deliveries' = Append(deliveries,
                                [pkid |-> p, epoch |-> connection_epoch, ack |-> "held"]),
           UNCHANGED <<connection_epoch, mode, sent>>
    PROVE  PubAckInv'
  <2> USE <1>DeliverPubAck
  <2>1. /\ deliveries \in Seq(DeliveryType) /\ Len(deliveries) \in Nat
        /\ publishes \in Seq(SlotType) /\ Len(publishes) \in Nat
        /\ DOMAIN deliveries = 1..Len(deliveries)
    BY Zenon, <1>TypesOfPubAcks
  <2>2. Acked' = Acked
    BY <2>1 DEF Acked
  <2>3. /\ DOMAIN deliveries' = 1..(Len(deliveries) + 1)
        /\ \A d \in 1..Len(deliveries) : deliveries'[d] = deliveries[d]
        /\ deliveries'[Len(deliveries) + 1].epoch = connection_epoch
    BY <2>1
  <2>4. Outdated' = Outdated
    <3>1. \A d \in DOMAIN deliveries' : Stale(d)' <=> d \in Outdated
      BY <2>1, <2>3 DEF Stale, Outdated
    <3>2. Outdated \subseteq DOMAIN deliveries'
      BY <2>1, <2>3 DEF Outdated
    <3> QED
      BY Zenon, <3>1, <3>2 DEF Outdated
  <2>5. PubAcksInArrivalOrder'
    <3>1. DOMAIN deliveries \subseteq DOMAIN deliveries'
      BY <2>1, <2>3
    <3> QED
      BY Zenon, <2>1, <2>3, <2>4, <3>1 DEF PubAckInv, PubAcksInArrivalOrder
  <2> QED
    BY Zenon, <2>2, <2>4, <2>5 DEF PubAckInv

\* A session that is dropped writes nothing more.
<1>SessionDroppedPubAck.
    ASSUME TypeOK, TypeOK', PubAckInv, NEW how, how # "connected", SessionDropped(how)
    PROVE  PubAckInv'
  <2> USE <1>SessionDroppedPubAck
  <2>1. OnlyAckChanged({d \in DOMAIN deliveries : deliveries[d].ack = "pending"}, "detached")
    BY Zenon, TypesOfAcks, DetachChanges DEF SessionDropped
  <2> QED
    BY Zenon, <2>1, <1>PubAckFrame DEF SessionDropped

\* The end of a connection.
<1>EndConnectionPubAck.
    ASSUME TypeOK, TypeOK', PubAckInv, NEW e, NEW freed, EndConnection(e, freed)
    PROVE  PubAckInv'
  <2> USE <1>EndConnectionPubAck
  <2>1. OnlyAckChanged(ReadyAcks, "detached")
    BY Zenon, TypesOfAcks, DetachChanges DEF EndConnection
  <2> QED
    BY Zenon, <2>1, <1>PubAckFrame DEF EndConnection

\* A request that reaches the tracker moves no slot.
<1>RouteAckPubAck.
    ASSUME TypeOK, TypeOK', AckInv, PubAckInv, route_ack
    PROVE  PubAckInv'
  <2> USE <1>RouteAckPubAck
  <2> DEFINE d == Head(ack_rx)
  <2>1. mode = "connected" /\ ack_rx # <<>>
    BY Zenon DEF route_ack, PollsAcks, Polls, Sending
  <2>2. Stale(d) \/ \E i \in DOMAIN publishes : publishes[i].pkid = deliveries[d].pkid
    BY Zenon, <2>1, QueuedAckHasSlot
  <2>3. /\ publishes' = IF Stale(d) THEN publishes ELSE MarkReady(d)
        /\ deliveries' = IF Stale(d) THEN Detach({d}) ELSE deliveries
        /\ UNCHANGED <<sent, connection_epoch, mode>>
    BY Zenon, <2>2 DEF route_ack, UnchangedBySending
  <2>4. CASE Stale(d)
    <3>1. OnlyAckChanged({d}, "detached")
      BY Zenon, <2>3, <2>4, TypesOfAcks, DetachChanges
    <3> QED
      BY Zenon, <2>3, <2>4, <3>1, <1>PubAckFrame
  <2>5. CASE ~Stale(d)
    <3>1. OnlyAckChanged({}, "pending")
      BY Zenon, <2>3, <2>5 DEF OnlyAckChanged
    <3>2. DOMAIN publishes' = DOMAIN publishes
      BY Zenon, <2>3, <2>5 DEF MarkReady
    <3>3. publishes \in Seq(SlotType) /\ publishes' \in Seq(SlotType)
      BY Zenon DEF TypeOK, InflightTypeOK
    <3>4. Len(publishes') = Len(publishes)
      BY <3>2, <3>3
    <3> QED
      BY Zenon, <2>1, <2>3, <3>1, <3>4, <1>PubAckFrame
  <2> QED
    BY Zenon, <2>4, <2>5

\* The application: only the use of a token touches a delivery.
<1>ApplicationPubAck.
    ASSUME TypeOK, TypeOK', PubAckInv, Application
    PROVE  PubAckInv'
  <2> USE <1>ApplicationPubAck
  <2>1. CASE UNCHANGED <<publishes, deliveries, connection_epoch, mode, sent>>
    BY Zenon, <2>1, <1>PubAckStays
  <2>2. CASE drop_handle
    BY Zenon, <2>2, <1>SessionDroppedPubAck DEF drop_handle
  <2>3. ASSUME NEW d \in DOMAIN deliveries, acknowledge(d)
        PROVE  PubAckInv'
    <3>1. OnlyAckChanged({d}, "pending")
      BY Zenon, <2>3, TypesOfAcks, SetAckChanges DEF acknowledge
    <3> QED
      BY Zenon, <2>3, <3>1, <1>PubAckFrame DEF acknowledge
  <2> QED
    BY Zenon, <2>1, <2>2, <2>3 DEF Application, Submit, publish_qos0_call,
       publish_qos1_call, subscription_call, ping_call, reauth_call,
       continue_reauth_call, disconnect_call

\* The send loop writes packets of other types, and PUBACKs in their turn.
<1>SendPubAck.
    ASSUME TypeOK, TypeOK', AckInv, PubAckInv, Send
    PROVE  PubAckInv'
  <2> USE <1>SendPubAck
  <2> DEFINE Others == {"PUBLISH", "SUBSCRIBE", "UNSUBSCRIBE", "PINGREQ", "AUTH", "DISCONNECT"}
  <2>1. CASE send_ready_ack
    BY Zenon, <2>1, <1>SendReadyAckPubAck
  <2>2. CASE route_ack
    BY Zenon, <2>2, <1>RouteAckPubAck
  <2>3. CASE flush
    BY Zenon, <2>3, <1>PubAckStays DEF flush, UnchangedBySending
  <2>4. ASSUME NEW type \in Others, NEW p, NEW o, NEW dup,
               sent' = Append(sent, Pkt(type, p, o, dup)),
               UNCHANGED <<publishes, deliveries, connection_epoch, mode>>
        PROVE  PubAckInv'
    <3> DEFINE pkt == Pkt(type, p, o, dup)
    <3>1. sent \in Seq(PacketType) /\ sent' \in Seq(PacketType)
      BY Zenon DEF TypeOK, ConnectionTypeOK
    <3>2. pkt \in PacketType
      <4>1. Len(sent) + 1 \in DOMAIN Append(sent, pkt) /\ Append(sent, pkt)[Len(sent) + 1] = pkt
        BY <3>1
      <4>2. \A i \in DOMAIN sent' : sent'[i] \in PacketType
        BY <3>1
      <4> QED
        BY Zenon, <2>4, <4>1, <4>2
    <3>3. pkt.type # "PUBACK"
      BY Zenon DEF Pkt
    <3> HIDE DEF pkt
    <3> QED
      BY Zenon, <2>4, <3>2, <3>3, <1>WritePubAck DEF pkt
  <2>5. CASE send_replayed
    BY Zenon, <2>4, <2>5 DEF send_replayed, Write, UnchangedBySending
  <2>6. CASE send_disconnect
    BY Zenon, <2>4, <2>6 DEF send_disconnect, UnchangedBySending
  <2>7. CASE send_auth
    BY Zenon, <2>4, <2>7 DEF send_auth, Write, UnchangedBySending
  <2>8. CASE send_ping \/ send_keep_alive
    BY Zenon, <2>4, <2>8 DEF send_ping, send_keep_alive, WritePing, Write, UnchangedBySending
  <2>9. ASSUME NEW p \in Pkids, send_subscription(p)
        PROVE  PubAckInv'
    <3>1. \E type \in {"SUBSCRIBE", "UNSUBSCRIBE"} :
             sent' = Append(sent, Pkt(type, p, Head(sub_rx).op, FALSE))
      BY Zenon, <2>9 DEF send_subscription, Write
    <3> QED
      BY Zenon, <2>4, <2>9, <3>1 DEF send_subscription, UnchangedBySending
  <2>10. CASE send_publish_qos0
    BY Zenon, <2>4, <2>10 DEF send_publish_qos0, Write, UnchangedBySending
  <2>11. ASSUME NEW p \in Pkids, send_publish_qos1(p)
         PROVE  PubAckInv'
    BY Zenon, <2>4, <2>11 DEF send_publish_qos1, Write, UnchangedBySending
  <2> QED
    BY Zenon, <2>1, <2>2, <2>3, <2>5, <2>6, <2>7, <2>8, <2>9, <2>10, <2>11 DEF Send

\* Incoming packets write nothing; a QoS 1 PUBLISH is one more delivery.
<1>ReceivePubAck.
    ASSUME TypeOK, TypeOK', PubAckInv, Receive
    PROVE  PubAckInv'
  <2> USE <1>ReceivePubAck
  <2>1. CASE UNCHANGED <<publishes, deliveries, connection_epoch, mode, sent>>
    BY Zenon, <2>1, <1>PubAckStays
  <2>2. ASSUME NEW how \in {"panic_qos2", "panic_duplicate_publish"}, SessionDropped(how)
        PROVE  PubAckInv'
    BY Zenon, <2>2, <1>SessionDroppedPubAck
  <2>3. ASSUME NEW freed, protocol_error(freed)
        PROVE  PubAckInv'
    BY Zenon, <2>3, <1>EndConnectionPubAck DEF protocol_error
  <2>4. ASSUME NEW p \in ServerPkids, incoming_publish_qos1(p)
        PROVE  PubAckInv'
    BY Zenon, <2>2, <2>4, <1>DeliverPubAck DEF incoming_publish_qos1, UnchangedByReceiving
  <2>5. ASSUME NEW p \in Pkids, \/ incoming_suback(p) \/ incoming_unsuback(p)
                                \/ incoming_puback(p) \/ incoming_pubrec(p)
        PROVE  PubAckInv'
    BY Zenon, <2>1, <2>2, <2>3, <2>5 DEF incoming_suback, incoming_unsuback,
       incoming_puback, incoming_pubrec, AckMatches, AckUnmatched, UnchangedByReceiving
  <2>6. CASE incoming_auth_success \/ incoming_auth_continue \/ incoming_pingresp
    BY Zenon, <2>1, <2>6 DEF incoming_auth_success, incoming_auth_continue,
       incoming_pingresp, UnchangedByReceiving
  <2>7. CASE incoming_disconnect
    BY Zenon, <2>7, <1>EndConnectionPubAck DEF incoming_disconnect
  <2> QED
    BY Zenon, <2>2, <2>3, <2>4, <2>5, <2>6, <2>7 DEF Receive, incoming_publish_qos2,
       unexpected_packet
<1>1. CASE Connect
  BY Zenon, <1>1, <1>ConnectPubAck DEF Connect
<1>2. CASE Disconnect
  BY Zenon, <1>2, <1>EndConnectionPubAck DEF Disconnect, application_disconnect, io_error, ping_timeout
<1>3. CASE UNCHANGED sessionVars
  BY Zenon, <1>3, <1>PubAckStays DEF sessionVars
<1> QED
  BY Zenon, <1>1, <1>2, <1>3, <1>ApplicationPubAck, <1>SendPubAck, <1>ReceivePubAck DEF Next

\* The initial session has received and written nothing.
LEMMA PubAckInit ==
    ASSUME Init
    PROVE  PubAckInv
<1>1. deliveries = <<>> /\ sent = <<>> /\ publishes = <<>> /\ mode = "ready"
  BY Zenon DEF Init
<1>2. Outdated = {} /\ Cardinality(Outdated) = 0
  <2>1. Outdated = {}
    BY <1>1 DEF Outdated
  <2> QED
    BY Zenon, <2>1, FS_EmptySet
<1>3. 1..0 = {}
  OBVIOUS
<1>4. PubAcksInArrivalOrder
  BY <1>1 DEF PubAcksInArrivalOrder
<1> QED
  BY <1>1, <1>2, <1>3, <1>4 DEF PubAckInv

\* Whenever the application uses its tokens and however connections end, the
\* PUBACKs written on a connection answer the QoS 1 PUBLISHes of that connection,
\* in order, without a gap and with their identifiers (next_outgoing_request).
THEOREM PubAcksOrdered == Spec => []PubAcksInArrivalOrder
<1>1. Init => TypeOK /\ AckInv /\ PubAckInv
  BY Zenon, InitInv, PubAckInit
<1>2. TypeOK /\ AckInv /\ PubAckInv /\ [Next]_sessionVars => (TypeOK /\ AckInv /\ PubAckInv)'
  BY Zenon, TypeStep, AckStep, PubAckStep
<1>3. PubAckInv => PubAcksInArrivalOrder
  BY Zenon DEF PubAckInv
<1> QED
  BY <1>1, <1>2, <1>3, PTL DEF Spec

-----------------------------------------------------------------------------
\* The notifiers of an operation in a channel: a number, and 0 for a queue that is
\* empty or does not have the operation.
LEMMA HoldersValue ==
    ASSUME NEW S, NEW s \in Seq(S), NEW o
    PROVE  /\ Holders(s, o) \in Nat
           /\ Holders(s, o) = 0 <=> \A i \in DOMAIN s : s[i] # o
           /\ Holders(<<>>, o) = 0
<1> DEFINE I == {i \in DOMAIN s : s[i] = o}
<1>1. Len(s) \in Nat /\ I \in SUBSET (1..Len(s))
  OBVIOUS
<1>2. IsFiniteSet(I) /\ Cardinality(I) \in Nat
  BY Zenon, <1>1, PositionsFinite
<1>3. Cardinality(I) = 0 <=> I = {}
  BY Zenon, <1>2, FS_EmptySet
<1>4. Holders(<<>>, o) = 0
  <2>1. {i \in DOMAIN <<>> : <<>>[i] = o} = {}
    OBVIOUS
  <2> QED
    BY Zenon, <2>1, FS_EmptySet DEF Holders
<1> QED
  BY Zenon, <1>2, <1>3, <1>4 DEF Holders

\* The notifiers in a queue of requests: a number, 0 for an empty queue and for one without the operation.
LEMMA OpHoldersValue ==
    ASSUME NEW S, NEW s \in Seq(S), NEW o
    PROVE  /\ OpHolders(s, o) \in Nat
           /\ OpHolders(s, o) = 0 <=> \A i \in DOMAIN s : s[i].op # o
           /\ OpHolders(<<>>, o) = 0
<1> DEFINE I == {i \in DOMAIN s : s[i].op = o}
<1>1. Len(s) \in Nat /\ I \in SUBSET (1..Len(s))
  OBVIOUS
<1>2. IsFiniteSet(I) /\ Cardinality(I) \in Nat
  BY Zenon, <1>1, PositionsFinite
<1>3. Cardinality(I) = 0 <=> I = {}
  BY Zenon, <1>2, FS_EmptySet
<1>4. OpHolders(<<>>, o) = 0
  <2>1. {i \in DOMAIN <<>> : <<>>[i].op = o} = {}
    OBVIOUS
  <2> QED
    BY Zenon, <2>1, FS_EmptySet DEF OpHolders
<1> QED
  BY Zenon, <1>2, <1>3, <1>4 DEF OpHolders

\* A map of one entry, and one of none.
LEMMA EntryHoldersSmall ==
    ASSUME NEW a, NEW o
    PROVE  /\ EntryHolders({a}, o) = IF a.op = o THEN 1 ELSE 0
           /\ EntryHolders({}, o) = 0
<1>1. \A e \in {a} : e = a
  BY Zenon
<1>2. a.op = o => {e \in {a} : e.op = o} = {a}
  BY Zenon, <1>1
<1>3. a.op # o => {e \in {a} : e.op = o} = {}
  BY Zenon, <1>1
<1>4. {e \in {} : e.op = o} = {}
  BY Zenon
<1>5. Cardinality({a}) = 1 /\ Cardinality({}) = 0
  BY Zenon, FS_Singleton, FS_EmptySet
<1> QED
  BY Zenon, <1>2, <1>3, <1>4, <1>5 DEF EntryHolders

Without(S, p) == {f \in S : f.pkid # p}

-----------------------------------------------------------------------------
\* The notifiers of operation o, wherever they are.
Held(o) ==
      Holders(o_pub_q0_rx, o) + Holders(o_pub_q12_rx, o) + OpHolders(sub_rx, o)
    + Holders(ping_rx, o) + OpHolders(auth_rx, o) + Holders(pingreq, o)
    + OpHolders(publish_qos1, o) + EntryHolders(subscribe, o)
    + EntryHolders(unsubscribe, o) + EntryHolders({auth}, o)

Pending(o) == IF o \in Ops /\ token[o] = "pending" THEN 1 ELSE 0

NotifierInv ==
    /\ UniqueKeys(publish_qos1)
    /\ IsFiniteSet(subscribe) /\ IsFiniteSet(unsubscribe)
    /\ Alive => \A o \in Nat \ {0} : Held(o) = Pending(o)

\* What the proofs use of the type invariant.
LEMMA TypesOfNotifiers ==
    ASSUME TypeOK
    PROVE  /\ o_pub_q0_rx \in Seq(Nat \ {0}) /\ o_pub_q12_rx \in Seq(Nat \ {0})
           /\ sub_rx \in Seq(SubscriptionType) /\ ping_rx \in Seq(Nat \ {0})
           /\ auth_rx \in Seq(AuthType) /\ pingreq \in Seq(Nat)
           /\ publish_qos1 \in Seq(EntryType)
           /\ token \in Seq(Outcomes) /\ Len(token) \in Nat
BY DEF TypeOK, ChannelsTypeOK, InflightTypeOK, HandlesTypeOK

\* The terms of Held(o) are numbers.
Counted(o) ==
    /\ Holders(o_pub_q0_rx, o) \in Nat /\ Holders(o_pub_q12_rx, o) \in Nat
    /\ OpHolders(sub_rx, o) \in Nat /\ Holders(ping_rx, o) \in Nat
    /\ OpHolders(auth_rx, o) \in Nat /\ Holders(pingreq, o) \in Nat
    /\ OpHolders(publish_qos1, o) \in Nat
    /\ EntryHolders(subscribe, o) \in Nat
    /\ EntryHolders(unsubscribe, o) \in Nat
    /\ EntryHolders({auth}, o) \in Nat

\* Every step keeps the invariant.
LEMMA NotifierStep ==
    ASSUME TypeOK, AckInv, NotifierInv, [Next]_sessionVars
    PROVE  NotifierInv'

\* One more at the end.
<1>HoldersAppend.
    ASSUME NEW S, NEW s \in Seq(S), NEW x \in S, NEW o
    PROVE  Holders(Append(s, x), o) = Holders(s, o) + IF x = o THEN 1 ELSE 0
  <2> USE <1>HoldersAppend
  <2> DEFINE t == Append(s, x)
             I == {i \in 1..Len(s) : s[i] = o}
             J == {i \in 1..(Len(s) + 1) : t[i] = o}
  <2>1. /\ Len(s) \in Nat /\ DOMAIN s = 1..Len(s)
        /\ DOMAIN t = 1..(Len(s) + 1)
        /\ \A i \in 1..Len(s) : t[i] = s[i]
        /\ t[Len(s) + 1] = x
    BY Appended
  <2> HIDE DEF t
  <2>2. IsFiniteSet(I) /\ Cardinality(I) \in Nat /\ Len(s) + 1 \notin I
    <3>1. I \in SUBSET (1..Len(s)) /\ Len(s) + 1 \notin I
      BY <2>1
    <3> QED
      BY Zenon, <2>1, <3>1, PositionsFinite
  <2>3. CASE x = o
    <3>1. J = I \cup {Len(s) + 1}
      BY <2>1, <2>3
    <3>2. Cardinality(I \cup {Len(s) + 1}) = Cardinality(I) + 1
      BY Zenon, <2>2, FS_AddElement
    <3> QED
      BY Zenon, <2>1, <2>3, <3>1, <3>2 DEF Holders, t
  <2>4. CASE x # o
    <3>1. J = I
      BY <2>1, <2>4
    <3>2. Holders(t, o) = Holders(s, o)
      BY Zenon, <2>1, <3>1 DEF Holders
    <3>3. Holders(s, o) \in Nat
      BY Zenon, HoldersValue
    <3> QED
      BY <2>4, <3>2, <3>3 DEF t
  <2> QED
    BY Zenon, <2>3, <2>4

\* One less, at position g.
<1>HoldersGap.
    ASSUME NEW S, NEW s \in Seq(S), NEW g \in 1..Len(s), NEW t, NEW o,
           DOMAIN t = 1..(Len(s) - 1),
           \A i \in 1..(Len(s) - 1) : t[i] = s[IF i < g THEN i ELSE i + 1]
    PROVE  Holders(t, o) = Holders(s, o) - IF s[g] = o THEN 1 ELSE 0
  <2> USE <1>HoldersGap
  <2> DEFINE I == {i \in 1..Len(s) : s[i] = o}
             J == {i \in 1..(Len(s) - 1) : t[i] = o}
  <2>1. Len(s) \in Nat /\ DOMAIN s = 1..Len(s)
    OBVIOUS
  <2>2. I \in SUBSET (1..Len(s)) /\ (g \in I <=> s[g] = o)
    BY Zenon
  <2>3. J = {i \in 1..(Len(s) - 1) : (IF i < g THEN i ELSE i + 1) \in I}
    <3>1. \A i \in 1..(Len(s) - 1) : (IF i < g THEN i ELSE i + 1) \in 1..Len(s)
      BY <2>1
    <3> QED
      BY Zenon, <3>1
  <2> HIDE DEF I, J
  <2>4. Cardinality(J) = Cardinality(I) - IF g \in I THEN 1 ELSE 0
    <3> DEFINE n == Len(s)
    <3>1. n \in Nat /\ g \in 1..n /\ I \in SUBSET (1..n)
      BY Zenon, <2>1, <2>2
    <3>2. J = {i \in 1..(n - 1) : (IF i < g THEN i ELSE i + 1) \in I}
      BY Zenon, <2>3
    <3> HIDE DEF n
    <3> QED
      BY SMTT(20), <3>1, <3>2, GapCardinality
  <2>5. Holders(t, o) = Cardinality(J) /\ Holders(s, o) = Cardinality(I)
    BY Zenon, <2>1 DEF Holders, I, J
  <2> QED
    BY Zenon, <2>2, <2>4, <2>5

\* One less, at the front.
<1>HoldersTail.
    ASSUME NEW S, NEW s \in Seq(S), s # <<>>, NEW o
    PROVE  Holders(Tail(s), o) = Holders(s, o) - IF Head(s) = o THEN 1 ELSE 0
  <2> USE <1>HoldersTail
  <2> DEFINE t == Tail(s)
  <2>1. /\ 1 \in 1..Len(s) /\ Head(s) = s[1]
        /\ DOMAIN t = 1..(Len(s) - 1)
        /\ \A i \in 1..(Len(s) - 1) : t[i] = s[IF i < 1 THEN i ELSE i + 1]
    OBVIOUS
  <2> HIDE DEF t
  <2>2. Holders(t, o) = Holders(s, o) - IF s[1] = o THEN 1 ELSE 0
    BY <2>1, <1>HoldersGap
  <2> QED
    BY Zenon, <2>1, <2>2 DEF t

\* One more at the end.
<1>OpHoldersAppend.
    ASSUME NEW S, NEW s \in Seq(S), NEW x \in S, NEW o
    PROVE  OpHolders(Append(s, x), o) = OpHolders(s, o) + IF x.op = o THEN 1 ELSE 0
  <2> USE <1>OpHoldersAppend
  <2> DEFINE t == Append(s, x)
             I == {i \in 1..Len(s) : s[i].op = o}
             J == {i \in 1..(Len(s) + 1) : t[i].op = o}
  <2>1. /\ Len(s) \in Nat /\ DOMAIN s = 1..Len(s)
        /\ DOMAIN t = 1..(Len(s) + 1)
        /\ \A i \in 1..Len(s) : t[i] = s[i]
        /\ t[Len(s) + 1] = x
    BY Appended
  <2> HIDE DEF t
  <2>2. IsFiniteSet(I) /\ Cardinality(I) \in Nat /\ Len(s) + 1 \notin I
    <3>1. I \in SUBSET (1..Len(s)) /\ Len(s) + 1 \notin I
      BY <2>1
    <3> QED
      BY Zenon, <2>1, <3>1, PositionsFinite
  <2>3. CASE x.op = o
    <3>1. J = I \cup {Len(s) + 1}
      BY <2>1, <2>3
    <3>2. Cardinality(I \cup {Len(s) + 1}) = Cardinality(I) + 1
      BY Zenon, <2>2, FS_AddElement
    <3> QED
      BY Zenon, <2>1, <2>3, <3>1, <3>2 DEF OpHolders, t
  <2>4. CASE x.op # o
    <3>1. J = I
      BY <2>1, <2>4
    <3>2. OpHolders(t, o) = OpHolders(s, o)
      BY Zenon, <2>1, <3>1 DEF OpHolders
    <3>3. OpHolders(s, o) \in Nat
      BY Zenon, OpHoldersValue
    <3> QED
      BY <2>4, <3>2, <3>3 DEF t
  <2> QED
    BY Zenon, <2>3, <2>4

\* One less, at position g.
<1>OpHoldersGap.
    ASSUME NEW S, NEW s \in Seq(S), NEW g \in 1..Len(s), NEW t, NEW o,
           DOMAIN t = 1..(Len(s) - 1),
           \A i \in 1..(Len(s) - 1) : t[i] = s[IF i < g THEN i ELSE i + 1]
    PROVE  OpHolders(t, o) = OpHolders(s, o) - IF s[g].op = o THEN 1 ELSE 0
  <2> USE <1>OpHoldersGap
  <2> DEFINE I == {i \in 1..Len(s) : s[i].op = o}
             J == {i \in 1..(Len(s) - 1) : t[i].op = o}
  <2>1. Len(s) \in Nat /\ DOMAIN s = 1..Len(s)
    OBVIOUS
  <2>2. I \in SUBSET (1..Len(s)) /\ (g \in I <=> s[g].op = o)
    BY Zenon
  <2>3. J = {i \in 1..(Len(s) - 1) : (IF i < g THEN i ELSE i + 1) \in I}
    <3>1. \A i \in 1..(Len(s) - 1) : (IF i < g THEN i ELSE i + 1) \in 1..Len(s)
      BY <2>1
    <3> QED
      BY Zenon, <3>1
  <2> HIDE DEF I, J
  <2>4. Cardinality(J) = Cardinality(I) - IF g \in I THEN 1 ELSE 0
    <3> DEFINE n == Len(s)
    <3>1. n \in Nat /\ g \in 1..n /\ I \in SUBSET (1..n)
      BY Zenon, <2>1, <2>2
    <3>2. J = {i \in 1..(n - 1) : (IF i < g THEN i ELSE i + 1) \in I}
      BY Zenon, <2>3
    <3> HIDE DEF n
    <3> QED
      BY SMTT(20), <3>1, <3>2, GapCardinality
  <2>5. OpHolders(t, o) = Cardinality(J) /\ OpHolders(s, o) = Cardinality(I)
    BY Zenon, <2>1 DEF OpHolders, I, J
  <2> QED
    BY Zenon, <2>2, <2>4, <2>5

\* One less, at the front.
<1>OpHoldersTail.
    ASSUME NEW S, NEW s \in Seq(S), s # <<>>, NEW o
    PROVE  OpHolders(Tail(s), o) = OpHolders(s, o) - IF Head(s).op = o THEN 1 ELSE 0
  <2> USE <1>OpHoldersTail
  <2> DEFINE t == Tail(s)
  <2>1. /\ 1 \in 1..Len(s) /\ Head(s) = s[1]
        /\ DOMAIN t = 1..(Len(s) - 1)
        /\ \A i \in 1..(Len(s) - 1) : t[i] = s[IF i < 1 THEN i ELSE i + 1]
    OBVIOUS
  <2> HIDE DEF t
  <2>2. OpHolders(t, o) = OpHolders(s, o) - IF s[1].op = o THEN 1 ELSE 0
    BY <2>1, <1>OpHoldersGap
  <2> QED
    BY Zenon, <2>1, <2>2 DEF t

\* It keeps the keys distinct and gives up one notifier.
<1>ShiftRemoveHolders.
    ASSUME NEW q \in Seq(EntryType), NEW p, p \in PkidsOf(Entries(q)), UniqueKeys(q)
    PROVE  /\ UniqueKeys(ShiftRemove(q, p))
           /\ \A o : OpHolders(ShiftRemove(q, p), o) = OpHolders(q, o) -
                       IF o \in Overwritten(Entries(q), p) THEN 1 ELSE 0
  <2> USE <1>ShiftRemoveHolders
  <2> DEFINE t == ShiftRemove(q, p)
  <2>1. PICK g \in 1..Len(q) :
                /\ q[g].pkid = p
                /\ Overwritten(Entries(q), p) = {q[g].op}
                /\ DOMAIN t = 1..(Len(q) - 1)
                /\ \A i \in 1..(Len(q) - 1) : t[i] = q[IF i < g THEN i ELSE i + 1]
    BY ShiftRemoveShape
  <2> HIDE DEF t
  <2>2. \A o : o \in Overwritten(Entries(q), p) <=> q[g].op = o
    BY Zenon, <2>1
  <2>3. \A o : OpHolders(t, o) = OpHolders(q, o) - IF q[g].op = o THEN 1 ELSE 0
    BY <2>1, <1>OpHoldersGap
  <2>4. UniqueKeys(t)
    <3> SUFFICES ASSUME NEW i \in 1..(Len(q) - 1), NEW j \in 1..(Len(q) - 1),
                        t[i].pkid = t[j].pkid
                 PROVE  i = j
      BY Zenon, <2>1 DEF UniqueKeys
    <3> DEFINE a == IF i < g THEN i ELSE i + 1
               b == IF j < g THEN j ELSE j + 1
    <3>1. a \in DOMAIN q /\ b \in DOMAIN q
      OBVIOUS
    <3>2. q[a].pkid = q[b].pkid
      BY Zenon, <2>1
    <3>3. a = b
      BY Zenon, <3>1, <3>2 DEF UniqueKeys
    <3> QED
      BY <3>3
  <2> QED
    BY Zenon, <2>2, <2>3, <2>4 DEF t

\* insert replaces the entry that has the key, or appends a new one.
<1>IndexInsertHolders.
    ASSUME NEW q \in Seq(EntryType), NEW e \in EntryType, UniqueKeys(q)
    PROVE  /\ UniqueKeys(IndexInsert(q, e))
           /\ \A o : OpHolders(IndexInsert(q, e), o) = OpHolders(q, o)
                       - (IF o \in Overwritten(Entries(q), e.pkid) THEN 1 ELSE 0)
                       + (IF e.op = o THEN 1 ELSE 0)
  <2> USE <1>IndexInsertHolders
  <2> DEFINE t == IndexInsert(q, e)
  <2>0. DOMAIN q = 1..Len(q) /\ Len(q) \in Nat
    OBVIOUS
  <2>1. CASE \A i \in DOMAIN q : q[i].pkid # e.pkid
    <3>1. t = Append(q, e)
      BY Zenon, <2>1 DEF IndexInsert
    <3>2. Overwritten(Entries(q), e.pkid) = {}
      BY Zenon, <2>1 DEF Overwritten, Entries
    <3>3. \A o : OpHolders(Append(q, e), o) = OpHolders(q, o) + IF e.op = o THEN 1 ELSE 0
      BY Zenon, <1>OpHoldersAppend
    <3>4. \A o : OpHolders(q, o) \in Nat
      BY Zenon, OpHoldersValue
    <3>5. UniqueKeys(Append(q, e))
      <4>1. /\ DOMAIN Append(q, e) = 1..(Len(q) + 1)
            /\ \A i \in 1..Len(q) : Append(q, e)[i] = q[i]
            /\ Append(q, e)[Len(q) + 1] = e
        OBVIOUS
      <4>2. \A i \in 1..(Len(q) + 1) : i \in 1..Len(q) \/ i = Len(q) + 1
        BY <2>0
      <4> QED
        BY Zenon, <2>0, <2>1, <4>1, <4>2 DEF UniqueKeys
    <3>6. \A o : o \notin Overwritten(Entries(q), e.pkid)
      BY Zenon, <3>2
    <3> HIDE DEF t
    <3> QED
      BY <3>1, <3>3, <3>4, <3>5, <3>6 DEF t
  <2>2. ASSUME NEW k \in DOMAIN q, q[k].pkid = e.pkid
        PROVE  /\ UniqueKeys(t)
               /\ \A o : OpHolders(t, o) = OpHolders(q, o)
                         - (IF o \in Overwritten(Entries(q), e.pkid) THEN 1 ELSE 0)
                         + (IF e.op = o THEN 1 ELSE 0)
    <3>1. \A i \in DOMAIN q : q[i].pkid = e.pkid <=> i = k
      BY Zenon, <2>2 DEF UniqueKeys
    <3>2. DOMAIN t = DOMAIN q /\ \A i \in DOMAIN q : t[i] = IF i = k THEN e ELSE q[i]
      BY Zenon, <2>2, <3>1 DEF IndexInsert
    <3> HIDE DEF t
    <3>3. Overwritten(Entries(q), e.pkid) = {q[k].op}
      BY Zenon, <3>1 DEF Overwritten, Entries
    <3>4. UniqueKeys(t)
      BY Zenon, <2>2, <3>2 DEF UniqueKeys
    <3> SUFFICES ASSUME NEW o
                 PROVE  OpHolders(t, o) = OpHolders(q, o) - (IF q[k].op = o THEN 1 ELSE 0)
                                           + (IF e.op = o THEN 1 ELSE 0)
      BY Zenon, <3>3, <3>4
    <3> DEFINE I == {i \in DOMAIN q : q[i].op = o}
               J == {i \in DOMAIN q : t[i].op = o}
               K == I \ {k}
    <3>5. IsFiniteSet(I) /\ Cardinality(I) \in Nat
      BY Zenon, <2>0, PositionsFinite
    <3>6. OpHolders(t, o) = Cardinality(J) /\ OpHolders(q, o) = Cardinality(I)
      BY Zenon, <3>2 DEF OpHolders
    <3>7. /\ IsFiniteSet(K) /\ Cardinality(K) \in Nat
          /\ Cardinality(K) = Cardinality(I) - IF k \in I THEN 1 ELSE 0
      <4>1. IsFiniteSet(K) /\ Cardinality(K) = IF k \in I THEN Cardinality(I) - 1 ELSE Cardinality(I)
        BY Zenon, <3>5, FS_RemoveElement
      <4> QED
        BY <3>5, <4>1, FS_CardinalityType
    <3>8. k \in I <=> q[k].op = o
      BY Zenon, <2>2
    <3>9. Cardinality(J) = Cardinality(K) + IF e.op = o THEN 1 ELSE 0
      <4>1. CASE e.op = o
        <5>1. J = K \cup {k} /\ k \notin K
          BY Zenon, <2>2, <3>2, <4>1
        <5>2. Cardinality(K \cup {k}) = IF k \in K THEN Cardinality(K) ELSE Cardinality(K) + 1
          BY Zenon, <3>7, FS_AddElement
        <5> HIDE DEF J, K
        <5> QED
          BY Zenon, <4>1, <5>1, <5>2
      <4>2. CASE e.op # o
        <5>1. J = K
          BY Zenon, <2>2, <3>2, <4>2
        <5> HIDE DEF J, K
        <5> QED
          BY <3>7, <4>2, <5>1
      <4> QED
        BY Zenon, <4>1, <4>2
    <3> HIDE DEF I, J, K
    <3> QED
      BY Zenon, <3>5, <3>6, <3>7, <3>8, <3>9
  <2> QED
    BY Zenon, <2>1, <2>2

\* The notifiers of an operation in a map without order.
<1>EntryHoldersValue.
    ASSUME NEW S, IsFiniteSet(S), NEW o
    PROVE  /\ EntryHolders(S, o) \in Nat
           /\ EntryHolders(S, o) = 0 <=> o \notin OpsOf(S)
  <2> USE <1>EntryHoldersValue
  <2> DEFINE T == {e \in S : e.op = o}
  <2>1. IsFiniteSet(T)
    BY Zenon, FS_Subset
  <2>2. Cardinality(T) \in Nat /\ (Cardinality(T) = 0 <=> T = {})
    BY Zenon, <2>1, FS_CardinalityType, FS_EmptySet
  <2>3. T = {} <=> o \notin OpsOf(S)
    BY Zenon DEF OpsOf
  <2> QED
    BY Zenon, <2>2, <2>3 DEF EntryHolders

\* The entries with a key go, and their notifiers with them.
<1>EntryHoldersRest.
    ASSUME NEW S, IsFiniteSet(S), NEW p, NEW o
    PROVE  /\ IsFiniteSet(Without(S, p))
           /\ o \notin Overwritten(S, p) => EntryHolders(Without(S, p), o) = EntryHolders(S, o)
           /\ o \in Overwritten(S, p) => EntryHolders(Without(S, p), o) < EntryHolders(S, o)
  <2> USE <1>EntryHoldersRest
  <2> DEFINE R == {f \in S : f.pkid # p}
             T == {e \in S : e.op = o}
             U == {e \in R : e.op = o}
  <2>1. IsFiniteSet(R) /\ IsFiniteSet(T) /\ U \in SUBSET T
    <3>1. R \in SUBSET S /\ T \in SUBSET S /\ U \in SUBSET T
      BY Zenon
    <3> QED
      BY Zenon, <3>1, FS_Subset
  <2>2. Cardinality(U) \in Nat /\ Cardinality(T) \in Nat /\ Cardinality(U) <= Cardinality(T)
    BY Zenon, <2>1, FS_Subset, FS_CardinalityType
  <2>3. Cardinality(T) = Cardinality(U) => T = U
    BY Zenon, <2>1, FS_Subset
  <2>4. o \notin Overwritten(S, p) => U = T
    BY Zenon DEF Overwritten
  <2>5. o \in Overwritten(S, p) => U # T
    BY Zenon DEF Overwritten
  <2>6. EntryHolders(R, o) = Cardinality(U) /\ EntryHolders(S, o) = Cardinality(T)
    BY Zenon DEF EntryHolders
  <2>7. Without(S, p) = R
    BY Zenon DEF Without
  <2> HIDE DEF R, T, U
  <2> QED
    BY <2>1, <2>2, <2>3, <2>4, <2>5, <2>6, <2>7

\* HashMap::insert replaces the entry that has the key.
<1>HashInsertHolders.
    ASSUME NEW S, IsFiniteSet(S), NEW e, NEW o
    PROVE  LET b == IF e.op = o THEN 1 ELSE 0
           IN /\ IsFiniteSet(HashInsert(S, e))
              /\ o \notin Overwritten(S, e.pkid) =>
                   EntryHolders(HashInsert(S, e), o) = EntryHolders(S, o) + b
              /\ o \in Overwritten(S, e.pkid) =>
                   EntryHolders(HashInsert(S, e), o) < EntryHolders(S, o) + b
  <2> USE <1>HashInsertHolders
  <2> DEFINE R == Without(S, e.pkid)
             b == IF e.op = o THEN 1 ELSE 0
             U == {f \in R : f.op = o}
             V == {f \in R \cup {e} : f.op = o}
  <2>1. /\ IsFiniteSet(R)
        /\ o \notin Overwritten(S, e.pkid) => EntryHolders(R, o) = EntryHolders(S, o)
        /\ o \in Overwritten(S, e.pkid) => EntryHolders(R, o) < EntryHolders(S, o)
    BY Zenon, <1>EntryHoldersRest
  <2>2. e \notin R /\ HashInsert(S, e) = R \cup {e}
    BY Zenon DEF HashInsert, Without
  <2>3. IsFiniteSet(R \cup {e})
    BY Zenon, <2>1, FS_AddElement
  <2>4. IsFiniteSet(U) /\ e \notin U
    <3>1. U \in SUBSET R
      BY Zenon
    <3> QED
      BY Zenon, <2>1, <2>2, <3>1, FS_Subset
  <2>5. Cardinality(U) \in Nat
    BY Zenon, <2>4, FS_CardinalityType
  <2>6. Cardinality(V) = Cardinality(U) + b
    <3>1. CASE e.op = o
      <4>1. V = U \cup {e}
        BY Zenon, <3>1
      <4>2. Cardinality(U \cup {e}) = Cardinality(U) + 1
        BY Zenon, <2>4, FS_AddElement
      <4> QED
        BY Zenon, <3>1, <4>1, <4>2
    <3>2. CASE e.op # o
      <4>1. V = U
        BY Zenon, <3>2
      <4> HIDE DEF U, V
      <4> QED
        BY <2>5, <3>2, <4>1
    <3> QED
      BY Zenon, <3>1, <3>2
  <2>7. EntryHolders(R, o) = Cardinality(U) /\ EntryHolders(HashInsert(S, e), o) = Cardinality(V)
    BY Zenon, <2>2 DEF EntryHolders
  <2>8. EntryHolders(S, o) \in Nat
    BY Zenon, <1>EntryHoldersValue
  <2>9. IsFiniteSet(HashInsert(S, e))
    BY Zenon, <2>2, <2>3
  <2> HIDE DEF R, U, V
  <2> QED
    BY <2>1, <2>5, <2>6, <2>7, <2>8, <2>9

\* Every place holds a number of them.
<1>HeldValues.
    ASSUME TypeOK, IsFiniteSet(subscribe), IsFiniteSet(unsubscribe), NEW o
    PROVE  /\ Holders(o_pub_q0_rx, o) \in Nat /\ Holders(o_pub_q12_rx, o) \in Nat
           /\ OpHolders(sub_rx, o) \in Nat /\ Holders(ping_rx, o) \in Nat
           /\ OpHolders(auth_rx, o) \in Nat /\ Holders(pingreq, o) \in Nat
           /\ OpHolders(publish_qos1, o) \in Nat
           /\ EntryHolders(subscribe, o) \in Nat /\ EntryHolders(unsubscribe, o) \in Nat
           /\ EntryHolders({auth}, o) \in Nat
  <2> USE <1>HeldValues
  <2>1. EntryHolders({auth}, o) \in Nat
    <3>1. EntryHolders({auth}, o) = IF auth.op = o THEN 1 ELSE 0
      BY Zenon, EntryHoldersSmall
    <3> QED
      BY <3>1
  <2> QED
    BY Zenon, <2>1, TypesOfNotifiers, HoldersValue, OpHoldersValue, <1>EntryHoldersValue

\* What a resolution does to the tokens.
<1>ResolvePending.
    ASSUME TypeOK, NEW S, NEW outcome \in {"completed", "canceled", "detached"},
           token' = Resolve(S, outcome)
    PROVE  \A o : Pending(o)' = IF o \in S THEN 0 ELSE Pending(o)
  <2> USE <1>ResolvePending
  <2>1. token \in Seq(Outcomes) /\ DOMAIN token = 1..Len(token) /\ Len(token) \in Nat
    BY TypesOfNotifiers
  <2>2. DOMAIN token' = 1..Len(token) /\ \A o \in 1..Len(token) : token'[o] = IF o \in S THEN outcome ELSE token[o]
    BY Zenon DEF Resolve, Ops
  <2>3. Len(token') = Len(token)
    BY <2>1, <2>2 DEF Resolve, Ops
  <2>4. Ops' = Ops
    BY Zenon, <2>3 DEF Ops
  <2>5. outcome # "pending"
    BY Zenon
  <2> QED
    BY Zenon, <2>2, <2>4, <2>5 DEF Pending, Ops

\* Steps that touch no notifier.
<1>NotifierFrame.
    ASSUME NotifierInv, UNCHANGED <<channels, inflight, token>>, Alive' => Alive
    PROVE  NotifierInv'
  <2> USE <1>NotifierFrame
  <2>1. \A o : Held(o)' = Held(o) /\ Pending(o)' = Pending(o)
    BY Zenon DEF Held, Pending, Ops
  <2> QED
    BY Zenon, <2>1 DEF NotifierInv, UniqueKeys

\* A session that ends makes no promise about its notifiers.
<1>DroppedNotifier.
    ASSUME NotifierInv, NEW how, how \notin {"ready", "connected"}, SessionDropped(how)
    PROVE  NotifierInv'
  <2> USE <1>DroppedNotifier
  <2>1. UNCHANGED <<publish_qos1, subscribe, unsubscribe>> /\ ~Alive'
    BY Zenon DEF SessionDropped, Alive
  <2> QED
    BY Zenon, <2>1 DEF NotifierInv, UniqueKeys

\* A notifier moves from one place to another.
<1>MoveNotifier.
    ASSUME NotifierInv, Alive, UNCHANGED <<publish_qos1, subscribe, unsubscribe, token>>,
           \A o \in Nat \ {0} : Held(o)' = Held(o)
    PROVE  NotifierInv'
  <2> USE <1>MoveNotifier
  <2>1. \A o : Pending(o)' = Pending(o)
    BY Zenon DEF Pending, Ops
  <2> QED
    BY Zenon, <2>1 DEF NotifierInv, UniqueKeys

\* A request comes with a fresh notifier.
<1>SubmitNotifier.
    ASSUME TypeOK, NotifierInv, Alive, UNCHANGED <<publish_qos1, subscribe, unsubscribe>>,
           token' = Append(token, "pending"), NEW n, n = NewOp,
           \A o \in Nat \ {0} : Held(o)' = Held(o) + IF n = o THEN 1 ELSE 0
    PROVE  NotifierInv'
  <2> USE <1>SubmitNotifier
  <2>1. token \in Seq(Outcomes) /\ Len(token) \in Nat
    BY Zenon, TypesOfNotifiers
  <2>2. /\ Ops = 1..Len(token) /\ Ops' = 1..(Len(token) + 1) /\ n = Len(token) + 1
        /\ \A o \in 1..Len(token) : token'[o] = token[o]
        /\ token'[n] = "pending"
    BY <2>1 DEF Ops, NewOp
  <2>3. ASSUME NEW o \in Nat \ {0}
        PROVE  Pending(o)' = Pending(o) + IF n = o THEN 1 ELSE 0
    <3>1. CASE o \in 1..Len(token)
      <4>1. Pending(o)' = Pending(o) /\ n # o
        <5>1. o \in Ops /\ o \in Ops' /\ token'[o] = token[o] /\ n # o
          BY <2>1, <2>2, <3>1
        <5> QED
          BY Zenon, <5>1 DEF Pending
      <4>2. Pending(o) \in Nat
        BY Zenon DEF Pending
      <4> QED
        BY <4>1, <4>2
    <3>2. CASE o = n
      <4>1. Pending(o) = 0 /\ Pending(o)' = 1
        <5>1. n \notin Ops /\ n \in Ops' /\ token'[n] = "pending"
          BY <2>1, <2>2
        <5> QED
          BY Zenon, <3>2, <5>1 DEF Pending
      <4> QED
        BY <3>2, <4>1
    <3>3. CASE o > n
      <4>1. Pending(o) = 0 /\ Pending(o)' = 0 /\ n # o
        <5>1. o \notin Ops /\ o \notin Ops' /\ n # o
          BY <2>1, <2>2, <3>3
        <5> QED
          BY Zenon, <5>1 DEF Pending
      <4> QED
        BY <4>1
    <3>4. o \in 1..Len(token) \/ o = n \/ o > n
      BY <2>1, <2>2
    <3> QED
      BY Zenon, <3>1, <3>2, <3>3, <3>4
  <2>4. \A o \in Nat \ {0} : Held(o)' = Pending(o)'
    BY Zenon, <2>3 DEF NotifierInv
  <2> QED
    BY Zenon, <2>4 DEF NotifierInv, UniqueKeys

\* Tokens are resolved with the notifiers that leave their places.
<1>ResolveNotifier.
    ASSUME TypeOK, NotifierInv, Alive,
           NEW S, NEW outcome \in {"completed", "canceled", "detached"},
           token' = Resolve(S, outcome),
           UniqueKeys(publish_qos1)',
           IsFiniteSet(subscribe)', IsFiniteSet(unsubscribe)',
           \A o \in Nat \ {0} : /\ Held(o)' \in Nat
                                /\ o \notin S => Held(o)' = Held(o)
                                /\ o \in S => Held(o)' < Held(o)
    PROVE  NotifierInv'
  <2> USE <1>ResolveNotifier
  <2>1. \A o : Pending(o)' = IF o \in S THEN 0 ELSE Pending(o)
    BY Zenon, <1>ResolvePending
  <2>2. ASSUME NEW o \in Nat \ {0}
        PROVE  Held(o)' = Pending(o)'
    <3>1. Held(o) = Pending(o) /\ (Pending(o) = 0 \/ Pending(o) = 1)
      BY Zenon DEF NotifierInv, Pending
    <3>2. CASE o \in S
      <4>1. Pending(o)' = 0
        BY Zenon, <2>1, <3>2
      <4> QED
        BY <3>1, <3>2, <4>1
    <3>3. CASE o \notin S
      BY Zenon, <2>1, <3>1, <3>3
    <3> QED
      BY Zenon, <3>2, <3>3
  <2> QED
    BY Zenon, <2>2 DEF NotifierInv

\* The application's requests.
<1>ApplicationNotifier.
    ASSUME TypeOK, NotifierInv, Application
    PROVE  NotifierInv'
  <2> USE <1>ApplicationNotifier
  <2>0. /\ IsFiniteSet(subscribe) /\ IsFiniteSet(unsubscribe)
        /\ NewOp \in Nat \ {0}
    BY TypesOfNotifiers DEF NotifierInv, NewOp
  <2>1. ASSUME publish_qos0_call
        PROVE  NotifierInv'
    <3>2. o_pub_q0_rx' = Append(o_pub_q0_rx, NewOp)
      BY Zenon, <2>1 DEF publish_qos0_call
    <3>3. ASSUME NEW o \in Nat \ {0}
          PROVE  Held(o)' = Held(o) + IF NewOp = o THEN 1 ELSE 0
      <4>1. Holders(o_pub_q0_rx', o) = Holders(o_pub_q0_rx, o) + IF NewOp = o THEN 1 ELSE 0
        <5> DEFINE N == Nat \ {0}
        <5>0. o_pub_q0_rx \in Seq(N) /\ NewOp \in N
          BY Zenon, <2>0, TypesOfNotifiers
        <5> HIDE DEF N
        <5>1. Holders(Append(o_pub_q0_rx, NewOp), o) = Holders(o_pub_q0_rx, o) + IF NewOp = o THEN 1 ELSE 0
          BY <5>0, <1>HoldersAppend
        <5> QED
          BY Zenon, <3>2, <5>1
      <4>2. UNCHANGED <<inflight, o_pub_q12_rx, sub_rx, ping_rx, auth_rx>>
        BY Zenon, <2>1 DEF publish_qos0_call, Submit
      <4> QED
        BY <2>0, <4>1, <4>2, <1>HeldValues DEF Held
    <3> QED
      BY Zenon, <2>1, <3>3, <1>SubmitNotifier DEF publish_qos0_call, Submit
  <2>2. ASSUME publish_qos1_call
        PROVE  NotifierInv'
    <3>2. o_pub_q12_rx' = Append(o_pub_q12_rx, NewOp)
      BY Zenon, <2>2 DEF publish_qos1_call
    <3>3. ASSUME NEW o \in Nat \ {0}
          PROVE  Held(o)' = Held(o) + IF NewOp = o THEN 1 ELSE 0
      <4>1. Holders(o_pub_q12_rx', o) = Holders(o_pub_q12_rx, o) + IF NewOp = o THEN 1 ELSE 0
        <5> DEFINE N == Nat \ {0}
        <5>0. o_pub_q12_rx \in Seq(N) /\ NewOp \in N
          BY Zenon, <2>0, TypesOfNotifiers
        <5> HIDE DEF N
        <5>1. Holders(Append(o_pub_q12_rx, NewOp), o) = Holders(o_pub_q12_rx, o) + IF NewOp = o THEN 1 ELSE 0
          BY <5>0, <1>HoldersAppend
        <5> QED
          BY Zenon, <3>2, <5>1
      <4>2. UNCHANGED <<inflight, o_pub_q0_rx, sub_rx, ping_rx, auth_rx>>
        BY Zenon, <2>2 DEF publish_qos1_call, Submit
      <4> QED
        BY <2>0, <4>1, <4>2, <1>HeldValues DEF Held
    <3> QED
      BY Zenon, <2>2, <3>3, <1>SubmitNotifier DEF publish_qos1_call, Submit
  <2>3. ASSUME NEW kind \in {"sub", "unsub"}, subscription_call(kind)
        PROVE  NotifierInv'
    <3> DEFINE req == [kind |-> kind, op |-> NewOp]
    <3>1. req \in SubscriptionType /\ req.op = NewOp
      BY Zenon, <2>0 DEF SubscriptionType
    <3>2. sub_rx' = Append(sub_rx, req)
      BY Zenon, <2>3 DEF subscription_call
    <3> HIDE DEF req
    <3>3. ASSUME NEW o \in Nat \ {0}
          PROVE  Held(o)' = Held(o) + IF NewOp = o THEN 1 ELSE 0
      <4>1. OpHolders(sub_rx', o) = OpHolders(sub_rx, o) + IF NewOp = o THEN 1 ELSE 0
        <5>1. OpHolders(Append(sub_rx, req), o) = OpHolders(sub_rx, o) + IF req.op = o THEN 1 ELSE 0
          BY <3>1, TypesOfNotifiers, <1>OpHoldersAppend
        <5> QED
          BY Zenon, <3>2, <5>1, <3>1
      <4>2. UNCHANGED <<inflight, o_pub_q0_rx, o_pub_q12_rx, ping_rx, auth_rx>>
        BY Zenon, <2>3 DEF subscription_call, Submit
      <4> QED
        BY <2>0, <4>1, <4>2, <1>HeldValues DEF Held
    <3> QED
      BY Zenon, <2>3, <3>3, <1>SubmitNotifier DEF subscription_call, Submit
  <2>4. ASSUME ping_call
        PROVE  NotifierInv'
    <3>2. ping_rx' = Append(ping_rx, NewOp)
      BY Zenon, <2>4 DEF ping_call
    <3>3. ASSUME NEW o \in Nat \ {0}
          PROVE  Held(o)' = Held(o) + IF NewOp = o THEN 1 ELSE 0
      <4>1. Holders(ping_rx', o) = Holders(ping_rx, o) + IF NewOp = o THEN 1 ELSE 0
        <5> DEFINE N == Nat \ {0}
        <5>0. ping_rx \in Seq(N) /\ NewOp \in N
          BY Zenon, <2>0, TypesOfNotifiers
        <5> HIDE DEF N
        <5>1. Holders(Append(ping_rx, NewOp), o) = Holders(ping_rx, o) + IF NewOp = o THEN 1 ELSE 0
          BY <5>0, <1>HoldersAppend
        <5> QED
          BY Zenon, <3>2, <5>1
      <4>2. UNCHANGED <<inflight, o_pub_q0_rx, o_pub_q12_rx, sub_rx, auth_rx>>
        BY Zenon, <2>4 DEF ping_call, Submit
      <4> QED
        BY <2>0, <4>1, <4>2, <1>HeldValues DEF Held
    <3> QED
      BY Zenon, <2>4, <3>3, <1>SubmitNotifier DEF ping_call, Submit
  <2>5. ASSUME NEW m \in Methods, auth_rx' = Append(auth_rx, [method |-> m, op |-> NewOp]),
               Submit("reauth"), UNCHANGED <<sub_rx, o_pub_q0_rx, o_pub_q12_rx, ping_rx>>
        PROVE  NotifierInv'
    <3> DEFINE req == [method |-> m, op |-> NewOp]
    <3>1. req \in AuthType /\ req.op = NewOp
      BY Zenon, <2>0 DEF AuthType
    <3>2. auth_rx' = Append(auth_rx, req)
      BY Zenon, <2>5
    <3> HIDE DEF req
    <3>3. ASSUME NEW o \in Nat \ {0}
          PROVE  Held(o)' = Held(o) + IF NewOp = o THEN 1 ELSE 0
      <4>1. OpHolders(auth_rx', o) = OpHolders(auth_rx, o) + IF NewOp = o THEN 1 ELSE 0
        <5>1. OpHolders(Append(auth_rx, req), o) = OpHolders(auth_rx, o) + IF req.op = o THEN 1 ELSE 0
          BY <3>1, TypesOfNotifiers, <1>OpHoldersAppend
        <5> QED
          BY Zenon, <3>2, <5>1, <3>1
      <4>2. UNCHANGED <<inflight, o_pub_q0_rx, o_pub_q12_rx, sub_rx, ping_rx>>
        BY Zenon, <2>5 DEF Submit
      <4> QED
        BY <2>0, <4>1, <4>2, <1>HeldValues DEF Held
    <3> QED
      BY Zenon, <2>5, <3>3, <1>SubmitNotifier DEF Submit
  <2>6. ASSUME NEW t \in reauth_tokens, continue_reauth_call(t)
        PROVE  NotifierInv'
    <3>1. t.method \in Methods
      BY Zenon DEF TypeOK, HandlesTypeOK, AuthType
    <3> QED
      BY Zenon, <2>5, <2>6, <3>1 DEF continue_reauth_call
  <2>7. CASE UNCHANGED <<channels, inflight, token, mode>>
    BY Zenon, <2>7, <1>NotifierFrame DEF Alive
  <2>8. CASE drop_handle
    BY Zenon, <2>8, <1>DroppedNotifier DEF drop_handle
  <2> QED
    BY Zenon, <2>1, <2>2, <2>3, <2>4, <2>5, <2>6, <2>7, <2>8 DEF Application, reauth_call,
       acknowledge, disconnect_call

\* They are in every state of the session.
<1>AllCounted.
    ASSUME TypeOK, NotifierInv, NEW o
    PROVE  Counted(o)
  BY Zenon, <1>AllCounted, <1>HeldValues DEF NotifierInv, Counted

\* A queue gives up the request at its front.
<1>HoldersTaken.
    ASSUME NEW N, NEW s \in Seq(N), s # <<>>
    PROVE  \A o : /\ Holders(Tail(s), o) = Holders(s, o) - IF Head(s) = o THEN 1 ELSE 0
                 /\ Holders(Tail(s), o) \in Nat
  <2> USE <1>HoldersTaken
  <2>1. Tail(s) \in Seq(N)
    OBVIOUS
  <2> QED
    BY Zenon, <2>1, <1>HoldersTail, HoldersValue

\* The same for a queue of records.
<1>OpHoldersTaken.
    ASSUME NEW N, NEW s \in Seq(N), s # <<>>
    PROVE  \A o : /\ OpHolders(Tail(s), o) = OpHolders(s, o) - IF Head(s).op = o THEN 1 ELSE 0
                 /\ OpHolders(Tail(s), o) \in Nat
  <2> USE <1>OpHoldersTaken
  <2>1. Tail(s) \in Seq(N)
    OBVIOUS
  <2> QED
    BY Zenon, <2>1, <1>OpHoldersTail, OpHoldersValue

\* A PINGREQ of the application moves to the queue of those in flight; one of the
\* keep-alive timer has no notifier.
<1>PingNotifier.
    ASSUME TypeOK, NotifierInv, send_ping \/ send_keep_alive
    PROVE  NotifierInv'
  <2> USE <1>PingNotifier
  <2>1. Alive
    BY Zenon DEF send_ping, send_keep_alive, NothingToSend, PollsQoS1, PollsQoS0,
       PollsSubscriptions, PollsPings, PollsAuth, PollsAcks, Polls, Sending, Alive
  <2>2. pingreq \in Seq(Nat)
    BY Zenon, TypesOfNotifiers
  <2>3. UNCHANGED <<o_pub_q0_rx, o_pub_q12_rx, sub_rx, auth_rx, publish_qos1, subscribe,
                    unsubscribe, auth, token>>
    BY Zenon DEF send_ping, send_keep_alive, WritePing
  <2>4. ASSUME send_ping, NEW o \in Nat \ {0}
        PROVE  Held(o)' = Held(o)
    <3>1. ping_rx # <<>> /\ ping_rx' = Tail(ping_rx) /\ pingreq' = Append(pingreq, Head(ping_rx))
      BY Zenon, <2>4 DEF send_ping, WritePing
    <3>2. Head(ping_rx) \in Nat /\ ping_rx \in Seq(Nat)
      BY SMTT(20), <3>1, TypesOfNotifiers
    <3>3. Holders(ping_rx', o) = Holders(ping_rx, o) - IF Head(ping_rx) = o THEN 1 ELSE 0
      BY Zenon, <3>1, <3>2, <1>HoldersTaken
    <3>4. Holders(pingreq', o) = Holders(pingreq, o) + IF Head(ping_rx) = o THEN 1 ELSE 0
      <4>1. Holders(Append(pingreq, Head(ping_rx)), o) =
              Holders(pingreq, o) + IF Head(ping_rx) = o THEN 1 ELSE 0
        BY <2>2, <3>2, <1>HoldersAppend
      <4> QED
        BY Zenon, <3>1, <4>1
    <3> QED
      BY <2>3, <3>3, <3>4, <1>AllCounted DEF Held, Counted
  <2>5. ASSUME send_keep_alive, NEW o \in Nat \ {0}
        PROVE  Held(o)' = Held(o)
    <3>1. ping_rx' = ping_rx /\ pingreq' = Append(pingreq, 0)
      BY Zenon, <2>5 DEF send_keep_alive, WritePing
    <3>2. Holders(pingreq', o) = Holders(pingreq, o) + IF 0 = o THEN 1 ELSE 0
      BY <2>2, <3>1, <1>HoldersAppend
    <3> QED
      BY <2>3, <3>1, <3>2, <1>AllCounted DEF Held, Counted
  <2> QED
    BY Zenon, <2>1, <2>3, <2>4, <2>5, <1>MoveNotifier

\* The AUTH in flight is overwritten, and its token detached.
<1>AuthNotifier.
    ASSUME TypeOK, NotifierInv, send_auth
    PROVE  NotifierInv'
  <2> USE <1>AuthNotifier
  <2> DEFINE S == {auth.op} \ {0}
  <2>1. /\ Alive /\ auth_rx # <<>> /\ auth_rx' = Tail(auth_rx)
        /\ auth' = [op |-> Head(auth_rx).op, method |-> Head(auth_rx).method]
        /\ token' = Resolve(S, "detached")
        /\ UNCHANGED <<o_pub_q0_rx, o_pub_q12_rx, sub_rx, ping_rx, pingreq, publish_qos1,
                       subscribe, unsubscribe>>
    BY Zenon DEF send_auth, PollsAuth, PollsAcks, Polls, Sending, Alive
  <2>2. auth'.op = Head(auth_rx).op
    BY Zenon, <2>1
  <2>3. ASSUME NEW o \in Nat \ {0}
        PROVE  /\ Held(o)' \in Nat
               /\ o \notin S => Held(o)' = Held(o)
               /\ o \in S => Held(o)' < Held(o)
    <3>1. /\ OpHolders(auth_rx', o) = OpHolders(auth_rx, o) - IF Head(auth_rx).op = o THEN 1 ELSE 0
          /\ OpHolders(auth_rx', o) \in Nat
      <4>1. auth_rx \in Seq(AuthType)
        BY Zenon, TypesOfNotifiers
      <4> QED
        BY Zenon, <2>1, <4>1, <1>OpHoldersTaken
    <3>2. /\ EntryHolders({auth}, o) = IF auth.op = o THEN 1 ELSE 0
          /\ EntryHolders({auth'}, o) = IF Head(auth_rx).op = o THEN 1 ELSE 0
      BY Zenon, <2>2, EntryHoldersSmall
    <3>3. o \in S <=> auth.op = o
      BY Zenon
    <3>4. Counted(o)
      BY Zenon, <1>AllCounted
    <3>5. UNCHANGED <<o_pub_q0_rx, o_pub_q12_rx, sub_rx, ping_rx, pingreq, publish_qos1,
                      subscribe, unsubscribe>>
      BY Zenon, <2>1
    <3> HIDE DEF S
    <3> QED
      BY <3>1, <3>2, <3>3, <3>4, <3>5 DEF Held, Counted
  <2>4. UniqueKeys(publish_qos1)' /\ IsFiniteSet(subscribe)' /\ IsFiniteSet(unsubscribe)'
    BY Zenon, <2>1 DEF NotifierInv, UniqueKeys
  <2> HIDE DEF S
  <2> QED
    BY Zenon, <2>1, <2>3, <2>4, <1>ResolveNotifier

\* A QoS 0 PUBLISH is complete when it is taken from its channel.
<1>PublishQoS0Notifier.
    ASSUME TypeOK, NotifierInv, send_publish_qos0
    PROVE  NotifierInv'
  <2> USE <1>PublishQoS0Notifier
  <2> DEFINE S == {Head(o_pub_q0_rx)}
  <2>1. /\ Alive /\ o_pub_q0_rx # <<>> /\ o_pub_q0_rx' = Tail(o_pub_q0_rx)
        /\ token' = Resolve(S, "completed")
        /\ UNCHANGED <<inflight, o_pub_q12_rx, sub_rx, ping_rx, auth_rx>>
    BY Zenon DEF send_publish_qos0, PollsQoS0, PollsSubscriptions, PollsPings, PollsAuth,
       PollsAcks, Polls, Sending, Alive
  <2>3. ASSUME NEW o \in Nat \ {0}
        PROVE  /\ Held(o)' \in Nat
               /\ o \notin S => Held(o)' = Held(o)
               /\ o \in S => Held(o)' < Held(o)
    <3>1. /\ Holders(o_pub_q0_rx', o) = Holders(o_pub_q0_rx, o) - IF Head(o_pub_q0_rx) = o THEN 1 ELSE 0
          /\ Holders(o_pub_q0_rx', o) \in Nat
      <4>1. o_pub_q0_rx \in Seq(Nat \ {0})
        BY Zenon, TypesOfNotifiers
      <4> QED
        BY Zenon, <2>1, <4>1, <1>HoldersTaken
    <3>3. o \in S <=> Head(o_pub_q0_rx) = o
      BY Zenon
    <3>4. Counted(o)
      BY Zenon, <1>AllCounted
    <3>5. UNCHANGED <<inflight, o_pub_q12_rx, sub_rx, ping_rx, auth_rx>>
      BY Zenon, <2>1
    <3> HIDE DEF S
    <3> QED
      BY <3>1, <3>3, <3>4, <3>5 DEF Held, Counted
  <2>4. UniqueKeys(publish_qos1)' /\ IsFiniteSet(subscribe)' /\ IsFiniteSet(unsubscribe)'
    BY Zenon, <2>1 DEF NotifierInv, UniqueKeys
  <2> HIDE DEF S
  <2> QED
    BY Zenon, <2>1, <2>3, <2>4, <1>ResolveNotifier

\* A subscription request moves to its in-flight map, under a leased key; a token
\* that is overwritten there is detached.
<1>SubscriptionNotifier.
    ASSUME TypeOK, NotifierInv, NEW p, send_subscription(p)
    PROVE  NotifierInv'
  <2> USE <1>SubscriptionNotifier
  <2> DEFINE req == Head(sub_rx)
             e == Entry(p, req.op)
  <2>1. /\ Alive /\ sub_rx # <<>> /\ sub_rx' = Tail(sub_rx)
        /\ UNCHANGED <<o_pub_q0_rx, o_pub_q12_rx, ping_rx, auth_rx, publish_qos1, auth, pingreq>>
    BY Zenon DEF send_subscription, PollsSubscriptions, PollsPings, PollsAuth, PollsAcks, Polls,
       Sending, Alive
  <2>2. sub_rx \in Seq(SubscriptionType)
    BY Zenon, TypesOfNotifiers
  <2>3. e.pkid = p /\ e.op = req.op
    BY Zenon DEF Entry
  <2>4. UniqueKeys(publish_qos1)'
    BY Zenon, <2>1 DEF NotifierInv, UniqueKeys
  <2> HIDE DEF e
  <2>5. CASE req.kind = "sub"
    <3>1. /\ subscribe' = HashInsert(subscribe, e) /\ unsubscribe' = unsubscribe
          /\ token' = Resolve(Overwritten(subscribe, p), "detached")
      BY Zenon, <2>1, <2>5 DEF send_subscription, e
    <3>2. /\ IsFiniteSet(subscribe') /\ IsFiniteSet(subscribe) /\ IsFiniteSet(unsubscribe')
      BY Zenon, <3>1, <1>HashInsertHolders DEF NotifierInv
    <3>3. ASSUME NEW o \in Nat \ {0}
          PROVE  /\ Held(o)' \in Nat
                 /\ o \notin Overwritten(subscribe, p) => Held(o)' = Held(o)
                 /\ o \in Overwritten(subscribe, p) => Held(o)' < Held(o)
      <4>1. /\ OpHolders(sub_rx', o) = OpHolders(sub_rx, o) - IF req.op = o THEN 1 ELSE 0
            /\ OpHolders(sub_rx', o) \in Nat
        BY Zenon, <2>1, <2>2, <1>OpHoldersTaken
      <4>2. /\ o \notin Overwritten(subscribe, p) =>
                 EntryHolders(subscribe', o) = EntryHolders(subscribe, o) + IF req.op = o THEN 1 ELSE 0
            /\ o \in Overwritten(subscribe, p) =>
                 EntryHolders(subscribe', o) < EntryHolders(subscribe, o) + IF req.op = o THEN 1 ELSE 0
        BY <2>3, <3>1, <3>2, <1>HashInsertHolders
      <4>3. EntryHolders(subscribe', o) \in Nat
        BY Zenon, <3>2, <1>EntryHoldersValue
      <4>4. Counted(o)
        BY Zenon, <1>AllCounted
      <4>5. UNCHANGED <<o_pub_q0_rx, o_pub_q12_rx, ping_rx, auth_rx, pingreq, publish_qos1,
                        unsubscribe, auth>>
        BY Zenon, <2>1, <3>1
      <4> HIDE DEF req
      <4> QED
        BY <4>1, <4>2, <4>3, <4>4, <4>5 DEF Held, Counted
    <3> QED
      BY Zenon, <2>1, <2>4, <3>1, <3>2, <3>3, <1>ResolveNotifier
  <2>6. CASE req.kind # "sub"
    <3>1. /\ unsubscribe' = HashInsert(unsubscribe, e) /\ subscribe' = subscribe
          /\ token' = Resolve(Overwritten(unsubscribe, p), "detached")
      BY Zenon, <2>1, <2>6 DEF send_subscription, e
    <3>2. /\ IsFiniteSet(unsubscribe') /\ IsFiniteSet(unsubscribe) /\ IsFiniteSet(subscribe')
      BY Zenon, <3>1, <1>HashInsertHolders DEF NotifierInv
    <3>3. ASSUME NEW o \in Nat \ {0}
          PROVE  /\ Held(o)' \in Nat
                 /\ o \notin Overwritten(unsubscribe, p) => Held(o)' = Held(o)
                 /\ o \in Overwritten(unsubscribe, p) => Held(o)' < Held(o)
      <4>1. /\ OpHolders(sub_rx', o) = OpHolders(sub_rx, o) - IF req.op = o THEN 1 ELSE 0
            /\ OpHolders(sub_rx', o) \in Nat
        BY Zenon, <2>1, <2>2, <1>OpHoldersTaken
      <4>2. /\ o \notin Overwritten(unsubscribe, p) =>
                 EntryHolders(unsubscribe', o) = EntryHolders(unsubscribe, o) + IF req.op = o THEN 1 ELSE 0
            /\ o \in Overwritten(unsubscribe, p) =>
                 EntryHolders(unsubscribe', o) < EntryHolders(unsubscribe, o) + IF req.op = o THEN 1 ELSE 0
        BY <2>3, <3>1, <3>2, <1>HashInsertHolders
      <4>3. EntryHolders(unsubscribe', o) \in Nat
        BY Zenon, <3>2, <1>EntryHoldersValue
      <4>4. Counted(o)
        BY Zenon, <1>AllCounted
      <4>5. UNCHANGED <<o_pub_q0_rx, o_pub_q12_rx, ping_rx, auth_rx, pingreq, publish_qos1,
                        subscribe, auth>>
        BY Zenon, <2>1, <3>1
      <4> HIDE DEF req
      <4> QED
        BY SMTT(20), <4>1, <4>2, <4>3, <4>4, <4>5 DEF Held, Counted
    <3> QED
      BY Zenon, <2>1, <2>4, <3>1, <3>2, <3>3, <1>ResolveNotifier
  <2> QED
    BY Zenon, <2>5, <2>6

\* A QoS 1 PUBLISH moves to the map of those in flight.
<1>PublishQoS1Notifier.
    ASSUME TypeOK, NotifierInv, NEW p \in Pkids, send_publish_qos1(p)
    PROVE  NotifierInv'
  <2> USE <1>PublishQoS1Notifier
  <2> DEFINE op == Head(o_pub_q12_rx)
             e == Entry(p, op)
             S == Overwritten(Entries(publish_qos1), p)
  <2>1. /\ Alive /\ o_pub_q12_rx # <<>> /\ o_pub_q12_rx' = Tail(o_pub_q12_rx)
        /\ publish_qos1' = IndexInsert(publish_qos1, e)
        /\ token' = Resolve(S, "detached")
        /\ UNCHANGED <<o_pub_q0_rx, sub_rx, ping_rx, auth_rx, subscribe, unsubscribe, auth, pingreq>>
    BY Zenon DEF send_publish_qos1, PollsQoS1, PollsQoS0, PollsSubscriptions, PollsPings,
       PollsAuth, PollsAcks, Polls, Sending, Alive
  <2>2. o_pub_q12_rx \in Seq(Nat \ {0}) /\ publish_qos1 \in Seq(EntryType) /\ op \in Nat \ {0}
    BY <2>1, TypesOfNotifiers
  <2>3. e.pkid = p /\ e.op = op /\ e \in EntryType
    BY Zenon, <2>2 DEF Entry, EntryType
  <2> HIDE DEF e, op
  <2>4. /\ UniqueKeys(publish_qos1')
        /\ \A o : OpHolders(publish_qos1', o) = OpHolders(publish_qos1, o)
                     - (IF o \in S THEN 1 ELSE 0) + (IF op = o THEN 1 ELSE 0)
    BY Zenon, <2>1, <2>2, <2>3, <1>IndexInsertHolders DEF NotifierInv
  <2>5. publish_qos1' \in Seq(EntryType)
    BY ZenonT(30), <2>1, <2>2, <2>3, IndexInsertType
  <2> HIDE DEF S
  <2>6. ASSUME NEW o \in Nat \ {0}
        PROVE  /\ Held(o)' \in Nat
               /\ o \notin S => Held(o)' = Held(o)
               /\ o \in S => Held(o)' < Held(o)
    <3>1. /\ Holders(o_pub_q12_rx', o) = Holders(o_pub_q12_rx, o) - IF op = o THEN 1 ELSE 0
          /\ Holders(o_pub_q12_rx', o) \in Nat
      BY Zenon, <2>1, <2>2, <1>HoldersTaken DEF op
    <3>2. OpHolders(publish_qos1', o) = OpHolders(publish_qos1, o)
                     - (IF o \in S THEN 1 ELSE 0) + (IF op = o THEN 1 ELSE 0)
      BY Zenon, <2>4
    <3>3. OpHolders(publish_qos1', o) \in Nat
      BY Zenon, <2>5, OpHoldersValue
    <3>4. Counted(o)
      BY Zenon, <1>AllCounted
    <3>5. UNCHANGED <<o_pub_q0_rx, sub_rx, ping_rx, auth_rx, subscribe, unsubscribe, auth, pingreq>>
      BY Zenon, <2>1
    <3> QED
      BY <3>1, <3>2, <3>3, <3>4, <3>5 DEF Held, Counted
  <2>7. IsFiniteSet(subscribe)' /\ IsFiniteSet(unsubscribe)' /\ UniqueKeys(publish_qos1)'
    BY Zenon, <2>1, <2>4 DEF NotifierInv, UniqueKeys
  <2> QED
    BY Zenon, <2>1, <2>6, <2>7, <1>ResolveNotifier

\* A SUBACK, an UNSUBACK or a PUBACK that matches completes the operation.
<1>AckNotifier.
    ASSUME TypeOK, NotifierInv, NEW p \in Pkids,
           \/ /\ AckMatches(subscribe, p)
              /\ subscribe' = {e \in subscribe : e.pkid # p}
              /\ UNCHANGED <<publish_qos1, unsubscribe>>
           \/ /\ AckMatches(unsubscribe, p)
              /\ unsubscribe' = {e \in unsubscribe : e.pkid # p}
              /\ UNCHANGED <<publish_qos1, subscribe>>
           \/ /\ AckMatches(Entries(publish_qos1), p)
              /\ publish_qos1' = ShiftRemove(publish_qos1, p)
              /\ UNCHANGED <<subscribe, unsubscribe>>
    PROVE  NotifierInv'
  <2> USE <1>AckNotifier
  <2>1. Alive /\ UNCHANGED <<o_pub_q0_rx, o_pub_q12_rx, sub_rx, ping_rx, auth_rx, auth, pingreq>>
    BY Zenon DEF AckMatches, UnchangedByReceiving, Reading, NotReady, Polls, Sending, Alive
  <2>0. IsFiniteSet(subscribe) /\ IsFiniteSet(unsubscribe) /\ UniqueKeys(publish_qos1)
    BY Zenon DEF NotifierInv
  <2>2. ASSUME AckMatches(subscribe, p), subscribe' = {e \in subscribe : e.pkid # p},
               UNCHANGED <<publish_qos1, unsubscribe>>
        PROVE  NotifierInv'
    <3> DEFINE S == Overwritten(subscribe, p)
    <3>1. token' = Resolve(S, "completed")
      BY Zenon, <2>2 DEF AckMatches
    <3>2. \A o : /\ IsFiniteSet(subscribe')
                 /\ o \notin S => EntryHolders(subscribe', o) = EntryHolders(subscribe, o)
                 /\ o \in S => EntryHolders(subscribe', o) < EntryHolders(subscribe, o)
      <4>1. subscribe' = Without(subscribe, p)
        BY ZenonT(30), <2>2 DEF Without
      <4> QED
        BY Zenon, <2>0, <4>1, <1>EntryHoldersRest
    <3> HIDE DEF S
    <3>3. ASSUME NEW o \in Nat \ {0}
          PROVE  /\ Held(o)' \in Nat
                 /\ o \notin S => Held(o)' = Held(o)
                 /\ o \in S => Held(o)' < Held(o)
      <4>1. EntryHolders(subscribe', o) \in Nat
        BY Zenon, <3>2, <1>EntryHoldersValue
      <4>2. /\ o \notin S => EntryHolders(subscribe', o) = EntryHolders(subscribe, o)
            /\ o \in S => EntryHolders(subscribe', o) < EntryHolders(subscribe, o)
        BY Zenon, <3>2
      <4>3. Counted(o)
        BY Zenon, <1>AllCounted
      <4>4. UNCHANGED <<publish_qos1, unsubscribe>>
        BY Zenon, <2>2
      <4> QED
        BY SMTT(20), <2>1, <4>1, <4>2, <4>3, <4>4 DEF Held, Counted
    <3>4. IsFiniteSet(subscribe)' /\ IsFiniteSet(unsubscribe)' /\ UniqueKeys(publish_qos1)'
      BY Zenon, <2>0, <2>2, <3>2 DEF UniqueKeys
    <3> QED
      BY Zenon, <2>1, <3>1, <3>3, <3>4, <1>ResolveNotifier
  <2>3. ASSUME AckMatches(unsubscribe, p), unsubscribe' = {e \in unsubscribe : e.pkid # p},
               UNCHANGED <<publish_qos1, subscribe>>
        PROVE  NotifierInv'
    <3> DEFINE S == Overwritten(unsubscribe, p)
    <3>1. token' = Resolve(S, "completed")
      BY Zenon, <2>3 DEF AckMatches
    <3>2. \A o : /\ IsFiniteSet(unsubscribe')
                 /\ o \notin S => EntryHolders(unsubscribe', o) = EntryHolders(unsubscribe, o)
                 /\ o \in S => EntryHolders(unsubscribe', o) < EntryHolders(unsubscribe, o)
      <4>1. unsubscribe' = Without(unsubscribe, p)
        BY Zenon, <2>3 DEF Without
      <4> QED
        BY Zenon, <2>0, <4>1, <1>EntryHoldersRest
    <3> HIDE DEF S
    <3>3. ASSUME NEW o \in Nat \ {0}
          PROVE  /\ Held(o)' \in Nat
                 /\ o \notin S => Held(o)' = Held(o)
                 /\ o \in S => Held(o)' < Held(o)
      <4>1. EntryHolders(unsubscribe', o) \in Nat
        BY Zenon, <3>2, <1>EntryHoldersValue
      <4>2. /\ o \notin S => EntryHolders(unsubscribe', o) = EntryHolders(unsubscribe, o)
            /\ o \in S => EntryHolders(unsubscribe', o) < EntryHolders(unsubscribe, o)
        BY Zenon, <3>2
      <4>3. Counted(o)
        BY Zenon, <1>AllCounted
      <4>4. UNCHANGED <<publish_qos1, subscribe>>
        BY Zenon, <2>3
      <4> QED
        BY <2>1, <4>1, <4>2, <4>3, <4>4 DEF Held, Counted
    <3>4. IsFiniteSet(subscribe)' /\ IsFiniteSet(unsubscribe)' /\ UniqueKeys(publish_qos1)'
      BY Zenon, <2>0, <2>3, <3>2 DEF UniqueKeys
    <3> QED
      BY Zenon, <2>1, <3>1, <3>3, <3>4, <1>ResolveNotifier
  <2>4. ASSUME AckMatches(Entries(publish_qos1), p), publish_qos1' = ShiftRemove(publish_qos1, p),
               UNCHANGED <<subscribe, unsubscribe>>
        PROVE  NotifierInv'
    <3> DEFINE S == Overwritten(Entries(publish_qos1), p)
    <3>1. token' = Resolve(S, "completed") /\ p \in PkidsOf(Entries(publish_qos1))
      BY Zenon, <2>4 DEF AckMatches
    <3>2. publish_qos1 \in Seq(EntryType)
      BY Zenon, TypesOfNotifiers
    <3>3. /\ UniqueKeys(publish_qos1')
          /\ \A o : OpHolders(publish_qos1', o) = OpHolders(publish_qos1, o) - IF o \in S THEN 1 ELSE 0
      BY Zenon, <2>0, <2>4, <3>1, <3>2, <1>ShiftRemoveHolders
    <3>4. publish_qos1' \in Seq(EntryType)
      <4>1. \E i \in DOMAIN publish_qos1 : publish_qos1[i].pkid = p
        BY Zenon, <3>1 DEF PkidsOf, Entries
      <4> QED
        BY Zenon, <2>4, <3>2, <4>1, ShiftRemoveType
    <3> HIDE DEF S
    <3>5. ASSUME NEW o \in Nat \ {0}
          PROVE  /\ Held(o)' \in Nat
                 /\ o \notin S => Held(o)' = Held(o)
                 /\ o \in S => Held(o)' < Held(o)
      <4>1. OpHolders(publish_qos1', o) \in Nat
        BY Zenon, <3>4, OpHoldersValue
      <4>2. OpHolders(publish_qos1', o) = OpHolders(publish_qos1, o) - IF o \in S THEN 1 ELSE 0
        BY Zenon, <3>3
      <4>3. Counted(o)
        BY Zenon, <1>AllCounted
      <4>4. UNCHANGED <<subscribe, unsubscribe>>
        BY Zenon, <2>4
      <4> QED
        BY <2>1, <4>1, <4>2, <4>3, <4>4 DEF Held, Counted
    <3>6. IsFiniteSet(subscribe)' /\ IsFiniteSet(unsubscribe)' /\ UniqueKeys(publish_qos1)'
      BY Zenon, <2>0, <2>4, <3>3 DEF UniqueKeys
    <3> QED
      BY Zenon, <2>1, <3>1, <3>5, <3>6, <1>ResolveNotifier
  <2> QED
    BY Zenon, <2>2, <2>3, <2>4

\* The PINGREQ at the front of the queue is answered; an AUTH that is answered
\* leaves its slot.
<1>AnswerNotifier.
    ASSUME TypeOK, NotifierInv,
           incoming_pingresp \/ incoming_auth_success \/ incoming_auth_continue
    PROVE  NotifierInv'
  <2> USE <1>AnswerNotifier
  <2>1. /\ Alive
        /\ UNCHANGED <<o_pub_q0_rx, o_pub_q12_rx, sub_rx, ping_rx, auth_rx, publish_qos1,
                       subscribe, unsubscribe, mode>>
    BY Zenon DEF incoming_pingresp, incoming_auth_success, incoming_auth_continue,
       UnchangedByReceiving, Reading, NotReady, Polls, Sending, Alive
  <2>2. UniqueKeys(publish_qos1)' /\ IsFiniteSet(subscribe)' /\ IsFiniteSet(unsubscribe)'
    BY Zenon, <2>1 DEF NotifierInv, UniqueKeys
  <2>3. CASE incoming_pingresp /\ pingreq = <<>>
    <3>1. UNCHANGED <<channels, inflight, token>>
      BY Zenon, <2>1, <2>3 DEF incoming_pingresp
    <3> QED
      BY Zenon, <2>1, <3>1, <1>NotifierFrame
  <2>4. CASE incoming_pingresp /\ pingreq # <<>>
    <3> DEFINE S == {Head(pingreq)} \ {0}
    <3>1. /\ pingreq' = Tail(pingreq) /\ auth' = auth
          /\ token' = Resolve(S, "completed")
      BY Zenon, <2>4 DEF incoming_pingresp
    <3>2. ASSUME NEW o \in Nat \ {0}
          PROVE  /\ Held(o)' \in Nat
                 /\ o \notin S => Held(o)' = Held(o)
                 /\ o \in S => Held(o)' < Held(o)
      <4>1. pingreq \in Seq(Nat)
        BY Zenon, TypesOfNotifiers
      <4>2. /\ Holders(pingreq', o) = Holders(pingreq, o) - IF Head(pingreq) = o THEN 1 ELSE 0
            /\ Holders(pingreq', o) \in Nat
        BY Zenon, <2>4, <3>1, <4>1, <1>HoldersTaken
      <4>3. o \in S <=> Head(pingreq) = o
        BY Zenon
      <4>4. Counted(o)
        BY Zenon, <1>AllCounted
      <4>5. auth' = auth
        BY Zenon, <3>1
      <4> HIDE DEF S
      <4> QED
        BY <2>1, <4>2, <4>3, <4>4, <4>5 DEF Held, Counted
    <3> HIDE DEF S
    <3> QED
      BY Zenon, <2>1, <2>2, <3>1, <3>2, <1>ResolveNotifier
  <2>5. CASE incoming_auth_success \/ incoming_auth_continue
    <3> DEFINE S == {auth.op}
    <3>1. /\ pingreq' = pingreq /\ auth' = NoAuth
          /\ token' = Resolve(S, "completed")
      BY Zenon, <2>5 DEF incoming_auth_success, incoming_auth_continue
    <3>2. ASSUME NEW o \in Nat \ {0}
          PROVE  /\ Held(o)' \in Nat
                 /\ o \notin S => Held(o)' = Held(o)
                 /\ o \in S => Held(o)' < Held(o)
      <4>1. NoAuth.op = 0
        BY Zenon DEF NoAuth
      <4>2. /\ EntryHolders({auth}, o) = IF auth.op = o THEN 1 ELSE 0
            /\ EntryHolders({auth'}, o) = IF NoAuth.op = o THEN 1 ELSE 0
        BY Zenon, <3>1, EntryHoldersSmall
      <4>3. o \in S <=> auth.op = o
        BY Zenon
      <4>4. Counted(o)
        BY Zenon, <1>AllCounted
      <4>5. pingreq' = pingreq
        BY Zenon, <3>1
      <4> HIDE DEF S
      <4> QED
        BY <2>1, <4>1, <4>2, <4>3, <4>4, <4>5 DEF Held, Counted
    <3> HIDE DEF S
    <3> QED
      BY Zenon, <2>1, <2>2, <3>1, <3>2, <1>ResolveNotifier
  <2> QED
    BY Zenon, <2>3, <2>4, <2>5

\* The end of a connection cancels what can no longer be answered, and with the
\* session all that is in flight; what is still in a channel stays.
<1>EndConnectionNotifier.
    ASSUME TypeOK, NotifierInv, mode = "connected", NEW e, NEW freed, EndConnection(e, freed)
    PROVE  NotifierInv'
  <2> USE <1>EndConnectionNotifier
  <2> DEFINE S == CanceledOnDisconnect \cup IF e = 0 THEN CanceledOnExpiry ELSE {}
  <2>1. /\ token' = Resolve(S, "canceled")
        /\ UNCHANGED <<o_pub_q0_rx, o_pub_q12_rx, sub_rx, ping_rx, auth_rx>>
        /\ subscribe' = {} /\ unsubscribe' = {} /\ auth' = NoAuth /\ pingreq' = <<>>
        /\ publish_qos1' = IF e = 0 THEN <<>> ELSE publish_qos1
    BY Zenon DEF EndConnection
  <2>2. Alive
    BY Zenon DEF Alive
  <2>3. UniqueKeys(publish_qos1)' /\ IsFiniteSet(subscribe)' /\ IsFiniteSet(unsubscribe)'
    <3>1. UniqueKeys(<<>>) /\ UniqueKeys(publish_qos1)
      <4>1. UniqueKeys(<<>>)
        BY SMT DEF UniqueKeys
      <4> QED
        BY Zenon, <4>1 DEF NotifierInv
    <3>2. UniqueKeys(publish_qos1')
      BY Zenon, <2>1, <3>1
    <3>3. UniqueKeys(publish_qos1)'
      BY Zenon, <3>2 DEF UniqueKeys
    <3>4. IsFiniteSet({})
      BY Zenon, FS_EmptySet
    <3> QED
      BY Zenon, <2>1, <3>3, <3>4
  <2>4. ASSUME NEW o \in Nat \ {0}
        PROVE  /\ Held(o)' \in Nat
               /\ o \notin S => Held(o)' = Held(o)
               /\ o \in S => Held(o)' < Held(o)
    <3>1. Counted(o)
      BY Zenon, <1>AllCounted
    <3>2. /\ EntryHolders(subscribe, o) = 0 <=> o \notin OpsOf(subscribe)
          /\ EntryHolders(unsubscribe, o) = 0 <=> o \notin OpsOf(unsubscribe)
      BY Zenon, <1>EntryHoldersValue DEF NotifierInv
    <3>3. /\ EntryHolders({auth}, o) = IF auth.op = o THEN 1 ELSE 0
          /\ EntryHolders({auth'}, o) = 0
          /\ EntryHolders(subscribe', o) = 0 /\ EntryHolders(unsubscribe', o) = 0
      <4>1. NoAuth.op = 0
        BY Zenon DEF NoAuth
      <4>2. EntryHolders({auth'}, o) = IF NoAuth.op = o THEN 1 ELSE 0
        BY Zenon, <2>1, EntryHoldersSmall
      <4>3. EntryHolders({auth'}, o) = 0
        BY Zenon, <4>1, <4>2
      <4> QED
        BY Zenon, <2>1, <4>3, EntryHoldersSmall
    <3>4. /\ Holders(pingreq, o) = 0 <=> \A i \in DOMAIN pingreq : pingreq[i] # o
          /\ Holders(pingreq', o) = 0
      BY Zenon, <2>1, TypesOfNotifiers, HoldersValue
    <3>5. OpHolders(publish_qos1, o) = 0 <=> o \notin CanceledOnExpiry
      <4>1. OpHolders(publish_qos1, o) = 0 <=> \A i \in DOMAIN publish_qos1 : publish_qos1[i].op # o
        BY Zenon, TypesOfNotifiers, OpHoldersValue
      <4>2. o \notin CanceledOnExpiry <=> \A i \in DOMAIN publish_qos1 : publish_qos1[i].op # o
        BY Zenon DEF CanceledOnExpiry, OpsOf, Entries
      <4> QED
        BY Zenon, <4>1, <4>2
    <3>6. OpHolders(publish_qos1', o) = IF e = 0 THEN 0 ELSE OpHolders(publish_qos1, o)
      BY Zenon, <2>1, TypesOfNotifiers, OpHoldersValue
    <3>7. o \in S <=> \/ o \in OpsOf(subscribe) \/ o \in OpsOf(unsubscribe)
                      \/ auth.op = o
                      \/ \E i \in DOMAIN pingreq : pingreq[i] = o
                      \/ e = 0 /\ o \in CanceledOnExpiry
      <4>1. o # 0
        BY Zenon
      <4> QED
        BY Zenon, <4>1 DEF CanceledOnDisconnect
    <3>8. UNCHANGED <<o_pub_q0_rx, o_pub_q12_rx, sub_rx, ping_rx, auth_rx>>
      BY Zenon, <2>1
    <3>9. (\E i \in DOMAIN pingreq : pingreq[i] = o) <=> Holders(pingreq, o) # 0
      BY Zenon, <3>4
    <3> HIDE DEF S
    <3>10. o \in S <=> \/ EntryHolders(subscribe, o) # 0 \/ EntryHolders(unsubscribe, o) # 0
                       \/ auth.op = o \/ Holders(pingreq, o) # 0
                       \/ e = 0 /\ OpHolders(publish_qos1, o) # 0
      BY Zenon, <3>2, <3>5, <3>7, <3>9
    <3>11. Holders(pingreq', o) = 0
      BY Zenon, <3>4
    <3>12. CASE o \in S
      <4>1. CASE e = 0
        <5>1. OpHolders(publish_qos1, o)' = 0
          BY Zenon, <3>6, <4>1
        <5>2. \/ EntryHolders(subscribe, o) # 0 \/ EntryHolders(unsubscribe, o) # 0
              \/ EntryHolders({auth}, o) # 0 \/ Holders(pingreq, o) # 0
              \/ OpHolders(publish_qos1, o) # 0
          BY SMTT(20), <3>3, <3>10, <3>12
        <5> QED
          BY <3>1, <3>3, <3>8, <3>11, <3>12, <5>1, <5>2 DEF Held, Counted
      <4>2. CASE e # 0
        <5>1. OpHolders(publish_qos1, o)' = OpHolders(publish_qos1, o)
          BY Zenon, <3>6, <4>2
        <5>2. \/ EntryHolders(subscribe, o) # 0 \/ EntryHolders(unsubscribe, o) # 0
              \/ EntryHolders({auth}, o) # 0 \/ Holders(pingreq, o) # 0
          BY SMTT(20), <3>3, <3>10, <3>12, <4>2
        <5> QED
          BY <3>1, <3>3, <3>8, <3>11, <3>12, <5>1, <5>2 DEF Held, Counted
      <4> QED
        BY Zenon, <4>1, <4>2
    <3>13. CASE o \notin S
      <4>1. /\ EntryHolders(subscribe, o) = 0 /\ EntryHolders(unsubscribe, o) = 0
            /\ auth.op # o /\ Holders(pingreq, o) = 0
        BY Zenon, <3>10, <3>13
      <4>2. OpHolders(publish_qos1, o)' = OpHolders(publish_qos1, o)
        BY Zenon, <3>6, <3>10, <3>13
      <4> QED
        BY <3>1, <3>3, <3>8, <3>11, <3>13, <4>1, <4>2 DEF Held, Counted
    <3> QED
      BY Zenon, <3>12, <3>13
  <2> HIDE DEF S
  <2> QED
    BY Zenon, <2>1, <2>2, <2>3, <2>4, <1>ResolveNotifier

\* A CONNACK without a session cancels the PUBLISHes in flight.
<1>ConnectNotifier.
    ASSUME TypeOK, NotifierInv, NEW sp, NEW client, NEW server, NEW m, NEW ka,
           connect(sp, client, server, m, ka)
    PROVE  NotifierInv'
  <2> USE <1>ConnectNotifier
  <2>1. /\ UNCHANGED <<o_pub_q0_rx, o_pub_q12_rx, sub_rx, ping_rx, auth_rx, subscribe,
                       unsubscribe, auth, pingreq>>
        /\ Alive
    BY Zenon DEF connect, Alive
  <2>2. CASE sp
    <3>1. UNCHANGED <<channels, inflight, token>>
      BY Zenon, <2>1, <2>2 DEF connect
    <3> QED
      BY Zenon, <2>1, <3>1, <1>NotifierFrame
  <2>3. CASE ~sp
    <3> DEFINE S == CanceledOnExpiry
    <3>1. publish_qos1' = <<>> /\ token' = Resolve(S, "canceled")
      BY Zenon, <2>3 DEF connect
    <3>2. UniqueKeys(publish_qos1)' /\ IsFiniteSet(subscribe)' /\ IsFiniteSet(unsubscribe)'
      <4>1. UniqueKeys(publish_qos1)'
        BY SMTT(20), <3>1 DEF UniqueKeys
      <4> QED
        BY Zenon, <2>1, <4>1 DEF NotifierInv
    <3>3. ASSUME NEW o \in Nat \ {0}
          PROVE  /\ Held(o)' \in Nat
                 /\ o \notin S => Held(o)' = Held(o)
                 /\ o \in S => Held(o)' < Held(o)
      <4>1. Counted(o)
        BY Zenon, <1>AllCounted
      <4>2. OpHolders(publish_qos1, o) = 0 <=> o \notin S
        <5>1. OpHolders(publish_qos1, o) = 0 <=> \A i \in DOMAIN publish_qos1 : publish_qos1[i].op # o
          BY Zenon, TypesOfNotifiers, OpHoldersValue
        <5>2. o \notin S <=> \A i \in DOMAIN publish_qos1 : publish_qos1[i].op # o
          BY Zenon DEF CanceledOnExpiry, OpsOf, Entries
        <5> QED
          BY Zenon, <5>1, <5>2
      <4>3. OpHolders(publish_qos1', o) = 0
        BY Zenon, <3>1, TypesOfNotifiers, OpHoldersValue
      <4> HIDE DEF S
      <4> QED
        BY <2>1, <4>1, <4>2, <4>3 DEF Held, Counted
    <3> HIDE DEF S
    <3> QED
      BY Zenon, <2>1, <3>1, <3>2, <3>3, <1>ResolveNotifier
  <2> QED
    BY Zenon, <2>2, <2>3

\* The packets that arrive.
<1>ReceiveNotifier.
    ASSUME TypeOK, NotifierInv, Receive
    PROVE  NotifierInv'
  <2> USE <1>ReceiveNotifier
  <2>1. CASE UNCHANGED <<channels, inflight, token, mode>>
    BY Zenon, <2>1, <1>NotifierFrame DEF Alive
  <2>2. ASSUME NEW how \in {"panic_qos2", "panic_duplicate_publish"}, SessionDropped(how)
        PROVE  NotifierInv'
    BY Zenon, <2>2, <1>DroppedNotifier
  <2>3. ASSUME NEW freed, Reading, protocol_error(freed)
        PROVE  NotifierInv'
    <3>1. mode = "connected"
      BY Zenon, <2>3 DEF Reading, NotReady, Polls, Sending
    <3> QED
      BY Zenon, <2>3, <3>1, <1>EndConnectionNotifier DEF protocol_error
  <2>4. ASSUME NEW p \in ServerPkids, incoming_publish_qos1(p)
        PROVE  NotifierInv'
    BY Zenon, <2>1, <2>2, <2>4 DEF incoming_publish_qos1, UnchangedByReceiving
  <2>5. ASSUME NEW p \in Pkids, \/ incoming_suback(p) \/ incoming_unsuback(p)
                                \/ incoming_puback(p) \/ incoming_pubrec(p)
        PROVE  NotifierInv'
    <3>1. CASE \E S : AckUnmatched(S, p)
      BY Zenon, <2>3, <3>1 DEF AckUnmatched
    <3> QED
      BY Zenon, <2>2, <2>5, <3>1, <1>AckNotifier DEF incoming_suback, incoming_unsuback,
         incoming_puback, incoming_pubrec
  <2>6. CASE incoming_disconnect
    BY Zenon, <2>3, <2>6 DEF incoming_disconnect, protocol_error
  <2> QED
    BY Zenon, <2>2, <2>3, <2>4, <2>5, <2>6, <1>AnswerNotifier DEF Receive,
       incoming_publish_qos2, unexpected_packet

\* The packets that are sent.
<1>SendNotifier.
    ASSUME TypeOK, AckInv, NotifierInv, Send
    PROVE  NotifierInv'
  <2> USE <1>SendNotifier
  <2>1. CASE UNCHANGED <<channels, inflight, token, mode>>
    BY Zenon, <2>1, <1>NotifierFrame DEF Alive
  <2>2. CASE route_ack
    <3>1. mode = "connected" /\ ack_rx # <<>>
      BY Zenon, <2>2 DEF route_ack, PollsAcks, Polls, Sending
    <3>2. \/ Stale(Head(ack_rx))
          \/ \E i \in DOMAIN publishes : publishes[i].pkid = deliveries[Head(ack_rx)].pkid
      BY Zenon, <3>1, QueuedAckHasSlot
    <3>3. UNCHANGED <<channels, inflight, token, mode>>
      BY Zenon, <2>2, <3>2 DEF route_ack, UnchangedBySending
    <3> QED
      BY Zenon, <2>1, <3>3
  <2>3. CASE send_replayed \/ send_ready_ack \/ send_disconnect \/ flush
    BY Zenon, <2>1, <2>3 DEF send_replayed, send_ready_ack, send_disconnect, flush,
       UnchangedBySending
  <2> QED
    BY Zenon, <2>2, <2>3, <1>AuthNotifier, <1>PingNotifier, <1>SubscriptionNotifier,
       <1>PublishQoS0Notifier, <1>PublishQoS1Notifier DEF Send
<1>1. CASE Connect
  BY Zenon, <1>1, <1>ConnectNotifier DEF Connect
<1>2. CASE Disconnect
  <2>1. mode = "connected"
    BY Zenon, <1>2 DEF Disconnect, application_disconnect, io_error, ping_timeout,
       NotReady, Polls, Sending
  <2> QED
    BY Zenon, <1>2, <2>1, <1>EndConnectionNotifier DEF Disconnect, application_disconnect,
       io_error, ping_timeout
<1>3. CASE UNCHANGED sessionVars
  BY Zenon, <1>3, <1>NotifierFrame DEF sessionVars, Alive
<1> QED
  BY Zenon, <1>1, <1>2, <1>3, <1>ApplicationNotifier, <1>SendNotifier, <1>ReceiveNotifier DEF Next

\* A new session holds nothing, and no token has been given out.
LEMMA NotifierInit ==
    ASSUME Init
    PROVE  NotifierInv
<1>1. /\ o_pub_q0_rx = <<>> /\ o_pub_q12_rx = <<>> /\ sub_rx = <<>> /\ ping_rx = <<>>
      /\ auth_rx = <<>> /\ pingreq = <<>> /\ publish_qos1 = <<>> /\ subscribe = {}
      /\ unsubscribe = {} /\ auth = NoAuth /\ token = <<>>
  BY Zenon DEF Init
<1>2. UniqueKeys(publish_qos1)
  BY <1>1 DEF UniqueKeys
<1>3. IsFiniteSet({})
  BY Zenon, FS_EmptySet
<1>4. ASSUME NEW o \in Nat \ {0}
      PROVE  Held(o) = Pending(o)
  <2>1. <<>> \in Seq({})
    OBVIOUS
  <2>2. Holders(<<>>, o) = 0 /\ OpHolders(<<>>, o) = 0
    BY Zenon, <2>1, HoldersValue, OpHoldersValue
  <2>3. EntryHolders({}, o) = 0 /\ EntryHolders({NoAuth}, o) = IF NoAuth.op = o THEN 1 ELSE 0
    BY Zenon, EntryHoldersSmall
  <2>4. NoAuth.op = 0
    BY Zenon DEF NoAuth
  <2>5. Held(o) = 0
    BY <1>1, <2>2, <2>3, <2>4 DEF Held
  <2>6. Ops = {}
    BY <1>1 DEF Ops
  <2>7. Pending(o) = 0
    BY Zenon, <2>6 DEF Pending
  <2> QED
    BY Zenon, <2>5, <2>7
<1> QED
  BY Zenon, <1>1, <1>2, <1>3, <1>4 DEF NotifierInv

\* While the session lives, an unresolved token has its notifier in exactly one
\* channel or in-flight slot and a resolved one in none, whatever the server sends
\* and however connections end: no operation is lost, none is resolved twice
\* (complete_inflight, disconnected, session_expired).
THEOREM NotifiersConserved == Spec => []NotifierConservation
<1>1. Init => TypeOK /\ AckInv /\ NotifierInv
  BY Zenon, InitInv, NotifierInit
<1>2. TypeOK /\ AckInv /\ NotifierInv /\ [Next]_sessionVars => (TypeOK /\ AckInv /\ NotifierInv)'
  BY Zenon, TypeStep, AckStep, NotifierStep
<1>3. TypeOK /\ NotifierInv => NotifierConservation
  <2> SUFFICES ASSUME TypeOK, NotifierInv, Alive, NEW o \in Ops
               PROVE  Held(o) = IF token[o] = "pending" THEN 1 ELSE 0
    BY Zenon DEF NotifierConservation, Held
  <2>1. o \in Nat \ {0}
    BY TypesOfNotifiers DEF Ops
  <2> QED
    BY Zenon, <2>1 DEF NotifierInv, Pending
<1> QED
  BY <1>1, <1>2, <1>3, PTL DEF Spec
=============================================================================

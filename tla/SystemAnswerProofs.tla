------------------------- MODULE SystemAnswerProofs -------------------------
(***************************************************************************)
(* What an answer of the server means, for every value of the constants:   *)
(* it finds the operation that it is for, that operation has been carried  *)
(* out, and the client accepts it.                                         *)
(*                                                                         *)
(* The identifiers in flight are counted from SystemInv.  PINGREQs carry   *)
(* no identifier: PingInv counts them along the transport.                 *)
(***************************************************************************)
EXTENDS SystemDeliveryProofs, SessionCountingProofs

USE DEF poolVars, channels, inflight, connection, handles

\* Packet identifiers neither leak nor collide, whatever the interleaving of
\* requests, answers, lost connections and replays (next_packet_id, release, and
\* every place of session.rs that calls them).
THEOREM PkidsAlwaysExclusive == SystemSpec => []PkidsExclusive

\* A map has as many entries as keys.
<1>KeyCount.
    ASSUME NEW S, OneEach(S), PkidsOf(S) \subseteq Pkids
    PROVE  /\ IsFiniteSet(PkidsOf(S)) /\ Cardinality(PkidsOf(S)) \in Nat
           /\ Cardinality(S) = Cardinality(PkidsOf(S))
  <2> USE <1>KeyCount
  <2> DEFINE T == PkidsOf(S)
             f == [e \in S |-> e.pkid]
  <2>1. IsFiniteSet(Pkids)
    BY MaxPkidAssumption, FS_Interval DEF Pkids
  <2>2. IsFiniteSet(T) /\ Cardinality(T) \in Nat
    BY Zenon, <2>1, FS_Subset, FS_CardinalityType
  <2>3. /\ f \in [S -> T]
        /\ \A a, b \in S : f[a] = f[b] => a = b
        /\ \A t \in T : \E s \in S : f[s] = t
    BY Zenon DEF PkidsOf, OneEach
  <2>4. f \in Injection(S, T) /\ f \in Surjection(S, T)
    BY Zenon, <2>3 DEF Injection, IsInjective, Surjection
  <2> QED
    BY Zenon, <2>2, <2>4, FS_Injection

\* So has an indexed map.
<1>IndexKeyCount.
    ASSUME NEW q \in Seq(EntryType), UniqueKeys(q)
    PROVE  /\ IsFiniteSet(PkidsOf(Entries(q)))
           /\ Cardinality(PkidsOf(Entries(q))) = Len(q)
  <2> USE <1>IndexKeyCount
  <2> DEFINE D == 1..Len(q)
             T == PkidsOf(Entries(q))
             f == [i \in D |-> q[i].pkid]
  <2>1. D = DOMAIN q /\ IsFiniteSet(D) /\ Cardinality(D) = Len(q)
    <3>1. DOMAIN q = 1..Len(q) /\ Len(q) \in Nat
      OBVIOUS
    <3>2. IsFiniteSet(1..Len(q))
      BY <3>1, FS_Interval
    <3> QED
      BY Zenon, <3>1, <3>2, IntervalSize
  <2> HIDE DEF D
  <2>2. /\ f \in [D -> T]
        /\ \A a, b \in D : f[a] = f[b] => a = b
        /\ \A t \in T : \E s \in D : f[s] = t
    BY Zenon, <2>1 DEF PkidsOf, Entries, UniqueKeys
  <2>3. f \in Injection(D, T) /\ f \in Surjection(D, T)
    BY Zenon, <2>2 DEF Injection, IsInjective, Surjection
  <2> QED
    BY Zenon, <2>1, <2>3, FS_Surjection

\* The size of a disjoint union.
<1>DisjointCount.
    ASSUME NEW S, NEW T, IsFiniteSet(S), IsFiniteSet(T), S \cap T = {}
    PROVE  IsFiniteSet(S \cup T) /\ Cardinality(S \cup T) = Cardinality(S) + Cardinality(T)
  <2> USE <1>DisjointCount
  <2>1. /\ IsFiniteSet(S \cup T)
        /\ Cardinality(S \cup T) = Cardinality(S) + Cardinality(T) - Cardinality(S \cap T)
    BY Zenon, FS_Union
  <2>2. Cardinality(S \cap T) = 0 /\ Cardinality(S) \in Nat /\ Cardinality(T) \in Nat
    BY Zenon, FS_EmptySet, FS_CardinalityType
  <2> QED
    BY <2>1, <2>2
<1>1. ASSUME SystemInv
      PROVE  PkidsExclusive
  <2> DEFINE Q == PkidsOf(Entries(publish_qos1))
             U == PkidsOf(subscribe)
             V == PkidsOf(unsubscribe)
  <2>1. /\ leased = Q \cup U \cup V
        /\ UniqueKeys(publish_qos1) /\ OneEach(subscribe) /\ OneEach(unsubscribe)
        /\ Q \cap V = {} /\ Q \cap U = {} /\ V \cap U = {}
    BY Zenon, <1>1 DEF SystemInv, KeysInv, InflightKeysDisjoint
  <2>2. publish_qos1 \in Seq(EntryType) /\ U \subseteq Pkids /\ V \subseteq Pkids
    BY <1>1 DEF SystemInv, TypeOK, InflightTypeOK, EntryType, PkidsOf
  <2>3. /\ IsFiniteSet(U) /\ Cardinality(U) \in Nat /\ Cardinality(subscribe) = Cardinality(U)
        /\ IsFiniteSet(V) /\ Cardinality(V) \in Nat /\ Cardinality(unsubscribe) = Cardinality(V)
        /\ IsFiniteSet(Q) /\ Cardinality(Q) = Len(publish_qos1)
    BY Zenon, <2>1, <2>2, <1>KeyCount, <1>IndexKeyCount
  <2>4. leased = PkidsOf(Entries(publish_qos1) \cup subscribe \cup unsubscribe)
    BY Zenon, <2>1 DEF PkidsOf
  <2>5. Len(publish_qos1) \in Nat
    BY <2>2
  <2> HIDE DEF Q, U, V
  <2>6. IsFiniteSet(Q \cup U) /\ Cardinality(Q \cup U) = Cardinality(Q) + Cardinality(U)
    BY Zenon, <2>1, <2>3, <2>5, <1>DisjointCount
  <2>7. (Q \cup U) \cap V = {}
    BY Zenon, <2>1
  <2>8. Cardinality(Q \cup U) \in Nat
    BY Zenon, <2>6, FS_CardinalityType
  <2>9. Cardinality(leased) = Cardinality(Q \cup U) + Cardinality(V)
    BY Zenon, <2>1, <2>3, <2>6, <2>7, <2>8, <1>DisjointCount
  <2> QED
    BY Zenon, <2>3, <2>4, <2>5, <2>6, <2>9 DEF PkidsExclusive
<1> QED
  BY <1>1, SystemInvariant, PTL

-----------------------------------------------------------------------------
(***************************************************************************)
(* PINGREQs in flight carry no identifier.  The queue pingreq is, in order, *)
(* those that the PINGRESPs in transit answer, and those that the server   *)
(* has not read yet.                                                       *)
(***************************************************************************)
PongsIn(C) == CountOf(C, "PINGRESP", Len(C))

Since(S, r, k) == CountOf(S, "PINGREQ", k) - CountOf(S, "PINGREQ", r)

Pings(S, r, C, P, q) ==
    /\ Len(q) = PongsIn(C) + Since(S, r, Len(S))
    /\ \A i \in 1..PongsIn(C) : q[i] \in P \cup {0}
    /\ \A k \in (r + 1)..Len(S) :
         S[k].type = "PINGREQ" => S[k].op = q[PongsIn(C) + Since(S, r, k)]

PingInv == mode = "connected" => Pings(sent, received, to_client, processed, pingreq)

\* A longer prefix has no fewer packets of a type.
LEMMA CountMonotone ==
    ASSUME NEW s, NEW type, NEW m \in Nat, NEW n \in Nat, m <= n
    PROVE  CountOf(s, type, m) <= CountOf(s, type, n)
<1> DEFINE I == {i \in 1..m : s[i].type = type}
           J == {i \in 1..n : s[i].type = type}
<1>1. J \in SUBSET (1..n) /\ I \in SUBSET J
  OBVIOUS
<1>2. IsFiniteSet(J)
  BY Zenon, <1>1, PositionsFinite
<1>3. Cardinality(I) <= Cardinality(J)
  BY Zenon, <1>1, <1>2, FS_Subset
<1> QED
  BY Zenon, <1>3 DEF CountOf

\* The rest of a sequence has the packets of a type but for its head.
LEMMA CountTail ==
    ASSUME NEW T, NEW s \in Seq(T), s # <<>>, NEW type
    PROVE  CountOf(Tail(s), type, Len(Tail(s))) =
              CountOf(s, type, Len(s)) - IF Head(s).type = type THEN 1 ELSE 0
<1> DEFINE n == Len(s)
           I == {i \in 1..n : s[i].type = type}
           J == {i \in 1..(n - 1) : (IF i < 1 THEN i ELSE i + 1) \in I}
<1>1. /\ n \in Nat /\ 1 \in 1..n /\ Head(s) = s[1] /\ Len(Tail(s)) = n - 1
      /\ \A i \in 1..(n - 1) : Tail(s)[i] = s[i + 1]
  OBVIOUS
<1>2. Cardinality(J) = Cardinality(I) - IF 1 \in I THEN 1 ELSE 0
  <2>1. I \in SUBSET (1..n)
    BY Zenon
  <2> HIDE DEF I
  <2> QED
    BY <1>1, <2>1, GapCardinality
<1>3. J = {i \in 1..(n - 1) : Tail(s)[i].type = type}
  <2>1. \A i \in 1..(n - 1) : i + 1 \in 1..n /\ ~(i < 1)
    BY <1>1
  <2> QED
    BY Zenon, <1>1, <2>1
<1>4. 1 \in I <=> Head(s).type = type
  BY Zenon, <1>1
<1> HIDE DEF I, J
<1>5. Cardinality(J) = CountOf(Tail(s), type, n - 1) /\ Cardinality(I) = CountOf(s, type, n)
  BY Zenon, <1>3 DEF CountOf, I
<1> QED
  BY Zenon, <1>1, <1>2, <1>4, <1>5

\* Where the PINGREQs in transit stand in the queue.
LEMMA PingPlace ==
    ASSUME NEW S, NEW r \in Nat, NEW n \in Nat, NEW k \in (r + 1)..n, S[k].type = "PINGREQ"
    PROVE  /\ Since(S, r, k) \in Nat /\ 1 <= Since(S, r, k)
           /\ Since(S, r, k) <= Since(S, r, n)
<1> DEFINE c(i) == CountOf(S, "PINGREQ", i)
<1>1. k \in Nat /\ k - 1 \in Nat /\ r <= k - 1 /\ k <= n /\ k = (k - 1) + 1
  OBVIOUS
<1>2. c(r) \in Nat /\ c(k) \in Nat /\ c(n) \in Nat /\ c(k - 1) \in Nat
  BY Zenon, <1>1, CountNat
<1>3. c(r) <= c(k - 1) /\ c(k) <= c(n)
  BY Zenon, <1>1, CountMonotone
<1>4. c(k) = c(k - 1) + 1
  <2> DEFINE j == k - 1
  <2>1. j \in Nat /\ j + 1 = k
    BY Zenon, <1>1
  <2> HIDE DEF j
  <2>2. CountOf(S, "PINGREQ", j + 1) =
           CountOf(S, "PINGREQ", j) + IF S[j + 1].type = "PINGREQ" THEN 1 ELSE 0
    BY Zenon, <2>1, CountNext
  <2>3. CountOf(S, "PINGREQ", k) = CountOf(S, "PINGREQ", j) + 1
    BY Zenon, <2>1, <2>2
  <2> QED
    BY Zenon, <2>3 DEF j
<1> HIDE DEF c
<1>5. Since(S, r, k) = c(k) - c(r) /\ Since(S, r, n) = c(n) - c(r)
  BY Zenon DEF Since, c
<1> QED
  BY <1>2, <1>3, <1>4, <1>5

\* The numbers of packets are natural numbers.
LEMMA PongsNat ==
    ASSUME NEW T, NEW C \in Seq(T)
    PROVE  PongsIn(C) \in Nat
<1>1. Len(C) \in Nat
  OBVIOUS
<1> QED
  BY Zenon, <1>1, CountNat DEF PongsIn

\* The client takes a packet; a PINGRESP answers the head of the queue.
LEMMA PingTake ==
    ASSUME NEW S \in Seq(PacketType), NEW r \in 0..Len(S), NEW C \in Seq(ReplyType), NEW P,
           NEW q \in Seq(Nat), NEW q2, Pings(S, r, C, P, q), C # <<>>,
           q2 = IF Head(C).type = "PINGRESP" THEN Tail(q) ELSE q
    PROVE  /\ Pings(S, r, Tail(C), P, q2)
           /\ Head(C).type = "PINGRESP" => q # <<>> /\ Head(q) \in P \cup {0}
<1> DEFINE g == PongsIn(C)
           h == PongsIn(Tail(C))
           b == Since(S, r, Len(S))
           l == Len(q)
<1>1. Tail(C) \in Seq(ReplyType) /\ Len(S) \in Nat /\ r \in Nat /\ l \in Nat
  OBVIOUS
<1>2. g \in Nat /\ h \in Nat
  BY Zenon, <1>1, PongsNat
<1>3. h = g - IF Head(C).type = "PINGRESP" THEN 1 ELSE 0
  BY Zenon, CountTail DEF PongsIn
<1>4. /\ l = g + b
      /\ \A i \in 1..g : q[i] \in P \cup {0}
      /\ \A k \in (r + 1)..Len(S) : S[k].type = "PINGREQ" => S[k].op = q[g + Since(S, r, k)]
  BY Zenon DEF Pings
<1>5. b \in Nat
  <2>1. /\ CountOf(S, "PINGREQ", r) \in Nat /\ CountOf(S, "PINGREQ", Len(S)) \in Nat
        /\ CountOf(S, "PINGREQ", r) <= CountOf(S, "PINGREQ", Len(S))
    <3>1. r <= Len(S)
      OBVIOUS
    <3> QED
      BY Zenon, <1>1, <3>1, CountNat, CountMonotone
  <2> QED
    BY <2>1 DEF Since
<1> HIDE DEF g, h, b, l
<1>6. CASE Head(C).type # "PINGRESP"
  <2>1. h = g /\ q2 = q
    BY <1>2, <1>3, <1>6
  <2> QED
    BY Zenon, <1>6, <2>1 DEF Pings, g, h
<1>7. CASE Head(C).type = "PINGRESP"
  <2>1. h = g - 1 /\ q2 = Tail(q) /\ l >= 1
    BY <1>2, <1>3, <1>4, <1>5, <1>7
  <2>2. /\ q # <<>> /\ Head(q) = q[1] /\ Len(q2) = l - 1
        /\ \A i \in 1..(l - 1) : q2[i] = q[i + 1]
    BY <2>1 DEF l
  <2>3. Head(q) \in P \cup {0}
    <3>1. 1 \in 1..g
      BY <1>2, <2>1
    <3> QED
      BY Zenon, <1>4, <2>2, <3>1
  <2>4. Len(q2) = h + b
    BY <1>2, <1>4, <1>5, <2>1, <2>2
  <2>5. ASSUME NEW i \in 1..h
        PROVE  q2[i] \in P \cup {0}
    <3>1. i \in 1..(l - 1) /\ i + 1 \in 1..g
      BY <1>2, <1>4, <1>5, <2>1
    <3> QED
      BY Zenon, <1>4, <2>2, <3>1
  <2>6. ASSUME NEW k \in (r + 1)..Len(S), S[k].type = "PINGREQ"
        PROVE  S[k].op = q2[h + Since(S, r, k)]
    <3> DEFINE a == Since(S, r, k)
    <3>1. a \in Nat /\ 1 <= a /\ a <= b
      BY Zenon, <1>1, <2>6, PingPlace DEF b
    <3>2. S[k].op = q[g + a]
      BY Zenon, <1>4, <2>6
    <3> HIDE DEF a
    <3>3. h + a \in 1..(l - 1) /\ (h + a) + 1 = g + a
      BY <1>2, <1>4, <1>5, <2>1, <3>1
    <3>4. q2[h + a] = q[g + a]
      BY Zenon, <2>2, <3>3
    <3> QED
      BY Zenon, <3>2, <3>4 DEF a
  <2>7. Pings(S, r, Tail(C), P, q2)
    BY Zenon, <2>4, <2>5, <2>6 DEF Pings, h, b
  <2> QED
    BY Zenon, <2>2, <2>3, <2>7
<1> QED
  BY Zenon, <1>6, <1>7

\* What the invariant about PINGREQs takes from the types.
LEMMA TypesOfPings ==
    ASSUME SystemInv
    PROVE  /\ sent \in Seq(PacketType) /\ received \in 0..Len(sent) /\ received \in Nat
           /\ to_client \in Seq(ReplyType) /\ pingreq \in Seq(Nat)
<1>1. received \in 0..Len(sent)
  BY Zenon DEF SystemInv, SystemTypeOK
<1>2. received \in Nat
  BY <1>1
<1> QED
  BY Zenon, <1>1, <1>2 DEF SystemInv, SystemTypeOK, TypeOK, ConnectionTypeOK, InflightTypeOK

\* What a read does to the queue of PINGREQs.
LEMMA ReceivePings ==
    ASSUME SystemInv, PingInv, ClientReceive
    PROVE  /\ PingInv'
           /\ Head(to_client).type = "PINGRESP" =>
                pingreq # <<>> /\ Head(pingreq) \in processed \cup {0}
<1> DEFINE pkt == Head(to_client)
           q2 == IF pkt.type = "PINGRESP" THEN Tail(pingreq) ELSE pingreq
<1>1. /\ mode = "connected" /\ to_client # <<>>
      /\ \/ Completes(pkt)
         \/ pkt.type = "PINGRESP" /\ incoming_pingresp
         \/ pkt.type = "PUBLISH" /\ incoming_publish_qos1(pkt.pkid)
  BY Zenon, ReceiveCases DEF SystemInv, ClientReceive
<1>2. Pings(sent, received, to_client, processed, pingreq)
  BY Zenon, <1>1 DEF PingInv
<1>3. /\ Pings(sent, received, Tail(to_client), processed, q2)
      /\ pkt.type = "PINGRESP" => pingreq # <<>> /\ Head(pingreq) \in processed \cup {0}
  BY Zenon, <1>1, <1>2, TypesOfPings, PingTake
<1>4. pingreq' = q2
  <2> HIDE DEF pkt
  <2>1. CASE Completes(pkt)
    <3>1. pkt.type # "PINGRESP"
      BY Zenon, <2>1 DEF Completes, Answers
    <3>2. pingreq' = pingreq
      BY Zenon, <2>1 DEF Completes, AckMatches
    <3> QED
      BY Zenon, <3>1, <3>2
  <2>2. CASE pkt.type = "PINGRESP" /\ incoming_pingresp
    BY Zenon, <1>3, <2>2 DEF incoming_pingresp, pkt
  <2>3. CASE pkt.type = "PUBLISH" /\ incoming_publish_qos1(pkt.pkid)
    <3>1. pingreq' = pingreq
      BY Zenon, <2>3 DEF incoming_publish_qos1, SessionDropped
    <3>2. pkt.type # "PINGRESP"
      BY Zenon, <2>3
    <3> QED
      BY Zenon, <3>1, <3>2
  <2> QED
    BY Zenon, <1>1, <2>1, <2>2, <2>3
<1>5. /\ UNCHANGED <<sent, received, processed>>
      /\ to_client' = Tail(to_client) \/ mode' = "panic_duplicate_publish"
  BY Zenon, ReceiveFrame DEF SystemInv
<1> HIDE DEF q2
<1>6. CASE to_client' = Tail(to_client)
  <2>1. Pings(sent', received', to_client', processed', pingreq')
    BY Zenon, <1>3, <1>4, <1>5, <1>6
  <2> QED
    BY Zenon, <1>3, <2>1 DEF PingInv
<1>7. CASE mode' = "panic_duplicate_publish"
  <2>1. PingInv'
    BY Zenon, <1>7 DEF PingInv
  <2> QED
    BY Zenon, <1>3, <2>1
<1> QED
  BY Zenon, <1>3, <1>5, <1>6, <1>7

\* Every step keeps the order of the PINGREQs in flight.
LEMMA PingStep ==
    ASSUME SystemInv, SystemInv', PingInv, [SystemNext]_systemVars
    PROVE  PingInv'

\* A packet is written; a PINGREQ joins the queue.
<1>PingWrite.
    ASSUME NEW S \in Seq(PacketType), NEW r \in 0..Len(S), NEW C \in Seq(ReplyType), NEW P,
           NEW q \in Seq(Nat), NEW pkt \in PacketType, NEW q2, Pings(S, r, C, P, q),
           q2 = IF pkt.type = "PINGREQ" THEN Append(q, pkt.op) ELSE q
    PROVE  Pings(Append(S, pkt), r, C, P, q2)
  <2> USE <1>PingWrite
  <2> DEFINE T == Append(S, pkt)
             n == Len(S) + 1
             g == PongsIn(C)
  <2>1. /\ n \in Nat /\ Len(T) = n /\ T[n] = pkt /\ Len(S) \in Nat /\ r \in Nat
        /\ \A k \in 1..Len(S) : T[k] = S[k]
        /\ \A k \in (r + 1)..n : k = n \/ (k \in (r + 1)..Len(S) /\ k \in 1..Len(S))
    <3>1. Len(S) \in Nat /\ r \in Nat
      OBVIOUS
    <3>2. /\ Len(T) = n
          /\ T[n] = pkt
          /\ \A k \in 1..Len(S) : T[k] = S[k]
      BY SMT, Appended
    <3>3. \A k \in (r + 1)..n : k = n \/ (k \in (r + 1)..Len(S) /\ k \in 1..Len(S))
      BY <3>1
    <3> QED
      BY <3>1, <3>2, <3>3
  <2>2. g \in Nat
    BY Zenon, PongsNat
  <2>3. /\ \A k \in 0..Len(S) : CountOf(T, "PINGREQ", k) = CountOf(S, "PINGREQ", k)
        /\ CountOf(T, "PINGREQ", n) =
              CountOf(S, "PINGREQ", Len(S)) + IF pkt.type = "PINGREQ" THEN 1 ELSE 0
    BY Zenon, CountAppend
  <2>4. /\ Len(q) = g + Since(S, r, Len(S))
        /\ \A i \in 1..g : q[i] \in P \cup {0}
        /\ \A k \in (r + 1)..Len(S) : S[k].type = "PINGREQ" => S[k].op = q[g + Since(S, r, k)]
    BY Zenon DEF Pings
  <2>5. /\ Since(S, r, Len(S)) \in Nat
        /\ \A k \in 0..Len(S) : Since(T, r, k) = Since(S, r, k)
        /\ Since(T, r, n) = Since(S, r, Len(S)) + IF pkt.type = "PINGREQ" THEN 1 ELSE 0
    <3>1. /\ CountOf(S, "PINGREQ", r) \in Nat /\ CountOf(S, "PINGREQ", Len(S)) \in Nat
          /\ CountOf(S, "PINGREQ", r) <= CountOf(S, "PINGREQ", Len(S))
      <4>1. r <= Len(S)
        OBVIOUS
      <4> QED
        BY Zenon, <2>1, <4>1, CountNat, CountMonotone
    <3> HIDE DEF T, n
    <3> QED
      BY <2>3, <3>1 DEF Since
  <2> HIDE DEF T, n, g
  <2>6. ASSUME NEW k \in (r + 1)..Len(S), S[k].type = "PINGREQ"
        PROVE  /\ Since(S, r, k) \in Nat /\ 1 <= Since(S, r, k)
               /\ Since(S, r, k) <= Since(S, r, Len(S))
    BY Zenon, <2>1, <2>6, PingPlace
  <2>7. /\ Len(q2) = g + Since(T, r, n)
        /\ \A i \in 1..g : i \in 1..Len(q)
    <3>1. Len(q2) = Len(q) + IF pkt.type = "PINGREQ" THEN 1 ELSE 0
      OBVIOUS
    <3>2. Len(q) = g + Since(S, r, Len(S))
      BY Zenon, <2>4
    <3>3. /\ Since(S, r, Len(S)) \in Nat
          /\ Since(T, r, n) = Since(S, r, Len(S)) + IF pkt.type = "PINGREQ" THEN 1 ELSE 0
      BY Zenon, <2>5
    <3> QED
      BY SMTT(20), <2>2, <3>1, <3>2, <3>3
  <2>8. \A i \in 1..g : q2[i] \in P \cup {0}
    <3> SUFFICES ASSUME NEW i \in 1..g PROVE q2[i] \in P \cup {0}
      BY Zenon
    <3>1. i \in 1..Len(q)
      BY Zenon, <2>7
    <3>2. q2[i] = q[i]
      BY <3>1
    <3> QED
      BY Zenon, <2>4, <3>2
  <2>9. ASSUME NEW k \in (r + 1)..n, T[k].type = "PINGREQ"
        PROVE  T[k].op = q2[g + Since(T, r, k)]
    <3>1. CASE k = n
      <4>1. T[k] = pkt /\ q2 = Append(q, pkt.op)
        BY Zenon, <2>1, <2>9, <3>1
      <4>2. g + Since(T, r, k) = Len(q) + 1
        BY SMTT(20), <2>1, <2>2, <2>4, <2>5, <2>9, <3>1
      <4> QED
        BY <4>1, <4>2
    <3>2. CASE k \in (r + 1)..Len(S) /\ k \in 1..Len(S)
      <4>1. T[k] = S[k] /\ S[k].type = "PINGREQ"
        BY Zenon, <2>1, <2>9, <3>2
      <4>2. /\ Since(S, r, k) \in Nat /\ 1 <= Since(S, r, k)
            /\ Since(S, r, k) <= Since(S, r, Len(S))
        BY Zenon, <2>6, <3>2, <4>1
      <4>3. Since(T, r, k) = Since(S, r, k)
        BY <2>5, <3>2
      <4>4. T[k].op = q[g + Since(S, r, k)]
        BY Zenon, <2>4, <3>2, <4>1
      <4>5. g + Since(S, r, k) \in 1..Len(q)
        <5> DEFINE a == Since(S, r, k)
                   b == Since(S, r, Len(S))
                   l == Len(q)
        <5>1. a \in Nat /\ 1 <= a /\ a <= b /\ b \in Nat /\ l = g + b /\ g \in Nat
          BY Zenon, <2>2, <2>4, <2>5, <4>2
        <5> HIDE DEF a, b, l
        <5>2. g + a \in 1..l
          BY <5>1
        <5> QED
          BY Zenon, <5>2 DEF a, l
      <4>6. q2[g + Since(S, r, k)] = q[g + Since(S, r, k)]
        BY <4>5
      <4> QED
        BY Zenon, <4>3, <4>4, <4>6
    <3> QED
      BY Zenon, <2>1, <2>9, <3>1, <3>2
  <2> QED
    BY Zenon, <2>1, <2>7, <2>8, <2>9 DEF Pings, T, g

\* The server sends a packet that is no PINGRESP.
<1>PingBeside.
    ASSUME NEW S, NEW r, NEW C \in Seq(ReplyType), NEW P, NEW q, NEW x \in ReplyType,
           x.type # "PINGRESP", Pings(S, r, C, P, q)
    PROVE  Pings(S, r, Append(C, x), P, q)
  <2> USE <1>PingBeside
  <2>1. PongsIn(Append(C, x)) = PongsIn(C)
    <3>1. Len(Append(C, x)) = Len(C) + 1 /\ Len(C) \in Nat
      OBVIOUS
    <3>2. CountOf(Append(C, x), "PINGRESP", Len(C) + 1) = CountOf(C, "PINGRESP", Len(C)) + 0
      BY Zenon, CountAppend
    <3>3. CountOf(C, "PINGRESP", Len(C)) \in Nat
      BY Zenon, <3>1, CountNat
    <3> QED
      BY <3>1, <3>2, <3>3 DEF PongsIn
  <2> QED
    BY Zenon, <2>1 DEF Pings

\* The server carries out more operations.
<1>PingMore.
    ASSUME NEW S, NEW r, NEW C, NEW P, NEW P2, NEW q, P \subseteq P2, Pings(S, r, C, P, q)
    PROVE  Pings(S, r, C, P2, q)
  BY Zenon, <1>PingMore DEF Pings

\* The server processes a packet; it answers a PINGREQ with a PINGRESP.
<1>PingRead.
    ASSUME NEW S \in Seq(PacketType), NEW r \in Nat, r < Len(S), NEW C \in Seq(ReplyType),
           NEW D \in Seq(ReplyType), NEW P, NEW q, Pings(S, r, C, P, q),
           PongsIn(D) = PongsIn(C) + IF S[r + 1].type = "PINGREQ" THEN 1 ELSE 0,
           S[r + 1].type = "PINGREQ" => S[r + 1].op \in P \cup {0}
    PROVE  Pings(S, r + 1, D, P, q)
  <2> USE <1>PingRead
  <2> DEFINE g == PongsIn(C)
             h == PongsIn(D)
             s == r + 1
             u == IF S[s].type = "PINGREQ" THEN 1 ELSE 0
  <2>1. /\ s \in Nat /\ s \in (r + 1)..Len(S) /\ Len(S) \in Nat
        /\ \A k \in (s + 1)..Len(S) : k \in (r + 1)..Len(S) /\ k \in Nat
    OBVIOUS
  <2>2. g \in Nat /\ h \in Nat
    BY Zenon, PongsNat
  <2>3. CountOf(S, "PINGREQ", s) = CountOf(S, "PINGREQ", r) + u
    BY Zenon, CountNext
  <2>4. h = g + u
    BY Zenon
  <2>5. u \in {0, 1} /\ (u = 1 <=> S[s].type = "PINGREQ")
    OBVIOUS
  <2>6. /\ Len(q) = g + Since(S, r, Len(S))
        /\ \A i \in 1..g : q[i] \in P \cup {0}
        /\ \A k \in (r + 1)..Len(S) : S[k].type = "PINGREQ" => S[k].op = q[g + Since(S, r, k)]
    BY Zenon DEF Pings
  <2> HIDE DEF u, g, h
  <2>7. \A k \in Nat : h + Since(S, s, k) = g + Since(S, r, k)
    <3> SUFFICES ASSUME NEW k \in Nat PROVE h + Since(S, s, k) = g + Since(S, r, k)
      BY Zenon
    <3>1. CountOf(S, "PINGREQ", r) \in Nat /\ CountOf(S, "PINGREQ", k) \in Nat
      BY Zenon, CountNat
    <3> HIDE DEF s
    <3> QED
      BY <2>2, <2>3, <2>4, <2>5, <3>1 DEF Since
  <2>8. ASSUME u = 1
        PROVE  q[g + 1] \in P \cup {0}
    <3>1. S[s].op = q[g + Since(S, r, s)] /\ S[s].op \in P \cup {0}
      BY Zenon, <2>1, <2>5, <2>6, <2>8
    <3>2. Since(S, r, s) = 1
      <4>1. CountOf(S, "PINGREQ", r) \in Nat
        BY Zenon, CountNat
      <4> HIDE DEF s
      <4> QED
        BY <2>3, <2>8, <4>1 DEF Since
    <3> QED
      BY Zenon, <3>1, <3>2
  <2>9. \A i \in 1..h : q[i] \in P \cup {0}
    <3> SUFFICES ASSUME NEW i \in 1..h PROVE q[i] \in P \cup {0}
      BY Zenon
    <3>1. i \in 1..g \/ (i = g + 1 /\ u = 1)
      BY <2>2, <2>4, <2>5
    <3> QED
      BY Zenon, <2>6, <2>8, <3>1
  <2>10. Len(q) = h + Since(S, s, Len(S))
    BY Zenon, <2>1, <2>6, <2>7
  <2>11. ASSUME NEW k \in (s + 1)..Len(S), S[k].type = "PINGREQ"
         PROVE  S[k].op = q[h + Since(S, s, k)]
    <3>1. k \in (r + 1)..Len(S) /\ k \in Nat
      BY Zenon, <2>1
    <3>2. S[k].op = q[g + Since(S, r, k)]
      BY Zenon, <2>6, <2>11, <3>1
    <3> QED
      BY Zenon, <2>7, <3>1, <3>2
  <2> QED
    BY Zenon, <2>9, <2>10, <2>11 DEF Pings, h

\* The send loop writes PINGREQs in the order in which they join pingreq.
<1>SendPings.
    ASSUME SystemInv, TypeOK', PingInv, Send, UNCHANGED <<received, to_client, processed>>
    PROVE  PingInv'
  <2> USE <1>SendPings
  <2>1. /\ mode = "connected"
        /\ \/ WritesNothing
           \/ \E pkt \in PacketType : WritesOther(pkt)
           \/ \E o \in Nat : WritesPing(o)
           \/ send_replayed
           \/ \E p \in Pkids : send_subscription(p)
           \/ \E p \in Pkids : send_publish_qos1(p)
    BY Zenon, SendCases DEF SystemInv, SystemTypeOK
  <2>2. Pings(sent, received, to_client, processed, pingreq)
    BY Zenon, <2>1 DEF PingInv
  <2>3. ASSUME NEW pkt, sent' = Append(sent, pkt),
               pingreq' = IF pkt.type = "PINGREQ" THEN Append(pingreq, pkt.op) ELSE pingreq
        PROVE  PingInv'
    <3>1. pkt \in PacketType
      BY Zenon, <2>3, AppendedPacket DEF SystemInv
    <3>2. Pings(Append(sent, pkt), received, to_client, processed, pingreq')
      BY Zenon, <2>2, <2>3, <3>1, TypesOfPings, <1>PingWrite
    <3> QED
      BY Zenon, <2>3, <3>2 DEF PingInv
  <2>4. CASE WritesNothing
    BY Zenon, <2>2, <2>4 DEF WritesNothing, PingInv
  <2>5. ASSUME NEW pkt \in PacketType, WritesOther(pkt)
        PROVE  PingInv'
    <3>1. pkt.type # "PINGREQ" /\ pingreq' = pingreq /\ sent' = Append(sent, pkt)
      BY Zenon, <2>5 DEF WritesOther
    <3> QED
      BY Zenon, <2>3, <3>1
  <2>6. ASSUME NEW o \in Nat, WritesPing(o)
        PROVE  PingInv'
    <3> DEFINE pkt == Pkt("PINGREQ", 0, o, FALSE)
    <3>1. pkt.type = "PINGREQ" /\ pkt.op = o
      BY Zenon DEF Pkt
    <3> HIDE DEF pkt
    <3>2. sent' = Append(sent, pkt) /\ pingreq' = Append(pingreq, o)
      BY Zenon, <2>6 DEF WritesPing, pkt
    <3> QED
      BY Zenon, <2>3, <3>1, <3>2
  <2>7. ASSUME NEW type, type # "PINGREQ", NEW p, NEW o, NEW dup,
               sent' = Append(sent, Pkt(type, p, o, dup)), pingreq' = pingreq
        PROVE  PingInv'
    <3> DEFINE pkt == Pkt(type, p, o, dup)
    <3>1. pkt.type # "PINGREQ"
      BY Zenon, <2>7 DEF Pkt
    <3> HIDE DEF pkt
    <3>2. sent' = Append(sent, pkt)
      BY Zenon, <2>7 DEF pkt
    <3> QED
      BY Zenon, <2>3, <2>7, <3>1, <3>2
  <2>8. "PUBLISH" # "PINGREQ" /\ "SUBSCRIBE" # "PINGREQ" /\ "UNSUBSCRIBE" # "PINGREQ"
    BY Zenon
  <2>9. CASE send_replayed
    BY Zenon, <2>7, <2>8, <2>9 DEF send_replayed, Write
  <2>10. CASE \E p \in Pkids : send_subscription(p)
    <3>1. pingreq' = pingreq
      BY Zenon, <2>10 DEF send_subscription
    <3> QED
      BY Zenon, <2>7, <2>8, <2>10, <3>1, SubscriptionKeys DEF SystemInv
  <2>11. CASE \E p \in Pkids : send_publish_qos1(p)
    BY Zenon, <2>7, <2>8, <2>11 DEF send_publish_qos1, Write
  <2> QED
    BY Zenon, <2>1, <2>4, <2>5, <2>6, <2>9, <2>10, <2>11

\* What the server reads, and what it sends.
<1>ServerPings.
    ASSUME SystemInv, SystemTypeOK', PingInv,
           ServerReceive \/ \E p \in ServerPkids : ServerPublish(p)
    PROVE  PingInv'
  <2> USE <1>ServerPings
  <2>1. UNCHANGED <<mode, sent, pingreq>> /\ to_client' \in Seq(ReplyType)
    BY Zenon DEF ServerReceive, ServerPublish, sessionVars, SystemTypeOK
  <2>2. SUFFICES ASSUME mode = "connected"
                 PROVE  Pings(sent, received', to_client', processed', pingreq)
    BY Zenon, <2>1 DEF PingInv
  <2>3. Pings(sent, received, to_client, processed, pingreq)
    BY Zenon, <2>2 DEF PingInv
  <2>4. /\ sent \in Seq(PacketType) /\ received \in Nat /\ to_client \in Seq(ReplyType)
    BY Zenon, TypesOfPings
  <2>5. CASE \E p \in ServerPkids : ServerPublish(p)
    <3>1. PICK p \in ServerPkids : ServerPublish(p)
      BY Zenon, <2>5
    <3> DEFINE x == Message([pkid |-> p, msg |-> published + 1])
    <3>2. /\ UNCHANGED <<received, processed>> /\ to_client' = to_client \o <<x>>
      BY Zenon, <3>1 DEF ServerPublish, Answer
    <3>3. x.type # "PINGRESP"
      BY Zenon DEF Message
    <3>4. x \in ReplyType
      <4>1. published \in Nat
        BY Zenon DEF SystemInv, SystemTypeOK
      <4> QED
        BY <4>1 DEF Message, ReplyType
    <3> HIDE DEF x
    <3>5. to_client \o <<x>> = Append(to_client, x)
      BY <2>4, <3>4
    <3>6. Pings(sent, received, Append(to_client, x), processed, pingreq)
      BY Zenon, <2>3, <2>4, <3>3, <3>4, <1>PingBeside
    <3> QED
      BY Zenon, <3>2, <3>5, <3>6
  <2>6. CASE ServerReceive
    <3> DEFINE pkt == sent[received + 1]
               u == IF pkt.type = "PINGREQ" THEN 1 ELSE 0
    <3>1. /\ received < Len(sent) /\ received' = received + 1
          /\ to_client' = to_client \o Replies(pkt)
          /\ processed' = processed \cup (IF pkt.type = "PUBACK" THEN {} ELSE {pkt.op} \ {0})
      BY Zenon, <2>2, <2>6 DEF ServerReceive, Answer
    <3>2. pkt \in PacketType
      BY <2>4, <3>1
    <3> HIDE DEF pkt
    <3>3. processed \subseteq processed' /\ (pkt.type = "PINGREQ" => pkt.op \in processed' \cup {0})
      <4>1. processed \subseteq processed'
        BY Zenon, <3>1
      <4>2. pkt.type = "PINGREQ" => pkt.type # "PUBACK"
        BY Zenon
      <4> QED
        BY Zenon, <3>1, <4>1, <4>2
    <3>4. PongsIn(to_client') = PongsIn(to_client) + u
      <4>1. PongsIn(to_client) \in Nat
        BY Zenon, <2>4, PongsNat
      <4>2. ASSUME NEW x, Replies(pkt) = <<x>>, x.type = "PINGRESP" <=> u = 1
            PROVE  PongsIn(to_client') = PongsIn(to_client) + u
        <5>1. to_client' = Append(to_client, x) /\ Len(to_client) \in Nat
          BY <2>4, <3>1, <4>2
        <5>2. Len(to_client') = Len(to_client) + 1 /\ to_client'[Len(to_client) + 1] = x
          BY <2>4, <5>1
        <5>3. x \in ReplyType
          <6>1. Len(to_client) + 1 \in DOMAIN to_client'
            BY <2>1, <2>4, <5>2
          <6>2. \A j \in DOMAIN to_client' : to_client'[j] \in ReplyType
            BY <2>1
          <6> QED
            BY Zenon, <5>2, <6>1, <6>2
        <5>4. CountOf(Append(to_client, x), "PINGRESP", Len(to_client) + 1) =
                 CountOf(to_client, "PINGRESP", Len(to_client))
                    + IF x.type = "PINGRESP" THEN 1 ELSE 0
          BY Zenon, <2>4, <5>3, CountAppend
        <5>5. PongsIn(to_client') =
                 PongsIn(to_client) + IF x.type = "PINGRESP" THEN 1 ELSE 0
          BY Zenon, <5>1, <5>2, <5>4 DEF PongsIn
        <5> QED
          BY Zenon, <4>1, <4>2, <5>5
      <4>3. CASE pkt.type \in Requests
        <5>1. PICK a \in Answers : Replies(pkt) = <<Reply(a, pkt.pkid)>>
          BY Zenon, <3>2, <4>3, RepliesTo
        <5>2. Reply(a, pkt.pkid).type = a /\ a # "PINGRESP" /\ u = 0
          BY Zenon, <4>3 DEF Reply, Answers, Requests
        <5>3. Reply(a, pkt.pkid).type = "PINGRESP" <=> u = 1
          BY <5>2
        <5> QED
          BY Zenon, <4>2, <5>1, <5>3
      <4>4. CASE pkt.type = "PINGREQ"
        <5>1. Replies(pkt) = <<Reply("PINGRESP", 0)>>
          BY Zenon, <3>2, <4>4, RepliesTo
        <5>2. Reply("PINGRESP", 0).type = "PINGRESP" <=> u = 1
          BY Zenon, <4>4 DEF Reply
        <5> QED
          BY Zenon, <4>2, <5>1, <5>2
      <4>5. CASE pkt.type \notin Requests /\ pkt.type # "PINGREQ"
        <5>1. Replies(pkt) = <<>>
          BY Zenon, <3>2, <4>5, RepliesTo
        <5>2. to_client' = to_client
          BY <2>4, <3>1, <5>1
        <5> QED
          BY <4>1, <4>5, <5>2
      <4> QED
        BY Zenon, <4>3, <4>4, <4>5
    <3>5. Pings(sent, received, to_client, processed', pingreq)
      BY Zenon, <2>3, <3>3, <1>PingMore
    <3>6. Pings(sent, received + 1, to_client', processed', pingreq)
      BY Zenon, <2>1, <2>4, <3>1, <3>3, <3>4, <3>5, <1>PingRead DEF pkt
    <3> QED
      BY Zenon, <3>1, <3>6
  <2> QED
    BY Zenon, <2>5, <2>6
<1>1. TypeOK' /\ SystemTypeOK'
  BY Zenon DEF SystemInv
<1>2. ASSUME UNCHANGED <<sent, received, to_client, processed, pingreq>>,
             mode' = "connected" => mode = "connected"
      PROVE  PingInv'
  BY Zenon, <1>2 DEF PingInv
<1>3. CASE ClientLocal /\ Application
  <2>1. UNCHANGED <<sent, received, to_client, processed, pingreq>>
    BY Zenon, <1>3, ApplicationFrame DEF ClientLocal, serverVars
  <2>2. mode' = "connected" => mode = "connected"
    BY Zenon, <1>3, ApplicationFrame
  <2> QED
    BY Zenon, <1>2, <2>1, <2>2
<1>4. CASE ClientLocal /\ Send
  <2>1. UNCHANGED <<received, to_client, processed>>
    BY Zenon, <1>4 DEF ClientLocal, serverVars
  <2> QED
    BY Zenon, <1>1, <1>4, <2>1, <1>SendPings
<1>5. CASE SystemConnect
  <2>1. PICK sp \in BOOLEAN, e \in Expiries, m \in Methods \cup {NoMethod}, ka \in KeepAlives :
           /\ connect(sp, e, Absent, m, ka)
           /\ to_client' = IF sp THEN [i \in DOMAIN outbound |-> Message(outbound[i])] ELSE <<>>
    BY Zenon, <1>5 DEF SystemConnect
  <2>2. sent' = <<>> /\ received' = 0 /\ pingreq' = <<>>
    <3>1. mode = "ready" /\ pingreq' = pingreq /\ sent' = <<>>
      BY Zenon, <2>1 DEF connect
    <3> QED
      BY Zenon, <1>5, <3>1 DEF SystemConnect, SystemInv, RestInv
  <2>3. \A j \in DOMAIN to_client' : to_client'[j].type # "PINGRESP"
    <3>1. \A i \in DOMAIN outbound : Message(outbound[i]).type # "PINGRESP"
      BY Zenon DEF Message
    <3> QED
      BY <2>1, <3>1
  <2>4. PongsIn(to_client') = 0
    <3>1. to_client' \in Seq(ReplyType)
      BY Zenon, <1>1 DEF SystemTypeOK
    <3>2. {i \in 1..Len(to_client') : to_client'[i].type = "PINGRESP"} = {}
      BY <2>3, <3>1
    <3> QED
      BY Zenon, <3>2, FS_EmptySet DEF PongsIn, CountOf
  <2>5. Since(<<>>, 0, 0) = 0
    BY CountZero DEF Since
  <2>6. Len(<<>>) = 0 /\ 1..0 = {} /\ (0 + 1)..0 = {} /\ 0 + 0 = 0
    OBVIOUS
  <2>7. Pings(<<>>, 0, to_client', processed', <<>>)
    BY Zenon, <2>4, <2>5, <2>6 DEF Pings
  <2> QED
    BY Zenon, <2>2, <2>7 DEF PingInv
<1>6. CASE ConnectionEnds
  <2>1. mode' = "ready"
    BY Zenon, <1>6, EndsOnce DEF ConnectionEnds, EndConnection
  <2> QED
    BY Zenon, <2>1 DEF PingInv
<1>7. CASE UNCHANGED systemVars
  BY Zenon, <1>2, <1>7 DEF systemVars, sessionVars, serverVars
<1> QED
  BY Zenon, <1>1, <1>3, <1>4, <1>5, <1>6, <1>7, ReceivePings, <1>ServerPings
     DEF SystemNext, ClientLocal

-----------------------------------------------------------------------------
CompletedOps == {o \in Ops : token[o] = "completed"}

\* Every step of the system keeps the property.
LEMMA CompletedStep ==
    ASSUME SystemInv, PingInv, CompletedOps \subseteq processed, [SystemNext]_systemVars
    PROVE  CompletedOps' \subseteq processed'

\* Resolving tokens changes those, and no other.
<1>ResolvedOps.
    ASSUME TypeOK, NEW S, NEW x \in Outcomes, token' = Resolve(S, x)
    PROVE  /\ Ops' = Ops
           /\ \A o \in Ops : token'[o] = IF o \in S THEN x ELSE token[o]
  <2> USE <1>ResolvedOps
  <2>1. token \in Seq(Outcomes)
    BY Zenon DEF TypeOK, HandlesTypeOK
  <2>2. token' \in Seq(Outcomes)
    BY Zenon, ResolveType
  <2>3. DOMAIN token' = Ops
    BY Zenon DEF Resolve
  <2>4. Len(token') = Len(token)
    BY <2>1, <2>2, <2>3 DEF Ops
  <2> QED
    BY Zenon, <2>4 DEF Ops, Resolve

\* Only answers complete operations.
<1>NoneCompletes.
    ASSUME TypeOK, o_pub_q0_rx = <<>>,
           Application \/ Send \/ Disconnect \/ incoming_disconnect \/ Connect
    PROVE  CompletedOps' \subseteq CompletedOps
  <2> USE <1>NoneCompletes
  <2>1. ASSUME NEW S, NEW x \in {"detached", "canceled"}, token' = Resolve(S, x)
        PROVE  CompletedOps' \subseteq CompletedOps
    <3>1. x \in Outcomes /\ x # "completed"
      BY Zenon DEF Outcomes
    <3>2. /\ Ops' = Ops
          /\ \A o \in Ops : token'[o] = IF o \in S THEN x ELSE token[o]
      BY Zenon, <2>1, <3>1, <1>ResolvedOps
    <3> QED
      BY Zenon, <3>1, <3>2 DEF CompletedOps
  <2>2. CASE token' = Append(token, "pending")
    <3>1. token \in Seq(Outcomes)
      BY Zenon DEF TypeOK, HandlesTypeOK
    <3>2. ASSUME NEW o \in Ops', token'[o] = "completed"
          PROVE  o \in Ops /\ token[o] = "completed"
      BY <2>2, <3>1, <3>2 DEF Ops
    <3> QED
      BY Zenon, <3>2 DEF CompletedOps
  <2>3. CASE token' = token
    BY Zenon, <2>3 DEF CompletedOps, Ops
  <2>4. "detached" \in {"detached", "canceled"} /\ "canceled" \in {"detached", "canceled"}
    BY Zenon
  <2>5. CASE Application
    BY Zenon, <2>1, <2>2, <2>3, <2>4, <2>5 DEF Application, publish_qos0_call, publish_qos1_call,
       subscription_call, ping_call, reauth_call, continue_reauth_call, Submit, acknowledge,
       disconnect_call, drop_handle, SessionDropped
  <2>6. CASE Send
    <3>1. ~send_publish_qos0
      BY Zenon DEF send_publish_qos0
    <3> QED
      BY Zenon, <2>1, <2>3, <2>4, <2>6, <3>1 DEF Send, send_replayed, send_ready_ack, route_ack,
         SessionDropped, send_disconnect, send_auth, send_ping, send_keep_alive, WritePing,
         send_subscription, send_publish_qos1, flush
  <2>7. CASE Disconnect \/ incoming_disconnect
    BY Zenon, <2>1, <2>4, <2>7, EndsOnce DEF EndConnection
  <2>8. CASE Connect
    BY Zenon, <2>1, <2>3, <2>4, <2>8 DEF Connect, connect
  <2> QED
    BY Zenon, <2>5, <2>6, <2>7, <2>8

\* An answer completes the operation that it answers.
<1>ReceiveCompletes.
    ASSUME SystemInv, PingInv, ClientReceive
    PROVE  CompletedOps' \subseteq CompletedOps \cup processed
  <2> USE <1>ReceiveCompletes
  <2> DEFINE pkt == Head(to_client)
  <2>1. /\ mode = "connected" /\ TypeOK /\ 1 \in DOMAIN to_client /\ to_client[1] = pkt
        /\ WireInv /\ KeysInv
    <3>1. mode = "connected" /\ TypeOK /\ WireInv /\ KeysInv
      BY Zenon, ReceiveCases DEF SystemInv
    <3>2. to_client \in Seq(ReplyType) /\ to_client # <<>>
      BY Zenon DEF SystemInv, SystemTypeOK, ClientReceive
    <3> QED
      BY <3>1, <3>2
  <2>2. \/ Completes(pkt)
        \/ pkt.type = "PINGRESP" /\ incoming_pingresp
        \/ pkt.type = "PUBLISH" /\ incoming_publish_qos1(pkt.pkid)
    BY Zenon, ReceiveCases DEF SystemInv
  <2>3. ASSUME NEW S, S \subseteq processed, token' = Resolve(S, "completed")
        PROVE  CompletedOps' \subseteq CompletedOps \cup processed
    <3>1. "completed" \in Outcomes
      BY Zenon DEF Outcomes
    <3>2. /\ Ops' = Ops
          /\ \A o \in Ops : token'[o] = IF o \in S THEN "completed" ELSE token[o]
      BY Zenon, <2>1, <2>3, <3>1, <1>ResolvedOps
    <3> QED
      BY Zenon, <2>3, <3>2 DEF CompletedOps
  <2>4. CASE Completes(pkt)
    <3> DEFINE A == Awaiting[pkt.type]
    <3>1. /\ pkt.type \in Answers
          /\ token' = Resolve(Overwritten(A, pkt.pkid), "completed")
      BY Zenon, <2>4 DEF Completes
    <3>2. 1 \in AnswersIn(to_client)
      BY Zenon, <2>1, <3>1 DEF AnswersIn
    <3>3. PICK e \in A : e.pkid = pkt.pkid /\ e.op \in processed
      BY Zenon, <2>1, <3>2 DEF WireInv, Wire
    <3>4. OneEach(A)
      <4>1. OneEach(Entries(publish_qos1))
        BY Zenon, <2>1 DEF KeysInv, UniqueKeys, OneEach, Entries
      <4>2. A \in {Entries(publish_qos1), subscribe, unsubscribe}
        <5> HIDE DEF pkt
        <5> QED
          BY Zenon, <3>1 DEF Awaiting
      <4> QED
        BY Zenon, <2>1, <4>1, <4>2 DEF KeysInv
    <3> HIDE DEF A
    <3>5. Overwritten(A, pkt.pkid) \subseteq processed
      BY Zenon, <3>3, <3>4 DEF Overwritten, OneEach
    <3> QED
      BY Zenon, <2>3, <3>1, <3>5
  <2>5. CASE pkt.type = "PINGRESP" /\ incoming_pingresp
    <3>1. pingreq # <<>> /\ Head(pingreq) \in processed \cup {0}
      BY Zenon, <2>5, ReceivePings
    <3>2. {Head(pingreq)} \ {0} \subseteq processed
      BY Zenon, <3>1
    <3>3. token' = Resolve({Head(pingreq)} \ {0}, "completed")
      BY Zenon, <2>5, <3>1 DEF incoming_pingresp
    <3> QED
      BY Zenon, <2>3, <3>2, <3>3
  <2>6. CASE pkt.type = "PUBLISH" /\ incoming_publish_qos1(pkt.pkid)
    <3>1. CASE token' = token
      BY Zenon, <3>1 DEF CompletedOps, Ops
    <3>2. CASE SessionDropped("panic_duplicate_publish")
      <4>1. PICK S : token' = Resolve(S, "detached")
        BY Zenon, <3>2 DEF SessionDropped
      <4>2. "detached" \in Outcomes /\ "detached" # "completed"
        BY Zenon DEF Outcomes
      <4>3. /\ Ops' = Ops
            /\ \A o \in Ops : token'[o] = IF o \in S THEN "detached" ELSE token[o]
        BY Zenon, <2>1, <4>1, <4>2, <1>ResolvedOps
      <4> QED
        BY Zenon, <4>2, <4>3 DEF CompletedOps
    <3> QED
      BY Zenon, <2>6, <3>1, <3>2 DEF incoming_publish_qos1
  <2> QED
    BY Zenon, <2>2, <2>4, <2>5, <2>6
<1>1. TypeOK /\ o_pub_q0_rx = <<>>
  BY Zenon DEF SystemInv, SystemTypeOK
<1>2. processed \subseteq processed'
  BY Zenon DEF SystemNext, ClientLocal, SystemConnect, ClientReceive, ConnectionEnds,
     ServerReceive, ServerPublish, systemVars, serverVars
<1>3. CASE ClientReceive
  BY Zenon, <1>2, <1>3, <1>ReceiveCompletes
<1>4. CASE ClientLocal \/ ConnectionEnds
  BY Zenon, <1>1, <1>2, <1>4, <1>NoneCompletes DEF ClientLocal, ConnectionEnds
<1>5. CASE SystemConnect
  <2>1. PICK sp \in BOOLEAN, e \in Expiries, m \in Methods \cup {NoMethod}, ka \in KeepAlives :
           connect(sp, e, Absent, m, ka)
    BY Zenon, <1>5 DEF SystemConnect
  <2>2. Absent \in Expiries \cup {Absent}
    BY Zenon
  <2>3. Connect
    BY Zenon, <2>1, <2>2 DEF Connect
  <2> QED
    BY Zenon, <1>1, <1>2, <2>3, <1>NoneCompletes
<1>6. CASE \/ ServerReceive \/ \E p \in ServerPkids : ServerPublish(p)
           \/ UNCHANGED systemVars
  <2>1. token' = token
    BY Zenon, <1>6 DEF ServerReceive, ServerPublish, systemVars, sessionVars
  <2>2. CompletedOps' = CompletedOps
    BY Zenon, <2>1 DEF CompletedOps, Ops
  <2> QED
    BY Zenon, <1>2, <2>2
<1> QED
  BY Zenon, <1>3, <1>4, <1>5, <1>6 DEF SystemNext

\* Whatever is lost, repeated or reordered by reconnections, and whatever the
\* identifiers are reused for, a token resolves successfully only for an operation
\* that the server carried out (complete_inflight, incoming_pingresp).
THEOREM CompletedAlwaysProcessed == SystemSpec => []CompletedMeansProcessed
<1> DEFINE Inv == PingInv /\ CompletedOps \subseteq processed
<1>1. SystemInit => Inv
  <2> SUFFICES ASSUME SystemInit PROVE Inv
    BY Zenon
  <2>1. mode = "ready" /\ token = <<>>
    BY Zenon DEF SystemInit, Init
  <2> QED
    BY <2>1 DEF PingInv, CompletedOps, Ops
<1>2. SystemInv /\ SystemInv' /\ Inv /\ [SystemNext]_systemVars => Inv'
  BY Zenon, PingStep, CompletedStep
<1>3. Inv => CompletedMeansProcessed
  BY Zenon DEF CompletedOps, CompletedMeansProcessed
<1> QED
  BY <1>1, <1>2, <1>3, SystemInvariant, PTL DEF SystemSpec

\* The modes of a client that has not panicked.
LEMMA NoPanicStep ==
    ASSUME SystemInv, SystemInv', MessageInv, mode \notin Panics, [SystemNext]_systemVars
    PROVE  mode' \notin Panics
<1>1. "ready" \notin Panics /\ "connected" \notin Panics /\ "gone" \notin Panics
  BY Zenon DEF Panics
<1>2. CASE ClientLocal /\ Application
  BY <1>1, <1>2, ApplicationFrame
<1>3. CASE ClientLocal /\ Send
  BY Zenon, <1>3, SendCases DEF SystemInv, SystemTypeOK
<1>4. CASE SystemConnect
  BY Zenon, <1>1, <1>4 DEF SystemConnect, connect
<1>5. CASE ClientReceive
  BY Zenon, <1>1, <1>5, ReceiveMessages
<1>6. CASE ConnectionEnds
  BY Zenon, <1>1, <1>6, EndsOnce DEF ConnectionEnds, EndConnection
<1>7. CASE ServerReceive \/ (\E p \in ServerPkids : ServerPublish(p)) \/ UNCHANGED systemVars
  BY Zenon, <1>7 DEF ServerReceive, ServerPublish, systemVars, sessionVars
<1> QED
  BY Zenon, <1>2, <1>3, <1>4, <1>5, <1>6, <1>7 DEF SystemNext, ClientLocal

\* The client does not panic and reports no protocol error against a server that
\* answers as MQTT prescribes: complete_inflight finds every identifier that is
\* acknowledged, incoming_pingresp finds a ping, and the assert of
\* incoming_publish_qos1 holds, across reconnections.
THEOREM ServerAlwaysAccepted == SystemSpec => []ConformingServerAccepted
<1> DEFINE NoPanic == mode \notin Panics
<1>1. SystemInit => PingInv /\ NoPanic
  <2> SUFFICES ASSUME SystemInit PROVE PingInv /\ NoPanic
    OBVIOUS
  <2>1. mode = "ready"
    BY Zenon DEF SystemInit, Init
  <2> QED
    BY Zenon, <2>1 DEF PingInv, Panics
<1>2. /\ SystemInv /\ SystemInv' /\ MessageInv /\ PingInv /\ NoPanic /\ [SystemNext]_systemVars
         => PingInv' /\ NoPanic'
  BY Zenon, PingStep, NoPanicStep
<1>3. ASSUME SystemInv, PingInv, NoPanic
      PROVE  ConformingServerAccepted
  <2> SUFFICES ASSUME Reading, to_client # <<>>
               PROVE  LET pkt == Head(to_client)
                      IN /\ pkt.type = "SUBACK" => pkt.pkid \in PkidsOf(subscribe)
                         /\ pkt.type = "UNSUBACK" => pkt.pkid \in PkidsOf(unsubscribe)
                         /\ pkt.type = "PUBACK" => pkt.pkid \in PkidsOf(Entries(publish_qos1))
                         /\ pkt.type = "PINGRESP" => pingreq # <<>>
    BY Zenon, <1>3 DEF ConformingServerAccepted
  <2> DEFINE pkt == Head(to_client)
             q2 == IF pkt.type = "PINGRESP" THEN Tail(pingreq) ELSE pingreq
  <2>1. mode = "connected"
    BY Zenon DEF Reading, NotReady, Polls, Sending
  <2>2. 1 \in DOMAIN to_client /\ to_client[1] = pkt
    BY <1>3 DEF SystemInv, SystemTypeOK
  <2>3. pkt.type = "PINGRESP" => pingreq # <<>>
    <3>1. Pings(sent, received, to_client, processed, pingreq)
      BY Zenon, <1>3, <2>1 DEF PingInv
    <3>2. q2 = IF Head(to_client).type = "PINGRESP" THEN Tail(pingreq) ELSE pingreq
      OBVIOUS
    <3> HIDE DEF q2
    <3> QED
      BY Zenon, <1>3, <3>1, <3>2, TypesOfPings, PingTake
  <2> HIDE DEF pkt
  <2>4. pkt.type \in Answers => pkt.pkid \in PkidsOf(Awaiting[pkt.type])
    <3> SUFFICES ASSUME pkt.type \in Answers PROVE pkt.pkid \in PkidsOf(Awaiting[pkt.type])
      BY Zenon
    <3>1. 1 \in AnswersIn(to_client)
      BY Zenon, <2>2 DEF AnswersIn
    <3>2. \E e \in Awaiting[pkt.type] : e.pkid = pkt.pkid
      BY Zenon, <1>3, <2>1, <2>2, <3>1 DEF SystemInv, WireInv, Wire
    <3> QED
      BY Zenon, <3>2 DEF PkidsOf
  <2>5. /\ "PUBACK" \in Answers /\ "SUBACK" \in Answers /\ "UNSUBACK" \in Answers
    BY DEF Answers
  <2>6. /\ pkt.type = "SUBACK" => pkt.pkid \in PkidsOf(subscribe)
        /\ pkt.type = "UNSUBACK" => pkt.pkid \in PkidsOf(unsubscribe)
        /\ pkt.type = "PUBACK" => pkt.pkid \in PkidsOf(Entries(publish_qos1))
    BY Zenon, <2>4, <2>5, AwaitingOf
  <2> QED
    BY Zenon, <2>3, <2>6 DEF pkt
<1>4. SystemInv /\ PingInv /\ NoPanic => ConformingServerAccepted
  BY Zenon, <1>3
<1> QED
  BY <1>1, <1>2, <1>4, MessageInvariant, PTL DEF SystemSpec
=============================================================================

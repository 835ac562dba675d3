------------------------ MODULE SystemDeliveryProofs ------------------------
(***************************************************************************)
(* The order of the messages that the client publishes, and the fate of    *)
(* those that the server publishes, for every value of the constants.      *)
(*                                                                         *)
(* OrderInv says of the client that what is written, what is to be written *)
(* again and what is queued are in the order of submission, and ArrivalInv *)
(* that what the server has not processed comes after what it has.         *)
(*                                                                         *)
(* MessageInv says where a message of the server is: its PUBLISH is in     *)
(* transit, the client tracks it, or its PUBACK is in transit, and its     *)
(* identifier is at one of these places only (Apart).                      *)
(***************************************************************************)
EXTENDS SystemProofs

USE DEF poolVars, channels, inflight, connection, handles

-----------------------------------------------------------------------------
(***************************************************************************)
(* The order of QoS 1 PUBLISHes.  Operations are numbered as they are      *)
(* submitted: what was written precedes what awaits its replay, and what   *)
(* is in flight precedes what is in the channel.                           *)
(***************************************************************************)
Sorted(Q) == \A i, j \in DOMAIN Q : i < j => Q[i] < Q[j]

Increasing(q) == \A i, j \in DOMAIN q : i < j => q[i].op < q[j].op

PublishesIn(S) == {k \in DOMAIN S : S[k].type = "PUBLISH"}

\* The packets S and the channel Q, when N operations have been submitted.
SentOrder(S, Q, N) ==
    /\ \A k, l \in PublishesIn(S) : k < l => S[k].op < S[l].op
    /\ \A k \in PublishesIn(S) : S[k].op \in 1..N /\ \A o \in Entries(Q) : S[k].op < o

\* The PUBLISHes in flight q and the channel Q.
QueueOrder(q, Q, N) ==
    /\ Increasing(q)
    /\ \A e \in Entries(q) : e.op \in 1..N /\ \A o \in Entries(Q) : e.op < o
    /\ Sorted(Q)
    /\ \A o \in Entries(Q) : o \in 1..N

\* The packets S and the PUBLISHes to replay R.
ReplayOrder(S, R) ==
    /\ Increasing(R)
    /\ \A k \in PublishesIn(S), e \in Entries(R) : S[k].op < e.op

OrderInv ==
    /\ SentOrder(sent, o_pub_q12_rx, Len(token))
    /\ QueueOrder(publish_qos1, o_pub_q12_rx, Len(token))
    /\ mode = "connected" => ReplayOrder(sent, packets_to_replay)

\* A packet that is no PUBLISH does not matter.
LEMMA OtherPacket ==
    ASSUME NEW S \in Seq(PacketType), NEW pkt \in PacketType, pkt.type # "PUBLISH"
    PROVE  /\ PublishesIn(Append(S, pkt)) = PublishesIn(S)
           /\ \A k \in PublishesIn(S) : Append(S, pkt)[k] = S[k]
BY DEF PublishesIn

\* A PUBLISH is the last one.
LEMMA LastPublish ==
    ASSUME NEW S \in Seq(PacketType), NEW pkt \in PacketType
    PROVE  \A k \in PublishesIn(Append(S, pkt)) :
              \/ k \in PublishesIn(S) /\ Append(S, pkt)[k] = S[k] /\ k < Len(S) + 1
              \/ k = Len(S) + 1 /\ Append(S, pkt)[k] = pkt
BY DEF PublishesIn

\* The head of a sequence, and the rest.
LEMMA HeadFirst ==
    ASSUME NEW T, NEW s \in Seq(T), s # <<>>
    PROVE  /\ Head(s) \in Entries(s) /\ Entries(Tail(s)) \subseteq Entries(s)
           /\ Sorted(s) => Sorted(Tail(s)) /\ \A o \in Entries(Tail(s)) : Head(s) < o
           /\ Increasing(s) => /\ Increasing(Tail(s))
                               /\ \A e \in Entries(Tail(s)) : Head(s).op < e.op
<1> DEFINE r == Tail(s)
           h == Head(s)
<1>1. /\ 1 \in DOMAIN s /\ h = s[1]
      /\ \A i \in DOMAIN r : i + 1 \in DOMAIN s /\ 1 < i + 1 /\ r[i] = s[i + 1]
      /\ \A i, j \in DOMAIN r : i < j => i + 1 < j + 1
  OBVIOUS
<1> HIDE DEF r, h
<1>2. h \in Entries(s) /\ Entries(r) \subseteq Entries(s)
  BY Zenon, <1>1 DEF Entries
<1>3. Sorted(s) => Sorted(r) /\ \A o \in Entries(r) : h < o
  BY Zenon, <1>1 DEF Sorted, Entries
<1>4. Increasing(s) => Increasing(r) /\ \A e \in Entries(r) : h.op < e.op
  BY Zenon, <1>1 DEF Increasing, Entries
<1> QED
  BY Zenon, <1>2, <1>3, <1>4 DEF r, h

\* The end of a sequence.
LEMMA LastAppended ==
    ASSUME NEW T, NEW s \in Seq(T), NEW x
    PROVE  /\ Entries(Append(s, x)) = Entries(s) \cup {x}
           /\ Sorted(s) /\ (\A o \in Entries(s) : o < x) => Sorted(Append(s, x))
           /\ Increasing(s) /\ (\A e \in Entries(s) : e.op < x.op) => Increasing(Append(s, x))
<1> DEFINE t == Append(s, x)
           n == Len(s) + 1
<1>1. /\ n \in DOMAIN t /\ t[n] = x
      /\ \A i \in DOMAIN s : i \in DOMAIN t /\ t[i] = s[i]
      /\ \A i \in DOMAIN t : i = n \/ (i \in DOMAIN s /\ t[i] = s[i])
      /\ \A i, j \in DOMAIN t : i < j => i # n
  OBVIOUS
<1> HIDE DEF t, n
<1>2. Entries(t) = Entries(s) \cup {x}
  BY Zenon, <1>1 DEF Entries
<1>3. Sorted(s) /\ (\A o \in Entries(s) : o < x) => Sorted(t)
  BY Zenon, <1>1 DEF Sorted, Entries
<1>4. Increasing(s) /\ (\A e \in Entries(s) : e.op < x.op) => Increasing(t)
  BY Zenon, <1>1 DEF Increasing, Entries
<1> QED
  BY Zenon, <1>2, <1>3, <1>4 DEF t

\* Tokens are only added.
LEMMA TokensGrow ==
    ASSUME TypeOK, TypeOK', [Next]_sessionVars
    PROVE  Len(token) \in Nat /\ Len(token') \in Nat /\ Len(token) <= Len(token')
<1>1. token \in Seq(Outcomes) /\ token' \in Seq(Outcomes)
  BY Zenon DEF TypeOK, HandlesTypeOK
<1>2. Len(token) \in Nat /\ Len(token') \in Nat
  BY <1>1
<1>3. CASE token' = token
  BY <1>2, <1>3
<1>4. CASE token' = Append(token, "pending")
  BY <1>1, <1>4
<1>5. ASSUME NEW S, NEW x, token' = Resolve(S, x)
      PROVE  Len(token') = Len(token)
  <2>1. DOMAIN token' = 1..Len(token)
    BY Zenon, <1>5 DEF Resolve, Ops
  <2> QED
    BY <1>1, <2>1
<1>6. (\E S, x : token' = Resolve(S, x)) => Len(token) <= Len(token')
  BY <1>2, <1>5
<1>7. CASE Application
  BY Zenon, <1>2, <1>3, <1>4, <1>6, <1>7 DEF Application, publish_qos0_call, publish_qos1_call,
     subscription_call, ping_call, reauth_call, continue_reauth_call, Submit, acknowledge,
     disconnect_call, drop_handle, SessionDropped
<1>8. CASE Send
  BY Zenon, <1>2, <1>3, <1>6, <1>8 DEF Send, send_replayed, send_ready_ack, route_ack,
     SessionDropped, send_disconnect, send_auth, send_ping, send_keep_alive, WritePing,
     send_subscription, send_publish_qos0, send_publish_qos1, flush
<1>9. CASE Connect
  BY Zenon, <1>2, <1>3, <1>6, <1>9 DEF Connect, connect
<1>10. CASE Receive
  BY Zenon, <1>2, <1>3, <1>6, <1>10 DEF Receive, incoming_suback, incoming_unsuback,
     incoming_puback, incoming_pubrec, AckMatches, AckUnmatched, protocol_error, EndConnection,
     SessionDropped, incoming_publish_qos1, incoming_publish_qos2, incoming_auth_success,
     incoming_auth_continue, incoming_pingresp, incoming_disconnect, unexpected_packet
<1>11. CASE Disconnect
  BY Zenon, <1>2, <1>6, <1>11 DEF Disconnect, application_disconnect, io_error, ping_timeout,
     EndConnection
<1>12. CASE UNCHANGED sessionVars
  BY Zenon, <1>2, <1>3, <1>12 DEF sessionVars
<1> QED
  BY Zenon, <1>7, <1>8, <1>9, <1>10, <1>11, <1>12 DEF Next

\* What the application submits with QoS 1.
LEMMA ApplicationQueue ==
    ASSUME Application
    PROVE  \/ o_pub_q12_rx' = o_pub_q12_rx
           \/ /\ o_pub_q12_rx' = Append(o_pub_q12_rx, Len(token) + 1)
              /\ token' = Append(token, "pending")
BY Zenon DEF Application, publish_qos0_call, publish_qos1_call, subscription_call, ping_call,
   reauth_call, continue_reauth_call, Submit, NewOp, acknowledge, disconnect_call, drop_handle,
   SessionDropped

\* What a read of the client leaves in flight keeps its order.
LEMMA ReceiveFewer ==
    ASSUME TypeOK, KeysInv, Increasing(publish_qos1), NEW pkt, Completes(pkt)
    PROVE  /\ Entries(publish_qos1') \subseteq Entries(publish_qos1)
           /\ Increasing(publish_qos1')
<1>1. CASE publish_qos1' = publish_qos1
  BY Zenon, <1>1
<1>2. CASE /\ AckMatches(Entries(publish_qos1), pkt.pkid)
           /\ publish_qos1' = ShiftRemove(publish_qos1, pkt.pkid)
  <2> DEFINE q == publish_qos1
             r == ShiftRemove(q, pkt.pkid)
  <2>1. q \in Seq(EntryType) /\ UniqueKeys(q) /\ pkt.pkid \in PkidsOf(Entries(q))
    BY Zenon, <1>2 DEF TypeOK, InflightTypeOK, KeysInv, AckMatches
  <2>2. /\ Entries(r) = {e \in Entries(q) : e.pkid # pkt.pkid}
        /\ \A i, j \in DOMAIN r : i < j =>
              \E k, l \in DOMAIN q : /\ k < l
                                     /\ r[i] = q[k]
                                     /\ r[j] = q[l]
    BY <2>1, ShiftRemoveKey
  <2> HIDE DEF r
  <2>3. Increasing(r)
    <3> SUFFICES ASSUME NEW i \in DOMAIN r, NEW j \in DOMAIN r, i < j
                 PROVE  r[i].op < r[j].op
      BY Zenon DEF Increasing
    <3>1. PICK k \in DOMAIN q, l \in DOMAIN q : k < l /\ r[i] = q[k] /\ r[j] = q[l]
      BY ZenonT(30), <2>2
    <3>2. q[k].op < q[l].op
      BY Zenon, <3>1 DEF Increasing
    <3> QED
      BY Zenon, <3>1, <3>2
  <2>4. Entries(r) \subseteq Entries(q)
    BY Zenon, <2>2
  <2> QED
    BY Zenon, <1>2, <2>3, <2>4 DEF r
<1> QED
  BY Zenon, <1>1, <1>2 DEF Completes

\* Every step of the system keeps the order of the PUBLISHes.
LEMMA OrderStep ==
    ASSUME SystemInv, TypeOK', OrderInv, [SystemNext]_systemVars
    PROVE  OrderInv'

\* What is written without being a PUBLISH keeps the order.
<1>OrderOther.
    ASSUME NEW S \in Seq(PacketType), NEW pkt \in PacketType, pkt.type # "PUBLISH",
           NEW Q, NEW N, NEW R
    PROVE  /\ SentOrder(S, Q, N) => SentOrder(Append(S, pkt), Q, N)
           /\ ReplayOrder(S, R) => ReplayOrder(Append(S, pkt), R)
  <2> USE <1>OrderOther
  <2> DEFINE T == Append(S, pkt)
  <2>1. /\ PublishesIn(T) = PublishesIn(S)
        /\ \A k \in PublishesIn(S) : T[k] = S[k]
    BY Zenon, OtherPacket
  <2> HIDE DEF T
  <2>2. ASSUME SentOrder(S, Q, N)
        PROVE  SentOrder(T, Q, N)
    <3>1. \A k, l \in PublishesIn(T) : k < l => T[k].op < T[l].op
      BY <2>1, <2>2 DEF SentOrder
    <3>2. \A k \in PublishesIn(T) : T[k].op \in 1..N /\ \A o \in Entries(Q) : T[k].op < o
      BY Zenon, <2>1, <2>2 DEF SentOrder
    <3> QED
      BY Zenon, <3>1, <3>2 DEF SentOrder
  <2>3. ReplayOrder(S, R) => ReplayOrder(T, R)
    BY Zenon, <2>1 DEF ReplayOrder
  <2> QED
    BY Zenon, <2>2, <2>3 DEF T

\* A PUBLISH is written that follows all those written before.
<1>OrderPublish.
    ASSUME NEW S \in Seq(PacketType), NEW pkt \in PacketType, NEW N, NEW Q, NEW Q2, NEW R, NEW R2,
           SentOrder(S, Q, N), ReplayOrder(S, R),
           Entries(Q2) \subseteq Entries(Q), Entries(R2) \subseteq Entries(R), Increasing(R2),
           \A k \in PublishesIn(S) : S[k].op < pkt.op,
           pkt.op \in 1..N,
           \A o \in Entries(Q2) : pkt.op < o,
           \A e \in Entries(R2) : pkt.op < e.op
    PROVE  SentOrder(Append(S, pkt), Q2, N) /\ ReplayOrder(Append(S, pkt), R2)
  <2> USE <1>OrderPublish
  <2> DEFINE T == Append(S, pkt)
             n == Len(S) + 1
  <2>1. \A k \in PublishesIn(T) :
                \/ k \in PublishesIn(S) /\ T[k] = S[k] /\ k < n
                \/ k = n /\ T[k] = pkt
    BY Zenon, LastPublish
  <2>2. \A k \in PublishesIn(T) : k \in Nat
    BY DEF PublishesIn
  <2>3. n \in Nat
    OBVIOUS
  <2> HIDE DEF T, n
  <2>4. ASSUME NEW k \in PublishesIn(T), NEW l \in PublishesIn(T), k < l
        PROVE  T[k].op < T[l].op
    <3>1. k \in PublishesIn(S) /\ T[k] = S[k]
      BY <2>1, <2>2, <2>3, <2>4
    <3> QED
      BY Zenon, <2>1, <2>4, <3>1 DEF SentOrder
  <2>5. \A k \in PublishesIn(T) : T[k].op \in 1..N /\ \A o \in Entries(Q2) : T[k].op < o
    BY Zenon, <2>1 DEF SentOrder
  <2>6. \A k \in PublishesIn(T), e \in Entries(R2) : T[k].op < e.op
    BY Zenon, <2>1 DEF ReplayOrder
  <2> QED
    BY Zenon, <2>4, <2>5, <2>6 DEF SentOrder, ReplayOrder, T

\* Operations are submitted.
<1>OrderMore.
    ASSUME NEW S, NEW q, NEW Q, NEW N \in Nat, NEW M \in Nat, N <= M
    PROVE  /\ SentOrder(S, Q, N) => SentOrder(S, Q, M)
           /\ QueueOrder(q, Q, N) => QueueOrder(q, Q, M)
  <2> USE <1>OrderMore
  <2>1. \A n : n \in 1..N => n \in 1..M
    OBVIOUS
  <2> QED
    BY Zenon, <2>1 DEF SentOrder, QueueOrder

\* A PUBLISH that is submitted is later than all in flight or queued.
<1>OrderSubmit.
    ASSUME NEW S, NEW q, NEW Q \in Seq(Nat), NEW N \in Nat, SentOrder(S, Q, N), QueueOrder(q, Q, N)
    PROVE  /\ SentOrder(S, Append(Q, N + 1), N + 1)
           /\ QueueOrder(q, Append(Q, N + 1), N + 1)
  <2> USE <1>OrderSubmit
  <2> DEFINE x == N + 1
             t == Append(Q, x)
  <2>1. \A n : n \in 1..N => n \in 1..x /\ n < x
    OBVIOUS
  <2>2. x \in 1..x
    OBVIOUS
  <2> HIDE DEF x
  <2>3. /\ \A o \in Entries(Q) : o < x
        /\ \A e \in Entries(q) : e.op < x
        /\ \A k \in PublishesIn(S) : S[k].op < x
    BY Zenon, <2>1 DEF SentOrder, QueueOrder
  <2>4. Entries(t) = Entries(Q) \cup {x} /\ Sorted(t)
    BY Zenon, <2>3, LastAppended DEF QueueOrder
  <2> HIDE DEF t
  <2>5. SentOrder(S, t, x)
    BY Zenon, <2>1, <2>3, <2>4 DEF SentOrder
  <2>6. QueueOrder(q, t, x)
    BY Zenon, <2>1, <2>2, <2>3, <2>4 DEF QueueOrder
  <2> QED
    BY Zenon, <2>5, <2>6 DEF t, x

\* Fewer PUBLISHes in flight, in the same order.
<1>QueueFewer.
    ASSUME NEW q, NEW q2, NEW Q, NEW N, QueueOrder(q, Q, N), Entries(q2) \subseteq Entries(q),
           Increasing(q2)
    PROVE  QueueOrder(q2, Q, N)
  BY Zenon, <1>QueueFewer DEF QueueOrder

\* The send loop writes PUBLISHes in order.
<1>SendOrder.
    ASSUME SystemInv, TypeOK', OrderInv, Send
    PROVE  /\ SentOrder(sent', o_pub_q12_rx', Len(token))
           /\ QueueOrder(publish_qos1', o_pub_q12_rx', Len(token))
           /\ ReplayOrder(sent', packets_to_replay')
  <2> USE <1>SendOrder
  <2> DEFINE N == Len(token)
             Q == o_pub_q12_rx
  <2>1. /\ mode = "connected"
        /\ \/ WritesNothing
           \/ \E pkt \in PacketType : WritesOther(pkt)
           \/ \E o \in Nat : WritesPing(o)
           \/ send_replayed
           \/ \E p \in Pkids : send_subscription(p)
           \/ \E p \in Pkids : send_publish_qos1(p)
    BY Zenon, SendCases DEF SystemInv, SystemTypeOK
  <2>2. /\ SentOrder(sent, Q, N) /\ QueueOrder(publish_qos1, Q, N)
        /\ ReplayOrder(sent, packets_to_replay)
    BY Zenon, <2>1 DEF OrderInv
  <2>3. /\ sent \in Seq(PacketType) /\ packets_to_replay \in Seq(EntryType)
        /\ publish_qos1 \in Seq(EntryType) /\ Q \in Seq(Nat \ {0})
    BY Zenon DEF SystemInv, TypeOK, ConnectionTypeOK, InflightTypeOK, ChannelsTypeOK
  <2> HIDE DEF N, Q
  <2>4. ASSUME NEW pkt, sent' = Append(sent, pkt), pkt.type # "PUBLISH",
               UNCHANGED <<o_pub_q12_rx, publish_qos1, packets_to_replay>>
        PROVE  /\ SentOrder(sent', Q', N) /\ QueueOrder(publish_qos1', Q', N)
               /\ ReplayOrder(sent', packets_to_replay')
    <3>1. pkt \in PacketType
      BY Zenon, <2>4, AppendedPacket DEF SystemInv
    <3>2. SentOrder(Append(sent, pkt), Q, N) /\ ReplayOrder(Append(sent, pkt), packets_to_replay)
      BY Zenon, <2>2, <2>3, <2>4, <3>1, <1>OrderOther
    <3>3. Q' = Q
      BY Zenon, <2>4 DEF Q
    <3> QED
      BY Zenon, <2>2, <2>4, <3>2, <3>3
  <2>5. CASE WritesNothing
    <3>1. UNCHANGED <<o_pub_q12_rx, publish_qos1, packets_to_replay, sent>>
      BY Zenon, <2>5 DEF WritesNothing
    <3> QED
      BY Zenon, <2>2, <3>1 DEF Q, N
  <2>6. ASSUME NEW pkt \in PacketType, WritesOther(pkt)
        PROVE  /\ SentOrder(sent', Q', N) /\ QueueOrder(publish_qos1', Q', N)
               /\ ReplayOrder(sent', packets_to_replay')
    <3>1. pkt.type # "PUBLISH"
      BY Zenon, <2>6 DEF WritesOther
    <3> QED
      BY Zenon, <2>4, <2>6, <3>1 DEF WritesOther
  <2>7. ASSUME NEW type, type # "PUBLISH", NEW p, NEW o, NEW dup,
               sent' = Append(sent, Pkt(type, p, o, dup)),
               UNCHANGED <<o_pub_q12_rx, publish_qos1, packets_to_replay>>
        PROVE  /\ SentOrder(sent', Q', N) /\ QueueOrder(publish_qos1', Q', N)
               /\ ReplayOrder(sent', packets_to_replay')
    <3> DEFINE pkt == Pkt(type, p, o, dup)
    <3>1. pkt.type # "PUBLISH"
      BY Zenon, <2>7 DEF Pkt
    <3> HIDE DEF pkt
    <3>2. sent' = Append(sent, pkt)
      BY Zenon, <2>7 DEF pkt
    <3> QED
      BY Zenon, <2>4, <2>7, <3>1, <3>2
  <2>8. "PINGREQ" # "PUBLISH" /\ "SUBSCRIBE" # "PUBLISH" /\ "UNSUBSCRIBE" # "PUBLISH"
    BY Zenon
  <2>9. CASE \E o \in Nat : WritesPing(o)
    BY Zenon, <2>7, <2>8, <2>9 DEF WritesPing, Q, N
  <2>10. CASE \E p \in Pkids : send_subscription(p)
    <3>1. UNCHANGED <<o_pub_q12_rx, publish_qos1, packets_to_replay>>
      BY Zenon, <2>10 DEF send_subscription
    <3>2. \/ \E p, o : sent' = Append(sent, Pkt("SUBSCRIBE", p, o, FALSE))
          \/ \E p, o : sent' = Append(sent, Pkt("UNSUBSCRIBE", p, o, FALSE))
      BY Zenon, <2>10, SubscriptionKeys DEF SystemInv
    <3> QED
      BY Zenon, <2>7, <2>8, <3>1, <3>2 DEF Q, N
  <2>11. CASE send_replayed
    <3> DEFINE R == packets_to_replay
               h == Head(R)
               pkt == Pkt("PUBLISH", h.pkid, h.op, TRUE)
    <3>1. /\ R # <<>> /\ R' = Tail(R) /\ sent' = Append(sent, pkt)
          /\ UNCHANGED <<o_pub_q12_rx, publish_qos1>>
      BY Zenon, <2>11 DEF send_replayed, Write
    <3>2. pkt \in PacketType
      BY Zenon, <3>1, AppendedPacket DEF SystemInv
    <3>3. pkt.op = h.op
      BY Zenon DEF Pkt
    <3>4. /\ h \in Entries(R) /\ Entries(Tail(R)) \subseteq Entries(R)
          /\ Increasing(Tail(R)) /\ \A e \in Entries(Tail(R)) : h.op < e.op
      BY Zenon, <2>2, <2>3, <3>1, HeadFirst DEF ReplayOrder
    <3> HIDE DEF h, pkt
    <3>5. h \in Entries(publish_qos1)
      BY Zenon, <3>4 DEF SystemInv, ReplayInv, Covered
    <3>6. h.op \in 1..N /\ \A o \in Entries(Q) : h.op < o
      BY Zenon, <2>2, <3>5 DEF QueueOrder
    <3>7. \A k \in PublishesIn(sent) : sent[k].op < h.op
      BY Zenon, <2>2, <3>4 DEF ReplayOrder
    <3>8. SentOrder(Append(sent, pkt), Q, N) /\ ReplayOrder(Append(sent, pkt), Tail(R))
      BY Zenon, <2>2, <2>3, <3>2, <3>3, <3>4, <3>6, <3>7, <1>OrderPublish
    <3> QED
      BY Zenon, <2>2, <3>1, <3>8 DEF Q, N
  <2>12. ASSUME NEW p \in Pkids, send_publish_qos1(p)
         PROVE  /\ SentOrder(sent', Q', N) /\ QueueOrder(publish_qos1', Q', N)
                /\ ReplayOrder(sent', packets_to_replay')
    <3> DEFINE o == Head(Q)
               pkt == Pkt("PUBLISH", p, o, FALSE)
               x == Entry(p, o)
    <3>1. /\ packets_to_replay = <<>> /\ packets_to_replay' = <<>>
          /\ Q # <<>> /\ Q' = Tail(Q)
      BY Zenon, <2>12 DEF send_publish_qos1, PollsQoS1, PollsQoS0, PollsSubscriptions, PollsPings,
         PollsAuth, PollsAcks, Polls, Q
    <3>2. sent' = Append(sent, pkt) /\ publish_qos1' = Append(publish_qos1, x)
      BY Zenon, <2>12, PublishKeys DEF SystemInv, Q
    <3>3. pkt \in PacketType
      BY Zenon, <3>2, AppendedPacket DEF SystemInv
    <3>4. pkt.op = o /\ x.op = o
      BY Zenon DEF Pkt, Entry
    <3>5. /\ o \in Entries(Q) /\ Entries(Tail(Q)) \subseteq Entries(Q)
          /\ Sorted(Tail(Q)) /\ \A a \in Entries(Tail(Q)) : o < a
      BY Zenon, <2>2, <2>3, <3>1, HeadFirst DEF QueueOrder
    <3> HIDE DEF o, pkt, x
    <3>6. /\ o \in 1..N
          /\ \A k \in PublishesIn(sent) : sent[k].op < o
          /\ \A e \in Entries(publish_qos1) : e.op < o
      BY Zenon, <2>2, <3>5 DEF SentOrder, QueueOrder
    <3>7. Entries(<<>>) = {} /\ Increasing(<<>>)
      BY DEF Entries, Increasing
    <3>8. SentOrder(Append(sent, pkt), Tail(Q), N) /\ ReplayOrder(Append(sent, pkt), <<>>)
      BY Zenon, <2>2, <2>3, <3>1, <3>3, <3>4, <3>5, <3>6, <3>7, <1>OrderPublish
    <3>9. /\ Entries(Append(publish_qos1, x)) = Entries(publish_qos1) \cup {x}
          /\ Increasing(Append(publish_qos1, x))
      BY Zenon, <2>2, <2>3, <3>4, <3>6, LastAppended DEF QueueOrder
    <3>10. QueueOrder(Append(publish_qos1, x), Tail(Q), N)
      BY Zenon, <2>2, <3>4, <3>5, <3>6, <3>9 DEF QueueOrder
    <3> QED
      BY Zenon, <3>1, <3>2, <3>8, <3>10
  <2> QED
    BY Zenon, <2>1, <2>5, <2>6, <2>9, <2>10, <2>11, <2>12 DEF Q, N
<1> DEFINE N == Len(token)
           M == Len(token')
<1>1. N \in Nat /\ M \in Nat /\ N <= M
  BY Zenon, ClientStep, TokensGrow DEF SystemInv
<1>2. SentOrder(sent, o_pub_q12_rx, N) /\ QueueOrder(publish_qos1, o_pub_q12_rx, N)
  BY Zenon DEF OrderInv
<1> HIDE DEF N, M
<1>3. Entries(<<>>) = {} /\ Increasing(<<>>)
  BY DEF Entries, Increasing
<1>4. ASSUME SentOrder(sent', o_pub_q12_rx', N), QueueOrder(publish_qos1', o_pub_q12_rx', N),
             mode' = "connected" => ReplayOrder(sent', packets_to_replay')
      PROVE  OrderInv'
  <2>1. SentOrder(sent', o_pub_q12_rx', M) /\ QueueOrder(publish_qos1', o_pub_q12_rx', M)
    BY Zenon, <1>1, <1>4, <1>OrderMore
  <2> QED
    BY Zenon, <1>4, <2>1 DEF OrderInv, M
<1>5. CASE ClientLocal /\ Application
  <2>1. /\ UNCHANGED <<publish_qos1, packets_to_replay, sent>>
        /\ mode' = mode \/ mode' = "gone"
    BY Zenon, <1>5, ApplicationFrame
  <2>2. mode' = "connected" => ReplayOrder(sent', packets_to_replay')
    <3>1. mode' = "connected" => mode = "connected"
      BY Zenon, <2>1
    <3> QED
      BY Zenon, <2>1, <3>1 DEF OrderInv
  <2>3. CASE o_pub_q12_rx' = o_pub_q12_rx
    BY Zenon, <1>2, <1>4, <2>1, <2>2, <2>3
  <2>4. CASE /\ o_pub_q12_rx' = Append(o_pub_q12_rx, N + 1)
             /\ token' = Append(token, "pending")
    <3>1. token \in Seq(Outcomes) /\ o_pub_q12_rx \in Seq(Nat)
      <4>1. HandlesTypeOK /\ ChannelsTypeOK
        BY Zenon DEF SystemInv, TypeOK
      <4>2. token \in Seq(Outcomes) /\ o_pub_q12_rx \in Seq(Nat \ {0})
        BY Zenon, <4>1 DEF HandlesTypeOK, ChannelsTypeOK
      <4>3. o_pub_q12_rx \in Seq(Nat)
        BY <4>2
      <4> QED
        BY Zenon, <4>2, <4>3
    <3>2. M = N + 1
      BY <2>4, <3>1 DEF M, N
    <3>3. SentOrder(sent, o_pub_q12_rx', N + 1) /\ QueueOrder(publish_qos1, o_pub_q12_rx', N + 1)
      BY Zenon, <1>1, <1>2, <2>4, <3>1, <1>OrderSubmit
    <3> QED
      BY Zenon, <2>1, <2>2, <3>2, <3>3 DEF OrderInv, M
  <2> QED
    BY Zenon, <1>5, <2>3, <2>4, ApplicationQueue DEF N
<1>6. CASE ClientLocal /\ Send
  BY Zenon, <1>4, <1>6, <1>SendOrder DEF N
<1>7. CASE SystemConnect
  <2>1. PICK sp \in BOOLEAN, e \in Expiries, m \in Methods \cup {NoMethod}, ka \in KeepAlives :
           connect(sp, e, Absent, m, ka)
    BY Zenon, <1>7 DEF SystemConnect
  <2>2. sent' = <<>> /\ o_pub_q12_rx' = o_pub_q12_rx
    BY Zenon, <2>1 DEF connect
  <2>3. PublishesIn(<<>>) = {}
    BY DEF PublishesIn
  <2>4. SentOrder(sent', o_pub_q12_rx', N)
    BY Zenon, <2>2, <2>3 DEF SentOrder
  <2>5. \/ publish_qos1' = publish_qos1 /\ packets_to_replay' = publish_qos1
        \/ publish_qos1' = <<>> /\ packets_to_replay' = <<>>
    BY Zenon, <2>1 DEF connect, SystemInv, RestInv
  <2>6. /\ Entries(publish_qos1') \subseteq Entries(publish_qos1)
        /\ Increasing(publish_qos1') /\ Increasing(packets_to_replay')
    BY Zenon, <1>2, <1>3, <2>5 DEF QueueOrder
  <2>7. QueueOrder(publish_qos1', o_pub_q12_rx', N)
    BY Zenon, <1>2, <2>2, <2>6, <1>QueueFewer
  <2>8. ReplayOrder(sent', packets_to_replay')
    BY Zenon, <2>2, <2>3, <2>6 DEF ReplayOrder
  <2> QED
    BY Zenon, <1>4, <2>4, <2>7, <2>8
<1>8. CASE ClientReceive
  <2>1. /\ UNCHANGED <<packets_to_replay, sent, o_pub_q12_rx>>
        /\ Completes(Head(to_client)) \/ UNCHANGED KeysVars
        /\ mode = "connected"
    BY Zenon, <1>8, ReceiveFrame, ReceiveCases DEF SystemInv
  <2>2. Increasing(publish_qos1)
    BY Zenon, <1>2 DEF QueueOrder
  <2>3. Entries(publish_qos1') \subseteq Entries(publish_qos1) /\ Increasing(publish_qos1')
    <3>1. CASE UNCHANGED KeysVars
      BY Zenon, <2>2, <3>1 DEF KeysVars
    <3> QED
      BY Zenon, <2>1, <2>2, <3>1, ReceiveFewer DEF SystemInv
  <2>4. QueueOrder(publish_qos1', o_pub_q12_rx', N)
    BY Zenon, <1>2, <2>1, <2>3, <1>QueueFewer
  <2> QED
    BY Zenon, <1>2, <1>4, <2>1, <2>4 DEF OrderInv
<1>9. CASE ConnectionEnds
  <2>1. PICK e : EndConnection(e, {})
    BY Zenon, <1>9, EndsOnce DEF ConnectionEnds
  <2>2. /\ mode' = "ready" /\ publish_qos1' \in {<<>>, publish_qos1} /\ sent' = sent
        /\ o_pub_q12_rx' = o_pub_q12_rx
    BY Zenon, <2>1, EndConnectionKeys DEF SystemInv, EndConnection
  <2>3. Entries(publish_qos1') \subseteq Entries(publish_qos1) /\ Increasing(publish_qos1')
    BY Zenon, <1>2, <1>3, <2>2 DEF QueueOrder
  <2>4. QueueOrder(publish_qos1', o_pub_q12_rx', N)
    BY Zenon, <1>2, <2>2, <2>3, <1>QueueFewer
  <2>5. mode' # "connected"
    BY Zenon, <2>2
  <2> QED
    BY Zenon, <1>2, <1>4, <2>2, <2>4, <2>5
<1>10. CASE \/ ServerReceive \/ \E p \in ServerPkids : ServerPublish(p)
            \/ UNCHANGED systemVars
  <2>1. UNCHANGED <<sent, o_pub_q12_rx, publish_qos1, packets_to_replay, mode>>
    BY Zenon, <1>10 DEF ServerReceive, ServerPublish, systemVars, sessionVars
  <2> QED
    BY Zenon, <1>2, <1>4, <2>1 DEF OrderInv
<1> QED
  BY Zenon, <1>5, <1>6, <1>7, <1>8, <1>9, <1>10 DEF SystemNext, ClientLocal

\* The order holds initially.
LEMMA OrderInit == SystemInit => OrderInv
<1> SUFFICES ASSUME SystemInit PROVE OrderInv
  BY Zenon
<1>1. /\ sent = <<>> /\ o_pub_q12_rx = <<>> /\ publish_qos1 = <<>> /\ mode = "ready"
  BY Zenon DEF SystemInit, Init
<1> QED
  BY <1>1 DEF OrderInv, SentOrder, QueueOrder, PublishesIn, Increasing, Sorted, Entries

\* Replays, reconnections and the completion of operations in any order never let
\* a QoS 1 PUBLISH overtake one that was submitted before it (to_replay keeps the
\* order of publish_qos1, and shift_remove does not disturb it).
THEOREM PublishesAlwaysInOrder == SystemSpec => []PublishesInOrder
<1>1. SystemInv /\ SystemInv' /\ OrderInv /\ [SystemNext]_systemVars => OrderInv'
  BY Zenon, OrderStep DEF SystemInv
<1>2. OrderInv => PublishesInOrder
  BY Zenon DEF OrderInv, SentOrder, PublishesIn, PublishesInOrder
<1> QED
  BY <1>1, <1>2, OrderInit, SystemInvariant, PTL DEF SystemSpec

-----------------------------------------------------------------------------
(***************************************************************************)
(* First arrivals.  What the server has not processed yet is later than    *)
(* everything that has arrived.                                            *)
(***************************************************************************)
PublishOps(S) == {S[k].op : k \in PublishesIn(S)}

\* The operations that are written, in flight or in the channel.
PendingOps ==
    PublishOps(sent) \cup OpsOf(Entries(publish_qos1)) \cup Entries(o_pub_q12_rx)

\* What is in flight was written on the last connection, or comes after all that was.
WrittenOrLater(S, q) ==
    \A e \in Entries(q) : e.op \in PublishOps(S) \/ \A k \in PublishesIn(S) : S[k].op < e.op

ArrivalInv ==
    /\ \A k \in PublishesIn(sent) : k <= received => sent[k].op \in processed
    /\ WrittenOrLater(sent, publish_qos1)
    /\ \A o \in PendingOps, a \in Entries(arrivals) : o \in processed \/ a < o
    /\ \A a \in Entries(arrivals) : a \in 1..Len(token)
    /\ Sorted(arrivals)

\* Every step of the system keeps the order of the arrivals.
LEMMA ArrivalStep ==
    ASSUME SystemInv, SystemInv', OrderInv, OrderInv', ArrivalInv, [SystemNext]_systemVars
    PROVE  ArrivalInv'

\* A packet that is written adds its operation, if it is a PUBLISH.
<1>WrittenOps.
    ASSUME NEW S \in Seq(PacketType), NEW pkt \in PacketType
    PROVE  /\ PublishOps(Append(S, pkt)) \subseteq PublishOps(S) \cup {pkt.op}
           /\ pkt.type # "PUBLISH" => PublishOps(Append(S, pkt)) = PublishOps(S)
           /\ \A r \in 0..Len(S) : \A k \in PublishesIn(Append(S, pkt)) :
                 k <= r => k \in PublishesIn(S) /\ Append(S, pkt)[k] = S[k]
  <2> USE <1>WrittenOps
  <2> DEFINE T == Append(S, pkt)
             n == Len(S) + 1
  <2>1. \A k \in PublishesIn(T) :
                \/ k \in PublishesIn(S) /\ T[k] = S[k] /\ k < n
                \/ k = n /\ T[k] = pkt
    BY Zenon, LastPublish
  <2>2. pkt.type # "PUBLISH" => /\ PublishesIn(T) = PublishesIn(S)
                                /\ \A k \in PublishesIn(S) : T[k] = S[k]
    BY Zenon, OtherPacket
  <2>3. \A r \in 0..Len(S) : ~(n <= r)
    OBVIOUS
  <2> HIDE DEF T, n
  <2>4. PublishOps(T) \subseteq PublishOps(S) \cup {pkt.op}
    BY Zenon, <2>1 DEF PublishOps
  <2>5. pkt.type # "PUBLISH" => PublishOps(T) = PublishOps(S)
    BY Zenon, <2>2 DEF PublishOps
  <2>6. \A r \in 0..Len(S) : \A k \in PublishesIn(T) : k <= r => k \in PublishesIn(S) /\ T[k] = S[k]
    BY Zenon, <2>1, <2>3
  <2> QED
    BY Zenon, <2>4, <2>5, <2>6 DEF T

\* The send loop writes what was pending.
<1>SendPending.
    ASSUME SystemInv, TypeOK', Send
    PROVE  /\ mode' = "connected"
           /\ PendingOps' \subseteq PendingOps
           /\ \A k \in PublishesIn(sent') :
                 k <= received => k \in PublishesIn(sent) /\ sent'[k] = sent[k]
  <2> USE <1>SendPending
  <2>1. /\ mode' = "connected"
        /\ \/ WritesNothing
           \/ \E pkt \in PacketType : WritesOther(pkt)
           \/ \E o \in Nat : WritesPing(o)
           \/ send_replayed
           \/ \E p \in Pkids : send_subscription(p)
           \/ \E p \in Pkids : send_publish_qos1(p)
    BY Zenon, SendCases DEF SystemInv, SystemTypeOK
  <2>2. /\ sent \in Seq(PacketType) /\ received \in 0..Len(sent)
        /\ packets_to_replay \in Seq(EntryType) /\ o_pub_q12_rx \in Seq(Nat \ {0})
    BY Zenon DEF SystemInv, SystemTypeOK, TypeOK, ConnectionTypeOK, InflightTypeOK, ChannelsTypeOK
  <2>3. ASSUME NEW pkt, sent' = Append(sent, pkt)
        PROVE  /\ pkt \in PacketType
               /\ PublishOps(sent') \subseteq PublishOps(sent) \cup {pkt.op}
               /\ pkt.type # "PUBLISH" => PublishOps(sent') = PublishOps(sent)
               /\ \A k \in PublishesIn(sent') :
                     k <= received => k \in PublishesIn(sent) /\ sent'[k] = sent[k]
    <3>1. pkt \in PacketType
      BY Zenon, <2>3, AppendedPacket DEF SystemInv
    <3> QED
      BY Zenon, <2>2, <2>3, <3>1, <1>WrittenOps
  <2>4. CASE WritesNothing
    <3>1. UNCHANGED <<o_pub_q12_rx, publish_qos1, sent>>
      BY Zenon, <2>4 DEF WritesNothing
    <3> QED
      BY Zenon, <2>1, <3>1 DEF PendingOps
  <2>5. ASSUME NEW pkt, sent' = Append(sent, pkt), pkt.type # "PUBLISH",
               UNCHANGED <<o_pub_q12_rx, publish_qos1>>
        PROVE  /\ PendingOps' \subseteq PendingOps
               /\ \A k \in PublishesIn(sent') :
                     k <= received => k \in PublishesIn(sent) /\ sent'[k] = sent[k]
    BY Zenon, <2>3, <2>5 DEF PendingOps
  <2>6. CASE \E pkt \in PacketType : WritesOther(pkt)
    <3>1. PICK pkt \in PacketType : WritesOther(pkt)
      BY Zenon, <2>6
    <3>2. pkt.type # "PUBLISH"
      BY Zenon, <3>1 DEF WritesOther
    <3> QED
      BY Zenon, <2>1, <2>5, <3>1, <3>2 DEF WritesOther
  <2>7. CASE (\E o \in Nat : WritesPing(o)) \/ (\E p \in Pkids : send_subscription(p))
    <3>0. PICK type \in {"PINGREQ", "SUBSCRIBE", "UNSUBSCRIBE"} :
             \E p, o : sent' = Append(sent, Pkt(type, p, o, FALSE))
      BY Zenon, <2>7, SubscriptionKeys DEF WritesPing, SystemInv
    <3>1. PICK p, o : sent' = Append(sent, Pkt(type, p, o, FALSE))
      BY Zenon, <3>0
    <3>2. Pkt(type, p, o, FALSE).type # "PUBLISH"
      BY Zenon DEF Pkt
    <3>3. UNCHANGED <<o_pub_q12_rx, publish_qos1>>
      BY Zenon, <2>7 DEF WritesPing, send_subscription
    <3> QED
      BY Zenon, <2>1, <2>5, <3>1, <3>2, <3>3
  <2>8. CASE send_replayed
    <3> DEFINE h == Head(packets_to_replay)
               pkt == Pkt("PUBLISH", h.pkid, h.op, TRUE)
    <3>1. /\ packets_to_replay # <<>> /\ sent' = Append(sent, pkt)
          /\ UNCHANGED <<o_pub_q12_rx, publish_qos1>>
      BY Zenon, <2>8 DEF send_replayed, Write
    <3>2. h \in Entries(packets_to_replay)
      BY Zenon, <2>2, <3>1, HeadFirst
    <3>3. pkt.op = h.op
      BY Zenon DEF Pkt
    <3> HIDE DEF h, pkt
    <3>4. h \in Entries(publish_qos1)
      BY Zenon, <3>2 DEF SystemInv, ReplayInv, Covered
    <3>5. pkt.op \in PendingOps
      BY Zenon, <3>3, <3>4 DEF PendingOps, OpsOf
    <3> QED
      BY Zenon, <2>1, <2>3, <3>1, <3>5 DEF PendingOps
  <2>9. ASSUME NEW p \in Pkids, send_publish_qos1(p)
        PROVE  /\ PendingOps' \subseteq PendingOps
               /\ \A k \in PublishesIn(sent') :
                     k <= received => k \in PublishesIn(sent) /\ sent'[k] = sent[k]
    <3> DEFINE o == Head(o_pub_q12_rx)
               pkt == Pkt("PUBLISH", p, o, FALSE)
               x == Entry(p, o)
    <3>1. o_pub_q12_rx # <<>> /\ o_pub_q12_rx' = Tail(o_pub_q12_rx)
      BY Zenon, <2>9 DEF send_publish_qos1
    <3>2. /\ sent' = Append(sent, pkt)
          /\ Entries(publish_qos1') = Entries(publish_qos1) \cup {x}
      BY Zenon, <2>9, PublishKeys DEF SystemInv
    <3>3. pkt.op = o /\ x.op = o
      BY Zenon DEF Pkt, Entry
    <3>4. o \in Entries(o_pub_q12_rx) /\ Entries(o_pub_q12_rx') \subseteq Entries(o_pub_q12_rx)
      BY Zenon, <2>2, <3>1, HeadFirst
    <3> HIDE DEF o, pkt, x
    <3>5. OpsOf(Entries(publish_qos1')) \subseteq OpsOf(Entries(publish_qos1)) \cup {o}
      BY Zenon, <3>2, <3>3 DEF OpsOf
    <3>6. PublishOps(sent') \subseteq PublishOps(sent) \cup {o}
      BY Zenon, <2>3, <3>2, <3>3
    <3>7. PendingOps' \subseteq PendingOps
      BY Zenon, <3>4, <3>5, <3>6 DEF PendingOps
    <3> QED
      BY Zenon, <2>3, <3>2, <3>7
  <2> QED
    BY Zenon, <2>1, <2>4, <2>6, <2>7, <2>8, <2>9

\* Everything but the server leaves the arrivals alone: what is pending was pending
\* before, or it was submitted last.
<1>ClientArrivals.
    ASSUME SystemInv, SystemInv', OrderInv, OrderInv', ArrivalInv, [Next]_sessionVars,
           UNCHANGED <<processed, arrivals>>,
           \A o \in PendingOps' : o \in PendingOps \/ o = Len(token) + 1,
           \A k \in PublishesIn(sent') : k <= received' =>
               k \in PublishesIn(sent) /\ sent'[k] = sent[k] /\ k <= received,
           mode' # "connected" => /\ sent' = sent
                                  /\ Entries(publish_qos1') \subseteq Entries(publish_qos1)
    PROVE  ArrivalInv'
  <2> USE <1>ClientArrivals
  <2>1. Len(token) \in Nat /\ Len(token') \in Nat /\ Len(token) <= Len(token')
    BY Zenon, TokensGrow DEF SystemInv
  <2>2. \A k \in PublishesIn(sent') : k <= received' => sent'[k].op \in processed'
    BY Zenon DEF ArrivalInv
  <2>3. WrittenOrLater(sent', publish_qos1')
    <3>1. CASE mode' = "connected"
      <4>1. ReplayOrder(sent', packets_to_replay')
        BY Zenon, <3>1 DEF OrderInv
      <4>2. \A e \in Entries(publish_qos1') :
               e \in Entries(packets_to_replay') \/ WrittenEntry(e)'
        BY Zenon, <3>1 DEF SystemInv, ReplayInv, Covered
      <4>3. ASSUME NEW e, WrittenEntry(e)'
            PROVE  e.op \in PublishOps(sent')
        BY Zenon, <4>3 DEF WrittenEntry, PublishOps, PublishesIn
      <4> QED
        BY Zenon, <4>1, <4>2, <4>3 DEF WrittenOrLater, ReplayOrder
    <3>2. CASE mode' # "connected"
      BY Zenon, <3>2 DEF ArrivalInv, WrittenOrLater
    <3> QED
      BY Zenon, <3>1, <3>2
  <2>4. \A a \in Entries(arrivals) : a \in 1..Len(token') /\ a < Len(token) + 1
    BY <2>1 DEF ArrivalInv
  <2>5. \A o \in PendingOps', a \in Entries(arrivals) : o \in processed \/ a < o
    BY Zenon, <2>4 DEF ArrivalInv
  <2> QED
    BY Zenon, <2>2, <2>3, <2>4, <2>5 DEF ArrivalInv

\* The server takes the next packet of the connection.
<1>ServerArrivals.
    ASSUME SystemInv, OrderInv, ArrivalInv, ServerReceive
    PROVE  ArrivalInv'
  <2> USE <1>ServerArrivals
  <2> DEFINE k0 == received + 1
             pkt == sent[k0]
  <2>1. /\ sent \in Seq(PacketType) /\ received \in Nat /\ received < Len(sent)
        /\ arrivals \in Seq(Nat)
    BY DEF SystemInv, SystemTypeOK, TypeOK, ConnectionTypeOK, ServerReceive
  <2>2. /\ k0 \in DOMAIN sent /\ pkt \in PacketType
        /\ \A k \in DOMAIN sent : k <= k0 => k <= received \/ k = k0
        /\ \A k \in DOMAIN sent : k <= received \/ k = k0 \/ k0 < k
    BY <2>1
  <2>3. /\ UNCHANGED <<sent, publish_qos1, o_pub_q12_rx, token>> /\ received' = k0
        /\ processed' = processed \cup (IF pkt.type = "PUBACK" THEN {} ELSE {pkt.op} \ {0})
        /\ arrivals' = IF pkt.type = "PUBLISH" /\ pkt.op \notin processed
                       THEN Append(arrivals, pkt.op) ELSE arrivals
    BY Zenon DEF ServerReceive, sessionVars
  <2> HIDE DEF k0
  <2>4. UNCHANGED PendingOps
    BY Zenon, <2>3 DEF PendingOps
  <2>5. pkt.type = "PUBLISH" => k0 \in PublishesIn(sent)
    BY Zenon, <2>2 DEF PublishesIn
  <2>6. ASSUME pkt.type = "PUBLISH"
        PROVE  pkt.op \in 1..Len(token) /\ processed' = processed \cup {pkt.op}
    <3>1. pkt.op \in 1..Len(token)
      BY Zenon, <2>5, <2>6 DEF OrderInv, SentOrder
    <3> HIDE DEF pkt
    <3>2. pkt.op # 0 /\ pkt.type # "PUBACK"
      BY <2>6, <3>1
    <3>3. processed' = processed \cup {pkt.op}
      BY Zenon, <2>3, <3>2
    <3> QED
      BY Zenon, <3>1, <3>3
  <2>7. processed \subseteq processed'
    BY Zenon, <2>3
  <2>8. \A k \in PublishesIn(sent') : k <= received' => sent'[k].op \in processed'
    <3> SUFFICES ASSUME NEW k \in PublishesIn(sent), k <= k0
                 PROVE  sent[k].op \in processed'
      BY Zenon, <2>3
    <3>1. k \in DOMAIN sent /\ sent[k].type = "PUBLISH"
      BY Zenon DEF PublishesIn
    <3>2. CASE k <= received
      BY Zenon, <2>7, <3>2 DEF ArrivalInv
    <3>3. CASE k = k0
      BY Zenon, <2>6, <3>1, <3>3
    <3> QED
      BY Zenon, <2>2, <3>1, <3>2, <3>3
  <2>9. WrittenOrLater(sent', publish_qos1')
    BY Zenon, <2>3 DEF ArrivalInv
  <2>10. CASE pkt.type = "PUBLISH" /\ pkt.op \notin processed
    <3>1. arrivals' = Append(arrivals, pkt.op)
      BY Zenon, <2>3, <2>10
    <3>2. pkt.op \in PendingOps
      BY Zenon, <2>5, <2>10 DEF PendingOps, PublishOps
    <3>3. \A a \in Entries(arrivals) : a < pkt.op
      BY Zenon, <2>10, <3>2 DEF ArrivalInv
    <3>4. /\ Entries(arrivals') = Entries(arrivals) \cup {pkt.op}
          /\ Sorted(arrivals')
      BY Zenon, <2>1, <3>1, <3>3, LastAppended DEF ArrivalInv
    <3>5. ASSUME NEW x \in PublishOps(sent), x \notin processed'
          PROVE  pkt.op < x
      <4>1. PICK k \in PublishesIn(sent) : x = sent[k].op
        BY Zenon, <3>5 DEF PublishOps
      <4>2. k \in DOMAIN sent
        BY Zenon, <4>1 DEF PublishesIn
      <4>3. ~(k <= received)
        BY Zenon, <2>7, <3>5, <4>1 DEF ArrivalInv
      <4>4. k # k0
        BY Zenon, <2>6, <2>10, <3>5, <4>1
      <4>5. k0 < k
        BY Zenon, <2>2, <4>2, <4>3, <4>4
      <4> QED
        BY Zenon, <2>5, <2>10, <4>1, <4>5 DEF OrderInv, SentOrder
    <3>6. ASSUME NEW x \in OpsOf(Entries(publish_qos1)), x \notin processed'
          PROVE  pkt.op < x
      BY Zenon, <2>5, <2>10, <3>5, <3>6 DEF ArrivalInv, WrittenOrLater, OpsOf
    <3>7. \A x \in Entries(o_pub_q12_rx) : pkt.op < x
      BY Zenon, <2>5, <2>10 DEF OrderInv, SentOrder
    <3>8. \A x \in PendingOps : x \in processed' \/ pkt.op < x
      BY Zenon, <3>5, <3>6, <3>7 DEF PendingOps
    <3>9. \A x \in PendingOps', a \in Entries(arrivals') : x \in processed' \/ a < x
      BY Zenon, <2>4, <2>7, <3>4, <3>8 DEF ArrivalInv
    <3>10. \A a \in Entries(arrivals') : a \in 1..Len(token')
      BY Zenon, <2>3, <2>6, <2>10, <3>4 DEF ArrivalInv
    <3> QED
      BY Zenon, <2>8, <2>9, <3>4, <3>9, <3>10 DEF ArrivalInv
  <2>11. CASE ~(pkt.type = "PUBLISH" /\ pkt.op \notin processed)
    <3>1. arrivals' = arrivals
      BY Zenon, <2>3, <2>11
    <3>2. \A x \in PendingOps', a \in Entries(arrivals') : x \in processed' \/ a < x
      BY Zenon, <2>4, <2>7, <3>1 DEF ArrivalInv
    <3> QED
      BY Zenon, <2>3, <2>8, <2>9, <3>1, <3>2 DEF ArrivalInv
  <2> QED
    BY Zenon, <2>10, <2>11
<1>1. [Next]_sessionVars
  BY Zenon, ClientStep DEF SystemInv
<1>2. ASSUME UNCHANGED <<processed, arrivals, sent, received>>,
             PublishOps(sent') = PublishOps(sent),
             Entries(publish_qos1') \subseteq Entries(publish_qos1),
             \A o \in Entries(o_pub_q12_rx') : o \in Entries(o_pub_q12_rx) \/ o = Len(token) + 1
      PROVE  ArrivalInv'
  <2>1. \A o \in PendingOps' : o \in PendingOps \/ o = Len(token) + 1
    BY Zenon, <1>2 DEF PendingOps, OpsOf
  <2>2. \A k \in PublishesIn(sent') : k <= received' =>
               k \in PublishesIn(sent) /\ sent'[k] = sent[k] /\ k <= received
    BY Zenon, <1>2
  <2> QED
    BY Zenon, <1>1, <1>2, <2>1, <2>2, <1>ClientArrivals
<1>3. CASE ClientLocal /\ Application
  <2>1. UNCHANGED <<sent, publish_qos1, processed, arrivals, received>>
    BY Zenon, <1>3, ApplicationFrame DEF ClientLocal, serverVars
  <2>2. CASE o_pub_q12_rx' = o_pub_q12_rx
    BY Zenon, <1>2, <2>1, <2>2
  <2>3. CASE o_pub_q12_rx' = Append(o_pub_q12_rx, Len(token) + 1)
    <3>1. o_pub_q12_rx \in Seq(Nat \ {0})
      BY Zenon DEF SystemInv, TypeOK, ChannelsTypeOK
    <3>2. Entries(o_pub_q12_rx') = Entries(o_pub_q12_rx) \cup {Len(token) + 1}
      BY Zenon, <2>3, <3>1, LastAppended
    <3> QED
      BY Zenon, <1>2, <2>1, <3>2
  <2> QED
    BY Zenon, <1>3, <2>2, <2>3, ApplicationQueue
<1>4. CASE ClientLocal /\ Send
  <2>1. UNCHANGED <<processed, arrivals, received>>
    BY Zenon, <1>4 DEF ClientLocal, serverVars
  <2>2. /\ mode' = "connected" /\ PendingOps' \subseteq PendingOps
        /\ \A k \in PublishesIn(sent') :
              k <= received => k \in PublishesIn(sent) /\ sent'[k] = sent[k]
    BY Zenon, <1>4, <1>SendPending DEF SystemInv
  <2> QED
    BY Zenon, <1>1, <2>1, <2>2, <1>ClientArrivals
<1>5. CASE SystemConnect
  <2>1. PICK sp \in BOOLEAN, e \in Expiries, m \in Methods \cup {NoMethod}, ka \in KeepAlives :
           connect(sp, e, Absent, m, ka)
    BY Zenon, <1>5 DEF SystemConnect
  <2>2. sent' = <<>> /\ o_pub_q12_rx' = o_pub_q12_rx /\ mode' = "connected"
    BY Zenon, <2>1 DEF connect
  <2>3. UNCHANGED <<processed, arrivals>>
    BY Zenon, <1>5 DEF SystemConnect
  <2>4. PublishesIn(<<>>) = {} /\ Entries(<<>>) = {}
    BY DEF PublishesIn, Entries
  <2>5. PublishOps(sent') = {}
    BY Zenon, <2>2, <2>4 DEF PublishOps
  <2>6. Entries(publish_qos1') \subseteq Entries(publish_qos1)
    BY Zenon, <2>1, <2>4 DEF connect
  <2>7. \A o \in PendingOps' : o \in PendingOps \/ o = Len(token) + 1
    BY Zenon, <2>2, <2>5, <2>6 DEF PendingOps, OpsOf
  <2>8. \A k \in PublishesIn(sent') : k <= received' =>
               k \in PublishesIn(sent) /\ sent'[k] = sent[k] /\ k <= received
    BY Zenon, <2>2, <2>4
  <2> QED
    BY Zenon, <1>1, <2>2, <2>3, <2>7, <2>8, <1>ClientArrivals
<1>6. CASE ClientReceive
  <2>1. /\ UNCHANGED <<sent, o_pub_q12_rx, received, processed, arrivals>>
        /\ Completes(Head(to_client)) \/ UNCHANGED KeysVars
    BY Zenon, <1>6, ReceiveFrame DEF SystemInv
  <2>2. Entries(publish_qos1') \subseteq Entries(publish_qos1)
    <3>1. CASE UNCHANGED KeysVars
      BY Zenon, <3>1 DEF KeysVars
    <3>2. Increasing(publish_qos1)
      BY Zenon DEF OrderInv, QueueOrder
    <3> QED
      BY Zenon, <2>1, <3>1, <3>2, ReceiveFewer DEF SystemInv
  <2> QED
    BY Zenon, <1>2, <2>1, <2>2
<1>7. CASE ConnectionEnds
  <2>1. PICK e : EndConnection(e, {})
    BY Zenon, <1>7, EndsOnce DEF ConnectionEnds
  <2>2. /\ publish_qos1' \in {<<>>, publish_qos1} /\ sent' = sent
        /\ o_pub_q12_rx' = o_pub_q12_rx
    BY Zenon, <2>1, EndConnectionKeys DEF SystemInv, EndConnection
  <2>3. UNCHANGED <<received, processed, arrivals>>
    BY Zenon, <1>7 DEF ConnectionEnds
  <2>4. Entries(<<>>) = {}
    BY DEF Entries
  <2>5. Entries(publish_qos1') \subseteq Entries(publish_qos1)
    BY Zenon, <2>2, <2>4
  <2> QED
    BY Zenon, <1>2, <2>2, <2>3, <2>5
<1>8. CASE ServerReceive
  BY Zenon, <1>8, <1>ServerArrivals
<1>9. CASE (\E p \in ServerPkids : ServerPublish(p)) \/ UNCHANGED systemVars
  <2>1. UNCHANGED <<sent, publish_qos1, o_pub_q12_rx, received, processed, arrivals>>
    BY Zenon, <1>9 DEF ServerPublish, systemVars, sessionVars, serverVars
  <2> QED
    BY Zenon, <1>2, <2>1
<1> QED
  BY Zenon, <1>3, <1>4, <1>5, <1>6, <1>7, <1>8, <1>9 DEF SystemNext, ClientLocal

\* Whatever connections lose, and however often a PUBLISH is replayed, the server
\* first hears of the QoS 1 messages in the order in which the application
\* published them (to_replay, next_outgoing_request).
THEOREM FirstArrivalsAlwaysInOrder == SystemSpec => []FirstArrivalsInOrder
<1> DEFINE Inv == OrderInv /\ ArrivalInv
<1>1. SystemInit => Inv
  <2> SUFFICES ASSUME SystemInit PROVE Inv
    BY Zenon
  <2>1. sent = <<>> /\ publish_qos1 = <<>> /\ arrivals = <<>>
    BY Zenon DEF SystemInit, Init
  <2>2. PublishesIn(<<>>) = {} /\ Entries(<<>>) = {} /\ Sorted(<<>>)
    BY DEF PublishesIn, Entries, Sorted
  <2>3. ArrivalInv
    BY Zenon, <2>1, <2>2 DEF ArrivalInv, WrittenOrLater
  <2> QED
    BY Zenon, <2>3, OrderInit
<1>2. SystemInv /\ SystemInv' /\ Inv /\ [SystemNext]_systemVars => Inv'
  <2> SUFFICES ASSUME SystemInv, SystemInv', Inv, [SystemNext]_systemVars PROVE Inv'
    BY Zenon
  <2>1. OrderInv'
    BY Zenon, OrderStep DEF SystemInv
  <2> QED
    BY Zenon, <2>1, ArrivalStep
<1>3. Inv => FirstArrivalsInOrder
  BY Zenon DEF ArrivalInv, Sorted, FirstArrivalsInOrder
<1> QED
  BY <1>1, <1>2, <1>3, SystemInvariant, PTL DEF SystemSpec

-----------------------------------------------------------------------------
(***************************************************************************)
(* The messages that the server publishes.  A message in flight is in one  *)
(* place: its PUBLISH is in transit, the client tracks it, or its PUBACK is *)
(* in transit.                                                             *)
(***************************************************************************)
Msg(p, m) == [pkid |-> p, msg |-> m]

PubAcksIn(S, r) == {k \in DOMAIN S : k > r /\ S[k].type = "PUBACK"}

MessagePkids(C) == {C[j].pkid : j \in PublishesIn(C)}

SlotPkids(P) == {P[i].pkid : i \in DOMAIN P}

AckPkids(S, r) == {S[k].pkid : k \in PubAcksIn(S, r)}

\* The PUBLISHes in transit C are of messages of the server's session O.
OnTheWay(C, O) ==
    /\ \A j \in PublishesIn(C) : Msg(C[j].pkid, C[j].msg) \in Entries(O)
    /\ \A i, j \in PublishesIn(C) : C[i].pkid = C[j].pkid => i = j

\* So are those that the slots P of the client track.
Tracked(P, texts, O) ==
    \A i \in DOMAIN P : /\ P[i].d \in DOMAIN texts
                        /\ Msg(P[i].pkid, texts[P[i].d]) \in Entries(O)

\* The PUBACKs in transit are of messages that the application has acknowledged.
Acknowledging(S, r, texts, O, D) ==
    \A k \in PubAcksIn(S, r) :
       /\ S[k].op \in DOMAIN texts /\ D[S[k].op].ack # "held"
       /\ Msg(S[k].pkid, texts[S[k].op]) \in Entries(O)
       /\ \A l \in PubAcksIn(S, r) : S[l].pkid = S[k].pkid => l = k

Apart(A, B, C) == A \cap B = {} /\ A \cap C = {} /\ B \cap C = {}

MessageInv ==
    /\ UniqueKeys(outbound)
    /\ Acknowledging(sent, received, message, outbound, deliveries)
    /\ mode = "connected" =>
         /\ OnTheWay(to_client, outbound)
         /\ Tracked(publishes, message, outbound)
         /\ Apart(MessagePkids(to_client), SlotPkids(publishes), AckPkids(sent, received))

\* More messages, more deliveries and acknowledgements that are requested.
LEMMA AcknowledgingMore ==
    ASSUME NEW S, NEW r, NEW texts, NEW O, NEW D, Acknowledging(S, r, texts, O, D),
           NEW texts2, NEW O2, NEW D2,
           \A x \in DOMAIN texts : /\ x \in DOMAIN texts2 /\ texts2[x] = texts[x]
                                   /\ D[x].ack # "held" => D2[x].ack # "held",
           Entries(O) \subseteq Entries(O2)
    PROVE  Acknowledging(S, r, texts2, O2, D2)
BY Zenon DEF Acknowledging

\* What the lemmas use of the types.
LEMMA TypesOfMessages ==
    ASSUME SystemInv
    PROVE  /\ sent \in Seq(PacketType) /\ received \in Nat /\ received <= Len(sent)
           /\ to_client \in Seq(ReplyType) /\ outbound \in Seq(MessageType)
           /\ message \in Seq(Nat) /\ deliveries \in Seq(DeliveryType)
           /\ publishes \in Seq(SlotType)
           /\ DOMAIN message = DOMAIN deliveries
BY DEF SystemInv, SystemTypeOK, TypeOK, ConnectionTypeOK, HandlesTypeOK, InflightTypeOK

\* The client reads a packet, and it never finds a PUBLISH that it tracks already.
LEMMA ReceiveMessages ==
    ASSUME SystemInv, MessageInv, ClientReceive
    PROVE  MessageInv' /\ mode' = "connected"

\* The client reads the first packet of the transport.
<1>MessageRead.
    ASSUME NEW C \in Seq(ReplyType), C # <<>>, NEW O, OnTheWay(C, O)
    PROVE  /\ OnTheWay(Tail(C), O)
           /\ MessagePkids(Tail(C)) \subseteq MessagePkids(C)
           /\ Head(C).type = "PUBLISH" =>
                /\ Head(C).pkid \in MessagePkids(C)
                /\ Head(C).pkid \notin MessagePkids(Tail(C))
                /\ Msg(Head(C).pkid, Head(C).msg) \in Entries(O)
  <2> USE <1>MessageRead
  <2> DEFINE T == Tail(C)
             h == Head(C)
             next(i) == i + 1
  <2>1. /\ 1 \in DOMAIN C /\ h = C[1]
        /\ \A i \in DOMAIN T : next(i) \in DOMAIN C /\ 1 # next(i) /\ T[i] = C[next(i)]
        /\ \A i, j \in DOMAIN T : next(i) = next(j) => i = j
    OBVIOUS
  <2> HIDE DEF T, h, next
  <2>2. \A i \in PublishesIn(T) : next(i) \in PublishesIn(C) /\ i \in DOMAIN T
    BY Zenon, <2>1 DEF PublishesIn
  <2>3. OnTheWay(T, O)
    <3>1. \A j \in PublishesIn(T) : Msg(T[j].pkid, T[j].msg) \in Entries(O)
      BY Zenon, <2>1, <2>2 DEF OnTheWay
    <3>2. \A i, j \in PublishesIn(T) : T[i].pkid = T[j].pkid => i = j
      BY <2>1, <2>2 DEF OnTheWay
    <3> QED
      BY Zenon, <3>1, <3>2 DEF OnTheWay
  <2>4. MessagePkids(T) \subseteq MessagePkids(C)
    BY <2>1, <2>2 DEF MessagePkids
  <2>5. ASSUME h.type = "PUBLISH"
        PROVE  /\ h.pkid \in MessagePkids(C) /\ h.pkid \notin MessagePkids(T)
               /\ Msg(h.pkid, h.msg) \in Entries(O)
    <3>1. 1 \in PublishesIn(C)
      BY Zenon, <2>1, <2>5 DEF PublishesIn
    <3>2. h.pkid \in MessagePkids(C) /\ Msg(h.pkid, h.msg) \in Entries(O)
      BY Zenon, <2>1, <3>1 DEF MessagePkids, OnTheWay
    <3>3. \A i \in PublishesIn(T) : T[i].pkid # h.pkid
      BY Zenon, <2>1, <2>2, <3>1 DEF OnTheWay
    <3> QED
      BY Zenon, <3>2, <3>3 DEF MessagePkids
  <2> QED
    BY Zenon, <2>3, <2>4, <2>5 DEF T, h
<1> DEFINE pkt == Head(to_client)
           C == to_client
<1>1. /\ mode = "connected" /\ UNCHANGED <<sent, received, outbound>>
      /\ \/ mode' = mode /\ C' = Tail(C)
         \/ /\ mode' = "panic_duplicate_publish" /\ pkt.type = "PUBLISH"
            /\ \E i \in DOMAIN publishes : publishes[i].pkid = pkt.pkid
  BY Zenon, ReceiveFrame, ReceiveCases DEF SystemInv
<1>2. C \in Seq(ReplyType) /\ C # <<>> /\ message \in Seq(Nat) /\ deliveries \in Seq(DeliveryType)
      /\ publishes \in Seq(SlotType) /\ DOMAIN message = DOMAIN deliveries
  BY Zenon, TypesOfMessages DEF ClientReceive
<1>3. /\ OnTheWay(C, outbound) /\ Tracked(publishes, message, outbound)
      /\ Apart(MessagePkids(C), SlotPkids(publishes), AckPkids(sent, received))
      /\ Acknowledging(sent, received, message, outbound, deliveries)
      /\ UniqueKeys(outbound)
  BY Zenon, <1>1 DEF MessageInv
<1>4. /\ OnTheWay(Tail(C), outbound)
      /\ MessagePkids(Tail(C)) \subseteq MessagePkids(C)
      /\ pkt.type = "PUBLISH" =>
            /\ pkt.pkid \in MessagePkids(C)
            /\ pkt.pkid \notin MessagePkids(Tail(C))
            /\ Msg(pkt.pkid, pkt.msg) \in Entries(outbound)
  BY Zenon, <1>2, <1>3, <1>MessageRead
<1> HIDE DEF pkt, C
<1>5. mode' = mode /\ C' = Tail(C)
  <2>1. ASSUME pkt.type = "PUBLISH", NEW i \in DOMAIN publishes, publishes[i].pkid = pkt.pkid
        PROVE  FALSE
    <3>1. pkt.pkid \in SlotPkids(publishes)
      BY Zenon, <2>1 DEF SlotPkids
    <3> QED
      BY Zenon, <1>3, <1>4, <2>1, <3>1 DEF Apart
  <2> QED
    BY Zenon, <1>1, <2>1
<1>6. mode' = "connected"
  BY Zenon, <1>1, <1>5
<1>7. Entries(outbound) \subseteq Entries(outbound)
  BY Zenon
<1>8. CASE Delivers(pkt)
  <2> DEFINE n == Len(deliveries) + 1
             slot == [pkid |-> pkt.pkid, d |-> n, ack |-> 0]
             x == [pkid |-> pkt.pkid, epoch |-> connection_epoch, ack |-> "held"]
  <2>1. /\ pkt.type = "PUBLISH" /\ publishes' = Append(publishes, slot)
        /\ deliveries' = Append(deliveries, x) /\ message' = Append(message, pkt.msg)
    BY Zenon, <1>8 DEF Delivers
  <2>2. n = Len(message) + 1
    BY <1>2
  <2>3. /\ \A y \in DOMAIN message : /\ y \in DOMAIN message' /\ message'[y] = message[y]
                                     /\ deliveries'[y] = deliveries[y]
        /\ n \in DOMAIN message' /\ message'[n] = pkt.msg
    BY <1>2, <2>1, <2>2
  <2>4. \A i \in DOMAIN publishes' :
           (i \in DOMAIN publishes /\ publishes'[i] = publishes[i]) \/ publishes'[i] = slot
    BY <1>2, <2>1
  <2>5. slot.pkid = pkt.pkid /\ slot.d = n
    BY Zenon
  <2> HIDE DEF n, slot, x
  <2>6. Acknowledging(sent, received, message', outbound, deliveries')
    <3>1. \A y \in DOMAIN message :
             /\ y \in DOMAIN message' /\ message'[y] = message[y]
             /\ deliveries[y].ack # "held" => deliveries'[y].ack # "held"
      BY Zenon, <2>3
    <3> QED
      BY Zenon, <1>3, <1>7, <3>1, AcknowledgingMore
  <2>7. Tracked(publishes', message', outbound)
    <3> SUFFICES ASSUME NEW i \in DOMAIN publishes'
                 PROVE  /\ publishes'[i].d \in DOMAIN message'
                        /\ Msg(publishes'[i].pkid, message'[publishes'[i].d]) \in Entries(outbound)
      BY Zenon DEF Tracked
    <3>1. CASE i \in DOMAIN publishes /\ publishes'[i] = publishes[i]
      <4>1. /\ publishes[i].d \in DOMAIN message
            /\ Msg(publishes[i].pkid, message[publishes[i].d]) \in Entries(outbound)
        BY Zenon, <1>3, <3>1 DEF Tracked
      <4>2. /\ publishes[i].d \in DOMAIN message'
            /\ message'[publishes[i].d] = message[publishes[i].d]
        BY Zenon, <2>3, <4>1
      <4> QED
        BY Zenon, <3>1, <4>1, <4>2
    <3>2. CASE publishes'[i] = slot
      BY Zenon, <1>4, <2>1, <2>3, <2>5, <3>2
    <3> QED
      BY Zenon, <2>4, <3>1, <3>2
  <2>8. SlotPkids(publishes') \subseteq SlotPkids(publishes) \cup {pkt.pkid}
    BY Zenon, <2>4, <2>5 DEF SlotPkids
  <2>9. Apart(MessagePkids(C'), SlotPkids(publishes'), AckPkids(sent, received))
    BY Zenon, <1>3, <1>4, <1>5, <2>1, <2>8 DEF Apart
  <2> QED
    BY Zenon, <1>1, <1>3, <1>4, <1>5, <1>6, <2>6, <2>7, <2>9 DEF MessageInv, C
<1>9. CASE Kept /\ message' = message /\ publishes' = publishes
  <2>1. \A y \in DOMAIN message :
             /\ y \in DOMAIN message /\ message[y] = message[y]
             /\ deliveries[y].ack # "held" => deliveries'[y].ack # "held"
    BY Zenon, <1>2, <1>9 DEF Kept
  <2>2. Acknowledging(sent, received, message, outbound, deliveries')
    BY Zenon, <1>3, <1>7, <2>1, AcknowledgingMore
  <2>3. Apart(MessagePkids(C'), SlotPkids(publishes), AckPkids(sent, received))
    BY Zenon, <1>3, <1>4, <1>5 DEF Apart
  <2> QED
    BY Zenon, <1>1, <1>3, <1>4, <1>5, <1>6, <1>9, <2>2, <2>3 DEF MessageInv, C
<1> QED
  BY Zenon, <1>8, <1>9, ReceiveDelivers DEF SystemInv, pkt

\* The server processes a packet.  A PUBACK removes the message that it
\* acknowledges, which the application was given and has acknowledged.
LEMMA ServerReceiveMessages ==
    ASSUME SystemInv, MessageInv, ServerReceive
    PROVE  /\ MessageInv'
           /\ \A m \in acknowledged' :
                 \/ m \in acknowledged
                 \/ \E d \in DOMAIN deliveries : message[d] = m /\ deliveries[d].ack # "held"

\* The server answers with packets that are no PUBLISHes.
<1>MessageAnswered.
    ASSUME NEW C \in Seq(ReplyType), NEW R, NEW rs \in Seq(R), PublishesIn(rs) = {},
           NEW O, OnTheWay(C, O)
    PROVE  OnTheWay(C \o rs, O) /\ MessagePkids(C \o rs) = MessagePkids(C)
  <2> USE <1>MessageAnswered
  <2> DEFINE T == C \o rs
  <2>1. /\ \A j \in DOMAIN C : j \in DOMAIN T /\ T[j] = C[j]
        /\ \A j \in DOMAIN T : j \in DOMAIN C \/ \E i \in DOMAIN rs : T[j] = rs[i]
    <3>1. /\ \A j \in DOMAIN C : j \in DOMAIN T /\ T[j] = C[j]
          /\ \A j \in DOMAIN T : j \in DOMAIN C \/ (j - Len(C) \in DOMAIN rs /\ T[j] = rs[j - Len(C)])
      OBVIOUS
    <3> QED
      BY Zenon, <3>1
  <2> HIDE DEF T
  <2>2. PublishesIn(T) = PublishesIn(C) /\ \A j \in PublishesIn(C) : T[j] = C[j]
    <3>1. \A i \in DOMAIN rs : rs[i].type # "PUBLISH"
      BY Zenon DEF PublishesIn
    <3> QED
      BY ZenonT(30), <2>1, <3>1 DEF PublishesIn
  <2>3. OnTheWay(T, O)
    BY Zenon, <2>2 DEF OnTheWay
  <2>4. MessagePkids(T) = MessagePkids(C)
    BY Zenon, <2>2 DEF MessagePkids
  <2> QED
    BY Zenon, <2>3, <2>4 DEF T

\* The server takes the next packet.
<1>PubAckTaken.
    ASSUME NEW S \in Seq(PacketType), NEW r \in Nat, r < Len(S),
           NEW texts, NEW O, NEW D, Acknowledging(S, r, texts, O, D)
    PROVE  /\ Acknowledging(S, r + 1, texts, O, D)
           /\ AckPkids(S, r + 1) \subseteq AckPkids(S, r)
           /\ S[r + 1].type = "PUBACK" =>
                /\ r + 1 \in PubAcksIn(S, r)
                /\ S[r + 1].pkid \notin AckPkids(S, r + 1)
  <2> USE <1>PubAckTaken
  <2> DEFINE n == r + 1
  <2>1. /\ \A k \in PubAcksIn(S, n) : k \in PubAcksIn(S, r) /\ k # n
        /\ S[n].type = "PUBACK" => n \in PubAcksIn(S, r)
    BY DEF PubAcksIn
  <2> HIDE DEF n
  <2>2. Acknowledging(S, n, texts, O, D)
    BY Zenon, <2>1 DEF Acknowledging
  <2>3. AckPkids(S, n) \subseteq AckPkids(S, r)
    BY Zenon, <2>1 DEF AckPkids
  <2>4. S[n].type = "PUBACK" => S[n].pkid \notin AckPkids(S, n)
    BY Zenon, <2>1 DEF AckPkids, Acknowledging
  <2> QED
    BY Zenon, <2>1, <2>2, <2>3, <2>4 DEF n

\* The server forgets the message with the identifier p, which is nowhere.
<1>MessageForgotten.
    ASSUME NEW O, NEW O2, NEW p, Entries(O2) = {e \in Entries(O) : e.pkid # p}
    PROVE  /\ \A S, r, texts, D : Acknowledging(S, r, texts, O, D) /\ p \notin AckPkids(S, r)
                                     => Acknowledging(S, r, texts, O2, D)
           /\ \A C : OnTheWay(C, O) /\ p \notin MessagePkids(C) => OnTheWay(C, O2)
           /\ \A P, texts : Tracked(P, texts, O) /\ p \notin SlotPkids(P) => Tracked(P, texts, O2)
  <2> USE <1>MessageForgotten
  <2>1. \A x, m : Msg(x, m) \in Entries(O) /\ x # p => Msg(x, m) \in Entries(O2)
    <3>1. \A x, m : Msg(x, m).pkid = x
      BY Zenon DEF Msg
    <3> QED
      BY Zenon, <3>1
  <2>2. ASSUME NEW S, NEW r, NEW texts, NEW D, Acknowledging(S, r, texts, O, D),
               p \notin AckPkids(S, r)
        PROVE  Acknowledging(S, r, texts, O2, D)
    <3>1. \A k \in PubAcksIn(S, r) : S[k].pkid # p
      BY Zenon, <2>2 DEF AckPkids
    <3> QED
      BY Zenon, <2>1, <2>2, <3>1 DEF Acknowledging
  <2>3. ASSUME NEW C, OnTheWay(C, O), p \notin MessagePkids(C)
        PROVE  OnTheWay(C, O2)
    <3>1. \A j \in PublishesIn(C) : C[j].pkid # p
      BY Zenon, <2>3 DEF MessagePkids
    <3> QED
      BY Zenon, <2>1, <2>3, <3>1 DEF OnTheWay
  <2>4. ASSUME NEW P, NEW texts, Tracked(P, texts, O), p \notin SlotPkids(P)
        PROVE  Tracked(P, texts, O2)
    <3>1. \A i \in DOMAIN P : P[i].pkid # p
      BY Zenon, <2>4 DEF SlotPkids
    <3> QED
      BY Zenon, <2>1, <2>4, <3>1 DEF Tracked
  <2> QED
    BY Zenon, <2>2, <2>3, <2>4

\* What the server answers is no PUBLISH, and a PUBACK has no answer.
<1>AnswersOnly.
    ASSUME NEW pkt \in PacketType
    PROVE  /\ \E T : Replies(pkt) \in Seq(T)
           /\ PublishesIn(Replies(pkt)) = {}
           /\ pkt.type = "PUBACK" => Replies(pkt) = <<>>
  <2> USE <1>AnswersOnly
  <2>1. \A a \in Answers \cup {"PINGRESP"} : a # "PUBLISH"
    BY Zenon DEF Answers
  <2>2. ASSUME NEW a \in Answers \cup {"PINGRESP"}, NEW p, Replies(pkt) = <<Reply(a, p)>>
        PROVE  (\E T : Replies(pkt) \in Seq(T)) /\ PublishesIn(Replies(pkt)) = {}
    <3> DEFINE x == Reply(a, p)
    <3>1. x.type # "PUBLISH"
      BY Zenon, <2>1 DEF Reply
    <3> HIDE DEF x
    <3>2. /\ <<x>> \in Seq({x})
          /\ \A j \in DOMAIN <<x>> : <<x>>[j] = x
      OBVIOUS
    <3>3. PublishesIn(<<x>>) = {}
      BY Zenon, <3>1, <3>2 DEF PublishesIn
    <3> QED
      BY Zenon, <2>2, <3>2, <3>3 DEF x
  <2>3. ASSUME Replies(pkt) = <<>>
        PROVE  (\E T : Replies(pkt) \in Seq(T)) /\ PublishesIn(Replies(pkt)) = {}
    <3>1. <<>> \in Seq({}) /\ DOMAIN <<>> = {}
      OBVIOUS
    <3>2. PublishesIn(<<>>) = {}
      BY Zenon, <3>1 DEF PublishesIn
    <3> QED
      BY Zenon, <2>3, <3>1, <3>2
  <2>4. pkt.type = "PUBACK" => pkt.type \notin Requests /\ pkt.type # "PINGREQ"
    BY Zenon DEF Requests
  <2> QED
    BY Zenon, <2>2, <2>3, <2>4, RepliesTo
<1> DEFINE k == received + 1
           pkt == sent[k]
           acked == {i \in DOMAIN outbound : pkt.type = "PUBACK" /\ outbound[i].pkid = pkt.pkid}
<1>1. /\ received < Len(sent) /\ received' = k
      /\ to_client' = IF mode = "connected" THEN to_client \o Replies(pkt) ELSE to_client
      /\ acknowledged' = acknowledged \cup {outbound[i].msg : i \in acked}
      /\ outbound' = IF acked = {} THEN outbound ELSE ShiftRemove(outbound, pkt.pkid)
      /\ UNCHANGED <<mode, sent, message, deliveries, publishes>>
  BY Zenon DEF ServerReceive, Answer, sessionVars
<1>2. /\ sent \in Seq(PacketType) /\ received \in Nat
      /\ to_client \in Seq(ReplyType) /\ outbound \in Seq(MessageType)
      /\ DOMAIN message = DOMAIN deliveries
  BY Zenon, TypesOfMessages
<1>3. pkt \in PacketType
  BY <1>1, <1>2
<1>4. /\ UniqueKeys(outbound)
      /\ Acknowledging(sent, received, message, outbound, deliveries)
      /\ mode = "connected" =>
           /\ OnTheWay(to_client, outbound)
           /\ Tracked(publishes, message, outbound)
           /\ Apart(MessagePkids(to_client), SlotPkids(publishes), AckPkids(sent, received))
  BY Zenon DEF MessageInv
<1>5. /\ Acknowledging(sent, k, message, outbound, deliveries)
      /\ AckPkids(sent, k) \subseteq AckPkids(sent, received)
      /\ pkt.type = "PUBACK" =>
           /\ k \in PubAcksIn(sent, received) /\ pkt.pkid \notin AckPkids(sent, k)
  BY Zenon, <1>1, <1>2, <1>4, <1>PubAckTaken
<1> HIDE DEF k
<1>6. CASE pkt.type = "PUBACK"
  <2>1. /\ pkt.op \in DOMAIN message /\ deliveries[pkt.op].ack # "held"
        /\ Msg(pkt.pkid, message[pkt.op]) \in Entries(outbound)
        /\ pkt.pkid \in AckPkids(sent, received)
    BY Zenon, <1>4, <1>5, <1>6 DEF Acknowledging, AckPkids
  <2>2. PICK g \in DOMAIN outbound : outbound[g] = Msg(pkt.pkid, message[pkt.op])
    BY Zenon, <2>1 DEF Entries
  <2>3. outbound[g].pkid = pkt.pkid /\ outbound[g].msg = message[pkt.op]
    BY <2>2 DEF Msg
  <2>4. g \in acked /\ \A i \in acked : i = g
    BY Zenon, <1>4, <1>6, <2>3 DEF UniqueKeys
  <2>5. acknowledged' \subseteq acknowledged \cup {message[pkt.op]}
    BY Zenon, <1>1, <2>3, <2>4
  <2>6. outbound' = ShiftRemove(outbound, pkt.pkid)
    BY Zenon, <1>1, <2>4
  <2>7. pkt.pkid \in PkidsOf(Entries(outbound))
    BY Zenon, <2>3 DEF PkidsOf, Entries
  <2> HIDE DEF pkt, acked
  <2>8. /\ Entries(outbound') = {e \in Entries(outbound) : e.pkid # pkt.pkid}
        /\ UniqueKeys(outbound')
    BY <1>2, <1>4, <2>6, <2>7, ShiftRemoveKey
  <2>9. Acknowledging(sent, k, message, outbound', deliveries)
    BY Zenon, <1>5, <1>6, <2>8, <1>MessageForgotten
  <2>10. to_client' = to_client
    <3>1. to_client \o <<>> = to_client
      BY <1>2
    <3> QED
      BY Zenon, <1>1, <1>3, <1>6, <3>1, <1>AnswersOnly
  <2>11. ASSUME mode = "connected"
         PROVE  /\ OnTheWay(to_client, outbound') /\ Tracked(publishes, message, outbound')
                /\ Apart(MessagePkids(to_client), SlotPkids(publishes), AckPkids(sent, k))
    <3>1. pkt.pkid \notin MessagePkids(to_client) /\ pkt.pkid \notin SlotPkids(publishes)
      BY Zenon, <1>4, <2>1, <2>11 DEF Apart
    <3>2. Apart(MessagePkids(to_client), SlotPkids(publishes), AckPkids(sent, k))
      BY Zenon, <1>4, <1>5, <2>11 DEF Apart
    <3> QED
      BY Zenon, <1>4, <2>8, <2>11, <3>1, <3>2, <1>MessageForgotten
  <2>12. MessageInv'
    BY Zenon, <1>1, <2>8, <2>9, <2>10, <2>11 DEF MessageInv
  <2> QED
    BY Zenon, <1>2, <2>1, <2>5, <2>12
<1>7. CASE pkt.type # "PUBACK"
  <2>1. acked = {}
    BY Zenon, <1>7
  <2>2. outbound' = outbound /\ acknowledged' = acknowledged
    BY Zenon, <1>1, <2>1
  <2> HIDE DEF pkt, acked
  <2>3. ASSUME mode = "connected"
        PROVE  /\ OnTheWay(to_client', outbound)
               /\ Apart(MessagePkids(to_client'), SlotPkids(publishes), AckPkids(sent, k))
    <3>1. PICK T : Replies(pkt) \in Seq(T)
      BY Zenon, <1>3, <1>AnswersOnly
    <3>2. PublishesIn(Replies(pkt)) = {} /\ to_client' = to_client \o Replies(pkt)
      BY Zenon, <1>1, <1>3, <2>3, <1>AnswersOnly
    <3>3. OnTheWay(to_client', outbound) /\ MessagePkids(to_client') = MessagePkids(to_client)
      BY Zenon, <1>2, <1>4, <2>3, <3>1, <3>2, <1>MessageAnswered
    <3> QED
      BY Zenon, <1>4, <1>5, <2>3, <3>3 DEF Apart
  <2>4. MessageInv'
    BY Zenon, <1>1, <1>4, <1>5, <2>2, <2>3 DEF MessageInv
  <2> QED
    BY Zenon, <2>2, <2>4
<1> QED
  BY Zenon, <1>6, <1>7

\* Every step keeps each message of the server in one place.
LEMMA MessageStep ==
    ASSUME SystemInv, SystemInv', MessageInv, [SystemNext]_systemVars
    PROVE  MessageInv'

\* The server publishes a message with an identifier that is free.
<1>MessagePublished.
    ASSUME NEW C \in Seq(ReplyType), NEW O, NEW O2, NEW m,
           OnTheWay(C, O), Entries(O2) = Entries(O) \cup {m},
           m = Msg(m.pkid, m.msg), m.pkid \notin PkidsOf(Entries(O))
    PROVE  /\ OnTheWay(C \o <<Message(m)>>, O2)
           /\ MessagePkids(C \o <<Message(m)>>) \subseteq MessagePkids(C) \cup {m.pkid}
  <2> USE <1>MessagePublished
  <2> DEFINE x == Message(m)
             T == C \o <<x>>
             n == Len(C) + 1
  <2>1. /\ \A j \in DOMAIN T : j = n \/ (j \in DOMAIN C /\ T[j] = C[j])
        /\ T[n] = x
    OBVIOUS
  <2>2. x.type = "PUBLISH" /\ x.pkid = m.pkid /\ x.msg = m.msg
    BY Zenon DEF Message
  <2> HIDE DEF T, n, x
  <2>3. \A j \in PublishesIn(T) : (j = n /\ T[j] = x) \/ (j \in PublishesIn(C) /\ T[j] = C[j])
    BY Zenon, <2>1 DEF PublishesIn
  <2>4. \A j \in PublishesIn(C) : C[j].pkid # m.pkid
    <3>1. ASSUME NEW j \in PublishesIn(C)
          PROVE  C[j].pkid \in PkidsOf(Entries(O))
      <4>1. Msg(C[j].pkid, C[j].msg) \in Entries(O)
        BY Zenon DEF OnTheWay
      <4>2. Msg(C[j].pkid, C[j].msg).pkid = C[j].pkid
        BY Zenon DEF Msg
      <4> QED
        BY Zenon, <4>1, <4>2 DEF PkidsOf
    <3> QED
      BY Zenon, <3>1
  <2>5. \A j \in PublishesIn(T) : Msg(T[j].pkid, T[j].msg) \in Entries(O2)
    BY Zenon, <2>2, <2>3 DEF OnTheWay
  <2>6. \A i, j \in PublishesIn(T) : T[i].pkid = T[j].pkid => i = j
    BY Zenon, <2>2, <2>3, <2>4 DEF OnTheWay
  <2>7. MessagePkids(T) \subseteq MessagePkids(C) \cup {m.pkid}
    BY Zenon, <2>2, <2>3 DEF MessagePkids
  <2> QED
    BY Zenon, <2>5, <2>6, <2>7 DEF OnTheWay, T, x

\* What the client writes is a PUBACK in transit only if it is a PUBACK.
<1>AckWritten.
    ASSUME NEW S \in Seq(PacketType), NEW pkt \in PacketType, NEW r
    PROVE  \A k \in PubAcksIn(Append(S, pkt), r) :
              \/ k \in PubAcksIn(S, r) /\ Append(S, pkt)[k] = S[k]
              \/ k = Len(S) + 1 /\ Append(S, pkt)[k] = pkt /\ pkt.type = "PUBACK"
  BY <1>AckWritten DEF PubAcksIn

\* A packet other than a PUBACK is written.
<1>NonAckWritten.
    ASSUME NEW S \in Seq(PacketType), NEW pkt \in PacketType, pkt.type # "PUBACK", NEW r,
           NEW texts, NEW O, NEW D, Acknowledging(S, r, texts, O, D)
    PROVE  /\ Acknowledging(Append(S, pkt), r, texts, O, D)
           /\ AckPkids(Append(S, pkt), r) \subseteq AckPkids(S, r)
  <2> USE <1>NonAckWritten
  <2> DEFINE T == Append(S, pkt)
  <2>1. \A k \in PubAcksIn(T, r) : k \in PubAcksIn(S, r) /\ T[k] = S[k]
    BY Zenon, <1>AckWritten
  <2> HIDE DEF T
  <2>2. Acknowledging(T, r, texts, O, D)
    BY Zenon, <2>1 DEF Acknowledging
  <2>3. AckPkids(T, r) \subseteq AckPkids(S, r)
    BY Zenon, <2>1 DEF AckPkids
  <2> QED
    BY Zenon, <2>2, <2>3 DEF T

\* A PUBACK of a message that no other PUBACK in transit answers is written.
<1>PubAckWritten.
    ASSUME NEW S \in Seq(PacketType), NEW pkt \in PacketType, NEW r,
           NEW texts, NEW O, NEW D, Acknowledging(S, r, texts, O, D),
           pkt.pkid \notin AckPkids(S, r),
           pkt.op \in DOMAIN texts, D[pkt.op].ack # "held",
           Msg(pkt.pkid, texts[pkt.op]) \in Entries(O)
    PROVE  /\ Acknowledging(Append(S, pkt), r, texts, O, D)
           /\ AckPkids(Append(S, pkt), r) \subseteq AckPkids(S, r) \cup {pkt.pkid}
  <2> USE <1>PubAckWritten
  <2> DEFINE T == Append(S, pkt)
             n == Len(S) + 1
  <2>1. \A k \in PubAcksIn(T, r) :
                \/ k \in PubAcksIn(S, r) /\ T[k] = S[k]
                \/ k = n /\ T[k] = pkt /\ pkt.type = "PUBACK"
    BY Zenon, <1>AckWritten
  <2> HIDE DEF T, n
  <2>2. \A k \in PubAcksIn(S, r) : S[k].pkid # pkt.pkid
    BY Zenon DEF AckPkids
  <2>3. \A k \in PubAcksIn(T, r) : /\ T[k].op \in DOMAIN texts /\ D[T[k].op].ack # "held"
                                   /\ Msg(T[k].pkid, texts[T[k].op]) \in Entries(O)
    BY Zenon, <2>1 DEF Acknowledging
  <2>4. \A k, l \in PubAcksIn(T, r) : T[l].pkid = T[k].pkid => l = k
    BY Zenon, <2>1, <2>2 DEF Acknowledging
  <2>5. AckPkids(T, r) \subseteq AckPkids(S, r) \cup {pkt.pkid}
    BY Zenon, <2>1 DEF AckPkids
  <2> QED
    BY Zenon, <2>3, <2>4, <2>5 DEF Acknowledging, T

\* Slots that are tracked stay so.
<1>TrackedMore.
    ASSUME NEW P, NEW texts, NEW O, Tracked(P, texts, O),
           NEW P2, NEW texts2, NEW O2,
           \A i \in DOMAIN P2 : \E j \in DOMAIN P : P2[i].pkid = P[j].pkid /\ P2[i].d = P[j].d,
           \A x \in DOMAIN texts : x \in DOMAIN texts2 /\ texts2[x] = texts[x],
           Entries(O) \subseteq Entries(O2)
    PROVE  Tracked(P2, texts2, O2) /\ SlotPkids(P2) \subseteq SlotPkids(P)
  <2> USE <1>TrackedMore
  <2>1. Tracked(P2, texts2, O2)
    <3> SUFFICES ASSUME NEW i \in DOMAIN P2
                 PROVE  /\ P2[i].d \in DOMAIN texts2
                        /\ Msg(P2[i].pkid, texts2[P2[i].d]) \in Entries(O2)
      BY Zenon DEF Tracked
    <3>1. PICK j \in DOMAIN P : P2[i].pkid = P[j].pkid /\ P2[i].d = P[j].d
      BY Zenon
    <3>2. P[j].d \in DOMAIN texts /\ Msg(P[j].pkid, texts[P[j].d]) \in Entries(O)
      BY Zenon, <3>1 DEF Tracked
    <3> QED
      BY <3>1, <3>2
  <2>2. SlotPkids(P2) \subseteq SlotPkids(P)
    BY ZenonT(30) DEF SlotPkids
  <2> QED
    BY Zenon, <2>1, <2>2

\* A step that keeps the deliveries, the messages and the PUBLISHes in transit.
<1>MessageStays.
    ASSUME SystemInv, MessageInv, Kept, UNCHANGED <<message, outbound, received, to_client>>,
           Acknowledging(sent', received, message, outbound, deliveries),
           AckPkids(sent', received) \subseteq AckPkids(sent, received),
           mode' = "connected" =>
               /\ mode = "connected"
               /\ \A i \in DOMAIN publishes' : \E j \in DOMAIN publishes :
                     publishes'[i].pkid = publishes[j].pkid /\ publishes'[i].d = publishes[j].d
    PROVE  MessageInv'
  <2> USE <1>MessageStays
  <2>1. \A x \in DOMAIN message :
           /\ x \in DOMAIN message /\ message[x] = message[x]
           /\ deliveries[x].ack # "held" => deliveries'[x].ack # "held"
    BY Zenon, TypesOfMessages DEF Kept
  <2>2. Entries(outbound) \subseteq Entries(outbound)
    BY Zenon
  <2>3. Acknowledging(sent', received', message', outbound', deliveries')
    <3>1. Acknowledging(sent', received, message, outbound, deliveries')
      BY Zenon, <2>1, <2>2, AcknowledgingMore
    <3> QED
      BY Zenon, <3>1
  <2>4. UniqueKeys(outbound')
    BY Zenon DEF MessageInv
  <2>5. ASSUME mode' = "connected"
        PROVE  /\ OnTheWay(to_client', outbound')
               /\ Tracked(publishes', message', outbound')
               /\ Apart(MessagePkids(to_client'), SlotPkids(publishes'), AckPkids(sent', received'))
    <3>1. /\ OnTheWay(to_client, outbound) /\ Tracked(publishes, message, outbound)
          /\ Apart(MessagePkids(to_client), SlotPkids(publishes), AckPkids(sent, received))
      BY Zenon, <2>5 DEF MessageInv
    <3>2. Tracked(publishes', message, outbound) /\ SlotPkids(publishes') \subseteq SlotPkids(publishes)
      <4>1. /\ \A i \in DOMAIN publishes' : \E j \in DOMAIN publishes :
                  publishes'[i].pkid = publishes[j].pkid /\ publishes'[i].d = publishes[j].d
            /\ \A x \in DOMAIN message : x \in DOMAIN message /\ message[x] = message[x]
        BY Zenon, <2>5
      <4> QED
        BY Zenon, <2>2, <3>1, <4>1, <1>TrackedMore
    <3>3. Apart(MessagePkids(to_client'), SlotPkids(publishes'), AckPkids(sent', received'))
      BY Zenon, <3>1, <3>2 DEF Apart
    <3> QED
      BY Zenon, <3>1, <3>2, <3>3
  <2> QED
    BY Zenon, <2>3, <2>4, <2>5 DEF MessageInv

\* A PUBACK is written for the PUBLISH at the front.
<1>ReadyAckMessages.
    ASSUME SystemInv, SystemInv', MessageInv, send_ready_ack, UNCHANGED serverVars
    PROVE  MessageInv'
  <2> USE <1>ReadyAckMessages
  <2> DEFINE d == Acked + 1
             pkt == Pkt("PUBACK", deliveries[d].pkid, d, FALSE)
             h == publishes[1]
  <2>1. AckTypes /\ AckTypes' /\ TypeOK /\ TypeOK' /\ AckInv
    BY Zenon, TypesOfAcks DEF SystemInv
  <2>2. OpenSlots /\ mode = "connected" /\ publishes # <<>>
    BY <2>1 DEF AckInv, AckTracker, Alive, send_ready_ack, Sending, AckReady
  <2>3. /\ d \in DOMAIN deliveries /\ Head(publishes) = h /\ 1 \in DOMAIN publishes
    BY <2>1, <2>2 DEF OpenSlots, Acked, AckTypes
  <2>4. /\ h.ack = d /\ h.d = d /\ h.pkid = deliveries[d].pkid /\ ~Stale(d)
        /\ deliveries[d].ack = "pending"
        /\ \A j \in DOMAIN publishes : publishes[j].pkid = h.pkid => j = 1
    BY Zenon, <2>2, <2>3 DEF OpenSlots, send_ready_ack, AckReady
  <2>5. /\ publishes' = Tail(publishes) /\ sent' = Append(sent, pkt) /\ mode' = mode
        /\ UNCHANGED <<message, outbound, received, to_client>>
    BY Zenon, <2>3, <2>4 DEF send_ready_ack, UnchangedBySending, Write, serverVars
  <2>6. Kept
    BY Zenon, <2>1, ClientKeeps DEF Send
  <2>7. pkt \in PacketType
    BY Zenon, <2>1, <2>5, AppendedPacket
  <2>8. pkt.pkid = h.pkid /\ pkt.op = d
    BY Zenon, <2>4 DEF Pkt
  <2>9. "pending" # "held"
    BY Zenon
  <2> HIDE DEF d, pkt, h
  <2>10. deliveries'[d].ack # "held"
    BY Zenon, <2>3, <2>4, <2>6, <2>9 DEF Kept
  <2>11. /\ OnTheWay(to_client, outbound) /\ Tracked(publishes, message, outbound)
         /\ Apart(MessagePkids(to_client), SlotPkids(publishes), AckPkids(sent, received))
         /\ Acknowledging(sent, received, message, outbound, deliveries)
    BY Zenon, <2>2 DEF MessageInv
  <2>12. /\ h.pkid \in SlotPkids(publishes)
         /\ d \in DOMAIN message /\ Msg(h.pkid, message[d]) \in Entries(outbound)
    <3>1. h.pkid \in SlotPkids(publishes)
      BY Zenon, <2>3 DEF SlotPkids, h
    <3>2. h.d \in DOMAIN message /\ Msg(h.pkid, message[h.d]) \in Entries(outbound)
      BY Zenon, <2>3, <2>11 DEF Tracked, h
    <3> QED
      BY Zenon, <2>4, <3>1, <3>2
  <2>13. Acknowledging(sent, received, message, outbound, deliveries')
    <3>1. \A x \in DOMAIN message :
             /\ x \in DOMAIN message /\ message[x] = message[x]
             /\ deliveries[x].ack # "held" => deliveries'[x].ack # "held"
      BY Zenon, <2>6, TypesOfMessages DEF Kept
    <3>2. Entries(outbound) \subseteq Entries(outbound)
      BY Zenon
    <3> QED
      BY Zenon, <2>11, <3>1, <3>2, AcknowledgingMore
  <2>14. /\ Acknowledging(sent', received, message, outbound, deliveries')
         /\ AckPkids(sent', received) \subseteq AckPkids(sent, received) \cup {h.pkid}
    <3>1. pkt.pkid \notin AckPkids(sent, received)
      BY Zenon, <2>8, <2>11, <2>12 DEF Apart
    <3>2. pkt.op \in DOMAIN message /\ deliveries'[pkt.op].ack # "held"
          /\ Msg(pkt.pkid, message[pkt.op]) \in Entries(outbound)
      BY Zenon, <2>8, <2>10, <2>12
    <3>3. /\ Acknowledging(Append(sent, pkt), received, message, outbound, deliveries')
          /\ AckPkids(Append(sent, pkt), received) \subseteq AckPkids(sent, received) \cup {pkt.pkid}
      BY Zenon, <2>7, <2>13, <3>1, <3>2, <1>PubAckWritten, TypesOfMessages
    <3> QED
      BY Zenon, <2>5, <2>8, <3>3
  <2>15. \A i \in DOMAIN publishes' : \E j \in DOMAIN publishes :
            publishes'[i] = publishes[j] /\ j # 1
    <3>1. \A i \in DOMAIN Tail(publishes) : i + 1 \in DOMAIN publishes /\ i + 1 # 1
                                            /\ Tail(publishes)[i] = publishes[i + 1]
      BY <2>1, <2>2 DEF AckTypes
    <3> QED
      BY Zenon, <2>5, <3>1
  <2>16. Tracked(publishes', message, outbound) /\ SlotPkids(publishes') \subseteq SlotPkids(publishes)
    <3>1. /\ \A i \in DOMAIN publishes' : \E j \in DOMAIN publishes :
                publishes'[i].pkid = publishes[j].pkid /\ publishes'[i].d = publishes[j].d
          /\ \A x \in DOMAIN message : x \in DOMAIN message /\ message[x] = message[x]
          /\ Entries(outbound) \subseteq Entries(outbound)
      BY Zenon, <2>15
    <3> QED
      BY Zenon, <2>11, <3>1, <1>TrackedMore
  <2>17. h.pkid \notin SlotPkids(publishes')
    BY Zenon, <2>4, <2>15 DEF SlotPkids
  <2>18. Apart(MessagePkids(to_client), SlotPkids(publishes'), AckPkids(sent', received))
    BY Zenon, <2>11, <2>12, <2>14, <2>16, <2>17 DEF Apart
  <2> QED
    BY Zenon, <2>5, <2>11, <2>14, <2>16, <2>18 DEF MessageInv

\* The send loop.
<1>SendMessages.
    ASSUME SystemInv, SystemInv', MessageInv, Send, UNCHANGED serverVars
    PROVE  MessageInv'
  <2> USE <1>SendMessages
  <2>1. mode = "connected" /\ mode' = mode
    BY Zenon, SendCases DEF SystemInv, SystemTypeOK
  <2>2. Kept
    BY Zenon, ClientKeeps DEF SystemInv
  <2>3. UNCHANGED <<message, outbound, received, to_client>>
    BY Zenon DEF serverVars
  <2>4. sent \in Seq(PacketType) /\ publishes \in Seq(SlotType) /\ publishes' \in Seq(SlotType)
    BY Zenon, TypesOfMessages DEF SystemInv, TypeOK, InflightTypeOK
  <2>5. Acknowledging(sent, received, message, outbound, deliveries)
    BY Zenon DEF MessageInv
  <2>6. CASE send_ready_ack
    BY Zenon, <2>6, <1>ReadyAckMessages
  <2>7. CASE route_ack
    <3> DEFINE d == Head(ack_rx)
    <3>1. /\ publishes' = IF Stale(d) THEN publishes ELSE MarkReady(d)
          /\ sent' = sent
      <4>1. ack_rx # <<>>
        BY Zenon, <2>7 DEF route_ack
      <4>2. Stale(d) \/ \E i \in DOMAIN publishes : publishes[i].pkid = deliveries[d].pkid
        BY Zenon, <2>1, <4>1, QueuedAckHasSlot DEF SystemInv
      <4> QED
        BY Zenon, <2>7, <4>2 DEF route_ack
    <3> HIDE DEF d
    <3>2. \A e \in SlotType : [e EXCEPT !.ack = d].pkid = e.pkid /\ [e EXCEPT !.ack = d].d = e.d
      BY Zenon DEF SlotType
    <3>3. \A i \in DOMAIN publishes : publishes[i] \in SlotType
      BY <2>4
    <3>4. \A i \in DOMAIN MarkReady(d) :
             /\ i \in DOMAIN publishes
             /\ MarkReady(d)[i].pkid = publishes[i].pkid /\ MarkReady(d)[i].d = publishes[i].d
      BY Zenon, <3>2, <3>3 DEF MarkReady
    <3>5. \A i \in DOMAIN publishes' : \E j \in DOMAIN publishes :
              publishes'[i].pkid = publishes[j].pkid /\ publishes'[i].d = publishes[j].d
      BY Zenon, <3>1, <3>4
    <3> QED
      BY Zenon, <2>1, <2>2, <2>3, <2>5, <3>1, <3>5, <1>MessageStays
  <2>8. ASSUME publishes' = publishes, sent' = sent
        PROVE  MessageInv'
    BY Zenon, <2>1, <2>2, <2>3, <2>5, <2>8, <1>MessageStays
  <2>9. ASSUME NEW type, type # "PUBACK", NEW p, NEW o, NEW dup, publishes' = publishes,
               sent' = Append(sent, Pkt(type, p, o, dup))
        PROVE  MessageInv'
    <3> DEFINE pkt == Pkt(type, p, o, dup)
    <3>1. pkt.type # "PUBACK"
      BY Zenon, <2>9 DEF Pkt
    <3> HIDE DEF pkt
    <3>2. sent' = Append(sent, pkt)
      BY Zenon, <2>9 DEF pkt
    <3>3. pkt \in PacketType
      BY Zenon, <3>2, AppendedPacket DEF SystemInv
    <3>4. /\ Acknowledging(Append(sent, pkt), received, message, outbound, deliveries)
          /\ AckPkids(Append(sent, pkt), received) \subseteq AckPkids(sent, received)
      BY Zenon, <2>4, <2>5, <3>1, <3>3, <1>NonAckWritten
    <3>5. \A i \in DOMAIN publishes' : \E j \in DOMAIN publishes :
              publishes'[i].pkid = publishes[j].pkid /\ publishes'[i].d = publishes[j].d
      BY Zenon, <2>9
    <3> QED
      BY Zenon, <2>1, <2>2, <2>3, <3>2, <3>4, <3>5, <1>MessageStays
  <2>10. /\ "PUBLISH" # "PUBACK" /\ "SUBSCRIBE" # "PUBACK" /\ "UNSUBSCRIBE" # "PUBACK"
         /\ "PINGREQ" # "PUBACK" /\ "AUTH" # "PUBACK" /\ "DISCONNECT" # "PUBACK"
    BY Zenon
  <2>11. CASE send_replayed \/ send_disconnect \/ send_auth \/ send_ping \/ send_keep_alive
              \/ send_publish_qos0 \/ flush
    <3>1. CASE send_replayed
      BY Zenon, <2>9, <2>10, <3>1 DEF send_replayed, Write
    <3>2. CASE send_disconnect
      BY Zenon, <2>9, <2>10, <3>2 DEF send_disconnect
    <3>3. CASE send_auth
      BY Zenon, <2>9, <2>10, <3>3 DEF send_auth, Write
    <3>4. CASE send_ping \/ send_keep_alive
      BY Zenon, <2>9, <2>10, <3>4 DEF send_ping, send_keep_alive, WritePing, Write
    <3>5. CASE send_publish_qos0
      BY Zenon, <2>9, <2>10, <3>5 DEF send_publish_qos0, Write
    <3>6. CASE flush
      BY Zenon, <2>8, <3>6 DEF flush
    <3> QED
      BY Zenon, <2>11, <3>1, <3>2, <3>3, <3>4, <3>5, <3>6
  <2>12. CASE \/ \E p \in Pkids : send_subscription(p)
              \/ \E p \in Pkids : send_publish_qos1(p)
    <3>1. \/ \E p, o : sent' = Append(sent, Pkt("SUBSCRIBE", p, o, FALSE))
          \/ \E p, o : sent' = Append(sent, Pkt("UNSUBSCRIBE", p, o, FALSE))
          \/ \E p, o : sent' = Append(sent, Pkt("PUBLISH", p, o, FALSE))
      BY Zenon, <2>12, SubscriptionKeys, PublishKeys DEF SystemInv
    <3>2. publishes' = publishes
      BY Zenon, <2>12 DEF send_subscription, send_publish_qos1
    <3> QED
      BY Zenon, <2>9, <2>10, <3>1, <3>2
  <2> QED
    BY Zenon, <2>6, <2>7, <2>11, <2>12 DEF Send

\* A session that the server resumes has all its messages sent again, and the
\* client tracks none of them.
<1>ConnectMessages.
    ASSUME SystemInv, MessageInv, SystemConnect
    PROVE  MessageInv'
  <2> USE <1>ConnectMessages
  <2>1. PICK sp \in BOOLEAN, e \in Expiries, m \in Methods \cup {NoMethod}, ka \in KeepAlives :
           /\ connect(sp, e, Absent, m, ka)
           /\ outbound' = IF sp THEN outbound ELSE <<>>
           /\ to_client' = IF sp THEN [i \in DOMAIN outbound |-> Message(outbound[i])] ELSE <<>>
    BY Zenon DEF SystemConnect
  <2>2. mode = "ready" /\ sent' = <<>> /\ publishes' = publishes
    BY Zenon, <2>1 DEF connect
  <2>3. publishes = <<>>
    BY Zenon, <2>2 DEF SystemInv, AckInv, AckTracker, OpenSlots, Alive
  <2>4. PubAcksIn(sent', received') = {} /\ DOMAIN publishes' = {}
    BY <2>2, <2>3 DEF PubAcksIn
  <2>5. Acknowledging(sent', received', message', outbound', deliveries')
    BY Zenon, <2>4 DEF Acknowledging
  <2>6. Tracked(publishes', message', outbound')
    BY Zenon, <2>4 DEF Tracked
  <2>7. /\ AckPkids(sent', received') = {} /\ SlotPkids(publishes') = {}
    BY Zenon, <2>4 DEF AckPkids, SlotPkids
  <2>8. Apart(MessagePkids(to_client'), SlotPkids(publishes'), AckPkids(sent', received'))
    BY Zenon, <2>7 DEF Apart
  <2>9. UniqueKeys(outbound') /\ OnTheWay(to_client', outbound')
    <3>1. UniqueKeys(outbound) /\ outbound \in Seq(MessageType)
      BY Zenon, TypesOfMessages DEF MessageInv
    <3>2. CASE sp
      <4> DEFINE C == [i \in DOMAIN outbound |-> Message(outbound[i])]
      <4>1. \A i \in DOMAIN outbound : C[i].pkid = outbound[i].pkid /\ C[i].msg = outbound[i].msg
        BY Zenon DEF Message
      <4>2. \A i \in DOMAIN outbound : Msg(outbound[i].pkid, outbound[i].msg) = outbound[i]
        <5> SUFFICES ASSUME NEW i \in DOMAIN outbound
                     PROVE  Msg(outbound[i].pkid, outbound[i].msg) = outbound[i]
          BY Zenon
        <5>1. outbound[i] \in MessageType
          BY <3>1
        <5> QED
          BY Zenon, <5>1 DEF MessageType, Msg
      <4>3. DOMAIN C = DOMAIN outbound
        BY Zenon
      <4>4. to_client' = C /\ outbound' = outbound
        BY Zenon, <2>1, <3>2
      <4> HIDE DEF C
      <4>5. \A j \in DOMAIN C : Msg(C[j].pkid, C[j].msg) \in Entries(outbound)
        BY Zenon, <4>1, <4>2, <4>3 DEF Entries
      <4>6. \A i, j \in DOMAIN C : C[i].pkid = C[j].pkid => i = j
        BY Zenon, <3>1, <4>1, <4>3 DEF UniqueKeys
      <4>7. OnTheWay(C, outbound)
        BY Zenon, <4>5, <4>6 DEF OnTheWay, PublishesIn
      <4> QED
        BY Zenon, <3>1, <4>4, <4>7
    <3>3. CASE ~sp
      <4>1. outbound' = <<>> /\ to_client' = <<>> /\ DOMAIN <<>> = {}
        BY <2>1, <3>3
      <4>2. DOMAIN outbound' = {} /\ DOMAIN to_client' = {}
        BY Zenon, <4>1
      <4> QED
        BY Zenon, <4>2 DEF UniqueKeys, OnTheWay, PublishesIn
    <3> QED
      BY Zenon, <3>2, <3>3
  <2> QED
    BY Zenon, <2>5, <2>6, <2>8, <2>9 DEF MessageInv

\* The connection ends: the PUBACKs that are written may still arrive.
<1>EndMessages.
    ASSUME SystemInv, MessageInv, ConnectionEnds
    PROVE  MessageInv'
  <2> USE <1>EndMessages
  <2>1. Kept
    BY Zenon, ClientKeeps DEF SystemInv, ConnectionEnds
  <2>2. mode' = "ready" /\ sent' = sent
    BY Zenon, EndsOnce DEF ConnectionEnds, EndConnection
  <2>3. UNCHANGED <<received, outbound, message>>
    BY Zenon DEF ConnectionEnds
  <2>4. mode' # "connected"
    BY Zenon, <2>2
  <2>5. \A x \in DOMAIN message :
           /\ x \in DOMAIN message /\ message[x] = message[x]
           /\ deliveries[x].ack # "held" => deliveries'[x].ack # "held"
    BY Zenon, <2>1, TypesOfMessages DEF Kept
  <2>6. Entries(outbound) \subseteq Entries(outbound) /\ UniqueKeys(outbound)
        /\ Acknowledging(sent, received, message, outbound, deliveries)
    BY Zenon DEF MessageInv
  <2>7. Acknowledging(sent, received, message, outbound, deliveries')
    BY Zenon, <2>5, <2>6, AcknowledgingMore
  <2> QED
    BY Zenon, <2>2, <2>3, <2>4, <2>6, <2>7 DEF MessageInv

\* The server publishes a message: its identifier is that of no other message in
\* flight, so it is neither tracked by the client nor acknowledged.
<1>PublishMessages.
    ASSUME SystemInv, MessageInv, NEW p \in ServerPkids, ServerPublish(p)
    PROVE  MessageInv'
  <2> USE <1>PublishMessages
  <2> DEFINE m == [pkid |-> p, msg |-> published + 1]
  <2>1. /\ mode = "connected" /\ \A i \in DOMAIN outbound : outbound[i].pkid # p
        /\ outbound' = Append(outbound, m) /\ to_client' = to_client \o <<Message(m)>>
        /\ UNCHANGED <<sent, received, message, deliveries, publishes>>
    BY Zenon DEF ServerPublish, Answer, sessionVars
  <2>2. m = Msg(m.pkid, m.msg) /\ m.pkid = p
    BY Zenon DEF Msg
  <2> HIDE DEF m
  <2>3. /\ outbound \in Seq(MessageType) /\ to_client \in Seq(ReplyType)
    BY Zenon, TypesOfMessages
  <2>4. /\ UniqueKeys(outbound)
        /\ Acknowledging(sent, received, message, outbound, deliveries)
        /\ OnTheWay(to_client, outbound)
        /\ Tracked(publishes, message, outbound)
        /\ Apart(MessagePkids(to_client), SlotPkids(publishes), AckPkids(sent, received))
    BY Zenon, <2>1 DEF MessageInv
  <2>5. UniqueKeys(outbound') /\ Entries(outbound') = Entries(outbound) \cup {m}
    <3> DEFINE n == Len(outbound) + 1
    <3>1. /\ n \in DOMAIN outbound' /\ outbound'[n] = m
          /\ \A i \in DOMAIN outbound : i \in DOMAIN outbound' /\ outbound'[i] = outbound[i]
          /\ \A i \in DOMAIN outbound' : i = n \/ (i \in DOMAIN outbound /\ outbound'[i] = outbound[i])
      BY <2>1, <2>3
    <3> HIDE DEF n
    <3>2. UniqueKeys(outbound')
      BY <2>1, <2>2, <2>4, <3>1 DEF UniqueKeys
    <3>3. Entries(outbound') = Entries(outbound) \cup {m}
      BY Zenon, <3>1 DEF Entries
    <3> QED
      BY Zenon, <3>2, <3>3
  <2>6. \A q, t : Msg(q, t) \in Entries(outbound) => q # p
    <3> SUFFICES ASSUME NEW q, NEW t, Msg(q, t) \in Entries(outbound) PROVE q # p
      BY Zenon
    <3>1. PICK i \in DOMAIN outbound : outbound[i] = Msg(q, t)
      BY Zenon DEF Entries
    <3>2. Msg(q, t).pkid = q
      BY Zenon DEF Msg
    <3> QED
      BY Zenon, <2>1, <3>1, <3>2
  <2>7. m.pkid \notin PkidsOf(Entries(outbound))
    BY Zenon, <2>1, <2>2 DEF PkidsOf, Entries
  <2>8. /\ OnTheWay(to_client', outbound')
        /\ MessagePkids(to_client') \subseteq MessagePkids(to_client) \cup {m.pkid}
    BY Zenon, <2>1, <2>2, <2>3, <2>4, <2>5, <2>7, <1>MessagePublished
  <2>9. p \notin SlotPkids(publishes)
    BY Zenon, <2>4, <2>6 DEF SlotPkids, Tracked
  <2>10. p \notin AckPkids(sent, received)
    BY Zenon, <2>4, <2>6 DEF AckPkids, Acknowledging
  <2>11. Apart(MessagePkids(to_client'), SlotPkids(publishes), AckPkids(sent, received))
    BY Zenon, <2>2, <2>4, <2>8, <2>9, <2>10 DEF Apart
  <2>12. /\ Entries(outbound) \subseteq Entries(outbound')
         /\ \A i \in DOMAIN publishes : \E j \in DOMAIN publishes :
               publishes[i].pkid = publishes[j].pkid /\ publishes[i].d = publishes[j].d
    BY Zenon, <2>5
  <2>13. Acknowledging(sent, received, message, outbound', deliveries)
    BY Zenon, <2>4, <2>12, AcknowledgingMore
  <2>14. Tracked(publishes, message, outbound')
    BY Zenon, <2>4, <2>12, <1>TrackedMore
  <2> QED
    BY Zenon, <2>1, <2>5, <2>8, <2>11, <2>13, <2>14 DEF MessageInv
<1>1. Acknowledging(sent, received, message, outbound, deliveries)
  BY Zenon DEF MessageInv
<1>2. CASE ClientLocal /\ Application
  <2>1. Kept
    BY Zenon, <1>2, ClientKeeps DEF SystemInv
  <2>2. UNCHANGED <<message, outbound, received, to_client, sent, publishes>>
    BY Zenon, <1>2, ApplicationFrame DEF ClientLocal, serverVars
  <2>3. mode' = "connected" => mode = "connected"
    BY Zenon, <1>2, ApplicationFrame
  <2>4. \A i \in DOMAIN publishes' : \E j \in DOMAIN publishes :
            publishes'[i].pkid = publishes[j].pkid /\ publishes'[i].d = publishes[j].d
    BY Zenon, <2>2
  <2> QED
    BY Zenon, <1>1, <2>1, <2>2, <2>3, <2>4, <1>MessageStays
<1>3. CASE ClientLocal /\ Send
  BY Zenon, <1>3, <1>SendMessages DEF ClientLocal
<1>4. CASE UNCHANGED systemVars
  BY Zenon, <1>4 DEF systemVars, sessionVars, serverVars, MessageInv
<1> QED
  BY Zenon, <1>2, <1>3, <1>4, <1>ConnectMessages, ReceiveMessages, <1>EndMessages,
     ServerReceiveMessages, <1>PublishMessages DEF SystemNext, ClientLocal

\* No message is in flight at the start.
LEMMA MessageInit == SystemInit => MessageInv
<1> SUFFICES ASSUME SystemInit PROVE MessageInv
  BY Zenon
<1>1. outbound = <<>> /\ sent = <<>> /\ received = 0 /\ mode = "ready"
  BY Zenon DEF SystemInit, Init
<1>2. DOMAIN outbound = {} /\ PubAcksIn(sent, received) = {} /\ mode # "connected"
  BY <1>1 DEF PubAcksIn
<1> QED
  BY Zenon, <1>2 DEF MessageInv, UniqueKeys, Acknowledging

\* The inductive invariant of the messages.
LEMMA MessageInvariant == SystemSpec => [](SystemInv /\ MessageInv)
<1>1. SystemInv /\ SystemInv' /\ MessageInv /\ [SystemNext]_systemVars => MessageInv'
  BY Zenon, MessageStep
<1> QED
  BY <1>1, MessageInit, SystemInvariant, PTL DEF SystemSpec

\* A message that the server has as acknowledged is one that the application was
\* given and has acknowledged, whatever connections its PUBLISHes and PUBACKs were
\* sent on (acknowledge, route_ack, incoming_publish_qos1).
THEOREM AcknowledgedAlwaysByApplication == SystemSpec => []AcknowledgedByApplication

\* Deliveries and their acknowledgements are not taken back.
<1>DeliveriesGrow.
    ASSUME SystemInv, [SystemNext]_systemVars
    PROVE  \A d \in DOMAIN deliveries :
              /\ d \in DOMAIN deliveries' /\ message'[d] = message[d]
              /\ deliveries[d].ack # "held" => deliveries'[d].ack # "held"
  <2> USE <1>DeliveriesGrow
  <2>1. /\ deliveries \in Seq(DeliveryType) /\ message \in Seq(Nat)
        /\ DOMAIN message = DOMAIN deliveries
    BY Zenon, TypesOfMessages
  <2>2. deliveries' \in Seq(DeliveryType)
    BY Zenon, ClientStep, TypeStep DEF SystemInv, TypeOK, HandlesTypeOK
  <2>3. ASSUME Kept, message' = message
        PROVE  \A d \in DOMAIN deliveries :
                /\ d \in DOMAIN deliveries' /\ message'[d] = message[d]
                /\ deliveries[d].ack # "held" => deliveries'[d].ack # "held"
    <3>1. DOMAIN deliveries' = DOMAIN deliveries
      BY <2>1, <2>2, <2>3 DEF Kept
    <3> QED
      BY Zenon, <2>3, <3>1 DEF Kept
  <2>4. CASE ClientLocal \/ ConnectionEnds
    <3>1. Kept
      BY Zenon, <2>4, ClientKeeps DEF SystemInv, ClientLocal, ConnectionEnds
    <3>2. message' = message
      BY Zenon, <2>4 DEF ClientLocal, ConnectionEnds, serverVars
    <3> QED
      BY Zenon, <2>3, <3>1, <3>2
  <2>5. CASE SystemConnect \/ ServerReceive \/ (\E p \in ServerPkids : ServerPublish(p))
             \/ UNCHANGED systemVars
    <3>1. deliveries' = deliveries /\ message' = message
      BY Zenon, <2>5 DEF SystemConnect, connect, ServerReceive, ServerPublish, systemVars,
         sessionVars, serverVars
    <3> QED
      BY Zenon, <3>1
  <2>6. CASE ClientReceive
    <3>1. CASE Delivers(Head(to_client))
      <4> DEFINE x == [pkid |-> Head(to_client).pkid, epoch |-> connection_epoch, ack |-> "held"]
                 t == Head(to_client).msg
      <4>1. deliveries' = Append(deliveries, x) /\ message' = Append(message, t)
        BY Zenon, <3>1 DEF Delivers
      <4> HIDE DEF x, t
      <4>2. \A d \in DOMAIN deliveries :
               /\ d \in DOMAIN deliveries' /\ deliveries'[d] = deliveries[d]
               /\ message'[d] = message[d]
        BY <2>1, <4>1
      <4> QED
        BY Zenon, <4>2
    <3> QED
      BY Zenon, <2>3, <2>6, <3>1, ReceiveDelivers DEF SystemInv
  <2> QED
    BY Zenon, <2>4, <2>5, <2>6 DEF SystemNext
<1>1. SystemInit => AcknowledgedByApplication
  BY Zenon DEF SystemInit, AcknowledgedByApplication
<1>2. ASSUME SystemInv, MessageInv, AcknowledgedByApplication, [SystemNext]_systemVars
      PROVE  AcknowledgedByApplication'
  <2>1. \A m \in acknowledged' :
           \/ m \in acknowledged
           \/ \E d \in DOMAIN deliveries : message[d] = m /\ deliveries[d].ack # "held"
    <3>1. ServerReceive \/ acknowledged' = acknowledged
      BY Zenon, <1>2 DEF SystemNext, ClientLocal, SystemConnect, ClientReceive, ConnectionEnds,
         ServerPublish, systemVars, serverVars
    <3> QED
      BY Zenon, <1>2, <3>1, ServerReceiveMessages
  <2>2. \A m \in acknowledged' :
           \E d \in DOMAIN deliveries : message[d] = m /\ deliveries[d].ack # "held"
    BY Zenon, <1>2, <2>1 DEF AcknowledgedByApplication
  <2>3. \A m \in acknowledged' :
           \E d \in DOMAIN deliveries' : message'[d] = m /\ deliveries'[d].ack # "held"
    BY ZenonT(30), <1>2, <2>2, <1>DeliveriesGrow
  <2> QED
    BY Zenon, <2>3 DEF AcknowledgedByApplication
<1>3. SystemInv /\ MessageInv /\ AcknowledgedByApplication /\ [SystemNext]_systemVars
         => AcknowledgedByApplication'
  BY Zenon, <1>2
<1> QED
  BY <1>1, <1>3, MessageInvariant, PTL DEF SystemSpec
=============================================================================

---------------------------- MODULE SystemProofs ----------------------------
(***************************************************************************)
(* The client against a server that answers as MQTT prescribes, for every  *)
(* value of the constants.                                                 *)
(*                                                                         *)
(* An answer carries an identifier only, and identifiers are reused.  The  *)
(* inductive invariant SystemInv follows every operation in flight: it has *)
(* at most one of a request in transit, an answer in transit and a turn in *)
(* the list of PUBLISHes to replay (OneOnTheWire), what is in transit is   *)
(* of the operation that holds the identifier (Wire), and the pool leases  *)
(* exactly the keys of the maps (KeysInv).                                 *)
(***************************************************************************)
EXTENDS MqttSystem, SessionProofs

USE DEF poolVars, channels, inflight, connection, handles

ReplyType ==
    [type : {"PUBACK", "SUBACK", "UNSUBACK"}, pkid : Pkids, msg : {0}]
    \cup [type : {"PINGRESP"}, pkid : {0}, msg : {0}]
    \cup [type : {"PUBLISH"}, pkid : ServerPkids, msg : Nat]

MessageType == [pkid : ServerPkids, msg : Nat]

\* The types of the server's state, and the operations that it is not sent.
SystemTypeOK ==
    /\ received \in 0..Len(sent)
    /\ to_client \in Seq(ReplyType)
    /\ outbound \in Seq(MessageType)
    /\ published \in Nat
    /\ processed \subseteq Nat
    /\ arrivals \in Seq(Nat)
    /\ message \in Seq(Nat)
    /\ Len(message) = Len(deliveries)
    /\ o_pub_q0_rx = <<>>

\* The client of the system is the session of Session: what the server sends and
\* does is something the open server of Session may do.
LEMMA ClientStep ==
    ASSUME SystemTypeOK, [SystemNext]_systemVars
    PROVE  [Next]_sessionVars
<1>1. CASE ClientLocal
  BY Zenon, <1>1 DEF ClientLocal, Next
<1>2. CASE SystemConnect
  <2>1. PICK sp \in BOOLEAN, e \in Expiries, m \in Methods \cup {NoMethod}, ka \in KeepAlives :
           connect(sp, e, Absent, m, ka)
    BY Zenon, <1>2 DEF SystemConnect
  <2>2. Absent \in Expiries \cup {Absent}
    BY Zenon
  <2> QED
    BY Zenon, <2>1, <2>2 DEF Next, Connect
<1>3. CASE ClientReceive
  <2> DEFINE pkt == Head(to_client)
  <2>1. pkt \in ReplyType
    BY <1>3 DEF ClientReceive, SystemTypeOK
  <2>2. /\ pkt.type \in {"PUBACK", "SUBACK", "UNSUBACK"} => pkt.pkid \in Pkids
        /\ pkt.type = "PUBLISH" => pkt.pkid \in ServerPkids
    BY Zenon, <2>1 DEF ReplyType
  <2>3. Handle(pkt)
    BY Zenon, <1>3 DEF ClientReceive
  <2> HIDE DEF pkt
  <2>4. Receive
    BY Zenon, <2>2, <2>3 DEF Handle, Receive
  <2> QED
    BY Zenon, <2>4 DEF Next
<1>4. CASE ConnectionEnds
  BY Zenon, <1>4 DEF ConnectionEnds, Next, Receive
<1>5. CASE ServerReceive \/ \E p \in ServerPkids : ServerPublish(p)
  BY Zenon, <1>5 DEF ServerReceive, ServerPublish
<1>6. CASE UNCHANGED systemVars
  BY Zenon, <1>6 DEF systemVars
<1> QED
  BY Zenon, <1>1, <1>2, <1>3, <1>4, <1>5, <1>6 DEF SystemNext

-----------------------------------------------------------------------------
OneEach(S) == \A e, f \in S : e.pkid = f.pkid => e = f

\* Leased identifiers and the operations in flight correspond one to one.
KeysInv ==
    /\ leased = PkidsOf(Entries(publish_qos1)) \cup PkidsOf(subscribe) \cup PkidsOf(unsubscribe)
    /\ UniqueKeys(publish_qos1) /\ OneEach(subscribe) /\ OneEach(unsubscribe)
    /\ InflightKeysDisjoint

KeysVars == <<leased, publish_qos1, subscribe, unsubscribe>>

\* The identifier that is leased is not in use.
LEMMA LeasedIsNew ==
    ASSUME KeysInv, NEW p \in Pkids, lease_next_pkid(p)
    PROVE  /\ leased' = leased \cup {p}
           /\ \A e \in Entries(publish_qos1) \cup subscribe \cup unsubscribe : e.pkid # p
<1>1. p \notin leased /\ leased' = leased \cup {p}
  BY Zenon DEF lease_next_pkid, NextFree, Free
<1>2. \A e \in Entries(publish_qos1) \cup subscribe \cup unsubscribe : e.pkid \in leased
  BY Zenon DEF KeysInv, PkidsOf
<1> QED
  BY Zenon, <1>1, <1>2

\* A SUBSCRIBE or an UNSUBSCRIBE is sent.
LEMMA SubscriptionKeys ==
    ASSUME KeysInv, NEW p \in Pkids, send_subscription(p)
    PROVE  /\ KeysInv'
           /\ publish_qos1' = publish_qos1
           /\ \A e \in Entries(publish_qos1) \cup subscribe \cup unsubscribe : e.pkid # p
           /\ token' = Resolve({}, "detached")
           /\ \E o : \/ /\ subscribe' = subscribe \cup {Entry(p, o)}
                        /\ unsubscribe' = unsubscribe
                        /\ sent' = Append(sent, Pkt("SUBSCRIBE", p, o, FALSE))
                     \/ /\ unsubscribe' = unsubscribe \cup {Entry(p, o)}
                        /\ subscribe' = subscribe
                        /\ sent' = Append(sent, Pkt("UNSUBSCRIBE", p, o, FALSE))

\* HashMap::insert with a new key only adds.
<1>HashInsertNew.
    ASSUME NEW S, NEW x, \A e \in S : e.pkid # x.pkid
    PROVE  /\ HashInsert(S, x) = S \cup {x}
           /\ Overwritten(S, x.pkid) = {}
  BY Zenon, <1>HashInsertNew DEF HashInsert, Overwritten
<1> DEFINE o == Head(sub_rx).op
           x == Entry(p, o)
<1>1. /\ leased' = leased \cup {p}
      /\ \A e \in Entries(publish_qos1) \cup subscribe \cup unsubscribe : e.pkid # p
  BY Zenon, LeasedIsNew DEF send_subscription
<1>2. publish_qos1' = publish_qos1
  BY Zenon DEF send_subscription
<1>3. x.pkid = p
  BY Zenon DEF Entry
<1>4. PkidsOf(Entries(publish_qos1))' = PkidsOf(Entries(publish_qos1))
      /\ UniqueKeys(publish_qos1)' = UniqueKeys(publish_qos1)
  BY Zenon, <1>2 DEF PkidsOf, Entries, UniqueKeys
<1>5. CASE Head(sub_rx).kind = "sub"
  <2>1. /\ subscribe' = HashInsert(subscribe, x) /\ unsubscribe' = unsubscribe
        /\ token' = Resolve(Overwritten(subscribe, p), "detached")
        /\ sent' = Append(sent, Pkt("SUBSCRIBE", p, o, FALSE))
    BY Zenon, <1>5 DEF send_subscription, Write
  <2>2. /\ HashInsert(subscribe, x) = subscribe \cup {x}
        /\ Overwritten(subscribe, p) = {}
    <3> HIDE DEF x
    <3>1. \A e \in subscribe : e.pkid # x.pkid
      BY Zenon, <1>1, <1>3
    <3>2. HashInsert(subscribe, x) = subscribe \cup {x} /\ Overwritten(subscribe, x.pkid) = {}
      BY Zenon, <3>1, <1>HashInsertNew
    <3> QED
      BY Zenon, <1>3, <3>2
  <2> HIDE DEF x
  <2>3. subscribe' = subscribe \cup {x}
    BY Zenon, <2>1, <2>2
  <2>4. PkidsOf(subscribe)' = PkidsOf(subscribe) \cup {p}
    BY Zenon, <1>3, <2>3 DEF PkidsOf
  <2>5. OneEach(subscribe)' /\ OneEach(unsubscribe)'
    BY Zenon, <1>1, <1>3, <2>1, <2>3 DEF OneEach, KeysInv
  <2>6. PkidsOf(unsubscribe)' = PkidsOf(unsubscribe)
    BY Zenon, <2>1
  <2>7. p \notin PkidsOf(unsubscribe) /\ p \notin PkidsOf(Entries(publish_qos1))
    BY Zenon, <1>1 DEF PkidsOf
  <2>8. KeysInv'
    <3>1. leased' = PkidsOf(Entries(publish_qos1))' \cup PkidsOf(subscribe)'
                      \cup PkidsOf(unsubscribe)'
      BY Zenon, <1>1, <1>4, <2>4, <2>6 DEF KeysInv
    <3>2. InflightKeysDisjoint'
      BY Zenon, <1>4, <2>4, <2>6, <2>7 DEF KeysInv, InflightKeysDisjoint
    <3> QED
      BY Zenon, <1>4, <2>5, <3>1, <3>2 DEF KeysInv
  <2> QED
    BY Zenon, <1>1, <1>2, <2>1, <2>2, <2>3, <2>8 DEF x
<1>6. CASE Head(sub_rx).kind # "sub"
  <2>1. /\ unsubscribe' = HashInsert(unsubscribe, x) /\ subscribe' = subscribe
        /\ token' = Resolve(Overwritten(unsubscribe, p), "detached")
        /\ sent' = Append(sent, Pkt("UNSUBSCRIBE", p, o, FALSE))
    BY Zenon, <1>6 DEF send_subscription, Write
  <2>2. /\ HashInsert(unsubscribe, x) = unsubscribe \cup {x}
        /\ Overwritten(unsubscribe, p) = {}
    <3> HIDE DEF x
    <3>1. \A e \in unsubscribe : e.pkid # x.pkid
      BY Zenon, <1>1, <1>3
    <3>2. HashInsert(unsubscribe, x) = unsubscribe \cup {x} /\ Overwritten(unsubscribe, x.pkid) = {}
      BY Zenon, <3>1, <1>HashInsertNew
    <3> QED
      BY Zenon, <1>3, <3>2
  <2> HIDE DEF x
  <2>3. unsubscribe' = unsubscribe \cup {x}
    BY Zenon, <2>1, <2>2
  <2>4. PkidsOf(unsubscribe)' = PkidsOf(unsubscribe) \cup {p}
    BY Zenon, <1>3, <2>3 DEF PkidsOf
  <2>5. OneEach(subscribe)' /\ OneEach(unsubscribe)'
    BY Zenon, <1>1, <1>3, <2>1, <2>3 DEF OneEach, KeysInv
  <2>6. PkidsOf(subscribe)' = PkidsOf(subscribe)
    BY Zenon, <2>1
  <2>7. p \notin PkidsOf(subscribe) /\ p \notin PkidsOf(Entries(publish_qos1))
    BY Zenon, <1>1 DEF PkidsOf
  <2>8. KeysInv'
    <3>1. leased' = PkidsOf(Entries(publish_qos1))' \cup PkidsOf(subscribe)'
                      \cup PkidsOf(unsubscribe)'
      BY Zenon, <1>1, <1>4, <2>4, <2>6 DEF KeysInv
    <3>2. InflightKeysDisjoint'
      BY Zenon, <1>4, <2>4, <2>6, <2>7 DEF KeysInv, InflightKeysDisjoint
    <3> QED
      BY Zenon, <1>4, <2>5, <3>1, <3>2 DEF KeysInv
  <2> QED
    BY Zenon, <1>1, <1>2, <2>1, <2>2, <2>3, <2>8 DEF x
<1> QED
  BY Zenon, <1>5, <1>6

\* A PUBLISH is sent.
LEMMA PublishKeys ==
    ASSUME TypeOK, KeysInv, NEW p \in Pkids, send_publish_qos1(p)
    PROVE  /\ KeysInv'
           /\ subscribe' = subscribe /\ unsubscribe' = unsubscribe
           /\ \A e \in Entries(publish_qos1) \cup subscribe \cup unsubscribe : e.pkid # p
           /\ publish_qos1' = Append(publish_qos1, Entry(p, Head(o_pub_q12_rx)))
           /\ Entries(publish_qos1') = Entries(publish_qos1) \cup {Entry(p, Head(o_pub_q12_rx))}
           /\ token' = Resolve({}, "detached")
           /\ sent' = Append(sent, Pkt("PUBLISH", p, Head(o_pub_q12_rx), FALSE))

\* IndexMap::insert with a new key appends.
<1>IndexInsertNew.
    ASSUME NEW q \in Seq(EntryType), NEW x \in EntryType, UniqueKeys(q),
           \A e \in Entries(q) : e.pkid # x.pkid
    PROVE  /\ IndexInsert(q, x) = Append(q, x)
           /\ Overwritten(Entries(q), x.pkid) = {}
           /\ Entries(Append(q, x)) = Entries(q) \cup {x}
           /\ UniqueKeys(Append(q, x))
  <2> USE <1>IndexInsertNew
  <2> DEFINE t == Append(q, x)
  <2>1. \A i \in DOMAIN q : q[i].pkid # x.pkid
    BY Zenon DEF Entries
  <2>2. IndexInsert(q, x) = t
    BY Zenon, <2>1 DEF IndexInsert
  <2>3. /\ DOMAIN t = DOMAIN q \cup {Len(q) + 1} /\ Len(q) + 1 \notin DOMAIN q
        /\ \A i \in DOMAIN q : t[i] = q[i]
        /\ t[Len(q) + 1] = x
    OBVIOUS
  <2> HIDE DEF t
  <2>4. Entries(t) = Entries(q) \cup {x}
    BY <2>3 DEF Entries
  <2>5. UniqueKeys(t)
    <3> SUFFICES ASSUME NEW i \in DOMAIN t, NEW j \in DOMAIN t, t[i].pkid = t[j].pkid
                 PROVE  i = j
      BY Zenon DEF UniqueKeys
    <3> QED
      BY Zenon, <2>1, <2>3 DEF UniqueKeys
  <2>6. Overwritten(Entries(q), x.pkid) = {}
    BY Zenon DEF Overwritten
  <2> QED
    BY Zenon, <2>2, <2>4, <2>5, <2>6 DEF t
<1> DEFINE x == Entry(p, Head(o_pub_q12_rx))
<1>1. /\ leased' = leased \cup {p}
      /\ \A e \in Entries(publish_qos1) \cup subscribe \cup unsubscribe : e.pkid # p
  BY Zenon, LeasedIsNew DEF send_publish_qos1
<1>2. /\ publish_qos1' = IndexInsert(publish_qos1, x)
      /\ token' = Resolve(Overwritten(Entries(publish_qos1), p), "detached")
      /\ sent' = Append(sent, Pkt("PUBLISH", p, Head(o_pub_q12_rx), FALSE))
      /\ subscribe' = subscribe /\ unsubscribe' = unsubscribe
      /\ o_pub_q12_rx # <<>>
  BY Zenon DEF send_publish_qos1, Write
<1>3. publish_qos1 \in Seq(EntryType) /\ o_pub_q12_rx \in Seq(Nat \ {0})
  BY Zenon DEF TypeOK, InflightTypeOK, ChannelsTypeOK
<1>4. x \in EntryType /\ x.pkid = p
  BY <1>2, <1>3 DEF Entry, EntryType
<1> HIDE DEF x
<1>5. UniqueKeys(publish_qos1) /\ \A e \in Entries(publish_qos1) : e.pkid # x.pkid
  BY Zenon, <1>1, <1>4 DEF KeysInv
<1>6. /\ publish_qos1' = Append(publish_qos1, x)
      /\ Overwritten(Entries(publish_qos1), p) = {}
      /\ Entries(publish_qos1') = Entries(publish_qos1) \cup {x}
      /\ UniqueKeys(publish_qos1')
  BY Zenon, <1>2, <1>3, <1>4, <1>5, <1>IndexInsertNew
<1>7. KeysInv'
  <2>1. PkidsOf(Entries(publish_qos1)') = PkidsOf(Entries(publish_qos1)) \cup {p}
    BY Zenon, <1>4, <1>6 DEF PkidsOf, Entries
  <2>2. p \notin PkidsOf(subscribe) /\ p \notin PkidsOf(unsubscribe)
    BY Zenon, <1>1 DEF PkidsOf
  <2>3. PkidsOf(subscribe)' = PkidsOf(subscribe) /\ PkidsOf(unsubscribe)' = PkidsOf(unsubscribe)
    BY Zenon, <1>2
  <2>4. leased' = PkidsOf(Entries(publish_qos1)') \cup PkidsOf(subscribe)'
                    \cup PkidsOf(unsubscribe)'
    BY Zenon, <1>1, <2>1, <2>3 DEF KeysInv
  <2>5. InflightKeysDisjoint'
    BY Zenon, <2>1, <2>2, <2>3 DEF KeysInv, InflightKeysDisjoint
  <2>6. OneEach(subscribe)' /\ OneEach(unsubscribe)'
    BY Zenon, <1>2 DEF OneEach, KeysInv
  <2>7. UniqueKeys(publish_qos1)'
    BY Zenon, <1>6 DEF UniqueKeys
  <2> QED
    BY Zenon, <2>4, <2>5, <2>6, <2>7 DEF KeysInv
<1> QED
  BY Zenon, <1>1, <1>2, <1>6, <1>7 DEF x

\* The end of a connection releases the identifiers of what it cancels.
LEMMA EndConnectionKeys ==
    ASSUME KeysInv, NEW e, EndConnection(e, {})
    PROVE  /\ KeysInv'
           /\ mode' = "ready" /\ subscribe' = {} /\ unsubscribe' = {} /\ pingreq' = <<>>
           /\ packets_to_replay' = publish_qos1'
           /\ publish_qos1' \in {<<>>, publish_qos1}
           /\ sent' = sent
<1>1. /\ mode' = "ready" /\ subscribe' = {} /\ unsubscribe' = {} /\ pingreq' = <<>>
      /\ publish_qos1' = IF e = 0 THEN <<>> ELSE publish_qos1
      /\ packets_to_replay' = IF e = 0 THEN <<>> ELSE publish_qos1
      /\ leased' = leased \ ({} \cup ReleasedOnDisconnect
                                \cup IF e = 0 THEN ReleasedOnExpiry ELSE {})
      /\ sent' = sent
  BY Zenon DEF EndConnection, ToReplay
<1>2. PkidsOf({}) = {} /\ Entries(<<>>) = {} /\ UniqueKeys(<<>>) /\ OneEach({})
  BY DEF PkidsOf, Entries, UniqueKeys, OneEach
<1>3. PkidsOf(subscribe)' = {} /\ PkidsOf(unsubscribe)' = {} /\ OneEach(subscribe)'
      /\ OneEach(unsubscribe)'
  BY Zenon, <1>1, <1>2 DEF OneEach
<1>4. CASE e = 0
  <2>1. leased' = {}
    BY Zenon, <1>1, <1>4 DEF KeysInv, ReleasedOnDisconnect, ReleasedOnExpiry
  <2>2. PkidsOf(Entries(publish_qos1))' = {} /\ UniqueKeys(publish_qos1)'
    BY Zenon, <1>1, <1>2, <1>4 DEF Entries, UniqueKeys
  <2>3. KeysInv'
    BY Zenon, <1>3, <2>1, <2>2 DEF KeysInv, InflightKeysDisjoint
  <2> QED
    BY Zenon, <1>1, <1>4, <2>3
<1>5. CASE e # 0
  <2>1. publish_qos1' = publish_qos1 /\ packets_to_replay' = publish_qos1
    BY Zenon, <1>1, <1>5
  <2>2. PkidsOf(Entries(publish_qos1))' = PkidsOf(Entries(publish_qos1)) /\ UniqueKeys(publish_qos1)'
    BY Zenon, <2>1 DEF Entries, UniqueKeys, KeysInv
  <2>3. leased' = PkidsOf(Entries(publish_qos1))
    BY Zenon, <1>1, <1>5 DEF KeysInv, ReleasedOnDisconnect, InflightKeysDisjoint
  <2>4. KeysInv'
    BY Zenon, <1>3, <2>2, <2>3 DEF KeysInv, InflightKeysDisjoint
  <2> QED
    BY Zenon, <1>1, <2>1, <2>4
<1> QED
  BY Zenon, <1>4, <1>5

\* shift_remove takes the entry with the key, and nothing else; what is left keeps
\* its order.
LEMMA ShiftRemoveKey ==
    ASSUME NEW T, NEW q \in Seq(T), NEW p, p \in PkidsOf(Entries(q)), UniqueKeys(q)
    PROVE  /\ Entries(ShiftRemove(q, p)) = {e \in Entries(q) : e.pkid # p}
           /\ UniqueKeys(ShiftRemove(q, p))
           /\ \A i, j \in DOMAIN ShiftRemove(q, p) : i < j =>
                 \E k, l \in DOMAIN q : /\ k < l
                                        /\ ShiftRemove(q, p)[i] = q[k]
                                        /\ ShiftRemove(q, p)[j] = q[l]
<1> DEFINE r == ShiftRemove(q, p)
           n == Len(q)
<1>1. PICK g \in 1..n :
        /\ q[g].pkid = p
        /\ Overwritten(Entries(q), p) = {q[g].op}
        /\ DOMAIN r = 1..(n - 1)
        /\ \A i \in 1..(n - 1) : r[i] = q[IF i < g THEN i ELSE i + 1]
  BY ZenonT(30), ShiftRemoveShape
<1>2. n \in Nat /\ DOMAIN q = 1..n
  OBVIOUS
<1> DEFINE f(i) == IF i < g THEN i ELSE i + 1
<1> HIDE DEF n, r
<1>3. \A i \in 1..(n - 1) : f(i) \in 1..n /\ f(i) # g
  BY <1>2
<1>4. \A k \in 1..n : k # g => \E i \in 1..(n - 1) : f(i) = k
  <2> SUFFICES ASSUME NEW k \in 1..n, k # g
               PROVE  \E i \in 1..(n - 1) : f(i) = k
    BY Zenon
  <2>1. CASE k < g
    <3>1. k \in 1..(n - 1) /\ f(k) = k
      BY <1>2, <2>1
    <3> QED
      BY Zenon, <3>1
  <2>2. CASE ~(k < g)
    <3>1. k - 1 \in 1..(n - 1) /\ f(k - 1) = k
      BY <1>2, <2>2
    <3> QED
      BY Zenon, <3>1
  <2> QED
    BY Zenon, <2>1, <2>2
<1>5. \A i, j \in 1..(n - 1) : /\ f(i) = f(j) => i = j
                               /\ i < j => f(i) < f(j)
  BY <1>2
<1>6. \A i \in 1..(n - 1) : r[i] = q[f(i)]
  BY Zenon, <1>1
<1>7. DOMAIN r = 1..(n - 1)
  BY Zenon, <1>1
<1>8. \A k \in 1..n : q[k].pkid = p <=> k = g
  BY Zenon, <1>1, <1>2 DEF UniqueKeys
<1> HIDE DEF f
<1>9. Entries(r) = {e \in Entries(q) : e.pkid # p}
  <2>1. ASSUME NEW e \in Entries(r)
        PROVE  e \in Entries(q) /\ e.pkid # p
    BY ZenonT(30), <1>2, <1>3, <1>6, <1>7, <1>8 DEF Entries
  <2>2. ASSUME NEW e \in Entries(q), e.pkid # p
        PROVE  e \in Entries(r)
    <3>1. PICK k \in 1..n : e = q[k] /\ k # g
      BY Zenon, <1>2, <1>8, <2>2 DEF Entries
    <3>2. PICK i \in 1..(n - 1) : f(i) = k
      BY Zenon, <1>4, <3>1
    <3>3. r[i] = e
      BY Zenon, <1>6, <3>1, <3>2
    <3> QED
      BY Zenon, <1>7, <3>3 DEF Entries
  <2> QED
    BY Zenon, <2>1, <2>2
<1>10. UniqueKeys(r)
  <2> SUFFICES ASSUME NEW i \in 1..(n - 1), NEW j \in 1..(n - 1), r[i].pkid = r[j].pkid
               PROVE  i = j
    BY Zenon, <1>7 DEF UniqueKeys
  <2>1. f(i) \in DOMAIN q /\ f(j) \in DOMAIN q /\ r[i] = q[f(i)] /\ r[j] = q[f(j)]
    BY Zenon, <1>2, <1>3, <1>6
  <2>2. q[f(i)].pkid = q[f(j)].pkid
    BY Zenon, <2>1
  <2>3. f(i) = f(j)
    BY Zenon, <2>1, <2>2 DEF UniqueKeys
  <2> QED
    BY Zenon, <1>5, <2>3
<1>11. \A i, j \in DOMAIN r : i < j => \E k, l \in DOMAIN q : k < l /\ r[i] = q[k] /\ r[j] = q[l]
  <2> TAKE i, j \in DOMAIN r
  <2> HAVE i < j
  <2>1. f(i) \in DOMAIN q /\ f(j) \in DOMAIN q /\ r[i] = q[f(i)] /\ r[j] = q[f(j)]
    BY Zenon, <1>2, <1>3, <1>6, <1>7
  <2>2. f(i) < f(j)
    BY Zenon, <1>5, <1>7
  <2> QED
    BY Zenon, <2>1, <2>2
<1> QED
  BY Zenon, <1>9, <1>10, <1>11 DEF r

\* A PUBACK, SUBACK or UNSUBACK that finds its operation takes it out of flight and
\* completes no other.
Finished(S, p) == {e \in S : e.pkid # p}

-----------------------------------------------------------------------------
Requests == {"PUBLISH", "SUBSCRIBE", "UNSUBSCRIBE"}

Answers == {"PUBACK", "SUBACK", "UNSUBACK"}

\* The operations in flight that wait for packets of the type to be answered, or
\* for an answer of the type.
Awaiting ==
    [type \in Requests \cup Answers |->
        IF type \in {"PUBLISH", "PUBACK"} THEN Entries(publish_qos1)
        ELSE IF type \in {"SUBSCRIBE", "SUBACK"} THEN subscribe ELSE unsubscribe]

\* The requests of the packets S that the server has not processed, with r processed
\* ones, and the answers in C.
RequestsIn(S, r) == {k \in (r + 1)..Len(S) : S[k].type \in Requests}

AnswersIn(C) == {j \in DOMAIN C : C[j].type \in Answers}

\* An operation in flight has at most one of: a request in transit, an answer in
\* transit, and a turn in the list of PUBLISHes to replay.
OneOnTheWire(S, r, C, R) ==
    /\ \A k, l \in RequestsIn(S, r) : S[k].pkid = S[l].pkid => k = l
    /\ \A i, j \in AnswersIn(C) : C[i].pkid = C[j].pkid => i = j
    /\ \A k \in RequestsIn(S, r), j \in AnswersIn(C) : S[k].pkid # C[j].pkid
    /\ \A k \in RequestsIn(S, r), e \in Entries(R) : S[k].pkid # e.pkid
    /\ \A j \in AnswersIn(C), e \in Entries(R) : C[j].pkid # e.pkid
    /\ UniqueKeys(R)

\* What is in transit belongs to operations in flight, and the server has carried
\* out (P) what it answers.
Wire(A, S, r, C, P, R) ==
    /\ \A k \in RequestsIn(S, r) : Entry(S[k].pkid, S[k].op) \in A[S[k].type]
    /\ \A j \in AnswersIn(C) : \E e \in A[C[j].type] : e.pkid = C[j].pkid /\ e.op \in P
    /\ OneOnTheWire(S, r, C, R)

WireInv ==
    mode = "connected" =>
      Wire(Awaiting, sent, received, to_client, processed, packets_to_replay)

\* What the server answers: an answer of the type the request awaits, a PINGRESP, or
\* nothing.
LEMMA RepliesTo ==
    ASSUME NEW pkt \in PacketType
    PROVE  /\ pkt.type \in Requests =>
                \E a \in Answers : /\ Replies(pkt) = <<Reply(a, pkt.pkid)>>
                                   /\ Awaiting[a] = Awaiting[pkt.type]
           /\ pkt.type = "PINGREQ" => Replies(pkt) = <<Reply("PINGRESP", 0)>>
           /\ (pkt.type \notin Requests /\ pkt.type # "PINGREQ") => Replies(pkt) = <<>>
<1>1. CASE pkt.type = "PUBLISH"
  <2>1. Replies(pkt) = <<Reply("PUBACK", pkt.pkid)>>
    BY Zenon, <1>1 DEF Replies
  <2>2. Awaiting["PUBACK"] = Awaiting["PUBLISH"] /\ "PUBACK" \in Answers
    BY Zenon DEF Awaiting, Requests, Answers
  <2> QED
    BY Zenon, <1>1, <2>1, <2>2 DEF Requests
<1>2. CASE pkt.type = "SUBSCRIBE"
  <2>1. Replies(pkt) = <<Reply("SUBACK", pkt.pkid)>>
    BY Zenon, <1>2 DEF Replies
  <2>2. Awaiting["SUBACK"] = Awaiting["SUBSCRIBE"] /\ "SUBACK" \in Answers
    BY Zenon DEF Awaiting, Requests, Answers
  <2> QED
    BY Zenon, <1>2, <2>1, <2>2 DEF Requests
<1>3. CASE pkt.type = "UNSUBSCRIBE"
  <2>1. Replies(pkt) = <<Reply("UNSUBACK", pkt.pkid)>>
    BY Zenon, <1>3 DEF Replies
  <2>2. Awaiting["UNSUBACK"] = Awaiting["UNSUBSCRIBE"] /\ "UNSUBACK" \in Answers
    BY Zenon DEF Awaiting, Requests, Answers
  <2> QED
    BY Zenon, <1>3, <2>1, <2>2 DEF Requests
<1>4. CASE pkt.type \notin Requests
  BY Zenon, <1>4 DEF Replies, Requests
<1> QED
  BY Zenon, <1>1, <1>2, <1>3, <1>4 DEF Requests

-----------------------------------------------------------------------------
\* What the turns of the send loop write.
WritesNothing ==
    UNCHANGED <<leased, publish_qos1, subscribe, unsubscribe, packets_to_replay, pingreq,
                o_pub_q12_rx, token, sent>>

WritesOther(pkt) ==
    /\ pkt.type \in {"PUBACK", "DISCONNECT", "AUTH"}
    /\ sent' = Append(sent, pkt)
    /\ UNCHANGED <<leased, publish_qos1, subscribe, unsubscribe, packets_to_replay, pingreq,
                   o_pub_q12_rx>>

WritesPing(o) ==
    /\ sent' = Append(sent, Pkt("PINGREQ", 0, o, FALSE))
    /\ pingreq' = Append(pingreq, o)
    /\ UNCHANGED <<leased, publish_qos1, subscribe, unsubscribe, packets_to_replay,
                   o_pub_q12_rx, token, publishes, deliveries>>

\* What is appended to a sequence of packets is a packet.
LEMMA AppendedPacket ==
    ASSUME TypeOK, TypeOK', NEW pkt, sent' = Append(sent, pkt)
    PROVE  pkt \in PacketType
<1>1. sent \in Seq(PacketType) /\ sent' \in Seq(PacketType)
  BY Zenon DEF TypeOK, ConnectionTypeOK
<1>2. Len(sent) + 1 \in DOMAIN Append(sent, pkt) /\ Append(sent, pkt)[Len(sent) + 1] = pkt
  BY <1>1
<1>3. \A i \in DOMAIN sent' : sent'[i] \in PacketType
  BY <1>1
<1> QED
  BY Zenon, <1>2, <1>3

\* The turns of the send loop in a system without QoS 0 PUBLISHes.
LEMMA SendCases ==
    ASSUME TypeOK, TypeOK', AckInv, o_pub_q0_rx = <<>>, Send
    PROVE  /\ mode = "connected" /\ mode' = mode
           /\ \/ WritesNothing
              \/ \E pkt \in PacketType : WritesOther(pkt)
              \/ \E o \in Nat : WritesPing(o)
              \/ send_replayed
              \/ \E p \in Pkids : send_subscription(p)
              \/ \E p \in Pkids : send_publish_qos1(p)
<1>1. CASE route_ack
  <2>1. mode = "connected" /\ ack_rx # <<>>
    BY Zenon, <1>1 DEF route_ack, PollsAcks, Polls, Sending
  <2>2. \/ Stale(Head(ack_rx))
        \/ \E i \in DOMAIN publishes : publishes[i].pkid = deliveries[Head(ack_rx)].pkid
    BY Zenon, <2>1, QueuedAckHasSlot
  <2> QED
    BY Zenon, <1>1, <2>1, <2>2 DEF route_ack, UnchangedBySending, WritesNothing
<1>2. CASE flush
  BY Zenon, <1>2 DEF flush, NotReady, Polls, Sending, UnchangedBySending, WritesNothing
<1>3. CASE send_ready_ack
  <2> DEFINE pkt == Pkt("PUBACK", deliveries[Head(publishes).ack].pkid, Head(publishes).ack, FALSE)
  <2>1. /\ mode = "connected" /\ mode' = mode
        /\ UNCHANGED <<leased, publish_qos1, subscribe, unsubscribe, packets_to_replay, pingreq,
                       o_pub_q12_rx, token>>
        /\ sent' = sent \/ sent' = Append(sent, pkt)
    BY Zenon, <1>3 DEF send_ready_ack, Sending, UnchangedBySending, Write
  <2>2. pkt.type = "PUBACK"
    BY Zenon DEF Pkt
  <2> HIDE DEF pkt
  <2>3. CASE sent' = sent
    BY Zenon, <2>1, <2>3 DEF WritesNothing
  <2>4. CASE sent' = Append(sent, pkt)
    <3>1. pkt \in PacketType
      BY Zenon, <2>4, AppendedPacket
    <3>2. WritesOther(pkt)
      BY Zenon, <2>1, <2>2, <2>4 DEF WritesOther
    <3> QED
      BY Zenon, <2>1, <3>1, <3>2
  <2> QED
    BY Zenon, <2>1, <2>3, <2>4
<1>4. CASE send_disconnect \/ send_auth
  <2>0. PICK type \in {"DISCONNECT", "AUTH"} :
                \E o : sent' = Append(sent, Pkt(type, 0, o, FALSE))
    BY Zenon, <1>4 DEF send_disconnect, send_auth, Write
  <2>1. PICK o : sent' = Append(sent, Pkt(type, 0, o, FALSE))
    BY Zenon, <2>0
  <2>2. /\ mode = "connected" /\ mode' = mode
        /\ UNCHANGED <<leased, publish_qos1, subscribe, unsubscribe, packets_to_replay, pingreq,
                       o_pub_q12_rx>>
    BY Zenon, <1>4 DEF send_disconnect, send_auth, PollsAuth, PollsAcks, Polls, Sending,
       UnchangedBySending
  <2> DEFINE pkt == Pkt(type, 0, o, FALSE)
  <2>3. pkt.type \in {"DISCONNECT", "AUTH"}
    BY Zenon DEF Pkt
  <2> HIDE DEF pkt
  <2>4. sent' = Append(sent, pkt)
    BY Zenon, <2>1 DEF pkt
  <2>5. pkt \in PacketType
    BY Zenon, <2>4, AppendedPacket
  <2> QED
    BY Zenon, <2>2, <2>3, <2>4, <2>5 DEF WritesOther
<1>5. CASE send_ping \/ send_keep_alive
  <2>1. PICK o \in {0, Head(ping_rx)} : /\ WritePing(o)
                                        /\ o = 0 \/ ping_rx # <<>>
    BY Zenon, <1>5 DEF send_ping, send_keep_alive
  <2>2. mode = "connected" /\ mode' = mode
    BY Zenon, <1>5 DEF send_ping, send_keep_alive, NothingToSend, PollsQoS1, PollsQoS0,
       PollsSubscriptions, PollsPings, PollsAuth, PollsAcks, Polls, Sending, WritePing,
       UnchangedBySending
  <2>3. WritesPing(o)
    BY Zenon, <2>1 DEF WritePing, Write, WritesPing
  <2>4. o \in Nat
    BY <2>1 DEF TypeOK, ChannelsTypeOK
  <2> QED
    BY Zenon, <2>2, <2>3, <2>4
<1>6. CASE send_publish_qos0
  BY Zenon, <1>6 DEF send_publish_qos0
<1>7. CASE \/ send_replayed
           \/ \E p \in Pkids : send_subscription(p)
           \/ \E p \in Pkids : send_publish_qos1(p)
  <2>1. mode = "connected" /\ mode' = mode
    BY Zenon, <1>7 DEF send_replayed, send_subscription, send_publish_qos1, PollsQoS1, PollsQoS0,
       PollsSubscriptions, PollsPings, PollsAuth, PollsAcks, Polls, Sending, UnchangedBySending
  <2> QED
    BY Zenon, <1>7, <2>1
<1> QED
  BY Zenon, <1>1, <1>2, <1>3, <1>4, <1>5, <1>6, <1>7 DEF Send

\* The maps of operations in flight, by the types of their packets.
LEMMA AwaitingOf ==
    /\ Awaiting["PUBLISH"] = Entries(publish_qos1) /\ Awaiting["PUBACK"] = Entries(publish_qos1)
    /\ Awaiting["SUBSCRIBE"] = subscribe /\ Awaiting["SUBACK"] = subscribe
    /\ Awaiting["UNSUBSCRIBE"] = unsubscribe /\ Awaiting["UNSUBACK"] = unsubscribe
BY Zenon DEF Awaiting, Requests, Answers

-----------------------------------------------------------------------------
\* The answer at the head of the transport completes an operation of its type.
Completes(pkt) ==
    /\ pkt.type \in Answers
    /\ \/ AckMatches(subscribe, pkt.pkid) /\ subscribe' = Finished(subscribe, pkt.pkid)
            /\ UNCHANGED <<publish_qos1, unsubscribe>>
       \/ AckMatches(unsubscribe, pkt.pkid) /\ unsubscribe' = Finished(unsubscribe, pkt.pkid)
            /\ UNCHANGED <<publish_qos1, subscribe>>
       \/ AckMatches(Entries(publish_qos1), pkt.pkid)
            /\ publish_qos1' = ShiftRemove(publish_qos1, pkt.pkid)
            /\ UNCHANGED <<subscribe, unsubscribe>>
    /\ token' = Resolve(Overwritten(Awaiting[pkt.type], pkt.pkid), "completed")
    /\ pkt.pkid \in PkidsOf(Awaiting[pkt.type])

\* What the client reads is the answer of an operation in flight, a PINGRESP or a
\* PUBLISH: no handler reports a protocol error.
LEMMA ReceiveCases ==
    ASSUME SystemTypeOK, WireInv, ClientReceive
    PROVE  /\ mode = "connected" /\ Reading
           /\ Head(to_client) \in ReplyType
           /\ \/ Completes(Head(to_client))
              \/ Head(to_client).type = "PINGRESP" /\ incoming_pingresp
              \/ /\ Head(to_client).type = "PUBLISH"
                 /\ incoming_publish_qos1(Head(to_client).pkid)
<1> DEFINE pkt == Head(to_client)
<1>1. /\ pkt \in ReplyType /\ 1 \in DOMAIN to_client /\ to_client[1] = pkt
  BY DEF ClientReceive, SystemTypeOK
<1>2. Handle(pkt)
  BY Zenon DEF ClientReceive
<1> HIDE DEF pkt
<1>3. Reading
  BY Zenon, <1>2 DEF Handle, incoming_suback, incoming_unsuback, incoming_puback, AckMatches,
     AckUnmatched, incoming_publish_qos1, incoming_pingresp
<1>4. mode = "connected"
  BY Zenon, <1>3 DEF Reading, NotReady, Polls, Sending
<1>5. pkt.type \in Answers => pkt.pkid \in PkidsOf(Awaiting[pkt.type])
  <2>1. SUFFICES ASSUME pkt.type \in Answers PROVE pkt.pkid \in PkidsOf(Awaiting[pkt.type])
    BY Zenon
  <2>2. 1 \in AnswersIn(to_client)
    BY Zenon, <1>1, <2>1 DEF AnswersIn
  <2>3. \E e \in Awaiting[pkt.type] : e.pkid = pkt.pkid
    BY Zenon, <1>1, <1>4, <2>2 DEF WireInv, Wire
  <2> QED
    BY Zenon, <2>3 DEF PkidsOf
<1>6. /\ "PUBACK" \in Answers /\ "SUBACK" \in Answers /\ "UNSUBACK" \in Answers
  BY Zenon DEF Answers
<1>7. CASE pkt.type = "SUBACK" /\ incoming_suback(pkt.pkid)
  <2>1. pkt.pkid \in PkidsOf(subscribe) /\ Awaiting[pkt.type] = subscribe
    BY Zenon, <1>5, <1>6, <1>7, AwaitingOf
  <2>2. AckMatches(subscribe, pkt.pkid) /\ subscribe' = Finished(subscribe, pkt.pkid)
            /\ UNCHANGED <<publish_qos1, unsubscribe>>
    BY Zenon, <1>7, <2>1 DEF incoming_suback, AckUnmatched, Finished
  <2>3. token' = Resolve(Overwritten(Awaiting[pkt.type], pkt.pkid), "completed")
    BY Zenon, <2>1, <2>2 DEF AckMatches
  <2> QED
    BY Zenon, <1>1, <1>3, <1>4, <1>5, <1>6, <1>7, <2>2, <2>3 DEF Completes, pkt
<1>8. CASE pkt.type = "UNSUBACK" /\ incoming_unsuback(pkt.pkid)
  <2>1. pkt.pkid \in PkidsOf(unsubscribe) /\ Awaiting[pkt.type] = unsubscribe
    BY Zenon, <1>5, <1>6, <1>8, AwaitingOf
  <2>2. AckMatches(unsubscribe, pkt.pkid) /\ unsubscribe' = Finished(unsubscribe, pkt.pkid)
            /\ UNCHANGED <<publish_qos1, subscribe>>
    BY Zenon, <1>8, <2>1 DEF incoming_unsuback, AckUnmatched, Finished
  <2>3. token' = Resolve(Overwritten(Awaiting[pkt.type], pkt.pkid), "completed")
    BY Zenon, <2>1, <2>2 DEF AckMatches
  <2> QED
    BY Zenon, <1>1, <1>3, <1>4, <1>5, <1>6, <1>8, <2>2, <2>3 DEF Completes, pkt
<1>9. CASE pkt.type = "PUBACK" /\ incoming_puback(pkt.pkid)
  <2>1. pkt.pkid \in PkidsOf(Entries(publish_qos1))
        /\ Awaiting[pkt.type] = Entries(publish_qos1)
    BY Zenon, <1>5, <1>6, <1>9, AwaitingOf
  <2>2. AckMatches(Entries(publish_qos1), pkt.pkid)
            /\ publish_qos1' = ShiftRemove(publish_qos1, pkt.pkid)
            /\ UNCHANGED <<subscribe, unsubscribe>>
    BY Zenon, <1>9, <2>1 DEF incoming_puback, AckUnmatched
  <2>3. token' = Resolve(Overwritten(Awaiting[pkt.type], pkt.pkid), "completed")
    BY Zenon, <2>1, <2>2 DEF AckMatches
  <2> QED
    BY Zenon, <1>1, <1>3, <1>4, <1>5, <1>6, <1>9, <2>2, <2>3 DEF Completes, pkt
<1>10. CASE \/ pkt.type = "PUBLISH" /\ incoming_publish_qos1(pkt.pkid)
            \/ pkt.type = "PINGRESP" /\ incoming_pingresp
  BY Zenon, <1>1, <1>3, <1>4, <1>10 DEF pkt
<1> QED
  BY Zenon, <1>2, <1>7, <1>8, <1>9, <1>10 DEF Handle

\* What every read of the client leaves alone.
LEMMA ReceiveFrame ==
    ASSUME TypeOK, SystemTypeOK, KeysInv, WireInv, ClientReceive
    PROVE  /\ UNCHANGED <<packets_to_replay, sent, channels, received, outbound, published,
                          processed, arrivals, acknowledged, connection_epoch>>
           /\ \/ mode' = mode /\ to_client' = Tail(to_client)
              \/ /\ mode' = "panic_duplicate_publish" /\ Head(to_client).type = "PUBLISH"
                 /\ \E i \in DOMAIN publishes : publishes[i].pkid = Head(to_client).pkid
           /\ Completes(Head(to_client)) \/ UNCHANGED KeysVars
<1> DEFINE pkt == Head(to_client)
<1>1. /\ mode = "connected"
      /\ \/ Completes(pkt)
         \/ pkt.type = "PINGRESP" /\ incoming_pingresp
         \/ pkt.type = "PUBLISH" /\ incoming_publish_qos1(pkt.pkid)
  BY Zenon, ReceiveCases
<1>2. /\ UNCHANGED <<received, outbound, published, processed, arrivals, acknowledged>>
      /\ mode' = "connected" => to_client' = Tail(to_client)
  BY Zenon DEF ClientReceive
<1> HIDE DEF pkt
<1>3. CASE Completes(pkt)
  <2>1. UnchangedByReceiving
    BY Zenon, <1>3 DEF Completes, AckMatches
  <2> QED
    BY Zenon, <1>1, <1>2, <1>3, <2>1 DEF UnchangedByReceiving, pkt
<1>4. CASE incoming_pingresp
  BY Zenon, <1>1, <1>2, <1>4 DEF incoming_pingresp, UnchangedByReceiving, KeysVars
<1>5. CASE pkt.type = "PUBLISH" /\ incoming_publish_qos1(pkt.pkid)
  <2>1. CASE UnchangedByReceiving /\ UNCHANGED <<poolVars, inflight>>
    BY Zenon, <1>1, <1>2, <2>1 DEF UnchangedByReceiving, KeysVars
  <2>2. CASE /\ \E i \in DOMAIN publishes : publishes[i].pkid = pkt.pkid
             /\ SessionDropped("panic_duplicate_publish")
    BY Zenon, <1>2, <1>5, <2>2 DEF SessionDropped, KeysVars, pkt
  <2> QED
    BY Zenon, <1>5, <2>1, <2>2 DEF incoming_publish_qos1
<1> QED
  BY Zenon, <1>1, <1>3, <1>4, <1>5

-----------------------------------------------------------------------------
\* What the application's calls leave alone.
LEMMA ApplicationFrame ==
    ASSUME Application
    PROVE  /\ UNCHANGED <<poolVars, inflight, packets_to_replay, publishes, sent,
                          connection_epoch>>
           /\ mode' = mode \/ mode' = "gone"
<1> DEFINE Framed == /\ UNCHANGED <<poolVars, inflight, packets_to_replay, publishes, sent,
                                    connection_epoch>>
                     /\ mode' = mode \/ mode' = "gone"
<1>1. ASSUME NEW kind, Submit(kind)
      PROVE  Framed
  BY Zenon, <1>1 DEF Submit
<1>2. CASE \/ publish_qos0_call
           \/ publish_qos1_call
           \/ \E kind \in {"sub", "unsub"} : subscription_call(kind)
           \/ ping_call
           \/ \E m \in Methods : reauth_call(m)
           \/ \E t \in reauth_tokens : continue_reauth_call(t)
  <2>1. \E kind : Submit(kind)
    BY Zenon, <1>2 DEF publish_qos0_call, publish_qos1_call, subscription_call, ping_call,
       reauth_call, continue_reauth_call
  <2> QED
    BY Zenon, <1>1, <2>1
<1>3. CASE \/ \E d \in DOMAIN deliveries : acknowledge(d)
           \/ \E e \in Expiries \cup {Absent} : disconnect_call(e)
           \/ drop_handle
  BY Zenon, <1>3 DEF acknowledge, disconnect_call, drop_handle, SessionDropped
<1> QED
  BY Zenon, <1>2, <1>3 DEF Application

-----------------------------------------------------------------------------
\* At rest everything that is in flight awaits its replay.
RestInv ==
    mode = "ready" => /\ packets_to_replay = publish_qos1
                      /\ subscribe = {} /\ unsubscribe = {} /\ pingreq = <<>>

\* Every end of a connection is the same transition.
LEMMA EndsOnce ==
    ASSUME Disconnect \/ incoming_disconnect
    PROVE  mode = "connected" /\ \E e : EndConnection(e, {})
BY Zenon DEF Disconnect, incoming_disconnect, application_disconnect, io_error, ping_timeout,
   Reading, NotReady, Polls, Sending

\* Every step of the system keeps the identifiers, and what is on the wire.
LEMMA KeysStep ==
    ASSUME TypeOK, TypeOK', AckInv, ReplayInv, SystemTypeOK, KeysInv, RestInv, WireInv,
           [SystemNext]_systemVars
    PROVE  KeysInv' /\ RestInv' /\ WireInv'

\* A step that leaves the pool and the maps alone.
<1>KeysFrame.
    ASSUME KeysInv, UNCHANGED KeysVars
    PROVE  KeysInv'
  <2> USE <1>KeysFrame
  <2>1. leased' = leased /\ publish_qos1' = publish_qos1
        /\ subscribe' = subscribe /\ unsubscribe' = unsubscribe
    BY Zenon DEF KeysVars
  <2>2. /\ Entries(publish_qos1)' = Entries(publish_qos1)
        /\ UniqueKeys(publish_qos1)' <=> UniqueKeys(publish_qos1)
    BY Zenon, <2>1 DEF Entries, UniqueKeys
  <2> QED
    BY Zenon, <2>1, <2>2 DEF KeysInv, InflightKeysDisjoint, OneEach, PkidsOf

\* A new connection keeps what was in flight, or releases it with the session.
<1>ConnectKeys.
    ASSUME KeysInv, NEW sp, NEW client, NEW server, NEW m, NEW ka,
           connect(sp, client, server, m, ka)
    PROVE  KeysInv'
  <2> USE <1>ConnectKeys
  <2>1. subscribe' = subscribe /\ unsubscribe' = unsubscribe
    BY Zenon DEF connect
  <2>2. CASE sp
    BY Zenon, <2>1, <2>2, <1>KeysFrame DEF connect, KeysVars
  <2>3. CASE ~sp
    <3>1. publish_qos1' = <<>> /\ leased' = leased \ ReleasedOnExpiry
      BY Zenon, <2>3 DEF connect, release_pkids
    <3>2. PkidsOf(Entries(publish_qos1))' = {} /\ UniqueKeys(publish_qos1)'
      BY <3>1 DEF PkidsOf, Entries, UniqueKeys
    <3>3. /\ PkidsOf(subscribe)' = PkidsOf(subscribe) /\ OneEach(subscribe)'
          /\ PkidsOf(unsubscribe)' = PkidsOf(unsubscribe) /\ OneEach(unsubscribe)'
      BY Zenon, <2>1 DEF KeysInv, OneEach
    <3>4. leased' = PkidsOf(subscribe) \cup PkidsOf(unsubscribe)
      BY Zenon, <3>1 DEF KeysInv, InflightKeysDisjoint, ReleasedOnExpiry
    <3> QED
      BY Zenon, <3>2, <3>3, <3>4 DEF KeysInv, InflightKeysDisjoint
  <2> QED
    BY Zenon, <2>2, <2>3

\* An acknowledgement that finds its operation removes one key from one map, and
\* its identifier returns to the pool (complete_inflight).
<1>AckKeys.
    ASSUME TypeOK, KeysInv, NEW p,
           \/ AckMatches(subscribe, p) /\ subscribe' = Finished(subscribe, p)
                /\ UNCHANGED <<publish_qos1, unsubscribe>>
           \/ AckMatches(unsubscribe, p) /\ unsubscribe' = Finished(unsubscribe, p)
                /\ UNCHANGED <<publish_qos1, subscribe>>
           \/ AckMatches(Entries(publish_qos1), p) /\ publish_qos1' = ShiftRemove(publish_qos1, p)
                /\ UNCHANGED <<subscribe, unsubscribe>>
    PROVE  /\ KeysInv'
           /\ Entries(publish_qos1)' = Finished(Entries(publish_qos1), p)
           /\ subscribe' = Finished(subscribe, p)
           /\ unsubscribe' = Finished(unsubscribe, p)
  <2> USE <1>AckKeys
  <2> DEFINE Q == Entries(publish_qos1)
  <2>1. publish_qos1 \in Seq(EntryType)
    BY Zenon DEF TypeOK, InflightTypeOK
  <2>2. leased' = leased \ {p}
    BY Zenon DEF AckMatches, release_pkids
  <2>3. \A S : p \notin PkidsOf(S) => Finished(S, p) = S
    BY Zenon DEF Finished, PkidsOf
  <2>4. \A S : PkidsOf(Finished(S, p)) = PkidsOf(S) \ {p}
    BY Zenon DEF Finished, PkidsOf
  <2>5. /\ p \in PkidsOf(Q) => p \notin PkidsOf(subscribe) /\ p \notin PkidsOf(unsubscribe)
        /\ p \in PkidsOf(subscribe) => p \notin PkidsOf(Q) /\ p \notin PkidsOf(unsubscribe)
        /\ p \in PkidsOf(unsubscribe) => p \notin PkidsOf(Q) /\ p \notin PkidsOf(subscribe)
    BY Zenon DEF KeysInv, InflightKeysDisjoint
  <2>6. /\ Q' = Finished(Q, p)
        /\ subscribe' = Finished(subscribe, p)
        /\ unsubscribe' = Finished(unsubscribe, p)
        /\ UniqueKeys(publish_qos1)'
    <3>1. CASE /\ AckMatches(Q, p) /\ publish_qos1' = ShiftRemove(publish_qos1, p)
               /\ UNCHANGED <<subscribe, unsubscribe>>
      <4>1. p \in PkidsOf(Q)
        BY Zenon, <3>1 DEF AckMatches
      <4>2. /\ Entries(ShiftRemove(publish_qos1, p)) = {e \in Q : e.pkid # p}
            /\ UniqueKeys(ShiftRemove(publish_qos1, p))
        <5>1. UniqueKeys(publish_qos1)
          BY Zenon DEF KeysInv
        <5> QED
          BY <2>1, <4>1, <5>1, ShiftRemoveKey
      <4>3. Entries(publish_qos1') = Finished(Q, p) /\ UniqueKeys(publish_qos1')
        BY Zenon, <3>1, <4>2 DEF Finished
      <4>4. Q' = Finished(Q, p) /\ UniqueKeys(publish_qos1)'
        BY Zenon, <4>3 DEF Entries, UniqueKeys
      <4> QED
        BY Zenon, <2>3, <2>5, <3>1, <4>1, <4>4
    <3>2. CASE /\ publish_qos1' = publish_qos1
               /\ \/ /\ AckMatches(subscribe, p)
                     /\ subscribe' = Finished(subscribe, p)
                     /\ unsubscribe' = unsubscribe
                  \/ /\ AckMatches(unsubscribe, p)
                     /\ unsubscribe' = Finished(unsubscribe, p)
                     /\ subscribe' = subscribe
      <4>1. Q' = Q /\ UniqueKeys(publish_qos1)'
        <5>1. publish_qos1' = publish_qos1
          BY Zenon, <3>2
        <5> QED
          BY Zenon, <5>1 DEF Entries, UniqueKeys, KeysInv
      <4>2. CASE AckMatches(subscribe, p)
        <5>1. Finished(Q, p) = Q /\ Finished(unsubscribe, p) = unsubscribe
          BY Zenon, <2>3, <2>5, <4>2 DEF AckMatches
        <5>2. p \notin PkidsOf(unsubscribe)
          BY Zenon, <2>5, <4>2 DEF AckMatches
        <5> QED
          BY Zenon, <3>2, <4>1, <5>1, <5>2 DEF AckMatches
      <4>3. CASE AckMatches(unsubscribe, p)
        <5>1. Finished(Q, p) = Q /\ Finished(subscribe, p) = subscribe
          BY Zenon, <2>3, <2>5, <4>3 DEF AckMatches
        <5>2. p \notin PkidsOf(subscribe)
          BY Zenon, <2>5, <4>3 DEF AckMatches
        <5> QED
          BY Zenon, <3>2, <4>1, <5>1, <5>2 DEF AckMatches
      <4> QED
        BY Zenon, <3>2, <4>2, <4>3
    <3> QED
      BY Zenon, <3>1, <3>2
  <2> HIDE DEF Q
  <2>7. leased' = PkidsOf(Q') \cup PkidsOf(subscribe') \cup PkidsOf(unsubscribe')
    BY <2>2, <2>4, <2>6 DEF KeysInv, Q
  <2>8. OneEach(subscribe') /\ OneEach(unsubscribe')
    BY Zenon, <2>6 DEF KeysInv, OneEach, Finished
  <2>9. /\ PkidsOf(Q') \cap PkidsOf(unsubscribe') = {}
        /\ PkidsOf(Q') \cap PkidsOf(subscribe') = {}
        /\ PkidsOf(unsubscribe') \cap PkidsOf(subscribe') = {}
    BY Zenon, <2>4, <2>6 DEF KeysInv, InflightKeysDisjoint, Q
  <2>10. KeysInv'
    BY Zenon, <2>6, <2>7, <2>8, <2>9 DEF KeysInv, InflightKeysDisjoint, OneEach, Q
  <2> QED
    BY Zenon, <2>6, <2>10 DEF Q

\* A packet is written.
<1>WireWrite.
    ASSUME NEW A, NEW B, NEW S \in Seq(PacketType), NEW r \in 0..Len(S), NEW C, NEW P, NEW R, NEW R2,
           NEW pkt \in PacketType, Wire(A, S, r, C, P, R),
           \A type \in Requests \cup Answers : A[type] \subseteq B[type],
           Entries(R2) \subseteq Entries(R), UniqueKeys(R2),
           pkt.type \in Requests =>
             /\ Entry(pkt.pkid, pkt.op) \in B[pkt.type]
             /\ \A k \in RequestsIn(S, r) : S[k].pkid # pkt.pkid
             /\ \A j \in AnswersIn(C) : C[j].pkid # pkt.pkid
             /\ \A e \in Entries(R2) : e.pkid # pkt.pkid
    PROVE  Wire(B, Append(S, pkt), r, C, P, R2)
  <2> USE <1>WireWrite
  <2> DEFINE n == Len(S) + 1
             T == Append(S, pkt)
  <2>1. /\ n \in Nat /\ Len(T) = n
        /\ \A k \in 1..Len(S) : T[k] = S[k]
        /\ T[n] = pkt
    OBVIOUS
  <2>2. /\ \A k \in (r + 1)..n : k = n \/ (k \in (r + 1)..Len(S) /\ k \in 1..Len(S))
        /\ \A k \in (r + 1)..Len(S) : k \in (r + 1)..n /\ k \in 1..Len(S) /\ k # n
        /\ n \in (r + 1)..n
    OBVIOUS
  <2> HIDE DEF n, T
  <2>3. \A k \in RequestsIn(T, r) : \/ k \in RequestsIn(S, r) /\ T[k] = S[k]
                                    \/ k = n /\ T[k] = pkt /\ pkt.type \in Requests
    BY Zenon, <2>1, <2>2 DEF RequestsIn
  <2>4. \A k \in RequestsIn(T, r) : T[k].type \in Requests
    BY Zenon DEF RequestsIn
  <2>5. ASSUME NEW k \in RequestsIn(T, r)
        PROVE  Entry(T[k].pkid, T[k].op) \in B[T[k].type]
    <3>1. CASE k \in RequestsIn(S, r) /\ T[k] = S[k]
      <4>1. Entry(T[k].pkid, T[k].op) \in A[T[k].type]
        BY Zenon, <3>1 DEF Wire
      <4> QED
        BY Zenon, <2>4, <4>1
    <3>2. CASE k = n /\ T[k] = pkt /\ pkt.type \in Requests
      BY Zenon, <3>2
    <3> QED
      BY Zenon, <2>3, <3>1, <3>2
  <2>6. ASSUME NEW j \in AnswersIn(C)
        PROVE  \E e \in B[C[j].type] : e.pkid = C[j].pkid /\ e.op \in P
    <3>1. PICK e \in A[C[j].type] : e.pkid = C[j].pkid /\ e.op \in P
      BY Zenon DEF Wire
    <3>2. C[j].type \in Requests \cup Answers
      BY Zenon DEF AnswersIn
    <3> QED
      BY Zenon, <3>1, <3>2
  <2>7. OneOnTheWire(T, r, C, R2)
    <3>1. OneOnTheWire(S, r, C, R)
      BY Zenon DEF Wire
    <3>2. \A k, l \in RequestsIn(T, r) : T[k].pkid = T[l].pkid => k = l
      <4>1. \A k, l \in RequestsIn(S, r) : S[k].pkid = S[l].pkid => k = l
        BY Zenon, <3>1 DEF OneOnTheWire
      <4> SUFFICES ASSUME NEW k \in RequestsIn(T, r), NEW l \in RequestsIn(T, r),
                          T[k].pkid = T[l].pkid
                   PROVE  k = l
        BY Zenon
      <4>2. CASE k \in RequestsIn(S, r) /\ T[k] = S[k]
        BY Zenon, <2>3, <4>1, <4>2
      <4>3. CASE k = n /\ T[k] = pkt /\ pkt.type \in Requests
        BY Zenon, <2>3, <4>3
      <4> QED
        BY Zenon, <2>3, <4>2, <4>3
    <3>3. \A k \in RequestsIn(T, r), j \in AnswersIn(C) : T[k].pkid # C[j].pkid
      BY Zenon, <2>3, <3>1 DEF OneOnTheWire
    <3>4. \A k \in RequestsIn(T, r), e \in Entries(R2) : T[k].pkid # e.pkid
      <4>1. \A k \in RequestsIn(S, r), e \in Entries(R2) : S[k].pkid # e.pkid
        BY Zenon, <3>1 DEF OneOnTheWire
      <4> QED
        BY Zenon, <2>3, <4>1
    <3> QED
      BY Zenon, <3>1, <3>2, <3>3, <3>4 DEF OneOnTheWire
  <2> QED
    BY Zenon, <2>5, <2>6, <2>7 DEF Wire, T

\* The client takes a packet of the server, and the operation with it if the packet is
\* its answer.
<1>WireTake.
    ASSUME NEW A, NEW B, NEW S, NEW r, NEW C \in Seq(ReplyType), NEW P, NEW R,
           Wire(A, S, r, C, P, R), C # <<>>,
           \A type \in Requests \cup Answers : \A e \in A[type] :
              e \in B[type] \/ (Head(C).type \in Answers /\ e.pkid = Head(C).pkid)
    PROVE  Wire(B, S, r, Tail(C), P, R)
  <2> USE <1>WireTake
  <2> DEFINE D == Tail(C)
  <2>2. /\ 1 \in DOMAIN C /\ C[1] = Head(C)
        /\ \A j \in DOMAIN D : j + 1 \in DOMAIN C /\ j + 1 # 1 /\ D[j] = C[j + 1]
        /\ \A i, j \in DOMAIN D : i + 1 = j + 1 => i = j
    OBVIOUS
  <2> HIDE DEF D
  <2>3. \A j \in AnswersIn(D) : /\ j + 1 \in AnswersIn(C) /\ j + 1 # 1
                                /\ j \in DOMAIN D /\ D[j] = C[j + 1]
                                /\ D[j].type \in Requests \cup Answers
    BY Zenon, <2>2 DEF AnswersIn
  <2>4. Head(C).type \in Answers => 1 \in AnswersIn(C)
    BY Zenon, <2>2 DEF AnswersIn
  <2>6. /\ \A i, j \in AnswersIn(C) : C[i].pkid = C[j].pkid => i = j
        /\ \A k \in RequestsIn(S, r), j \in AnswersIn(C) : S[k].pkid # C[j].pkid
        /\ \A j \in AnswersIn(C), e \in Entries(R) : C[j].pkid # e.pkid
    BY Zenon DEF Wire, OneOnTheWire
  <2>7. ASSUME NEW k \in RequestsIn(S, r)
        PROVE  Entry(S[k].pkid, S[k].op) \in B[S[k].type]
    <3> DEFINE e == Entry(S[k].pkid, S[k].op)
    <3>1. e \in A[S[k].type] /\ S[k].type \in Requests \cup Answers
      BY Zenon DEF Wire, RequestsIn
    <3>2. e.pkid = S[k].pkid
      BY Zenon DEF Entry
    <3> HIDE DEF e
    <3>3. Head(C).type \in Answers => e.pkid # Head(C).pkid
      BY Zenon, <2>2, <2>4, <2>6, <3>2
    <3>4. e \in B[S[k].type]
      BY Zenon, <3>1, <3>3
    <3> QED
      BY Zenon, <3>4 DEF e
  <2>8. ASSUME NEW j \in AnswersIn(D)
        PROVE  \E e \in B[D[j].type] : e.pkid = D[j].pkid /\ e.op \in P
    <3>1. PICK e \in A[D[j].type] : e.pkid = D[j].pkid /\ e.op \in P
      BY Zenon, <2>3 DEF Wire
    <3>2. Head(C).type \in Answers => e.pkid # Head(C).pkid
      BY <2>2, <2>3, <2>4, <2>6, <3>1
    <3>3. e \in B[D[j].type]
      BY Zenon, <2>3, <3>2
    <3> QED
      BY Zenon, <3>1, <3>3
  <2>9. OneOnTheWire(S, r, D, R)
    <3>1. \A i, j \in AnswersIn(D) : D[i].pkid = D[j].pkid => i = j
      <4> SUFFICES ASSUME NEW i \in AnswersIn(D), NEW j \in AnswersIn(D), D[i].pkid = D[j].pkid
                   PROVE  i = j
        BY Zenon
      <4>1. i + 1 = j + 1
        BY <2>3, <2>6
      <4> QED
        BY Zenon, <2>2, <2>3, <4>1
    <3>2. \A k \in RequestsIn(S, r), j \in AnswersIn(D) : S[k].pkid # D[j].pkid
      BY <2>3, <2>6
    <3>3. \A j \in AnswersIn(D), e \in Entries(R) : D[j].pkid # e.pkid
      BY <2>3, <2>6
    <3> QED
      BY Zenon, <3>1, <3>2, <3>3 DEF Wire, OneOnTheWire
  <2> QED
    BY Zenon, <2>7, <2>8, <2>9 DEF Wire, D

\* The server has processed s packets instead of r, and sends x: an answer to the
\* request it has just processed, or something that is not an answer.
<1>WireAnswer.
    ASSUME NEW A, NEW S, NEW r, NEW s, NEW C \in Seq(ReplyType), NEW P, NEW P2, NEW R, NEW x,
           Wire(A, S, r, C, P, R), P \subseteq P2, RequestsIn(S, s) \subseteq RequestsIn(S, r),
           x.type \in Answers =>
             \E k \in RequestsIn(S, r) :
                /\ k \notin RequestsIn(S, s)
                /\ x.pkid = S[k].pkid /\ A[x.type] = A[S[k].type] /\ S[k].op \in P2
    PROVE  Wire(A, S, s, Append(C, x), P2, R)
  <2> USE <1>WireAnswer
  <2> DEFINE n == Len(C) + 1
             D == Append(C, x)
  <2>1. /\ DOMAIN D = DOMAIN C \cup {n} /\ n \notin DOMAIN C
        /\ \A j \in DOMAIN C : D[j] = C[j]
        /\ D[n] = x
    OBVIOUS
  <2> HIDE DEF n, D
  <2>2. \A j \in AnswersIn(D) : \/ j \in AnswersIn(C) /\ D[j] = C[j]
                                \/ j = n /\ D[j] = x /\ x.type \in Answers
    BY Zenon, <2>1 DEF AnswersIn
  <2>3. /\ \A k, l \in RequestsIn(S, r) : S[k].pkid = S[l].pkid => k = l
        /\ \A i, j \in AnswersIn(C) : C[i].pkid = C[j].pkid => i = j
        /\ \A k \in RequestsIn(S, r), j \in AnswersIn(C) : S[k].pkid # C[j].pkid
        /\ \A k \in RequestsIn(S, r), e \in Entries(R) : S[k].pkid # e.pkid
        /\ \A j \in AnswersIn(C), e \in Entries(R) : C[j].pkid # e.pkid
        /\ UniqueKeys(R)
    BY Zenon DEF Wire, OneOnTheWire
  <2>4. \A k \in RequestsIn(S, s) : Entry(S[k].pkid, S[k].op) \in A[S[k].type]
    BY Zenon DEF Wire
  <2>5. ASSUME NEW j \in AnswersIn(D)
        PROVE  \E e \in A[D[j].type] : e.pkid = D[j].pkid /\ e.op \in P2
    <3>1. CASE j \in AnswersIn(C) /\ D[j] = C[j]
      <4>1. PICK e \in A[C[j].type] : e.pkid = C[j].pkid /\ e.op \in P
        BY Zenon, <3>1 DEF Wire
      <4> QED
        BY Zenon, <3>1, <4>1
    <3>2. CASE j = n /\ D[j] = x /\ x.type \in Answers
      <4>1. PICK k \in RequestsIn(S, r) : /\ x.pkid = S[k].pkid /\ A[x.type] = A[S[k].type]
                                          /\ S[k].op \in P2
        BY Zenon, <3>2
      <4>2. Entry(S[k].pkid, S[k].op) \in A[S[k].type]
        BY Zenon DEF Wire
      <4>3. Entry(S[k].pkid, S[k].op).pkid = S[k].pkid /\ Entry(S[k].pkid, S[k].op).op = S[k].op
        BY Zenon DEF Entry
      <4> QED
        BY Zenon, <3>2, <4>1, <4>2, <4>3
    <3> QED
      BY Zenon, <2>2, <3>1, <3>2
  <2>6. \A i, j \in AnswersIn(D) : D[i].pkid = D[j].pkid => i = j
    <3>1. x.type \in Answers => \A j \in AnswersIn(C) : C[j].pkid # x.pkid
      BY Zenon, <2>3
    <3> SUFFICES ASSUME NEW i \in AnswersIn(D), NEW j \in AnswersIn(D), D[i].pkid = D[j].pkid
                 PROVE  i = j
      BY Zenon
    <3>2. CASE i \in AnswersIn(C) /\ D[i] = C[i]
      BY Zenon, <2>2, <2>3, <3>1, <3>2
    <3>3. CASE i = n /\ D[i] = x /\ x.type \in Answers
      BY Zenon, <2>2, <3>1, <3>3
    <3> QED
      BY Zenon, <2>2, <3>2, <3>3
  <2>7. \A k \in RequestsIn(S, s), j \in AnswersIn(D) : S[k].pkid # D[j].pkid
    <3> SUFFICES ASSUME NEW k \in RequestsIn(S, s), NEW j \in AnswersIn(D)
                 PROVE  S[k].pkid # D[j].pkid
      BY Zenon
    <3>1. CASE j \in AnswersIn(C) /\ D[j] = C[j]
      BY <2>3, <3>1
    <3>2. CASE j = n /\ D[j] = x /\ x.type \in Answers
      <4>1. PICK l \in RequestsIn(S, r) : l \notin RequestsIn(S, s) /\ x.pkid = S[l].pkid
        BY Zenon, <3>2
      <4> QED
        BY <2>3, <3>2, <4>1
    <3> QED
      BY Zenon, <2>2, <3>1, <3>2
  <2>8. \A j \in AnswersIn(D), e \in Entries(R) : D[j].pkid # e.pkid
    <3> SUFFICES ASSUME NEW j \in AnswersIn(D), NEW e \in Entries(R)
                 PROVE  D[j].pkid # e.pkid
      BY Zenon
    <3>1. CASE j \in AnswersIn(C) /\ D[j] = C[j]
      BY <2>3, <3>1
    <3>2. CASE j = n /\ D[j] = x /\ x.type \in Answers
      BY <2>3, <3>2
    <3> QED
      BY Zenon, <2>2, <3>1, <3>2
  <2>9. /\ \A k, l \in RequestsIn(S, s) : S[k].pkid = S[l].pkid => k = l
        /\ \A k \in RequestsIn(S, s), e \in Entries(R) : S[k].pkid # e.pkid
    BY Zenon, <2>3
  <2>10. OneOnTheWire(S, s, D, R)
    BY Zenon, <2>3, <2>6, <2>7, <2>8, <2>9 DEF OneOnTheWire
  <2> QED
    BY Zenon, <2>4, <2>5, <2>10 DEF Wire, D

\* The server has processed packets without an answer.
<1>WireSkip.
    ASSUME NEW A, NEW S, NEW r, NEW s, NEW C, NEW P, NEW P2, NEW R,
           Wire(A, S, r, C, P, R), P \subseteq P2, RequestsIn(S, s) \subseteq RequestsIn(S, r)
    PROVE  Wire(A, S, s, C, P2, R)
  <2> USE <1>WireSkip
  <2>1. \A j \in AnswersIn(C) : \E e \in A[C[j].type] : e.pkid = C[j].pkid /\ e.op \in P2
    BY Zenon DEF Wire
  <2>2. OneOnTheWire(S, s, C, R)
    BY Zenon DEF Wire, OneOnTheWire
  <2> QED
    BY Zenon, <2>1, <2>2 DEF Wire

\* No entry is lost when none of the maps loses one.
<1>AwaitingGrows.
    ASSUME Entries(publish_qos1) \subseteq Entries(publish_qos1)',
           subscribe \subseteq subscribe', unsubscribe \subseteq unsubscribe'
    PROVE  \A type \in Requests \cup Answers : Awaiting[type] \subseteq Awaiting'[type]
  BY Zenon, <1>AwaitingGrows DEF Awaiting, Requests, Answers

\* A new packet identifier is not on the wire.
<1>NewOnTheWire.
    ASSUME NEW S, NEW r, NEW C, NEW P, NEW R, Wire(Awaiting, S, r, C, P, R), NEW p,
           \A e \in Entries(publish_qos1) \cup subscribe \cup unsubscribe : e.pkid # p
    PROVE  /\ \A k \in RequestsIn(S, r) : S[k].pkid # p
           /\ \A j \in AnswersIn(C) : C[j].pkid # p
  <2> USE <1>NewOnTheWire
  <2>1. ASSUME NEW type \in Requests \cup Answers, NEW e \in Awaiting[type]
        PROVE  e.pkid # p
    <3>1. e \in Entries(publish_qos1) \cup subscribe \cup unsubscribe
      BY Zenon, <2>1 DEF Awaiting
    <3> QED
      BY Zenon, <3>1
  <2>2. ASSUME NEW k \in RequestsIn(S, r)
        PROVE  S[k].pkid # p
    <3>1. /\ Entry(S[k].pkid, S[k].op) \in Awaiting[S[k].type]
          /\ S[k].type \in Requests \cup Answers
      BY Zenon DEF Wire, RequestsIn
    <3>2. Entry(S[k].pkid, S[k].op).pkid = S[k].pkid
      BY Zenon DEF Entry
    <3> QED
      BY Zenon, <2>1, <3>1, <3>2
  <2>3. ASSUME NEW j \in AnswersIn(C)
        PROVE  C[j].pkid # p
    <3>1. C[j].type \in Requests \cup Answers /\ \E e \in Awaiting[C[j].type] : e.pkid = C[j].pkid
      BY Zenon DEF Wire, AnswersIn
    <3> QED
      BY Zenon, <2>1, <3>1
  <2> QED
    BY Zenon, <2>2, <2>3

\* What the send loop writes keeps the correspondence of identifiers and operations, and
\* what is on the wire.
<1>SendWire.
    ASSUME TypeOK, TypeOK', AckInv, ReplayInv, SystemTypeOK, KeysInv, WireInv, Send,
           UNCHANGED <<received, to_client, processed>>
    PROVE  KeysInv' /\ WireInv'
  <2> USE <1>SendWire
  <2> DEFINE Same(R2) == Wire(Awaiting', sent', received, to_client, processed, R2)
  <2>1. /\ mode = "connected" /\ mode' = mode
        /\ \/ WritesNothing
           \/ \E pkt \in PacketType : WritesOther(pkt)
           \/ \E o \in Nat : WritesPing(o)
           \/ send_replayed
           \/ \E p \in Pkids : send_subscription(p)
           \/ \E p \in Pkids : send_publish_qos1(p)
    BY Zenon, SendCases DEF SystemTypeOK
  <2>2. /\ sent \in Seq(PacketType) /\ received \in 0..Len(sent)
        /\ packets_to_replay \in Seq(EntryType) /\ publish_qos1 \in Seq(EntryType)
    BY Zenon DEF TypeOK, ConnectionTypeOK, InflightTypeOK, SystemTypeOK
  <2>3. Wire(Awaiting, sent, received, to_client, processed, packets_to_replay)
    BY Zenon, <2>1 DEF WireInv
  <2>4. UniqueKeys(packets_to_replay)
    BY Zenon, <2>3 DEF Wire, OneOnTheWire
  <2>5. WireInv' <=> Same(packets_to_replay')
    BY Zenon, <2>1 DEF WireInv
  <2> HIDE DEF Same
  <2>6. ASSUME UNCHANGED <<leased, publish_qos1, subscribe, unsubscribe>>
        PROVE  /\ KeysInv' /\ Awaiting' = Awaiting
               /\ \A type \in Requests \cup Answers : Awaiting[type] \subseteq Awaiting'[type]
    <3>1. KeysInv'
      BY Zenon, <2>6, <1>KeysFrame DEF KeysVars
    <3>2. Awaiting' = Awaiting
      BY Zenon, <2>6 DEF Awaiting, Entries
    <3> QED
      BY Zenon, <3>1, <3>2
  <2>7. ASSUME NEW pkt \in PacketType, pkt.type \notin Requests, sent' = Append(sent, pkt),
               UNCHANGED <<leased, publish_qos1, subscribe, unsubscribe, packets_to_replay>>
        PROVE  KeysInv' /\ WireInv'
    <3>1. Wire(Awaiting', Append(sent, pkt), received, to_client, processed, packets_to_replay)
      BY Zenon, <2>2, <2>3, <2>4, <2>6, <2>7, <1>WireWrite
    <3> QED
      BY Zenon, <2>5, <2>6, <2>7, <3>1 DEF Same
  <2>8. CASE WritesNothing
    <3>1. /\ UNCHANGED <<leased, publish_qos1, subscribe, unsubscribe>>
          /\ sent' = sent /\ packets_to_replay' = packets_to_replay
      BY Zenon, <2>8 DEF WritesNothing
    <3> QED
      BY Zenon, <2>3, <2>5, <2>6, <3>1 DEF Same
  <2>9. ASSUME NEW pkt \in PacketType, WritesOther(pkt)
        PROVE  KeysInv' /\ WireInv'
    <3>1. pkt.type \notin Requests
      BY Zenon, <2>9 DEF WritesOther, Requests
    <3> QED
      BY Zenon, <2>7, <2>9, <3>1 DEF WritesOther
  <2>10. ASSUME NEW o \in Nat, WritesPing(o)
         PROVE  KeysInv' /\ WireInv'
    <3> DEFINE pkt == Pkt("PINGREQ", 0, o, FALSE)
    <3>1. pkt \in PacketType /\ pkt.type \notin Requests
      BY Zenon DEF Pkt, PacketType, Requests
    <3> HIDE DEF pkt
    <3>2. sent' = Append(sent, pkt)
      BY Zenon, <2>10 DEF WritesPing, pkt
    <3> QED
      BY Zenon, <2>7, <2>10, <3>1, <3>2 DEF WritesPing
  <2>11. CASE send_replayed
    <3> DEFINE h == Head(packets_to_replay)
               pkt == Pkt("PUBLISH", h.pkid, h.op, TRUE)
               R2 == Tail(packets_to_replay)
    <3>1. /\ packets_to_replay # <<>> /\ packets_to_replay' = R2
          /\ sent' = Append(sent, pkt)
          /\ UNCHANGED <<leased, publish_qos1, subscribe, unsubscribe>>
      BY Zenon, <2>11 DEF send_replayed, Write
    <3>2. pkt \in PacketType
      BY Zenon, <3>1, AppendedPacket
    <3>3. h \in EntryType /\ h = packets_to_replay[1] /\ 1 \in DOMAIN packets_to_replay
      BY <2>2, <3>1
    <3>4. Entry(pkt.pkid, pkt.op) = h /\ pkt.type = "PUBLISH" /\ pkt.pkid = h.pkid
      BY Zenon, <3>3 DEF Pkt, Entry, EntryType
    <3>5. \A i \in DOMAIN R2 : /\ i + 1 \in DOMAIN packets_to_replay /\ i + 1 # 1
                               /\ R2[i] = packets_to_replay[i + 1]
      BY <2>2, <3>1
    <3>6. \A i, j \in DOMAIN R2 : i + 1 = j + 1 => i = j
      BY <2>2, <3>1
    <3> HIDE DEF h, pkt, R2
    <3>7. h \in Entries(packets_to_replay)
      BY Zenon, <3>3 DEF Entries
    <3>8. Entries(R2) \subseteq Entries(packets_to_replay)
      BY Zenon, <3>5 DEF Entries
    <3>9. \A e \in Entries(R2) : e.pkid # h.pkid
      BY <2>4, <3>3, <3>5 DEF Entries, UniqueKeys
    <3>10. UniqueKeys(R2)
      BY <2>4, <3>5, <3>6 DEF UniqueKeys
    <3>11. h \in Awaiting'["PUBLISH"]
      <4>1. h \in Awaiting["PUBLISH"]
        BY Zenon, <3>7, AwaitingOf DEF ReplayInv, Covered
      <4> QED
        BY Zenon, <2>6, <3>1, <4>1
    <3>12. /\ \A k \in RequestsIn(sent, received) : sent[k].pkid # h.pkid
           /\ \A j \in AnswersIn(to_client) : to_client[j].pkid # h.pkid
      BY Zenon, <2>3, <3>7 DEF Wire, OneOnTheWire
    <3>13. \A type \in Requests \cup Answers : Awaiting[type] \subseteq Awaiting'[type]
      BY Zenon, <2>6, <3>1
    <3>14. Wire(Awaiting', Append(sent, pkt), received, to_client, processed, R2)
      BY Zenon, <2>2, <2>3, <3>2, <3>4, <3>8, <3>9, <3>10, <3>11, <3>12, <3>13, <1>WireWrite
    <3> QED
      BY Zenon, <2>5, <2>6, <3>1, <3>14 DEF Same
  <2>12. ASSUME NEW p \in Pkids, NEW type \in Requests, NEW o, NEW dup,
                packets_to_replay = <<>>, packets_to_replay' = <<>>,
                \A e \in Entries(publish_qos1) \cup subscribe \cup unsubscribe : e.pkid # p,
                \A t \in Requests \cup Answers : Awaiting[t] \subseteq Awaiting'[t],
                Entry(p, o) \in Awaiting'[type],
                sent' = Append(sent, Pkt(type, p, o, dup))
         PROVE  WireInv'
    <3> DEFINE pkt == Pkt(type, p, o, dup)
    <3>1. pkt.type = type /\ pkt.pkid = p /\ pkt.op = o
      BY Zenon DEF Pkt
    <3> HIDE DEF pkt
    <3>2. sent' = Append(sent, pkt)
      BY Zenon, <2>12 DEF pkt
    <3>3. pkt \in PacketType
      BY Zenon, <3>2, AppendedPacket
    <3>4. /\ \A k \in RequestsIn(sent, received) : sent[k].pkid # p
          /\ \A j \in AnswersIn(to_client) : to_client[j].pkid # p
      BY Zenon, <2>3, <2>12, <1>NewOnTheWire
    <3>5. Entries(<<>>) = {} /\ UniqueKeys(<<>>)
      BY DEF Entries, UniqueKeys
    <3>6. Wire(Awaiting', Append(sent, pkt), received, to_client, processed, <<>>)
      BY Zenon, <2>2, <2>3, <2>12, <3>1, <3>3, <3>4, <3>5, <1>WireWrite
    <3> QED
      BY Zenon, <2>5, <2>12, <3>2, <3>6 DEF Same
  <2>13. ASSUME NEW p \in Pkids, send_subscription(p)
         PROVE  KeysInv' /\ WireInv'
    <3>1. packets_to_replay = <<>> /\ packets_to_replay' = <<>>
      BY Zenon, <2>13 DEF send_subscription, PollsSubscriptions, PollsPings, PollsAuth, PollsAcks,
         Polls
    <3>2. /\ KeysInv' /\ publish_qos1' = publish_qos1
          /\ \A e \in Entries(publish_qos1) \cup subscribe \cup unsubscribe : e.pkid # p
      BY Zenon, <2>13, SubscriptionKeys
    <3>3. PICK o : \/ /\ subscribe' = subscribe \cup {Entry(p, o)}
                      /\ unsubscribe' = unsubscribe
                      /\ sent' = Append(sent, Pkt("SUBSCRIBE", p, o, FALSE))
                   \/ /\ unsubscribe' = unsubscribe \cup {Entry(p, o)}
                      /\ subscribe' = subscribe
                      /\ sent' = Append(sent, Pkt("UNSUBSCRIBE", p, o, FALSE))
      BY Zenon, <2>13, SubscriptionKeys
    <3>4. Entries(publish_qos1)' = Entries(publish_qos1)
      BY Zenon, <3>2 DEF Entries
    <3>5. \A t \in Requests \cup Answers : Awaiting[t] \subseteq Awaiting'[t]
      BY Zenon, <3>3, <3>4, <1>AwaitingGrows
    <3>6. Awaiting'["SUBSCRIBE"] = subscribe' /\ Awaiting'["UNSUBSCRIBE"] = unsubscribe'
      BY Zenon DEF Awaiting, Requests, Answers
    <3>7. "SUBSCRIBE" \in Requests /\ "UNSUBSCRIBE" \in Requests
      BY Zenon DEF Requests
    <3>8. WireInv'
      BY Zenon, <2>12, <3>1, <3>2, <3>3, <3>5, <3>6, <3>7
    <3> QED
      BY Zenon, <3>2, <3>8
  <2>14. ASSUME NEW p \in Pkids, send_publish_qos1(p)
         PROVE  KeysInv' /\ WireInv'
    <3> DEFINE o == Head(o_pub_q12_rx)
    <3>1. packets_to_replay = <<>> /\ packets_to_replay' = <<>>
      BY Zenon, <2>14 DEF send_publish_qos1, PollsQoS1, PollsQoS0, PollsSubscriptions, PollsPings,
         PollsAuth, PollsAcks, Polls
    <3>2. /\ KeysInv' /\ subscribe' = subscribe /\ unsubscribe' = unsubscribe
          /\ \A e \in Entries(publish_qos1) \cup subscribe \cup unsubscribe : e.pkid # p
          /\ Entries(publish_qos1') = Entries(publish_qos1) \cup {Entry(p, o)}
          /\ sent' = Append(sent, Pkt("PUBLISH", p, o, FALSE))
      BY Zenon, <2>14, PublishKeys
    <3> HIDE DEF o
    <3>3. Entries(publish_qos1)' = Entries(publish_qos1) \cup {Entry(p, o)}
      BY Zenon, <3>2 DEF Entries
    <3>4. \A t \in Requests \cup Answers : Awaiting[t] \subseteq Awaiting'[t]
      BY Zenon, <3>2, <3>3, <1>AwaitingGrows
    <3>5. Awaiting'["PUBLISH"] = Entries(publish_qos1)' /\ "PUBLISH" \in Requests
      BY Zenon DEF Awaiting, Requests, Answers
    <3>6. Entry(p, o) \in Awaiting'["PUBLISH"]
      BY Zenon, <3>3, <3>5
    <3> QED
      BY Zenon, <2>12, <3>1, <3>2, <3>4, <3>5, <3>6
  <2> QED
    BY Zenon, <2>1, <2>8, <2>9, <2>10, <2>11, <2>13, <2>14

\* A read keeps the correspondence, and what is on the wire.
<1>ReceiveWire.
    ASSUME TypeOK, SystemTypeOK, KeysInv, WireInv, ClientReceive
    PROVE  KeysInv' /\ WireInv'
  <2> USE <1>ReceiveWire
  <2> DEFINE pkt == Head(to_client)
  <2>1. /\ mode = "connected" /\ to_client # <<>> /\ to_client \in Seq(ReplyType)
    BY Zenon, ReceiveCases DEF ClientReceive, SystemTypeOK
  <2>2. /\ UNCHANGED <<packets_to_replay, sent, received, processed>>
        /\ mode' = mode => to_client' = Tail(to_client)
        /\ mode' = mode \/ mode' = "panic_duplicate_publish"
        /\ Completes(pkt) \/ UNCHANGED KeysVars
    BY Zenon, ReceiveFrame, <2>1
  <2>3. Wire(Awaiting, sent, received, to_client, processed, packets_to_replay)
    BY Zenon, <2>1 DEF WireInv
  <2> HIDE DEF pkt
  <2>4. ASSUME \A type \in Requests \cup Answers : \A e \in Awaiting[type] :
                  e \in Awaiting'[type] \/ (pkt.type \in Answers /\ e.pkid = pkt.pkid)
        PROVE  WireInv'
    <3>1. Wire(Awaiting', sent, received, Tail(to_client), processed, packets_to_replay)
      BY Zenon, <2>1, <2>3, <2>4, <1>WireTake DEF pkt
    <3>2. mode' = "connected" => mode' = mode
      BY Zenon, <2>1
    <3> QED
      BY Zenon, <2>2, <3>1, <3>2 DEF WireInv
  <2>5. CASE Completes(pkt)
    <3>1. /\ KeysInv'
          /\ Entries(publish_qos1)' = Finished(Entries(publish_qos1), pkt.pkid)
          /\ subscribe' = Finished(subscribe, pkt.pkid)
          /\ unsubscribe' = Finished(unsubscribe, pkt.pkid)
          /\ pkt.type \in Answers
      BY Zenon, <2>5, <1>AckKeys DEF Completes
    <3>2. ASSUME NEW type \in Requests \cup Answers, NEW e \in Awaiting[type],
                 e.pkid # pkt.pkid
          PROVE  e \in Awaiting'[type]
      BY Zenon, <3>1, <3>2 DEF Awaiting, Finished, Requests, Answers
    <3> QED
      BY Zenon, <2>4, <3>1, <3>2
  <2>6. CASE UNCHANGED KeysVars
    <3>1. Awaiting' = Awaiting
      BY Zenon, <2>6 DEF Awaiting, Entries, KeysVars
    <3> QED
      BY Zenon, <2>4, <2>6, <3>1, <1>KeysFrame
  <2> QED
    BY Zenon, <2>2, <2>5, <2>6

\* A step of the client that touches neither the maps nor what is in transit.
<1>StillWire.
    ASSUME KeysInv, WireInv, UNCHANGED KeysVars,
           UNCHANGED <<packets_to_replay, sent, received, to_client, processed>>,
           mode' = "connected" => mode = "connected"
    PROVE  KeysInv' /\ WireInv'
  <2> USE <1>StillWire
  <2>1. Awaiting' = Awaiting
    BY Zenon DEF Awaiting, Entries, KeysVars
  <2>2. WireInv'
    BY Zenon, <2>1 DEF WireInv
  <2> QED
    BY Zenon, <2>2, <1>KeysFrame

\* The server processes a packet: the answer takes the place of the request.
<1>ServerReceiveWire.
    ASSUME TypeOK, SystemTypeOK, WireInv, ServerReceive
    PROVE  WireInv'
  <2> USE <1>ServerReceiveWire
  <2> DEFINE pkt == sent[received + 1]
             k == received + 1
  <2>1. SUFFICES ASSUME mode = "connected"
                 PROVE  Wire(Awaiting, sent, k, to_client', processed', packets_to_replay)
    <3>1. /\ UNCHANGED <<mode, publish_qos1, subscribe, unsubscribe, sent, packets_to_replay>>
          /\ received' = k
      BY Zenon DEF ServerReceive, sessionVars
    <3>2. Awaiting' = Awaiting
      BY Zenon, <3>1 DEF Awaiting, Entries
    <3> QED
      BY Zenon, <3>1, <3>2 DEF WireInv
  <2>2. /\ sent \in Seq(PacketType) /\ received \in Nat /\ received < Len(sent)
        /\ to_client \in Seq(ReplyType)
    BY DEF TypeOK, ConnectionTypeOK, SystemTypeOK, ServerReceive
  <2>3. pkt \in PacketType
    BY <2>2
  <2>4. /\ RequestsIn(sent, k) \subseteq RequestsIn(sent, received)
        /\ k \notin RequestsIn(sent, k)
        /\ pkt.type \in Requests => k \in RequestsIn(sent, received)
    BY <2>2 DEF RequestsIn
  <2>5. Wire(Awaiting, sent, received, to_client, processed, packets_to_replay)
    BY Zenon, <2>1 DEF WireInv
  <2>6. /\ to_client' = to_client \o Replies(pkt)
        /\ processed' = processed \cup (IF pkt.type = "PUBACK" THEN {} ELSE {pkt.op} \ {0})
    BY Zenon, <2>1 DEF ServerReceive, Answer
  <2>7. processed \subseteq processed'
    BY Zenon, <2>6
  <2>8. ASSUME NEW x, Replies(pkt) = <<x>>
        PROVE  to_client' = Append(to_client, x)
    <3>1. to_client \o <<x>> = Append(to_client, x)
      BY <2>2
    <3> QED
      BY Zenon, <2>6, <2>8, <3>1
  <2>9. CASE pkt.type \in Requests
    <3>1. Entry(pkt.pkid, pkt.op) \in Awaiting[pkt.type]
      <4>1. k \in RequestsIn(sent, received)
        BY Zenon, <2>4, <2>9
      <4>2. Entry(sent[k].pkid, sent[k].op) \in Awaiting[sent[k].type]
        BY Zenon, <2>5, <4>1 DEF Wire
      <4> QED
        BY Zenon, <4>2
    <3>2. Awaiting[pkt.type] \subseteq EntryType
      <4>1. /\ Entries(publish_qos1) \subseteq EntryType
            /\ subscribe \subseteq EntryType /\ unsubscribe \subseteq EntryType
        BY DEF TypeOK, InflightTypeOK, Entries
      <4> HIDE DEF pkt
      <4> QED
        BY Zenon, <2>9, <4>1 DEF Awaiting
    <3>3. pkt.op # 0
      <4> HIDE DEF pkt
      <4>1. Entry(pkt.pkid, pkt.op) \in EntryType
        BY Zenon, <3>1, <3>2
      <4> QED
        BY Zenon, <4>1 DEF Entry, EntryType
    <3>4. pkt.type # "PUBACK"
      BY Zenon, <2>9 DEF Requests
    <3>5. pkt.op \in processed'
      BY Zenon, <2>6, <3>3, <3>4
    <3>6. PICK a \in Answers : /\ Replies(pkt) = <<Reply(a, pkt.pkid)>>
                               /\ Awaiting[a] = Awaiting[pkt.type]
      BY Zenon, <2>3, <2>9, RepliesTo
    <3> DEFINE x == Reply(a, pkt.pkid)
    <3>7. x.type = a /\ x.pkid = pkt.pkid
      BY Zenon DEF Reply
    <3> HIDE DEF x
    <3>8. to_client' = Append(to_client, x)
      BY Zenon, <2>8, <3>6 DEF x
    <3>9. \E l \in RequestsIn(sent, received) :
                  /\ l \notin RequestsIn(sent, k)
                  /\ x.pkid = sent[l].pkid /\ Awaiting[x.type] = Awaiting[sent[l].type]
                  /\ sent[l].op \in processed'
      BY Zenon, <2>4, <2>9, <3>5, <3>6, <3>7
    <3>10. Wire(Awaiting, sent, k, Append(to_client, x), processed', packets_to_replay)
      <4> HIDE DEF k
      <4> QED
        BY Zenon, <2>2, <2>4, <2>5, <2>7, <3>9, <1>WireAnswer
    <3> QED
      BY Zenon, <3>8, <3>10
  <2>10. CASE pkt.type = "PINGREQ"
    <3> DEFINE x == Reply("PINGRESP", 0)
    <3>1. x.type \notin Answers
      BY Zenon DEF Reply, Answers
    <3> HIDE DEF x
    <3>2. to_client' = Append(to_client, x)
      BY Zenon, <2>3, <2>8, <2>10, RepliesTo DEF x
    <3>3. Wire(Awaiting, sent, k, Append(to_client, x), processed', packets_to_replay)
      <4> HIDE DEF k
      <4> QED
        BY Zenon, <2>2, <2>4, <2>5, <2>7, <3>1, <1>WireAnswer
    <3> QED
      BY Zenon, <3>2, <3>3
  <2>11. CASE pkt.type \notin Requests /\ pkt.type # "PINGREQ"
    <3>1. Replies(pkt) = <<>>
      BY Zenon, <2>3, <2>11, RepliesTo
    <3>2. to_client \o <<>> = to_client
      BY <2>2
    <3>3. Wire(Awaiting, sent, k, to_client, processed', packets_to_replay)
      <4> HIDE DEF k
      <4> QED
        BY Zenon, <2>4, <2>5, <2>7, <1>WireSkip
    <3> QED
      BY Zenon, <2>6, <3>1, <3>2, <3>3
  <2> QED
    BY Zenon, <2>9, <2>10, <2>11

\* A PUBLISH of the server answers nothing.
<1>ServerPublishWire.
    ASSUME SystemTypeOK, WireInv, NEW p, ServerPublish(p)
    PROVE  WireInv'
  <2> USE <1>ServerPublishWire
  <2> DEFINE x == Message([pkid |-> p, msg |-> published + 1])
  <2>1. /\ UNCHANGED <<mode, publish_qos1, subscribe, unsubscribe, sent, packets_to_replay>>
        /\ UNCHANGED <<received, processed>>
        /\ mode = "connected" /\ to_client' = to_client \o <<x>>
    BY Zenon DEF ServerPublish, sessionVars, Answer
  <2>2. x.type \notin Answers
    BY Zenon DEF Message, Answers
  <2>3. to_client \in Seq(ReplyType) /\ to_client \o <<x>> = Append(to_client, x)
    BY DEF SystemTypeOK
  <2> HIDE DEF x
  <2>4. Awaiting' = Awaiting
    BY Zenon, <2>1 DEF Awaiting, Entries
  <2>5. Wire(Awaiting, sent, received, to_client, processed, packets_to_replay)
    BY Zenon, <2>1 DEF WireInv
  <2>6. RequestsIn(sent, received) \subseteq RequestsIn(sent, received)
        /\ processed \subseteq processed
    BY Zenon
  <2>7. Wire(Awaiting, sent, received, Append(to_client, x), processed, packets_to_replay)
    BY Zenon, <2>2, <2>3, <2>5, <2>6, <1>WireAnswer
  <2> QED
    BY Zenon, <2>1, <2>3, <2>4, <2>7 DEF WireInv

\* On a new connection nothing is in transit, and all that is in flight is to be
\* replayed (or dropped with the session).
<1>ConnectWire.
    ASSUME SystemTypeOK, KeysInv, RestInv, SystemConnect
    PROVE  KeysInv' /\ WireInv'
  <2> USE <1>ConnectWire
  <2>1. PICK sp \in BOOLEAN, e \in Expiries, m \in Methods \cup {NoMethod}, ka \in KeepAlives :
             /\ connect(sp, e, Absent, m, ka)
             /\ to_client' = IF sp THEN [i \in DOMAIN outbound |-> Message(outbound[i])] ELSE <<>>
    BY Zenon DEF SystemConnect
  <2>2. KeysInv'
    BY Zenon, <2>1, <1>ConnectKeys
  <2>3. sent' = <<>> /\ received' = 0
    BY Zenon, <2>1 DEF connect, SystemConnect
  <2>4. RequestsIn(sent', received') = {}
    BY <2>3 DEF RequestsIn
  <2>5. AnswersIn(to_client') = {}
    <3>1. CASE sp
      <4>1. to_client' = [i \in DOMAIN outbound |-> Message(outbound[i])]
        BY Zenon, <2>1, <3>1
      <4>2. \A i \in DOMAIN outbound : Message(outbound[i]).type \notin Answers
        BY Zenon DEF Message, Answers
      <4> QED
        BY Zenon, <4>1, <4>2 DEF AnswersIn
    <3>2. CASE ~sp
      <4>1. to_client' = <<>>
        BY Zenon, <2>1, <3>2
      <4> QED
        BY <4>1 DEF AnswersIn
    <3> QED
      BY Zenon, <3>1, <3>2
  <2>6. UniqueKeys(packets_to_replay')
    <3>1. CASE sp
      <4>1. packets_to_replay' = publish_qos1
        BY Zenon, <2>1, <3>1 DEF connect, RestInv
      <4> QED
        BY Zenon, <4>1 DEF KeysInv
    <3>2. CASE ~sp
      <4>1. packets_to_replay' = <<>>
        BY Zenon, <2>1, <3>2 DEF connect
      <4> QED
        BY <4>1 DEF UniqueKeys
    <3> QED
      BY Zenon, <3>1, <3>2
  <2>7. Wire(Awaiting', sent', received', to_client', processed', packets_to_replay')
    BY Zenon, <2>4, <2>5, <2>6 DEF Wire, OneOnTheWire
  <2> QED
    BY Zenon, <2>2, <2>7 DEF WireInv
<1>1. CASE ClientLocal /\ Application
  <2>1. /\ UNCHANGED <<poolVars, inflight, packets_to_replay, sent>>
        /\ mode' = mode \/ mode' = "gone"
        /\ UNCHANGED <<received, to_client, processed>>
    BY Zenon, <1>1, ApplicationFrame DEF ClientLocal, serverVars
  <2>2. UNCHANGED KeysVars
    BY Zenon, <2>1 DEF KeysVars
  <2>3. /\ mode' = "connected" => mode = "connected"
        /\ mode' = "ready" => mode = "ready"
    BY Zenon, <2>1
  <2>4. RestInv'
    BY Zenon, <2>1, <2>3 DEF RestInv
  <2> QED
    BY Zenon, <2>1, <2>2, <2>3, <2>4, <1>StillWire
<1>2. CASE ClientLocal /\ Send
  <2>1. UNCHANGED <<received, to_client, processed>>
    BY Zenon, <1>2 DEF ClientLocal, serverVars
  <2>2. mode' = "connected"
    BY Zenon, <1>2, SendCases DEF SystemTypeOK
  <2>3. RestInv'
    BY Zenon, <2>2 DEF RestInv
  <2> QED
    BY Zenon, <1>2, <2>1, <2>3, <1>SendWire
<1>3. CASE SystemConnect
  <2>1. mode' = "connected"
    BY Zenon, <1>3 DEF SystemConnect, connect
  <2>2. RestInv'
    BY Zenon, <2>1 DEF RestInv
  <2> QED
    BY Zenon, <1>3, <2>2, <1>ConnectWire
<1>4. CASE ClientReceive
  <2>1. mode = "connected" /\ (mode' = mode \/ mode' = "panic_duplicate_publish")
    BY Zenon, <1>4, ReceiveCases, ReceiveFrame
  <2>2. RestInv'
    BY Zenon, <2>1 DEF RestInv
  <2> QED
    BY Zenon, <1>4, <2>2, <1>ReceiveWire
<1>5. CASE ConnectionEnds
  <2>1. PICK e : EndConnection(e, {})
    BY Zenon, <1>5, EndsOnce DEF ConnectionEnds
  <2>2. /\ KeysInv'
        /\ mode' = "ready" /\ subscribe' = {} /\ unsubscribe' = {} /\ pingreq' = <<>>
        /\ packets_to_replay' = publish_qos1'
    BY Zenon, <2>1, EndConnectionKeys
  <2>3. WireInv'
    BY Zenon, <2>2 DEF WireInv
  <2> QED
    BY Zenon, <2>2, <2>3 DEF RestInv
<1>6. ASSUME UNCHANGED sessionVars
      PROVE  KeysInv' /\ RestInv'
  <2>1. /\ UNCHANGED KeysVars
        /\ UNCHANGED <<mode, packets_to_replay, publish_qos1, subscribe, unsubscribe, pingreq>>
    BY Zenon, <1>6 DEF sessionVars, KeysVars
  <2> QED
    BY Zenon, <2>1, <1>KeysFrame DEF RestInv
<1>7. CASE ServerReceive
  BY Zenon, <1>6, <1>7, <1>ServerReceiveWire DEF ServerReceive
<1>8. CASE \E p \in ServerPkids : ServerPublish(p)
  BY Zenon, <1>6, <1>8, <1>ServerPublishWire DEF ServerPublish
<1>9. CASE UNCHANGED systemVars
  <2>1. UNCHANGED sessionVars /\ UNCHANGED serverVars
    BY Zenon, <1>9 DEF systemVars
  <2>2. /\ UNCHANGED KeysVars
        /\ UNCHANGED <<packets_to_replay, sent, received, to_client, processed, mode>>
    BY Zenon, <2>1 DEF sessionVars, KeysVars, serverVars
  <2> QED
    BY Zenon, <1>6, <2>1, <2>2, <1>StillWire
<1> QED
  BY Zenon, <1>1, <1>2, <1>3, <1>4, <1>5, <1>7, <1>8, <1>9 DEF SystemNext, ClientLocal

-----------------------------------------------------------------------------
\* What every step but the arrival of a PUBLISH does to the deliveries: the state of
\* acknowledgements changes, and never back to "held".
Kept ==
    /\ Len(deliveries') = Len(deliveries)
    /\ \A d \in DOMAIN deliveries :
         /\ deliveries'[d].pkid = deliveries[d].pkid
         /\ deliveries'[d].epoch = deliveries[d].epoch
         /\ deliveries[d].ack # "held" => deliveries'[d].ack # "held"

\* Changing the acknowledgements D keeps the deliveries.
LEMMA ChangeKeeps ==
    ASSUME NEW D, NEW a, a # "held", OnlyAckChanged(D, a)
    PROVE  Kept
BY Zenon DEF OnlyAckChanged, Kept

\* A step that leaves the deliveries alone keeps them.
LEMMA SameKeeps ==
    ASSUME deliveries' = deliveries
    PROVE  Kept
BY Zenon DEF Kept

\* Detaching acknowledgement requests keeps the deliveries.
LEMMA DetachKeeps ==
    ASSUME AckTypes, NEW D, deliveries' = Detach(D)
    PROVE  Kept
<1>1. OnlyAckChanged(D, "detached")
  BY Zenon, DetachChanges
<1>2. "detached" # "held"
  BY Zenon
<1> QED
  BY Zenon, <1>1, <1>2, ChangeKeeps

\* Setting one acknowledgement keeps the deliveries.
LEMMA SetAckKeeps ==
    ASSUME AckTypes, NEW d \in DOMAIN deliveries, NEW a, a # "held",
           deliveries' = [deliveries EXCEPT ![d].ack = a]
    PROVE  Kept
BY Zenon, SetAckChanges, ChangeKeeps

\* No step of the client but the read of a PUBLISH makes a delivery, and none
\* gives an acknowledgement token back to the application.
LEMMA ClientKeeps ==
    ASSUME TypeOK, AckInv, Application \/ Send \/ Disconnect \/ incoming_disconnect \/ Connect
    PROVE  Kept
<1>1. AckTypes
  BY Zenon, TypesOfAcks
<1>2. CASE Application
  <2>1. CASE \E d \in DOMAIN deliveries : acknowledge(d)
    <3>1. PICK d \in DOMAIN deliveries : deliveries' = [deliveries EXCEPT ![d].ack = "pending"]
      BY Zenon, <2>1 DEF acknowledge
    <3>2. "pending" # "held"
      BY Zenon
    <3> QED
      BY Zenon, <1>1, <3>1, <3>2, SetAckKeeps
  <2>2. CASE drop_handle
    BY Zenon, <1>1, <2>2, DetachKeeps DEF drop_handle, SessionDropped
  <2>3. CASE deliveries' = deliveries
    BY Zenon, <2>3, SameKeeps
  <2> QED
    BY Zenon, <1>2, <2>1, <2>2, <2>3 DEF Application, publish_qos0_call, publish_qos1_call,
       subscription_call, ping_call, reauth_call, continue_reauth_call, Submit, disconnect_call
<1>3. CASE send_ready_ack
  <2> DEFINE d == Head(publishes).ack
  <2>1. d \in DOMAIN deliveries
    BY Zenon, <1>3, ReadyAckDelivered DEF AckInv, send_ready_ack
  <2>2. \/ deliveries' = Detach({d})
        \/ deliveries' = [deliveries EXCEPT ![d].ack = "completed"]
    BY Zenon, <1>3 DEF send_ready_ack
  <2>3. "completed" # "held"
    BY Zenon
  <2> HIDE DEF d
  <2> QED
    BY Zenon, <1>1, <2>1, <2>2, <2>3, DetachKeeps, SetAckKeeps
<1>4. CASE route_ack
  BY Zenon, <1>1, <1>4, DetachKeeps, SameKeeps DEF route_ack, SessionDropped
<1>5. CASE \/ send_replayed \/ send_disconnect \/ send_auth \/ send_ping \/ send_keep_alive
           \/ \E p \in Pkids : send_subscription(p)
           \/ send_publish_qos0
           \/ \E p \in Pkids : send_publish_qos1(p)
           \/ flush
  BY Zenon, <1>5, SameKeeps DEF send_replayed, send_disconnect, send_auth, send_ping,
     send_keep_alive, WritePing, send_subscription, send_publish_qos0, send_publish_qos1, flush
<1>6. CASE Disconnect \/ incoming_disconnect
  <2>1. PICK e : EndConnection(e, {})
    BY Zenon, <1>6, EndsOnce
  <2> QED
    BY Zenon, <1>1, <2>1, DetachKeeps DEF EndConnection
<1>7. CASE Connect
  BY Zenon, <1>7, SameKeeps DEF Connect, connect
<1> QED
  BY Zenon, <1>2, <1>3, <1>4, <1>5, <1>6, <1>7 DEF Send

-----------------------------------------------------------------------------
\* A PUBLISH that the client hands to the application.
Delivers(pkt) ==
    /\ pkt.type = "PUBLISH" /\ mode' = mode
    /\ \A i \in DOMAIN publishes : publishes[i].pkid # pkt.pkid
    /\ publishes' = Append(publishes,
                           [pkid |-> pkt.pkid, d |-> Len(deliveries) + 1, ack |-> 0])
    /\ deliveries' = Append(deliveries,
                            [pkid |-> pkt.pkid, epoch |-> connection_epoch, ack |-> "held"])
    /\ message' = Append(message, pkt.msg)
    /\ token' = token

\* A read delivers a PUBLISH, or it keeps the deliveries.
LEMMA ReceiveDelivers ==
    ASSUME TypeOK, SystemTypeOK, WireInv, ClientReceive
    PROVE  \/ Delivers(Head(to_client))
           \/ /\ Kept /\ message' = message
              /\ publishes' = publishes
              /\ \/ mode' = mode /\ Head(to_client).type # "PUBLISH"
                 \/ mode' = "panic_duplicate_publish"
<1> DEFINE pkt == Head(to_client)
<1>1. /\ \/ Completes(pkt)
         \/ pkt.type = "PINGRESP" /\ incoming_pingresp
         \/ pkt.type = "PUBLISH" /\ incoming_publish_qos1(pkt.pkid)
  BY Zenon, ReceiveCases
<1>2. message' = IF Len(deliveries') > Len(deliveries)
                 THEN Append(message, pkt.msg) ELSE message
  BY Zenon DEF ClientReceive
<1>3. deliveries \in Seq(DeliveryType)
  BY Zenon DEF TypeOK, HandlesTypeOK
<1>4. ASSUME Kept
      PROVE  message' = message
  <2>1. ~(Len(deliveries') > Len(deliveries))
    BY <1>3, <1>4 DEF Kept
  <2> QED
    BY Zenon, <1>2, <2>1
<1> HIDE DEF pkt
<1>5. CASE Completes(pkt) \/ (pkt.type = "PINGRESP" /\ incoming_pingresp)
  <2>1. deliveries' = deliveries /\ publishes' = publishes /\ mode' = mode
    BY Zenon, <1>5 DEF Completes, AckMatches, incoming_pingresp, UnchangedByReceiving
  <2>2. pkt.type # "PUBLISH"
    BY Zenon, <1>5 DEF Completes, Answers
  <2> QED
    BY Zenon, <1>4, <2>1, <2>2, SameKeeps DEF pkt
<1>6. CASE pkt.type = "PUBLISH" /\ incoming_publish_qos1(pkt.pkid)
  <2>1. CASE /\ \A i \in DOMAIN publishes : publishes[i].pkid # pkt.pkid
             /\ publishes' = Append(publishes,
                             [pkid |-> pkt.pkid, d |-> Len(deliveries) + 1, ack |-> 0])
             /\ deliveries' = Append(deliveries,
                             [pkid |-> pkt.pkid, epoch |-> connection_epoch, ack |-> "held"])
             /\ mode' = mode /\ token' = token
    <3>1. Len(deliveries') > Len(deliveries)
      BY <1>3, <2>1
    <3>2. message' = Append(message, pkt.msg)
      BY Zenon, <1>2, <3>1
    <3> QED
      BY Zenon, <1>6, <2>1, <3>2 DEF Delivers, pkt
  <2>2. CASE SessionDropped("panic_duplicate_publish")
    <3>1. Kept /\ publishes' = publishes /\ mode' = "panic_duplicate_publish"
      BY Zenon, <2>2, DetachKeeps, TypesOfAcks DEF SessionDropped
    <3> QED
      BY Zenon, <1>4, <3>1
  <2> QED
    BY Zenon, <1>6, <2>1, <2>2 DEF incoming_publish_qos1, UnchangedByReceiving
<1> QED
  BY Zenon, <1>1, <1>5, <1>6

\* Every step keeps the types of the system.
LEMMA SystemTypeStep ==
    ASSUME TypeOK, TypeOK', AckInv, SystemTypeOK, KeysInv, WireInv, [SystemNext]_systemVars
    PROVE  SystemTypeOK'

\* The application of the system publishes with QoS 1 only.
<1>NoQoS0.
    ASSUME o_pub_q0_rx = <<>>, [Next]_sessionVars
    PROVE  o_pub_q0_rx' = <<>>
  <2> USE <1>NoQoS0
  <2>1. "q0" \notin Kinds
    BY Zenon, SystemAssumption
  <2>2. CASE Application
    BY Zenon, <2>1, <2>2 DEF Application, publish_qos0_call, publish_qos1_call, subscription_call,
       ping_call, reauth_call, continue_reauth_call, Submit, acknowledge, disconnect_call,
       drop_handle, SessionDropped
  <2>3. CASE Send
    BY Zenon, <2>3 DEF Send, send_replayed, send_ready_ack, route_ack, SessionDropped,
       send_disconnect, send_auth, send_ping, send_keep_alive, WritePing, send_subscription,
       send_publish_qos0, send_publish_qos1, flush
  <2>4. CASE Connect
    BY Zenon, <2>4 DEF Connect, connect
  <2>5. CASE Receive
    BY Zenon, <2>5 DEF Receive, incoming_suback, incoming_unsuback, incoming_puback,
       incoming_pubrec, AckMatches, AckUnmatched, protocol_error, EndConnection, SessionDropped,
       incoming_publish_qos1, incoming_publish_qos2, incoming_auth_success,
       incoming_auth_continue, incoming_pingresp, incoming_disconnect, unexpected_packet,
       UnchangedByReceiving
  <2>6. CASE Disconnect
    BY Zenon, <2>6 DEF Disconnect, application_disconnect, io_error, ping_timeout, EndConnection
  <2>7. CASE UNCHANGED sessionVars
    BY Zenon, <2>7 DEF sessionVars
  <2> QED
    BY Zenon, <2>2, <2>3, <2>4, <2>5, <2>6, <2>7 DEF Next

\* The packets of a connection only accumulate while it lasts.
<1>SentGrows.
    ASSUME TypeOK, TypeOK', AckInv, SystemTypeOK, Send
    PROVE  received \in 0..Len(sent')
  <2> USE <1>SentGrows
  <2>1. \/ sent' = sent
        \/ \E pkt : sent' = Append(sent, pkt)
    <3>1. \/ WritesNothing
          \/ \E pkt \in PacketType : WritesOther(pkt)
          \/ \E o \in Nat : WritesPing(o)
          \/ send_replayed
          \/ \E p \in Pkids : send_subscription(p)
          \/ \E p \in Pkids : send_publish_qos1(p)
      BY Zenon, SendCases DEF SystemTypeOK
    <3> QED
      BY Zenon, <3>1 DEF WritesNothing, WritesOther, WritesPing, send_replayed,
         send_subscription, send_publish_qos1, Write
  <2>2. sent \in Seq(PacketType) /\ received \in 0..Len(sent)
    BY Zenon DEF TypeOK, ConnectionTypeOK, SystemTypeOK
  <2>3. ASSUME NEW pkt, sent' = Append(sent, pkt)
        PROVE  received \in 0..Len(sent')
    BY <2>2, <2>3
  <2> QED
    BY Zenon, <2>1, <2>2, <2>3

\* The server's answers have the identifiers of the operations they answer.
<1>AnswerType.
    ASSUME TypeOK, SystemTypeOK, WireInv, ServerReceive
    PROVE  to_client' \in Seq(ReplyType)
  <2> USE <1>AnswerType
  <2> DEFINE pkt == sent[received + 1]
             k == received + 1
  <2>1. /\ sent \in Seq(PacketType) /\ received \in Nat /\ received < Len(sent)
        /\ to_client \in Seq(ReplyType)
    BY DEF TypeOK, ConnectionTypeOK, SystemTypeOK, ServerReceive
  <2>2. pkt \in PacketType /\ (pkt.type \in Requests => k \in RequestsIn(sent, received))
    BY <2>1 DEF RequestsIn
  <2>3. to_client' = IF mode = "connected" THEN to_client \o Replies(pkt) ELSE to_client
    BY Zenon DEF ServerReceive, Answer
  <2>4. ASSUME mode = "connected", pkt.type \in Requests
        PROVE  pkt.pkid \in Pkids
    <3>1. Entry(pkt.pkid, pkt.op) \in Awaiting[pkt.type]
      <4>1. Entry(sent[k].pkid, sent[k].op) \in Awaiting[sent[k].type]
        BY Zenon, <2>2, <2>4 DEF WireInv, Wire
      <4> QED
        BY Zenon, <4>1
    <3>2. /\ Entries(publish_qos1) \subseteq EntryType
          /\ subscribe \subseteq EntryType /\ unsubscribe \subseteq EntryType
      BY DEF TypeOK, InflightTypeOK, Entries
    <3> HIDE DEF pkt
    <3>3. Awaiting[pkt.type] \subseteq EntryType
      BY Zenon, <2>4, <3>2 DEF Awaiting
    <3>4. Entry(pkt.pkid, pkt.op) \in EntryType
      BY Zenon, <3>1, <3>3
    <3> QED
      BY Zenon, <3>4 DEF Entry, EntryType
  <2> HIDE DEF pkt
  <2>5. CASE mode # "connected"
    BY Zenon, <2>1, <2>3, <2>5
  <2>6. CASE mode = "connected" /\ pkt.type \in Requests
    <3>1. PICK a \in Answers : Replies(pkt) = <<Reply(a, pkt.pkid)>>
      BY Zenon, <2>2, <2>6, RepliesTo
    <3>2. Reply(a, pkt.pkid) \in ReplyType
      BY Zenon, <2>4, <2>6 DEF Reply, ReplyType, Answers
    <3> QED
      BY <2>1, <2>3, <2>6, <3>1, <3>2
  <2>7. CASE mode = "connected" /\ pkt.type = "PINGREQ"
    <3>1. Replies(pkt) = <<Reply("PINGRESP", 0)>>
      BY Zenon, <2>2, <2>7, RepliesTo
    <3>2. Reply("PINGRESP", 0) \in ReplyType
      BY Zenon DEF Reply, ReplyType
    <3> QED
      BY <2>1, <2>3, <2>7, <3>1, <3>2
  <2>8. CASE mode = "connected" /\ pkt.type \notin Requests /\ pkt.type # "PINGREQ"
    <3>1. Replies(pkt) = <<>>
      BY Zenon, <2>2, <2>8, RepliesTo
    <3> QED
      BY <2>1, <2>3, <2>8, <3>1
  <2> QED
    BY Zenon, <2>5, <2>6, <2>7, <2>8

\* The server takes a message out of its session, or none.
<1>OutboundType.
    ASSUME NEW q \in Seq(MessageType), NEW p, NEW I,
           I = {i \in DOMAIN q : q[i].pkid = p} \/ I = {}
    PROVE  (IF I = {} THEN q ELSE ShiftRemove(q, p)) \in Seq(MessageType)
  <2> USE <1>OutboundType
  <2>1. SUFFICES ASSUME I # {} PROVE ShiftRemove(q, p) \in Seq(MessageType)
    BY Zenon
  <2> DEFINE g == CHOOSE i \in DOMAIN q : q[i].pkid = p
  <2>2. g \in DOMAIN q
    BY Zenon, <2>1
  <2>3. ShiftRemove(q, p) = [i \in 1..(Len(q) - 1) |-> IF i < g THEN q[i] ELSE q[i + 1]]
    BY Zenon DEF ShiftRemove
  <2> HIDE DEF g
  <2>4. Len(q) - 1 \in Nat
    BY <2>2
  <2>5. \A i \in 1..(Len(q) - 1) : (IF i < g THEN q[i] ELSE q[i + 1]) \in MessageType
    BY <2>2
  <2> QED
    BY <2>3, <2>4, <2>5
<1>1. o_pub_q0_rx' = <<>>
  BY Zenon, ClientStep, <1>NoQoS0 DEF SystemTypeOK
<1>2. /\ received \in 0..Len(sent) /\ to_client \in Seq(ReplyType)
      /\ outbound \in Seq(MessageType) /\ published \in Nat /\ processed \subseteq Nat
      /\ arrivals \in Seq(Nat) /\ message \in Seq(Nat) /\ Len(message) = Len(deliveries)
  BY Zenon DEF SystemTypeOK
<1>3. sent \in Seq(PacketType) /\ deliveries \in Seq(DeliveryType)
  BY Zenon DEF TypeOK, ConnectionTypeOK, HandlesTypeOK
<1>4. CASE ClientLocal
  <2>1. UNCHANGED serverVars
    BY Zenon, <1>4 DEF ClientLocal
  <2>2. Kept
    BY Zenon, <1>4, ClientKeeps DEF ClientLocal
  <2>3. received \in 0..Len(sent')
    <3>1. CASE Application
      BY Zenon, <1>2, <3>1, ApplicationFrame
    <3> QED
      BY Zenon, <1>4, <3>1, <1>SentGrows DEF ClientLocal
  <2> QED
    BY Zenon, <1>1, <1>2, <2>1, <2>2, <2>3 DEF SystemTypeOK, serverVars, Kept
<1>5. CASE SystemConnect
  <2>1. PICK sp \in BOOLEAN, e \in Expiries, m \in Methods \cup {NoMethod}, ka \in KeepAlives :
           /\ connect(sp, e, Absent, m, ka)
           /\ outbound' = IF sp THEN outbound ELSE <<>>
           /\ to_client' = IF sp THEN [i \in DOMAIN outbound |-> Message(outbound[i])] ELSE <<>>
    BY Zenon, <1>5 DEF SystemConnect
  <2>2. sent' = <<>> /\ received' = 0 /\ deliveries' = deliveries
    BY Zenon, <1>5, <2>1 DEF connect, SystemConnect
  <2>3. received' \in 0..Len(sent')
    BY <2>2
  <2>4. outbound' \in Seq(MessageType)
    BY <1>2, <2>1
  <2>5. to_client' \in Seq(ReplyType)
    <3>1. \A i \in DOMAIN outbound : Message(outbound[i]) \in ReplyType
      <4> SUFFICES ASSUME NEW i \in DOMAIN outbound PROVE Message(outbound[i]) \in ReplyType
        BY Zenon
      <4>1. outbound[i] \in MessageType
        BY <1>2
      <4>2. outbound[i].pkid \in ServerPkids /\ outbound[i].msg \in Nat
        BY Zenon, <4>1 DEF MessageType
      <4> QED
        BY Zenon, <4>2 DEF Message, ReplyType
    <3>2. [i \in DOMAIN outbound |-> Message(outbound[i])] \in Seq(ReplyType)
      <4>1. DOMAIN outbound = 1..Len(outbound) /\ Len(outbound) \in Nat
        BY <1>2
      <4>2. \A i \in 1..Len(outbound) : Message(outbound[i]) \in ReplyType
        BY Zenon, <3>1, <4>1
      <4>3. [i \in 1..Len(outbound) |-> Message(outbound[i])] \in Seq(ReplyType)
        BY <4>1, <4>2
      <4> QED
        BY Zenon, <4>1, <4>3
    <3> QED
      BY <2>1, <3>2
  <2>6. UNCHANGED <<published, processed, arrivals, message>>
    BY Zenon, <1>5 DEF SystemConnect
  <2> QED
    BY Zenon, <1>1, <1>2, <2>2, <2>3, <2>4, <2>5, <2>6 DEF SystemTypeOK
<1>6. CASE ClientReceive
  <2>1. UNCHANGED <<received, outbound, published, processed, arrivals, sent>>
    BY Zenon, <1>6, ReceiveFrame
  <2>2. to_client' \in Seq(ReplyType) /\ Head(to_client) \in ReplyType
    BY <1>2, <1>6 DEF ClientReceive
  <2>3. message' \in Seq(Nat) /\ Len(message') = Len(deliveries')
    <3>1. Head(to_client).msg \in Nat
      BY <2>2 DEF ReplyType
    <3>2. CASE Delivers(Head(to_client))
      BY <1>2, <1>3, <3>1, <3>2 DEF Delivers
    <3>3. CASE Kept /\ message' = message
      BY Zenon, <1>2, <3>3 DEF Kept
    <3> QED
      BY Zenon, <1>6, <3>2, <3>3, ReceiveDelivers
  <2> QED
    BY Zenon, <1>1, <1>2, <2>1, <2>2, <2>3 DEF SystemTypeOK
<1>7. CASE ConnectionEnds
  <2>1. /\ UNCHANGED <<received, outbound, published, processed, arrivals, message>>
        /\ to_client' = <<>>
    BY Zenon, <1>7 DEF ConnectionEnds
  <2>2. Kept
    BY Zenon, <1>7, ClientKeeps DEF ConnectionEnds
  <2>3. sent' = sent
    BY Zenon, <1>7, EndsOnce DEF ConnectionEnds, EndConnection
  <2>4. <<>> \in Seq(ReplyType)
    OBVIOUS
  <2> QED
    BY Zenon, <1>1, <1>2, <2>1, <2>2, <2>3, <2>4 DEF SystemTypeOK, Kept
<1>8. CASE ServerReceive
  <2> DEFINE pkt == sent[received + 1]
             acked == {i \in DOMAIN outbound :
                          pkt.type = "PUBACK" /\ outbound[i].pkid = pkt.pkid}
  <2>1. /\ received < Len(sent) /\ received' = received + 1
        /\ UNCHANGED <<sent, deliveries, published, message>>
    BY Zenon, <1>8 DEF ServerReceive, sessionVars
  <2>2. /\ outbound' = IF acked = {} THEN outbound ELSE ShiftRemove(outbound, pkt.pkid)
        /\ processed' = processed \cup (IF pkt.type = "PUBACK" THEN {} ELSE {pkt.op} \ {0})
        /\ arrivals' = IF pkt.type = "PUBLISH" /\ pkt.op \notin processed
                       THEN Append(arrivals, pkt.op) ELSE arrivals
    BY Zenon, <1>8 DEF ServerReceive
  <2>3. received' \in 0..Len(sent')
    BY <1>2, <1>3, <2>1
  <2>4. pkt \in PacketType
    BY <1>2, <1>3, <2>1
  <2>5. to_client' \in Seq(ReplyType)
    BY Zenon, <1>8, <1>AnswerType
  <2> HIDE DEF pkt
  <2>6. pkt.op \in Nat
    BY Zenon, <2>4 DEF PacketType
  <2>7. processed' \subseteq Nat
    BY Zenon, <1>2, <2>2, <2>6
  <2>8. arrivals' \in Seq(Nat)
    BY <1>2, <2>2, <2>6
  <2>9. acked = {i \in DOMAIN outbound : outbound[i].pkid = pkt.pkid} \/ acked = {}
    BY Zenon
  <2> HIDE DEF acked
  <2>10. outbound' \in Seq(MessageType)
    BY Zenon, <1>2, <2>2, <2>9, <1>OutboundType
  <2> QED
    BY Zenon, <1>1, <1>2, <2>1, <2>3, <2>5, <2>7, <2>8, <2>10 DEF SystemTypeOK
<1>9. ASSUME NEW p \in ServerPkids, ServerPublish(p)
      PROVE  SystemTypeOK'
  <2> DEFINE m == [pkid |-> p, msg |-> published + 1]
  <2>1. /\ UNCHANGED <<sent, deliveries, received, processed, arrivals, message>>
        /\ published' = published + 1
        /\ outbound' = Append(outbound, m)
        /\ to_client' = to_client \o <<Message(m)>>
    BY Zenon, <1>9 DEF ServerPublish, sessionVars, Answer
  <2>2. m \in MessageType /\ Message(m) \in ReplyType
    BY <1>2 DEF MessageType, Message, ReplyType
  <2> HIDE DEF m
  <2>3. outbound' \in Seq(MessageType)
    BY <1>2, <2>1, <2>2
  <2>4. to_client' \in Seq(ReplyType)
    BY <1>2, <2>1, <2>2
  <2>5. published' \in Nat
    BY <1>2, <2>1
  <2> QED
    BY Zenon, <1>1, <1>2, <2>1, <2>3, <2>4, <2>5 DEF SystemTypeOK
<1>10. CASE UNCHANGED systemVars
  BY Zenon, <1>2, <1>1, <1>10 DEF SystemTypeOK, systemVars, sessionVars, serverVars
<1> QED
  BY Zenon, <1>4, <1>5, <1>6, <1>7, <1>8, <1>9, <1>10 DEF SystemNext

-----------------------------------------------------------------------------
\* The invariant on which everything about the system rests.
SystemInv ==
    /\ TypeOK /\ AckInv /\ ReplayInv
    /\ SystemTypeOK /\ KeysInv /\ RestInv /\ WireInv

\* Nothing is in transit or in flight at the start.
LEMMA SystemInitInv == SystemInit => SystemInv
<1> SUFFICES ASSUME SystemInit PROVE SystemInv
  BY Zenon
<1>1. Init
  BY Zenon DEF SystemInit
<1>2. TypeOK /\ AckInv
  BY Zenon, <1>1, InitInv
<1>3. /\ sent = <<>> /\ deliveries = <<>> /\ o_pub_q0_rx = <<>> /\ mode = "ready"
      /\ publish_qos1 = <<>> /\ packets_to_replay = <<>> /\ subscribe = {} /\ unsubscribe = {}
      /\ pingreq = <<>> /\ leased = {}
  BY Zenon, <1>1 DEF Init, PoolInit
<1>4. ReplayInv
  BY Zenon, <1>3 DEF ReplayInv, Covered, Entries
<1>5. SystemTypeOK
  BY <1>3 DEF SystemTypeOK, SystemInit
<1>6. Entries(<<>>) = {} /\ UniqueKeys(<<>>)
  BY DEF Entries, UniqueKeys
<1>7. KeysInv
  BY Zenon, <1>3, <1>6 DEF KeysInv, OneEach, PkidsOf, InflightKeysDisjoint
<1>8. RestInv /\ WireInv
  BY Zenon, <1>3 DEF RestInv, WireInv
<1> QED
  BY Zenon, <1>2, <1>4, <1>5, <1>7, <1>8 DEF SystemInv

\* Every step of the client, of the server and of the transport keeps the
\* invariant.
LEMMA SystemInvStep == SystemInv /\ [SystemNext]_systemVars => SystemInv'
<1> SUFFICES ASSUME SystemInv, [SystemNext]_systemVars PROVE SystemInv'
  BY Zenon
<1>1. /\ TypeOK /\ AckInv /\ ReplayInv
      /\ SystemTypeOK /\ KeysInv /\ RestInv /\ WireInv
  BY Zenon DEF SystemInv
<1>2. [Next]_sessionVars
  BY Zenon, <1>1, ClientStep
<1>3. TypeOK' /\ AckInv' /\ ReplayInv'
  BY Zenon, <1>1, <1>2, TypeStep, AckStep, ReplayStep
<1>4. SystemTypeOK'
  BY Zenon, <1>1, <1>3, SystemTypeStep
<1>5. KeysInv' /\ RestInv' /\ WireInv'
  BY Zenon, <1>1, <1>3, KeysStep
<1> QED
  BY Zenon, <1>3, <1>4, <1>5 DEF SystemInv

\* The inductive invariant of the system.
LEMMA SystemInvariant == SystemSpec => []SystemInv
BY SystemInitInv, SystemInvStep, PTL DEF SystemSpec

\* The client of the system, whose server answers as MQTT prescribes, is the
\* session of Session, whose server is arbitrary: what the runs and the theorems
\* show of Spec holds of the system.
THEOREM ClientIsSession == SystemSpec => Spec
<1>1. SystemInit => Init
  BY Zenon DEF SystemInit
<1>2. SystemInv /\ [SystemNext]_systemVars => [Next]_sessionVars
  BY Zenon, ClientStep DEF SystemInv
<1> QED
  BY <1>1, <1>2, SystemInvariant, PTL DEF SystemSpec, Spec
=============================================================================

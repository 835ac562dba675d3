--------------------------- MODULE SessionProofs ----------------------------
(***************************************************************************)
(* Type correctness of the session, the order of acknowledgements and the  *)
(* replay of publishes, for every value of the constants.  The inductive   *)
(* invariant of the first two is                                           *)
(*                                                                         *)
(*   TypeOK /\ AckTracker /\ AcksCompleteInOrder /\ NoForgedAck.           *)
(*                                                                         *)
(* TypeOK alone is not inductive: that a PUBACK which is ready has a       *)
(* delivery comes from AckTracker.  The clauses on acknowledgements read   *)
(* five variables, AckVars, which most actions leave alone.                *)
(*                                                                         *)
(* ReplayCoversInflight speaks of a connection; between connections the    *)
(* inductive invariant ReplayInv needs that the replay already holds all   *)
(* that is in flight.  It reads four variables, ReplayVars.                *)
(*                                                                         *)
(* TypeStep, AckStep and ReplayStep show that a step preserves each part,  *)
(* with one named step per action.                                         *)
(***************************************************************************)
EXTENDS Session, TLAPS

USE DEF poolVars, channels, inflight, connection, handles

\* A function on an initial segment of the positive numbers is a sequence.
LEMMA IsSequence ==
    ASSUME NEW T, NEW n \in Nat, NEW f \in [1..n -> T]
    PROVE  f \in Seq(T)
OBVIOUS

\* Append leaves the elements where they are and adds one behind them.
LEMMA Appended ==
    ASSUME NEW T, NEW q \in Seq(T), NEW x \in T
    PROVE  /\ Append(q, x) \in Seq(T) /\ Append(q, x) # <<>>
           /\ Len(Append(q, x)) = Len(q) + 1
           /\ Append(q, x)[Len(q) + 1] = x
           /\ \A i \in 1..Len(q) : Append(q, x)[i] = q[i]
OBVIOUS

\* Resolving completion tokens keeps their type.
LEMMA ResolveType ==
    ASSUME TypeOK, NEW S, NEW outcome \in Outcomes
    PROVE  Resolve(S, outcome) \in Seq(Outcomes)
<1>1. token \in Seq(Outcomes)
  BY Zenon DEF TypeOK, HandlesTypeOK
<1>2. Resolve(S, outcome) \in [1..Len(token) -> Outcomes]
  BY <1>1 DEF Resolve, Ops
<1> QED
  BY <1>1, <1>2, IsSequence

\* IndexMap::insert keeps the type of the map.
LEMMA IndexInsertType ==
    ASSUME NEW map \in Seq(EntryType), NEW e \in EntryType
    PROVE  IndexInsert(map, e) \in Seq(EntryType)
BY DEF IndexInsert

\* IndexMap::shift_remove keeps the type of the map.
LEMMA ShiftRemoveType ==
    ASSUME NEW map \in Seq(EntryType), NEW p, \E i \in DOMAIN map : map[i].pkid = p
    PROVE  ShiftRemove(map, p) \in Seq(EntryType)
<1>1. Len(map) \in Nat /\ DOMAIN map = 1..Len(map) /\ Len(map) - 1 \in Nat
  OBVIOUS
<1>2. \A i \in 1..(Len(map) - 1) : map[i] \in EntryType /\ map[i + 1] \in EntryType
  OBVIOUS
<1>3. ShiftRemove(map, p) \in [1..(Len(map) - 1) -> EntryType]
  BY Zenon, <1>2 DEF ShiftRemove
<1> QED
  BY Zenon, <1>1, <1>3, IsSequence

\* A PUBACK that is ready belongs to a delivery.
LEMMA ReadyAckDelivered ==
    ASSUME TypeOK, AckTracker, Sending, AckReady
    PROVE  Head(publishes).ack \in DOMAIN deliveries
<1>1. /\ publishes \in Seq(SlotType) /\ deliveries \in Seq(DeliveryType)
      /\ publishes # <<>> /\ Alive
  BY Zenon DEF TypeOK, InflightTypeOK, HandlesTypeOK, AckReady, Sending, Alive
<1>2. 1 \in DOMAIN publishes /\ Head(publishes) = publishes[1] /\ Len(publishes) >= 1
  BY <1>1
<1>3. Len(publishes) <= Len(deliveries)
  BY Zenon, <1>1 DEF AckTracker, OpenSlots
<1>4. publishes[1].ack = Len(deliveries) - Len(publishes) + 1
  BY Zenon, <1>1, <1>2 DEF AckTracker, OpenSlots, Acked, AckReady
<1> QED
  BY <1>1, <1>2, <1>3, <1>4

\* Each key of an IndexMap is in one place.
UniqueKeys(q) == \A i, j \in DOMAIN q : q[i].pkid = q[j].pkid => i = j

\* shift_remove closes the gap at the one position that has the key.
LEMMA ShiftRemoveShape ==
    ASSUME NEW T, NEW q \in Seq(T), NEW p, p \in PkidsOf(Entries(q)), UniqueKeys(q)
    PROVE  \E g \in 1..Len(q) :
              /\ q[g].pkid = p
              /\ Overwritten(Entries(q), p) = {q[g].op}
              /\ DOMAIN ShiftRemove(q, p) = 1..(Len(q) - 1)
              /\ \A i \in 1..(Len(q) - 1) :
                    ShiftRemove(q, p)[i] = q[IF i < g THEN i ELSE i + 1]
<1> DEFINE g == CHOOSE i \in DOMAIN q : q[i].pkid = p
<1>1. \E i \in DOMAIN q : q[i].pkid = p
  BY Zenon DEF PkidsOf, Entries
<1>2. g \in DOMAIN q /\ q[g].pkid = p
  BY Zenon, <1>1
<1>3. g \in 1..Len(q)
  BY <1>2
<1>4. \A i \in DOMAIN q : q[i].pkid = p => i = g
  BY Zenon, <1>2 DEF UniqueKeys
<1>5. Overwritten(Entries(q), p) = {q[g].op}
  BY Zenon, <1>2, <1>4 DEF Overwritten, Entries
<1>6. /\ DOMAIN ShiftRemove(q, p) = 1..(Len(q) - 1)
      /\ \A i \in 1..(Len(q) - 1) :
            ShiftRemove(q, p)[i] = q[IF i < g THEN i ELSE i + 1]
  BY Zenon DEF ShiftRemove
<1> QED
  BY Zenon, <1>2, <1>3, <1>5, <1>6

-----------------------------------------------------------------------------

AckVars == <<publishes, deliveries, ack_rx, connection_epoch, mode>>

AckInv == AckTracker /\ AcksCompleteInOrder /\ NoForgedAck

AckTypes ==
    /\ publishes \in Seq(SlotType)
    /\ deliveries \in Seq(DeliveryType)
    /\ ack_rx \in Seq(Nat \ {0})
    /\ connection_epoch \in Nat

\* What the lemmas use of the type invariant.
LEMMA TypesOfAcks == (TypeOK => AckTypes) /\ (TypeOK' => AckTypes')
BY Zenon DEF TypeOK, AckTypes, InflightTypeOK, HandlesTypeOK, ChannelsTypeOK, ConnectionTypeOK

\* deliveries' is deliveries, except that those in D are now in state a.
OnlyAckChanged(D, a) ==
    /\ Len(deliveries') = Len(deliveries)
    /\ \A d \in DOMAIN deliveries :
         /\ deliveries'[d].pkid = deliveries[d].pkid
         /\ deliveries'[d].epoch = deliveries[d].epoch
         /\ deliveries'[d].ack = IF d \in D THEN a ELSE deliveries[d].ack

\* Dropping notifiers changes nothing but the state of those deliveries.
LEMMA DetachChanges ==
    ASSUME AckTypes, NEW D, deliveries' = Detach(D)
    PROVE  OnlyAckChanged(D, "detached")
<1>1. deliveries \in Seq(DeliveryType)
  BY Zenon DEF AckTypes
<1>2. \A e \in DeliveryType :
        /\ [e EXCEPT !.ack = "detached"].pkid = e.pkid
        /\ [e EXCEPT !.ack = "detached"].epoch = e.epoch
        /\ [e EXCEPT !.ack = "detached"].ack = "detached"
  BY Zenon DEF DeliveryType
<1>3. DOMAIN deliveries' = 1..Len(deliveries) /\ Len(deliveries') = Len(deliveries)
  BY <1>1 DEF Detach
<1> QED
  BY <1>1, <1>2, <1>3 DEF OnlyAckChanged, Detach

\* The same for an update of one delivery.
LEMMA SetAckChanges ==
    ASSUME AckTypes, NEW d \in DOMAIN deliveries, NEW a,
           deliveries' = [deliveries EXCEPT ![d].ack = a]
    PROVE  OnlyAckChanged({d}, a)
<1>1. deliveries \in Seq(DeliveryType)
  BY Zenon DEF AckTypes
<1>2. \A e \in DeliveryType :
        /\ [e EXCEPT !.ack = a].pkid = e.pkid
        /\ [e EXCEPT !.ack = a].epoch = e.epoch
        /\ [e EXCEPT !.ack = a].ack = a
  BY Zenon DEF DeliveryType
<1>3. DOMAIN deliveries' = 1..Len(deliveries) /\ Len(deliveries') = Len(deliveries)
  BY <1>1
<1> QED
  BY <1>1, <1>2, <1>3 DEF OnlyAckChanged

\* An acknowledgement request that is not of an earlier connection finds the slot
\* of its own delivery, so that the expect of next_outgoing_request holds.
LEMMA QueuedAckHasSlot ==
    ASSUME TypeOK, AckInv, mode = "connected", ack_rx # <<>>
    PROVE  LET d == Head(ack_rx)
           IN /\ d \in DOMAIN deliveries
              /\ deliveries[d].ack = "pending"
              /\ Stale(d) \/ \E i \in DOMAIN publishes :
                                /\ d = Acked + i
                                /\ publishes[i].ack = 0
                                /\ publishes[i].pkid = deliveries[d].pkid
<1>1. /\ OpenSlots /\ QueuedAcks /\ AckTypes
  BY Zenon, TypesOfAcks DEF AckInv, AckTracker, Alive
<1>2. 1 \in DOMAIN ack_rx /\ Head(ack_rx) = ack_rx[1]
  BY <1>1 DEF AckTypes
<1> QED
  BY <1>1, <1>2 DEF OpenSlots, QueuedAcks

\* Every step keeps the types.
LEMMA TypeStep ==
    ASSUME TypeOK, AckInv, [Next]_sessionVars
    PROVE  TypeOK'

\* Detaching acknowledgement requests keeps the types.
<1>DetachType.
    ASSUME TypeOK, NEW D
    PROVE  Detach(D) \in Seq(DeliveryType)
  <2> USE <1>DetachType
  <2>1. deliveries \in Seq(DeliveryType)
    BY Zenon DEF TypeOK, HandlesTypeOK
  <2>2. \A e \in DeliveryType : [e EXCEPT !.ack = "detached"] \in DeliveryType
    BY Zenon DEF DeliveryType
  <2>3. Detach(D) \in [1..Len(deliveries) -> DeliveryType]
    BY <2>1, <2>2 DEF Detach
  <2> QED
    BY <2>1, <2>3, IsSequence

\* Leasing an identifier keeps the type of the pool.
<1>LeaseType.
    ASSUME PoolTypeOK, NEW p \in Pkids, lease_next_pkid(p)
    PROVE  PoolTypeOK'
  <2> USE <1>LeaseType
  <2>1. AfterInCycle(p) \in Pkids
    BY MaxPkidAssumption DEF AfterInCycle, Pkids
  <2> QED
    BY Zenon, <2>1 DEF PoolTypeOK, lease_next_pkid

\* Recording an acknowledgement in its slot keeps the type of the tracker.
<1>MarkReadyType.
    ASSUME TypeOK, NEW d \in Nat
    PROVE  MarkReady(d) \in Seq(SlotType)
  <2> USE <1>MarkReadyType
  <2>1. publishes \in Seq(SlotType)
    BY Zenon DEF TypeOK, InflightTypeOK
  <2>2. \A e \in SlotType : [e EXCEPT !.ack = d] \in SlotType
    BY Zenon DEF SlotType
  <2>3. MarkReady(d) \in [1..Len(publishes) -> SlotType]
    BY <2>1, <2>2 DEF MarkReady
  <2> QED
    BY <2>1, <2>3, IsSequence

\* Changing the state of one delivery keeps the type of the deliveries.
<1>SetAckType.
    ASSUME TypeOK, NEW d \in DOMAIN deliveries,
           NEW a \in {"held", "pending", "completed", "detached"}
    PROVE  [deliveries EXCEPT ![d].ack = a] \in Seq(DeliveryType)
  <2> USE <1>SetAckType
  <2>1. deliveries \in Seq(DeliveryType)
    BY Zenon DEF TypeOK, HandlesTypeOK
  <2>2. \A e \in DeliveryType : [e EXCEPT !.ack = a] \in DeliveryType
    BY Zenon DEF DeliveryType
  <2>3. [deliveries EXCEPT ![d].ack = a] \in [1..Len(deliveries) -> DeliveryType]
    BY <2>1, <2>2
  <2> QED
    BY <2>1, <2>3, IsSequence

\* Client::publish_qos0 keeps the types.
<1>PublishQoS0CallType.
    ASSUME TypeOK, publish_qos0_call
    PROVE  TypeOK'
  <2> USE <1>PublishQoS0CallType
  <2>1. PoolTypeOK'
    BY Zenon DEF TypeOK, PoolTypeOK, publish_qos0_call, Submit
  <2>2. ChannelsTypeOK'
    BY DEF TypeOK, ChannelsTypeOK, publish_qos0_call, Submit, HandlesTypeOK,
       NewOp, SubscriptionType, AuthType
  <2>3. InflightTypeOK'
    BY Zenon DEF TypeOK, InflightTypeOK, publish_qos0_call, Submit
  <2>4. ConnectionTypeOK'
    BY Zenon DEF TypeOK, ConnectionTypeOK, publish_qos0_call, Submit
  <2>5. HandlesTypeOK'
    BY DEF TypeOK, HandlesTypeOK, publish_qos0_call, Submit, Outcomes
  <2> QED
    BY Zenon, <2>1, <2>2, <2>3, <2>4, <2>5 DEF TypeOK

\* Client::publish_qos1 keeps the types.
<1>PublishQoS1CallType.
    ASSUME TypeOK, publish_qos1_call
    PROVE  TypeOK'
  <2> USE <1>PublishQoS1CallType
  <2>1. PoolTypeOK'
    BY Zenon DEF TypeOK, PoolTypeOK, publish_qos1_call, Submit
  <2>2. ChannelsTypeOK'
    BY DEF TypeOK, ChannelsTypeOK, publish_qos1_call, Submit, HandlesTypeOK,
       NewOp, SubscriptionType, AuthType
  <2>3. InflightTypeOK'
    BY Zenon DEF TypeOK, InflightTypeOK, publish_qos1_call, Submit
  <2>4. ConnectionTypeOK'
    BY Zenon DEF TypeOK, ConnectionTypeOK, publish_qos1_call, Submit
  <2>5. HandlesTypeOK'
    BY DEF TypeOK, HandlesTypeOK, publish_qos1_call, Submit, Outcomes
  <2> QED
    BY <2>1, <2>2, <2>3, <2>4, <2>5 DEF TypeOK

\* Client::subscribe and Client::unsubscribe keep the types.
<1>SubscriptionCallType.
    ASSUME TypeOK, NEW kind \in {"sub", "unsub"}, subscription_call(kind)
    PROVE  TypeOK'
  <2> USE <1>SubscriptionCallType
  <2>1. PoolTypeOK'
    BY Zenon DEF TypeOK, PoolTypeOK, subscription_call, Submit
  <2>2. ChannelsTypeOK'
    BY DEF TypeOK, ChannelsTypeOK, subscription_call, Submit, HandlesTypeOK,
       NewOp, SubscriptionType, AuthType
  <2>3. InflightTypeOK'
    BY Zenon DEF TypeOK, InflightTypeOK, subscription_call, Submit
  <2>4. ConnectionTypeOK'
    BY Zenon DEF TypeOK, ConnectionTypeOK, subscription_call, Submit
  <2>5. HandlesTypeOK'
    BY DEF TypeOK, HandlesTypeOK, subscription_call, Submit, Outcomes
  <2> QED
    BY Zenon, <2>1, <2>2, <2>3, <2>4, <2>5 DEF TypeOK

\* Client::ping keeps the types.
<1>PingCallType.
    ASSUME TypeOK, ping_call
    PROVE  TypeOK'
  <2> USE <1>PingCallType
  <2>1. PoolTypeOK'
    BY Zenon DEF TypeOK, PoolTypeOK, ping_call, Submit
  <2>2. ChannelsTypeOK'
    BY DEF TypeOK, ChannelsTypeOK, ping_call, Submit, HandlesTypeOK, NewOp,
       SubscriptionType, AuthType
  <2>3. InflightTypeOK'
    BY Zenon DEF TypeOK, InflightTypeOK, ping_call, Submit
  <2>4. ConnectionTypeOK'
    BY Zenon DEF TypeOK, ConnectionTypeOK, ping_call, Submit
  <2>5. HandlesTypeOK'
    BY DEF TypeOK, HandlesTypeOK, ping_call, Submit, Outcomes
  <2> QED
    BY <2>1, <2>2, <2>3, <2>4, <2>5 DEF TypeOK

\* ReauthHandle::reauth keeps the types.
<1>ReauthCallType.
    ASSUME TypeOK, NEW m \in Methods, reauth_call(m)
    PROVE  TypeOK'
  <2> USE <1>ReauthCallType
  <2>1. PoolTypeOK'
    BY Zenon DEF TypeOK, PoolTypeOK, reauth_call, Submit
  <2>2. ChannelsTypeOK'
    BY DEF TypeOK, ChannelsTypeOK, reauth_call, Submit, HandlesTypeOK, NewOp,
       SubscriptionType, AuthType
  <2>3. InflightTypeOK'
    BY Zenon DEF TypeOK, InflightTypeOK, reauth_call, Submit
  <2>4. ConnectionTypeOK'
    BY Zenon DEF TypeOK, ConnectionTypeOK, reauth_call, Submit
  <2>5. HandlesTypeOK'
    BY DEF TypeOK, HandlesTypeOK, reauth_call, Submit, Outcomes
  <2> QED
    BY Zenon, <2>1, <2>2, <2>3, <2>4, <2>5 DEF TypeOK

\* ReauthToken::continue_reauth keeps the types.
<1>ContinueReauthCallType.
    ASSUME TypeOK, NEW t \in reauth_tokens, continue_reauth_call(t)
    PROVE  TypeOK'
  <2> USE <1>ContinueReauthCallType
  <2>1. t.method \in Methods
    BY Zenon DEF TypeOK, HandlesTypeOK, AuthType
  <2>2. PoolTypeOK'
    BY Zenon DEF TypeOK, PoolTypeOK, continue_reauth_call, Submit
  <2>3. ChannelsTypeOK'
    BY <2>1 DEF TypeOK, ChannelsTypeOK, continue_reauth_call, Submit,
       HandlesTypeOK, NewOp, SubscriptionType, AuthType
  <2>4. InflightTypeOK'
    BY Zenon DEF TypeOK, InflightTypeOK, continue_reauth_call, Submit
  <2>5. ConnectionTypeOK'
    BY Zenon DEF TypeOK, ConnectionTypeOK, continue_reauth_call, Submit
  <2>6. HandlesTypeOK'
    BY DEF TypeOK, HandlesTypeOK, continue_reauth_call, Submit, Outcomes
  <2> QED
    BY Zenon, <2>2, <2>3, <2>4, <2>5, <2>6 DEF TypeOK

\* Using or dropping a PubAckToken keeps the types.
<1>AcknowledgeType.
    ASSUME TypeOK, NEW d \in DOMAIN deliveries, acknowledge(d)
    PROVE  TypeOK'
  <2> USE <1>AcknowledgeType
  <2>1. PoolTypeOK'
    BY Zenon DEF TypeOK, PoolTypeOK, acknowledge
  <2>2. ChannelsTypeOK'
    BY DEF TypeOK, ChannelsTypeOK, acknowledge, HandlesTypeOK
  <2>3. InflightTypeOK'
    BY Zenon DEF TypeOK, InflightTypeOK, acknowledge
  <2>4. ConnectionTypeOK'
    BY Zenon DEF TypeOK, ConnectionTypeOK, acknowledge
  <2>5. HandlesTypeOK'
    BY Zenon, <1>SetAckType DEF TypeOK, HandlesTypeOK, acknowledge
  <2> QED
    BY Zenon, <2>1, <2>2, <2>3, <2>4, <2>5 DEF TypeOK

\* DisconnectHandle::disconnect keeps the types.
<1>DisconnectCallType.
    ASSUME TypeOK, NEW e \in Expiries \cup {Absent}, disconnect_call(e)
    PROVE  TypeOK'
  <2> USE <1>DisconnectCallType
  <2>1. PoolTypeOK'
    BY Zenon DEF TypeOK, PoolTypeOK, disconnect_call
  <2>2. ChannelsTypeOK'
    BY Zenon DEF TypeOK, ChannelsTypeOK, disconnect_call
  <2>3. InflightTypeOK'
    BY Zenon DEF TypeOK, InflightTypeOK, disconnect_call
  <2>4. ConnectionTypeOK'
    BY Zenon DEF TypeOK, ConnectionTypeOK, disconnect_call
  <2>5. HandlesTypeOK'
    BY Zenon DEF TypeOK, HandlesTypeOK, disconnect_call
  <2> QED
    BY Zenon, <2>1, <2>2, <2>3, <2>4, <2>5 DEF TypeOK

\* Dropping the session, by the application or by a panic, keeps the types.
<1>SessionDroppedType.
    ASSUME TypeOK, NEW how \in {"gone"} \cup Panics, SessionDropped(how)
    PROVE  TypeOK'
  <2> USE <1>SessionDroppedType
  <2>1. PoolTypeOK'
    BY Zenon DEF TypeOK, PoolTypeOK, SessionDropped
  <2>2. ChannelsTypeOK'
    BY Zenon DEF TypeOK, ChannelsTypeOK, SessionDropped
  <2>3. InflightTypeOK'
    BY Zenon DEF TypeOK, InflightTypeOK, SessionDropped
  <2>4. ConnectionTypeOK'
    BY Zenon DEF TypeOK, ConnectionTypeOK, SessionDropped
  <2>5. HandlesTypeOK'
    BY Zenon, <1>DetachType, ResolveType DEF TypeOK, HandlesTypeOK, SessionDropped, Outcomes
  <2> QED
    BY Zenon, <2>1, <2>2, <2>3, <2>4, <2>5 DEF TypeOK

\* Every packet that the session writes has the type of a packet.
<1>WrittenType.
    ASSUME TypeOK, NEW p \in Nat, NEW o \in Nat, NEW dup \in BOOLEAN,
           NEW type \in {"PUBLISH", "PUBACK", "SUBSCRIBE", "UNSUBSCRIBE", "PINGREQ",
                         "AUTH", "DISCONNECT"}
    PROVE  Append(sent, Pkt(type, p, o, dup)) \in Seq(PacketType)
  <2> USE <1>WrittenType
  <2>1. Pkt(type, p, o, dup) \in PacketType
    BY Zenon DEF Pkt, PacketType
  <2>2. sent \in Seq(PacketType)
    BY Zenon DEF TypeOK, ConnectionTypeOK
  <2> QED
    BY <2>1, <2>2

\* Client packet identifiers are positive numbers.
<1>PkidsNat. \A p \in Pkids : p \in Nat /\ p # 0
  BY MaxPkidAssumption DEF Pkids

\* Replaying a PUBLISH keeps the types.
<1>SendReplayedType.
    ASSUME TypeOK, send_replayed
    PROVE  TypeOK'
  <2> USE <1>SendReplayedType
  <2>1. Head(packets_to_replay).pkid \in Nat /\ Head(packets_to_replay).op \in Nat
    <3>1. Head(packets_to_replay) \in EntryType
      BY DEF TypeOK, InflightTypeOK, send_replayed
    <3> QED
      BY Zenon, <3>1, <1>PkidsNat DEF EntryType
  <2>2. Append(sent, Pkt("PUBLISH", Head(packets_to_replay).pkid,
                        Head(packets_to_replay).op, TRUE)) \in Seq(PacketType)
    BY Zenon, <2>1, <1>WrittenType
  <2>3. PoolTypeOK'
    BY Zenon DEF TypeOK, PoolTypeOK, send_replayed, UnchangedBySending
  <2>4. ChannelsTypeOK'
    BY Zenon DEF TypeOK, ChannelsTypeOK, send_replayed, UnchangedBySending
  <2>5. InflightTypeOK'
    BY DEF TypeOK, InflightTypeOK, send_replayed, UnchangedBySending
  <2>6. ConnectionTypeOK'
    BY Zenon, <2>2 DEF TypeOK, ConnectionTypeOK, send_replayed, UnchangedBySending, Write
  <2>7. HandlesTypeOK'
    BY Zenon DEF TypeOK, HandlesTypeOK, send_replayed, UnchangedBySending
  <2> QED
    BY <2>3, <2>4, <2>5, <2>6, <2>7 DEF TypeOK

\* Writing the PUBACK at the front of the tracker keeps the types.
<1>SendReadyAckType.
    ASSUME TypeOK, AckTracker, send_ready_ack
    PROVE  TypeOK'
  <2> USE <1>SendReadyAckType
  <2>1. /\ Head(publishes).ack \in DOMAIN deliveries
        /\ Head(publishes).ack \in Nat
    BY ReadyAckDelivered DEF TypeOK, HandlesTypeOK, send_ready_ack
  <2>2. Detach({Head(publishes).ack}) \in Seq(DeliveryType)
    BY Zenon, <1>DetachType
  <2>3. [deliveries EXCEPT ![Head(publishes).ack].ack = "completed"] \in Seq(DeliveryType)
    BY Zenon, <2>1, <1>SetAckType
  <2>4. Append(sent, Pkt("PUBACK", deliveries[Head(publishes).ack].pkid,
                        Head(publishes).ack, FALSE)) \in Seq(PacketType)
    <3>1. deliveries[Head(publishes).ack] \in DeliveryType
      BY <2>1 DEF TypeOK, HandlesTypeOK
    <3>2. deliveries[Head(publishes).ack].pkid \in Nat
      BY Zenon, <3>1, SessionAssumption DEF DeliveryType
    <3> QED
      BY Zenon, <2>1, <3>2, <1>WrittenType
  <2>5. PoolTypeOK'
    BY Zenon DEF TypeOK, PoolTypeOK, send_ready_ack, UnchangedBySending
  <2>6. ChannelsTypeOK'
    BY Zenon DEF TypeOK, ChannelsTypeOK, send_ready_ack, UnchangedBySending
  <2>7. InflightTypeOK'
    BY DEF TypeOK, InflightTypeOK, send_ready_ack, UnchangedBySending, AckReady
  <2>8. ConnectionTypeOK'
    BY Zenon, <2>4 DEF TypeOK, ConnectionTypeOK, send_ready_ack, UnchangedBySending,
       Write
  <2>9. HandlesTypeOK'
    BY Zenon, <2>2, <2>3 DEF TypeOK, HandlesTypeOK, send_ready_ack, UnchangedBySending
  <2> QED
    BY Zenon, <2>5, <2>6, <2>7, <2>8, <2>9 DEF TypeOK

\* Routing an acknowledgement through the tracker keeps the types.
<1>RouteAckType.
    ASSUME TypeOK, NoForgedAck', route_ack
    PROVE  TypeOK'
  <2> USE <1>RouteAckType
  <2>1. Head(ack_rx) \in Nat /\ Tail(ack_rx) \in Seq(Nat \ {0})
    BY DEF TypeOK, ChannelsTypeOK, route_ack
  <2>2. /\ ack_rx' = Tail(ack_rx)
        /\ publishes' \in {publishes, MarkReady(Head(ack_rx))}
        /\ deliveries' \in {deliveries, Detach({Head(ack_rx)})}
        /\ UNCHANGED <<poolVars, channels, disconnect_rx, inflight, sent, driver,
                       packets_to_replay, pingresp_timer, token, connection, handles>>
    BY Zenon DEF route_ack, NoForgedAck, SessionDropped, UnchangedBySending
  <2>3. MarkReady(Head(ack_rx)) \in Seq(SlotType)
    BY Zenon, <2>1, <1>MarkReadyType
  <2>4. Detach({Head(ack_rx)}) \in Seq(DeliveryType)
    BY Zenon, <1>DetachType
  <2>5. PoolTypeOK'
    BY Zenon, <2>2 DEF TypeOK, PoolTypeOK
  <2>6. ChannelsTypeOK'
    BY Zenon, <2>1, <2>2 DEF TypeOK, ChannelsTypeOK
  <2>7. InflightTypeOK'
    BY Zenon, <2>2, <2>3 DEF TypeOK, InflightTypeOK
  <2>8. ConnectionTypeOK'
    BY Zenon, <2>2 DEF TypeOK, ConnectionTypeOK
  <2>9. HandlesTypeOK'
    BY Zenon, <2>2, <2>4 DEF TypeOK, HandlesTypeOK
  <2> QED
    BY Zenon, <2>5, <2>6, <2>7, <2>8, <2>9 DEF TypeOK

\* Writing DISCONNECT keeps the types.
<1>SendDisconnectType.
    ASSUME TypeOK, send_disconnect
    PROVE  TypeOK'
  <2> USE <1>SendDisconnectType
  <2>1. Append(sent, Pkt("DISCONNECT", 0, 0, FALSE)) \in Seq(PacketType)
    BY Zenon, <1>WrittenType
  <2>2. PoolTypeOK'
    BY Zenon DEF TypeOK, PoolTypeOK, send_disconnect, UnchangedBySending
  <2>3. ChannelsTypeOK'
    BY Zenon DEF TypeOK, ChannelsTypeOK, send_disconnect, UnchangedBySending
  <2>4. InflightTypeOK'
    BY Zenon DEF TypeOK, InflightTypeOK, send_disconnect, UnchangedBySending
  <2>5. ConnectionTypeOK'
    BY Zenon, <2>1 DEF TypeOK, ConnectionTypeOK, send_disconnect, UnchangedBySending
  <2>6. HandlesTypeOK'
    BY Zenon DEF TypeOK, HandlesTypeOK, send_disconnect, UnchangedBySending
  <2> QED
    BY <2>2, <2>3, <2>4, <2>5, <2>6 DEF TypeOK

\* Writing AUTH keeps the types.
<1>SendAuthType.
    ASSUME TypeOK, send_auth
    PROVE  TypeOK'
  <2> USE <1>SendAuthType
  <2>1. /\ Head(auth_rx) \in AuthType
        /\ Tail(auth_rx) \in Seq(AuthType)
    BY DEF TypeOK, ChannelsTypeOK, send_auth
  <2>2. Append(sent, Pkt("AUTH", 0, Head(auth_rx).op, FALSE)) \in Seq(PacketType)
    BY Zenon, <2>1, <1>WrittenType DEF AuthType
  <2>3. token' \in Seq(Outcomes)
    BY Zenon, ResolveType DEF send_auth, Outcomes
  <2>4. PoolTypeOK'
    BY Zenon DEF TypeOK, PoolTypeOK, send_auth, UnchangedBySending
  <2>5. ChannelsTypeOK'
    BY Zenon, <2>1 DEF TypeOK, ChannelsTypeOK, send_auth, UnchangedBySending
  <2>6. InflightTypeOK'
    BY Zenon, <2>1 DEF TypeOK, InflightTypeOK, send_auth, UnchangedBySending, AuthType
  <2>7. ConnectionTypeOK'
    BY Zenon, <2>2 DEF TypeOK, ConnectionTypeOK, send_auth, UnchangedBySending, Write
  <2>8. HandlesTypeOK'
    BY Zenon, <2>3 DEF TypeOK, HandlesTypeOK, send_auth, UnchangedBySending
  <2> QED
    BY <2>4, <2>5, <2>6, <2>7, <2>8 DEF TypeOK

\* Writing a PINGREQ keeps the types.
<1>WritePingType.
    ASSUME TypeOK, NEW o \in Nat, WritePing(o), ping_rx' \in Seq(Nat \ {0})
    PROVE  TypeOK'
  <2> USE <1>WritePingType
  <2>1. Append(sent, Pkt("PINGREQ", 0, o, FALSE)) \in Seq(PacketType)
    BY Zenon, <1>WrittenType
  <2>2. PoolTypeOK'
    BY Zenon DEF TypeOK, PoolTypeOK, WritePing, UnchangedBySending
  <2>3. ChannelsTypeOK'
    BY Zenon DEF TypeOK, ChannelsTypeOK, WritePing, UnchangedBySending
  <2>4. InflightTypeOK'
    BY DEF TypeOK, InflightTypeOK, WritePing, UnchangedBySending
  <2>5. ConnectionTypeOK'
    BY Zenon, <2>1 DEF TypeOK, ConnectionTypeOK, WritePing, UnchangedBySending, Write
  <2>6. HandlesTypeOK'
    BY Zenon DEF TypeOK, HandlesTypeOK, WritePing, UnchangedBySending
  <2> QED
    BY Zenon, <2>2, <2>3, <2>4, <2>5, <2>6 DEF TypeOK

\* A PINGREQ of the application or of the keep-alive keeps the types.
<1>SendPingType.
    ASSUME TypeOK, send_ping \/ send_keep_alive
    PROVE  TypeOK'
  <2> USE <1>SendPingType
  <2>1. CASE send_ping
    <3>1. Head(ping_rx) \in Nat /\ Tail(ping_rx) \in Seq(Nat \ {0})
      BY <2>1 DEF TypeOK, ChannelsTypeOK, send_ping
    <3> QED
      BY Zenon, <2>1, <3>1, <1>WritePingType DEF send_ping
  <2>2. CASE send_keep_alive
    <3>1. ping_rx \in Seq(Nat \ {0})
      BY Zenon DEF TypeOK, ChannelsTypeOK
    <3> QED
      BY Zenon, <2>2, <3>1, <1>WritePingType DEF send_keep_alive
  <2> QED
    BY Zenon, <2>1, <2>2

\* Writing SUBSCRIBE or UNSUBSCRIBE keeps the types.
<1>SendSubscriptionType.
    ASSUME TypeOK, NEW p \in Pkids, send_subscription(p)
    PROVE  TypeOK'
  <2> USE <1>SendSubscriptionType
  <2>1. /\ Head(sub_rx) \in SubscriptionType
        /\ Tail(sub_rx) \in Seq(SubscriptionType)
    BY DEF TypeOK, ChannelsTypeOK, send_subscription
  <2>2. subscribe' \subseteq EntryType /\ unsubscribe' \subseteq EntryType
    <3>1. Entry(p, Head(sub_rx).op) \in EntryType
      BY Zenon, <2>1 DEF Entry, EntryType, SubscriptionType
    <3> QED
      BY Zenon, <3>1 DEF TypeOK, InflightTypeOK, HashInsert, send_subscription
  <2>3. sent' \in Seq(PacketType)
    BY Zenon, <2>1, <1>WrittenType, <1>PkidsNat DEF SubscriptionType, send_subscription, Write
  <2>4. token' \in Seq(Outcomes)
    BY Zenon, ResolveType DEF send_subscription, Outcomes
  <2>5. PoolTypeOK'
    BY Zenon, <1>LeaseType DEF TypeOK, PoolTypeOK, send_subscription, UnchangedBySending
  <2>6. ChannelsTypeOK'
    BY Zenon, <2>1 DEF TypeOK, ChannelsTypeOK, send_subscription, UnchangedBySending
  <2>7. InflightTypeOK'
    BY Zenon, <2>2 DEF TypeOK, InflightTypeOK, send_subscription, UnchangedBySending
  <2>8. ConnectionTypeOK'
    BY Zenon, <2>3 DEF TypeOK, ConnectionTypeOK, send_subscription, UnchangedBySending,
       Write
  <2>9. HandlesTypeOK'
    BY Zenon, <2>4 DEF TypeOK, HandlesTypeOK, send_subscription, UnchangedBySending
  <2> QED
    BY Zenon, <2>5, <2>6, <2>7, <2>8, <2>9 DEF TypeOK

\* Writing a QoS 0 PUBLISH keeps the types.
<1>SendPublishQoS0Type.
    ASSUME TypeOK, send_publish_qos0
    PROVE  TypeOK'
  <2> USE <1>SendPublishQoS0Type
  <2>1. Head(o_pub_q0_rx) \in Nat /\ Tail(o_pub_q0_rx) \in Seq(Nat \ {0})
    BY DEF TypeOK, ChannelsTypeOK, send_publish_qos0
  <2>2. Append(sent, Pkt("PUBLISH", 0, Head(o_pub_q0_rx), FALSE)) \in Seq(PacketType)
    BY Zenon, <2>1, <1>WrittenType
  <2>3. token' \in Seq(Outcomes)
    BY Zenon, ResolveType DEF send_publish_qos0, Outcomes
  <2>4. PoolTypeOK'
    BY Zenon DEF TypeOK, PoolTypeOK, send_publish_qos0, UnchangedBySending
  <2>5. ChannelsTypeOK'
    BY Zenon, <2>1 DEF TypeOK, ChannelsTypeOK, send_publish_qos0, UnchangedBySending
  <2>6. InflightTypeOK'
    BY Zenon DEF TypeOK, InflightTypeOK, send_publish_qos0, UnchangedBySending
  <2>7. ConnectionTypeOK'
    BY Zenon, <2>2 DEF TypeOK, ConnectionTypeOK, send_publish_qos0, UnchangedBySending,
       Write
  <2>8. HandlesTypeOK'
    BY Zenon, <2>3 DEF TypeOK, HandlesTypeOK, send_publish_qos0, UnchangedBySending
  <2> QED
    BY <2>4, <2>5, <2>6, <2>7, <2>8 DEF TypeOK

\* Writing a QoS 1 PUBLISH keeps the types.
<1>SendPublishQoS1Type.
    ASSUME TypeOK, NEW p \in Pkids, send_publish_qos1(p)
    PROVE  TypeOK'
  <2> USE <1>SendPublishQoS1Type
  <2>1. Head(o_pub_q12_rx) \in Nat \ {0} /\ Tail(o_pub_q12_rx) \in Seq(Nat \ {0})
    BY DEF TypeOK, ChannelsTypeOK, send_publish_qos1
  <2>2. publish_qos1' \in Seq(EntryType)
    <3>1. Entry(p, Head(o_pub_q12_rx)) \in EntryType
      BY Zenon, <2>1 DEF Entry, EntryType
    <3> QED
      BY Zenon, <3>1, IndexInsertType DEF TypeOK, InflightTypeOK, send_publish_qos1
  <2>3. Append(sent, Pkt("PUBLISH", p, Head(o_pub_q12_rx), FALSE)) \in Seq(PacketType)
    BY Zenon, <2>1, <1>WrittenType, <1>PkidsNat
  <2>4. token' \in Seq(Outcomes)
    BY Zenon, ResolveType DEF send_publish_qos1, Outcomes
  <2>5. PoolTypeOK'
    BY Zenon, <1>LeaseType DEF TypeOK, PoolTypeOK, send_publish_qos1, UnchangedBySending
  <2>6. ChannelsTypeOK'
    BY Zenon, <2>1 DEF TypeOK, ChannelsTypeOK, send_publish_qos1, UnchangedBySending
  <2>7. InflightTypeOK'
    BY Zenon, <2>2 DEF TypeOK, InflightTypeOK, send_publish_qos1, UnchangedBySending
  <2>8. ConnectionTypeOK'
    BY Zenon, <2>3 DEF TypeOK, ConnectionTypeOK, send_publish_qos1, UnchangedBySending,
       Write
  <2>9. HandlesTypeOK'
    BY Zenon, <2>4 DEF TypeOK, HandlesTypeOK, send_publish_qos1, UnchangedBySending
  <2> QED
    BY <2>5, <2>6, <2>7, <2>8, <2>9 DEF TypeOK

\* Flushing the writer keeps the types.
<1>FlushType.
    ASSUME TypeOK, flush
    PROVE  TypeOK'
  <2> USE <1>FlushType
  <2>1. PoolTypeOK'
    BY Zenon DEF TypeOK, PoolTypeOK, flush, UnchangedBySending
  <2>2. ChannelsTypeOK'
    BY Zenon DEF TypeOK, ChannelsTypeOK, flush, UnchangedBySending
  <2>3. InflightTypeOK'
    BY Zenon DEF TypeOK, InflightTypeOK, flush, UnchangedBySending
  <2>4. ConnectionTypeOK'
    BY Zenon DEF TypeOK, ConnectionTypeOK, flush, UnchangedBySending
  <2>5. HandlesTypeOK'
    BY Zenon DEF TypeOK, HandlesTypeOK, flush, UnchangedBySending
  <2> QED
    BY <2>1, <2>2, <2>3, <2>4, <2>5 DEF TypeOK

\* disconnected() and session_expired() keep the types.
<1>EndConnectionType.
    ASSUME TypeOK, NEW e \in Expiries \cup {0}, NEW freed, EndConnection(e, freed)
    PROVE  TypeOK'
  <2> USE <1>EndConnectionType
  <2>1. token' \in Seq(Outcomes)
    BY Zenon, ResolveType DEF EndConnection, Outcomes
  <2>2. deliveries' \in Seq(DeliveryType)
    BY Zenon, <1>DetachType DEF EndConnection
  <2>3. PoolTypeOK'
    BY Zenon DEF TypeOK, PoolTypeOK, EndConnection
  <2>4. ChannelsTypeOK'
    BY Zenon DEF TypeOK, ChannelsTypeOK, EndConnection
  <2>5. InflightTypeOK'
    BY DEF TypeOK, InflightTypeOK, EndConnection, ToReplay, SlotsAfterDisconnect
  <2>6. ConnectionTypeOK'
    BY Zenon DEF TypeOK, ConnectionTypeOK, EndConnection
  <2>7. HandlesTypeOK'
    BY Zenon, <2>1, <2>2 DEF TypeOK, HandlesTypeOK, EndConnection
  <2> QED
    BY Zenon, <2>3, <2>4, <2>5, <2>6, <2>7 DEF TypeOK

\* Every exit of run_until_disconnect keeps the types.
<1>DisconnectType.
    ASSUME TypeOK, NEW freed,
           \/ Disconnect \/ incoming_disconnect \/ protocol_error(freed)
    PROVE  TypeOK'
  <2> USE <1>DisconnectType
  <2>1. expiry_interval \in Expiries \cup {0}
    BY Zenon DEF TypeOK, ConnectionTypeOK
  <2>2. CASE application_disconnect
    <3>1. disconnect_rx.expiry \in Expiries \cup {Absent}
      BY Zenon DEF TypeOK, ChannelsTypeOK
    <3>2. PICK e \in Expiries \cup {0} : EndConnection(e, {})
      BY Zenon, <2>1, <2>2, <3>1 DEF application_disconnect
    <3> QED
      BY Zenon, <3>2, <1>EndConnectionType
  <2>3. CASE io_error
    BY Zenon, <2>1, <2>3, <1>EndConnectionType DEF io_error
  <2>4. CASE ping_timeout
    BY Zenon, <2>1, <2>4, <1>EndConnectionType DEF ping_timeout
  <2>5. CASE incoming_disconnect
    BY Zenon, <2>1, <2>5, <1>EndConnectionType DEF incoming_disconnect
  <2>6. CASE protocol_error(freed)
    BY Zenon, <2>1, <2>6, <1>EndConnectionType DEF protocol_error
  <2> QED
    BY Zenon, <2>2, <2>3, <2>4, <2>5, <2>6 DEF Disconnect

\* complete_inflight keeps the types when the map has the packet identifier.
<1>AckMatchesType.
    ASSUME TypeOK, NEW S, NEW p, AckMatches(S, p),
           publish_qos1' \in Seq(EntryType), subscribe' \subseteq EntryType,
           unsubscribe' \subseteq EntryType
    PROVE  TypeOK'
  <2> USE <1>AckMatchesType
  <2>1. token' \in Seq(Outcomes)
    BY Zenon, ResolveType DEF AckMatches, Outcomes
  <2>2. PoolTypeOK'
    BY Zenon DEF TypeOK, PoolTypeOK, AckMatches, UnchangedByReceiving, release_pkids
  <2>3. ChannelsTypeOK'
    BY Zenon DEF TypeOK, ChannelsTypeOK, AckMatches, UnchangedByReceiving
  <2>4. InflightTypeOK'
    BY Zenon DEF TypeOK, InflightTypeOK, AckMatches, UnchangedByReceiving
  <2>5. ConnectionTypeOK'
    BY Zenon DEF TypeOK, ConnectionTypeOK, AckMatches, UnchangedByReceiving
  <2>6. HandlesTypeOK'
    BY Zenon, <2>1 DEF TypeOK, HandlesTypeOK, AckMatches, UnchangedByReceiving
  <2> QED
    BY Zenon, <2>2, <2>3, <2>4, <2>5, <2>6 DEF TypeOK

\* SUBACK, UNSUBACK, PUBACK and PUBREC keep the types.
<1>IncomingAckType.
    ASSUME TypeOK, NEW p \in Pkids,
           \/ incoming_suback(p) \/ incoming_unsuback(p)
           \/ incoming_puback(p) \/ incoming_pubrec(p)
    PROVE  TypeOK'
  <2> USE <1>IncomingAckType
  <2>1. /\ publish_qos1 \in Seq(EntryType)
        /\ subscribe \subseteq EntryType
        /\ unsubscribe \subseteq EntryType
    BY Zenon DEF TypeOK, InflightTypeOK
  <2>2. ASSUME NEW S, AckUnmatched(S, p)
        PROVE  TypeOK'
    BY Zenon, <2>2, <1>DisconnectType DEF AckUnmatched
  <2>3. CASE incoming_suback(p)
    BY Zenon, <2>1, <2>2, <2>3, <1>AckMatchesType DEF incoming_suback
  <2>4. CASE incoming_unsuback(p)
    BY Zenon, <2>1, <2>2, <2>4, <1>AckMatchesType DEF incoming_unsuback
  <2>5. CASE incoming_puback(p)
    <3>1. SUFFICES ASSUME /\ AckMatches(Entries(publish_qos1), p)
                          /\ publish_qos1' = ShiftRemove(publish_qos1, p)
                          /\ UNCHANGED <<subscribe, unsubscribe>>
                   PROVE  TypeOK'
      BY Zenon, <2>2, <2>5 DEF incoming_puback
    <3>2. \E i \in DOMAIN publish_qos1 : publish_qos1[i].pkid = p
      BY Zenon, <3>1 DEF AckMatches, PkidsOf, Entries
    <3>3. ShiftRemove(publish_qos1, p) \in Seq(EntryType)
      BY Zenon, <2>1, <3>2, ShiftRemoveType
    <3> QED
      BY Zenon, <2>1, <3>1, <3>3, <1>AckMatchesType
  <2>6. CASE incoming_pubrec(p)
    BY Zenon, <2>2, <2>6, <1>SessionDroppedType DEF incoming_pubrec, Panics
  <2> QED
    BY Zenon, <2>3, <2>4, <2>5, <2>6

\* Handing a QoS 1 PUBLISH to the application keeps the types.
<1>DeliverType.
    ASSUME TypeOK, NEW p \in ServerPkids,
           publishes' = Append(publishes, [pkid |-> p, d |-> Len(deliveries) + 1, ack |-> 0]),
           deliveries' = Append(deliveries, [pkid |-> p, epoch |-> connection_epoch,
                                             ack |-> "held"]),
           UNCHANGED <<poolVars, inflight, pingresp_timer, token, handles>>,
           UnchangedByReceiving
    PROVE  TypeOK'
  <2> USE <1>DeliverType
  <2>1. publishes' \in Seq(SlotType)
    <3>1. [pkid |-> p, d |-> Len(deliveries) + 1, ack |-> 0] \in SlotType
      BY DEF TypeOK, HandlesTypeOK, SlotType
    <3> QED
      BY <3>1 DEF TypeOK, InflightTypeOK
  <2>2. deliveries' \in Seq(DeliveryType)
    <3>1. [pkid |-> p, epoch |-> connection_epoch, ack |-> "held"] \in DeliveryType
      BY Zenon DEF TypeOK, ConnectionTypeOK, DeliveryType
    <3> QED
      BY <3>1 DEF TypeOK, HandlesTypeOK
  <2>3. PoolTypeOK'
    BY Zenon DEF TypeOK, PoolTypeOK, UnchangedByReceiving
  <2>4. ChannelsTypeOK'
    BY Zenon DEF TypeOK, ChannelsTypeOK, UnchangedByReceiving
  <2>5. InflightTypeOK'
    BY Zenon, <2>1 DEF TypeOK, InflightTypeOK, UnchangedByReceiving
  <2>6. ConnectionTypeOK'
    BY Zenon DEF TypeOK, ConnectionTypeOK, UnchangedByReceiving
  <2>7. HandlesTypeOK'
    BY Zenon, <2>2 DEF TypeOK, HandlesTypeOK, UnchangedByReceiving
  <2> QED
    BY Zenon, <2>3, <2>4, <2>5, <2>6, <2>7 DEF TypeOK

\* An incoming PUBLISH keeps the types.
<1>IncomingPublishType.
    ASSUME TypeOK,
           \/ \E p \in ServerPkids : incoming_publish_qos1(p)
           \/ incoming_publish_qos2
    PROVE  TypeOK'
  <2> USE <1>IncomingPublishType
  <2>1. CASE incoming_publish_qos2
    BY Zenon, <2>1, <1>SessionDroppedType DEF incoming_publish_qos2, Panics
  <2>2. ASSUME NEW p \in ServerPkids, incoming_publish_qos1(p)
        PROVE  TypeOK'
    BY Zenon, <2>2, <1>SessionDroppedType, <1>DeliverType DEF incoming_publish_qos1, Panics
  <2> QED
    BY Zenon, <2>1, <2>2

\* An incoming AUTH keeps the types.
<1>IncomingAuthType.
    ASSUME TypeOK, incoming_auth_success \/ incoming_auth_continue
    PROVE  TypeOK'
  <2> USE <1>IncomingAuthType
  <2>1. token' \in Seq(Outcomes)
    BY Zenon, ResolveType DEF incoming_auth_success, incoming_auth_continue, Outcomes
  <2>2. auth \in AuthType
    BY Zenon DEF TypeOK, InflightTypeOK, incoming_auth_success, incoming_auth_continue
  <2>3. PoolTypeOK'
    BY Zenon DEF TypeOK, PoolTypeOK, incoming_auth_success, incoming_auth_continue,
       UnchangedByReceiving
  <2>4. ChannelsTypeOK'
    BY Zenon DEF TypeOK, ChannelsTypeOK, incoming_auth_success, incoming_auth_continue,
       UnchangedByReceiving
  <2>5. InflightTypeOK'
    BY Zenon DEF TypeOK, InflightTypeOK, incoming_auth_success, incoming_auth_continue,
       UnchangedByReceiving
  <2>6. ConnectionTypeOK'
    BY Zenon DEF TypeOK, ConnectionTypeOK, incoming_auth_success,
       incoming_auth_continue, UnchangedByReceiving
  <2>7. HandlesTypeOK'
    BY Zenon, <2>1, <2>2 DEF TypeOK, HandlesTypeOK, incoming_auth_success,
       incoming_auth_continue, UnchangedByReceiving
  <2> QED
    BY Zenon, <2>3, <2>4, <2>5, <2>6, <2>7 DEF TypeOK

\* PINGRESP keeps the types.
<1>IncomingPingrespType.
    ASSUME TypeOK, incoming_pingresp
    PROVE  TypeOK'
  <2> USE <1>IncomingPingrespType
  <2>1. token' \in Seq(Outcomes)
    BY Zenon, ResolveType DEF TypeOK, HandlesTypeOK, incoming_pingresp, Outcomes
  <2>2. PoolTypeOK'
    BY Zenon DEF TypeOK, PoolTypeOK, incoming_pingresp, UnchangedByReceiving
  <2>3. ChannelsTypeOK'
    BY Zenon DEF TypeOK, ChannelsTypeOK, incoming_pingresp, UnchangedByReceiving
  <2>4. InflightTypeOK'
    BY DEF TypeOK, InflightTypeOK, incoming_pingresp, UnchangedByReceiving
  <2>5. ConnectionTypeOK'
    BY Zenon DEF TypeOK, ConnectionTypeOK, incoming_pingresp, UnchangedByReceiving
  <2>6. HandlesTypeOK'
    BY Zenon, <2>1 DEF TypeOK, HandlesTypeOK, incoming_pingresp, UnchangedByReceiving
  <2> QED
    BY <2>2, <2>3, <2>4, <2>5, <2>6 DEF TypeOK

\* incoming_connack keeps the types.
<1>ConnectType.
    ASSUME TypeOK, NEW sp \in BOOLEAN, NEW client \in Expiries,
           NEW server \in Expiries \cup {Absent}, NEW m \in Methods \cup {NoMethod},
           NEW ka \in KeepAlives, connect(sp, client, server, m, ka)
    PROVE  TypeOK'
  <2> USE <1>ConnectType
  <2>1. token' \in Seq(Outcomes)
    BY Zenon, ResolveType DEF TypeOK, HandlesTypeOK, connect, Outcomes
  <2>2. ka.ping_after \in BOOLEAN /\ ka.response_timeout \in BOOLEAN
    BY Zenon, SessionAssumption
  <2>3. /\ publish_qos1' \in Seq(EntryType)
        /\ packets_to_replay' \in Seq(EntryType)
        /\ UNCHANGED <<subscribe, unsubscribe, auth, pingreq, publishes>>
    <3>1. CASE sp
      BY Zenon, <3>1 DEF TypeOK, InflightTypeOK, connect
    <3>2. CASE ~sp
      BY SMTT(60), <3>2 DEF TypeOK, InflightTypeOK, connect
    <3> QED
      BY Zenon, <3>1, <3>2
  <2>4. PoolTypeOK'
    BY Zenon DEF TypeOK, PoolTypeOK, connect, release_pkids
  <2>5. ChannelsTypeOK'
    BY Zenon DEF TypeOK, ChannelsTypeOK, connect
  <2>6. InflightTypeOK'
    BY Zenon, <2>3 DEF TypeOK, InflightTypeOK, connect
  <2>7. ConnectionTypeOK'
    BY SMTT(60), <2>2 DEF TypeOK, ConnectionTypeOK, connect, EffectiveExpiry
  <2>8. HandlesTypeOK'
    BY Zenon, <2>1 DEF TypeOK, HandlesTypeOK, connect
  <2> QED
    BY Zenon, <2>4, <2>5, <2>6, <2>7, <2>8 DEF TypeOK

\* The panic of next_outgoing_request on an acknowledgement without a slot is
\* out of reach.
<1>RouteAckNoPanic.
    ASSUME TypeOK, AckInv, route_ack
    PROVE  NoForgedAck'
  <2> USE <1>RouteAckNoPanic
  <2>1. mode = "connected" /\ ack_rx # <<>>
    BY Zenon DEF route_ack, PollsAcks, Polls, Sending
  <2>2. mode' = mode
    BY Zenon, <2>1, QueuedAckHasSlot DEF route_ack, UnchangedBySending
  <2> QED
    BY Zenon, <2>1, <2>2 DEF NoForgedAck
<1>1. CASE Application
  BY Zenon, <1>1, <1>PublishQoS0CallType, <1>PublishQoS1CallType, <1>SubscriptionCallType, <1>PingCallType,
     <1>ReauthCallType, <1>ContinueReauthCallType, <1>AcknowledgeType, <1>DisconnectCallType,
     <1>SessionDroppedType DEF Application, drop_handle
<1>2. CASE Connect
  BY Zenon, <1>2, <1>ConnectType DEF Connect
<1>3. CASE Send
  <2>1. CASE route_ack
    BY Zenon, <2>1, <1>RouteAckNoPanic, <1>RouteAckType
  <2>2. CASE send_ready_ack
    BY Zenon, <2>2, <1>SendReadyAckType DEF AckInv
  <2> QED
    BY Zenon, <1>3, <2>1, <2>2, <1>SendReplayedType, <1>SendDisconnectType, <1>SendAuthType, <1>SendPingType,
       <1>SendSubscriptionType, <1>SendPublishQoS0Type, <1>SendPublishQoS1Type, <1>FlushType DEF Send
<1>4. CASE Receive
  <2>1. CASE unexpected_packet
    BY Zenon, <2>1, <1>DisconnectType DEF unexpected_packet
  <2>2. CASE incoming_disconnect
    BY Zenon, <2>2, <1>DisconnectType
  <2> QED
    BY Zenon, <1>4, <2>1, <2>2, <1>IncomingAckType, <1>IncomingPublishType, <1>IncomingAuthType,
       <1>IncomingPingrespType DEF Receive
<1>5. CASE Disconnect
  BY SMTT(30), <1>5, <1>DisconnectType
<1>6. CASE UNCHANGED sessionVars
  BY SMTT(60), <1>6 DEF sessionVars, TypeOK, PoolTypeOK, ChannelsTypeOK, InflightTypeOK,
     ConnectionTypeOK, HandlesTypeOK
<1> QED
  BY Zenon, <1>1, <1>2, <1>3, <1>4, <1>5, <1>6 DEF Next

\* Every step keeps the invariant on acknowledgements.
LEMMA AckStep ==
    ASSUME TypeOK, TypeOK', AckInv, [Next]_sessionVars
    PROVE  AckInv'

\* A notifier that is dropped while its request is pending does not disturb the
\* order of completion.
<1>DetachKeepsOrder.
    ASSUME AckTypes, AcksCompleteInOrder, NEW D, deliveries' \in Seq(DeliveryType),
           OnlyAckChanged(D, "detached"),
           \A d \in D : d \in DOMAIN deliveries => deliveries[d].ack = "pending"
    PROVE  AcksCompleteInOrder'
  <2> USE <1>DetachKeepsOrder
  <2>1. DOMAIN deliveries' = DOMAIN deliveries
    BY DEF AckTypes, OnlyAckChanged
  <2> QED
    BY Zenon, <2>1 DEF AcksCompleteInOrder, OnlyAckChanged

\* Steps that leave AckVars alone keep the invariant.
<1>AckFrame.
    ASSUME AckInv, UNCHANGED AckVars
    PROVE  AckInv'
  BY <1>AckFrame DEF AckInv, AckVars, AckTracker, AcksCompleteInOrder, NoForgedAck, Alive, OpenSlots,
         ClosedSlots, QueuedAcks, Acked, Stale

\* A session that is dropped, except by the panic, keeps the invariant.
<1>SessionDroppedAcks.
    ASSUME TypeOK, TypeOK', AckInv,
           NEW how \in {"gone", "panic_duplicate_publish", "panic_qos2"},
           SessionDropped(how)
    PROVE  AckInv'
  <2> USE <1>SessionDroppedAcks
  <2> DEFINE D == {d \in DOMAIN deliveries : deliveries[d].ack = "pending"}
  <2>1. AckTypes /\ AckTypes'
    BY Zenon, TypesOfAcks
  <2>2. AcksCompleteInOrder'
    <3>1. OnlyAckChanged(D, "detached")
      BY Zenon, <2>1, DetachChanges DEF SessionDropped
    <3> QED
      BY <2>1, <3>1, <1>DetachKeepsOrder DEF AckInv, AckTypes
  <2> QED
    BY Zenon, <2>2 DEF AckInv, AckTracker, NoForgedAck, Alive, SessionDropped

\* Every slot of the tracker has a delivery, after those that have left it.
<1>SlotsInRange.
    ASSUME AckTypes, OpenSlots
    PROVE  /\ Acked \in Nat
           /\ \A d \in 1..Acked : d \in DOMAIN deliveries
           /\ \A i \in DOMAIN publishes : /\ i \in Nat \ {0}
                                          /\ i <= Len(publishes)
                                          /\ Acked + i \in DOMAIN deliveries
           /\ \A d \in DOMAIN deliveries : /\ d \in Nat \ {0}
                                           /\ d \notin 1..Acked => d - Acked \in DOMAIN publishes
  BY <1>SlotsInRange DEF AckTypes, OpenSlots, Acked

\* A PubAckToken that is used or dropped finds its slot open, unless it is of an
\* earlier connection.
<1>AcknowledgeAcks.
    ASSUME TypeOK, TypeOK', AckInv, NEW d \in DOMAIN deliveries, acknowledge(d)
    PROVE  AckInv'
  <2> USE <1>AcknowledgeAcks
  <2>1. AckTypes /\ AckTypes'
    BY Zenon, TypesOfAcks
  <2>2. OnlyAckChanged({d}, "pending") /\ DOMAIN deliveries' = DOMAIN deliveries
    BY Zenon, <2>1, SetAckChanges DEF acknowledge, AckTypes, OnlyAckChanged
  <2>3. /\ Alive /\ OpenSlots /\ ClosedSlots /\ QueuedAcks
        /\ deliveries[d].ack = "held"
        /\ ack_rx' = Append(ack_rx, d)
        /\ UNCHANGED <<publishes, connection_epoch, mode>>
    BY Zenon DEF AckInv, AckTracker, acknowledge
  <2> Acked' = Acked
    BY Zenon, <2>2, <2>3 DEF Acked, OnlyAckChanged
  <2> \A x \in DOMAIN deliveries : Stale(x)' <=> Stale(x)
    BY Zenon, <2>2, <2>3 DEF Stale, OnlyAckChanged
  <2>4. OpenSlots'
    BY SMTT(20), <2>1, <2>2, <2>3, <1>SlotsInRange DEF OpenSlots, OnlyAckChanged
  <2>5. ClosedSlots'
    BY Zenon, <2>1, <2>2, <2>3, <1>SlotsInRange DEF ClosedSlots, OnlyAckChanged
  <2>6. QueuedAcks'
    <3>1. mode = "connected" => \/ Stale(d)
                                \/ \E i \in DOMAIN publishes :
                                      publishes[i].d = d /\ publishes[i].ack = 0
      <4> SUFFICES ASSUME mode = "connected", ~Stale(d)
                   PROVE  \E i \in DOMAIN publishes :
                             publishes[i].d = d /\ publishes[i].ack = 0
        BY Zenon
      <4>1. d \notin 1..Acked
        BY Zenon, <2>3 DEF ClosedSlots
      <4>2. d - Acked \in DOMAIN publishes /\ Acked + (d - Acked) = d
        BY <2>1, <2>3, <4>1 DEF Acked, OpenSlots, AckTypes
      <4> QED
        BY Zenon, <2>3, <4>2 DEF OpenSlots
    <3>2. \A k \in DOMAIN ack_rx : ack_rx[k] # d
      BY Zenon, <2>3 DEF QueuedAcks
    <3> QED
      <4>1. \A k \in DOMAIN ack_rx' :
              \/ k \in DOMAIN ack_rx /\ ack_rx'[k] = ack_rx[k]
              \/ k = Len(ack_rx) + 1 /\ ack_rx'[k] = d
        BY <2>1, <2>3 DEF AckTypes
      <4>2. ASSUME NEW k \in DOMAIN ack_rx', NEW j \in DOMAIN ack_rx',
                   ack_rx'[j] = ack_rx'[k]
            PROVE  j = k
        BY ZenonT(30), <2>3, <3>2, <4>1, <4>2 DEF QueuedAcks
      <4>3. ASSUME NEW k \in DOMAIN ack_rx'
            PROVE  /\ ack_rx'[k] \in DOMAIN deliveries
                   /\ deliveries'[ack_rx'[k]].ack = "pending"
                   /\ mode' = "connected" =>
                        \/ Stale(ack_rx'[k])
                        \/ \E i \in DOMAIN publishes' :
                              publishes'[i].d = ack_rx'[k] /\ publishes'[i].ack = 0
        BY SMTT(20), <2>2, <2>3, <3>1, <4>1 DEF QueuedAcks, OnlyAckChanged
      <4>4. \A k \in DOMAIN ack_rx' : Stale(ack_rx'[k]) => (deliveries'[ack_rx'[k]].epoch # connection_epoch')
        BY Zenon, <2>2, <2>3, <4>3 DEF Stale, OnlyAckChanged
      <4> QED
        BY Zenon, <2>2, <4>2, <4>3, <4>4 DEF QueuedAcks, Stale
  <2>7. AcksCompleteInOrder'
    BY SMTT(20), <2>2, <2>3 DEF AckInv, AcksCompleteInOrder, OnlyAckChanged
  <2> QED
    BY Zenon, <2>3, <2>4, <2>5, <2>6, <2>7 DEF AckInv, AckTracker, NoForgedAck, Alive

\* The PUBACK at the front is the one of the oldest delivery that still waits.
<1>SendReadyAckAcks.
    ASSUME TypeOK, TypeOK', AckInv, send_ready_ack
    PROVE  AckInv'
  <2> USE <1>SendReadyAckAcks
  <2> DEFINE d == Acked + 1
  <2>1. AckTypes /\ AckTypes'
    BY Zenon, TypesOfAcks
  <2>2. /\ OpenSlots /\ ClosedSlots /\ QueuedAcks
        /\ mode = "connected"
        /\ publishes # <<>>
    BY Zenon DEF AckInv, AckTracker, Alive, send_ready_ack, Sending, AckReady
  <2>3. /\ d \in DOMAIN deliveries
        /\ Head(publishes) = publishes[1]
        /\ 1 \in DOMAIN publishes
        /\ Acked \in Nat
    BY <2>1, <2>2 DEF OpenSlots, Acked, AckTypes
  <2>4. publishes[1].ack = d /\ ~Stale(d) /\ publishes[1].ack # 0
    BY Zenon, <2>2, <2>3 DEF OpenSlots, send_ready_ack, AckReady
  <2>5. /\ publishes' = Tail(publishes)
        /\ deliveries' = [deliveries EXCEPT ![d].ack = "completed"]
        /\ UNCHANGED <<ack_rx, connection_epoch, mode>>
    BY Zenon, <2>3, <2>4 DEF send_ready_ack, UnchangedBySending
  <2>6. OnlyAckChanged({d}, "completed") /\ DOMAIN deliveries' = DOMAIN deliveries
    BY <2>1, <2>3, <2>5, SetAckChanges DEF AckTypes, OnlyAckChanged
  <2>7. /\ Acked' = d
        /\ Len(publishes') = Len(publishes) - 1
        /\ \A i \in DOMAIN publishes' : /\ i + 1 \in DOMAIN publishes
                                        /\ publishes'[i] = publishes[i + 1]
    BY <2>1, <2>2, <2>3, <2>5, <2>6 DEF Acked, AckTypes, OnlyAckChanged
  <2>8. OpenSlots'
    <3> SUFFICES ASSUME NEW i \in DOMAIN publishes'
                 PROVE  /\ publishes'[i].d = Acked' + i
                        /\ publishes'[i].pkid = deliveries'[Acked' + i].pkid
                        /\ deliveries'[Acked' + i].epoch = connection_epoch'
                        /\ publishes'[i].ack # 0 =>
                             /\ publishes'[i].ack = Acked' + i
                             /\ deliveries'[Acked' + i].ack = "pending"
                        /\ \A j \in DOMAIN publishes' :
                             publishes'[j].pkid = publishes'[i].pkid => j = i
      <4>1. Len(publishes') <= Len(deliveries')
        BY <2>1, <2>2, <2>6, <2>7 DEF OpenSlots, OnlyAckChanged, AckTypes
      <4> QED
        BY Zenon, <2>2, <2>5, <4>1 DEF OpenSlots, Stale
    <3>1. /\ i \in Nat /\ i >= 1 /\ Acked' + i = Acked + (i + 1)
          /\ Acked + (i + 1) \in DOMAIN deliveries /\ Acked + (i + 1) # d
      <4>1. i \in Nat /\ i >= 1
        BY <2>1 DEF AckTypes
      <4>2. Acked + (i + 1) \in DOMAIN deliveries
        BY Zenon, <2>1, <2>2, <2>7, <1>SlotsInRange
      <4> QED
        BY <2>3, <2>7, <4>1, <4>2
    <3>2. \A j \in DOMAIN publishes' : j \in Nat
      BY <2>1 DEF AckTypes
    <3>3. deliveries'[Acked' + i].epoch = connection_epoch'
      BY <2>2, <2>5, <2>6, <2>7, <3>1 DEF OpenSlots, Stale, OnlyAckChanged
    <3> QED
      BY <2>2, <2>6, <2>7, <3>1, <3>2, <3>3 DEF OpenSlots, OnlyAckChanged
  <2>9. ClosedSlots'
    <3>1. \A e \in 1..d : e \in DOMAIN deliveries /\ (e \in 1..Acked \/ e = d)
      BY <2>1, <2>3 DEF AckTypes
    <3> QED
      BY Zenon, <2>2, <2>5, <2>6, <2>7, <3>1 DEF ClosedSlots, Stale, OnlyAckChanged
  <2>10. QueuedAcks'
    <3>1. \A k \in DOMAIN ack_rx : ack_rx[k] # d
      <4> SUFFICES ASSUME NEW k \in DOMAIN ack_rx, ack_rx[k] = d
                   PROVE  FALSE
        BY Zenon
      <4>1. PICK i \in DOMAIN publishes : publishes[i].d = d /\ publishes[i].ack = 0
        BY <2>2, <2>4 DEF QueuedAcks
      <4>2. i = 1
        BY <2>1, <2>2, <2>3, <4>1 DEF OpenSlots, AckTypes
      <4> QED
        BY Zenon, <2>4, <4>1, <4>2
    <3>2. \A i \in DOMAIN publishes : i # 1 => /\ i - 1 \in DOMAIN publishes'
                                               /\ publishes'[i - 1] = publishes[i]
      BY <2>1, <2>5, <2>7 DEF AckTypes
    <3>3. ASSUME NEW k \in DOMAIN ack_rx, ~Stale(ack_rx[k])
          PROVE  \E i \in DOMAIN publishes' :
                    publishes'[i].d = ack_rx[k] /\ publishes'[i].ack = 0
      BY <2>2, <2>4, <3>2, <3>3 DEF QueuedAcks
    <3> QED
      BY <2>2, <2>5, <2>6, <3>1, <3>3 DEF QueuedAcks, Stale, OnlyAckChanged
  <2>11. AcksCompleteInOrder'
    <3>1. \A c \in DOMAIN deliveries : c < d => c \in 1..Acked
      BY <2>1, <2>3 DEF AckTypes
    <3> QED
      BY <2>2, <2>4, <2>6, <3>1 DEF AckInv, AcksCompleteInOrder, ClosedSlots, Stale,
         OnlyAckChanged
  <2> QED
    BY Zenon, <2>5, <2>8, <2>9, <2>10, <2>11 DEF AckInv, AckTracker, NoForgedAck, Alive

\* A request of an earlier connection leaves the tracker alone.
<1>RouteStaleAcks.
    ASSUME TypeOK, TypeOK', AckInv, route_ack, Stale(Head(ack_rx))
    PROVE  AckInv'
  <2> USE <1>RouteStaleAcks
  <2> DEFINE d == Head(ack_rx)
  <2>1. AckTypes /\ AckTypes'
    BY Zenon, TypesOfAcks
  <2>2. /\ OpenSlots /\ ClosedSlots /\ QueuedAcks
        /\ mode = "connected" /\ ack_rx # <<>>
        /\ UNCHANGED <<publishes, connection_epoch, mode>>
    BY Zenon DEF AckInv, AckTracker, Alive, route_ack, PollsAcks, Polls, Sending, UnchangedBySending
  <2>3. OnlyAckChanged({d}, "detached") /\ DOMAIN deliveries' = DOMAIN deliveries
    <3>1. OnlyAckChanged({d}, "detached")
      BY Zenon, <2>1, DetachChanges DEF route_ack
    <3> QED
      BY <2>1, <3>1 DEF AckTypes, OnlyAckChanged
  <2>4. d \in DOMAIN deliveries /\ deliveries[d].ack = "pending" /\ Stale(d)
    BY Zenon, <2>2, QueuedAckHasSlot
  <2> Acked' = Acked
    BY Zenon, <2>2, <2>3 DEF Acked, OnlyAckChanged
  <2> \A x \in DOMAIN deliveries : Stale(x)' <=> Stale(x)
    BY Zenon, <2>2, <2>3 DEF Stale, OnlyAckChanged
  <2> HIDE DEF d
  <2>5. OpenSlots'
    <3>1. ASSUME NEW i \in DOMAIN publishes
          PROVE  /\ Acked + i \in DOMAIN deliveries
                 /\ Acked + i # d
      BY Zenon, <2>1, <2>2, <1>SlotsInRange DEF OpenSlots, d
    <3>2. Len(publishes') <= Len(deliveries')
      BY Zenon, <2>2, <2>3 DEF OpenSlots, OnlyAckChanged
    <3> QED
      BY <2>2, <2>3, <3>1, <3>2 DEF OpenSlots, OnlyAckChanged
  <2>6. ClosedSlots'
    BY Zenon, <2>1, <2>2, <2>3, <2>4, <1>SlotsInRange DEF ClosedSlots, OnlyAckChanged
  <2>7. \A k \in DOMAIN ack_rx' : /\ k \in Nat /\ k + 1 \in DOMAIN ack_rx
                                  /\ ack_rx'[k] = ack_rx[k + 1]
                                  /\ ack_rx[k + 1] # d
    <3>1. 1 \in DOMAIN ack_rx /\ d = ack_rx[1]
      BY <2>1, <2>2 DEF AckTypes, d
    <3>2. \A k \in DOMAIN ack_rx' : /\ k \in Nat /\ k + 1 \in DOMAIN ack_rx /\ k + 1 # 1
                                    /\ ack_rx'[k] = ack_rx[k + 1]
      <4>1. ack_rx' = Tail(ack_rx)
        BY Zenon DEF route_ack
      <4> QED
        BY SMTT(30), <2>1, <2>2, <4>1 DEF AckTypes
    <3> QED
      BY Zenon, <2>2, <3>1, <3>2 DEF QueuedAcks
  <2>8. QueuedAcks'
    <3>1. ASSUME NEW k \in DOMAIN ack_rx', NEW j \in DOMAIN ack_rx',
                 ack_rx'[j] = ack_rx'[k]
          PROVE  j = k
      BY <2>2, <2>7, <3>1 DEF QueuedAcks
    <3>2. ASSUME NEW k \in DOMAIN ack_rx'
          PROVE  /\ ack_rx'[k] \in DOMAIN deliveries
                 /\ deliveries'[ack_rx'[k]].ack = "pending"
                 /\ \/ deliveries'[ack_rx'[k]].epoch # connection_epoch'
                    \/ \E i \in DOMAIN publishes' :
                          publishes'[i].d = ack_rx'[k] /\ publishes'[i].ack = 0
      <4>1. PICK k1 \in DOMAIN ack_rx : ack_rx'[k] = ack_rx[k1] /\ ack_rx[k1] # d
        BY Zenon, <2>7
      <4> QED
        BY <2>2, <2>3, <4>1 DEF QueuedAcks, OnlyAckChanged, Stale
    <3> QED
      BY Zenon, <2>3, <3>1, <3>2 DEF QueuedAcks, Stale
  <2>9. AcksCompleteInOrder'
    BY <2>1, <2>3, <2>4, <1>DetachKeepsOrder DEF AckInv, AckTypes
  <2> QED
    BY Zenon, <2>2, <2>5, <2>6, <2>8, <2>9 DEF AckInv, AckTracker, NoForgedAck, Alive

\* A request of the connection is recorded in the slot of its delivery alone.
<1>RouteFreshAcks.
    ASSUME TypeOK, TypeOK', AckInv, route_ack, ~Stale(Head(ack_rx))
    PROVE  AckInv'
  <2> USE <1>RouteFreshAcks
  <2> DEFINE d == Head(ack_rx)
  <2>1. AckTypes /\ AckTypes'
    BY Zenon, TypesOfAcks
  <2>2. /\ OpenSlots /\ ClosedSlots /\ QueuedAcks
        /\ mode = "connected" /\ ack_rx # <<>>
    BY Zenon DEF AckInv, AckTracker, Alive, route_ack, PollsAcks, Polls, Sending
  <2>3. PICK s \in DOMAIN publishes : /\ d = Acked + s
                                      /\ publishes[s].ack = 0
                                      /\ publishes[s].pkid = deliveries[d].pkid
    BY Zenon, <2>2, QueuedAckHasSlot
  <2>4. /\ ack_rx' = Tail(ack_rx)
        /\ publishes' = MarkReady(d)
        /\ UNCHANGED <<deliveries, connection_epoch, mode>>
    BY Zenon, <2>3 DEF route_ack, UnchangedBySending
  <2>5. d \in DOMAIN deliveries /\ deliveries[d].ack = "pending" /\ d # 0
    BY <2>1, <2>2, QueuedAckHasSlot DEF AckTypes
  <2>6. /\ DOMAIN publishes' = DOMAIN publishes
        /\ Len(publishes') = Len(publishes)
        /\ \A i \in DOMAIN publishes :
             /\ publishes'[i].pkid = publishes[i].pkid
             /\ publishes'[i].d = publishes[i].d
             /\ publishes'[i].ack = IF i = s THEN d ELSE publishes[i].ack
    <3>1. \A e \in SlotType : /\ [e EXCEPT !.ack = d].pkid = e.pkid
                              /\ [e EXCEPT !.ack = d].d = e.d
                              /\ [e EXCEPT !.ack = d].ack = d
      BY Zenon DEF SlotType
    <3>2. \A i \in DOMAIN publishes : publishes[i].pkid = deliveries[d].pkid <=> i = s
      BY Zenon, <2>2, <2>3 DEF OpenSlots
    <3>3. /\ DOMAIN publishes' = DOMAIN publishes
          /\ \A i \in DOMAIN publishes :
               publishes'[i] = IF i = s THEN [publishes[i] EXCEPT !.ack = d] ELSE publishes[i]
      BY Zenon, <2>4, <3>2 DEF MarkReady
    <3>4. Len(publishes') = Len(publishes)
      BY <2>1, <3>3 DEF AckTypes
    <3>5. \A i \in DOMAIN publishes : publishes[i] \in SlotType
      BY <2>1 DEF AckTypes
    <3> QED
      BY Zenon, <3>1, <3>3, <3>4, <3>5
  <2> Acked' = Acked
    BY Zenon, <2>4, <2>6 DEF Acked
  <2> \A x : Stale(x)' <=> Stale(x)
    BY Zenon, <2>4 DEF Stale
  <2>7. OpenSlots'
    <3>1. ASSUME NEW i \in DOMAIN publishes, publishes'[i].ack # 0
          PROVE  publishes'[i].ack = Acked + i /\ deliveries[Acked + i].ack = "pending"
      <4>1. CASE i = s
        BY Zenon, <2>3, <2>5, <2>6, <4>1
      <4>2. CASE i # s
        BY Zenon, <2>2, <2>6, <3>1, <4>2 DEF OpenSlots
      <4> QED
        BY Zenon, <4>1, <4>2
    <3>2. ASSUME NEW i \in DOMAIN publishes
          PROVE  /\ publishes'[i].d = Acked + i
                 /\ publishes'[i].pkid = deliveries[Acked + i].pkid
                 /\ ~Stale(Acked + i)
                 /\ \A j \in DOMAIN publishes : publishes'[j].pkid = publishes'[i].pkid => j = i
      BY Zenon, <2>2, <2>6 DEF OpenSlots
    <3>3. mode' # "ready" /\ Len(publishes') <= Len(deliveries')
      BY Zenon, <2>2, <2>4, <2>6 DEF OpenSlots
    <3> QED
      BY Zenon, <2>4, <2>6, <3>1, <3>2, <3>3 DEF OpenSlots, Stale
  <2>8. ClosedSlots'
    BY Zenon, <2>2, <2>4 DEF ClosedSlots
  <2>9. QueuedAcks'
    <3>1. 1 \in DOMAIN ack_rx /\ d = ack_rx[1]
      BY <2>1, <2>2 DEF AckTypes
    <3>2. \A k \in DOMAIN ack_rx' : /\ k \in Nat /\ k + 1 \in DOMAIN ack_rx /\ k + 1 # 1
                                    /\ ack_rx'[k] = ack_rx[k + 1]
      BY SMTT(20), <2>1, <2>2, <2>4 DEF AckTypes
    <3>3. \A k \in DOMAIN ack_rx' : ack_rx[k + 1] # d
      BY <2>2, <3>1, <3>2 DEF QueuedAcks
    <3>4. ASSUME NEW k \in DOMAIN ack_rx', NEW j \in DOMAIN ack_rx',
                 ack_rx'[j] = ack_rx'[k]
          PROVE  j = k
      BY <2>2, <3>2, <3>4 DEF QueuedAcks
    <3>5. ASSUME NEW k \in DOMAIN ack_rx', ~Stale(ack_rx'[k])
          PROVE  \E i \in DOMAIN publishes' :
                    publishes'[i].d = ack_rx'[k] /\ publishes'[i].ack = 0
      <4>1. PICK i \in DOMAIN publishes :
                    publishes[i].d = ack_rx'[k] /\ publishes[i].ack = 0
        BY <2>2, <3>2, <3>5 DEF QueuedAcks
      <4>2. i # s
        BY <2>2, <2>3, <3>2, <3>3, <4>1 DEF OpenSlots
      <4> QED
        BY Zenon, <2>6, <4>1, <4>2
    <3> QED
      BY <2>2, <2>4, <3>2, <3>4, <3>5 DEF QueuedAcks
  <2>10. AcksCompleteInOrder'
    BY Zenon, <2>4 DEF AckInv, AcksCompleteInOrder
  <2> QED
    BY Zenon, <2>4, <2>7, <2>8, <2>9, <2>10 DEF AckInv, AckTracker, NoForgedAck, Alive

\* When a connection ends, the slots go and the requests in the channel stay; no
\* request is in both.
<1>EndConnectionAcks.
    ASSUME TypeOK, TypeOK', AckInv, mode = "connected", NEW e, NEW freed,
           EndConnection(e, freed)
    PROVE  AckInv'
  <2> USE <1>EndConnectionAcks
  <2>1. AckTypes /\ AckTypes'
    BY Zenon, TypesOfAcks
  <2>2. /\ OpenSlots /\ ClosedSlots /\ QueuedAcks
        /\ publishes' = <<>> /\ mode' = "ready"
        /\ UNCHANGED <<ack_rx, connection_epoch>>
    BY Zenon DEF AckInv, AckTracker, Alive, EndConnection, SlotsAfterDisconnect
  <2>3. OnlyAckChanged(ReadyAcks, "detached") /\ DOMAIN deliveries' = DOMAIN deliveries
    <3>1. OnlyAckChanged(ReadyAcks, "detached")
      BY Zenon, <2>1, DetachChanges DEF EndConnection
    <3> QED
      BY <2>1, <3>1 DEF AckTypes, OnlyAckChanged
  <2>4. \A d \in ReadyAcks : \E i \in DOMAIN publishes :
           /\ d = Acked + i /\ publishes[i].ack # 0
           /\ deliveries[d].ack = "pending" /\ ~Stale(d)
    BY <2>2 DEF ReadyAcks, OpenSlots
  <2>5. \A k \in DOMAIN ack_rx : ack_rx[k] \notin ReadyAcks
    <3> SUFFICES ASSUME NEW k \in DOMAIN ack_rx, ack_rx[k] \in ReadyAcks
                 PROVE  FALSE
      BY Zenon
    <3>1. PICK i \in DOMAIN publishes : /\ ack_rx[k] = Acked + i /\ publishes[i].ack # 0
                                        /\ ~Stale(ack_rx[k])
      BY Zenon, <2>4
    <3>2. PICK j \in DOMAIN publishes : publishes[j].d = ack_rx[k] /\ publishes[j].ack = 0
      BY Zenon, <2>2, <3>1 DEF QueuedAcks
    <3>3. Acked + j = Acked + i
      BY Zenon, <2>2, <3>1, <3>2 DEF OpenSlots
    <3>4. i = j
      BY <2>1, <2>2, <3>3, <1>SlotsInRange
    <3> QED
      BY Zenon, <3>1, <3>2, <3>4
  <2>6. OpenSlots'
    BY <2>1, <2>2, <2>3 DEF OpenSlots, OnlyAckChanged, AckTypes
  <2>7. ClosedSlots'
    BY SMTT(30), <2>2, <2>3 DEF ClosedSlots, OnlyAckChanged
  <2>8. QueuedAcks'
    BY Zenon, <2>2, <2>3, <2>5 DEF QueuedAcks, OnlyAckChanged
  <2>9. AcksCompleteInOrder'
    BY Zenon, <2>1, <2>3, <2>4, <1>DetachKeepsOrder DEF AckInv, AckTypes
  <2> QED
    BY Zenon, <2>2, <2>6, <2>7, <2>8, <2>9 DEF AckInv, AckTracker, NoForgedAck, Alive

\* A new connection makes every request and every token an old one.
<1>ConnectAcks.
    ASSUME TypeOK, TypeOK', AckInv, NEW sp, NEW client, NEW server, NEW m, NEW ka,
           connect(sp, client, server, m, ka)
    PROVE  AckInv'
  <2> USE <1>ConnectAcks
  <2>1. AckTypes /\ AckTypes'
    BY Zenon, TypesOfAcks
  <2>2. /\ OpenSlots /\ ClosedSlots /\ QueuedAcks
        /\ publishes = <<>>
        /\ mode' = "connected"
        /\ connection_epoch' = connection_epoch + 1
        /\ UNCHANGED <<publishes, deliveries, ack_rx>>
    BY Zenon DEF AckInv, AckTracker, Alive, OpenSlots, connect
  <2>3. \A d \in DOMAIN deliveries : /\ deliveries'[d].epoch <= connection_epoch'
                                     /\ deliveries'[d].epoch # connection_epoch'
    <3>1. \A d \in DOMAIN deliveries : deliveries[d] \in DeliveryType
      BY <2>1 DEF AckTypes
    <3>2. \A d \in DOMAIN deliveries : deliveries[d].epoch \in Nat
      BY Zenon, <3>1 DEF DeliveryType
    <3> QED
      BY <2>1, <2>2, <3>2 DEF ClosedSlots, AckTypes
  <2>4. OpenSlots'
    BY <2>2 DEF OpenSlots
  <2>5. ClosedSlots'
    <3>1. Acked' = Acked /\ \A d \in 1..Acked : d \in DOMAIN deliveries
      BY Zenon, <2>1, <2>2, <1>SlotsInRange DEF Acked
    <3> QED
      BY Zenon, <2>2, <2>3, <3>1 DEF ClosedSlots, Stale
  <2>6. QueuedAcks'
    BY Zenon, <2>2, <2>3 DEF QueuedAcks, Stale
  <2>7. AcksCompleteInOrder'
    BY Zenon, <2>2 DEF AckInv, AcksCompleteInOrder
  <2> QED
    BY Zenon, <2>2, <2>4, <2>5, <2>6, <2>7 DEF AckInv, AckTracker, NoForgedAck, Alive

\* A QoS 1 PUBLISH gets the next slot; its identifier is not in use.
<1>DeliverAcks.
    ASSUME TypeOK, TypeOK', AckInv, mode = "connected", NEW p,
           \A i \in DOMAIN publishes : publishes[i].pkid # p,
           publishes' = Append(publishes,
                               [pkid |-> p, d |-> Len(deliveries) + 1, ack |-> 0]),
           deliveries' = Append(deliveries,
                                [pkid |-> p, epoch |-> connection_epoch, ack |-> "held"]),
           UNCHANGED <<ack_rx, connection_epoch, mode>>
    PROVE  AckInv'
  <2> USE <1>DeliverAcks
  <2>1. AckTypes /\ AckTypes'
    BY Zenon, TypesOfAcks
  <2>2. OpenSlots /\ ClosedSlots /\ QueuedAcks
    BY Zenon DEF AckInv, AckTracker, Alive
  <2>3. /\ Len(deliveries') = Len(deliveries) + 1
        /\ Len(publishes') = Len(publishes) + 1
        /\ Acked' = Acked
    BY <2>1 DEF AckTypes, Acked
  <2>4. /\ \A d \in DOMAIN deliveries : d \in DOMAIN deliveries' /\ deliveries'[d] = deliveries[d]
        /\ \A d \in DOMAIN deliveries' :
             \/ d \in DOMAIN deliveries
             \/ /\ d = Len(deliveries) + 1
                /\ deliveries'[d].pkid = p
                /\ deliveries'[d].epoch = connection_epoch
                /\ deliveries'[d].ack = "held"
    BY <2>1 DEF AckTypes
  <2>5. /\ \A i \in DOMAIN publishes : i \in DOMAIN publishes' /\ publishes'[i] = publishes[i]
        /\ \A i \in DOMAIN publishes' :
             \/ i \in DOMAIN publishes
             \/ /\ i = Len(publishes) + 1
                /\ publishes'[i].pkid = p
                /\ publishes'[i].d = Len(deliveries) + 1
                /\ publishes'[i].ack = 0
    BY <2>1 DEF AckTypes
  <2>6. /\ Len(deliveries) + 1 \in DOMAIN deliveries'
        /\ Len(deliveries) + 1 \notin DOMAIN deliveries
        /\ Acked + (Len(publishes) + 1) = Len(deliveries) + 1
    BY SMTT(30), <2>1 DEF AckTypes, Acked
  <2>7. OpenSlots'
    <3>1. Len(publishes') <= Len(deliveries')
      BY SMTT(20), <2>1, <2>2, <2>3 DEF AckTypes, OpenSlots
    <3>2. ASSUME NEW i \in DOMAIN publishes', NEW j \in DOMAIN publishes',
                 publishes'[j].pkid = publishes'[i].pkid
          PROVE  j = i
      BY SMTT(90), <2>2, <2>5, <3>2 DEF OpenSlots
    <3>3. ASSUME NEW i \in DOMAIN publishes'
          PROVE  /\ publishes'[i].d = Acked + i
                 /\ publishes'[i].pkid = deliveries'[Acked + i].pkid
                 /\ deliveries'[Acked + i].epoch = connection_epoch
                 /\ publishes'[i].ack # 0 => /\ publishes'[i].ack = Acked + i
                                             /\ deliveries'[Acked + i].ack = "pending"
      <4>1. CASE i \in DOMAIN publishes
        <5>1. Acked + i \in DOMAIN deliveries
          BY Zenon, <2>1, <2>2, <4>1, <1>SlotsInRange
        <5>2. publishes'[i] = publishes[i] /\ deliveries'[Acked + i] = deliveries[Acked + i]
          BY Zenon, <2>4, <2>5, <4>1, <5>1
        <5> QED
          BY Zenon, <2>2, <4>1, <5>2 DEF OpenSlots, Stale
      <4>2. CASE i \notin DOMAIN publishes
        BY SMTT(20), <2>4, <2>5, <2>6, <4>2
      <4> QED
        BY Zenon, <4>1, <4>2
    <3> QED
      BY Zenon, <2>3, <3>1, <3>2, <3>3 DEF OpenSlots, Stale
  <2>8. ClosedSlots'
    <3>1. \A d \in 1..Acked : d \in DOMAIN deliveries
      BY Zenon, <2>1, <2>2, <1>SlotsInRange
    <3>2. \A d \in DOMAIN deliveries' : deliveries'[d].epoch <= connection_epoch'
      BY SMTT(60), <2>1, <2>2, <2>4 DEF ClosedSlots, AckTypes
    <3> QED
      BY SMTT(20), <2>2, <2>3, <2>4, <3>1, <3>2 DEF ClosedSlots, Stale
  <2>9. QueuedAcks'
    BY SMTT(90), <2>2, <2>4, <2>5 DEF QueuedAcks, Stale
  <2>10. AcksCompleteInOrder'
    <3>1. \A d \in DOMAIN deliveries' : deliveries'[d].ack = "completed" => d \in DOMAIN deliveries
      BY Zenon, <2>4
    <3>2. \A c, d \in DOMAIN deliveries' : c < d /\ d \in DOMAIN deliveries => c \in DOMAIN deliveries
      BY <2>1, <2>3 DEF AckTypes
    <3> QED
      BY SMTT(90), <2>4, <3>1, <3>2 DEF AckInv, AcksCompleteInOrder
  <2> QED
    BY Zenon, <2>7, <2>8, <2>9, <2>10 DEF AckInv, AckTracker, NoForgedAck, Alive

\* The exits of run_until_disconnect keep the invariant.
<1>DisconnectAcks.
    ASSUME TypeOK, TypeOK', AckInv, NEW freed, mode = "connected",
           \/ Disconnect \/ incoming_disconnect \/ protocol_error(freed)
    PROVE  AckInv'
  BY Zenon, <1>DisconnectAcks, <1>EndConnectionAcks DEF Disconnect, application_disconnect, io_error, ping_timeout,
     incoming_disconnect, protocol_error

\* The handlers of acknowledgements of the client's own packets do not touch the
\* tracker, unless they end the connection or the session.
<1>IncomingAckAcks.
    ASSUME TypeOK, TypeOK', AckInv, NEW p \in Pkids, mode = "connected",
           \/ incoming_suback(p) \/ incoming_unsuback(p)
           \/ incoming_puback(p) \/ incoming_pubrec(p)
    PROVE  AckInv'
  <2> USE <1>IncomingAckAcks
  <2>1. ASSUME NEW S, AckUnmatched(S, p)
        PROVE  AckInv'
    BY Zenon, <2>1, <1>DisconnectAcks DEF AckUnmatched
  <2>2. ASSUME NEW S, AckMatches(S, p)
        PROVE  AckInv'
    BY Zenon, <2>2, <1>AckFrame DEF AckMatches, UnchangedByReceiving, AckVars
  <2>3. ASSUME SessionDropped("panic_qos2")
        PROVE  AckInv'
    BY Zenon, <2>3, <1>SessionDroppedAcks
  <2> QED
    BY Zenon, <2>1, <2>2, <2>3 DEF incoming_suback, incoming_unsuback, incoming_puback,
       incoming_pubrec
<1>1. CASE Application
  <2>1. CASE UNCHANGED AckVars
    BY Zenon, <2>1, <1>AckFrame
  <2>2. CASE drop_handle
    BY Zenon, <2>2, <1>SessionDroppedAcks DEF drop_handle
  <2>3. CASE \E d \in DOMAIN deliveries : acknowledge(d)
    BY Zenon, <2>3, <1>AcknowledgeAcks
  <2> QED
    BY Zenon, <1>1, <2>1, <2>2, <2>3 DEF Application, AckVars, Submit, publish_qos0_call,
       publish_qos1_call, subscription_call, ping_call, reauth_call,
       continue_reauth_call, disconnect_call
<1>2. CASE Connect
  BY Zenon, <1>2, <1>ConnectAcks DEF Connect
<1>3. CASE Send
  <2>1. CASE UNCHANGED AckVars
    BY <2>1, <1>AckFrame
  <2>2. CASE send_ready_ack
    BY Zenon, <2>2, <1>SendReadyAckAcks
  <2>3. CASE route_ack
    BY Zenon, <2>3, <1>RouteStaleAcks, <1>RouteFreshAcks
  <2> QED
    BY Zenon, <1>3, <2>1, <2>2, <2>3 DEF Send, AckVars, UnchangedBySending, send_replayed,
       send_disconnect, send_auth, WritePing, send_ping, send_keep_alive,
       send_subscription, send_publish_qos0, send_publish_qos1, flush
<1>4. CASE Receive
  <2>1. CASE Reading
    <3>1. mode = "connected"
      BY Zenon, <2>1 DEF Reading, NotReady, Polls, Sending
    <3>2. CASE \E p \in Pkids : \/ incoming_suback(p) \/ incoming_unsuback(p)
                                \/ incoming_puback(p) \/ incoming_pubrec(p)
      BY Zenon, <3>1, <3>2, <1>IncomingAckAcks
    <3>3. ASSUME NEW p \in ServerPkids, incoming_publish_qos1(p)
          PROVE  AckInv'
      BY Zenon, <3>1, <3>3, <1>DeliverAcks, <1>SessionDroppedAcks DEF incoming_publish_qos1,
         UnchangedByReceiving
    <3>4. CASE incoming_publish_qos2
      BY Zenon, <3>4, <1>SessionDroppedAcks DEF incoming_publish_qos2
    <3>5. CASE incoming_auth_success \/ incoming_auth_continue \/ incoming_pingresp
      BY Zenon, <3>5, <1>AckFrame DEF AckVars, UnchangedByReceiving, incoming_auth_success,
         incoming_auth_continue, incoming_pingresp
    <3>6. CASE incoming_disconnect \/ unexpected_packet
      BY Zenon, <3>1, <3>6, <1>DisconnectAcks DEF unexpected_packet
    <3> QED
      BY Zenon, <1>4, <3>2, <3>3, <3>4, <3>5, <3>6 DEF Receive
  <2>2. Reading
    BY Zenon, <1>4 DEF Receive, incoming_suback, incoming_unsuback, incoming_puback,
       incoming_pubrec, incoming_publish_qos1, incoming_publish_qos2,
       incoming_auth_success, incoming_auth_continue, incoming_pingresp,
       incoming_disconnect, unexpected_packet, AckMatches, AckUnmatched
  <2> QED
    BY Zenon, <2>1, <2>2
<1>5. CASE Disconnect
  <2>1. mode = "connected"
    BY Zenon, <1>5 DEF Disconnect, application_disconnect, io_error, ping_timeout, NotReady,
       Polls, Sending
  <2> QED
    BY Zenon, <1>5, <2>1, <1>DisconnectAcks
<1>6. CASE UNCHANGED sessionVars
  BY Zenon, <1>6, <1>AckFrame DEF sessionVars, AckVars
<1> QED
  BY Zenon, <1>1, <1>2, <1>3, <1>4, <1>5, <1>6 DEF Next

\* The initial session satisfies the invariant.
LEMMA InitInv == Init => TypeOK /\ AckInv
<1> SUFFICES ASSUME Init
             PROVE  TypeOK /\ AckInv
  BY Zenon
<1>1. PoolTypeOK
  BY MaxPkidAssumption DEF Init, PoolInit, PoolTypeOK, Pkids
<1>2. ChannelsTypeOK
  BY DEF Init, ChannelsTypeOK, NoDisconnect
<1>3. InflightTypeOK
  BY DEF Init, InflightTypeOK
<1>4. ConnectionTypeOK
  <2>1. /\ mode \in {"ready", "connected", "gone"} \cup Panics
        /\ driver \in {"select", "drain", "closing"}
    BY Zenon DEF Init
  <2>2. sent \in Seq(PacketType)
    BY DEF Init
  <2>3. /\ connection_epoch \in Nat
        /\ expiry_interval \in Expiries \cup {0}
        /\ pingreq_timer \in BOOLEAN
        /\ pingresp_timer \in BOOLEAN
        /\ cfg_pingresp_timeout \in BOOLEAN
        /\ conn_method \in Methods \cup {NoMethod}
    BY Zenon DEF Init
  <2> QED
    BY Zenon, <2>1, <2>2, <2>3 DEF ConnectionTypeOK
<1>5. HandlesTypeOK
  BY DEF Init, HandlesTypeOK
<1>6. AckInv
  BY DEF Init, AckInv, AckTracker, AcksCompleteInOrder, NoForgedAck, OpenSlots,
     ClosedSlots, QueuedAcks, Acked
<1> QED
  BY Zenon, <1>1, <1>2, <1>3, <1>4, <1>5, <1>6 DEF TypeOK

\* The inductive invariant.
THEOREM SessionInvariant == Spec => [](TypeOK /\ AckInv)
<1>1. TypeOK /\ AckInv /\ [Next]_sessionVars => (TypeOK /\ AckInv)'
  BY Zenon, TypeStep, AckStep
<1> QED
  BY <1>1, InitInv, PTL DEF Spec

\* The session's variables keep their types in every step of every handler.
THEOREM SessionTypeCorrect == Spec => []TypeOK
BY SessionInvariant, PTL

\* The tracker of incoming PUBLISHes, the acknowledgement channel and the tokens
\* of the application always fit together (next_outgoing_request, incoming_publish,
\* disconnected).
THEOREM AckTrackerCorrect == Spec => []AckTracker
<1>1. AckInv => AckTracker
  BY Zenon DEF AckInv
<1> QED
  BY <1>1, SessionInvariant, PTL

\* Whatever the order in which the application uses its tokens, whatever the
\* server sends and whenever connections end, acknowledgements complete in the
\* order in which their PUBLISHes arrived.
THEOREM AcksInOrder == Spec => []AcksCompleteInOrder
<1>1. AckInv => AcksCompleteInOrder
  BY Zenon DEF AckInv
<1> QED
  BY <1>1, SessionInvariant, PTL

\* The expect of next_outgoing_request on the slot of an acknowledgement never
\* panics.
THEOREM ForgedAckNeverPanics == Spec => []NoForgedAck
<1>1. AckInv => NoForgedAck
  BY Zenon DEF AckInv
<1> QED
  BY <1>1, SessionInvariant, PTL

ReplayVars == <<publish_qos1, packets_to_replay, sent, mode>>

\* The PUBLISH of entry e has been written on this connection.
WrittenEntry(e) ==
    \E i \in DOMAIN sent : sent[i].type = "PUBLISH" /\ sent[i].pkid = e.pkid
                              /\ sent[i].op = e.op

\* ReplayCoversInflight over the sets of entries in flight and to be replayed.
Covered(inflight1, replay) ==
    /\ replay \subseteq inflight1
    /\ mode = "connected" => \A e \in inflight1 : e \in replay \/ WrittenEntry(e)
    /\ mode = "ready" => inflight1 \subseteq replay

ReplayInv == Covered(Entries(publish_qos1), Entries(packets_to_replay))

\* The invariant implies the property.
LEMMA ReplayInvCovers == ReplayInv => ReplayCoversInflight
BY Zenon DEF ReplayInv, Covered, ReplayCoversInflight, WrittenEntry

\* Every step keeps the invariant.
LEMMA ReplayStep ==
    ASSUME TypeOK, ReplayInv, [Next]_sessionVars
    PROVE  ReplayInv'

\* The sequences that the invariant reads, from the type invariant.
<1>TypesOfReplay.
    ASSUME TypeOK
    PROVE  /\ publish_qos1 \in Seq(EntryType)
           /\ packets_to_replay \in Seq(EntryType)
           /\ sent \in Seq(PacketType)
  BY Zenon, <1>TypesOfReplay DEF TypeOK, InflightTypeOK, ConnectionTypeOK

\* A step that leaves the four variables alone keeps the invariant.
<1>ReplayFrame.
    ASSUME ReplayInv, UNCHANGED ReplayVars
    PROVE  ReplayInv'
  BY <1>ReplayFrame DEF ReplayInv, ReplayVars, Covered, WrittenEntry, Entries

\* What has been written stays written when a packet is written.
<1>WrittenStays.
    ASSUME TypeOK, NEW pkt, sent' = Append(sent, pkt), NEW e, WrittenEntry(e)
    PROVE  WrittenEntry(e)'
  <2> USE <1>WrittenStays
  <2>1. PICK i \in DOMAIN sent : /\ sent[i].type = "PUBLISH"
                                 /\ sent[i].pkid = e.pkid /\ sent[i].op = e.op
    BY Zenon DEF WrittenEntry
  <2>2. i \in DOMAIN sent' /\ sent'[i] = sent[i]
    BY <1>TypesOfReplay
  <2> QED
    BY Zenon, <2>1, <2>2 DEF WrittenEntry

\* The packet that is written has been written afterwards.
<1>WrittenNow.
    ASSUME TypeOK, NEW e, NEW dup, sent' = Append(sent, Pkt("PUBLISH", e.pkid, e.op, dup))
    PROVE  WrittenEntry(e)'
  <2> USE <1>WrittenNow
  <2>1. /\ Len(sent) + 1 \in DOMAIN sent'
        /\ sent'[Len(sent) + 1] = Pkt("PUBLISH", e.pkid, e.op, dup)
    BY SMTT(20), <1>TypesOfReplay
  <2>2. /\ sent'[Len(sent) + 1].type = "PUBLISH"
        /\ sent'[Len(sent) + 1].pkid = e.pkid
        /\ sent'[Len(sent) + 1].op = e.op
    BY <2>1 DEF Pkt
  <2> QED
    BY Zenon, <2>1, <2>2 DEF WrittenEntry

\* A packet is written that is not a new or a replayed QoS 1 PUBLISH.
<1>OtherWritten.
    ASSUME TypeOK, ReplayInv, mode = "connected", NEW pkt, sent' = Append(sent, pkt),
           UNCHANGED <<publish_qos1, packets_to_replay, mode>>
    PROVE  ReplayInv'
  <2> USE <1>OtherWritten
  <2>1. \A e : WrittenEntry(e) => WrittenEntry(e)'
    BY Zenon, <1>WrittenStays
  <2>2. /\ Entries(publish_qos1)' = Entries(publish_qos1)
        /\ Entries(packets_to_replay)' = Entries(packets_to_replay)
    BY Zenon DEF Entries
  <2> QED
    BY Zenon, <2>1, <2>2 DEF ReplayInv, Covered

\* The end of the session leaves nothing to promise but what is in the queues.
<1>SessionDroppedReplay.
    ASSUME ReplayInv, NEW how, how \notin {"ready", "connected"}, SessionDropped(how)
    PROVE  ReplayInv'
  <2> USE <1>SessionDroppedReplay
  <2>1. mode' = how /\ publish_qos1' = publish_qos1 /\ packets_to_replay' = packets_to_replay
    BY Zenon DEF SessionDropped
  <2> QED
    BY Zenon, <2>1 DEF ReplayInv, Covered, Entries

\* disconnected() queues all that is in flight, session_expired() empties both.
<1>EndConnectionReplay.
    ASSUME NEW e, NEW freed, EndConnection(e, freed)
    PROVE  ReplayInv'
  <2> USE <1>EndConnectionReplay
  <2>1. mode' = "ready" /\ packets_to_replay' = publish_qos1'
    BY Zenon DEF EndConnection, ToReplay
  <2> QED
    BY Zenon, <2>1 DEF ReplayInv, Covered, Entries

\* incoming_connack: the queue is kept or emptied together with what is in flight.
<1>ConnectReplay.
    ASSUME ReplayInv, Connect
    PROVE  ReplayInv'
  <2> USE <1>ConnectReplay
  <2>1. /\ mode = "ready" /\ mode' = "connected"
        /\ \/ publish_qos1' = publish_qos1 /\ packets_to_replay' = packets_to_replay
           \/ publish_qos1' = <<>> /\ packets_to_replay' = <<>>
    BY Zenon DEF Connect, connect
  <2> QED
    BY Zenon, <2>1 DEF ReplayInv, Covered, Entries

\* The first entry of the queue is written.
<1>SendReplayedReplay.
    ASSUME TypeOK, ReplayInv, send_replayed
    PROVE  ReplayInv'
  <2> USE <1>SendReplayedReplay
  <2> SUFFICES ASSUME NEW h, h = Head(packets_to_replay)
               PROVE  ReplayInv'
    BY Zenon
  <2>1. /\ packets_to_replay # <<>>
        /\ packets_to_replay' = Tail(packets_to_replay)
        /\ sent' = Append(sent, Pkt("PUBLISH", h.pkid, h.op, TRUE))
        /\ mode = "connected" /\ mode' = mode
        /\ publish_qos1' = publish_qos1
    BY Zenon DEF send_replayed, Write, Sending, UnchangedBySending
  <2>2. \A e \in Entries(packets_to_replay) : e = h \/ e \in Entries(packets_to_replay')
    <3> SUFFICES ASSUME NEW i \in DOMAIN packets_to_replay
                 PROVE  \/ packets_to_replay[i] = h
                        \/ packets_to_replay[i] \in Entries(Tail(packets_to_replay))
      BY Zenon, <2>1 DEF Entries
    <3>1. CASE i = 1
      BY <2>1, <3>1, <1>TypesOfReplay
    <3>2. CASE i # 1
      <4>1. /\ i - 1 \in DOMAIN Tail(packets_to_replay)
            /\ Tail(packets_to_replay)[i - 1] = packets_to_replay[i]
        BY <2>1, <3>2, <1>TypesOfReplay
      <4> QED
        BY Zenon, <4>1 DEF Entries
    <3> QED
      BY Zenon, <3>1, <3>2
  <2>3. Entries(packets_to_replay') \subseteq Entries(packets_to_replay)
    <3> SUFFICES ASSUME NEW i \in DOMAIN Tail(packets_to_replay)
                 PROVE  Tail(packets_to_replay)[i] \in Entries(packets_to_replay)
      BY Zenon, <2>1 DEF Entries
    <3>1. /\ i + 1 \in DOMAIN packets_to_replay
          /\ Tail(packets_to_replay)[i] = packets_to_replay[i + 1]
      BY <2>1, <1>TypesOfReplay
    <3> QED
      BY Zenon, <3>1 DEF Entries
  <2>4. WrittenEntry(h)'
    BY Zenon, <2>1, <1>WrittenNow
  <2>5. \A e : WrittenEntry(e) => WrittenEntry(e)'
    BY Zenon, <2>1, <1>WrittenStays
  <2>6. Entries(publish_qos1)' = Entries(publish_qos1)
    BY Zenon, <2>1 DEF Entries
  <2>7. Entries(packets_to_replay)' = Entries(packets_to_replay')
    BY Zenon DEF Entries
  <2> QED
    BY Zenon, <2>1, <2>2, <2>3, <2>4, <2>5, <2>6, <2>7 DEF ReplayInv, Covered

\* A new QoS 1 PUBLISH is in flight and written; nothing awaits its replay.
<1>SendPublishReplay.
    ASSUME TypeOK, ReplayInv, NEW p \in Pkids, send_publish_qos1(p)
    PROVE  ReplayInv'
  <2> USE <1>SendPublishReplay
  <2> SUFFICES ASSUME NEW f, f = Entry(p, Head(o_pub_q12_rx))
               PROVE  ReplayInv'
    BY Zenon
  <2>1. /\ packets_to_replay = <<>> /\ packets_to_replay' = <<>>
        /\ mode = "connected" /\ mode' = mode
        /\ publish_qos1' = IndexInsert(publish_qos1, f)
        /\ sent' = Append(sent, Pkt("PUBLISH", f.pkid, f.op, FALSE))
    <3>1. Polls
      BY Zenon DEF send_publish_qos1, PollsQoS1, PollsQoS0, PollsSubscriptions, PollsPings,
         PollsAuth, PollsAcks
    <3>2. f.pkid = p /\ f.op = Head(o_pub_q12_rx)
      BY Zenon DEF Entry
    <3> QED
      BY Zenon, <3>1, <3>2 DEF send_publish_qos1, Polls, Sending, Write, UnchangedBySending
  <2>2. \A e \in Entries(publish_qos1') : e = f \/ e \in Entries(publish_qos1)
    BY <2>1, <1>TypesOfReplay DEF IndexInsert, Entries
  <2>3. WrittenEntry(f)'
    BY Zenon, <2>1, <1>WrittenNow
  <2>4. \A e : WrittenEntry(e) => WrittenEntry(e)'
    BY Zenon, <2>1, <1>WrittenStays
  <2>5. /\ Entries(publish_qos1)' = Entries(publish_qos1')
        /\ Entries(packets_to_replay) = {} /\ Entries(packets_to_replay)' = {}
    BY <2>1 DEF Entries
  <2> QED
    BY Zenon, <2>1, <2>2, <2>3, <2>4, <2>5 DEF ReplayInv, Covered

\* What is left when an entry is removed was there before (IndexMap::shift_remove).
<1>ShiftRemoveEntries.
    ASSUME NEW q \in Seq(EntryType), NEW p
    PROVE  Entries(ShiftRemove(q, p)) \subseteq Entries(q)
  <2> USE <1>ShiftRemoveEntries
  <2>1. DOMAIN ShiftRemove(q, p) = 1..(Len(q) - 1)
    BY Zenon DEF ShiftRemove
  <2>2. \A i \in 1..(Len(q) - 1) : i \in DOMAIN q /\ i + 1 \in DOMAIN q
    OBVIOUS
  <2>3. \A i \in 1..(Len(q) - 1) : \E j \in DOMAIN q : ShiftRemove(q, p)[i] = q[j]
    BY Zenon, <2>2 DEF ShiftRemove
  <2> QED
    BY Zenon, <2>1, <2>3 DEF Entries

\* A PUBACK takes one PUBLISH out of flight; nothing awaits its replay.
<1>IncomingPubAckReplay.
    ASSUME TypeOK, ReplayInv, NEW p \in Pkids, AckMatches(Entries(publish_qos1), p),
           publish_qos1' = ShiftRemove(publish_qos1, p)
    PROVE  ReplayInv'
  <2> USE <1>IncomingPubAckReplay
  <2>1. /\ packets_to_replay = <<>> /\ packets_to_replay' = <<>>
        /\ mode = "connected" /\ mode' = mode
        /\ sent' = sent
    BY Zenon DEF AckMatches, Reading, NotReady, Polls, Sending, UnchangedByReceiving
  <2>3. Entries(publish_qos1') \subseteq Entries(publish_qos1)
    BY Zenon, <1>TypesOfReplay, <1>ShiftRemoveEntries
  <2>4. \A e : WrittenEntry(e) => WrittenEntry(e)'
    BY Zenon, <2>1 DEF WrittenEntry
  <2>5. /\ Entries(publish_qos1)' = Entries(publish_qos1')
        /\ Entries(packets_to_replay) = {} /\ Entries(packets_to_replay)' = {}
    BY <2>1 DEF Entries
  <2> QED
    BY Zenon, <2>1, <2>3, <2>4, <2>5 DEF ReplayInv, Covered

\* The other packets that the session hands to the writer.
<1>SendReplay.
    ASSUME TypeOK, ReplayInv, Send
    PROVE  ReplayInv'
  <2> USE <1>SendReplay
  <2>1. CASE UNCHANGED ReplayVars
    BY Zenon, <2>1, <1>ReplayFrame
  <2>2. ASSUME NEW pkt, sent' = Append(sent, pkt), mode = "connected",
               UNCHANGED <<publish_qos1, packets_to_replay, mode>>
        PROVE  ReplayInv'
    BY Zenon, <2>2, <1>OtherWritten
  <2>3. CASE send_replayed
    BY Zenon, <2>3, <1>SendReplayedReplay
  <2>4. CASE \E p \in Pkids : send_publish_qos1(p)
    BY Zenon, <2>4, <1>SendPublishReplay
  <2>5. CASE route_ack
    <3>1. CASE SessionDropped("panic_forged_ack")
      BY Zenon, <3>1, <1>SessionDroppedReplay
    <3>2. CASE ~SessionDropped("panic_forged_ack")
      <4>1. UNCHANGED ReplayVars
        BY Zenon, <2>5, <3>2 DEF route_ack, ReplayVars, UnchangedBySending
      <4> QED
        BY Zenon, <4>1, <2>1
    <3> QED
      BY Zenon, <3>1, <3>2
  <2>6. CASE send_ready_ack
    <3>1. \/ UNCHANGED ReplayVars
          \/ \E pkt : /\ sent' = Append(sent, pkt) /\ mode = "connected"
                      /\ UNCHANGED <<publish_qos1, packets_to_replay, mode>>
      BY Zenon, <2>6 DEF send_ready_ack, ReplayVars, UnchangedBySending, Write, Sending
    <3> QED
      BY Zenon, <3>1, <2>1, <2>2
  <2>7. CASE \/ send_disconnect \/ send_auth \/ send_ping \/ send_keep_alive
             \/ send_publish_qos0 \/ \E p \in Pkids : send_subscription(p)
    <3>1. mode = "connected"
      BY Zenon, <2>7 DEF send_disconnect, send_auth, send_ping, send_keep_alive,
         send_publish_qos0, send_subscription, NothingToSend, PollsQoS1, PollsQoS0,
         PollsSubscriptions, PollsPings, PollsAuth, PollsAcks, Polls, Sending
    <3>2. UNCHANGED <<publish_qos1, packets_to_replay, mode>>
      BY Zenon, <2>7 DEF send_disconnect, send_auth, send_ping, send_keep_alive, WritePing,
         send_publish_qos0, send_subscription, UnchangedBySending
    <3>3. \E pkt : sent' = Append(sent, pkt)
      BY Zenon, <2>7 DEF send_disconnect, send_auth, send_ping, send_keep_alive, WritePing,
         send_publish_qos0, send_subscription, Write
    <3> QED
      BY Zenon, <3>1, <3>2, <3>3, <2>2
  <2>8. CASE flush
    BY Zenon, <2>8, <2>1 DEF flush, ReplayVars, UnchangedBySending
  <2> QED
    BY Zenon, <2>3, <2>4, <2>5, <2>6, <2>7, <2>8 DEF Send

\* What the server sends ends operations, or the connection, or the session.
<1>ReceiveReplay.
    ASSUME TypeOK, ReplayInv, Receive
    PROVE  ReplayInv'
  <2> USE <1>ReceiveReplay
  <2>1. CASE UNCHANGED ReplayVars
    BY Zenon, <2>1, <1>ReplayFrame
  <2>2. ASSUME NEW S, NEW p, AckUnmatched(S, p)
        PROVE  ReplayInv'
    BY Zenon, <2>2, <1>EndConnectionReplay DEF AckUnmatched, protocol_error
  <2>3. CASE \E p \in Pkids : incoming_suback(p) \/ incoming_unsuback(p)
    <3>1. \/ UNCHANGED ReplayVars
          \/ \E S, p : AckUnmatched(S, p)
      BY Zenon, <2>3 DEF incoming_suback, incoming_unsuback, AckMatches, ReplayVars,
         UnchangedByReceiving
    <3> QED
      BY Zenon, <3>1, <2>1, <2>2
  <2>4. CASE \E p \in Pkids : incoming_puback(p)
    BY Zenon, <2>4, <2>2, <1>IncomingPubAckReplay DEF incoming_puback
  <2>5. CASE \E p \in Pkids : incoming_pubrec(p)
    BY Zenon, <2>5, <2>2, <1>SessionDroppedReplay DEF incoming_pubrec
  <2>6. CASE \E p \in ServerPkids : incoming_publish_qos1(p)
    <3>1. UNCHANGED ReplayVars \/ SessionDropped("panic_duplicate_publish")
      BY Zenon, <2>6 DEF incoming_publish_qos1, ReplayVars, UnchangedByReceiving
    <3> QED
      BY Zenon, <3>1, <2>1, <1>SessionDroppedReplay
  <2>7. CASE incoming_publish_qos2
    BY Zenon, <2>7, <1>SessionDroppedReplay DEF incoming_publish_qos2
  <2>8. CASE incoming_auth_success \/ incoming_auth_continue \/ incoming_pingresp
    <3>1. UNCHANGED ReplayVars
      BY Zenon, <2>8 DEF incoming_auth_success, incoming_auth_continue, incoming_pingresp,
         ReplayVars, UnchangedByReceiving
    <3> QED
      BY Zenon, <3>1, <2>1
  <2>9. CASE incoming_disconnect \/ unexpected_packet
    BY Zenon, <2>9, <1>EndConnectionReplay DEF incoming_disconnect, unexpected_packet, protocol_error
  <2> QED
    BY Zenon, <2>3, <2>4, <2>5, <2>6, <2>7, <2>8, <2>9 DEF Receive
<1>1. CASE Application
  <2>1. UNCHANGED ReplayVars \/ SessionDropped("gone")
    BY Zenon, <1>1 DEF Application, Submit, publish_qos0_call, publish_qos1_call,
       subscription_call, ping_call, reauth_call, continue_reauth_call, acknowledge,
       disconnect_call, drop_handle, ReplayVars
  <2> QED
    BY Zenon, <2>1, <1>ReplayFrame, <1>SessionDroppedReplay
<1>2. CASE Connect
  BY Zenon, <1>2, <1>ConnectReplay
<1>3. CASE Send
  BY Zenon, <1>3, <1>SendReplay
<1>4. CASE Receive
  BY Zenon, <1>4, <1>ReceiveReplay
<1>5. CASE Disconnect
  BY Zenon, <1>5, <1>EndConnectionReplay DEF Disconnect, application_disconnect, io_error,
     ping_timeout
<1>6. CASE UNCHANGED sessionVars
  BY Zenon, <1>6, <1>ReplayFrame DEF sessionVars, ReplayVars
<1> QED
  BY Zenon, <1>1, <1>2, <1>3, <1>4, <1>5, <1>6 DEF Next

\* At least once: through any number of lost connections, expiries and partial
\* replays, every QoS 1 PUBLISH in flight has been written on the connection or is
\* about to be replayed, and only those are replayed (next_outgoing_packet,
\* disconnected, session_expired, complete_inflight).
THEOREM ReplayCorrect == Spec => []ReplayCoversInflight
<1>1. Init => ReplayInv
  BY Zenon DEF Init, ReplayInv, Covered, Entries
<1>2. TypeOK /\ ReplayInv /\ [Next]_sessionVars => ReplayInv'
  BY Zenon, ReplayStep
<1> QED
  BY <1>1, <1>2, SessionTypeCorrect, ReplayInvCovers, PTL DEF Spec
=============================================================================

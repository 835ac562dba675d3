--------------------------- MODULE PkidPoolProofs ---------------------------
(***************************************************************************)
(* What the identifier pool promises, for every size of the pool.  That an *)
(* identifier is reused late needs the history variable of MCPkidPool.     *)
(***************************************************************************)
EXTENDS MCPkidPool, FiniteSetTheorems, WellFoundedInduction, TLAPS

\* A step keeps the cursor and the leased identifiers within the pool.
LEMMA PoolTypeStep == PoolTypeOK /\ [PoolNext]_poolVars => PoolTypeOK'
<1> USE MaxPkidAssumption
<1> SUFFICES ASSUME PoolTypeOK, [PoolNext]_poolVars PROVE PoolTypeOK'
  OBVIOUS
<1>1. ASSUME NEW p \in Pkids, lease_next_pkid(p) PROVE PoolTypeOK'
  <2>1. AfterInCycle(p) \in Pkids
    BY DEF AfterInCycle, Pkids
  <2> QED
    BY <1>1, <2>1 DEF PoolTypeOK, lease_next_pkid
<1>2. ASSUME NEW S \in SUBSET Pkids, release_pkids(S) PROVE PoolTypeOK'
  BY <1>2 DEF PoolTypeOK, release_pkids
<1>3. CASE UNCHANGED poolVars
  BY <1>3 DEF PoolTypeOK, poolVars
<1> QED
  BY <1>1, <1>2, <1>3 DEF PoolNext

\* The cursor and the leased identifiers stay within 1..MaxPkid: the cycle of
\* PkidRange wraps before the identifier would overflow or become zero.
THEOREM PoolTypeCorrect == PoolSpec => []PoolTypeOK
<1> USE MaxPkidAssumption
<1>1. PoolInit => PoolTypeOK
  BY DEF PoolInit, PoolTypeOK, Pkids
<1> QED
  BY <1>1, PoolTypeStep, PTL DEF PoolSpec

\* The number of identifiers that the scan passes is a natural number.
LEMMA DistanceNat ==
    ASSUME PoolTypeOK, NEW p \in Pkids
    PROVE  Distance(p) \in Nat
BY MaxPkidAssumption DEF PoolTypeOK, Pkids, Distance

\* Whenever the size test of lease_next_pkid passes, some identifier is free.
LEMMA SomeFree ==
    ASSUME PoolTypeOK, ~Exhausted
    PROVE  Free # {}
<1> SUFFICES ASSUME Free = {} PROVE FALSE
  OBVIOUS
<1>1. leased = 1..MaxPkid
  BY DEF PoolTypeOK, Free, Pkids
<1>2. Cardinality(1..MaxPkid) = MaxPkid
  BY FS_Interval, MaxPkidAssumption
<1> QED
  BY <1>1, <1>2 DEF Exhausted

\* Among free identifiers, one is the first that the scan meets.
LEMMA SomeFirst ==
    ASSUME PoolTypeOK, Free # {}
    PROVE  \E p \in Pkids : NextFree(p)
<1> DEFINE D == {Distance(p) : p \in Free}
<1>1. D \subseteq Nat /\ D # {}
  BY DistanceNat DEF Free
<1>2. PICK m \in D : \A n \in D : ~(<<n, m>> \in OpToRel(<, Nat))
  <2> HIDE DEF D
  <2> QED BY <1>1, WFMin, NatLessThanWellFounded
<1>3. \A n \in D : m <= n
  <2> HIDE DEF D
  <2> SUFFICES ASSUME NEW n \in D PROVE ~(n < m)
    BY <1>1
  <2>1. <<n, m>> \in Nat \X Nat
    BY <1>1
  <2>2. n < m => <<n, m>> \in OpToRel(<, Nat)
    BY <2>1 DEF OpToRel
  <2> QED
    BY <1>2, <2>2
<1>4. PICK p \in Free : m = Distance(p)
  BY <1>2
<1>5. NextFree(p)
  BY <1>3, <1>4 DEF NextFree
<1> QED
  BY <1>4, <1>5 DEF Free

\* The endless loop of lease_next_pkid always finds an identifier ("Infinite loop
\* is safe here", pkid.rs).
THEOREM ScanAlwaysTerminates == PoolSpec => []ScanTerminates
<1>1. PoolTypeOK => ScanTerminates
  BY SomeFree, SomeFirst DEF ScanTerminates
<1> QED
  BY <1>1, PoolTypeCorrect, PTL
-----------------------------------------------------------------------------
\* How many identifiers a full turn of the cycle yields from a before it yields b.
Steps(a, b) == IF b >= a THEN b - a ELSE b - a + MaxPkid

\* The cursor has passed q since it stood behind p.
Passed(p, q) == Steps(AfterInCycle(p), q) < Steps(AfterInCycle(p), cursor)

AllOthers(p) == Pkids \ {p} \subseteq inUse[p]

\* Whatever the cursor has passed since the lease of p has been in use since then;
\* once it comes to p again, that is every other identifier, and stays so.
TurnInv ==
    /\ PoolTypeOK
    /\ inUse \in [Pkids -> SUBSET Pkids]
    /\ \A p \in Pkids : leased \subseteq inUse[p]
    /\ \A p \in Pkids : AllOthers(p) \/ \A q \in Pkids : Passed(p, q) => q \in inUse[p]

\* The scan that leases r passes only leased identifiers.
LEMMA ScannedLeased ==
    ASSUME PoolTypeOK, NEW r \in Pkids, NextFree(r), NEW q \in Pkids,
           Steps(cursor, q) < Steps(cursor, r)
    PROVE  q \in leased
<1> SUFFICES ASSUME q \in Free PROVE FALSE
  BY DEF Free
<1>1. Distance(r) <= Distance(q)
  BY DEF NextFree
<1> QED
  BY <1>1, MaxPkidAssumption DEF Steps, Distance, PoolTypeOK, Pkids

\* Where the scan from the cursor to r goes, seen from p: it reaches r without
\* coming to p, or it passes p and then all that had not been passed before.
LEMMA ScanGeometry ==
    ASSUME NEW c \in Pkids, NEW p \in Pkids, NEW q \in Pkids, NEW r \in Pkids, p # r,
           NEW a, a = AfterInCycle(p)
    PROVE  /\ Steps(a, c) <= Steps(a, r) =>
                /\ Steps(a, AfterInCycle(r)) = Steps(a, r) + 1
                /\ (Steps(a, q) <= Steps(a, r) /\ q # r) =>
                       Steps(a, q) < Steps(a, c) \/ Steps(c, q) < Steps(c, r)
           /\ Steps(a, r) < Steps(a, c) =>
                Steps(a, q) < Steps(a, c) \/ Steps(c, q) < Steps(c, r)
<1>1. /\ MaxPkid \in Nat /\ c \in 1..MaxPkid /\ p \in 1..MaxPkid /\ q \in 1..MaxPkid
      /\ r \in 1..MaxPkid /\ a \in 1..MaxPkid
      /\ p = MaxPkid => a = 1
      /\ p # MaxPkid => a = p + 1
  BY MaxPkidAssumption DEF Pkids, AfterInCycle
<1>2. Steps(a, c) <= Steps(a, r) =>
        /\ Steps(a, AfterInCycle(r)) = Steps(a, r) + 1
        /\ (Steps(a, q) <= Steps(a, r) /\ q # r) =>
               Steps(a, q) < Steps(a, c) \/ Steps(c, q) < Steps(c, r)
  BY <1>1 DEF Steps, AfterInCycle
<1>3. Steps(a, r) < Steps(a, c) =>
        Steps(a, q) < Steps(a, c) \/ Steps(c, q) < Steps(c, r)
  BY <1>1 DEF Steps
<1> QED
  BY <1>2, <1>3

\* Seen from p itself, what has not been passed lies before p in the scan.
LEMMA ScanToSelf ==
    ASSUME NEW c \in Pkids, NEW p \in Pkids, NEW q \in Pkids, q # p,
           NEW a, a = AfterInCycle(p)
    PROVE  /\ Steps(a, q) < Steps(a, c) \/ Steps(c, q) < Steps(c, p)
           /\ ~(Steps(a, q) < Steps(a, a))
<1>1. /\ MaxPkid \in Nat /\ c \in 1..MaxPkid /\ p \in 1..MaxPkid /\ q \in 1..MaxPkid
      /\ a \in 1..MaxPkid
      /\ p = MaxPkid => a = 1
      /\ p # MaxPkid => a = p + 1
  BY MaxPkidAssumption DEF Pkids, AfterInCycle
<1> QED
  BY <1>1 DEF Steps

\* A lease keeps the invariant for the identifier p.
LEMMA LeaseTurn ==
    ASSUME TurnInv, NEW r \in Pkids, lease_next_pkid(r), NEW p \in Pkids,
           inUse'[p] = leased' \cup IF p \in leased' \ leased THEN {} ELSE inUse[p]
    PROVE  AllOthers(p)' \/ \A q \in Pkids : Passed(p, q)' => q \in inUse'[p]
<1> DEFINE a == AfterInCycle(p)
<1>1. /\ r \in Free /\ NextFree(r) /\ leased' = leased \cup {r}
      /\ cursor' = AfterInCycle(r) /\ cursor \in Pkids
  BY DEF lease_next_pkid, NextFree, TurnInv, PoolTypeOK
<1>2. \A q \in Pkids : Steps(cursor, q) < Steps(cursor, r) => q \in inUse'[p]
  BY <1>1, ScannedLeased DEF TurnInv
<1>3. r \in inUse'[p]
  BY <1>1
<1>4. CASE p = r
  <2>1. \A q \in Pkids : ~Passed(p, q)'
    <3> SUFFICES ASSUME NEW q \in Pkids PROVE ~(Steps(a, q) < Steps(a, a))
      BY <1>1, <1>4 DEF Passed
    <3>1. Steps(a, a) = 0 /\ Steps(a, q) \in Nat
      BY MaxPkidAssumption DEF Steps, Pkids, AfterInCycle
    <3> QED
      BY <3>1
  <2> QED
    BY <2>1
<1>5. CASE p # r
  <2>1. inUse[p] \subseteq inUse'[p]
    BY <1>1, <1>5
  <2>2. CASE AllOthers(p)
    BY <2>1, <2>2 DEF AllOthers
  <2>3. CASE \A q \in Pkids : Passed(p, q) => q \in inUse[p]
    <3>1. \A q \in Pkids : Steps(a, q) < Steps(a, cursor) => q \in inUse'[p]
      BY <2>1, <2>3 DEF Passed
    <3>2. \A x \in Pkids : Steps(a, x) \in Int
      BY MaxPkidAssumption DEF Steps, Pkids, AfterInCycle
    <3>3. CASE Steps(a, cursor) <= Steps(a, r)
      <4> SUFFICES ASSUME NEW q \in Pkids, Passed(p, q)', q # r
                   PROVE  q \in inUse'[p]
        BY <1>3
      <4>1. Steps(a, AfterInCycle(r)) = Steps(a, r) + 1
        BY <1>1, <1>5, <3>3, ScanGeometry
      <4>2. Steps(a, q) < Steps(a, r) + 1
        BY <1>1, <4>1 DEF Passed
      <4>3. Steps(a, q) <= Steps(a, r)
        BY <3>2, <4>2
      <4> HIDE DEF a
      <4>4. Steps(a, q) < Steps(a, cursor) \/ Steps(cursor, q) < Steps(cursor, r)
        BY <1>1, <1>5, <3>3, <4>3, ScanGeometry DEF a
      <4> QED
        BY <1>2, <3>1, <4>4
    <3>4. CASE Steps(a, r) < Steps(a, cursor)
      <4> SUFFICES ASSUME NEW q \in Pkids
                   PROVE  q \in inUse'[p]
        BY DEF AllOthers
      <4>1. Steps(a, q) < Steps(a, cursor) \/ Steps(cursor, q) < Steps(cursor, r)
        BY <1>1, <1>5, <3>4, ScanGeometry
      <4> QED
        BY <1>2, <3>1, <4>1
    <3> QED
      BY <1>1, <3>2, <3>3, <3>4
  <2> QED
    BY <2>2, <2>3 DEF TurnInv
<1> QED
  BY <1>4, <1>5

\* Every step keeps the invariant.
LEMMA TurnStep == TurnInv /\ [MCNext]_<<poolVars, inUse>> => TurnInv'
<1> SUFFICES ASSUME TurnInv, [MCNext]_<<poolVars, inUse>>
             PROVE  TurnInv'
  OBVIOUS
<1>1. PoolTypeOK'
  BY PoolTypeStep DEF TurnInv, MCNext, poolVars
<1>2. CASE MCNext
  <2>1. \A p \in Pkids :
          inUse'[p] = leased' \cup IF p \in leased' \ leased THEN {} ELSE inUse[p]
    BY <1>2 DEF MCNext
  <2>2. inUse' \in [Pkids -> SUBSET Pkids]
    BY <1>1, <1>2 DEF MCNext, TurnInv, PoolTypeOK
  <2>3. \A p \in Pkids : leased' \subseteq inUse'[p]
    BY <2>1
  <2>4. ASSUME NEW r \in Pkids, lease_next_pkid(r), NEW p \in Pkids
        PROVE  AllOthers(p)' \/ \A q \in Pkids : Passed(p, q)' => q \in inUse'[p]
    BY <2>1, <2>4, LeaseTurn
  <2>5. ASSUME NEW S \in SUBSET Pkids, release_pkids(S), NEW p \in Pkids
        PROVE  AllOthers(p)' \/ \A q \in Pkids : Passed(p, q)' => q \in inUse'[p]
    <3>1. cursor' = cursor /\ inUse[p] \subseteq inUse'[p]
      BY <2>1, <2>5 DEF release_pkids
    <3> QED
      BY <3>1 DEF TurnInv, AllOthers, Passed
  <2>6. \A p \in Pkids : AllOthers(p)' \/ \A q \in Pkids : Passed(p, q)' => q \in inUse'[p]
    BY <1>2, <2>4, <2>5 DEF MCNext, PoolNext
  <2> QED
    BY <1>1, <2>2, <2>3, <2>6 DEF TurnInv
<1>3. CASE UNCHANGED <<poolVars, inUse>>
  BY <1>3 DEF TurnInv, PoolTypeOK, AllOthers, Passed, poolVars
<1> QED
  BY <1>2, <1>3

\* What a lease finds: the cursor went all the way round.
LEMMA LeasedAfterTurn ==
    ASSUME TurnInv, NEW p \in Pkids, lease_next_pkid(p)
    PROVE  AllOthers(p)
<1> SUFFICES ASSUME NEW q \in Pkids, q # p, \A x \in Pkids : Passed(p, x) => x \in inUse[p]
             PROVE  q \in inUse[p]
  BY DEF AllOthers, TurnInv
<1>1. NextFree(p) /\ cursor \in Pkids
  BY DEF lease_next_pkid, TurnInv, PoolTypeOK
<1>2. Passed(p, q) \/ Steps(cursor, q) < Steps(cursor, p)
  BY <1>1, ScanToSelf DEF Passed
<1> QED
  BY <1>1, <1>2, ScannedLeased DEF TurnInv

\* No identifier is leased again before every other one was in use since: the gap
\* between two operations with the same identifier is as long as the pool allows,
\* whatever the order of leases and releases (PkidPool::lease_next_pkid).
THEOREM AlwaysReusedLate == MCSpec => ReusedAfterFullTurn
<1>1. MCInit => TurnInv
  BY MaxPkidAssumption DEF MCInit, PoolInit, TurnInv, PoolTypeOK, AllOthers, Pkids
<1>2. TurnInv /\ [MCNext]_<<poolVars, inUse>> =>
        [\A p \in leased' \ leased : Pkids \ {p} \subseteq inUse[p]]_<<poolVars, inUse>>
  <2> SUFFICES ASSUME TurnInv, MCNext, NEW p \in leased' \ leased
               PROVE  Pkids \ {p} \subseteq inUse[p]
    OBVIOUS
  <2>1. PICK r \in Pkids : lease_next_pkid(r)
    BY DEF MCNext, PoolNext, release_pkids
  <2>2. p = r
    BY <2>1 DEF lease_next_pkid
  <2> QED
    BY <2>1, <2>2, LeasedAfterTurn DEF AllOthers
<1> QED
  BY <1>1, <1>2, TurnStep, PTL DEF MCSpec, ReusedAfterFullTurn
=============================================================================

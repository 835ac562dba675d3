------------------------------ MODULE PkidPool ------------------------------
(***************************************************************************)
(* The packet identifier pool of the client session                        *)
(* (src/src/client/session/pkid.rs).  Identifiers 1..MaxPkid are handed    *)
(* out round robin: `leased` is the HashSet of the same name and `cursor`  *)
(* the identifier that the endless iterator `cycle` yields next.           *)
(*                                                                         *)
(* The operations are actions on the two variables, so that the session    *)
(* can conjoin them with its own state change.                             *)
(***************************************************************************)
EXTENDS Integers, FiniteSets

CONSTANT MaxPkid        \* the largest identifier of the pool, max_pkid

\* A PacketIdentifier is a nonzero u16.
ASSUME MaxPkidAssumption == MaxPkid \in Nat /\ 1 <= MaxPkid /\ MaxPkid <= 65535

VARIABLES
    leased,             \* identifiers in use
    cursor              \* what cycle.next() returns next

poolVars == <<leased, cursor>>

Pkids == 1..MaxPkid

Free == Pkids \ leased

\* Fault: the early return comes one identifier too late.
ExhaustedLate == Cardinality(leased) > MaxPkid

\* The early return of lease_next_pkid compares the size of the set.
Exhausted == Cardinality(leased) = MaxPkid

\* How many identifiers the iterator yields before it yields p.
Distance(p) == IF p >= cursor THEN p - cursor ELSE p - cursor + MaxPkid

\* Fault: the loop does not look whether the identifier is leased.
NextFreeAny(p) == p = cursor

\* The identifier at which the loop of lease_next_pkid stops.
NextFree(p) ==
    /\ p \in Free
    /\ \A q \in Free : Distance(p) <= Distance(q)

\* Fault: the scan restarts at the first identifier on every lease.
AfterInCycleRestarts(p) == 1

\* Fault: the range does not start again.
AfterInCycleRunsOut(p) == p + 1

\* PkidRange::next under Cycle: after the end of the range it starts again.
AfterInCycle(p) == IF p = MaxPkid THEN 1 ELSE p + 1

PoolInit ==
    /\ leased = {}
    /\ cursor = 1

lease_next_pkid(p) ==
    /\ ~Exhausted
    /\ NextFree(p)
    /\ leased' = leased \cup {p}
    /\ cursor' = AfterInCycle(p)

\* Fault: nothing is released.
release_pkidsNever(S) == UNCHANGED poolVars

\* Releases every identifier of S; an identifier that is not leased is ignored.
release_pkids(S) ==
    /\ leased' = leased \ S
    /\ UNCHANGED cursor

PoolNext ==
    \/ \E p \in Pkids : lease_next_pkid(p)
    \/ \E S \in SUBSET Pkids : release_pkids(S)

PoolSpec == PoolInit /\ [][PoolNext]_poolVars

PoolTypeOK ==
    /\ leased \subseteq Pkids
    /\ cursor \in Pkids

-----------------------------------------------------------------------------
(***************************************************************************)
(* What the pool promises.                                                 *)
(***************************************************************************)

\* The scan of lease_next_pkid always ends: whenever the size test lets it
\* start, some identifier is free ("Infinite loop is safe here", pkid.rs:76).
ScanTerminates == ~Exhausted => \E p \in Pkids : NextFree(p)
=============================================================================

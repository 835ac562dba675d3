----------------------------- MODULE MCPkidPool -----------------------------
(***************************************************************************)
(* The identifier pool for TLC, with a history variable: inUse[p] is the   *)
(* set of identifiers seen in use since p was leased the last time.        *)
(***************************************************************************)
EXTENDS PkidPool

VARIABLE inUse

MCInit ==
    /\ PoolInit
    /\ inUse = [p \in Pkids |-> Pkids]

MCNext ==
    /\ PoolNext
    /\ inUse' = [p \in Pkids |-> leased' \cup IF p \in leased' \ leased THEN {}
                                               ELSE inUse[p]]

MCSpec == MCInit /\ [][MCNext]_<<poolVars, inUse>>

\* An identifier is leased again only after the cursor of the pool went all the
\* way round: every other identifier was in use at some time since its last
\* lease, whatever was released meanwhile (PkidPool::lease_next_pkid).
ReusedAfterFullTurn ==
    [][\A p \in leased' \ leased : Pkids \ {p} \subseteq inUse[p]]_<<poolVars, inUse>>
=============================================================================

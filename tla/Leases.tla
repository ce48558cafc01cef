------------------------------- MODULE Leases -------------------------------
(***************************************************************************)
(* What a proxy pool promises the threads of one process: a node is leased *)
(* to at most max_active_leases of them at a time.  A process that starts  *)
(* again has no leases, and may find other nodes healthy.                  *)
(***************************************************************************)
EXTENDS Integers, FiniteSets

CONSTANTS
  Refs,        \* the enabled nodes of the proxy pool file
  Limit,       \* max_active_leases of each node
  Holders,     \* the threads that lease
  HealthySets, \* the sets of nodes a health check may leave
  NoRef

VARIABLES
  specs,  \* the nodes this process leases
  lease   \* the node each thread holds, or NoRef

leaseVars == <<specs, lease>>

LeaseInit ==
  /\ specs \in HealthySets
  /\ lease = [t \in Holders |-> NoRef]

Holding(r) == {t \in Holders : lease[t] = r}
HasRoom(r) == Cardinality(Holding(r)) < Limit[r]

\* ProxyPool.acquire
Lease(t) ==
  /\ lease[t] = NoRef
  /\ \E r \in specs :
       /\ HasRoom(r)
       /\ lease' = [lease EXCEPT ![t] = r]
  /\ UNCHANGED specs

\* ProxyPool.release
Return(t) ==
  /\ lease' = [lease EXCEPT ![t] = NoRef]
  /\ UNCHANGED specs

\* The process ends and starts again: a pool in memory is gone.
Restart ==
  /\ specs' \in HealthySets
  /\ lease' = [t \in Holders |-> NoRef]

LeaseNext ==
  \/ \E t \in Holders : Lease(t) \/ Return(t)
  \/ Restart

LeaseSpec == LeaseInit /\ [][LeaseNext]_leaseVars
=============================================================================

---------------------------- MODULE MCProxyPool -----------------------------
(* Two processes, one of them with two threads, and three nodes. *)
EXTENDS ProxyPool

CONSTANTS p1, p2, t1, t2, t3, ra, rb, rc

RankValue == [r \in Refs |-> IF r = ra THEN 0 ELSE IF r = rb THEN 1 ELSE 2]
LimitValue == [r \in Refs |-> IF r = rc THEN 2 ELSE 1]
ProcValue == [t \in Threads |-> IF t = t3 THEN p2 ELSE p1]
\* Every node is healthy, the one in the middle is not, or only the first is.
SomeNodes == {Refs, {ra, rc}, {ra}}
=============================================================================

------------------------------- MODULE MCEgress -------------------------------
(* Finite instances of Egress for TLC: one account that a plan takes, one in *)
(* any state, and one that holds a proxy of the pool already.                *)
EXTENDS Egress

MCInit ==
    /\ Init
    /\ acct[1] = [proxy |-> 0, sched |-> TRUE, limit |-> 1]
    /\ acct[2].sched
    /\ acct[3] = [proxy |-> 11, sched |-> TRUE, limit |-> 0]
MCSpec == MCInit /\ [][Next]_vars
=============================================================================

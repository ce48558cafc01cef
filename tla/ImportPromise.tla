---------------------------- MODULE ImportPromise ----------------------------
(***************************************************************************)
(* What the auth push promises the clients that send credentials and the   *)
(* clients that use the pool, with none of the steps that keep it: an      *)
(* account only serves a grant that was found usable, and a push is        *)
(* answered "imported" only while an account serves its grant.             *)
(***************************************************************************)
CONSTANTS Handlers, Ids, Lineages, None

VARIABLES
  serving,  \* the grant each account routes traffic with, or None
  trusted,  \* grants tested, or refreshed by Sub2API
  waiting,  \* the grant each push in progress was sent
  told      \* the pushes that are being answered "imported"

vars == <<serving, trusted, waiting, told>>

Init ==
  /\ trusted \in SUBSET Lineages
  /\ serving \in [Ids -> trusted \cup {None}]
  /\ waiting = [i \in Handlers |-> None]
  /\ told = {}

Ask(i, l) ==
  /\ waiting[i] = None
  /\ waiting' = [waiting EXCEPT ![i] = l]
  /\ UNCHANGED <<serving, trusted, told>>

Trust(l) ==
  /\ trusted' = trusted \cup {l}
  /\ UNCHANGED <<serving, waiting, told>>

Serve(a, l) ==
  /\ l \in trusted
  /\ serving' = [serving EXCEPT ![a] = l]
  /\ UNCHANGED <<trusted, waiting, told>>

Withdraw(a) ==
  /\ serving' = [serving EXCEPT ![a] = None]
  /\ UNCHANGED <<trusted, waiting, told>>

TellImported(i) ==
  /\ waiting[i] # None
  /\ \E a \in Ids : serving[a] = waiting[i]
  /\ told' = told \cup {i}
  /\ UNCHANGED <<serving, trusted, waiting>>

Finish(i) ==
  /\ waiting' = [waiting EXCEPT ![i] = None]
  /\ told' = told \ {i}
  /\ UNCHANGED <<serving, trusted>>

\* The service dies: no push in progress is answered.
Forget ==
  /\ waiting' = [i \in Handlers |-> None]
  /\ told' = {}
  /\ UNCHANGED <<serving, trusted>>

Next ==
  \/ \E i \in Handlers : TellImported(i) \/ Finish(i) \/ \E l \in Lineages : Ask(i, l)
  \/ \E l \in Lineages : Trust(l) \/ \E a \in Ids : Serve(a, l)
  \/ \E a \in Ids : Withdraw(a)
  \/ Forget

Spec == Init /\ [][Next]_vars
=============================================================================

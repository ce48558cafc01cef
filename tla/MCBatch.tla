------------------------------- MODULE MCBatch -------------------------------
(* Finite instances of Closeout for TLC.  Attempts differ only by name, so   *)
(* that the first is registered loses no behaviour; the second one has at    *)
(* least an account, which is what recover_batch_oauth.py looks for.         *)
EXTENDS Closeout
CONSTANTS t1, t2

VARIABLE budget   \* commands and faults together: one less for a batch of two grants

MCInit ==
    /\ Init /\ t1 \in Sources(manifest) /\ rows[t2] # "none"
    /\ budget = IF rows[t2] = "granted" THEN 2 ELSE 3
MCNext == Next /\ commands' + faults' <= budget /\ UNCHANGED budget
MCSpec == MCInit /\ [][MCNext]_<<vars, budget>>
MCFairSpec == MCSpec /\ WF_vars(Confirm \/ ConfirmStep)
=============================================================================

----------------------------- MODULE MCAuthPush -----------------------------
(* Small instances of AuthPush. *)
EXTENDS AuthPush, TLC

CONSTANTS h1, h2, a1, a2, l1, l2, l3, e1, e2, s1, s2

\* l1 was minted before l2 for one identity; l3 belongs to another principal
\* that is pushed under the same email.
OneMailbox == [l \in Lineages |-> e1]
Subjects   == [l \in Lineages |-> IF l = l3 THEN s2 ELSE s1]
Minted     == [l \in Lineages |-> IF l = l2 THEN 2 ELSE 1]

\* l1 and l2 are pushed under an email each.
TwoMailboxes == (l1 :> e1) @@ (l2 :> e2)

\* One principal pushed under two emails.
OneSubject == [l \in {l1, l2} |-> s1]

Symmetry == Permutations(Handlers) \cup Permutations(Ids)
=============================================================================

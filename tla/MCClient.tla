------------------------------ MODULE MCClient ------------------------------
(* Two workers of the client with its default configuration.                 *)
EXTENDS BrowserClient, TLC

CONSTANTS w1, w2
MCWorkers == {w1, w2}
Interchangeable == Permutations(MCWorkers)
=============================================================================

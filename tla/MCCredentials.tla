---------------------------- MODULE MCCredentials ----------------------------
(* Finite instances of Credentials for TLC: runs with and without the        *)
(* verified files, one of which also pushes what is out of quota.            *)
EXTENDS Credentials

MCOptions == {[verified |-> FALSE, cooldown |-> TRUE,  remote |-> TRUE],
              [verified |-> TRUE,  cooldown |-> FALSE, remote |-> TRUE]}
=============================================================================

--------------------------- MODULE MCClientRunner ---------------------------
(* A route: one worker in the server configuration.                          *)
EXTENDS ClientRunner

CONSTANT w1
MCWorkers == {w1}
=============================================================================

--------------------------- MODULE MCRegistration ---------------------------
(* Small instances of Registration: the health check leaves one node, which  *)
(* has two leases or one.                                                    *)
EXTENDS Registration

CONSTANTS ra, rb

TwoOrOne == [r \in Refs |-> IF r = ra THEN 2 ELSE 1]
OneNode == {{ra}, {rb}}
OnlyRa == {{ra}}
=============================================================================

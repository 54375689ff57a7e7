------------------------------ MODULE MCCanary ------------------------------
(* One sandbox, whose id falls into bucket 0, and one request at a time. *)
EXTENDS Canary

CONSTANTS s1, r1

OneBucket == [s \in Sandbox |-> 0]
=============================================================================

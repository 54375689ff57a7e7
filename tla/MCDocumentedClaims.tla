------------------------- MODULE MCDocumentedClaims -------------------------
(* Small instances of the service for the documented claims. *)
EXTENDS DocumentedClaims
CONSTANTS s1, r1, r2, k1, w1, w2
=============================================================================

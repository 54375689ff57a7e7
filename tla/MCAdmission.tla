---------------------------- MODULE MCAdmission -----------------------------
(* Three sandboxes and two requests; they are interchangeable. *)
EXTENDS Admission, TLC

CONSTANTS s1, s2, s3, r1, r2, k1

Interchangeable == Permutations({s1, s2, s3}) \cup Permutations({r1, r2})
=============================================================================

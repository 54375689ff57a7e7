--------------------------- MODULE MCOrchestrator ---------------------------
(* Small instances of the service for TLC; each .cfg says how many of what. *)
EXTENDS Orchestrator, TLC
CONSTANTS s1, r1, r2, w1, w2

\* The reaper is one function: which worker runs a sweep makes no difference.
Sweepers == Permutations({w1, w2})
=============================================================================

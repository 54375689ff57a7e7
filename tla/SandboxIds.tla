----------------------------- MODULE SandboxIds -----------------------------
(***************************************************************************)
(* The sandbox ids, by which rows, jobs and containers refer to one thing. *)
(***************************************************************************)
CONSTANTS
  Sandbox,   \* the sandbox ids (uuid4) that may ever occur
  Stray      \* ids of containers left behind by an earlier database
=============================================================================

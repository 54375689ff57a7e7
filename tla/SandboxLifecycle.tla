-------------------------- MODULE SandboxLifecycle --------------------------
(***************************************************************************)
(* What a client may rely on: the life of a sandbox as its status shows    *)
(* it, without API, queue, workers, containers or reaper.  The diagram of  *)
(* README.md                                                               *)
(*     queued -> starting -> running -> stopping -> stopped   (failed)     *)
(* is the path; the other moves are a retry of the start, the reaper and   *)
(* the expiry cutting the path short, and a failed enqueue.                *)
(***************************************************************************)
EXTENDS Naturals

CONSTANTS Sandbox, Stray

VARIABLE status

\* Where a sandbox may go next.
Successors(st) ==
  CASE st = "none"     -> {"queued"}
    [] st = "queued"   -> {"starting", "stopping", "stopped", "failed"}
    [] st = "starting" -> {"queued", "running", "stopping", "stopped", "failed"}
    [] st = "running"  -> {"stopping", "stopped", "failed"}
    [] st = "stopping" -> {"stopped", "failed"}
    [] st = "stopped"  -> {"failed"}
    [] st = "failed"   -> {}

Init == status = [s \in Sandbox |-> "none"]

\* A status stays or moves to a successor; a stray container never gets a row.
Next ==
  /\ status' \in [Sandbox -> {"none", "queued", "starting", "running",
                            "stopping", "stopped", "failed"}]
  /\ \A s \in Sandbox : status'[s] \in Successors(status[s]) \cup {status[s]}
  /\ \A s \in Stray : status'[s] = "none"

\* A stop that was accepted is carried through.
StopsFinish ==
  \A s \in Sandbox :
    WF_status(Next /\ status[s] = "stopping" /\ status'[s] # "stopping")

Safety == Init /\ [][Next]_status

Spec == Safety /\ StopsFinish
=============================================================================

-------------------------- MODULE DocumentedClaims --------------------------
(***************************************************************************)
(* Sentences of the repository's documents, comments and tests that the    *)
(* code does not live up to, stated as properties of Orchestrator.  Each   *)
(* is refuted by a run of its own; README.md says what each run shows.     *)
(***************************************************************************)
EXTENDS Orchestrator

\* README.md:54, on writing the row before the enqueue and marking it failed
\* when the enqueue fails: "a fast worker can't be overwritten by a late API
\* write".  So the write that marks it finds the row as the API left it.
FastWorkerNotOverwritten ==
  [][\A r \in Request :
       call[r] = "markFailed" /\ call'[r] # call[r] /\ status' # status
         => status[target[r]] = "queued"]_vars

\* README.md:113: "Container OOM-killed / removed underneath us | Reaper marks
\* it `failed` (container disappeared)".  So a sandbox whose process died does
\* not stay `running`.
DeadContainerIsFailed ==
  \A s \in Sandbox :
    status[s] = "running" /\ container[s] = "exited" ~> status[s] # "running"

\* docs/RUNBOOK.md:57-58: "A stuck `starting` is cleaned up at TTL".
StuckStartingIsCleanedUp ==
  \A s \in Sandbox : status[s] = "starting" /\ age[s] = "due" ~> status[s] # "starting"

\* app/routes/sandboxes.py:74-76, on POST with an Idempotency-Key: "a retry
\* (client timeout, 503, concurrent duplicate) returns the original sandbox
\* [...], even at capacity (the original already holds its slot)".  So no
\* request whose key has its sandbox is turned away at the cap.
DuplicateServedAtCapacity ==
  [][\A r \in Request :
       call[r] = "count" /\ call'[r] = "idle" /\ ~UnderCap /\ faults' = faults
         => ~KeyTaken(keyOf[r])]_vars

\* app/worker.py:144, on discarding what a failed launch left: "never carry a
\* broken container into a retry".  So what a start publishes, in time, is no
\* container that the discard of a try before it, given up on, still removes.
BrokenContainerNotCarried ==
  [][\A s \in Sandbox :
       status[s] = "starting" /\ status'[s] = "running" /\ age[s] = "live"
         => s \notin doomed]_vars
=============================================================================

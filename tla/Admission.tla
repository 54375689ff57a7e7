----------------------------- MODULE Admission ------------------------------
(***************************************************************************)
(* Concurrent requests against the admission cap.  The API is the one of   *)
(* SandboxApi; of the workers and the reaper all that matters here is that *)
(* they move the rows as SandboxLifecycle allows, which is what            *)
(* Orchestrator is shown to implement.  That is little enough for TLC to   *)
(* take several sandboxes and requests at once.                            *)
(***************************************************************************)
EXTENDS SandboxApi

Lifecycle == INSTANCE SandboxLifecycle WITH status <- status

vars == <<storeVars, queueVars, apiVars>>

Init == StoreInit /\ QueueInit /\ ApiInit

\* A worker or the reaper moves a row.
RowMoves(s) ==
  /\ status[s] # "none"
  /\ \E new \in Lifecycle!Successors(status[s]) : status' = [status EXCEPT ![s] = new]
  /\ UNCHANGED <<key, age, queueVars, apiVars>>

\* A worker has done a job.
JobDone(j) ==
  /\ j \in jobs
  /\ FinishJob(j)
  /\ UNCHANGED <<storeVars, apiVars>>

Next ==
  \/ \E r \in Request :
       \/ \E k \in Key \cup {NoKey} : PostLookup(r, k)
       \/ \E s \in Sandbox : DeleteRead(r, s)
       \/ CallContinues(r)
       \/ PostEnqueueFails(r)
       \/ DeleteEnqueueFails(r)
       \/ CallCrash(r)
  \/ \E s \in Sandbox : RowMoves(s)
  \/ \E j \in Job : JobDone(j)

Spec == Init /\ [][Next]_vars
=============================================================================

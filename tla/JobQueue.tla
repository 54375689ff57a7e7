------------------------------ MODULE JobQueue ------------------------------
(***************************************************************************)
(* The Redis job queue between the API and the workers, as app/queue.py    *)
(* and the WorkerSettings of app/worker.py use it.  arq itself is a        *)
(* library: what is modelled is the part of its contract the code relies   *)
(* on.  A job has a deterministic id, "<task>:<sandbox id>"; while its key *)
(* exists an enqueue with the same id does nothing; delivery is at least   *)
(* once, with an in-progress marker that outlives a crashed worker until   *)
(* its time to live runs out; every pick-up counts as a try; a job picked  *)
(* up more than max_tries times is dropped without calling its handler.    *)
(***************************************************************************)
EXTENDS SandboxStore

CONSTANT MaxTries    \* job_max_tries

ASSUME QueueAssumption == MaxTries \in Nat \ {0}

VARIABLES
  jobs,      \* ids whose job key exists: queued, deferred or being run
  busy,      \* ids whose in-progress key exists
  tries      \* tries[j]: arq's retry counter

queueVars == <<jobs, busy, tries>>

Job == {"start", "stop"} \X Sandbox

StartJob(s) == <<"start", s>>

StopJob(s) == <<"stop", s>>

QueueTypeOK ==
  /\ jobs \subseteq Job
  /\ busy \subseteq Job
  /\ tries \in [Job -> 0 .. MaxTries]

QueueInit ==
  /\ jobs = {}
  /\ busy = {}
  /\ tries = [j \in Job |-> 0]

-----------------------------------------------------------------------------
\* enqueue_sandbox_job: nothing happens while the id exists.
Enqueue(j) ==
  /\ jobs' = jobs \cup {j}
  /\ UNCHANGED <<busy, tries>>

\* The call raised (redis_timeout_s, connection lost).  Its reply may be all
\* that was lost: the job may be in the queue all the same.
EnqueueRaises(j) ==
  /\ jobs' \in {jobs, jobs \cup {j}}
  /\ UNCHANGED <<busy, tries>>

\* MUTANT of PickUp: nothing limits the tries.
PickUpUnlimited(j) ==
  /\ j \in jobs \ busy
  /\ busy' = busy \cup {j}
  /\ tries' = [tries EXCEPT ![j] = @ + 1]
  /\ UNCHANGED jobs

\* A worker takes a due job whose in-progress key is free.
PickUp(j) ==
  /\ j \in jobs \ busy
  /\ tries[j] < MaxTries
  /\ busy' = busy \cup {j}
  /\ tries' = [tries EXCEPT ![j] = @ + 1]
  /\ UNCHANGED jobs

\* The handler returned or raised something other than Retry.  keep_result
\* is 0, so the id is free for another enqueue at once.
FinishJob(j) ==
  /\ jobs' = jobs \ {j}
  /\ busy' = busy \ {j}
  /\ tries' = [tries EXCEPT ![j] = 0]

\* The handler raised Retry: the job stays, deferred, with its try counted.
RequeueJob(j) ==
  /\ busy' = busy \ {j}
  /\ UNCHANGED <<jobs, tries>>

\* One more pick-up than max_tries allows: dropped, the handler never runs.
DropExhausted(j) ==
  /\ j \in jobs \ busy
  /\ tries[j] = MaxTries
  /\ FinishJob(j)

\* Redis lost its data.
FlushRedis ==
  /\ jobs # {}
  /\ jobs' = {}
  /\ busy' = {}
  /\ tries' = [j \in Job |-> 0]
=============================================================================

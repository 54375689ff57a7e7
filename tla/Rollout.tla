------------------------------ MODULE Rollout -------------------------------
(***************************************************************************)
(* The split of jobs between the stable and the canary worker pool: the    *)
(* weight in Redis (app/rollout.py, app/routes/rollout.py), the routing of *)
(* each request by the weight it read some awaits before it enqueues, the  *)
(* pools' queues (QUEUES of app/queue.py) and who takes a job from which.  *)
(*                                                                         *)
(* A job's key, in-progress key and try counter are global, as JobQueue    *)
(* has them; beside them each pool's queue is a set of ids, and an id may  *)
(* be in the queue of one pool, of both, or be left there without a job.   *)
(* What a handler does to its row is any move SandboxLifecycle allows.     *)
(***************************************************************************)
EXTENDS SandboxApi

CONSTANTS
  Bucket,     \* Bucket[s]: crc32 of the id of s, modulo 100
  Weight,     \* the weights that PUT /rollout is called with
  NoWeight    \* "this request has not read the weight"

ASSUME RolloutAssumption ==
  /\ Bucket \in [Sandbox -> 0 .. 99]
  /\ Weight \subseteq 0 .. 100
  /\ 0 \in Weight
  /\ NoWeight \notin 0 .. 100

VARIABLES
  weight,      \* the canary weight; 0 as well while Redis has no such key
  seen,        \* seen[r]: the weight request r routes by
  deployment,  \* deployment[s]: the row's pool
  entry,       \* entry[p]: ids in the queue of pool p
  running,     \* running[p]: jobs whose handlers run in pool p
  up,          \* the pools whose worker is up
  fate         \* fate[j]: what became of j, a member of Fate

poolVars == <<entry, running, up, fate>>

rolloutVars == <<weight, seen, deployment, poolVars>>

Pool == {"stable", "canary"}

\* Nothing yet; a handler ran to its end, whatever it returned or raised; its
\* last try died with its pool, so that no pool will call the handler again.
Fate == {"open", "ended", "cut"}

Lifecycle == INSTANCE SandboxLifecycle WITH status <- status

RolloutTypeOK ==
  /\ StoreTypeOK /\ QueueTypeOK /\ ApiTypeOK
  /\ weight \in Weight
  /\ seen \in [Request -> Weight \cup {NoWeight}]
  /\ deployment \in [Sandbox -> Pool]
  /\ entry \in [Pool -> SUBSET Job]
  /\ running \in [Pool -> SUBSET Job]
  /\ up \subseteq Pool
  /\ fate \in [Job -> Fate]

RolloutInit ==
  /\ StoreInit /\ QueueInit /\ ApiInit
  /\ weight = 0
  /\ seen = [r \in Request |-> NoWeight]
  /\ deployment = [s \in Sandbox |-> "stable"]
  /\ entry = [p \in Pool |-> {}]
  /\ running = [p \in Pool |-> {}]
  /\ up = Pool
  /\ fate = [j \in Job |-> "open"]

-----------------------------------------------------------------------------
(* Weight and routing *)

\* MUTANT of Route: <= for <.
RouteInclusive(s, w) == IF Bucket[s] <= w THEN "canary" ELSE "stable"

Route(s, w) == IF Bucket[s] < w THEN "canary" ELSE "stable"

\* set_weight.  A call that raised has set it or has not.
SetWeight(w) ==
  /\ weight' = w
  /\ UNCHANGED <<seen, deployment, poolVars>>

\* pick_deployment's read; a weight that cannot be read counts as 0.
ReadWeight(r) ==
  /\ call[r] \in {"insert", "enqueueStop"}
  /\ seen[r] = NoWeight
  /\ \E w \in {weight, 0} : seen' = [seen EXCEPT ![r] = w]
  /\ UNCHANGED <<weight, deployment, poolVars, storeVars, queueVars, apiVars>>

\* A request that is answered forgets the weight it read.
Forget(r) ==
  seen' = [seen EXCEPT ![r] = IF call'[r] = "idle" THEN NoWeight ELSE @]

\* enqueue_job writes the job key and the queue's entry together, or neither.
EntryMade(p, j) ==
  IF j \in jobs' \ jobs
  THEN /\ entry' = [entry EXCEPT ![p] = @ \cup {j}]
       /\ fate' = [fate EXCEPT ![j] = "open"]
  ELSE UNCHANGED <<entry, fate>>

\* A start job goes where the row says, a stop job by the weight just read.
PoolOf(r) ==
  IF call[r] = "enqueue" THEN deployment[target[r]] ELSE Route(target[r], seen[r])

JobOf(r) ==
  IF call[r] = "enqueue" THEN StartJob(target[r]) ELSE StopJob(target[r])

RoutedInsert(r, s) ==
  /\ seen[r] # NoWeight
  /\ PostInsert(r, s)
  /\ deployment' = [deployment EXCEPT ![s] = Route(s, seen[r])]
  /\ UNCHANGED <<weight, seen, poolVars>>

RoutedEnqueue(r) ==
  /\ \/ PostEnqueue(r) \/ PostEnqueueFails(r)
     \/ seen[r] # NoWeight /\ (DeleteEnqueue(r) \/ DeleteEnqueueFails(r))
  /\ EntryMade(PoolOf(r), JobOf(r))
  /\ Forget(r)
  /\ UNCHANGED <<weight, deployment, running, up>>

\* The steps of a request that neither route nor enqueue.
Unrouted(r) ==
  /\ \/ \E k \in Key \cup {NoKey} : PostLookup(r, k)
     \/ PostCount(r)
     \/ seen[r] # NoWeight /\ PostConflict(r)
     \/ PostMarkFailed(r)
     \/ \E s \in Sandbox : DeleteRead(r, s)
     \/ DeleteMark(r)
     \/ DeleteRecheck(r)
     \/ CallCrash(r)
  /\ Forget(r)
  /\ UNCHANGED <<weight, deployment, poolVars>>

RequestStep(r) ==
  \/ ReadWeight(r)
  \/ \E s \in Sandbox : RoutedInsert(r, s)
  \/ RoutedEnqueue(r)
  \/ Unrouted(r)

-----------------------------------------------------------------------------
(* The pools *)

WorkersOnly == UNCHANGED <<weight, seen, deployment, storeVars, apiVars>>

\* A worker takes an id from its pool's queue; the entry stays there.
Take(p, j) ==
  /\ p \in up
  /\ j \in entry[p]
  /\ PickUp(j)
  /\ running' = [running EXCEPT ![p] = @ \cup {j}]
  /\ UNCHANGED <<entry, up, fate>>
  /\ WorkersOnly

\* The handler returned: its job is gone, and its entry in the queue of the
\* pool that ran it.
Finish(p, j) ==
  /\ j \in running[p]
  /\ FinishJob(j)
  /\ entry' = [entry EXCEPT ![p] = @ \ {j}]
  /\ running' = [running EXCEPT ![p] = @ \ {j}]
  /\ fate' = [fate EXCEPT ![j] = "ended"]
  /\ UNCHANGED up
  /\ WorkersOnly

\* The id is scored anew in the queue of the pool that ran it, also if it has
\* been moved out of that queue meanwhile.
ScoredAnew(p, j) ==
  /\ RequeueJob(j)
  /\ entry' = [entry EXCEPT ![p] = @ \cup {j}]
  /\ running' = [running EXCEPT ![p] = @ \ {j}]
  /\ UNCHANGED <<up, fate>>
  /\ WorkersOnly

\* MUTANT of Retry: <= for <, so that the last try raises Retry as well.
RetryOnLast(p, j) ==
  /\ j \in running[p]
  /\ tries[j] <= MaxTries
  /\ ScoredAnew(p, j)

\* The handler raised Retry: before its last try only.
Retry(p, j) ==
  /\ j \in running[p]
  /\ tries[j] < MaxTries
  /\ ScoredAnew(p, j)

\* An id that was tried too often, or whose job has been done by the other
\* pool, is thrown out.
Discarded(p, j) ==
  /\ p \in up
  /\ j \in entry[p] \ busy
  /\ j \in jobs => tries[j] = MaxTries
  /\ FinishJob(j)
  /\ entry' = [entry EXCEPT ![p] = @ \ {j}]
  /\ UNCHANGED <<running, up, fate>>
  /\ WorkersOnly

\* A pool's worker dies; the in-progress keys of its jobs stay a while, and the
\* try it was at is counted.
PoolDies(p) ==
  /\ p \in up
  /\ up' = up \ {p}
  /\ running' = [running EXCEPT ![p] = {}]
  /\ fate' = [j \in Job |-> IF j \in running[p] /\ tries[j] = MaxTries
                            THEN "cut" ELSE fate[j]]
  /\ UNCHANGED <<entry, queueVars>>
  /\ WorkersOnly

PoolRestarts(p) ==
  /\ p \notin up
  /\ up' = up \cup {p}
  /\ UNCHANGED <<entry, running, fate, queueVars>>
  /\ WorkersOnly

\* MUTANT of InProgressExpires: the marker may expire under a running handler.
InProgressExpiresEarly(j) ==
  /\ j \in busy
  /\ busy' = busy \ {j}
  /\ UNCHANGED <<jobs, tries, poolVars>>
  /\ WorkersOnly

\* An in-progress key outlives every handler of its job.
InProgressExpires(j) ==
  /\ j \in busy
  /\ \A p \in Pool : j \notin running[p]
  /\ busy' = busy \ {j}
  /\ UNCHANGED <<jobs, tries, poolVars>>
  /\ WorkersOnly

\* A handler, or a sweep, moves the row.
RowMoves(s) ==
  /\ status[s] # "none"
  /\ \E new \in Lifecycle!Successors(status[s]) : status' = [status EXCEPT ![s] = new]
  /\ UNCHANGED <<key, age, queueVars, apiVars, rolloutVars>>

PoolStep(p, j) == Take(p, j) \/ Finish(p, j) \/ Discarded(p, j)

-----------------------------------------------------------------------------
\* MUTANT of MoveQueue: the destination is overwritten.
MoveQueueOverwrites ==
  /\ entry' = [stable |-> entry["canary"], canary |-> {}]
  /\ UNCHANGED <<running, up, fate, queueVars>>
  /\ WorkersOnly

\* The runbook's script: the canary's ids go to the stable queue, atomically.
MoveQueue ==
  /\ entry' = [stable |-> entry["stable"] \cup entry["canary"], canary |-> {}]
  /\ UNCHANGED <<running, up, fate, queueVars>>
  /\ WorkersOnly
=============================================================================

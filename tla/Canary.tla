------------------------------- MODULE Canary -------------------------------
(***************************************************************************)
(* A canary rollout as a whole: requests that are routed, pools that work  *)
(* and die, and the operator, who moves the weight and, paged by           *)
(* QueueNotDraining for the canary, follows docs/RUNBOOK.md.               *)
(***************************************************************************)
EXTENDS Rollout

CONSTANT MaxDeaths    \* bound on deaths of pools

ASSUME CanaryAssumption == MaxDeaths \in Nat

VARIABLES
  operator,    \* "idle", or "move": the weight is 0, the queue comes next
  deaths       \* how often a pool died

vars == <<storeVars, queueVars, apiVars, rolloutVars, operator, deaths>>

TypeOK ==
  /\ RolloutTypeOK
  /\ operator \in {"idle", "move"}
  /\ deaths \in Nat

Init ==
  /\ RolloutInit
  /\ operator = "idle"
  /\ deaths = 0

-----------------------------------------------------------------------------
NobodyDies == UNCHANGED <<operator, deaths>>

RequestActs(r) == RequestStep(r) /\ NobodyDies

PoolWorks(p, j) == PoolStep(p, j) /\ NobodyDies

PoolRetries(p, j) == Retry(p, j) /\ NobodyDies

PoolFails(p) ==
  /\ PoolDies(p)
  /\ deaths < MaxDeaths
  /\ deaths' = deaths + 1
  /\ UNCHANGED operator

PoolReturns(p) == PoolRestarts(p) /\ NobodyDies

MarkerExpires(j) == InProgressExpires(j) /\ NobodyDies

RowChanges(s) == RowMoves(s) /\ NobodyDies

-----------------------------------------------------------------------------
\* QueueNotDraining for the canary: due jobs, and nobody to finish one.
Alert == entry["canary"] # {} /\ "canary" \notin up

\* Somebody sets the weight.
WeightSet ==
  /\ \E w \in Weight : SetWeight(w)
  /\ UNCHANGED <<storeVars, queueVars, apiVars>> /\ NobodyDies

\* The operator is paged and stops routing to the canary ...
RolledBack ==
  /\ operator = "idle"
  /\ Alert
  /\ SetWeight(0)
  /\ operator' = "move"
  /\ UNCHANGED <<storeVars, queueVars, apiVars, deaths>>

\* ... and then moves what it has queued.
QueueMoved ==
  /\ operator = "move"
  /\ MoveQueue
  /\ operator' = "idle"
  /\ UNCHANGED deaths

Next ==
  \/ \E r \in Request : RequestActs(r)
  \/ \E p \in Pool, j \in Job : PoolWorks(p, j) \/ PoolRetries(p, j)
  \/ \E p \in Pool : PoolFails(p) \/ PoolReturns(p)
  \/ \E j \in Job : MarkerExpires(j)
  \/ \E s \in Sandbox : RowChanges(s)
  \/ WeightSet
  \/ RolledBack
  \/ QueueMoved

Spec == Init /\ [][Next]_vars

\* Workers that are up take jobs and their handlers end, in-progress keys
\* expire, the stable worker is restarted and a page is answered.  Nobody need
\* restart the canary, and a launch need not fail.
Fairness ==
  /\ \A p \in Pool, j \in Job : WF_vars(PoolWorks(p, j))
  /\ \A j \in Job : WF_vars(MarkerExpires(j))
  /\ WF_vars(PoolReturns("stable"))
  /\ WF_vars(RolledBack)
  /\ WF_vars(QueueMoved)

FairSpec == Spec /\ Fairness

-----------------------------------------------------------------------------
\* No job is lost between the pools: moving a queue (docs/RUNBOOK.md) while
\* requests enqueue, handlers finish, raise Retry or die leaves every job in
\* the queue of a pool.
EveryJobHasAnEntry == \A j \in jobs : \E p \in Pool : j \in entry[p]

\* However often an id is moved, scored anew or enqueued again, so that both
\* queues hold it, its job is run by one pool at a time.
OnePoolRunsIt == running["stable"] \cap running["canary"] = {}

\* While the weight is 0 a job comes new to the canary's queue only if its
\* request read the weight before it was set: nothing else that a request does
\* later (the row's deployment, a failed read, a stop of a sandbox the canary
\* started) routes by an older weight.
AtZeroOnlyOvertaken ==
  [][\A j \in entry'["canary"] \ entry["canary"] :
       weight = 0 /\ j \notin jobs
         => \E r \in Request : seen[r] \notin {0, NoWeight} /\ JobOf(r) = j]_vars

\* The runbook's mitigation works but for one case: every job has its handler
\* run to its end, also a job routed to a canary that never comes back, one the
\* canary had retried or begun, and one routed to it while the operator was at
\* work.  The case is the job whose last try died with its pool: that one is
\* thrown out, and its handler is not called again.
JobsGetDone ==
  \A j \in Job : j \in jobs ~> \/ fate[j] = "ended"
                               \/ fate[j] = "cut" /\ j \notin jobs
=============================================================================

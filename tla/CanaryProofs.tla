---------------------------- MODULE CanaryProofs ----------------------------
(***************************************************************************)
(* Proofs about Canary for any number of sandboxes, requests and deaths,   *)
(* any weights and any buckets.                                            *)
(***************************************************************************)
EXTENDS Canary, TLAPS

-----------------------------------------------------------------------------
(* Routing *)

\* Raising the weight only ever moves sandboxes into the canary, never back
\* (app/rollout.py:3-6), at weight 0 nothing goes there, at 100 everything.
THEOREM RouteMonotone ==
  ASSUME NEW s \in Sandbox, NEW low \in 0 .. 100, NEW high \in 0 .. 100, low <= high
  PROVE  /\ Route(s, low) = "canary" => Route(s, high) = "canary"
         /\ Route(s, 0) = "stable"
         /\ Route(s, 100) = "canary"
BY RolloutAssumption DEF Route, RolloutAssumption

-----------------------------------------------------------------------------
(* Types *)

\* Where the row is written, by a request or by a worker.
LEMMA CanaryStoreTypes ==
  ASSUME StoreTypeOK, NEW s \in Sandbox,
         \/ /\ UNCHANGED <<key, age>>
            /\ \/ \E from \in SUBSET SandboxStatus, to \in SandboxStatus :
                    Transition(s, from, to)
               \/ MarkFailed(s)
               \/ \E new \in SandboxStatus : status' = [status EXCEPT ![s] = new]
         \/ \E k \in Key \cup {NoKey} : InsertRow(s, k) /\ UNCHANGED age
  PROVE  StoreTypeOK'
BY DEF StoreTypeOK, Transition, MarkFailed, InsertRow, SandboxStatus

\* What is enqueued, taken, finished, retried or dropped.
LEMMA CanaryQueueTypes ==
  ASSUME QueueTypeOK, NEW j \in Job,
         Enqueue(j) \/ EnqueueRaises(j) \/ PickUp(j) \/ FinishJob(j) \/ RequeueJob(j)
  PROVE  QueueTypeOK'
BY QueueAssumption DEF QueueTypeOK, Enqueue, EnqueueRaises, PickUp, FinishJob, RequeueJob

\* The answer to a request.
LEMMA CanaryAnswered ==
  ASSUME ApiTypeOK, NEW r \in Request, Answer(r)
  PROVE  ApiTypeOK' /\ call'[r] = "idle"
BY DEF ApiTypeOK, Answer, CallStep, NoTargetYet

\* A request that goes on.
LEMMA CanaryContinues ==
  ASSUME ApiTypeOK, NEW r \in Request, NEW step \in CallStep, Continue(r, step),
         call[r] \in NoTargetYet <=> step \in NoTargetYet
  PROVE  ApiTypeOK'
BY DEF ApiTypeOK, Continue

\* What a request is about to enqueue, and where it would go.
LEMMA CanaryRouted ==
  ASSUME TypeOK, NEW r \in Request, call[r] \in {"enqueue", "enqueueStop"}
  PROVE  /\ target[r] \in Sandbox
         /\ StartJob(target[r]) \in Job /\ StopJob(target[r]) \in Job
         /\ PoolOf(r) \in Pool /\ JobOf(r) \in Job
BY DEF TypeOK, RolloutTypeOK, ApiTypeOK, NoTargetYet, PoolOf, Route, Pool, JobOf, Job,
       StartJob, StopJob

\* The weight a request read is forgotten with its answer.
LEMMA CanaryForgets ==
  ASSUME TypeOK, NEW r \in Request, Forget(r)
  PROVE  seen' \in [Request -> Weight \cup {NoWeight}]
BY DEF TypeOK, RolloutTypeOK, Forget

\* What a request does between its reads and its writes keeps the types.
LEMMA CanaryUnroutedTypes ==
  ASSUME TypeOK, NEW r \in Request, Unrouted(r)
  PROVE  RolloutTypeOK'
<1> USE DEF TypeOK, RolloutTypeOK
<1>1. StoreTypeOK' /\ QueueTypeOK' /\ ApiTypeOK'
  <2>0. UNCHANGED storeVars => StoreTypeOK'
    BY DEF storeVars, StoreTypeOK
  <2>00. UNCHANGED queueVars => QueueTypeOK'
    BY DEF queueVars, QueueTypeOK
  <2>1. CASE \E k \in Key \cup {NoKey} : PostLookup(r, k)
    BY <2>0, <2>00, <2>1 DEF PostLookup, ApiTypeOK, CallStep, NoTargetYet
  <2>2. CASE PostCount(r)
    <3>1. ApiTypeOK'
      BY <2>2, CanaryAnswered, CanaryContinues DEF PostCount, CallStep, NoTargetYet
    <3>2. QED
      BY <2>0, <2>00, <2>2, <3>1 DEF PostCount
  <2>3. CASE PostConflict(r)
    BY <2>0, <2>00, <2>3, CanaryAnswered DEF PostConflict
  <2>4. CASE PostMarkFailed(r)
    <3>1. target[r] \in Sandbox
      BY <2>4 DEF PostMarkFailed, ApiTypeOK, NoTargetYet
    <3>2. StoreTypeOK'
      BY <2>4, <3>1, CanaryStoreTypes DEF PostMarkFailed
    <3>3. QED
      BY <2>00, <2>4, <3>2, CanaryAnswered DEF PostMarkFailed
  <2>5. CASE \E s \in Sandbox : DeleteRead(r, s)
    BY <2>0, <2>00, <2>5, StoreAssumption
       DEF DeleteRead, ApiTypeOK, CallStep, NoTargetYet, StoreAssumption
  <2>6. CASE DeleteMark(r)
    <3>1. target[r] \in Sandbox
      BY <2>6 DEF DeleteMark, ApiTypeOK, NoTargetYet
    <3>2. StoreTypeOK'
      BY <2>6, <3>1, CanaryStoreTypes DEF DeleteMark, Active, SandboxStatus
    <3>3. ApiTypeOK'
      BY <2>6, CanaryContinues DEF DeleteMark, CallStep, NoTargetYet
    <3>4. QED
      BY <2>00, <2>6, <3>2, <3>3 DEF DeleteMark
  <2>7. CASE DeleteRecheck(r)
    <3>1. ApiTypeOK'
      BY <2>7, CanaryAnswered, CanaryContinues DEF DeleteRecheck, CallStep, NoTargetYet
    <3>2. QED
      BY <2>0, <2>00, <2>7, <3>1 DEF DeleteRecheck
  <2>8. CASE CallCrash(r)
    BY <2>0, <2>00, <2>8, CanaryAnswered DEF CallCrash
  <2>9. QED
    BY <2>1, <2>2, <2>3, <2>4, <2>5, <2>6, <2>7, <2>8 DEF Unrouted
<1>2. seen' \in [Request -> Weight \cup {NoWeight}]
  BY CanaryForgets DEF Unrouted
<1>3. QED
  BY <1>1, <1>2 DEF Unrouted, poolVars

\* So do its read of the weight, its insert and its enqueue.
LEMMA CanaryRequestTypes ==
  ASSUME TypeOK, NEW r \in Request, RequestStep(r)
  PROVE  RolloutTypeOK'
<1> USE DEF TypeOK, RolloutTypeOK
<1>1. CASE ReadWeight(r)
  BY <1>1, RolloutAssumption
     DEF ReadWeight, RolloutAssumption, StoreTypeOK, QueueTypeOK, ApiTypeOK, storeVars,
         queueVars, apiVars, poolVars
<1>2. CASE \E s \in Sandbox : RoutedInsert(r, s)
  <2> PICK s \in Sandbox : RoutedInsert(r, s)
    BY <1>2
  <2>1. keyOf[r] \in Key \cup {NoKey}
    BY DEF ApiTypeOK
  <2>2. StoreTypeOK'
    BY <2>1, CanaryStoreTypes DEF RoutedInsert, PostInsert
  <2>3. ApiTypeOK'
    BY StoreAssumption
       DEF RoutedInsert, PostInsert, ApiTypeOK, CallStep, NoTargetYet, StoreAssumption
  <2>4. QueueTypeOK'
    BY DEF RoutedInsert, PostInsert, QueueTypeOK, queueVars
  <2>5. deployment' \in [Sandbox -> Pool]
    BY DEF RoutedInsert, Route, Pool
  <2>6. QED
    BY <2>2, <2>3, <2>4, <2>5 DEF RoutedInsert, poolVars
<1>3. CASE RoutedEnqueue(r)
  <2>0. call[r] \in {"enqueue", "enqueueStop"}
    BY <1>3 DEF RoutedEnqueue, PostEnqueue, PostEnqueueFails, DeleteEnqueue, DeleteEnqueueFails
  <2>1. /\ target[r] \in Sandbox
        /\ StartJob(target[r]) \in Job /\ StopJob(target[r]) \in Job
        /\ PoolOf(r) \in Pool /\ JobOf(r) \in Job
    BY <2>0, CanaryRouted
  <2>2. StoreTypeOK'
    BY <1>3 DEF RoutedEnqueue, PostEnqueue, PostEnqueueFails, DeleteEnqueue,
                DeleteEnqueueFails, StoreTypeOK, storeVars
  <2>3. QueueTypeOK'
    BY <1>3, <2>1, CanaryQueueTypes
       DEF RoutedEnqueue, PostEnqueue, PostEnqueueFails, DeleteEnqueue, DeleteEnqueueFails
  <2>4. ApiTypeOK'
    BY <1>3, CanaryAnswered, CanaryContinues
       DEF RoutedEnqueue, PostEnqueue, PostEnqueueFails, DeleteEnqueue, DeleteEnqueueFails,
           CallStep, NoTargetYet
  <2>5. entry' \in [Pool -> SUBSET Job] /\ fate' \in [Job -> Fate]
    BY <1>3, <2>1 DEF RoutedEnqueue, EntryMade, Fate
  <2>6. seen' \in [Request -> Weight \cup {NoWeight}]
    BY <1>3, CanaryForgets DEF RoutedEnqueue
  <2>7. QED
    BY <1>3, <2>2, <2>3, <2>4, <2>5, <2>6 DEF RoutedEnqueue
<1>4. CASE Unrouted(r)
  BY <1>4, CanaryUnroutedTypes
<1>5. QED
  BY <1>1, <1>2, <1>3, <1>4 DEF RequestStep

\* What is left alone while the pools are at work.
LEMMA CanaryWorkersOnly ==
  ASSUME TypeOK, WorkersOnly
  PROVE  StoreTypeOK' /\ ApiTypeOK' /\ weight' \in Weight
         /\ seen' \in [Request -> Weight \cup {NoWeight}] /\ deployment' \in [Sandbox -> Pool]
BY DEF TypeOK, RolloutTypeOK, WorkersOnly, StoreTypeOK, ApiTypeOK, storeVars, apiVars

\* The pools, the markers and the move of a queue.
LEMMA CanaryPoolTypes ==
  ASSUME TypeOK,
         \/ \E p \in Pool, j \in Job : PoolStep(p, j) \/ Retry(p, j)
         \/ \E p \in Pool : PoolDies(p) \/ PoolRestarts(p)
         \/ \E j \in Job : InProgressExpires(j)
         \/ MoveQueue
  PROVE  RolloutTypeOK'
<1> USE DEF TypeOK, RolloutTypeOK
<1>1. ASSUME NEW p \in Pool, NEW j \in Job, PoolStep(p, j) \/ Retry(p, j)
      PROVE  RolloutTypeOK'
  <2>1. WorkersOnly
    BY <1>1 DEF PoolStep, Take, Finish, Retry, ScoredAnew, Discarded
  <2>2. QueueTypeOK'
    BY <1>1, CanaryQueueTypes DEF PoolStep, Take, Finish, Retry, ScoredAnew, Discarded
  <2>3. /\ entry' \in [Pool -> SUBSET Job] /\ running' \in [Pool -> SUBSET Job]
        /\ up' \subseteq Pool /\ fate' \in [Job -> Fate]
    BY <1>1 DEF PoolStep, Take, Finish, Retry, ScoredAnew, Discarded, Fate
  <2>4. QED
    BY <2>1, <2>2, <2>3, CanaryWorkersOnly
<1>2. ASSUME NEW p \in Pool, PoolDies(p) \/ PoolRestarts(p)
      PROVE  RolloutTypeOK'
  <2>1. WorkersOnly /\ QueueTypeOK'
    BY <1>2 DEF PoolDies, PoolRestarts, QueueTypeOK, queueVars
  <2>2. /\ entry' \in [Pool -> SUBSET Job] /\ running' \in [Pool -> SUBSET Job]
        /\ up' \subseteq Pool /\ fate' \in [Job -> Fate]
    BY <1>2 DEF PoolDies, PoolRestarts, Fate
  <2>3. QED
    BY <2>1, <2>2, CanaryWorkersOnly
<1>3. ASSUME NEW j \in Job, InProgressExpires(j)
      PROVE  RolloutTypeOK'
  BY <1>3, CanaryWorkersOnly DEF InProgressExpires, QueueTypeOK, poolVars
<1>4. ASSUME MoveQueue
      PROVE  RolloutTypeOK'
  <2>1. entry' \in [Pool -> SUBSET Job]
    BY <1>4 DEF MoveQueue, Pool
  <2>2. QED
    BY <1>4, <2>1, CanaryWorkersOnly DEF MoveQueue, QueueTypeOK, queueVars
<1>5. QED
  BY <1>1, <1>2, <1>3, <1>4

\* A row moves.
LEMMA CanaryRowTypes ==
  ASSUME TypeOK, NEW s \in Sandbox, RowMoves(s)
  PROVE  RolloutTypeOK'
<1>1. Lifecycle!Successors(status[s]) \subseteq SandboxStatus
  BY DEF RowMoves, TypeOK, RolloutTypeOK, StoreTypeOK, Lifecycle!Successors, SandboxStatus
<1>2. StoreTypeOK'
  BY <1>1, CanaryStoreTypes DEF RowMoves, TypeOK, RolloutTypeOK
<1>3. QED
  BY <1>2 DEF RowMoves, TypeOK, RolloutTypeOK, QueueTypeOK, ApiTypeOK, queueVars, apiVars,
              rolloutVars, poolVars

\* Somebody sets the weight.
LEMMA CanaryWeightTypes ==
  ASSUME TypeOK, NEW w \in Weight, SetWeight(w), UNCHANGED <<storeVars, queueVars, apiVars>>
  PROVE  RolloutTypeOK'
BY DEF TypeOK, RolloutTypeOK, SetWeight, StoreTypeOK, QueueTypeOK, ApiTypeOK, storeVars,
       queueVars, apiVars, poolVars

\* Everything stays.
LEMMA CanaryStutterTypes ==
  ASSUME TypeOK, UNCHANGED vars
  PROVE  TypeOK'
BY DEF TypeOK, RolloutTypeOK, StoreTypeOK, QueueTypeOK, ApiTypeOK, vars, storeVars, queueVars,
       apiVars, rolloutVars, poolVars

LEMMA CanaryTypeInit == Init => TypeOK
BY StoreAssumption, QueueAssumption, RolloutAssumption
   DEF Init, RolloutInit, StoreInit, QueueInit, ApiInit, TypeOK, RolloutTypeOK, StoreTypeOK,
       QueueTypeOK, ApiTypeOK, SandboxStatus, Age, CallStep, NoTargetYet, Pool, Fate,
       StoreAssumption, QueueAssumption, RolloutAssumption

LEMMA CanaryTypeStep == TypeOK /\ [Next]_vars => TypeOK'
<1> SUFFICES ASSUME TypeOK, [Next]_vars PROVE TypeOK'
  OBVIOUS
<1>0. UNCHANGED <<operator, deaths>> /\ RolloutTypeOK' => TypeOK'
  BY DEF TypeOK
<1>1. ASSUME NEW r \in Request, RequestActs(r) PROVE TypeOK'
  BY <1>0, <1>1, CanaryRequestTypes DEF RequestActs, NobodyDies
<1>2. ASSUME NEW p \in Pool, NEW j \in Job, PoolWorks(p, j) \/ PoolRetries(p, j) PROVE TypeOK'
  BY <1>0, <1>2, CanaryPoolTypes DEF PoolWorks, PoolRetries, NobodyDies
<1>3. ASSUME NEW p \in Pool, PoolFails(p) PROVE TypeOK'
  BY <1>3, CanaryPoolTypes DEF PoolFails, TypeOK
<1>4. ASSUME NEW p \in Pool, PoolReturns(p) PROVE TypeOK'
  BY <1>0, <1>4, CanaryPoolTypes DEF PoolReturns, NobodyDies
<1>5. ASSUME NEW j \in Job, MarkerExpires(j) PROVE TypeOK'
  BY <1>0, <1>5, CanaryPoolTypes DEF MarkerExpires, NobodyDies
<1>6. ASSUME NEW s \in Sandbox, RowChanges(s) PROVE TypeOK'
  BY <1>0, <1>6, CanaryRowTypes DEF RowChanges, NobodyDies
<1>7. CASE WeightSet
  BY <1>0, <1>7, CanaryWeightTypes DEF WeightSet, NobodyDies
<1>8. CASE RolledBack
  <2>1. RolloutTypeOK'
    BY <1>8, CanaryWeightTypes, RolloutAssumption DEF RolledBack, RolloutAssumption
  <2>2. QED
    BY <1>8, <2>1 DEF RolledBack, TypeOK
<1>9. CASE QueueMoved
  BY <1>9, CanaryPoolTypes DEF QueueMoved, TypeOK
<1>10. QED
  BY <1>1, <1>2, <1>3, <1>4, <1>5, <1>6, <1>7, <1>8, <1>9, CanaryStutterTypes DEF Next

\* The state of Canary stays well typed.
THEOREM CanaryTypes == Spec => []TypeOK
BY CanaryTypeInit, CanaryTypeStep, PTL DEF Spec

-----------------------------------------------------------------------------
(* No job without an entry *)

LEMMA EntryInit == Init => EveryJobHasAnEntry
BY DEF Init, RolloutInit, QueueInit, EveryJobHasAnEntry

\* Requests write a job with its entry.
LEMMA RequestEntries ==
  ASSUME TypeOK, EveryJobHasAnEntry, NEW r \in Request, RequestStep(r)
  PROVE  EveryJobHasAnEntry'
<1> USE DEF EveryJobHasAnEntry
<1>1. CASE RoutedEnqueue(r)
  <2>1. PoolOf(r) \in Pool /\ entry \in [Pool -> SUBSET Job]
    BY <1>1, CanaryRouted DEF RoutedEnqueue, PostEnqueue, PostEnqueueFails, DeleteEnqueue,
                              DeleteEnqueueFails, TypeOK, RolloutTypeOK
  <2>2. jobs' \subseteq jobs \cup {JobOf(r)}
    BY <1>1 DEF RoutedEnqueue, PostEnqueue, PostEnqueueFails, DeleteEnqueue,
                DeleteEnqueueFails, Enqueue, EnqueueRaises, JobOf
  <2>3. CASE JobOf(r) \in jobs' \ jobs
    <3>1. entry' = [entry EXCEPT ![PoolOf(r)] = @ \cup {JobOf(r)}]
      BY <1>1, <2>3 DEF RoutedEnqueue, EntryMade
    <3>2. \A j \in jobs : \E p \in Pool : j \in entry'[p]
      BY <2>1, <3>1
    <3>3. JobOf(r) \in entry'[PoolOf(r)]
      BY <2>1, <3>1
    <3>4. QED
      BY <2>1, <2>2, <3>2, <3>3
  <2>4. CASE JobOf(r) \notin jobs' \ jobs
    <3>1. entry' = entry /\ jobs' \subseteq jobs
      BY <1>1, <2>2, <2>4 DEF RoutedEnqueue, EntryMade
    <3>2. QED
      BY <3>1
  <2>5. QED
    BY <2>3, <2>4
<1>2. CASE ReadWeight(r)
  BY <1>2 DEF ReadWeight, poolVars, queueVars
<1>3. CASE \E s \in Sandbox : RoutedInsert(r, s)
  BY <1>3 DEF RoutedInsert, PostInsert, poolVars, queueVars
<1>4. CASE Unrouted(r)
  BY <1>4 DEF Unrouted, PostLookup, PostCount, PostConflict, PostMarkFailed, DeleteRead,
              DeleteMark, DeleteRecheck, CallCrash, poolVars, queueVars
<1>5. QED
  BY <1>1, <1>2, <1>3, <1>4 DEF RequestStep

\* A pool gives up an entry with its job only.
LEMMA PoolEntries ==
  ASSUME TypeOK, EveryJobHasAnEntry, NEW p \in Pool, NEW j \in Job, PoolStep(p, j) \/ Retry(p, j)
  PROVE  EveryJobHasAnEntry'
<1> USE DEF EveryJobHasAnEntry, TypeOK, RolloutTypeOK
<1>1. CASE Take(p, j)
  BY <1>1 DEF Take, PickUp
<1>2. CASE Finish(p, j) \/ Discarded(p, j)
  <2>1. jobs' = jobs \ {j} /\ entry' = [entry EXCEPT ![p] = @ \ {j}]
    BY <1>2 DEF Finish, Discarded, FinishJob
  <2>2. QED
    BY <2>1
<1>3. CASE Retry(p, j)
  <2>1. jobs' = jobs /\ entry' = [entry EXCEPT ![p] = @ \cup {j}]
    BY <1>3 DEF Retry, ScoredAnew, RequeueJob
  <2>2. QED
    BY <2>1
<1>4. QED
  BY <1>1, <1>2, <1>3 DEF PoolStep

LEMMA EntryStep == TypeOK /\ EveryJobHasAnEntry /\ [Next]_vars => EveryJobHasAnEntry'
<1> SUFFICES ASSUME TypeOK, EveryJobHasAnEntry, [Next]_vars PROVE EveryJobHasAnEntry'
  OBVIOUS
<1>1. ASSUME NEW r \in Request, RequestActs(r) PROVE EveryJobHasAnEntry'
  BY <1>1, RequestEntries DEF RequestActs
<1>2. ASSUME NEW p \in Pool, NEW j \in Job, PoolWorks(p, j) \/ PoolRetries(p, j)
      PROVE  EveryJobHasAnEntry'
  BY <1>2, PoolEntries DEF PoolWorks, PoolRetries
<1>3. CASE QueueMoved
  <2>1. /\ jobs' = jobs
        /\ entry' = [stable |-> entry["stable"] \cup entry["canary"], canary |-> {}]
    BY <1>3 DEF QueueMoved, MoveQueue, queueVars
  <2>2. \A j \in jobs : j \in entry'["stable"]
    BY <2>1 DEF EveryJobHasAnEntry, Pool
  <2>3. QED
    BY <2>1, <2>2 DEF EveryJobHasAnEntry, Pool
<1>4. CASE \/ \E p \in Pool : PoolFails(p) \/ PoolReturns(p)
           \/ \E j \in Job : MarkerExpires(j)
           \/ \E s \in Sandbox : RowChanges(s)
           \/ WeightSet \/ RolledBack \/ UNCHANGED vars
  <2>1. UNCHANGED <<jobs, entry>>
    BY <1>4 DEF PoolFails, PoolDies, PoolReturns, PoolRestarts, MarkerExpires,
                InProgressExpires, RowChanges, RowMoves, WeightSet, RolledBack, SetWeight, vars,
                queueVars, rolloutVars, poolVars
  <2>2. QED
    BY <2>1 DEF EveryJobHasAnEntry
<1>5. QED
  BY <1>1, <1>2, <1>3, <1>4 DEF Next

\* Moving a queue (docs/RUNBOOK.md:76) loses no job, whatever requests and
\* pools do at the same time.
THEOREM JobsKeepTheirEntry == Spec => []EveryJobHasAnEntry
<1>1. TypeOK /\ EveryJobHasAnEntry /\ [Next]_vars => (TypeOK /\ EveryJobHasAnEntry)'
  BY CanaryTypeStep, EntryStep
<1>2. Init => TypeOK /\ EveryJobHasAnEntry
  BY CanaryTypeInit, EntryInit
<1>3. QED
  BY <1>1, <1>2, PTL DEF Spec

-----------------------------------------------------------------------------
(* Nothing new for the canary at weight 0 *)

\* A request about to enqueue a start has written the pool it chose by the
\* weight it read, and that row is there to stay.
StartsAreRouted ==
  \A r \in Request :
    call[r] = "enqueue" =>
      /\ status[target[r]] # "none"
      /\ seen[r] # NoWeight
      /\ deployment[target[r]] = Route(target[r], seen[r])

\* A job is run by one pool at a time, and while it runs it keeps its keys: so
\* a Retry only ever puts back a job that exists.
RunningIsClaimed ==
  /\ \A p \in Pool : running[p] \subseteq jobs \cap busy
  /\ \A p, q \in Pool : p # q => running[p] \cap running[q] = {}

CanaryInv == TypeOK /\ StartsAreRouted /\ RunningIsClaimed

\* What any step does to rows: they stay, in the pool they were given.
RowsStay ==
  \A s \in Sandbox :
    status[s] # "none" => status'[s] # "none" /\ deployment'[s] = deployment[s]

\* What a step of r does to the other requests.
OnlyRequest(r) ==
  \A q \in Request \ {r} : call'[q] = call[q] /\ target'[q] = target[q] /\ seen'[q] = seen[q]

LEMMA RoutedInit == Init => StartsAreRouted /\ RunningIsClaimed
BY DEF Init, RolloutInit, ApiInit, StartsAreRouted, RunningIsClaimed

\* A request's step is its own, and deletes or re-routes no row.
LEMMA RequestFrame ==
  ASSUME TypeOK, NEW r \in Request, RequestStep(r)
  PROVE  OnlyRequest(r) /\ RowsStay
<1> USE DEF OnlyRequest, RowsStay, TypeOK, RolloutTypeOK, StoreTypeOK, ApiTypeOK
<1>1. CASE ReadWeight(r)
  BY <1>1 DEF ReadWeight, storeVars, apiVars
<1>2. CASE \E s \in Sandbox : RoutedInsert(r, s)
  BY <1>2 DEF RoutedInsert, PostInsert, InsertRow
<1>3. CASE RoutedEnqueue(r)
  BY <1>3 DEF RoutedEnqueue, PostEnqueue, PostEnqueueFails, DeleteEnqueue,
              DeleteEnqueueFails, Answer, Continue, Forget, storeVars
<1>4. CASE Unrouted(r)
  <2>1. OnlyRequest(r)
    BY <1>4 DEF Unrouted, Forget, PostLookup, PostCount, PostConflict, PostMarkFailed,
                DeleteRead, DeleteMark, DeleteRecheck, CallCrash, Answer, Continue
  <2>2. status' = status \/ \E s \in Sandbox, new \in SandboxStatus : status' = [status EXCEPT ![s] = new]
    <3>1. CASE PostMarkFailed(r)
      BY <3>1 DEF PostMarkFailed, MarkFailed, NoTargetYet, SandboxStatus
    <3>2. CASE DeleteMark(r)
      <4>1. target[r] \in Sandbox
        BY <3>2 DEF DeleteMark, NoTargetYet
      <4>2. status' = status \/ status' = [status EXCEPT ![target[r]] = "stopping"]
        BY <3>2 DEF DeleteMark, Transition
      <4>3. QED
        BY <4>1, <4>2 DEF SandboxStatus
    <3>3. CASE ~PostMarkFailed(r) /\ ~DeleteMark(r)
      BY <1>4, <3>3 DEF Unrouted, PostLookup, PostCount, PostConflict, DeleteRead,
                        DeleteRecheck, CallCrash, storeVars
    <3>4. QED
      BY <3>1, <3>2, <3>3
  <2>3. RowsStay
    BY <1>4, <2>2 DEF Unrouted, SandboxStatus
  <2>4. QED
    BY <2>1, <2>3
<1>5. QED
  BY <1>1, <1>2, <1>3, <1>4 DEF RequestStep

\* Only its insert brings a request to its enqueue, with the route it chose.
LEMMA RequestRoutes ==
  ASSUME TypeOK, StartsAreRouted, NEW r \in Request, RequestStep(r), call'[r] = "enqueue"
  PROVE  /\ target'[r] \in Sandbox
         /\ status'[target'[r]] # "none"
         /\ seen'[r] # NoWeight
         /\ deployment'[target'[r]] = Route(target'[r], seen'[r])
<1> USE DEF TypeOK, RolloutTypeOK, StoreTypeOK, ApiTypeOK
<1>1. CASE \E s \in Sandbox : RoutedInsert(r, s)
  BY <1>1 DEF RoutedInsert, PostInsert, InsertRow, Route
<1>2. CASE ReadWeight(r)
  BY <1>2 DEF ReadWeight, apiVars
<1>3. CASE RoutedEnqueue(r)
  BY <1>3 DEF RoutedEnqueue, PostEnqueue, PostEnqueueFails, DeleteEnqueue,
              DeleteEnqueueFails, Answer, Continue
<1>4. CASE Unrouted(r)
  BY <1>4 DEF Unrouted, PostLookup, PostCount, PostConflict, PostMarkFailed,
              DeleteRead, DeleteMark, DeleteRecheck, CallCrash, Answer, Continue
<1>5. QED
  BY <1>1, <1>2, <1>3, <1>4 DEF RequestStep

\* Whatever a step does to rows and requests, routes are kept.
LEMMA RoutesKept ==
  ASSUME TypeOK, StartsAreRouted, RowsStay,
         \/ UNCHANGED <<call, target, seen>>
         \/ \E r \in Request : RequestStep(r) /\ OnlyRequest(r)
  PROVE  StartsAreRouted'
<1>1. ASSUME NEW q \in Request, call'[q] = "enqueue",
             call'[q] = call[q], target'[q] = target[q], seen'[q] = seen[q]
      PROVE  /\ status'[target'[q]] # "none"
             /\ seen'[q] # NoWeight
             /\ deployment'[target'[q]] = Route(target'[q], seen'[q])
  <2>1. target[q] \in Sandbox
    BY <1>1 DEF TypeOK, RolloutTypeOK, ApiTypeOK, NoTargetYet
  <2>2. QED
    BY <1>1, <2>1 DEF StartsAreRouted, RowsStay, Route
<1>2. CASE UNCHANGED <<call, target, seen>>
  BY <1>1, <1>2 DEF StartsAreRouted, Route
<1>3. CASE \E r \in Request : RequestStep(r) /\ OnlyRequest(r)
  <2> PICK r \in Request : RequestStep(r) /\ OnlyRequest(r)
    BY <1>3
  <2>1. \A q \in Request : call'[q] = "enqueue" =>
          /\ status'[target'[q]] # "none"
          /\ seen'[q] # NoWeight
          /\ deployment'[target'[q]] = Route(target'[q], seen'[q])
    BY <1>1, RequestRoutes DEF OnlyRequest
  <2>2. QED
    BY <2>1 DEF StartsAreRouted, Route
<1>4. QED
  BY <1>2, <1>3

\* Requests start nothing and free no key.
LEMMA RequestsRunNothing ==
  ASSUME NEW r \in Request, RequestStep(r)
  PROVE  jobs \subseteq jobs' /\ busy' = busy /\ running' = running
<1>1. CASE RoutedEnqueue(r)
  BY <1>1 DEF RoutedEnqueue, PostEnqueue, PostEnqueueFails, DeleteEnqueue,
              DeleteEnqueueFails, Enqueue, EnqueueRaises
<1>2. CASE ~RoutedEnqueue(r)
  BY <1>2 DEF RequestStep, ReadWeight, RoutedInsert, PostInsert, Unrouted, PostLookup,
              PostCount, PostConflict, PostMarkFailed, DeleteRead, DeleteMark,
              DeleteRecheck, CallCrash, queueVars, poolVars
<1>3. QED
  BY <1>1, <1>2

\* A pool claims what it runs, and what it runs no longer it gives up.
LEMMA PoolClaims ==
  ASSUME TypeOK, RunningIsClaimed, NEW p \in Pool, NEW j \in Job, PoolStep(p, j) \/ Retry(p, j)
  PROVE  RunningIsClaimed'
<1> USE DEF RunningIsClaimed, TypeOK, RolloutTypeOK
<1>1. CASE Take(p, j)
  <2>1. /\ j \in jobs /\ j \notin busy
        /\ jobs' = jobs /\ busy' = busy \cup {j}
        /\ running' = [running EXCEPT ![p] = @ \cup {j}]
    BY <1>1 DEF Take, PickUp
  <2>2. QED
    BY <2>1
<1>2. CASE Finish(p, j)
  <2>1. /\ j \in running[p]
        /\ jobs' = jobs \ {j} /\ busy' = busy \ {j}
        /\ running' = [running EXCEPT ![p] = @ \ {j}]
    BY <1>2 DEF Finish, FinishJob
  <2>2. QED
    BY <2>1
<1>3. CASE Retry(p, j)
  <2>1. /\ j \in running[p]
        /\ jobs' = jobs /\ busy' = busy \ {j}
        /\ running' = [running EXCEPT ![p] = @ \ {j}]
    BY <1>3 DEF Retry, ScoredAnew, RequeueJob
  <2>2. QED
    BY <2>1
<1>4. CASE Discarded(p, j)
  <2>1. j \notin busy /\ jobs' = jobs \ {j} /\ busy' = busy \ {j} /\ running' = running
    BY <1>4 DEF Discarded, FinishJob
  <2>2. QED
    BY <2>1
<1>5. QED
  BY <1>1, <1>2, <1>3, <1>4 DEF PoolStep

LEMMA CanaryInvStep == CanaryInv /\ [Next]_vars => CanaryInv'
<1> SUFFICES ASSUME TypeOK, StartsAreRouted, RunningIsClaimed, [Next]_vars
             PROVE  StartsAreRouted' /\ RunningIsClaimed'
  BY CanaryTypeStep DEF CanaryInv
<1>0. UNCHANGED <<jobs, busy, running>> => RunningIsClaimed'
  BY DEF RunningIsClaimed
<1>00. UNCHANGED <<call, target, seen>> /\ RowsStay => StartsAreRouted'
  BY RoutesKept
<1>000. UNCHANGED <<status, deployment>> => RowsStay
  BY DEF RowsStay
<1>1. ASSUME NEW r \in Request, RequestActs(r) PROVE StartsAreRouted' /\ RunningIsClaimed'
  <2>1. OnlyRequest(r) /\ RowsStay
    BY <1>1, RequestFrame DEF RequestActs
  <2>2. jobs \subseteq jobs' /\ busy' = busy /\ running' = running
    BY <1>1, RequestsRunNothing DEF RequestActs
  <2>3. StartsAreRouted'
    BY <1>1, <2>1, RoutesKept DEF RequestActs
  <2>4. RunningIsClaimed'
    BY <2>2 DEF RunningIsClaimed
  <2>5. QED
    BY <2>3, <2>4
<1>2. ASSUME NEW p \in Pool, NEW j \in Job, PoolWorks(p, j) \/ PoolRetries(p, j)
      PROVE  StartsAreRouted' /\ RunningIsClaimed'
  <2>1. WorkersOnly
    BY <1>2 DEF PoolWorks, PoolRetries, PoolStep, Take, Finish, Retry, ScoredAnew, Discarded
  <2>2. RunningIsClaimed'
    BY <1>2, PoolClaims DEF PoolWorks, PoolRetries
  <2>3. QED
    BY <1>00, <1>000, <2>1, <2>2 DEF WorkersOnly, storeVars, apiVars
<1>3. ASSUME NEW p \in Pool, PoolFails(p) \/ PoolReturns(p)
      PROVE  StartsAreRouted' /\ RunningIsClaimed'
  <2>1. WorkersOnly /\ UNCHANGED queueVars
    BY <1>3 DEF PoolFails, PoolDies, PoolReturns, PoolRestarts
  <2>2. running' = running \/ running' = [running EXCEPT ![p] = {}]
    BY <1>3 DEF PoolFails, PoolDies, PoolReturns, PoolRestarts
  <2>3. RunningIsClaimed'
    BY <2>1, <2>2 DEF RunningIsClaimed, queueVars, TypeOK, RolloutTypeOK
  <2>4. QED
    BY <1>00, <1>000, <2>1, <2>3 DEF WorkersOnly, storeVars, apiVars
<1>4. ASSUME NEW j \in Job, MarkerExpires(j) PROVE StartsAreRouted' /\ RunningIsClaimed'
  <2>1. /\ WorkersOnly
        /\ jobs' = jobs /\ busy' = busy \ {j} /\ running' = running
        /\ \A p \in Pool : j \notin running[p]
    BY <1>4 DEF MarkerExpires, InProgressExpires, poolVars
  <2>2. RunningIsClaimed'
    BY <2>1 DEF RunningIsClaimed
  <2>3. QED
    BY <1>00, <1>000, <2>1, <2>2 DEF WorkersOnly, storeVars, apiVars
<1>5. ASSUME NEW s \in Sandbox, RowChanges(s) PROVE StartsAreRouted' /\ RunningIsClaimed'
  <2>1. /\ UNCHANGED <<call, target, seen, deployment, jobs, busy, running>>
        /\ \E new \in Lifecycle!Successors(status[s]) : status' = [status EXCEPT ![s] = new]
        /\ status[s] # "none"
    BY <1>5 DEF RowChanges, RowMoves, apiVars, rolloutVars, poolVars, queueVars
  <2>2. "none" \notin Lifecycle!Successors(status[s])
    BY DEF TypeOK, RolloutTypeOK, StoreTypeOK, SandboxStatus, Lifecycle!Successors
  <2>3. RowsStay
    BY <2>1, <2>2 DEF RowsStay, TypeOK, RolloutTypeOK, StoreTypeOK
  <2>4. QED
    BY <1>0, <1>00, <2>1, <2>3
<1>6. CASE WeightSet \/ RolledBack \/ QueueMoved \/ UNCHANGED vars
  <2>1. UNCHANGED <<call, target, seen, status, deployment, jobs, busy, running>>
    BY <1>6 DEF WeightSet, RolledBack, SetWeight, QueueMoved, MoveQueue, WorkersOnly, vars,
                storeVars, queueVars, apiVars, rolloutVars, poolVars
  <2>2. QED
    BY <1>0, <1>00, <1>000, <2>1
<1>7. QED
  BY <1>1, <1>2, <1>3, <1>4, <1>5, <1>6 DEF Next

\* The action of AtZeroOnlyOvertaken.
NewcomersOvertaken ==
  \A j \in entry'["canary"] \ entry["canary"] :
    weight = 0 /\ j \notin jobs
      => \E r \in Request : seen[r] \notin {0, NoWeight} /\ JobOf(r) = j

LEMMA CanaryNewcomers == CanaryInv /\ [Next]_vars => NewcomersOvertaken
<1> SUFFICES ASSUME TypeOK, StartsAreRouted, RunningIsClaimed, [Next]_vars,
                    NEW j \in entry'["canary"] \ entry["canary"], weight = 0, j \notin jobs
             PROVE  \E r \in Request : seen[r] \notin {0, NoWeight} /\ JobOf(r) = j
  BY DEF CanaryInv, NewcomersOvertaken
<1> USE DEF TypeOK, RolloutTypeOK
<1>0. "canary" \in Pool
  BY DEF Pool
<1>1. ASSUME NEW r \in Request, RequestActs(r)
      PROVE  seen[r] \notin {0, NoWeight} /\ JobOf(r) = j
  <2>1. RoutedEnqueue(r)
    BY <1>1 DEF RequestActs, RequestStep, ReadWeight, RoutedInsert, Unrouted, poolVars
  <2>2. call[r] \in {"enqueue", "enqueueStop"}
    BY <2>1 DEF RoutedEnqueue, PostEnqueue, PostEnqueueFails, DeleteEnqueue, DeleteEnqueueFails
  <2>3. target[r] \in Sandbox /\ PoolOf(r) \in Pool
    BY <2>2, CanaryRouted
  <2>4. entry' = [entry EXCEPT ![PoolOf(r)] = @ \cup {JobOf(r)}]
    BY <2>1 DEF RoutedEnqueue, EntryMade
  <2>5. PoolOf(r) = "canary" /\ JobOf(r) = j
    BY <1>0, <2>3, <2>4
  <2>6. seen[r] # NoWeight
    BY <2>1, <2>2 DEF StartsAreRouted, RoutedEnqueue, PostEnqueue, PostEnqueueFails,
                      DeleteEnqueue, DeleteEnqueueFails
  <2>7. Route(target[r], seen[r]) = "canary"
    BY <2>2, <2>5 DEF PoolOf, StartsAreRouted
  <2>8. seen[r] # 0
    BY <2>3, <2>7, RolloutAssumption DEF Route, RolloutAssumption
  <2>9. QED
    BY <2>5, <2>6, <2>8
<1>2. ASSUME NEW p \in Pool, NEW i \in Job, PoolWorks(p, i) \/ PoolRetries(p, i)
      PROVE  FALSE
  <2>1. Retry(p, i)
    BY <1>0, <1>2 DEF PoolWorks, PoolRetries, PoolStep, Take, Finish, Discarded
  <2>2. i \in jobs
    BY <2>1 DEF Retry, RunningIsClaimed
  <2>3. QED
    BY <1>0, <2>1, <2>2 DEF Retry, ScoredAnew
<1>3. ASSUME \/ \E p \in Pool : PoolFails(p) \/ PoolReturns(p)
             \/ \E i \in Job : MarkerExpires(i)
             \/ \E s \in Sandbox : RowChanges(s)
             \/ WeightSet \/ RolledBack \/ QueueMoved \/ UNCHANGED vars
      PROVE  FALSE
  BY <1>3 DEF PoolFails, PoolDies, PoolReturns, PoolRestarts, MarkerExpires, InProgressExpires,
              RowChanges, RowMoves, WeightSet, RolledBack, SetWeight, QueueMoved, MoveQueue,
              vars, rolloutVars, poolVars
<1>4. QED
  BY <1>1, <1>2, <1>3 DEF Next

\* At weight 0 only a request that read an earlier weight brings the canary a
\* job (app/rollout.py:45-55, app/routes/rollout.py:26-37).
THEOREM DrainedStaysDrained == Spec => AtZeroOnlyOvertaken
<1>1. Init => CanaryInv
  BY CanaryTypeInit, RoutedInit DEF CanaryInv
<1>2. CanaryInv /\ [Next]_vars => CanaryInv'
  BY CanaryInvStep
<1>3. CanaryInv /\ [Next]_vars => [NewcomersOvertaken]_vars
  BY CanaryNewcomers
<1>4. QED
  BY <1>1, <1>2, <1>3, PTL DEF Spec, AtZeroOnlyOvertaken, NewcomersOvertaken
-----------------------------------------------------------------------------
\* Whether its id is in the queue of one pool or of both, a job is run by one
\* at a time: what a pool runs has its in-progress key, which PickUp asks for
\* and which only the handler's end takes away (app/worker.py:343-347).
THEOREM OnePoolRuns == Spec => []OnePoolRunsIt
<1>1. Init => CanaryInv
  BY CanaryTypeInit, RoutedInit DEF CanaryInv
<1>2. CanaryInv /\ [Next]_vars => CanaryInv'
  BY CanaryInvStep
<1>3. CanaryInv => OnePoolRunsIt
  BY DEF CanaryInv, RunningIsClaimed, OnePoolRunsIt, Pool
<1>4. QED
  BY <1>1, <1>2, <1>3, PTL DEF Spec

-----------------------------------------------------------------------------
(* Nobody is thrown out but the cut *)

\* The tries of a job are used up only while it is run, or by its pool's death
\* in its last try; an id without a job has none counted.
TriesAreHeld ==
  /\ \A j \in jobs :
       tries[j] = MaxTries => fate[j] = "cut" \/ \E p \in Pool : j \in running[p]
  /\ \A j \in Job \ jobs : tries[j] = 0

LEMMA HeldInit == Init => TriesAreHeld
BY DEF Init, RolloutInit, QueueInit, TriesAreHeld

\* A job that comes new has all its tries before it.
LEMMA RequestHolds ==
  ASSUME TypeOK, TriesAreHeld, NEW r \in Request, RequestStep(r)
  PROVE  TriesAreHeld' /\ jobs \subseteq jobs'
<1>1. CASE RoutedEnqueue(r)
  <2>1. PoolOf(r) \in Pool /\ JobOf(r) \in Job
    BY <1>1, CanaryRouted DEF RoutedEnqueue, PostEnqueue, PostEnqueueFails, DeleteEnqueue,
                              DeleteEnqueueFails
  <2>2. jobs' \in {jobs, jobs \cup {JobOf(r)}} /\ UNCHANGED <<tries, running>>
    BY <1>1 DEF RoutedEnqueue, PostEnqueue, PostEnqueueFails, DeleteEnqueue,
                DeleteEnqueueFails, Enqueue, EnqueueRaises, JobOf
  <2>3. \A j \in jobs : fate'[j] = fate[j]
    <3>1. CASE JobOf(r) \in jobs' \ jobs
      BY <1>1, <2>1, <3>1 DEF RoutedEnqueue, EntryMade, TypeOK, RolloutTypeOK, QueueTypeOK
    <3>2. CASE JobOf(r) \notin jobs' \ jobs
      BY <1>1, <3>2 DEF RoutedEnqueue, EntryMade
    <3>3. QED
      BY <3>1, <3>2
  <2>4. \A j \in jobs' \ jobs : tries[j] = 0
    BY <2>1, <2>2 DEF TriesAreHeld
  <2>5. QED
    BY <2>2, <2>3, <2>4, QueueAssumption DEF TriesAreHeld, QueueAssumption
<1>2. CASE ~RoutedEnqueue(r)
  <2>1. UNCHANGED <<jobs, tries, running, fate>>
    BY <1>2 DEF RequestStep, ReadWeight, RoutedInsert, PostInsert, Unrouted, PostLookup,
                PostCount, PostConflict, PostMarkFailed, DeleteRead, DeleteMark,
                DeleteRecheck, CallCrash, queueVars, poolVars
  <2>2. QED
    BY <2>1 DEF TriesAreHeld
<1>3. QED
  BY <1>1, <1>2

\* A job leaves the pools ended, or cut.
LEMMA PoolHolds ==
  ASSUME TypeOK, RunningIsClaimed, TriesAreHeld,
         NEW p \in Pool, NEW j \in Job, PoolStep(p, j) \/ Retry(p, j)
  PROVE  TriesAreHeld' /\ \A i \in jobs \ jobs' : fate'[i] \in {"ended", "cut"}
<1> USE QueueAssumption DEF TypeOK, RolloutTypeOK, QueueTypeOK, TriesAreHeld, QueueAssumption
<1>1. CASE Take(p, j)
  <2>1. /\ j \in jobs /\ jobs' = jobs
        /\ tries' = [tries EXCEPT ![j] = @ + 1]
        /\ running' = [running EXCEPT ![p] = @ \cup {j}]
        /\ fate' = fate
    BY <1>1 DEF Take, PickUp
  <2>2. j \in running'[p]
    BY <2>1
  <2>3. QED
    BY <2>1, <2>2
<1>2. CASE Finish(p, j)
  <2>1. /\ jobs' = jobs \ {j}
        /\ tries' = [tries EXCEPT ![j] = 0]
        /\ running' = [running EXCEPT ![p] = @ \ {j}]
        /\ fate' = [fate EXCEPT ![j] = "ended"]
    BY <1>2 DEF Finish, FinishJob
  <2>2. QED
    BY <2>1
<1>3. CASE Retry(p, j)
  <2>1. /\ tries[j] < MaxTries /\ jobs' = jobs /\ UNCHANGED <<tries, fate>>
        /\ running' = [running EXCEPT ![p] = @ \ {j}]
    BY <1>3 DEF Retry, ScoredAnew, RequeueJob
  <2>2. tries[j] # MaxTries
    BY <2>1
  <2>3. QED
    BY <2>1, <2>2
<1>4. CASE Discarded(p, j)
  <2>1. /\ j \notin busy
        /\ j \in jobs => tries[j] = MaxTries
        /\ jobs' = jobs \ {j}
        /\ tries' = [tries EXCEPT ![j] = 0]
        /\ UNCHANGED <<running, fate>>
    BY <1>4 DEF Discarded, FinishJob
  <2>2. j \in jobs => fate[j] = "cut"
    BY <2>1 DEF RunningIsClaimed
  <2>3. QED
    BY <2>1, <2>2
<1>5. QED
  BY <1>1, <1>2, <1>3, <1>4 DEF PoolStep

\* Every job that leaves the queue does so ended, or cut.
LeavesEndedOrCut == \A j \in jobs \ jobs' : fate'[j] \in {"ended", "cut"}

LEMMA HeldStep ==
  CanaryInv /\ TriesAreHeld /\ [Next]_vars => TriesAreHeld' /\ LeavesEndedOrCut
<1> SUFFICES ASSUME TypeOK, RunningIsClaimed, TriesAreHeld, [Next]_vars
             PROVE  TriesAreHeld' /\ LeavesEndedOrCut
  BY DEF CanaryInv
<1>1. ASSUME NEW r \in Request, RequestActs(r) PROVE TriesAreHeld' /\ LeavesEndedOrCut
  BY <1>1, RequestHolds DEF RequestActs, LeavesEndedOrCut
<1>2. ASSUME NEW p \in Pool, NEW j \in Job, PoolWorks(p, j) \/ PoolRetries(p, j)
      PROVE  TriesAreHeld' /\ LeavesEndedOrCut
  BY <1>2, PoolHolds DEF PoolWorks, PoolRetries, LeavesEndedOrCut
<1>3. ASSUME NEW p \in Pool, PoolFails(p) PROVE TriesAreHeld' /\ LeavesEndedOrCut
  <2>1. /\ UNCHANGED <<jobs, tries>>
        /\ running' = [running EXCEPT ![p] = {}]
        /\ fate' = [j \in Job |-> IF j \in running[p] /\ tries[j] = MaxTries
                                  THEN "cut" ELSE fate[j]]
    BY <1>3 DEF PoolFails, PoolDies, queueVars
  <2>2. \A q \in Pool \ {p} : running'[q] = running[q]
    BY <2>1 DEF TypeOK, RolloutTypeOK
  <2>3. ASSUME NEW j \in jobs, tries[j] = MaxTries
        PROVE  fate'[j] = "cut" \/ \E q \in Pool : j \in running'[q]
    <3>1. j \in Job
      BY DEF TypeOK, RolloutTypeOK, QueueTypeOK
    <3>2. CASE j \in running[p]
      BY <2>1, <2>3, <3>1, <3>2
    <3>3. CASE j \notin running[p]
      BY <2>1, <2>2, <2>3, <3>1, <3>3 DEF TriesAreHeld
    <3>4. QED
      BY <3>2, <3>3
  <2>4. QED
    BY <2>1, <2>3 DEF TriesAreHeld, LeavesEndedOrCut
<1>4. CASE \/ \E p \in Pool : PoolReturns(p)
           \/ \E j \in Job : MarkerExpires(j)
           \/ \E s \in Sandbox : RowChanges(s)
           \/ WeightSet \/ RolledBack \/ QueueMoved \/ UNCHANGED vars
  <2>1. UNCHANGED <<jobs, tries, running, fate>>
    BY <1>4 DEF PoolReturns, PoolRestarts, MarkerExpires, InProgressExpires, RowChanges,
                RowMoves, WeightSet, RolledBack, SetWeight, QueueMoved, MoveQueue, vars,
                queueVars, rolloutVars, poolVars
  <2>2. QED
    BY <2>1 DEF TriesAreHeld, LeavesEndedOrCut
<1>5. QED
  BY <1>1, <1>2, <1>3, <1>4 DEF Next

\* A job leaves the queue only with a handler of it run to its end, or after
\* its last try died with its pool (docs/RUNBOOK.md:77): neither the move of a
\* queue, nor the other pool, nor a Retry (app/worker.py:148, 212) has it thrown
\* out with tries to spare, or un-run for any other reason.
THEOREM ThrownOutOnlyWhenCut == Spec => [][LeavesEndedOrCut]_vars
<1>1. Init => CanaryInv /\ TriesAreHeld
  BY CanaryTypeInit, RoutedInit, HeldInit DEF CanaryInv
<1>2. CanaryInv /\ TriesAreHeld /\ [Next]_vars => (CanaryInv /\ TriesAreHeld)'
  BY CanaryInvStep, HeldStep
<1>3. CanaryInv /\ TriesAreHeld /\ [Next]_vars => [LeavesEndedOrCut]_vars
  BY HeldStep
<1>4. QED
  BY <1>1, <1>2, <1>3, PTL DEF Spec
=============================================================================

------------------------- MODULE OrchestratorSteps --------------------------
(***************************************************************************)
(* What each actor of Orchestrator may do to the others, read off its      *)
(* actions once and for all: rows, jobs, containers and program counters.  *)
(* OrchestratorSafety needs to know nothing else about the actions.        *)
(***************************************************************************)
EXTENDS OrchestratorTypes

USE DEF NoFault, Fault, ApiAlone, WorkerAlone, ReaperAlone, RuntimeAlone

-----------------------------------------------------------------------------
(* What the operations do. *)

\* A compare-and-set touches one row, and only if it was in one of the statuses.
LEMMA RowSet ==
  ASSUME StoreTypeOK, NEW s \in Sandbox, NEW from, NEW to, Transition(s, from, to)
  PROVE  /\ \A t \in Sandbox \ {s} : status'[t] = status[t]
         /\ status[s] \in from => status'[s] = to
         /\ status[s] \notin from => status'[s] = status[s]
BY DEF StoreTypeOK, Transition

\* An enqueue adds its job or nothing, and the two kinds of job are apart.
LEMMA JobAdded ==
  ASSUME NEW s \in Sandbox, NEW j, j \in {StartJob(s), StopJob(s)},
         Enqueue(j) \/ EnqueueRaises(j)
  PROVE  /\ jobs \subseteq jobs'
         /\ jobs' \subseteq jobs \cup {j}
BY DEF Enqueue, EnqueueRaises

\* sandbox_job_id: the ids of distinct jobs differ.
LEMMA JobsApart ==
  /\ \A s, t : StartJob(s) = StartJob(t) => s = t
  /\ \A s, t : StopJob(s) = StopJob(t) => s = t
  /\ \A s, t : StartJob(s) # StopJob(t)
BY DEF StartJob, StopJob

\* All other operations on the queue add none.
LEMMA JobsKept ==
  ASSUME NEW j, PickUp(j) \/ FinishJob(j) \/ RequeueJob(j)
  PROVE  jobs' \subseteq jobs
BY DEF PickUp, FinishJob, RequeueJob

\* A request that is answered leaves no call under way.
LEMMA CallAnswered ==
  ASSUME ApiTypeOK, NEW r \in Request, Answer(r)
  PROVE  /\ \A q \in Request \ {r} : call'[q] = call[q] /\ target'[q] = target[q]
         /\ call'[r] = "idle"
BY DEF ApiTypeOK, Answer

\* A request that goes on moves its own program counter only.
LEMMA CallGoesOn ==
  ASSUME ApiTypeOK, NEW r \in Request, NEW step, Continue(r, step)
  PROVE  /\ \A q \in Request \ {r} : call'[q] = call[q] /\ target'[q] = target[q]
         /\ call'[r] = step /\ target'[r] = target[r]
BY DEF ApiTypeOK, Continue

\* A start handler that goes on moves its own program counter only.
LEMMA StarterAt ==
  ASSUME WorkerTypeOK, NEW s \in Sandbox, NEW step, StartAt(s, step)
  PROVE  /\ \A t \in Sandbox \ {s} : starter'[t] = starter[t]
         /\ starter'[s] = step
         /\ UNCHANGED <<stopper, attempt>>
BY DEF WorkerTypeOK, StartAt

\* A start handler that ends is idle, and no other moved.
LEMMA StarterOver ==
  ASSUME WorkerTypeOK, NEW s \in Sandbox, StarterEnds(s)
  PROVE  /\ \A t \in Sandbox \ {s} : starter'[t] = starter[t]
         /\ starter'[s] = "idle"
         /\ UNCHANGED stopper
BY DEF WorkerTypeOK, StarterEnds

\* A stop handler that goes on moves its own program counter only.
LEMMA StopperAt ==
  ASSUME WorkerTypeOK, NEW s \in Sandbox, NEW step, StopAt(s, step)
  PROVE  /\ \A t \in Sandbox \ {s} : stopper'[t] = stopper[t]
         /\ stopper'[s] = step
         /\ UNCHANGED <<starter, attempt>>
BY DEF WorkerTypeOK, StopAt

\* A stop handler that ends is idle, and no other moved.
LEMMA StopperOver ==
  ASSUME WorkerTypeOK, NEW s \in Sandbox, StopperEnds(s)
  PROVE  /\ \A t \in Sandbox \ {s} : stopper'[t] = stopper[t]
         /\ stopper'[s] = "idle"
         /\ UNCHANGED starter
BY DEF WorkerTypeOK, StopperEnds

\* Docker requests of one sandbox leave the other containers alone.
OneContainer(s) ==
  \A t \in Sandbox \ {s} : container'[t] = container[t] /\ (Pending(t)' <=> Pending(t))

\* A container that goes leaves the others alone.
LEMMA ContainerGone ==
  ASSUME RuntimeTypeOK, NEW s \in Sandbox, Gone(s), UNCHANGED forgotten
  PROVE  /\ OneContainer(s)
         /\ container'[s] = "absent"
         /\ Pending(s)' => Pending(s)
BY DEF RuntimeTypeOK, Gone, OneContainer, Pending

\* What rt.remove leaves: this container gone or doomed, the others as they were.
LEMMA ContainerRemoved ==
  ASSUME RuntimeTypeOK, NEW s \in Sandbox, Remove(s) \/ RemoveRaises(s)
  PROVE  /\ OneContainer(s)
         /\ container'[s] \in {container[s], "absent"}
         /\ Pending(s)' => Pending(s)
         /\ UNCHANGED <<lost, overtaken>>
BY ContainerGone
   DEF Remove, RemoveRaises, DeleteRaises, runtimeVars, OneContainer, Pending

\* A Docker call that only looks leaves every container alone.
LEMMA RuntimeKept ==
  ASSUME NEW s \in Sandbox, UNCHANGED runtimeVars
  PROVE  /\ OneContainer(s)
         /\ container'[s] = container[s] /\ (Pending(s)' <=> Pending(s))
         /\ UNCHANGED <<lost, overtaken>>
BY DEF runtimeVars, OneContainer, Pending

-----------------------------------------------------------------------------
(* Requests *)

\* A request adds rows, asks for stops and gives up on its own sandbox.
ApiRows(r) ==
  \A s \in Sandbox :
    \/ status'[s] = status[s]
    \/ status[s] = "none" /\ status'[s] = "queued" /\ s \notin Stray
    \/ status[s] \in Active /\ status'[s] = "stopping"
    \/ call[r] = "markFailed" /\ s = target[r] /\ status'[s] = "failed"

\* It enqueues jobs of its own sandbox.
ApiJobs(r) ==
  \A s \in Sandbox :
    /\ StartJob(s) \in jobs' =>
         StartJob(s) \in jobs \/ (call[r] = "enqueue" /\ s = target[r])
    /\ StopJob(s) \in jobs' =>
         StopJob(s) \in jobs \/ (call[r] = "enqueueStop" /\ s = target[r])

\* It comes by its sandbox when the row exists.
ApiCalls(r) ==
  /\ \A q \in Request \ {r} : call'[q] = call[q] /\ target'[q] = target[q]
  /\ call'[r] \notin NoTargetYet =>
       \/ status'[target'[r]] # "none"
       \/ call[r] \notin NoTargetYet /\ target'[r] = target[r]
  /\ call'[r] = "enqueueStop" =>
       status[target'[r]] = "stopping" /\ UNCHANGED status

ApiGuarantee(r) ==
  /\ UNCHANGED <<age, runtimeVars, workerVars, reaperVars>>
  /\ ApiRows(r)
  /\ ApiJobs(r)
  /\ ApiCalls(r)

\* A request's step that writes no row keeps to its guarantee on rows.
LEMMA ApiRowsKept == \A r : UNCHANGED status => ApiRows(r)
BY DEF ApiRows

\* A request's step that enqueues nothing keeps to its guarantee on jobs.
LEMMA ApiJobsKept == \A r : UNCHANGED jobs => ApiJobs(r)
BY DEF ApiJobs

\* A start job is enqueued by the POST of its sandbox only.
LEMMA ApiStartJob ==
  ASSUME TypeOK, NEW r \in Request, call[r] = "enqueue",
         Enqueue(StartJob(target[r])) \/ EnqueueRaises(StartJob(target[r]))
  PROVE  ApiJobs(r)
BY JobsApart DEF ApiJobs, Enqueue, EnqueueRaises

\* A stop job is enqueued by a DELETE of its sandbox only.
LEMMA ApiStopJob ==
  ASSUME TypeOK, NEW r \in Request, call[r] = "enqueueStop",
         Enqueue(StopJob(target[r])) \/ EnqueueRaises(StopJob(target[r]))
  PROVE  ApiJobs(r)
BY JobsApart DEF ApiJobs, Enqueue, EnqueueRaises

\* The answer to a request keeps to its guarantee on calls.
LEMMA ApiAnswered ==
  ASSUME TypeOK, NEW r \in Request, Answer(r)
  PROVE  ApiCalls(r)
BY CallAnswered DEF TypeOK, ApiCalls, NoTargetYet

\* A request that goes on within its call keeps to its guarantee on calls.
LEMMA ApiGoesOn ==
  ASSUME TypeOK, NEW r \in Request, NEW step, Continue(r, step),
         step \in NoTargetYet \/ call[r] \notin NoTargetYet,
         step = "enqueueStop" => status[target[r]] = "stopping" /\ UNCHANGED status
  PROVE  ApiCalls(r)
BY CallGoesOn DEF TypeOK, ApiCalls

\* The first statement of create_sandbox and of the API's stop_sandbox.
LEMMA NewCallGuarantee ==
  ASSUME TypeOK, NEW r \in Request, NewCall(r)
  PROVE  ApiGuarantee(r)
<1> USE ApiRowsKept, ApiJobsKept DEF storeVars, queueVars, ApiGuarantee
<1>1. CASE \E k \in Key \cup {NoKey} : PostLookup(r, k)
  <2>1. ApiCalls(r)
    BY <1>1 DEF PostLookup, TypeOK, ApiTypeOK, ApiCalls, NoTargetYet
  <2> QED
    BY <1>1, <2>1 DEF NewCall, PostLookup
<1>2. CASE \E s \in Sandbox : DeleteRead(r, s)
  <2>1. ApiCalls(r)
    BY <1>2 DEF DeleteRead, TypeOK, ApiTypeOK, ApiCalls, NoTargetYet, Active
  <2> QED
    BY <1>2, <2>1 DEF NewCall, DeleteRead
<1> QED
  BY <1>1, <1>2, Zenon DEF NewCall

\* The rest of create_sandbox and of the API's stop_sandbox.
LEMMA CallStepGuarantee ==
  ASSUME TypeOK, NEW r \in Request, CallStepTaken(r)
  PROVE  ApiGuarantee(r)
<1> USE ApiRowsKept, ApiJobsKept DEF storeVars, queueVars, ApiGuarantee, CallStepTaken
<1>1. CASE PostCount(r)
  BY <1>1, ApiAnswered, ApiGoesOn DEF PostCount, NoTargetYet
<1>2. CASE \E s \in Sandbox : PostInsert(r, s)
  <2> PICK s \in Sandbox : PostInsert(r, s)
    BY <1>2
  <2>1. ApiRows(r)
    BY DEF PostInsert, InsertRow, ApiRows, TypeOK, StoreTypeOK
  <2>2. ApiCalls(r)
    BY DEF PostInsert, InsertRow, ApiCalls, TypeOK, StoreTypeOK, ApiTypeOK
  <2> QED
    BY <2>1, <2>2 DEF PostInsert
<1>3. CASE PostConflict(r)
  BY <1>3, ApiAnswered DEF PostConflict
<1>4. CASE PostEnqueue(r)
  BY <1>4, ApiAnswered, ApiStartJob DEF PostEnqueue
<1>5. CASE PostMarkFailed(r)
  <2>1. ApiRows(r)
    BY <1>5 DEF PostMarkFailed, MarkFailed, ApiRows, TypeOK, StoreTypeOK
  <2> QED
    BY <1>5, <2>1, ApiAnswered DEF PostMarkFailed
<1>6. CASE DeleteMark(r)
  <2>1. target[r] \in Sandbox /\ call[r] \notin NoTargetYet
    BY <1>6 DEF DeleteMark, TypeOK, ApiTypeOK, NoTargetYet
  <2>2. ApiRows(r)
    BY <1>6, <2>1, RowSet DEF DeleteMark, ApiRows, TypeOK
  <2> QED
    BY <1>6, <2>1, <2>2, ApiGoesOn DEF DeleteMark
<1>7. CASE DeleteRecheck(r)
  BY <1>7, ApiAnswered, ApiGoesOn DEF DeleteRecheck, NoTargetYet
<1>8. CASE DeleteEnqueue(r)
  BY <1>8, ApiAnswered, ApiStopJob DEF DeleteEnqueue
<1> QED
  BY <1>1, <1>2, <1>3, <1>4, <1>5, <1>6, <1>7, <1>8, Zenon
     DEF CallStepTaken, CallContinues

\* A request whose enqueue raises, or that dies half way.
LEMMA CallFaultGuarantee ==
  ASSUME TypeOK, NEW r \in Request, CallFault(r)
  PROVE  ApiGuarantee(r)
<1> USE ApiRowsKept, ApiJobsKept DEF storeVars, queueVars, ApiGuarantee, CallFault
<1>1. CASE PostEnqueueFails(r) /\ Fault("redis")
  BY <1>1, ApiGoesOn, ApiStartJob DEF PostEnqueueFails, NoTargetYet
<1>2. CASE DeleteEnqueueFails(r) /\ Fault("redis")
  BY <1>2, ApiAnswered, ApiStopJob DEF DeleteEnqueueFails
<1>3. CASE CallCrash(r) /\ Fault("api")
  BY <1>3, ApiAnswered DEF CallCrash
<1> QED
  BY <1>1, <1>2, <1>3, Zenon DEF CallFault

-----------------------------------------------------------------------------
(* Start handlers *)

\* From the claim on, until the row is given up, a handler holds the row.
Held == Launching \cup {"publish", "discard", "settle"}

\* A start handler moves its row along, and publishes as its last step.
StartRow(s) ==
  /\ \A t \in Sandbox \ {s} : status'[t] = status[t]
  /\ \/ status'[s] = status[s]
     \/ status[s] \in Startable /\ status'[s] = "stopped" /\ starter'[s] = "return"
     \/ status[s] \in Startable /\ status'[s] = "starting"
     \/ /\ status[s] = "starting" /\ status'[s] \in {"queued", "failed"}
        /\ starter'[s] \in {"retry", "return"}
     \/ /\ status[s] = "starting" /\ status'[s] = "running"
        /\ starter[s] = "publish" /\ starter'[s] = "return"
        /\ UNCHANGED runtimeVars

\* It holds a row it has claimed, launches for no other, claims only one whose
\* time has not come, and begins with a job.
StartProgram(s) ==
  /\ \A t \in Sandbox \ {s} : starter'[t] = starter[t]
  /\ UNCHANGED stopper
  /\ starter'[s] \in Held => starter[s] \in Held \/ status'[s] = "starting"
  /\ starter'[s] \in Launching =>
       starter[s] \in Launching \/ (starter[s] = "claim" /\ status[s] \in Startable)
  /\ starter'[s] = "claim" => ~RowExpired(s)
  /\ starter'[s] = "drop" =>
       starter[s] = "publish" /\ status[s] # "starting" /\ status'[s] = status[s]
  /\ starter'[s] # "idle" => starter[s] # "idle" \/ StartJob(s) \in jobs

\* It takes a running container away only when it has given up on it.
StartContainer(s) ==
  /\ OneContainer(s)
  /\ starter'[s] = "publish" => container'[s] = "running"
  /\ container[s] = "running" /\ container'[s] # "running"
       => starter[s] \in {"clear", "discard", "drop"}
  /\ container'[s] = "absent" =>
       container[s] = "absent" \/ starter[s] \in {"clear", "discard", "drop"}
  /\ Pending(s)' => Pending(s) \/ starter[s] \in Launching
  /\ container'[s] # "absent" => container[s] # "absent" \/ starter[s] \in Launching
  /\ \/ UNCHANGED <<lost, overtaken>>
     \/ /\ lost' = lost \ {s} /\ overtaken' = overtaken \ {s}
        /\ starter[s] = "probe" /\ container'[s] = "running"

StartGuarantee(s) ==
  /\ UNCHANGED <<age, apiVars, reaperVars>>
  /\ jobs' \subseteq jobs
  /\ StartRow(s)
  /\ StartProgram(s)
  /\ StartContainer(s)

\* Rows and containers a step does not touch.
LEMMA StartRowKept == \A s : UNCHANGED status => StartRow(s)
BY DEF StartRow

\* A handler's step that calls no Docker keeps to its guarantee on containers.
LEMMA StartContainerKept ==
  ASSUME NEW s \in Sandbox, UNCHANGED runtimeVars, starter'[s] # "publish"
  PROVE  StartContainer(s)
BY RuntimeKept DEF StartContainer

\* The removal of a start handler keeps to its guarantee on containers.
LEMMA StartContainerRemoved ==
  ASSUME TypeOK, NEW s \in Sandbox, Remove(s) \/ RemoveRaises(s),
         starter[s] \in {"clear", "discard", "drop"},
         starter'[s] # "publish"
  PROVE  StartContainer(s)
BY ContainerRemoved DEF StartContainer, TypeOK, RuntimeTypeOK

\* Giving a launch up takes away no container but the one being cleared.
LEMMA StartContainerLeft ==
  ASSUME TypeOK, NEW s \in Sandbox, starter'[s] # "publish",
         LaunchEnds(s) \/ (starter[s] \in Launching /\ LaunchLeft(s))
  PROVE  StartContainer(s)
<1>1. CASE LaunchEnds(s)
  BY <1>1 DEF StartContainer, OneContainer, Pending, TypeOK, RuntimeTypeOK, LaunchEnds
<1>2. CASE starter[s] \in Launching /\ (AbandonLaunch(s) \/ AbandonClear(s) \/ AbandonBoot(s))
  BY <1>2 DEF StartContainer, OneContainer, Pending, TypeOK, RuntimeTypeOK, AbandonLaunch,
     AbandonClear, AbandonBoot, Bootable
<1>3. CASE starter[s] = "clear" /\ DeleteRaises(s)
  BY <1>3, StartContainerRemoved DEF RemoveRaises
<1> QED
  BY <1>1, <1>2, <1>3 DEF LaunchLeft

\* A handler that ends, or goes on to a step for which it need not hold the row.
LEMMA StartProgramEnds ==
  ASSUME TypeOK, NEW s \in Sandbox, StarterEnds(s)
  PROVE  StartProgram(s) /\ starter'[s] = "idle"
BY StarterOver DEF TypeOK, StartProgram, Held, Launching

\* A start handler that goes on keeps to its guarantee on handlers.
LEMMA StartProgramGoesOn ==
  ASSUME TypeOK, NEW s \in Sandbox, NEW step, StartAt(s, step),
         starter[s] # "idle",
         step \in Held => starter[s] \in Held \/ status'[s] = "starting",
         step \in Launching =>
           starter[s] \in Launching \/ (starter[s] = "claim" /\ status[s] \in Startable),
         step = "claim" => ~RowExpired(s),
         step = "drop" =>
           starter[s] = "publish" /\ status[s] # "starting" /\ status'[s] = status[s]
  PROVE  StartProgram(s) /\ starter'[s] = step
BY StarterAt DEF TypeOK, StartProgram

\* Taking the job up.
LEMMA PickStartGuarantee ==
  ASSUME TypeOK, NEW s \in Sandbox, PickStart(s), WorkerAlone
  PROVE  StartGuarantee(s)
<1>1. StartProgram(s) /\ starter'[s] = "read"
  BY DEF PickStart, PickUp, TypeOK, WorkerTypeOK, StartProgram, Held, Launching
<1> QED
  BY <1>1, StartRowKept, StartContainerKept, JobsKept
     DEF PickStart, StartGuarantee, storeVars

\* Every awaited call of start_sandbox.
LEMMA StarterGuarantee ==
  ASSUME TypeOK, NEW s \in Sandbox, StarterStepTaken(s)
  PROVE  StartGuarantee(s)
<1> USE StartRowKept, StartContainerKept, StartProgramGoesOn, StartProgramEnds
    DEF storeVars, queueVars, StartGuarantee, StarterStepTaken
<1>1. CASE StartRead(s)
  BY <1>1 DEF StartRead, Held, Launching
<1>2. CASE StartExpire(s)
  <2>1. StartProgram(s) /\ starter'[s] = "return"
    BY <1>2 DEF StartExpire, Held, Launching
  <2>2. StartRow(s)
    BY <1>2, <2>1, RowSet DEF StartExpire, StartRow, TypeOK
  <2> QED
    BY <1>2, <2>1, <2>2 DEF StartExpire
<1>3. CASE StartClaim(s)
  <2>1. /\ \A t \in Sandbox \ {s} : status'[t] = status[t]
        /\ status[s] \in Startable => status'[s] = "starting"
        /\ status[s] \notin Startable => status'[s] = status[s]
    BY <1>3, RowSet DEF StartClaim, TypeOK
  <2>2. StartRow(s)
    BY <2>1 DEF StartRow
  <2>3. StartProgram(s) /\ starter'[s] \in {"look", "return"}
    BY <1>3, <2>1 DEF StartClaim, Held, Launching
  <2> QED
    BY <1>3, <2>2, <2>3 DEF StartClaim
<1>4. CASE StartLook(s)
  <2>1. StartProgram(s) /\ starter'[s] \in {"probe", "create", "clear"}
    BY <1>4 DEF StartLook, Held, Launching
  <2> QED
    BY <1>4, <2>1 DEF StartLook
<1>13. CASE StartClear(s)
  <2>1. StartProgram(s) /\ starter'[s] \in {"create", "discard"}
    BY <1>13 DEF StartClear, Held, Launching
  <2>2. ASSUME Remove(s) PROVE StartContainer(s)
    BY <1>13, <2>1, <2>2, StartContainerRemoved DEF StartClear
  <2> QED
    BY <1>13, <2>1, <2>2 DEF StartClear
<1>5. CASE StartCreate(s)
  <2>1. StartProgram(s) /\ starter'[s] \in {"boot", "probe", "discard"}
    BY <1>5 DEF StartCreate, Held, Launching
  <2>2. ASSUME Create(s) PROVE StartContainer(s)
    BY <1>5, <2>1, <2>2
       DEF StartCreate, Create, Launching, StartContainer, OneContainer, Pending, TypeOK,
           RuntimeTypeOK
  <2> QED
    BY <1>5, <2>1, <2>2 DEF StartCreate
<1>6. CASE StartBoot(s)
  <2>1. StartProgram(s) /\ starter'[s] \in {"probe", "discard"}
    BY <1>6 DEF StartBoot, Held, Launching
  <2>2. ASSUME Boot(s) PROVE StartContainer(s)
    BY <1>6, <2>1, <2>2
       DEF StartBoot, Boot, Bootable, Launching, StartContainer, OneContainer, Pending, TypeOK,
           RuntimeTypeOK
  <2> QED
    BY <1>6, <2>1, <2>2 DEF StartBoot
<1>7. CASE StartProbe(s)
  <2>1. StartProgram(s) /\ starter'[s] \in {"publish", "discard"}
    BY <1>7 DEF StartProbe, Held, Launching
  <2>2. ASSUME Answers(s) PROVE StartContainer(s)
    BY <1>7, <2>2 DEF StartProbe, Answers, StartContainer, OneContainer, Pending
  <2>3. Answers(s) \/ (UNCHANGED runtimeVars /\ StartAt(s, "discard"))
    BY <1>7 DEF StartProbe
  <2> QED
    BY <1>7, <2>1, <2>2, <2>3, StarterAt DEF StartProbe, TypeOK
<1>8. CASE StartDiscard(s)
  <2>1. StartProgram(s) /\ starter'[s] \in {"settle", "return"}
    BY <1>8 DEF StartDiscard, AfterDiscard, Held, Launching
  <2>2. StartContainer(s)
    BY <1>8, <2>1, StartContainerRemoved DEF StartDiscard
  <2> QED
    BY <1>8, <2>1, <2>2 DEF StartDiscard
<1>9. CASE StartSettle(s)
  <2>1. StartProgram(s) /\ starter'[s] \in {"retry", "return"}
    BY <1>9 DEF StartSettle, Held, Launching
  <2>2. StartRow(s)
    BY <1>9, <2>1, RowSet DEF StartSettle, StartRow, TypeOK
  <2> QED
    BY <1>9, <2>1, <2>2 DEF StartSettle
<1>10. CASE StartPublish(s)
  <2>1. /\ \A t \in Sandbox \ {s} : status'[t] = status[t]
        /\ status[s] = "starting" => status'[s] = "running"
        /\ status[s] # "starting" => status'[s] = status[s]
    BY <1>10, RowSet DEF StartPublish, TypeOK
  <2>2. StartProgram(s) /\ starter'[s] = IF status[s] = "starting" THEN "return" ELSE "drop"
    BY <1>10, <2>1 DEF StartPublish, Held, Launching
  <2>3. StartRow(s)
    BY <1>10, <2>1, <2>2 DEF StartPublish, StartRow
  <2> QED
    BY <1>10, <2>2, <2>3 DEF StartPublish
<1>11. CASE StartReturn(s)
  BY <1>11, JobsKept DEF StartReturn
<1>12. CASE StartRetry(s)
  BY <1>12, JobsKept DEF StartRetry
<1> QED
  BY <1>1, <1>2, <1>3, <1>4, <1>5, <1>6, <1>7, <1>8, <1>9, <1>10, <1>11, <1>12, <1>13,
     Zenon DEF StarterStepTaken, StarterContinues

-----------------------------------------------------------------------------
(* Stop handlers, and the queue by itself *)

\* A stop handler finishes a stop.
StopRow(s) ==
  /\ \A t \in Sandbox \ {s} : status'[t] = status[t]
  /\ \/ status'[s] = status[s]
     \/ status[s] = "stopping" /\ status'[s] = "stopped"

\* It begins with a job.
StopProgram(s) ==
  /\ \A t \in Sandbox \ {s} : stopper'[t] = stopper[t]
  /\ UNCHANGED starter
  /\ stopper'[s] # "idle" => stopper[s] # "idle" \/ StopJob(s) \in jobs

\* It removes the container of its sandbox.
StopContainer(s) ==
  /\ OneContainer(s)
  /\ \/ container'[s] = container[s]
     \/ container'[s] = "absent" /\ stopper[s] # "idle"
  /\ Pending(s)' => Pending(s)
  /\ UNCHANGED <<lost, overtaken>>

StopGuarantee(s) ==
  /\ UNCHANGED <<age, apiVars, reaperVars>>
  /\ jobs' \subseteq jobs
  /\ StopRow(s)
  /\ StopProgram(s)
  /\ StopContainer(s)

\* A stop handler's step that writes no row keeps to its guarantee on rows.
LEMMA StopRowKept == \A s : UNCHANGED status => StopRow(s)
BY DEF StopRow

\* A stop handler's step that calls no Docker keeps to its guarantee on containers.
LEMMA StopContainerKept == \A s \in Sandbox : UNCHANGED runtimeVars => StopContainer(s)
BY RuntimeKept DEF StopContainer

\* The removal of a stop handler keeps to its guarantee on containers.
LEMMA StopContainerRemoved ==
  ASSUME TypeOK, NEW s \in Sandbox, Remove(s) \/ RemoveRaises(s), stopper[s] # "idle"
  PROVE  StopContainer(s)
BY ContainerRemoved DEF StopContainer, TypeOK

\* A stop handler that ends keeps to its guarantee on handlers.
LEMMA StopProgramEnds ==
  ASSUME TypeOK, NEW s \in Sandbox, StopperEnds(s)
  PROVE  StopProgram(s)
BY StopperOver DEF TypeOK, StopProgram

\* A stop handler that goes on keeps to its guarantee on handlers.
LEMMA StopProgramGoesOn ==
  ASSUME TypeOK, NEW s \in Sandbox, NEW step, StopAt(s, step), stopper[s] # "idle"
  PROVE  StopProgram(s)
BY StopperAt DEF TypeOK, StopProgram

\* Taking the job up.
LEMMA PickStopGuarantee ==
  ASSUME TypeOK, NEW s \in Sandbox, PickStop(s), WorkerAlone
  PROVE  StopGuarantee(s)
<1>1. StopProgram(s)
  BY DEF PickStop, PickUp, TypeOK, WorkerTypeOK, StopProgram
<1> QED
  BY <1>1, StopRowKept, StopContainerKept, JobsKept
     DEF PickStop, StopGuarantee, storeVars

\* Every awaited call of the worker's stop_sandbox.
LEMMA StopperGuarantee ==
  ASSUME TypeOK, NEW s \in Sandbox, StopperStepTaken(s)
  PROVE  StopGuarantee(s)
<1> USE StopRowKept, StopContainerKept, StopProgramGoesOn, StopProgramEnds
    DEF storeVars, queueVars, StopGuarantee, StopperStepTaken
<1>1. CASE StopRemove(s)
  BY <1>1, StopContainerRemoved DEF StopRemove
<1>2. CASE StopMark(s)
  <2>1. StopRow(s)
    BY <1>2, RowSet DEF StopMark, StopRow, TypeOK
  <2> QED
    BY <1>2, <2>1 DEF StopMark
<1>3. CASE StopReturn(s)
  BY <1>3, JobsKept DEF StopReturn
<1>4. CASE StopRetry(s)
  BY <1>4, JobsKept DEF StopRetry
<1> QED
  BY <1>1, <1>2, <1>3, <1>4, Zenon DEF StopperStepTaken, StopperContinues

\* arq and Redis by themselves only forget.
QueueGuarantee ==
  /\ UNCHANGED <<status, age, runtimeVars, apiVars, starter, stopper, reaperVars>>
  /\ jobs' \subseteq jobs

\* A worker picks a job up, or arq drops it or frees it.
LEMMA JobStepGuarantee ==
  ASSUME TypeOK, NEW j \in Job, JobStep(j)
  PROVE  \/ QueueGuarantee
         \/ \E s \in Sandbox : StartGuarantee(s) \/ StopGuarantee(s)
<1> USE DEF JobStep, storeVars, workerVars, QueueGuarantee
<1>1. CASE \E s \in Sandbox : j = StartJob(s) /\ PickStart(s)
  BY <1>1, PickStartGuarantee, Zenon DEF JobStep
<1>2. CASE \E s \in Sandbox : j = StopJob(s) /\ PickStop(s)
  BY <1>2, PickStopGuarantee, Zenon DEF JobStep
<1>3. CASE KeyExpires(j)
  BY <1>3 DEF KeyExpires
<1>4. CASE JobDropped(j)
  BY <1>4, JobsKept DEF JobDropped, DropExhausted
<1> QED
  BY <1>1, <1>2, <1>3, <1>4, Zenon DEF JobStep

\* A handler whose Docker call or statement raises, or whose worker dies.
LEMMA HandlerFaultGuarantee ==
  ASSUME TypeOK, NEW s \in Sandbox, HandlerFault(s)
  PROVE  StartGuarantee(s) \/ StopGuarantee(s)
<1> USE StartRowKept, StartContainerKept, StartProgramGoesOn, StartProgramEnds,
        StopRowKept, StopContainerKept, StopProgramEnds
    DEF storeVars, queueVars, HandlerFault
<1>1. CASE StartFails(s) /\ Fault("docker")
  <2>1. StartProgram(s) /\ starter'[s] = "discard"
    BY <1>1 DEF StartFails, Held, Launching
  <2>2. StartContainer(s)
    BY <1>1, <2>1, StartContainerLeft DEF StartFails
  <2> QED
    BY <1>1, <2>1, <2>2 DEF StartFails, StartGuarantee
<1>2. CASE StartDiscardFails(s) /\ Fault("docker")
  <2>1. StartProgram(s) /\ starter'[s] \in {"settle", "return"}
    BY <1>2 DEF StartDiscardFails, AfterDiscard, Held, Launching
  <2>2. StartContainer(s)
    BY <1>2, <2>1, StartContainerRemoved DEF StartDiscardFails
  <2> QED
    BY <1>2, <2>1, <2>2 DEF StartDiscardFails, StartGuarantee
<1>3. CASE StopRemoveFails(s) /\ Fault("docker")
  <2>1. StopProgram(s)
    BY <1>3, StopProgramGoesOn DEF StopRemoveFails
  <2>2. StopContainer(s)
    BY <1>3, StopContainerRemoved DEF StopRemoveFails
  <2> QED
    BY <1>3, <2>1, <2>2 DEF StopRemoveFails, StopGuarantee
<1>4. CASE StartError(s) /\ Fault("db")
  BY <1>4, JobsKept DEF StartError, StartGuarantee
<1>5. CASE StopError(s) /\ Fault("db")
  BY <1>5, JobsKept DEF StopError, StopGuarantee
<1>6. CASE StartCrash(s) /\ Fault("crash")
  BY <1>6, StartContainerLeft DEF StartCrash, StartGuarantee
<1>7. CASE StopCrash(s) /\ Fault("crash")
  BY <1>7 DEF StopCrash, StopGuarantee
<1>8. CASE StartCutShort(s) /\ Fault("cut")
  <2>1. StartProgram(s) /\ starter'[s] = "idle"
    BY <1>8 DEF StartCutShort
  <2>2. StartContainer(s)
    BY <1>8, <2>1, StartContainerLeft, StartContainerRemoved DEF StartCutShort
  <2> QED
    BY <1>8, <2>1, <2>2 DEF StartCutShort, StartGuarantee
<1>9. CASE StopCutShort(s) /\ Fault("cut")
  BY <1>9, StopContainerRemoved DEF StopCutShort, StopGuarantee
<1> QED
  BY <1>1, <1>2, <1>3, <1>4, <1>5, <1>6, <1>7, <1>8, <1>9, Zenon DEF HandlerFault

-----------------------------------------------------------------------------
(* Sweeps *)

\* A sweep stops rows, and fails running ones.
SweepRows ==
  \A s \in Sandbox :
    \/ status'[s] = status[s]
    \/ status[s] \in Active /\ status'[s] = "stopped"
    \/ status[s] = "running" /\ status'[s] = "failed"

\* It removes the containers it decided to remove, and goes on to their rows
\* unless it fails.
SweepContainers(w) ==
  /\ \A s \in Sandbox :
       /\ \/ container'[s] = container[s]
          \/ /\ container'[s] = "absent" /\ s \in todo[w]
             /\ faults' > faults \/ (sweep'[w] = "settle" /\ at'[w] = s)
       /\ Pending(s)' => Pending(s)
  /\ UNCHANGED <<lost, overtaken>>

\* It snapshots running rows, keeps those without a container, lists containers
\* that are there, and decides by label and status.
SweepProgram(w) ==
  /\ \A v \in Sweeper \ {w} :
       /\ sweep'[v] = sweep[v] /\ gone'[v] = gone[v]
       /\ live'[v] = live[v] /\ todo'[v] = todo[v] /\ at'[v] = at[v]
  /\ \A s \in gone'[w] : s \in gone[w] \/ status'[s] = "running"
  /\ sweep'[w] \notin {"idle", "list"} =>
       /\ sweep[w] # "idle"
       /\ \A s \in gone'[w] :
            s \in gone[w] /\ (sweep[w] = "list" => container[s] = "absent")
  /\ \A s \in live'[w] : s \in live[w] \/ container[s] # "absent"
  /\ \A s \in todo'[w] : s \in todo[w] \/ (s \in live[w] /\ Reapable(s))
  /\ sweep'[w] = "idle" => gone'[w] = {} /\ live'[w] = {} /\ todo'[w] = {}
  /\ sweep'[w] \in {"list", "classify"} =>
       sweep[w] \in {"idle", "list"} /\ todo'[w] = todo[w]
  /\ sweep[w] = "settle" =>
       faults' > faults \/ \A s \in Sandbox : s = at[w] => status'[s] \notin Active
  /\ \A s \in gone[w] \ gone'[w] : status'[s] # status[s] => status[s] = "running"

SweepGuarantee(w) ==
  /\ UNCHANGED <<age, queueVars, apiVars, workerVars>>
  /\ SweepRows
  /\ SweepContainers(w)
  /\ SweepProgram(w)

\* A sweep's step that writes no row keeps to its guarantee on rows.
LEMMA SweepRowsKept == UNCHANGED status => SweepRows
BY DEF SweepRows

\* A sweep's step that removes nothing keeps to its guarantee on containers.
LEMMA SweepContainersKept == \A w : UNCHANGED runtimeVars => SweepContainers(w)
BY DEF SweepContainers, runtimeVars, Pending

\* The removal of a sweep keeps to its guarantee on containers.
LEMMA SweepContainerRemoved ==
  ASSUME TypeOK, NEW w \in Sweeper, NEW s \in Sandbox, Remove(s) \/ RemoveRaises(s),
         s \in todo[w], faults' > faults \/ (sweep'[w] = "settle" /\ at'[w] = s)
  PROVE  SweepContainers(w)
BY ContainerRemoved DEF SweepContainers, OneContainer, TypeOK

\* A sweep that ends is idle, and no other moved.
LEMMA SweepProgramEnds ==
  ASSUME TypeOK, NEW w \in Sweeper, SweepEnds(w), sweep[w] # "settle" \/ faults' > faults,
         UNCHANGED status \/ gone[w] = {}
  PROVE  SweepProgram(w)
BY DEF SweepProgram, SweepEnds, TypeOK, ReaperTypeOK

\* Every awaited call of reconcile_sandboxes.
LEMMA SweepStepGuarantee ==
  ASSUME TypeOK, NEW w \in Sweeper, SweepStepTaken(w)
  PROVE  SweepGuarantee(w)
<1> USE SweepRowsKept, SweepContainersKept, SweepProgramEnds
    DEF storeVars, SweepGuarantee, SweepStepTaken
<1>1. CASE SweepSnapshot(w)
  <2>1. SweepProgram(w)
    BY <1>1 DEF SweepSnapshot, storeVars, SweepProgram, TypeOK, ReaperTypeOK
  <2> QED
    BY <1>1, <2>1 DEF SweepSnapshot
<1>2. CASE SweepList(w)
  <2>1. SweepProgram(w)
    BY <1>2 DEF SweepList, Listed, SweepProgram, TypeOK, ReaperTypeOK
  <2> QED
    BY <1>2, <2>1 DEF SweepList
<1>3. CASE SweepClassify(w)
  <2>1. SweepProgram(w)
    BY <1>3 DEF SweepClassify, SweepProgram, TypeOK, ReaperTypeOK
  <2> QED
    BY <1>3, <2>1 DEF SweepClassify
<1>4. CASE \E s \in Sandbox : SweepRemove(w, s)
  <2>1. SweepProgram(w)
    BY <1>4 DEF SweepRemove, SweepProgram, TypeOK, ReaperTypeOK
  <2>2. SweepContainers(w)
    BY <1>4, SweepContainerRemoved DEF SweepRemove, TypeOK, ReaperTypeOK
  <2> QED
    BY <1>4, <2>1, <2>2 DEF SweepRemove
<1>5. CASE \E s \in Sandbox : SweepVanish(w, s)
  <2>1. SweepProgram(w)
    BY <1>5 DEF SweepVanish, Transition, SweepProgram, TypeOK, ReaperTypeOK, StoreTypeOK
  <2>2. SweepRows
    BY <1>5, RowSet DEF SweepVanish, SweepRows, TypeOK
  <2> QED
    BY <1>5, <2>1, <2>2 DEF SweepVanish
<1>6. CASE SweepStop(w)
  <2>1. SweepProgram(w)
    BY <1>6 DEF SweepStop, Transition, SweepProgram, TypeOK, ReaperTypeOK, StoreTypeOK, Active
  <2>2. SweepRows
    BY <1>6 DEF SweepStop, Transition, SweepRows, TypeOK, StoreTypeOK
  <2> QED
    BY <1>6, <2>1, <2>2 DEF SweepStop
<1>7. CASE SweepFinish(w)
  <2>1. SweepRows
    BY <1>7 DEF SweepFinish, FinishStops, SweepRows, Active
  <2> QED
    BY <1>7, <2>1 DEF SweepFinish
<1> QED
  BY <1>1, <1>2, <1>3, <1>4, <1>5, <1>6, <1>7, Zenon
     DEF SweepStepTaken, SweepContinues

\* A sweep that ends in its except clause.
LEMMA SweepFaultGuarantee ==
  ASSUME TypeOK, NEW w \in Sweeper, SweepFault(w)
  PROVE  SweepGuarantee(w)
<1> USE SweepRowsKept, SweepContainersKept, SweepProgramEnds
    DEF storeVars, SweepGuarantee, SweepFault
<1>0. faults' > faults
  BY DEF TypeOK
<1>1. CASE SweepAbort(w)
  BY <1>0, <1>1 DEF SweepAbort
<1>2. CASE \E s \in Sandbox : SweepRemoveFails(w, s)
  BY <1>0, <1>2, SweepContainerRemoved DEF SweepRemoveFails
<1> QED
  BY <1>1, <1>2, Zenon DEF SweepFault

-----------------------------------------------------------------------------
(* Everything else *)

\* Threads left behind, late requests and the world outside: a container that runs
\* stops running only if it is lost or overtaken, and appears only by a thread.
DockerGuarantee(s) ==
  /\ UNCHANGED <<storeVars, queueVars, apiVars, workerVars, reaperVars>>
  /\ OneContainer(s)
  /\ lost \subseteq lost' /\ overtaken \subseteq overtaken'
  /\ container[s] = "running" /\ container'[s] # "running" => Taken(s)'
  /\ container'[s] = "absent" => container[s] = "absent" \/ Taken(s)'
  /\ container'[s] # "absent" => container[s] # "absent" \/ Pending(s)
  /\ Pending(s)' => Pending(s)

\* Abandoned threads, late requests and containers lost outside.
LEMMA DockerStepGuarantee ==
  ASSUME TypeOK, NEW s \in Sandbox, GhostStep(s) \/ LateRemoval(s) \/ Outside(s)
  PROVE  DockerGuarantee(s)
<1> USE DEF GhostStep, LateRemoval, Outside, DockerGuarantee, TypeOK, RuntimeTypeOK,
            OneContainer, Gone, Pending, Taken
<1>1. CASE GhostCreate(s)
  BY <1>1 DEF GhostCreate
<1>2. CASE GhostBoot(s)
  BY <1>2 DEF GhostBoot
<1>3. CASE GhostEnds(s)
  BY <1>3 DEF GhostEnds
<1>4. CASE GhostRemove(s)
  BY <1>4 DEF GhostRemove
<1>5. CASE ContainerExits(s)
  BY <1>5 DEF ContainerExits
<1>6. CASE ContainerVanishes(s)
  BY <1>6 DEF ContainerVanishes
<1>7. CASE GhostLook(s) \/ GhostFind(s) \/ GhostSpares(s)
  BY <1>7 DEF GhostLook, GhostFind, GhostSpares
<1> QED
  BY <1>1, <1>2, <1>3, <1>4, <1>5, <1>6, <1>7, Zenon DEF GhostStep, LateRemoval, Outside

\* Time only goes on.
TimeGuarantee ==
  /\ UNCHANGED <<status, queueVars, runtimeVars, apiVars, workerVars, reaperVars>>
  /\ \A s \in Sandbox :
       /\ age'[s] = "live" => age[s] = "live"
       /\ age[s] = "due" => age'[s] = "due"

\* The clock moves ages only.
LEMMA TimePassesGuarantee ==
  ASSUME TypeOK, NEW s \in Sandbox, TimePasses(s)
  PROVE  TimeGuarantee
BY DEF TimePasses, Tick, TimeGuarantee, TypeOK, StoreTypeOK

\* Redis losing its data takes jobs and adds none.
LEMMA RedisLossGuarantee == RedisLoss => QueueGuarantee
BY DEF RedisLoss, FlushRedis, QueueGuarantee, storeVars, workerVars

-----------------------------------------------------------------------------
\* Whatever is not a step of a request is within one of the guarantees.
Surroundings ==
  \/ \E s \in Sandbox : StartGuarantee(s)
  \/ \E s \in Sandbox : StopGuarantee(s)
  \/ QueueGuarantee
  \/ \E w \in Sweeper : SweepGuarantee(w)
  \/ \E s \in Sandbox : DockerGuarantee(s)
  \/ TimeGuarantee

\* Every step is a request's or one of its surroundings'.
LEMMA StepActor ==
  ASSUME TypeOK, Next
  PROVE  \/ \E r \in Request : NewCall(r) \/ CallStepTaken(r) \/ CallFault(r)
         \/ Surroundings
BY JobStepGuarantee, StarterGuarantee, StopperGuarantee, HandlerFaultGuarantee,
   SweepStepGuarantee, SweepFaultGuarantee, DockerStepGuarantee, TimePassesGuarantee,
   RedisLossGuarantee, Zenon
   DEF Next, Surroundings

\* Every step is within the guarantee of one actor.
LEMMA StepGuarantee ==
  ASSUME TypeOK, Next
  PROVE  (\E r \in Request : ApiGuarantee(r)) \/ Surroundings
BY StepActor, NewCallGuarantee, CallStepGuarantee, CallFaultGuarantee, Zenon

-----------------------------------------------------------------------------
(* What goes on behind the callers' backs *)

\* Calls that succeed leave nobody behind.
LEMMA NobodyLeft ==
  ASSUME TypeOK, NEW s \in Sandbox,
         \/ UNCHANGED runtimeVars
         \/ Remove(s) \/ Create(s) \/ Boot(s) \/ Answers(s)
  PROVE  \A t \in Sandbox : GivenUp(t)' => GivenUp(t)
BY DEF TypeOK, RuntimeTypeOK, runtimeVars, GivenUp, Remove, Gone, Create, Boot, Answers

\* Who was left behind goes on, and leaves behind nobody else.
LEMMA NobodyElseLeft ==
  ASSUME TypeOK, NEW s \in Sandbox, GhostStep(s) \/ LateRemoval(s)
  PROVE  \A t \in Sandbox : GivenUp(t)' => GivenUp(t)
<1> USE DEF TypeOK, RuntimeTypeOK, GivenUp
<1>1. CASE GhostCreate(s) \/ GhostBoot(s) \/ GhostEnds(s)
  BY <1>1 DEF GhostCreate, GhostBoot, GhostEnds
<1>2. CASE GhostLook(s) \/ GhostFind(s) \/ GhostSpares(s)
  BY <1>2 DEF GhostLook, GhostFind, GhostSpares
<1>3. CASE GhostRemove(s)
  BY <1>3 DEF GhostRemove, Gone
<1> QED
  BY <1>1, <1>2, <1>3 DEF GhostStep, LateRemoval

\* So it takes a failed call for anybody to be left behind.
LEMMA GivenUpStep ==
  ASSUME TypeOK, GivenUpLate, [Next]_vars
  PROVE  GivenUpLate'
<1> USE DEF TypeOK, GivenUpLate
<1>1. faults \in Nat
  OBVIOUS
<1>2. ASSUME faults' = faults, \A t \in Sandbox : GivenUp(t)' => GivenUp(t)
      PROVE  GivenUpLate'
  BY <1>2
<1>3. ASSUME faults' = faults + 1 PROVE GivenUpLate'
  BY <1>1, <1>3
<1>4. ASSUME NEW r \in Request, NewCall(r) \/ CallStepTaken(r) PROVE GivenUpLate'
  <2>1. UNCHANGED <<runtimeVars, faults>>
    BY <1>4 DEF NewCall, CallStepTaken
  <2> QED
    BY <1>2, <2>1 DEF runtimeVars, GivenUp
<1>5. ASSUME NEW j \in Job, JobStep(j) PROVE GivenUpLate'
  <2>1. UNCHANGED <<runtimeVars, faults>>
    BY <1>5 DEF JobStep, PickStart, PickStop, KeyExpires, JobDropped
  <2> QED
    BY <1>2, <2>1 DEF runtimeVars, GivenUp
<1>6. ASSUME NEW s \in Sandbox, StarterStepTaken(s) PROVE GivenUpLate'
  <2>1. \/ UNCHANGED runtimeVars
        \/ Remove(s) \/ Create(s) \/ Boot(s) \/ Answers(s)
    BY <1>6 DEF StarterStepTaken, StarterContinues, StartRead, StartExpire, StartClaim,
       StartLook, StartClear, StartCreate, StartBoot, StartProbe, StartDiscard,
       StartSettle, StartPublish, StartReturn, StartRetry
  <2> QED
    BY <1>2, <1>6, <2>1, NobodyLeft DEF StarterStepTaken
<1>7. ASSUME NEW s \in Sandbox, StopperStepTaken(s) PROVE GivenUpLate'
  <2>1. UNCHANGED runtimeVars \/ Remove(s)
    BY <1>7 DEF StopperStepTaken, StopperContinues, StopRemove, StopMark, StopReturn,
       StopRetry
  <2> QED
    BY <1>2, <1>7, <2>1, NobodyLeft DEF StopperStepTaken
<1>8. ASSUME NEW w \in Sweeper, SweepStepTaken(w) PROVE GivenUpLate'
  <2>1. UNCHANGED runtimeVars \/ \E s \in Sandbox : Remove(s)
    BY <1>8 DEF SweepStepTaken, SweepContinues, SweepSnapshot, SweepList, SweepClassify,
       SweepRemove, SweepStop, SweepVanish, SweepFinish
  <2>2. CASE UNCHANGED runtimeVars
    BY <1>2, <1>8, <2>2 DEF SweepStepTaken, runtimeVars, GivenUp
  <2> QED
    BY <1>2, <1>8, <2>1, <2>2, NobodyLeft DEF SweepStepTaken
<1>9. ASSUME NEW s \in Sandbox, GhostStep(s) \/ LateRemoval(s) PROVE GivenUpLate'
  BY <1>2, <1>9, NobodyElseLeft DEF GhostStep, LateRemoval
<1>10. ASSUME NEW s \in Sandbox, TimePasses(s) PROVE GivenUpLate'
  BY <1>2, <1>10 DEF TimePasses, runtimeVars, GivenUp
<1>11. ASSUME NEW s \in Sandbox, HandlerFault(s) \/ Outside(s) PROVE GivenUpLate'
  BY <1>3, <1>11 DEF HandlerFault, Outside
<1>12. ASSUME NEW r \in Request, CallFault(r) PROVE GivenUpLate'
  BY <1>3, <1>12 DEF CallFault
<1>13. ASSUME NEW w \in Sweeper, SweepFault(w) PROVE GivenUpLate'
  BY <1>3, <1>13 DEF SweepFault
<1>14. CASE RedisLoss
  BY <1>3, <1>14 DEF RedisLoss
<1>15. CASE UNCHANGED vars
  BY <1>2, <1>15 DEF vars, runtimeVars, GivenUp
<1> QED
  BY <1>4, <1>5, <1>6, <1>7, <1>8, <1>9, <1>10, <1>11, <1>12, <1>13, <1>14, <1>15, Zenon
     DEF Next
=============================================================================

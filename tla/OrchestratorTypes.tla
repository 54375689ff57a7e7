------------------------- MODULE OrchestratorTypes --------------------------
(***************************************************************************)
(* Proofs about Orchestrator for any number of sandboxes, requests, sweeps *)
(* and faults, and any bound on tries.                                     *)
(***************************************************************************)
EXTENDS Orchestrator, TLAPS

-----------------------------------------------------------------------------
(* Types.  First, what each operation on one component does to its types. *)

\* A component nobody touches keeps its types.
LEMMA TypeSame ==
  /\ StoreTypeOK /\ UNCHANGED storeVars => StoreTypeOK'
  /\ QueueTypeOK /\ UNCHANGED queueVars => QueueTypeOK'
  /\ RuntimeTypeOK /\ UNCHANGED runtimeVars => RuntimeTypeOK'
  /\ ApiTypeOK /\ UNCHANGED apiVars => ApiTypeOK'
  /\ WorkerTypeOK /\ UNCHANGED workerVars => WorkerTypeOK'
  /\ ReaperTypeOK /\ UNCHANGED reaperVars => ReaperTypeOK'
BY DEF StoreTypeOK, QueueTypeOK, RuntimeTypeOK, ApiTypeOK, WorkerTypeOK,
       ReaperTypeOK, storeVars, queueVars, runtimeVars, apiVars, workerVars,
       reaperVars

\* A compare-and-set writes a status.
LEMMA TypeTransition ==
  ASSUME StoreTypeOK,
         NEW s, NEW from, NEW to \in SandboxStatus,
         Transition(s, from, to), UNCHANGED <<key, age>>
  PROVE  StoreTypeOK'
BY DEF StoreTypeOK, Transition

\* The queue's operations.
LEMMA TypeQueue ==
  ASSUME QueueTypeOK, NEW j \in Job,
         \/ Enqueue(j) \/ EnqueueRaises(j) \/ PickUp(j)
         \/ FinishJob(j) \/ RequeueJob(j)
  PROVE  QueueTypeOK'
BY QueueAssumption
   DEF QueueTypeOK, Enqueue, EnqueueRaises, PickUp, FinishJob, RequeueJob

\* sandbox_job_id tells a start job from a stop job.
LEMMA JobIds ==
  ASSUME NEW s \in Sandbox
  PROVE  StartJob(s) \in Job /\ StopJob(s) \in Job
BY DEF Job, StartJob, StopJob

\* A container goes.
LEMMA TypeGone ==
  ASSUME RuntimeTypeOK, NEW s \in Sandbox, Gone(s), UNCHANGED forgotten,
         lost' \in {lost, lost \cup {s}},
         overtaken' \in {overtaken, overtaken \cup {s}}
  PROVE  RuntimeTypeOK'
BY DEF RuntimeTypeOK, Gone, ContainerState, Creator

\* The Docker calls of the handlers and of the sweeps.
LEMMA TypeRuntime ==
  ASSUME RuntimeTypeOK, NEW s \in Sandbox,
         \/ Remove(s) \/ RemoveRaises(s) \/ Create(s) \/ Boot(s) \/ Answers(s)
         \/ LaunchEnds(s)
  PROVE  RuntimeTypeOK'
<1>1. CASE Remove(s)
  BY <1>1, TypeGone DEF Remove
<1>2. CASE RemoveRaises(s)
  <2>1. CASE /\ doomed' = doomed \cup {s} \/ sought' = sought \cup {s}
             /\ doomed' \in {doomed, doomed \cup {s}}
             /\ sought' \in {sought, sought \cup {s}}
             /\ UNCHANGED <<container, forgotten, creator, lost, overtaken>>
    BY <2>1 DEF RuntimeTypeOK
  <2>2. \/ UNCHANGED runtimeVars \/ Remove(s)
        \/ /\ doomed' = doomed \cup {s} \/ sought' = sought \cup {s}
           /\ doomed' \in {doomed, doomed \cup {s}}
           /\ sought' \in {sought, sought \cup {s}}
           /\ UNCHANGED <<container, forgotten, creator, lost, overtaken>>
    BY <1>2 DEF RemoveRaises, DeleteRaises
  <2> QED
    BY <1>1, <2>1, <2>2, TypeSame
<1>3. CASE Create(s) \/ Boot(s) \/ Answers(s)
  BY <1>3 DEF RuntimeTypeOK, ContainerState, Creator, Create, Boot, Answers
<1>4. CASE LaunchEnds(s)
  BY <1>4 DEF RuntimeTypeOK, Creator, LaunchEnds
<1> QED
  BY <1>1, <1>2, <1>3, <1>4

\* A launch that is given up on.
LEMMA TypeLaunchLeft ==
  ASSUME RuntimeTypeOK, NEW s \in Sandbox, LaunchLeft(s)
  PROVE  RuntimeTypeOK'
<1>1. CASE LaunchEnds(s) \/ DeleteRaises(s)
  BY <1>1, TypeRuntime DEF RemoveRaises
<1>2. CASE AbandonLaunch(s) \/ AbandonClear(s)
  BY <1>2 DEF RuntimeTypeOK, AbandonLaunch, AbandonClear
<1>3. CASE AbandonBoot(s)
  BY <1>3 DEF RuntimeTypeOK, Creator, AbandonBoot
<1> QED
  BY <1>1, <1>2, <1>3 DEF LaunchLeft

\* A start handler goes on.
LEMMA TypeStartAt ==
  ASSUME WorkerTypeOK, NEW s \in Sandbox, NEW step \in StartStep, StartAt(s, step)
  PROVE  WorkerTypeOK'
BY DEF WorkerTypeOK, StartAt

\* A stop handler goes on.
LEMMA TypeStopAt ==
  ASSUME WorkerTypeOK, NEW s \in Sandbox, NEW step \in StopStep, StopAt(s, step)
  PROVE  WorkerTypeOK'
BY DEF WorkerTypeOK, StopAt

\* A handler ends.
LEMMA TypeHandlerEnds ==
  ASSUME WorkerTypeOK, NEW s \in Sandbox, StarterEnds(s) \/ StopperEnds(s)
  PROVE  WorkerTypeOK'
BY QueueAssumption, JobIds
   DEF WorkerTypeOK, StarterEnds, StopperEnds, StartStep, StopStep

\* A request is answered.
LEMMA TypeAnswer ==
  ASSUME ApiTypeOK, NEW r \in Request, Answer(r)
  PROVE  ApiTypeOK'
BY DEF ApiTypeOK, Answer, CallStep, NoTargetYet

\* A request goes on.
LEMMA TypeContinue ==
  ASSUME ApiTypeOK, NEW r \in Request, NEW step \in CallStep, Continue(r, step),
         call[r] \in NoTargetYet <=> step \in NoTargetYet
  PROVE  ApiTypeOK'
BY DEF ApiTypeOK, Continue

\* A sweep ends.
LEMMA TypeSweepEnds ==
  ASSUME ReaperTypeOK, NEW w \in Sweeper, SweepEnds(w)
  PROVE  ReaperTypeOK'
BY DEF ReaperTypeOK, SweepEnds, SweepStep

-----------------------------------------------------------------------------
(* Types: every action, by what it is made of. *)

USE DEF NoFault, Fault, ApiAlone, WorkerAlone, ReaperAlone, RuntimeAlone

\* The first statement of create_sandbox and of the API's stop_sandbox.
LEMMA TypeNewCall ==
  ASSUME TypeOK, NEW r \in Request, NewCall(r)
  PROVE  TypeOK'
<1> USE DEF TypeOK, NewCall
<1>1. CASE \E k \in Key \cup {NoKey} : PostLookup(r, k)
  BY <1>1, TypeSame DEF PostLookup, ApiTypeOK, CallStep, NoTargetYet
<1>2. CASE \E s \in Sandbox : DeleteRead(r, s)
  BY <1>2, TypeSame, StoreAssumption DEF DeleteRead, ApiTypeOK, CallStep,
     NoTargetYet
<1> QED
  BY <1>1, <1>2, Zenon DEF NewCall

\* The rest of create_sandbox and of the API's stop_sandbox.
LEMMA TypeCallStep ==
  ASSUME TypeOK, NEW r \in Request, CallStepTaken(r)
  PROVE  TypeOK'
<1> USE DEF TypeOK, CallStepTaken
<1>1. CASE PostCount(r)
  BY <1>1, TypeSame, TypeAnswer, TypeContinue DEF PostCount, CallStep,
     NoTargetYet
<1>2. CASE \E s \in Sandbox : PostInsert(r, s)
  BY <1>2, TypeSame, StoreAssumption DEF PostInsert, InsertRow, StoreTypeOK,
     SandboxStatus, ApiTypeOK, CallStep, NoTargetYet
<1>3. CASE PostConflict(r)
  BY <1>3, TypeSame, TypeAnswer DEF PostConflict
<1>4. CASE PostEnqueue(r)
  BY <1>4, TypeSame, TypeAnswer, TypeQueue, JobIds DEF PostEnqueue, ApiTypeOK,
     NoTargetYet
<1>5. CASE PostMarkFailed(r)
  BY <1>5, TypeSame, TypeAnswer DEF PostMarkFailed, MarkFailed, StoreTypeOK,
     SandboxStatus
<1>6. CASE DeleteMark(r)
  BY <1>6, TypeSame, TypeContinue, TypeTransition DEF DeleteMark, CallStep,
     NoTargetYet, SandboxStatus
<1>7. CASE DeleteRecheck(r)
  BY <1>7, TypeSame, TypeContinue, TypeAnswer DEF DeleteRecheck, CallStep,
     NoTargetYet
<1>8. CASE DeleteEnqueue(r)
  BY <1>8, TypeSame, TypeAnswer, TypeQueue, JobIds DEF DeleteEnqueue,
     ApiTypeOK, NoTargetYet
<1> QED
  BY <1>1, <1>2, <1>3, <1>4, <1>5, <1>6, <1>7, <1>8, Zenon DEF CallStepTaken,
     CallContinues

\* A request whose enqueue raises, or that dies half way.
LEMMA TypeCallFault ==
  ASSUME TypeOK, NEW r \in Request, CallFault(r)
  PROVE  TypeOK'
<1> USE DEF TypeOK, CallFault
<1>1. CASE PostEnqueueFails(r) /\ Fault("redis")
  BY <1>1, TypeSame, TypeContinue, TypeQueue, JobIds DEF PostEnqueueFails,
     ApiTypeOK, CallStep, NoTargetYet
<1>2. CASE DeleteEnqueueFails(r) /\ Fault("redis")
  BY <1>2, TypeSame, TypeAnswer, TypeQueue, JobIds DEF DeleteEnqueueFails,
     ApiTypeOK, NoTargetYet
<1>3. CASE CallCrash(r) /\ Fault("api")
  BY <1>3, TypeSame, TypeAnswer DEF CallCrash
<1> QED
  BY <1>1, <1>2, <1>3, Zenon DEF CallFault

\* A worker picks a job up, or arq drops it or frees it.
LEMMA TypeJobStep ==
  ASSUME TypeOK, NEW j \in Job, JobStep(j)
  PROVE  TypeOK'
<1> USE DEF TypeOK, JobStep
<1>1. CASE \E s \in Sandbox : j = StartJob(s) /\ PickStart(s)
  BY <1>1, TypeSame, TypeQueue, QueueAssumption DEF PickStart, PickUp,
     QueueTypeOK, WorkerTypeOK, StartStep
<1>2. CASE \E s \in Sandbox : j = StopJob(s) /\ PickStop(s)
  BY <1>2, TypeSame, TypeQueue, QueueAssumption DEF PickStop, PickUp,
     QueueTypeOK, WorkerTypeOK, StopStep
<1>3. CASE KeyExpires(j)
  BY <1>3, TypeSame DEF KeyExpires, QueueTypeOK
<1>4. CASE JobDropped(j)
  BY <1>4, TypeSame, TypeQueue DEF JobDropped, DropExhausted
<1> QED
  BY <1>1, <1>2, <1>3, <1>4, Zenon DEF JobStep

\* Every awaited call of start_sandbox.
LEMMA TypeStarter ==
  ASSUME TypeOK, NEW s \in Sandbox, StarterStepTaken(s)
  PROVE  TypeOK'
<1> USE DEF TypeOK, StarterStepTaken
<1>1. CASE StartRead(s)
  BY <1>1, TypeSame, TypeStartAt DEF StartRead, StartStep
<1>2. CASE StartExpire(s)
  BY <1>2, TypeSame, TypeStartAt, TypeTransition DEF StartExpire, StartStep,
     SandboxStatus
<1>3. CASE StartClaim(s)
  BY <1>3, TypeSame, TypeStartAt, TypeTransition DEF StartClaim, StartStep,
     SandboxStatus
<1>4. CASE StartLook(s)
  BY <1>4, TypeSame, TypeStartAt DEF StartLook, StartStep
<1>5. CASE StartCreate(s)
  BY <1>5, TypeSame, TypeStartAt, TypeRuntime DEF StartCreate, StartStep
<1>6. CASE StartBoot(s)
  BY <1>6, TypeSame, TypeStartAt, TypeRuntime DEF StartBoot, StartStep
<1>7. CASE StartProbe(s)
  BY <1>7, TypeSame, TypeStartAt, TypeRuntime DEF StartProbe, StartStep
<1>8. CASE StartDiscard(s)
  BY <1>8, TypeSame, TypeStartAt, TypeRuntime DEF StartDiscard, AfterDiscard,
     StartStep
<1>9. CASE StartSettle(s)
  BY <1>9, TypeSame, TypeStartAt, TypeTransition DEF StartSettle, StartStep,
     SandboxStatus
<1>10. CASE StartPublish(s)
  BY <1>10, TypeSame, TypeStartAt, TypeTransition DEF StartPublish, StartStep,
     SandboxStatus
<1>11. CASE StartReturn(s)
  BY <1>11, TypeSame, TypeQueue, TypeHandlerEnds, JobIds DEF StartReturn
<1>12. CASE StartRetry(s)
  BY <1>12, TypeSame, TypeQueue, TypeHandlerEnds, JobIds DEF StartRetry
<1>13. CASE StartClear(s)
  BY <1>13, TypeSame, TypeStartAt, TypeRuntime DEF StartClear, StartStep
<1> QED
  BY <1>1, <1>2, <1>3, <1>4, <1>5, <1>6, <1>7, <1>8, <1>9, <1>10, <1>11, <1>12,
     <1>13, Zenon DEF StarterStepTaken, StarterContinues

\* Every awaited call of the worker's stop_sandbox.
LEMMA TypeStopper ==
  ASSUME TypeOK, NEW s \in Sandbox, StopperStepTaken(s)
  PROVE  TypeOK'
<1> USE DEF TypeOK, StopperStepTaken
<1>1. CASE StopRemove(s)
  BY <1>1, TypeSame, TypeStopAt, TypeRuntime DEF StopRemove, StopStep
<1>2. CASE StopMark(s)
  BY <1>2, TypeSame, TypeStopAt, TypeTransition DEF StopMark, StopStep,
     SandboxStatus
<1>3. CASE StopReturn(s)
  BY <1>3, TypeSame, TypeQueue, TypeHandlerEnds, JobIds DEF StopReturn
<1>4. CASE StopRetry(s)
  BY <1>4, TypeSame, TypeQueue, TypeHandlerEnds, JobIds DEF StopRetry
<1> QED
  BY <1>1, <1>2, <1>3, <1>4, Zenon DEF StopperStepTaken, StopperContinues

\* A handler whose Docker call or statement raises, or whose worker dies.
LEMMA TypeHandlerFault ==
  ASSUME TypeOK, NEW s \in Sandbox, HandlerFault(s)
  PROVE  TypeOK'
<1> USE DEF TypeOK, HandlerFault
<1>1. CASE StartFails(s) /\ Fault("docker")
  BY <1>1, TypeSame, TypeStartAt, TypeLaunchLeft DEF StartFails, StartStep
<1>2. CASE StartDiscardFails(s) /\ Fault("docker")
  BY <1>2, TypeSame, TypeStartAt, TypeRuntime DEF StartDiscardFails,
     AfterDiscard, StartStep
<1>3. CASE StopRemoveFails(s) /\ Fault("docker")
  BY <1>3, TypeSame, TypeStopAt, TypeRuntime DEF StopRemoveFails, StopStep
<1>4. CASE StartError(s) /\ Fault("db")
  BY <1>4, TypeSame, TypeQueue, TypeHandlerEnds, JobIds DEF StartError
<1>5. CASE StopError(s) /\ Fault("db")
  BY <1>5, TypeSame, TypeQueue, TypeHandlerEnds, JobIds DEF StopError
<1>6. CASE StartCrash(s) /\ Fault("crash")
  BY <1>6, TypeSame, TypeHandlerEnds, TypeRuntime DEF StartCrash
<1>7. CASE StopCrash(s) /\ Fault("crash")
  BY <1>7, TypeSame, TypeHandlerEnds DEF StopCrash
<1>8. CASE StartCutShort(s) /\ Fault("cut")
  BY <1>8, TypeSame, TypeHandlerEnds, TypeLaunchLeft, TypeRuntime DEF StartCutShort
<1>9. CASE StopCutShort(s) /\ Fault("cut")
  BY <1>9, TypeSame, TypeHandlerEnds, TypeRuntime DEF StopCutShort
<1> QED
  BY <1>1, <1>2, <1>3, <1>4, <1>5, <1>6, <1>7, <1>8, <1>9, Zenon DEF HandlerFault

\* A launch thread that outlived the deadline of its caller.
LEMMA TypeGhost ==
  ASSUME TypeOK, NEW s \in Sandbox, GhostStep(s)
  PROVE  TypeOK'
<1> USE DEF TypeOK, GhostStep
<1>1. CASE GhostCreate(s)
  BY <1>1, TypeSame DEF GhostCreate, RuntimeTypeOK, ContainerState, Creator
<1>2. CASE GhostBoot(s)
  BY <1>2, TypeSame DEF GhostBoot, RuntimeTypeOK, ContainerState, Creator
<1>3. CASE GhostEnds(s)
  BY <1>3, TypeSame DEF GhostEnds, RuntimeTypeOK, ContainerState, Creator
<1> QED
  BY <1>1, <1>2, <1>3, Zenon DEF GhostStep

\* Every awaited call of reconcile_sandboxes.
LEMMA TypeSweep ==
  ASSUME TypeOK, NEW w \in Sweeper, SweepStepTaken(w)
  PROVE  TypeOK'
<1> USE DEF TypeOK, SweepStepTaken
<1>1. CASE SweepSnapshot(w)
  BY <1>1, TypeSame DEF SweepSnapshot, ReaperTypeOK, SweepStep
<1>2. CASE SweepList(w)
  BY <1>2, TypeSame DEF SweepList, Listed, ReaperTypeOK, SweepStep
<1>3. CASE SweepClassify(w)
  BY <1>3, TypeSame DEF SweepClassify, ReaperTypeOK, SweepStep
<1>4. CASE \E s \in Sandbox : SweepRemove(w, s)
  BY <1>4, TypeSame, TypeRuntime DEF SweepRemove, ReaperTypeOK, SweepStep
<1>5. CASE \E s \in Sandbox : SweepVanish(w, s)
  BY <1>5, TypeSame, TypeTransition DEF SweepVanish, ReaperTypeOK, SweepStep,
     SandboxStatus
<1>6. CASE SweepStop(w)
  BY <1>6, TypeSame, TypeTransition DEF SweepStop, ReaperTypeOK, SweepStep,
     SandboxStatus
<1>7. CASE SweepFinish(w)
  BY <1>7, TypeSame, TypeSweepEnds DEF SweepFinish, FinishStops, StoreTypeOK,
     SandboxStatus
<1> QED
  BY <1>1, <1>2, <1>3, <1>4, <1>5, <1>6, <1>7, Zenon DEF SweepStepTaken,
     SweepContinues

\* A sweep that ends in its except clause.
LEMMA TypeSweepFault ==
  ASSUME TypeOK, NEW w \in Sweeper, SweepFault(w)
  PROVE  TypeOK'
<1> USE DEF TypeOK, SweepFault
<1>1. CASE SweepAbort(w) /\ \E kind \in {"docker", "db", "crash"} : Fault(kind)
  BY <1>1, TypeSame, TypeSweepEnds DEF SweepAbort
<1>2. CASE \E s \in Sandbox :
             SweepRemoveFails(w, s) /\ \E kind \in {"docker", "cut"} : Fault(kind)
  BY <1>2, TypeSame, TypeSweepEnds, TypeRuntime DEF SweepRemoveFails
<1> QED
  BY <1>1, <1>2, Zenon DEF SweepFault

\* Late removals, the world outside, the clock, and a Redis that lost its data.
LEMMA TypeElse ==
  ASSUME TypeOK,
         \/ \E s \in Sandbox : LateRemoval(s) \/ Outside(s) \/ TimePasses(s)
         \/ RedisLoss
         \/ UNCHANGED vars
  PROVE  TypeOK'
<1> USE TypeSame DEF TypeOK
<1>1. ASSUME NEW s \in Sandbox, LateRemoval(s) PROVE TypeOK'
  <2>1. RuntimeTypeOK'
    BY <1>1
       DEF LateRemoval, GhostLook, GhostFind, GhostRemove, GhostSpares, Gone,
           RuntimeTypeOK, ContainerState, Creator
  <2> QED
    BY <1>1, <2>1 DEF LateRemoval
<1>2. ASSUME NEW s \in Sandbox, Outside(s) PROVE TypeOK'
  <2>1. RuntimeTypeOK'
    BY <1>2
       DEF Outside, ContainerExits, ContainerVanishes, Gone, RuntimeTypeOK,
           ContainerState, Creator
  <2> QED
    BY <1>2, <2>1 DEF Outside
<1>3. ASSUME NEW s \in Sandbox, TimePasses(s) PROVE TypeOK'
  BY <1>3 DEF TimePasses, Tick, Age, StoreTypeOK
<1>4. CASE RedisLoss
  BY <1>4, QueueAssumption DEF RedisLoss, FlushRedis, QueueTypeOK
<1>5. CASE UNCHANGED vars
  BY <1>5 DEF vars
<1> QED
  BY <1>1, <1>2, <1>3, <1>4, <1>5, Zenon

\* Every step preserves the types.
LEMMA TypeStep == TypeOK /\ [Next]_vars => TypeOK'
BY TypeNewCall, TypeCallStep, TypeCallFault, TypeJobStep, TypeStarter,
   TypeStopper, TypeHandlerFault, TypeGhost, TypeSweep, TypeSweepFault,
   TypeElse, Zenon
   DEF Next

\* They hold of an empty table, an empty Redis and a daemon with strays.
LEMMA TypeInit == Init => TypeOK
<1> USE StoreAssumption, QueueAssumption DEF Init
<1> SUFFICES ASSUME Init PROVE TypeOK
  OBVIOUS
<1>1. StoreTypeOK
  BY DEF StoreInit, StoreTypeOK, Age
<1>2. QueueTypeOK
  BY DEF QueueInit, QueueTypeOK
<1>3. RuntimeTypeOK
  BY DEF RuntimeInit, RuntimeTypeOK, ContainerState, Creator
<1>4. ApiTypeOK
  BY DEF ApiInit, ApiTypeOK, CallStep, NoTargetYet
<1>5. WorkerTypeOK
  BY DEF WorkerInit, WorkerTypeOK, StartStep, StopStep
<1>6. ReaperTypeOK
  BY DEF ReaperInit, ReaperTypeOK, SweepStep
<1> QED
  BY <1>1, <1>2, <1>3, <1>4, <1>5, <1>6 DEF TypeOK

\* Every variable keeps its type, whatever the numbers of sandboxes, requests
\* sweeps and faults.  What is not plain in it: arq's counter never passes
\* max_tries, so ctx["job_try"] does not either, and a request has a sandbox
\* exactly from its insert (POST) or its read (DELETE) on.
THEOREM TypeCorrect == Spec => []TypeOK
BY TypeInit, TypeStep, PTL DEF Spec
=============================================================================

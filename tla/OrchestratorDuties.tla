------------------------- MODULE OrchestratorDuties -------------------------
(***************************************************************************)
(* What Orchestrator owes a sandbox.  One that has ended stays without     *)
(* container; one that is reported as failed because its container         *)
(* disappeared was robbed of it; an accepted start or stop always has      *)
(* somebody who is to carry it through.                                    *)
(***************************************************************************)
EXTENDS OrchestratorSafety

-----------------------------------------------------------------------------
(* What is gone *)

\* ... is left gone by start handlers: a launch begins with the claim of a row
\* that is still wanted, and a claim with a look at the clock.
LEMMA StartLeavesGone ==
  ASSUME Before, NEW a \in Sandbox, StartGuarantee(a),
         NEW s \in Sandbox, GoneForGood(s)
  PROVE  GoneForGood(s)'
<1> USE DEF Before, IInv, TypeOK, StartGuarantee
<1>1. /\ status[s] \in NoContainerWanted => status'[s] \in NoContainerWanted
      /\ RowExpired(s) => RowExpired(s)'
  BY RowFacts DEF RowExpired
<1>2. CASE s # a
  BY <1>1, <1>2 DEF GoneForGood, StartProgram, StartContainer, OneContainer
<1>3. CASE s = a
  <2>1. s \in Stray => starter[s] = "idle"
    BY DEF RowFirst
  <2>2. starter[s] \notin Launching
    BY <2>1 DEF GoneForGood, Launching
  <2>3. container'[s] = "absent" /\ ~Pending(s)'
    BY <1>3, <2>2 DEF GoneForGood, StartContainer
  <2>4. status[s] \in NoContainerWanted => starter'[s] \notin Launching
    BY <1>3, <2>2 DEF StartProgram, NoContainerWanted, Startable
  <2>5. RowExpired(s) /\ starter[s] # "claim" => starter'[s] \notin Launching \cup {"claim"}
    BY <1>3, <2>2 DEF StartProgram
  <2> QED
    BY <1>1, <2>1, <2>3, <2>4, <2>5 DEF GoneForGood
<1> QED
  BY <1>2, <1>3

\* ... and by everybody else, who create nothing on their own.
LEMMA OthersLeaveGone ==
  ASSUME Before, NEW s \in Sandbox, GoneForGood(s),
         UNCHANGED starter,
         container'[s] # "absent" => container[s] # "absent" \/ Pending(s),
         Pending(s)' => Pending(s),
         RowExpired(s) => RowExpired(s)'
  PROVE  GoneForGood(s)'
BY RowFacts DEF Before, IInv, GoneForGood

\* Every step leaves it gone.
LEMMA StepLeavesGone ==
  ASSUME IInv, [Next]_vars, NEW s \in Sandbox, GoneForGood(s)
  PROVE  GoneForGood(s)'
<1>0. Before
  BY StepMovesRowsOn DEF IInv, Before
<1> USE <1>0, OthersLeaveGone DEF RowExpired
<1>1. ASSUME NEW r \in Request, ApiGuarantee(r) PROVE GoneForGood(s)'
  BY <1>1 DEF ApiGuarantee, runtimeVars, workerVars, Pending
<1>2. ASSUME NEW a \in Sandbox, StartGuarantee(a) PROVE GoneForGood(s)'
  BY <1>2, StartLeavesGone
<1>3. ASSUME NEW a \in Sandbox, StopGuarantee(a) PROVE GoneForGood(s)'
  BY <1>3 DEF StopGuarantee, StopProgram, StopContainer, OneContainer
<1>4. ASSUME NEW w \in Sweeper, SweepGuarantee(w) PROVE GoneForGood(s)'
  BY <1>4 DEF SweepGuarantee, SweepContainers, workerVars
<1>5. ASSUME NEW a \in Sandbox, DockerGuarantee(a) PROVE GoneForGood(s)'
  BY <1>5 DEF DockerGuarantee, OneContainer, storeVars, workerVars
<1>6. ASSUME QueueGuarantee \/ TimeGuarantee \/ UNCHANGED vars PROVE GoneForGood(s)'
  BY <1>6 DEF QueueGuarantee, TimeGuarantee, vars, storeVars, runtimeVars, workerVars, Pending
<1> QED
  BY <1>1, <1>2, <1>3, <1>4, <1>5, <1>6, StepGuarantee, Zenon DEF IInv, Surroundings

\* No delivery, retry, abandoned launch thread or sweep brings a container back to
\* a sandbox that has ended or never had a row: start_sandbox claims its row after
\* it has read it and before it launches, and nothing else creates containers.
THEOREM GoneStaysGone == Spec => WhatIsGoneStaysGone
<1>1. IInv /\ [Next]_vars => [\A s \in Sandbox : GoneForGood(s) => GoneForGood(s)']_vars
  BY StepLeavesGone
<1> QED
  BY <1>1, InvariantCorrect, PTL DEF Spec, WhatIsGoneStaysGone

-----------------------------------------------------------------------------
(* What is missing *)

\* Faults are counted and never forgotten.
LEMMA FaultsMount ==
  ASSUME TypeOK, [Next]_vars
  PROVE  faults' \in Nat /\ faults' >= faults /\ (disrupted => disrupted')
BY DEF Next, vars, NewCall, CallStepTaken, CallFault, JobStep, StarterStepTaken,
   StopperStepTaken, HandlerFault, GhostStep, LateRemoval, Outside, TimePasses,
   SweepStepTaken, SweepFault, RedisLoss, NoFault, Fault, TypeOK

\* What all the lemmas below assume.
BeforeMissing ==
  /\ Before /\ MissingInv
  /\ faults \in Nat /\ faults' \in Nat /\ faults' >= faults

\* A label that has expired stays so.
LEMMA LabelsExpire ==
  ASSUME TypeOK, NEW s \in Sandbox, age'[s] = "live" => age[s] = "live"
  PROVE  LabelExpired(s) => LabelExpired(s)'
BY DEF LabelExpired

\* ... is explained after steps that take no container and show no sandbox.
LEMMA OthersExplain ==
  ASSUME BeforeMissing, NEW s \in Sandbox,
         Shown(s)' => Shown(s),
         container'[s] = "absent" => container[s] = "absent" \/ Taken(s)',
         Taken(s) => Taken(s)',
         LabelExpired(s) => LabelExpired(s)',
         \A w \in Sweeper :
           sweep[w] = "settle" /\ at[w] = s =>
             faults' > faults \/ ~Shown(s)' \/ (sweep'[w] = "settle" /\ at'[w] = s)
  PROVE  Shown(s)' /\ container'[s] = "absent" => Explained(s)'
BY DEF BeforeMissing, MissingInv, MissingIsExplained, Explained, Taken

\* ... by start handlers: they remove only what they no longer publish.
LEMMA StartExplains ==
  ASSUME BeforeMissing, NEW a \in Sandbox, StartGuarantee(a), NEW s \in Sandbox
  PROVE  Shown(s)' /\ container'[s] = "absent" => Explained(s)'
<1> USE DEF BeforeMissing, Before, IInv, TypeOK, StartGuarantee, reaperVars, Taken
<1>1. ASSUME Shown(s)', container'[s] = "absent"
      PROVE  Shown(s) /\ container[s] = "absent" /\ (Taken(s) => Taken(s)')
  <2>1. CASE s # a
    BY <1>1, <2>1 DEF Shown, StartRow, StartProgram, StartContainer, OneContainer
  <2>2. CASE s = a
    <3>1. status'[s] = "running"
      BY <1>1, <2>2 DEF Shown, StartContainer
    <3>2. CASE status[s] = "running"
      BY <1>1, <2>2, <3>2 DEF Shown, ClaimHeld, Launching, NoContainerWanted, StartContainer
    <3>3. CASE status[s] # "running"
      BY <1>1, <2>2, <3>1, <3>3 DEF Shown, StartRow, runtimeVars
    <3> QED
      BY <3>2, <3>3
  <2> QED
    BY <2>1, <2>2
<1> QED
  BY <1>1, OthersExplain DEF LabelExpired

\* ... by stop handlers: they remove only what is not shown.
LEMMA StopExplains ==
  ASSUME BeforeMissing, NEW a \in Sandbox, StopGuarantee(a), NEW s \in Sandbox
  PROVE  Shown(s)' /\ container'[s] = "absent" => Explained(s)'
<1> USE DEF BeforeMissing, Before, IInv, TypeOK, StopGuarantee, reaperVars
<1>1. ASSUME Shown(s)' PROVE Shown(s)
  BY <1>1 DEF Shown, StopRow, StopProgram
<1>2. Shown(s)' => container'[s] = container[s]
  BY <1>1 DEF Shown, StopIntent, NoContainerWanted, StopContainer, OneContainer
<1> QED
  BY <1>1, <1>2, OthersExplain DEF LabelExpired, StopContainer, Taken

\* ... by sweeps: they go on to the row of what they removed, or fail.
LEMMA SweepExplains ==
  ASSUME BeforeMissing, NEW w \in Sweeper, SweepGuarantee(w), NEW s \in Sandbox
  PROVE  Shown(s)' /\ container'[s] = "absent" => Explained(s)'
<1> USE DEF BeforeMissing, Before, IInv, TypeOK, SweepGuarantee, workerVars
<1>1. ASSUME Shown(s)' PROVE Shown(s)
  BY <1>1 DEF Shown, SweepRows
<1>2. Shown(s)' => status'[s] \in Active
  BY DEF Shown, Active
<1>3. CASE container'[s] = container[s]
  BY <1>1, <1>2, <1>3, OthersExplain DEF LabelExpired, SweepContainers, SweepProgram, Taken
<1>4. CASE container'[s] # container[s]
  <2> SUFFICES ASSUME Shown(s)' PROVE Explained(s)'
    OBVIOUS
  <2>1. s \in todo[w] /\ (faults' > faults \/ (sweep'[w] = "settle" /\ at'[w] = s))
    BY <1>4 DEF SweepContainers
  <2>2. status[s] \notin NoContainerWanted \cup {"none"}
    BY <1>1 DEF Shown, NoContainerWanted
  <2>3. LabelExpired(s)'
    BY <2>1, <2>2 DEF ReapIntent, RowFirst, LabelExpired
  <2> QED
    BY <2>1, <2>3 DEF Explained
<1> QED
  BY <1>3, <1>4

\* Every step of anybody leaves what is missing explained.
LEMMA StepExplains ==
  ASSUME BeforeMissing, [Next]_vars
  PROVE  MissingIsExplained'
<1> SUFFICES ASSUME NEW s \in Sandbox
             PROVE  Shown(s)' /\ container'[s] = "absent" => Explained(s)'
  BY DEF MissingIsExplained
<1>1. ASSUME NEW r \in Request, ApiGuarantee(r)
      PROVE  Shown(s)' /\ container'[s] = "absent" => Explained(s)'
  BY <1>1, OthersExplain
     DEF ApiGuarantee, ApiRows, Shown, LabelExpired, Taken, runtimeVars, workerVars, reaperVars
<1>2. ASSUME NEW a \in Sandbox, DockerGuarantee(a)
      PROVE  Shown(s)' /\ container'[s] = "absent" => Explained(s)'
  BY <1>2, OthersExplain
     DEF DockerGuarantee, OneContainer, Shown, LabelExpired, Taken, storeVars, workerVars,
         reaperVars
<1>3. ASSUME QueueGuarantee \/ TimeGuarantee \/ UNCHANGED vars
      PROVE  Shown(s)' /\ container'[s] = "absent" => Explained(s)'
  BY <1>3, OthersExplain
     DEF QueueGuarantee, TimeGuarantee, vars, Shown, LabelExpired, Taken, storeVars,
         runtimeVars, workerVars, reaperVars
<1> QED
  BY <1>1, <1>2, <1>3, StartExplains, StopExplains, SweepExplains, StepGuarantee, Zenon
     DEF BeforeMissing, Before, IInv, Surroundings

\* With one sweep, what it is about to call disappeared stays taken until it does.
LEMMA StepKeepsVanished ==
  ASSUME BeforeMissing, OneSweep, [Next]_vars,
         NEW w \in Sweeper, NEW s \in gone'[w],
         sweep'[w] \notin {"idle", "list"}, status'[s] = "running", s \in Sandbox
  PROVE  Taken(s)' \/ (LabelExpired(s)' /\ faults' > 0)
<1> USE DEF BeforeMissing, Before, IInv, TypeOK, reaperVars, Taken
<1>0. s \in gone[w] /\ sweep[w] \notin {"idle", "list"} /\ status[s] = "running"
        => Taken(s) \/ (LabelExpired(s) /\ faults > 0)
  BY DEF MissingInv, VanishedIsLost
<1>1. ASSUME NEW r \in Request, ApiGuarantee(r)
      PROVE  Taken(s)' \/ (LabelExpired(s)' /\ faults' > 0)
  BY <1>0, <1>1 DEF ApiGuarantee, ApiRows, LabelExpired, runtimeVars
<1>2. ASSUME NEW a \in Sandbox, StartGuarantee(a)
      PROVE  Taken(s)' \/ (LabelExpired(s)' /\ faults' > 0)
  <2>1. status[s] = "running"
    BY <1>2 DEF SeenRunning, StartGuarantee, StartRow, NoContainerWanted
  <2>2. Taken(s) => Taken(s)'
    BY <1>2, <2>1 DEF StartGuarantee, StartContainer, ClaimHeld, Launching, NoContainerWanted
  <2> QED
    BY <1>0, <1>2, <2>1, <2>2 DEF StartGuarantee, LabelExpired
<1>3. ASSUME NEW a \in Sandbox, StopGuarantee(a)
      PROVE  Taken(s)' \/ (LabelExpired(s)' /\ faults' > 0)
  BY <1>0, <1>3 DEF StopGuarantee, StopRow, StopContainer, LabelExpired
<1>4. ASSUME NEW v \in Sweeper, SweepGuarantee(v)
      PROVE  Taken(s)' \/ (LabelExpired(s)' /\ faults' > 0)
  <2>1. v = w
    BY DEF OneSweep
  <2>2. status[s] = "running" /\ s \in gone[w] /\ sweep[w] # "idle"
    BY <1>4, <2>1 DEF SweepGuarantee, SweepRows, SweepProgram
  <2>3. CASE sweep[w] = "list"
    <3>1. container[s] = "absent"
      BY <1>4, <2>1, <2>3 DEF SweepGuarantee, SweepProgram
    <3>2. Taken(s) \/ (LabelExpired(s) /\ faults > 0)
      BY <2>2, <2>3, <3>1 DEF MissingInv, MissingIsExplained, Shown, Explained, OneSweep
    <3> QED
      BY <1>4, <3>2 DEF SweepGuarantee, SweepContainers, LabelExpired
  <2>4. CASE sweep[w] # "list"
    BY <1>0, <1>4, <2>2, <2>4 DEF SweepGuarantee, SweepContainers, LabelExpired
  <2> QED
    BY <2>3, <2>4
<1>5. ASSUME NEW a \in Sandbox, DockerGuarantee(a)
      PROVE  Taken(s)' \/ (LabelExpired(s)' /\ faults' > 0)
  BY <1>0, <1>5 DEF DockerGuarantee, LabelExpired, storeVars
<1>6. ASSUME QueueGuarantee \/ TimeGuarantee \/ UNCHANGED vars
      PROVE  Taken(s)' \/ (LabelExpired(s)' /\ faults' > 0)
  BY <1>0, <1>6 DEF QueueGuarantee, TimeGuarantee, vars, LabelExpired, storeVars, runtimeVars
<1> QED
  BY <1>1, <1>2, <1>3, <1>4, <1>5, <1>6, StepGuarantee, Zenon DEF Surroundings

\* MissingInv holds at the start and is kept, for any number of sweeps.
LEMMA MissingStep == IInv /\ MissingInv /\ [Next]_vars => MissingInv'
<1> SUFFICES ASSUME IInv, MissingInv, [Next]_vars PROVE MissingInv'
  OBVIOUS
<1>1. BeforeMissing
  BY StepMovesRowsOn, FaultsMount DEF BeforeMissing, Before, IInv, TypeOK
<1>2. gone' \in [Sweeper -> SUBSET Sandbox]
  BY TypeStep DEF IInv, TypeOK, ReaperTypeOK
<1>3. VanishedIsLost'
  BY <1>1, <1>2, StepKeepsVanished DEF VanishedIsLost, OneSweep
<1> QED
  BY <1>1, <1>3, StepExplains DEF MissingInv

\* Whatever a handler or a sweep does, a container that is missing from a sandbox
\* shown as running was taken by somebody outside or by a call given up on, or its
\* time was over and a sweep has just removed it or failed.
THEOREM MissingExplained == Spec => []MissingInv
<1>1. Init => MissingInv
  BY DEF Init, StoreInit, WorkerInit, ReaperInit, MissingInv, MissingIsExplained,
         VanishedIsLost, Shown
<1> QED
  BY <1>1, MissingStep, InvariantCorrect, PTL DEF Spec

\* With one sweep at a time, reconcile_sandboxes fails a row as "container
\* disappeared" only if somebody outside took the container, or a call given up on
\* did, or its time is over and an earlier sweep or removal failed: never for what
\* it removed itself.
THEOREM LostDisappear ==
  ASSUME OneSweep
  PROVE  Spec => OnlyTheLostDisappear
<1> DEFINE Vanished ==
      \A w \in Sweeper, s \in Sandbox :
        sweep[w] = "reap" /\ s \in gone[w] \ gone'[w] /\ status'[s] # status[s]
          => Taken(s) \/ (LabelExpired(s) /\ faults > 0)
<1>1. IInv /\ MissingInv /\ [Next]_vars => [Vanished]_vars
  <2> SUFFICES ASSUME IInv, MissingInv, Next,
                      NEW w \in Sweeper, NEW s \in Sandbox,
                      sweep[w] = "reap", s \in gone[w] \ gone'[w], status'[s] # status[s]
               PROVE  Taken(s) \/ (LabelExpired(s) /\ faults > 0)
    OBVIOUS
  <2>1. PICK v \in Sweeper : SweepGuarantee(v)
    BY StepGuarantee, Zenon
       DEF IInv, Surroundings, ApiGuarantee, StartGuarantee, StopGuarantee, QueueGuarantee,
           DockerGuarantee, TimeGuarantee, reaperVars
  <2>2. status[s] = "running"
    BY <2>1 DEF OneSweep, SweepGuarantee, SweepProgram
  <2> QED
    BY <2>2 DEF MissingInv, VanishedIsLost
<1> QED
  BY <1>1, MissingExplained, InvariantCorrect, PTL DEF Spec, OnlyTheLostDisappear

-----------------------------------------------------------------------------
(* What is owed *)

USE DEF NoFault, Fault, ApiAlone, WorkerAlone, ReaperAlone, RuntimeAlone

\* What has to be shown of every step.
DutyKept(s) ==
  /\ ~disrupted' /\ StartDuty(s) => StartDuty(s)'
  /\ faults = 0 /\ faults' = 0 /\ StopDuty(s) => StopDuty(s)'

\* Nothing changes for the start of s ...
StartUntouched(s) ==
  /\ status'[s] \in Startable => status[s] \in Startable
  /\ starter'[s] = starter[s]
  /\ StartJob(s) \in jobs => StartJob(s) \in jobs'
  /\ tries'[StartJob(s)] = tries[StartJob(s)]
  /\ attempt'[StartJob(s)] = attempt[StartJob(s)]
  /\ UNCHANGED <<call, target>>

\* ... nor for its stop.
StopUntouched(s) ==
  /\ status'[s] = "stopping" => status[s] = "stopping"
  /\ stopper'[s] = stopper[s]
  /\ StopJob(s) \in jobs => StopJob(s) \in jobs'
  /\ tries'[StopJob(s)] = tries[StopJob(s)]
  /\ attempt'[StopJob(s)] = attempt[StopJob(s)]
  /\ UNCHANGED <<call, target>>

\* Then the duty is kept.
LEMMA StartDutyStays == \A s : StartUntouched(s) /\ StartDuty(s) => StartDuty(s)'
BY DEF StartUntouched, StartDuty

\* The same of a stop.
LEMMA StopDutyStays == \A s : StopUntouched(s) /\ StopDuty(s) => StopDuty(s)'
BY DEF StopUntouched, StopDuty

\* A step that leaves queue, handlers and requests alone touches no duty.
LEMMA RowsKeepDuties ==
  ASSUME NEW s \in Sandbox, UNCHANGED <<jobs, tries, workerVars, apiVars>>,
         status'[s] \in Startable => status[s] \in Startable,
         status'[s] = "stopping" => status[s] = "stopping"
  PROVE  DutyKept(s)
BY StartDutyStays, StopDutyStays
   DEF DutyKept, StartUntouched, StopUntouched, workerVars, apiVars

\* The queue's operations on one job, and its handler's count of tries, leave
\* the others alone.
OneJob(j) ==
  \A i \in Job \ {j} :
    (i \in jobs => i \in jobs') /\ tries'[i] = tries[i] /\ attempt'[i] = attempt[i]

\* A pick-up counts one try of one job.
LEMMA PickedUp ==
  ASSUME TypeOK, NEW j \in Job, PickUp(j)
  PROVE  /\ UNCHANGED jobs /\ j \in jobs
         /\ tries'[j] = tries[j] + 1 /\ tries[j] \in Nat
         /\ \A i \in Job \ {j} : tries'[i] = tries[i]
BY QueueAssumption DEF PickUp, TypeOK, QueueTypeOK

\* The end of a job forgets its tries only.
LEMMA Finished ==
  ASSUME TypeOK, NEW j \in Job, FinishJob(j)
  PROVE  /\ tries'[j] = 0
         /\ \A i \in Job \ {j} : (i \in jobs => i \in jobs') /\ tries'[i] = tries[i]
BY DEF FinishJob, TypeOK, QueueTypeOK

\* The handler of a job that ends forgets its own try only.
LEMMA HandlerEnded ==
  ASSUME TypeOK, NEW s \in Sandbox
  PROVE  /\ StarterEnds(s) =>
              /\ attempt'[StartJob(s)] = 0
              /\ \A i \in Job \ {StartJob(s)} : attempt'[i] = attempt[i]
         /\ StopperEnds(s) =>
              /\ attempt'[StopJob(s)] = 0
              /\ \A i \in Job \ {StopJob(s)} : attempt'[i] = attempt[i]
BY JobIds DEF StarterEnds, StopperEnds, TypeOK, WorkerTypeOK

\* The steps of a start handler that may be taken while nothing is disrupted.
StartActs(a) ==
  \/ PickStart(a) /\ WorkerAlone
  \/ StarterStepTaken(a)
  \/ (StartFails(a) \/ StartDiscardFails(a)) /\ Fault("docker") /\ WorkerAlone

\* ... go by the job of that sandbox alone.
LEMMA StartHandlerJobs ==
  ASSUME TypeOK, NEW a \in Sandbox, StartActs(a)
  PROVE  OneJob(StartJob(a))
<1> USE JobIds DEF OneJob, queueVars
<1>1. CASE PickStart(a)
  BY <1>1, PickedUp DEF PickStart, TypeOK, WorkerTypeOK
<1>2. CASE StartReturn(a)
  BY <1>2, Finished, HandlerEnded DEF StartReturn
<1>3. CASE StartRetry(a)
  BY <1>3, HandlerEnded DEF StartRetry, RequeueJob
<1>4. CASE \E step : StartAt(a, step) /\ UNCHANGED queueVars
  BY <1>4 DEF StartAt
<1> QED
  BY <1>1, <1>2, <1>3, <1>4
     DEF StartActs, StarterStepTaken, StarterContinues, StartRead, StartExpire, StartClaim, StartLook, StartClear,
         StartCreate, StartBoot, StartProbe, StartDiscard, StartSettle, StartPublish,
         StartFails, StartDiscardFails

\* A start handler that goes on keeps its own duty, if it returns from settled
\* rows only and retries only when a try is left.
LEMMA OwnStartGoesOn ==
  ASSUME TypeOK, NEW a \in Sandbox, NEW step, StartAt(a, step),
         UNCHANGED <<queueVars, apiVars>>, starter[a] # "idle", StartDuty(a),
         step # "idle",
         step = "retry" => attempt[StartJob(a)] < MaxTries,
         step = "return" => status'[a] \notin Startable
  PROVE  StartDuty(a)'
<1>1. starter'[a] = step /\ UNCHANGED <<stopper, attempt>>
  BY StarterAt DEF TypeOK
<1>2. /\ StartJob(a) \in jobs
      /\ attempt[StartJob(a)] = tries[StartJob(a)] /\ tries[StartJob(a)] # 0
  BY DEF StartDuty
<1> QED
  BY <1>1, <1>2 DEF StartDuty, queueVars

\* What the row is after each compare-and-set of a start handler.
LEMMA OwnStartContinues ==
  ASSUME IInv, NEW a \in Sandbox, StartActs(a), ~PickStart(a), StartDuty(a)
  PROVE  StartDuty(a)'
<1> USE OwnStartGoesOn DEF IInv, StartActs, StarterStepTaken, storeVars
<1>0. TypeOK
  OBVIOUS
<1>1. CASE StartRead(a)
  BY <1>1 DEF StartRead
<1>2. CASE StartExpire(a)
  <2>1. status'[a] \notin Startable
    BY <1>2, RowSet DEF StartExpire, TypeOK, Startable
  <2> QED
    BY <1>2, <2>1 DEF StartExpire
<1>3. CASE StartClaim(a)
  <2>1. status[a] \notin Startable => status'[a] \notin Startable
    BY <1>3, RowSet DEF StartClaim, TypeOK
  <2> QED
    BY <1>3, <2>1 DEF StartClaim
<1>4. CASE StartLook(a)
  <2>1. \E step \in {"probe", "create", "clear"} : StartAt(a, step)
    BY <1>4 DEF StartLook
  <2> QED
    BY <1>4, <2>1 DEF StartLook
<1>5. CASE StartClear(a) \/ StartCreate(a) \/ StartBoot(a) \/ StartProbe(a)
  <2>1. \E step \in {"create", "boot", "probe", "publish", "discard"} : StartAt(a, step)
    BY <1>5 DEF StartClear, StartCreate, StartBoot, StartProbe
  <2> QED
    BY <1>5, <2>1 DEF StartClear, StartCreate, StartBoot, StartProbe
<1>6. CASE StartFails(a)
  BY <1>6 DEF StartFails, Launching
<1>7. CASE StartDiscard(a) \/ StartDiscardFails(a)
  <2>1. /\ starter[a] \in {"discard", "drop"} /\ StartAt(a, AfterDiscard(a))
        /\ UNCHANGED <<storeVars, queueVars>>
    BY <1>7 DEF StartDiscard, StartDiscardFails
  <2>2. starter[a] = "drop" => status[a] \notin Startable
    BY DEF ClaimHeld, Startable, NoContainerWanted
  <2> QED
    BY <2>1, <2>2 DEF AfterDiscard
<1>8. CASE StartSettle(a)
  <2>1. status[a] \in {"starting"} \cup NoContainerWanted
    BY <1>8 DEF StartSettle, ClaimHeld
  <2>2. /\ status[a] # "starting" => status'[a] \notin Startable
        /\ ~(attempt[StartJob(a)] < MaxTries) => status'[a] \notin Startable
    BY <1>8, <2>1, RowSet DEF StartSettle, TypeOK, Startable, NoContainerWanted
  <2> QED
    BY <1>8, <2>2 DEF StartSettle
<1>9. CASE StartPublish(a)
  <2>1. status[a] = "starting" => status'[a] \notin Startable
    BY <1>9, RowSet DEF StartPublish, TypeOK, Startable
  <2> QED
    BY <1>9, <2>1 DEF StartPublish
<1>10. CASE StartReturn(a)
  <2>1. status'[a] \notin Startable
    BY <1>10 DEF StartReturn, StartDuty
  <2>2. starter'[a] = "idle" /\ attempt'[StartJob(a)] = 0 /\ tries'[StartJob(a)] = 0
    BY <1>10, StarterOver, HandlerEnded, Finished, JobIds DEF StartReturn, TypeOK
  <2> QED
    BY <2>1, <2>2, QueueAssumption DEF StartDuty
<1>11. CASE StartRetry(a)
  <2>1. starter'[a] = "idle" /\ attempt'[StartJob(a)] = 0 /\ UNCHANGED <<jobs, tries>>
    BY <1>11, StarterOver, HandlerEnded DEF StartRetry, RequeueJob, TypeOK
  <2> QED
    BY <1>11, <2>1 DEF StartRetry, StartDuty
<1> QED
  BY <1>1, <1>2, <1>3, <1>4, <1>5, <1>6, <1>7, <1>8, <1>9, <1>10, <1>11, Zenon
     DEF StartActs, StarterStepTaken, StarterContinues

\* A start handler keeps its own duty, and begins it with the job's next try.
LEMMA OwnStart ==
  ASSUME IInv, NEW a \in Sandbox, StartActs(a), StartDuty(a)
  PROVE  StartDuty(a)'
<1>1. CASE PickStart(a)
  <2> USE JobIds DEF IInv, TypeOK
  <2>1. /\ UNCHANGED jobs /\ StartJob(a) \in jobs
        /\ tries'[StartJob(a)] = tries[StartJob(a)] + 1 /\ tries[StartJob(a)] \in Nat
    BY <1>1, PickedUp DEF PickStart
  <2>2. starter'[a] = "read" /\ attempt'[StartJob(a)] = tries[StartJob(a)] + 1
    BY <1>1 DEF PickStart, WorkerTypeOK
  <2> QED
    BY <2>1, <2>2 DEF StartDuty
<1> QED
  BY <1>1, OwnStartContinues

\* Start handlers keep all duties.
LEMMA StartHandlerDuties ==
  ASSUME IInv, NEW a \in Sandbox, StartActs(a), NEW s \in Sandbox
  PROVE  DutyKept(s)
<1> USE JobIds, JobsApart DEF IInv
<1>1. OneJob(StartJob(a))
  BY StartHandlerJobs
<1>2. StartGuarantee(a)
  <2>1. ASSUME StartFails(a) \/ StartDiscardFails(a), Fault("docker"), WorkerAlone
        PROVE  StartGuarantee(a)
    <3>1. StartGuarantee(a) \/ StopGuarantee(a)
      BY <2>1, HandlerFaultGuarantee DEF HandlerFault
    <3>2. starter'[a] # starter[a]
      BY <2>1, StarterAt
         DEF StartFails, StartDiscardFails, Launching, AfterDiscard, TypeOK
    <3> QED
      BY <3>1, <3>2 DEF StopGuarantee, StopProgram
  <2> QED
    BY <2>1, PickStartGuarantee, StarterGuarantee DEF StartActs
<1>3. s # a => StartUntouched(s)
  BY <1>1, <1>2 DEF StartUntouched, OneJob, StartGuarantee, StartRow, StartProgram, apiVars
<1>4. StopUntouched(s)
  BY <1>1, <1>2 DEF StopUntouched, OneJob, StartGuarantee, StartRow, StartProgram, apiVars
<1> QED
  BY <1>3, <1>4, OwnStart, StartDutyStays, StopDutyStays DEF DutyKept

\* The steps of a stop handler that may be taken while nothing is disrupted.
StopActs(a) ==
  \/ PickStop(a) /\ WorkerAlone
  \/ StopperStepTaken(a)
  \/ StopRemoveFails(a) /\ Fault("docker") /\ WorkerAlone

\* ... go by the job of that sandbox alone.
LEMMA StopHandlerJobs ==
  ASSUME TypeOK, NEW a \in Sandbox, StopActs(a)
  PROVE  OneJob(StopJob(a))
<1> USE JobIds DEF OneJob, queueVars
<1>1. CASE PickStop(a)
  BY <1>1, PickedUp DEF PickStop, TypeOK, WorkerTypeOK
<1>2. CASE StopReturn(a)
  BY <1>2, Finished, HandlerEnded DEF StopReturn
<1>3. CASE StopRetry(a)
  BY <1>3, HandlerEnded DEF StopRetry, RequeueJob
<1>4. CASE \E step : StopAt(a, step) /\ UNCHANGED queueVars
  BY <1>4 DEF StopAt
<1> QED
  BY <1>1, <1>2, <1>3, <1>4
     DEF StopActs, StopperStepTaken, StopperContinues, StopRemove, StopMark, StopRemoveFails

\* A stop handler that meets no failure keeps its own duty: it returns when its
\* row is no longer stopping, and never retries.
LEMMA OwnStop ==
  ASSUME TypeOK, NEW a \in Sandbox, StopActs(a), StopDuty(a), faults' = 0
  PROVE  StopDuty(a)'
<1> USE JobIds DEF TypeOK
<1>1. CASE PickStop(a) /\ WorkerAlone
  <2>1. /\ UNCHANGED jobs /\ StopJob(a) \in jobs /\ tries[StopJob(a)] \in Nat
    BY <1>1, PickedUp DEF PickStop
  <2>2. stopper'[a] = "remove" /\ attempt'[StopJob(a)] = tries[StopJob(a)] + 1
    BY <1>1 DEF PickStop, WorkerTypeOK
  <2> QED
    BY <2>1, <2>2 DEF StopDuty
<1>2. CASE StopperStepTaken(a)
  <2>1. CASE StopRemove(a)
    BY <1>2, <2>1, StopperAt DEF StopRemove, StopperStepTaken, StopDuty, storeVars, queueVars, apiVars
  <2>2. CASE StopMark(a)
    <3>1. status'[a] # "stopping"
      BY <2>2, RowSet DEF StopMark
    <3> QED
      BY <1>2, <2>2, <3>1, StopperAt DEF StopMark, StopDuty, queueVars
  <2>3. CASE StopReturn(a)
    <3>1. /\ stopper'[a] = "idle" /\ attempt'[StopJob(a)] = 0 /\ tries'[StopJob(a)] = 0
      BY <2>3, StopperOver, HandlerEnded, Finished DEF StopReturn
    <3> QED
      BY <2>3, <3>1 DEF StopReturn, StopDuty, storeVars
  <2>4. CASE StopRetry(a)
    BY <2>4 DEF StopRetry, StopDuty
  <2> QED
    BY <1>2, <2>1, <2>2, <2>3, <2>4 DEF StopperStepTaken, StopperContinues
<1>3. CASE StopRemoveFails(a) /\ Fault("docker")
  BY <1>3
<1> QED
  BY <1>1, <1>2, <1>3 DEF StopActs

\* Stop handlers keep all duties.
LEMMA StopHandlerDuties ==
  ASSUME TypeOK, NEW a \in Sandbox, StopActs(a), NEW s \in Sandbox
  PROVE  DutyKept(s)
<1> USE JobIds, JobsApart
<1>1. OneJob(StopJob(a))
  BY StopHandlerJobs
<1>2. /\ StopRow(a) /\ StopProgram(a) /\ UNCHANGED apiVars
  <2>1. ASSUME StopRemoveFails(a), WorkerAlone PROVE StopRow(a) /\ StopProgram(a)
    BY <2>1, StopRowKept, StopProgramGoesOn DEF StopRemoveFails, storeVars
  <2> QED
    BY <2>1, PickStopGuarantee, StopperGuarantee DEF StopActs, StopGuarantee
<1>3. StartUntouched(s)
  BY <1>1, <1>2 DEF StartUntouched, OneJob, StopRow, StopProgram, Startable, apiVars
<1>4. s # a => StopUntouched(s)
  BY <1>1, <1>2 DEF StopUntouched, OneJob, StopRow, StopProgram, apiVars
<1> QED
  BY <1>3, <1>4, OwnStop, StartDutyStays, StopDutyStays DEF DutyKept

-----------------------------------------------------------------------------
\* A fault of the API, of Redis, of the database or of a worker counts, and is
\* remembered as a disruption.
LEMMA FaultDisrupts ==
  ASSUME TypeOK, NEW kind \in {"api", "redis", "db", "crash", "cut"}, Fault(kind)
  PROVE  faults' > faults /\ disrupted'
<1>1. faults' > faults
  BY DEF TypeOK
<1>2. kind \notin {"docker", "kill"}
  OBVIOUS
<1>3. disrupted'
  BY <1>2, Zenon
<1> QED
  BY <1>1, <1>3

\* What a request leaves behind: jobs stay, a row that becomes startable or
\* stopping has a request to see to its job, and a request that was to enqueue
\* has done so.
ApiOwes(r) ==
  /\ jobs \subseteq jobs' /\ UNCHANGED <<tries, workerVars>>
  /\ \A q \in Request \ {r} : call'[q] = call[q] /\ target'[q] = target[q]
  /\ \A s \in Sandbox :
       /\ status[s] \notin Startable /\ status'[s] \in Startable =>
            status[s] = "none" /\ call'[r] = "enqueue" /\ target'[r] = s
       /\ status[s] # "stopping" /\ status'[s] = "stopping" =>
            call'[r] = "recheck" /\ target'[r] = s
  /\ call[r] = "enqueue" => StartJob(target[r]) \in jobs' \/ disrupted'
  /\ call[r] = "recheck" /\ status[target[r]] = "stopping" =>
       (call'[r] = "enqueueStop" /\ target'[r] = target[r]) \/ faults' > faults
  /\ call[r] = "enqueueStop" => StopJob(target[r]) \in jobs' \/ faults' > faults

\* Every step of a request does.
LEMMA RequestOwes ==
  ASSUME TypeOK, NEW r \in Request, NewCall(r) \/ CallStepTaken(r) \/ CallFault(r)
  PROVE  ApiOwes(r)
<1> USE DEF TypeOK, storeVars, queueVars, workerVars
<1>1. CASE NewCall(r)
  BY <1>1 DEF NewCall, PostLookup, DeleteRead, ApiOwes, ApiTypeOK
<1>2. CASE CallStepTaken(r)
  <2> USE DEF CallStepTaken
  <2>1. CASE PostCount(r)
    BY <1>2, <2>1, CallAnswered, CallGoesOn DEF PostCount, ApiOwes
  <2>2. ASSUME NEW s \in Sandbox, PostInsert(r, s) PROVE ApiOwes(r)
    BY <1>2, <2>2 DEF PostInsert, InsertRow, ApiOwes, ApiTypeOK, StoreTypeOK
  <2>3. CASE PostConflict(r)
    BY <1>2, <2>3, CallAnswered DEF PostConflict, ApiOwes
  <2>4. CASE PostEnqueue(r)
    BY <1>2, <2>4, CallAnswered DEF PostEnqueue, Enqueue, ApiOwes
  <2>5. CASE PostMarkFailed(r)
    <3>1. \A s \in Sandbox : status'[s] \in {status[s], "failed"}
      BY <2>5 DEF PostMarkFailed, MarkFailed, StoreTypeOK
    <3> QED
      BY <1>2, <2>5, <3>1, CallAnswered DEF PostMarkFailed, ApiOwes, Startable
  <2>6. CASE DeleteMark(r)
    <3>1. target[r] \in Sandbox
      BY <2>6 DEF DeleteMark, ApiTypeOK, NoTargetYet
    <3>2. \A s \in Sandbox :
            status'[s] = status[s] \/ (s = target[r] /\ status[s] \in Active /\ status'[s] = "stopping")
      BY <2>6, <3>1, RowSet DEF DeleteMark
    <3> QED
      BY <1>2, <2>6, <3>1, <3>2, CallGoesOn DEF DeleteMark, ApiOwes, Startable, Active
  <2>7. CASE DeleteRecheck(r)
    BY <1>2, <2>7, CallAnswered, CallGoesOn DEF DeleteRecheck, ApiOwes
  <2>8. CASE DeleteEnqueue(r)
    BY <1>2, <2>8, CallAnswered DEF DeleteEnqueue, Enqueue, ApiOwes
  <2> QED
    BY <1>2, <2>1, <2>2, <2>3, <2>4, <2>5, <2>6, <2>7, <2>8 DEF CallContinues
<1>3. CASE CallFault(r)
  <2>0. faults' > faults /\ disrupted'
    BY <1>3, FaultDisrupts DEF CallFault
  <2> USE <2>0 DEF CallFault
  <2>1. CASE PostEnqueueFails(r)
    BY <1>3, <2>1, CallGoesOn DEF PostEnqueueFails, EnqueueRaises, ApiOwes
  <2>2. CASE DeleteEnqueueFails(r)
    BY <1>3, <2>2, CallAnswered DEF DeleteEnqueueFails, EnqueueRaises, ApiOwes
  <2>3. CASE CallCrash(r)
    BY <1>3, <2>3, CallAnswered DEF CallCrash, ApiOwes
  <2> QED
    BY <1>3, <2>1, <2>2, <2>3 DEF CallFault
<1> QED
  BY <1>1, <1>2, <1>3

\* Requests keep all duties.
LEMMA RequestDuties ==
  ASSUME IInv, NEW r \in Request, NewCall(r) \/ CallStepTaken(r) \/ CallFault(r),
         NEW s \in Sandbox
  PROVE  DutyKept(s)
<1> USE DEF IInv, TypeOK
<1>1. ApiOwes(r)
  BY RequestOwes
<1>2. ASSUME ~disrupted', StartDuty(s) PROVE StartDuty(s)'
  <2>1. ASSUME status'[s] \in Startable
        PROVE  StartJob(s) \in jobs' \/ \E q \in Request : call'[q] = "enqueue" /\ target'[q] = s
    <3>1. CASE status[s] \in Startable
      BY <1>1, <1>2, <3>1 DEF ApiOwes, StartDuty
    <3>2. CASE status[s] \notin Startable
      BY <1>1, <2>1, <3>2 DEF ApiOwes
    <3> QED
      BY <3>1, <3>2
  <2>2. starter[s] = "return" => status'[s] \notin Startable
    BY <1>1, <1>2 DEF ApiOwes, StartDuty, RowFirst
  <2> QED
    BY <1>1, <1>2, <2>1, <2>2 DEF ApiOwes, StartDuty, workerVars
<1>3. ASSUME faults = 0, faults' = 0, StopDuty(s) PROVE StopDuty(s)'
  <2>1. ASSUME status'[s] = "stopping"
        PROVE  \/ StopJob(s) \in jobs'
               \/ \E q \in Request : call'[q] \in {"recheck", "enqueueStop"} /\ target'[q] = s
    <3>1. CASE status[s] = "stopping"
      BY <1>1, <1>3, <3>1 DEF ApiOwes, StopDuty
    <3>2. CASE status[s] # "stopping"
      BY <1>1, <2>1, <3>2 DEF ApiOwes
    <3> QED
      BY <3>1, <3>2
  <2>2. stopper[s] = "return" => status'[s] # "stopping"
    <3>1. stopper[s] = "return" => status[s] \in {"stopped", "failed"}
      BY <1>3 DEF StopDuty, StopIntent, NoContainerWanted
    <3>2. RowsMoveOn
      BY StepMovesRowsOn DEF Next
    <3> QED
      BY <3>1, <3>2 DEF RowsMoveOn, Lifecycle!Successors
  <2> QED
    BY <1>1, <1>3, <2>1, <2>2 DEF ApiOwes, StopDuty, workerVars
<1> QED
  BY <1>2, <1>3 DEF DutyKept

-----------------------------------------------------------------------------
\* arq picks jobs up, frees those of dead workers, and drops only what was tried
\* too often, of which there is none.
LEMMA QueueDuties ==
  ASSUME IInv, NEW j \in Job, JobStep(j), NEW s \in Sandbox
  PROVE  DutyKept(s)
<1> USE JobIds, JobsApart DEF JobStep
<1>1. ASSUME NEW a \in Sandbox, PickStart(a) PROVE DutyKept(s)
  BY <1>1, StartHandlerDuties DEF StartActs
<1>2. ASSUME NEW a \in Sandbox, PickStop(a) PROVE DutyKept(s)
  BY <1>2, StopHandlerDuties DEF StopActs, IInv
<1>3. CASE KeyExpires(j)
  BY <1>3, RowsKeepDuties DEF KeyExpires, storeVars
<1>4. CASE JobDropped(j)
  <2> USE <1>4 DEF JobDropped, DropExhausted, Running
  <2>1. StartDuty(s) => j # StartJob(s)
    <3> SUFFICES ASSUME StartDuty(s), j = StartJob(s) PROVE FALSE
      OBVIOUS
    <3>1. CASE starter[s] = "idle"
      BY <3>1, QueueAssumption DEF StartDuty
    <3>2. CASE starter[s] # "idle"
      BY <3>2, QueueAssumption DEF StartDuty
    <3> QED
      BY <3>1, <3>2
  <2>2. StopDuty(s) => j # StopJob(s)
    BY QueueAssumption DEF StopDuty
  <2>3. StartDuty(s) => StartUntouched(s)
    BY <2>1, Finished DEF IInv, StartUntouched, storeVars, workerVars, apiVars
  <2>4. StopDuty(s) => StopUntouched(s)
    BY <2>2, Finished DEF IInv, StopUntouched, storeVars, workerVars, apiVars
  <2> QED
    BY <2>3, <2>4, StartDutyStays, StopDutyStays DEF DutyKept
<1> QED
  BY <1>1, <1>2, <1>3, <1>4, Zenon DEF JobStep

\* The faults of handlers that are no mere failure of Docker are disruptions.
LEMMA HandlerFaultDuties ==
  ASSUME IInv, NEW a \in Sandbox, HandlerFault(a), NEW s \in Sandbox
  PROVE  DutyKept(s)
<1> USE DEF HandlerFault
<1>1. CASE (StartFails(a) \/ StartDiscardFails(a)) /\ Fault("docker")
  BY <1>1, StartHandlerDuties DEF StartActs
<1>2. CASE StopRemoveFails(a) /\ Fault("docker")
  BY <1>2, StopHandlerDuties DEF StopActs, IInv
<1>3. CASE Fault("db") \/ Fault("crash") \/ Fault("cut")
  <2>1. faults' > faults /\ disrupted'
    BY <1>3, FaultDisrupts DEF IInv
  <2> QED
    BY <2>1 DEF DutyKept, IInv, TypeOK
<1> QED
  BY <1>1, <1>2, <1>3 DEF HandlerFault

\* Sweeps, the daemon, the clock and the world outside leave queue, handlers and
\* requests alone, and make no row startable or stopping.
LEMMA OtherDuties ==
  ASSUME IInv, NEW s \in Sandbox,
         \/ \E w \in Sweeper : SweepStepTaken(w) \/ SweepFault(w)
         \/ \E a \in Sandbox : GhostStep(a) \/ LateRemoval(a) \/ Outside(a) \/ TimePasses(a)
         \/ UNCHANGED vars
  PROVE  DutyKept(s)
<1> USE RowsKeepDuties DEF queueVars, IInv
<1>1. ASSUME NEW w \in Sweeper, SweepStepTaken(w) \/ SweepFault(w) PROVE DutyKept(s)
  BY <1>1, SweepStepGuarantee, SweepFaultGuarantee
     DEF SweepGuarantee, SweepRows, Startable
<1>2. ASSUME NEW a \in Sandbox, GhostStep(a) \/ LateRemoval(a) \/ Outside(a) PROVE DutyKept(s)
  BY <1>2, DockerStepGuarantee DEF DockerGuarantee, storeVars
<1>3. ASSUME NEW a \in Sandbox, TimePasses(a) PROVE DutyKept(s)
  BY <1>3, TimePassesGuarantee DEF TimeGuarantee
<1>4. CASE UNCHANGED vars
  BY <1>4 DEF vars, storeVars
<1> QED
  BY <1>1, <1>2, <1>3, <1>4

\* Every step keeps all duties.
LEMMA StepKeepsDuties ==
  ASSUME IInv, [Next]_vars, NEW s \in Sandbox
  PROVE  DutyKept(s)
<1>1. ASSUME NEW a \in Sandbox, StarterStepTaken(a) PROVE DutyKept(s)
  BY <1>1, StartHandlerDuties DEF StartActs
<1>2. ASSUME NEW a \in Sandbox, StopperStepTaken(a) PROVE DutyKept(s)
  BY <1>2, StopHandlerDuties DEF StopActs, IInv
<1>3. CASE RedisLoss
  BY <1>3, FaultDisrupts DEF RedisLoss, DutyKept, IInv
<1> QED
  BY <1>1, <1>2, <1>3, RequestDuties, QueueDuties, HandlerFaultDuties, OtherDuties, Zenon
     DEF Next

\* An accepted start or stop is owed by a job or by the request about to enqueue
\* it: retries of start_sandbox end exactly at job_max_tries, after which the row
\* is settled, and no handler returns before its row has moved on.
THEOREM DutiesKept == Spec => []DutyInv
<1>1. Init => DutyInv
  BY QueueAssumption, JobIds
     DEF Init, StoreInit, QueueInit, WorkerInit, DutyInv, StartDuty, StopDuty, Startable
<1>2. IInv /\ DutyInv /\ [Next]_vars => DutyInv'
  <2> SUFFICES ASSUME IInv, DutyInv, [Next]_vars, NEW s \in Sandbox
               PROVE  (~disrupted' => StartDuty(s)') /\ (faults' = 0 => StopDuty(s)')
    BY DEF DutyInv
  <2>1. (disrupted => disrupted') /\ (faults' = 0 => faults = 0)
    BY FaultsMount DEF IInv, TypeOK
  <2>2. (~disrupted => StartDuty(s)) /\ (faults = 0 => StopDuty(s))
    BY DEF DutyInv
  <2>3. DutyKept(s)
    BY StepKeepsDuties
  <2> QED
    BY <2>1, <2>2, <2>3, Zenon DEF DutyKept
<1> QED
  BY <1>1, <1>2, InvariantCorrect, PTL DEF Spec

\* While neither the API, Redis, the database nor a worker fails, a sandbox that is
\* queued or starting has its start job or a request about to enqueue it, however
\* often its launch fails (worker.py's Retry with job_try < job_max_tries).
THEOREM StartsOwed == Spec => []StartsAreOwed
<1>1. DutyInv => StartsAreOwed
  BY DEF DutyInv, StartDuty, StartsAreOwed
<1> QED
  BY <1>1, DutiesKept, PTL

\* While nothing fails, a sandbox that is stopping has its stop job or a request
\* about to enqueue it, also if the enqueue found the id taken by a handler.
THEOREM StopsOwed == Spec => []StopsAreOwed
<1>1. DutyInv => StopsAreOwed
  BY DEF DutyInv, StopDuty, StopsAreOwed
<1> QED
  BY <1>1, DutiesKept, PTL
-----------------------------------------------------------------------------
(* What the service asks of the container runtime *)

\* A step does to the containers what the runtime promises, or nothing.
RuntimeStep == RuntimeNext \/ UNCHANGED runtimeVars

\* A start handler asks Docker for one thing at a time.
LEMMA StarterAsks ==
  ASSUME NEW s \in Sandbox, StarterContinues(s) PROVE RuntimeStep
BY DEF StarterContinues, StartRead, StartExpire, StartClaim, StartLook, StartClear, StartCreate,
       StartBoot, StartProbe, StartDiscard, StartSettle, StartPublish, StartReturn, StartRetry,
       RuntimeStep, RuntimeNext

\* So does a handler that fails: a deadline or a worker that is stopped leaves its
\* thread or its request behind, a crash between two requests takes it along.
LEMMA FaultAsks ==
  ASSUME NEW s \in Sandbox, HandlerFault(s) PROVE RuntimeStep
BY DEF HandlerFault, StartFails, StartDiscardFails, StopRemoveFails, StartError, StopError,
       StartCrash, StopCrash, StartCutShort, StopCutShort, LaunchLeft, RemoveRaises,
       RuntimeStep, RuntimeNext

\* And so does a sweep.
LEMMA SweepAsks ==
  ASSUME NEW w \in Sweeper, SweepStepTaken(w) \/ SweepFault(w) PROVE RuntimeStep
BY DEF SweepStepTaken, SweepContinues, SweepFault, SweepSnapshot, SweepList, SweepClassify,
       SweepRemove, SweepStop, SweepVanish, SweepFinish, SweepAbort, SweepRemoveFails,
       RuntimeStep, RuntimeNext

\* No step of the service is more than one operation of its container runtime
\* (app/runtime.py), of which DockerRuntime shows that Docker's single requests
\* add up to it: handlers, sweeps, crashes and time meet the containers in no
\* other way.
THEOREM RuntimeAsPromised == Spec => RuntimeSpec
<1>1. Init => RuntimeInit
  BY DEF Init
<1>2. [Next]_vars => [RuntimeNext]_runtimeVars
  <2> SUFFICES ASSUME [Next]_vars PROVE RuntimeStep
    BY DEF RuntimeStep
  <2>1. ASSUME NEW r \in Request, NewCall(r) \/ CallStepTaken(r) \/ CallFault(r)
        PROVE  RuntimeStep
    BY <2>1 DEF NewCall, CallStepTaken, CallFault, ApiAlone, RuntimeStep
  <2>2. ASSUME NEW j \in Job, JobStep(j) PROVE RuntimeStep
    BY <2>2 DEF JobStep, PickStart, PickStop, KeyExpires, JobDropped, RuntimeStep
  <2>3. ASSUME NEW s \in Sandbox, StarterStepTaken(s) PROVE RuntimeStep
    BY <2>3, StarterAsks DEF StarterStepTaken
  <2>4. ASSUME NEW s \in Sandbox, StopperStepTaken(s) PROVE RuntimeStep
    BY <2>4 DEF StopperStepTaken, StopperContinues, StopRemove, StopMark, StopReturn, StopRetry,
                RuntimeStep, RuntimeNext
  <2>5. ASSUME NEW s \in Sandbox, GhostStep(s) \/ LateRemoval(s) \/ Outside(s) PROVE RuntimeStep
    BY <2>5 DEF GhostStep, LateRemoval, Outside, RuntimeStep, RuntimeNext
  <2>6. ASSUME NEW s \in Sandbox, TimePasses(s) PROVE RuntimeStep
    BY <2>6 DEF TimePasses, ApiAlone, RuntimeStep
  <2>7. CASE RedisLoss \/ UNCHANGED vars
    BY <2>7 DEF RedisLoss, ApiAlone, vars, RuntimeStep
  <2> QED
    BY <2>1, <2>2, <2>3, <2>4, <2>5, <2>6, <2>7, FaultAsks, SweepAsks DEF Next
<1> QED
  BY <1>1, <1>2, PTL DEF Spec, RuntimeSpec
=============================================================================

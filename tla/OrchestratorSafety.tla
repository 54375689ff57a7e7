------------------------- MODULE OrchestratorSafety -------------------------
(***************************************************************************)
(* The inductive invariant IInv of Orchestrator, and what follows from it: *)
(* a running sandbox keeps its container, what a sweep calls disappeared   *)
(* is gone, and statuses move as SandboxLifecycle says.  Then admission:   *)
(* by how much the cap is overshot.                                        *)
(***************************************************************************)
EXTENDS OrchestratorSteps, FiniteSetTheorems

-----------------------------------------------------------------------------
(* Rows *)

\* Statuses move along the life cycle, and stray containers never get a row.
RowsMoveOn ==
  \A s \in Sandbox :
    /\ status'[s] \in Lifecycle!Successors(status[s]) \cup {status[s]}
    /\ s \in Stray => status'[s] = "none"

\* What a row that moves on may have been, and may become.
LEMMA RowFacts ==
  ASSUME TypeOK, RowsMoveOn, NEW s \in Sandbox
  PROVE  /\ status'[s] = "none" => status[s] = "none"
         /\ status[s] \in NoContainerWanted => status'[s] \in NoContainerWanted
         /\ status[s] = "running" => status'[s] \in {"running"} \cup NoContainerWanted
         /\ s \in Stray => status'[s] = "none"
BY DEF RowsMoveOn, Lifecycle!Successors, TypeOK, StoreTypeOK, SandboxStatus,
       NoContainerWanted

\* Every step moves rows along: the mark-failed write of create_sandbox finds a
\* row, and every other write is a compare-and-set.
LEMMA StepMovesRowsOn ==
  ASSUME TypeOK, RowFirst, [Next]_vars
  PROVE  RowsMoveOn
<1> USE DEF TypeOK, StoreTypeOK, SandboxStatus, RowsMoveOn, Lifecycle!Successors, RowFirst
<1>1. ASSUME NEW r \in Request, ApiGuarantee(r) PROVE RowsMoveOn
  BY <1>1 DEF ApiGuarantee, ApiRows, Active, ApiTypeOK, NoTargetYet
<1>2. ASSUME NEW s \in Sandbox, StartGuarantee(s) PROVE RowsMoveOn
  BY <1>2 DEF StartGuarantee, StartRow, Startable
<1>3. ASSUME NEW s \in Sandbox, StopGuarantee(s) PROVE RowsMoveOn
  BY <1>3 DEF StopGuarantee, StopRow
<1>4. ASSUME NEW w \in Sweeper, SweepGuarantee(w) PROVE RowsMoveOn
  BY <1>4 DEF SweepGuarantee, SweepRows, Active
<1>5. ASSUME UNCHANGED status PROVE RowsMoveOn
  BY <1>5
<1>6. ASSUME NEW s \in Sandbox, DockerGuarantee(s) PROVE UNCHANGED status
  BY <1>6 DEF DockerGuarantee, storeVars
<1>7. QueueGuarantee \/ TimeGuarantee => UNCHANGED status
  BY DEF QueueGuarantee, TimeGuarantee
<1>8. UNCHANGED vars => UNCHANGED status
  BY DEF vars, storeVars
<1> QED
  BY StepGuarantee, <1>1, <1>2, <1>3, <1>4, <1>5, <1>6, <1>7, <1>8, Zenon DEF Surroundings

-----------------------------------------------------------------------------
(* The invariant is kept *)

\* A container removed by a call given up on: by then a call had failed.
LEMMA OvertakenLate ==
  ASSUME GivenUpLate'
  PROVE  \A s \in Sandbox : s \in overtaken' => faults' > 0
BY DEF GivenUpLate, GivenUp

\* What all the lemmas below assume.
Before == IInv /\ RowsMoveOn

\* ... by requests.
LEMMA ApiKeepsInvariant ==
  ASSUME Before, TypeOK', GivenUpLate', NEW r \in Request, ApiGuarantee(r)
  PROVE  IInv'
<1> USE DEF Before, IInv, Taken, TypeOK, ApiGuarantee, runtimeVars, workerVars, reaperVars
<1>0. \A s \in Sandbox :
        /\ status'[s] = "none" => status[s] = "none"
        /\ status[s] \in NoContainerWanted => status'[s] \in NoContainerWanted
        /\ status[s] = "running" => status'[s] \in {"running"} \cup NoContainerWanted
        /\ s \in Stray => status'[s] = "none"
  BY RowFacts
<1>1. RowFirst'
  <2>1. \A q \in Request : call'[q] \notin NoTargetYet => status'[target'[q]] # "none"
    BY <1>0 DEF RowFirst, ApiCalls, ApiTypeOK, NoTargetYet
  <2>2. \A s \in Sandbox : status'[s] = "none" => StartJob(s) \notin jobs'
    BY <1>0 DEF RowFirst, ApiJobs, NoTargetYet
  <2> QED
    BY <1>0, <2>1, <2>2, StoreAssumption DEF RowFirst, Pending
<1>2. StopIntent'
  <2>1. \A s \in Sandbox : StopJob(s) \in jobs' => status'[s] \in NoContainerWanted
    BY <1>0 DEF StopIntent, ApiJobs
  <2>2. \A q \in Request : call'[q] = "enqueueStop" => status'[target'[q]] \in NoContainerWanted
    BY <1>0 DEF StopIntent, ApiCalls, ApiTypeOK, NoTargetYet, NoContainerWanted
  <2> QED
    BY <1>0, <2>1, <2>2 DEF StopIntent, StopJob
<1>3. ReapIntent'
  BY <1>0 DEF ReapIntent, ReaperTypeOK, LabelExpired
<1>4. ClaimHeld'
  BY <1>0 DEF ClaimHeld, RowFirst, ApiRows, NoContainerWanted, Launching
<1>5. PublishedRuns'
  BY <1>0 DEF PublishedRuns, ApiRows
<1>6. SeenRunning'
  BY <1>0 DEF SeenRunning, ReaperTypeOK
<1>7. SweepIdle'
  BY DEF SweepIdle
<1>8. VanishedIsReal'
  BY DEF VanishedIsReal, ApiRows, ReaperTypeOK, LabelExpired
<1>9. LiveSandboxKeepsItsContainer'
  BY OvertakenLate DEF LiveSandboxKeepsItsContainer, ApiRows
<1> QED
  BY <1>1, <1>2, <1>3, <1>4, <1>5, <1>6, <1>7, <1>8, <1>9

\* ... by start handlers.
LEMMA StartKeepsInvariant ==
  ASSUME Before, TypeOK', GivenUpLate', NEW a \in Sandbox, StartGuarantee(a)
  PROVE  IInv'
<1> USE DEF Before, IInv, Taken, TypeOK, StartGuarantee, apiVars, reaperVars
<1>0. \A s \in Sandbox :
        /\ status'[s] = "none" => status[s] = "none"
        /\ status[s] \in NoContainerWanted => status'[s] \in NoContainerWanted
        /\ status[s] = "running" => status'[s] \in {"running"} \cup NoContainerWanted
        /\ s \in Stray => status'[s] = "none"
  BY RowFacts
<1>1. RowFirst'
  <2>1. \A s \in Sandbox : status'[s] = "none" => StartJob(s) \notin jobs' /\ starter'[s] = "idle"
    BY <1>0 DEF RowFirst, StartProgram
  <2>2. \A s \in Sandbox : status'[s] = "none" =>
          ~Pending(s)' /\ (container'[s] # "absent" => s \in Stray)
    BY <1>0 DEF RowFirst, StartContainer, OneContainer, Launching
  <2>3. \A r \in Request : call[r] \notin NoTargetYet => target[r] \in Sandbox
    BY DEF ApiTypeOK
  <2> QED
    BY <1>0, <2>1, <2>2, <2>3, StoreAssumption DEF RowFirst
<1>2. StopIntent'
  <2>1. \A r \in Request : call[r] = "enqueueStop" => target[r] \in Sandbox
    BY DEF ApiTypeOK, NoTargetYet
  <2> QED
    BY <1>0, <2>1 DEF StopIntent, StartProgram
<1>3. ReapIntent'
  BY <1>0 DEF ReapIntent, ReaperTypeOK, LabelExpired
<1>4. ClaimHeld'
  <2>1. \A s \in Sandbox \ {a} :
          starter'[s] = starter[s] /\ status'[s] = status[s]
    BY DEF StartProgram, StartRow
  <2>2. starter'[a] \in Held => status'[a] \in {"starting"} \cup NoContainerWanted
    <3>1. starter[a] \in Held => status[a] \in {"starting"} \cup NoContainerWanted
      BY DEF ClaimHeld, Held
    <3>2. starter'[a] \in Held /\ status'[a] # "starting" => status'[a] = status[a]
      BY DEF StartRow, Held, Launching
    <3> QED
      BY <3>1, <3>2 DEF StartProgram
  <2>3. starter'[a] = "drop" => status'[a] \in NoContainerWanted
    BY DEF StartProgram, ClaimHeld
  <2> QED
    BY <2>1, <2>2, <2>3 DEF ClaimHeld, Held
<1>5. PublishedRuns'
  BY DEF PublishedRuns, StartProgram, StartContainer, OneContainer, StartRow
<1>6. SeenRunning'
  BY <1>0 DEF SeenRunning, ReaperTypeOK
<1>7. SweepIdle'
  BY DEF SweepIdle
<1>8. VanishedIsReal'
  <2>1. ASSUME NEW w \in Sweeper, NEW s \in gone[w], status'[s] = "running"
        PROVE  s \in Sandbox /\ status[s] = "running" /\ (Taken(s) => Taken(s)')
    <3>1. s \in Sandbox
      BY DEF ReaperTypeOK
    <3>2. status[s] = "running"
      BY <2>1, <3>1 DEF SeenRunning, StartRow, NoContainerWanted
    <3>3. s = a => starter[s] # "probe"
      BY <3>1, <3>2 DEF ClaimHeld, Launching, NoContainerWanted
    <3> QED
      BY <3>1, <3>2, <3>3 DEF StartContainer
  <2> QED
    BY <2>1 DEF VanishedIsReal, LabelExpired
<1>9. LiveSandboxKeepsItsContainer'
  <2>1. ASSUME NEW s \in Sandbox \ {a} PROVE
          /\ status'[s] = status[s] /\ container'[s] = container[s]
          /\ s \in lost => s \in lost'
          /\ s \in overtaken => s \in overtaken'
    BY DEF StartRow, StartContainer, OneContainer
  <2>2. ASSUME status'[a] = "running", age[a] = "live", a \notin lost'
        PROVE  container'[a] = "running" \/ a \in overtaken'
    <3>1. CASE status[a] = "running"
      <4>1. starter[a] \notin {"clear", "probe", "discard", "drop"}
        BY <3>1 DEF ClaimHeld, Launching, NoContainerWanted
      <4> QED
        BY <3>1, <4>1, <2>2 DEF LiveSandboxKeepsItsContainer, StartContainer
    <3>2. CASE status[a] # "running"
      BY <3>2, <2>2 DEF StartRow, PublishedRuns, runtimeVars
    <3> QED
      BY <3>1, <3>2
  <2> QED
    BY <2>1, <2>2, OvertakenLate DEF LiveSandboxKeepsItsContainer
<1> QED
  BY <1>1, <1>2, <1>3, <1>4, <1>5, <1>6, <1>7, <1>8, <1>9

\* ... by stop handlers.
LEMMA StopKeepsInvariant ==
  ASSUME Before, TypeOK', GivenUpLate', NEW a \in Sandbox, StopGuarantee(a)
  PROVE  IInv'
<1> USE DEF Before, IInv, Taken, TypeOK, StopGuarantee, apiVars, reaperVars
<1>0. \A s \in Sandbox :
        /\ status'[s] = "none" => status[s] = "none"
        /\ status[s] \in NoContainerWanted => status'[s] \in NoContainerWanted
        /\ status[s] = "running" => status'[s] \in {"running"} \cup NoContainerWanted
        /\ s \in Stray => status'[s] = "none"
  BY RowFacts
<1>a. stopper[a] # "idle" => status[a] \in NoContainerWanted
  BY DEF StopIntent
<1>b. \A s \in Sandbox :
        /\ container'[s] # "absent" => container'[s] = container[s]
        /\ container'[s] = container[s] \/ status[s] \in NoContainerWanted
        /\ Pending(s)' => Pending(s)
  BY <1>a DEF StopContainer, OneContainer
<1>1. RowFirst'
  <2>1. \A r \in Request : call[r] \notin NoTargetYet => target[r] \in Sandbox
    BY DEF ApiTypeOK
  <2> QED
    BY <1>0, <1>b, <2>1, StoreAssumption DEF RowFirst, StopProgram
<1>2. StopIntent'
  <2>1. \A r \in Request : call[r] = "enqueueStop" => target[r] \in Sandbox
    BY DEF ApiTypeOK, NoTargetYet
  <2>2. \A s \in Sandbox : stopper'[s] # "idle" => status'[s] \in NoContainerWanted
    BY <1>0 DEF StopIntent, StopProgram
  <2> QED
    BY <1>0, <2>1, <2>2 DEF StopIntent
<1>3. ReapIntent'
  BY <1>0 DEF ReapIntent, ReaperTypeOK, LabelExpired
<1>4. ClaimHeld'
  BY <1>0 DEF ClaimHeld, StopProgram, StopRow
<1>5. PublishedRuns'
  BY <1>b DEF PublishedRuns, StopProgram, StopRow, StopContainer, NoContainerWanted
<1>6. SeenRunning'
  BY <1>0 DEF SeenRunning, ReaperTypeOK
<1>7. SweepIdle'
  BY DEF SweepIdle
<1>8. VanishedIsReal'
  BY DEF VanishedIsReal, StopRow, StopContainer, ReaperTypeOK, LabelExpired
<1>9. LiveSandboxKeepsItsContainer'
  BY <1>b, OvertakenLate DEF LiveSandboxKeepsItsContainer, StopRow, StopContainer, NoContainerWanted
<1> QED
  BY <1>1, <1>2, <1>3, <1>4, <1>5, <1>6, <1>7, <1>8, <1>9

\* ... by sweeps.
LEMMA SweepKeepsInvariant ==
  ASSUME Before, TypeOK', GivenUpLate', NEW w \in Sweeper, SweepGuarantee(w)
  PROVE  IInv'
<1> USE DEF Before, IInv, Taken, TypeOK, SweepGuarantee, queueVars, apiVars, workerVars
<1>0. \A s \in Sandbox :
        /\ status'[s] = "none" => status[s] = "none"
        /\ status[s] \in NoContainerWanted => status'[s] \in NoContainerWanted
        /\ status[s] = "running" => status'[s] \in {"running"} \cup NoContainerWanted
        /\ s \in Stray => status'[s] = "none"
  BY RowFacts
<1>a. \A s \in todo[w] :
        LabelExpired(s) \/ status[s] \in NoContainerWanted \cup {"none"}
  BY DEF ReapIntent, RowFirst
<1>b. \A s \in Sandbox :
        /\ container'[s] # "absent" => container'[s] = container[s]
        /\ \/ container'[s] = container[s]
           \/ LabelExpired(s) \/ status[s] \in NoContainerWanted \cup {"none"}
        /\ Pending(s)' => Pending(s)
  BY <1>a DEF SweepContainers
<1>1. RowFirst'
  <2>1. \A r \in Request : call[r] \notin NoTargetYet => target[r] \in Sandbox
    BY DEF ApiTypeOK
  <2>2. \A s \in Sandbox, v \in Sweeper :
          status'[s] = "none" /\ s \in live'[v] => s \in Stray
    BY <1>0 DEF RowFirst, SweepProgram
  <2> QED
    BY <1>0, <1>b, <2>1, <2>2, StoreAssumption DEF RowFirst
<1>2. StopIntent'
  <2>1. \A r \in Request : call[r] = "enqueueStop" => target[r] \in Sandbox
    BY DEF ApiTypeOK, NoTargetYet
  <2> QED
    BY <1>0, <2>1 DEF StopIntent
<1>3. ReapIntent'
  <2>1. ASSUME NEW v \in Sweeper \ {w}, NEW s \in todo'[v]
        PROVE  LabelExpired(s)' \/ status'[s] \in NoContainerWanted \/ s \in Stray
    BY <1>0, <2>1 DEF ReapIntent, SweepProgram, ReaperTypeOK, LabelExpired
  <2>2. ASSUME NEW s \in todo'[w]
        PROVE  LabelExpired(s)' \/ status'[s] \in NoContainerWanted \/ s \in Stray
    <3>1. s \in Sandbox
      BY DEF ReaperTypeOK
    <3>2. CASE s \in todo[w]
      BY <1>0, <3>1, <3>2 DEF ReapIntent, LabelExpired
    <3>3. CASE s \in live[w] /\ Reapable(s)
      BY <1>0, <3>1, <3>3 DEF Reapable, RowFirst, LabelExpired
    <3> QED
      BY <2>2, <3>2, <3>3 DEF SweepProgram
  <2> QED
    BY <2>1, <2>2 DEF ReapIntent
<1>4. ClaimHeld'
  BY <1>0 DEF ClaimHeld, SweepRows, NoContainerWanted
<1>5. PublishedRuns'
  BY <1>b DEF PublishedRuns, SweepRows, SweepContainers, NoContainerWanted, LabelExpired
<1>6. SeenRunning'
  <2>1. ASSUME NEW v \in Sweeper, NEW s \in gone'[v]
        PROVE  s \in Sandbox /\ (s \in gone[v] \/ status'[s] = "running")
    BY <2>1 DEF SweepProgram, ReaperTypeOK
  <2> QED
    BY <1>0, <2>1 DEF SeenRunning
<1>7. SweepIdle'
  BY DEF SweepIdle, SweepProgram
<1>8. VanishedIsReal'
  <2>1. \A s \in Sandbox : status'[s] = "running" => status[s] = "running"
    BY DEF SweepRows
  <2>2. ASSUME NEW v \in Sweeper \ {w}, NEW s \in gone'[v],
               sweep'[v] \notin {"idle", "list"}, status'[s] = "running"
        PROVE  Taken(s)' \/ LabelExpired(s)'
    BY <2>1, <2>2 DEF VanishedIsReal, SweepProgram, SweepContainers, ReaperTypeOK, LabelExpired
  <2>3. ASSUME NEW s \in gone'[w],
               sweep'[w] \notin {"idle", "list"}, status'[s] = "running"
        PROVE  Taken(s)' \/ LabelExpired(s)'
    <3>1. s \in Sandbox /\ s \in gone[w] /\ sweep[w] # "idle" /\ status[s] = "running"
      BY <2>1, <2>3 DEF SweepProgram, ReaperTypeOK
    <3>2. CASE sweep[w] = "list"
      <4>1. container[s] = "absent"
        BY <2>3, <3>2 DEF SweepProgram
      <4> QED
        BY <3>1, <4>1
           DEF LiveSandboxKeepsItsContainer, SweepContainers, LabelExpired
    <3>3. CASE sweep[w] # "list"
      BY <3>1, <3>3 DEF VanishedIsReal, SweepContainers, LabelExpired
    <3> QED
      BY <3>2, <3>3
  <2> QED
    BY <2>2, <2>3 DEF VanishedIsReal
<1>9. LiveSandboxKeepsItsContainer'
  BY <1>b, OvertakenLate DEF LiveSandboxKeepsItsContainer, SweepRows, SweepContainers, NoContainerWanted,
              LabelExpired
<1> QED
  BY <1>1, <1>2, <1>3, <1>4, <1>5, <1>6, <1>7, <1>8, <1>9

\* ... by threads left behind, the daemon and the world outside.
LEMMA DockerKeepsInvariant ==
  ASSUME Before, TypeOK', GivenUpLate', NEW a \in Sandbox, DockerGuarantee(a)
  PROVE  IInv'
<1> USE DEF Before, IInv, Taken, TypeOK, DockerGuarantee, OneContainer, storeVars, queueVars, apiVars,
            workerVars, reaperVars
<1>1. RowFirst'
  BY DEF RowFirst
<1>2. StopIntent'
  BY DEF StopIntent
<1>3. ReapIntent'
  BY DEF ReapIntent, LabelExpired
<1>4. ClaimHeld'
  BY DEF ClaimHeld
<1>5. PublishedRuns'
  BY DEF PublishedRuns
<1>6. SeenRunning'
  BY DEF SeenRunning
<1>7. SweepIdle'
  BY DEF SweepIdle
<1>8. VanishedIsReal'
  BY DEF VanishedIsReal, LabelExpired
<1>9. LiveSandboxKeepsItsContainer'
  BY OvertakenLate DEF LiveSandboxKeepsItsContainer
<1> QED
  BY <1>1, <1>2, <1>3, <1>4, <1>5, <1>6, <1>7, <1>8, <1>9

\* ... by arq, Redis and the clock, and by nothing happening.
LEMMA RestKeepsInvariant ==
  ASSUME Before, TypeOK', GivenUpLate',
         UNCHANGED <<status, runtimeVars, apiVars, starter, stopper, reaperVars>>,
         jobs' \subseteq jobs, \A s \in Sandbox : age'[s] = "live" => age[s] = "live"
  PROVE  IInv'
<1> USE DEF Before, IInv, Taken, TypeOK, runtimeVars, apiVars, reaperVars
<1>1. RowFirst'
  BY DEF RowFirst, Pending
<1>2. StopIntent'
  BY DEF StopIntent
<1>3. ReapIntent'
  BY DEF ReapIntent, LabelExpired, ReaperTypeOK
<1>4. ClaimHeld'
  BY DEF ClaimHeld
<1>5. PublishedRuns'
  BY DEF PublishedRuns
<1>6. SeenRunning'
  BY DEF SeenRunning
<1>7. SweepIdle'
  BY DEF SweepIdle
<1>8. VanishedIsReal'
  BY DEF VanishedIsReal, LabelExpired, ReaperTypeOK
<1>9. LiveSandboxKeepsItsContainer'
  BY OvertakenLate DEF LiveSandboxKeepsItsContainer
<1> QED
  BY <1>1, <1>2, <1>3, <1>4, <1>5, <1>6, <1>7, <1>8, <1>9

-----------------------------------------------------------------------------
(* The theorems *)

\* Every step keeps the invariant, whoever takes it.
LEMMA InvariantStep == IInv /\ [Next]_vars => IInv'
<1> SUFFICES ASSUME IInv, [Next]_vars PROVE IInv'
  OBVIOUS
<1>1. TypeOK' /\ GivenUpLate'
  BY TypeStep, GivenUpStep DEF IInv
<1>2. Before
  BY StepMovesRowsOn DEF IInv, Before
<1>3. CASE Next
  <2>1. QueueGuarantee => IInv'
    BY <1>1, <1>2, RestKeepsInvariant DEF QueueGuarantee
  <2>2. TimeGuarantee => IInv'
    BY <1>1, <1>2, RestKeepsInvariant DEF TimeGuarantee, queueVars, workerVars
  <2> QED
    BY <1>1, <1>2, <1>3, <2>1, <2>2, StepGuarantee, ApiKeepsInvariant, StartKeepsInvariant,
       StopKeepsInvariant, SweepKeepsInvariant, DockerKeepsInvariant, Zenon
       DEF IInv, Surroundings
<1>4. CASE UNCHANGED vars
  BY <1>1, <1>2, <1>4, RestKeepsInvariant DEF vars, storeVars, queueVars, workerVars
<1> QED
  BY <1>3, <1>4

\* The service starts with no rows, no jobs and nobody at work: the invariant holds.
LEMMA InvariantInit == Init => IInv
<1> SUFFICES ASSUME Init PROVE IInv
  OBVIOUS
<1> USE StoreAssumption
    DEF Init, StoreInit, QueueInit, RuntimeInit, ApiInit, WorkerInit, ReaperInit
<1>1. TypeOK
  BY TypeInit
<1>2. RowFirst /\ GivenUpLate
  BY DEF RowFirst, NoTargetYet, Pending, GivenUpLate, GivenUp
<1>3. StopIntent /\ ReapIntent /\ SeenRunning /\ SweepIdle
  BY DEF StopIntent, ReapIntent, SeenRunning, SweepIdle
<1>4. ClaimHeld /\ PublishedRuns
  BY DEF ClaimHeld, PublishedRuns, Launching
<1>5. VanishedIsReal /\ LiveSandboxKeepsItsContainer
  BY DEF VanishedIsReal, LiveSandboxKeepsItsContainer
<1> QED
  BY <1>1, <1>2, <1>3, <1>4, <1>5 DEF IInv

\* The invariant: whoever may touch a container or a row holds the right to it
\* from the check that gave it to the write that uses it, across every await of
\* the handlers and the sweeps.
THEOREM InvariantCorrect == Spec => []IInv
BY InvariantInit, InvariantStep, PTL DEF Spec

\* No retry, late stop, sweep or double sweep takes the container of a running
\* sandbox within its time to live (stop_sandbox removes without looking at the
\* row, reconcile_sandboxes on a status read long before).  Only what was asked
\* for earlier and given up on, a launch or a removal whose thread or request
\* goes on behind its deadline, can, and so only after a call has failed.
THEOREM LiveSandboxKept == Spec => []LiveSandboxKeepsItsContainer
BY InvariantCorrect, PTL DEF IInv

\* What reconcile_sandboxes is about to fail as "container disappeared" is gone:
\* reading the running rows before the listing is enough, however many sweeps
\* are under way, but for sandboxes past their time.
THEOREM VanishedReal == Spec => []VanishedIsReal
BY InvariantCorrect, PTL DEF IInv

\* The service implements the life cycle: no interleaving of the compare-and-sets
\* of API, workers and sweeps with the API's one plain write moves a row
\* otherwise, and no container without a row is ever given one.
THEOREM LifecycleSafe == Spec => Lifecycle!Safety
<1>1. Init => Lifecycle!Init
  BY DEF Init, StoreInit, Lifecycle!Init
<1>2. IInv /\ [Next]_vars => [Lifecycle!Next]_status
  <2> SUFFICES ASSUME IInv, [Next]_vars PROVE Lifecycle!Next
    OBVIOUS
  <2>1. RowsMoveOn
    BY StepMovesRowsOn DEF IInv
  <2>2. TypeOK'
    BY TypeStep DEF IInv
  <2> QED
    BY <2>1, <2>2, StoreAssumption
       DEF RowsMoveOn, Lifecycle!Next, TypeOK, StoreTypeOK, SandboxStatus
<1> QED
  BY <1>1, <1>2, InvariantCorrect, PTL DEF Spec, Lifecycle!Safety

-----------------------------------------------------------------------------
(* Admission.  OvershootBounded alone is not inductive: a request that has *)
(* counted adds its row whatever the count has become.  So the rows such   *)
(* requests are about to add are counted with the active ones.             *)

\* The requests past their count that have not inserted their row.
Inserting == {r \in Request : call[r] = "insert"}

AdmissionInv ==
  Cardinality(ActiveRows) + Cardinality(Inserting) <= MaxActive + Cardinality(Request) - 1

-----------------------------------------------------------------------------
\* Only a request's insert makes a row active, and only a request that finds
\* room by its count goes on to insert.
NothingAdmitted ==
  ActiveRows' \subseteq ActiveRows /\ Inserting' \subseteq Inserting

Counted(r) ==
  UnderCap /\ ActiveRows' = ActiveRows

Inserted(r) ==
  /\ r \in Inserting
  /\ \E s \in Sandbox : ActiveRows' \subseteq ActiveRows \cup {s}
  /\ Inserting' \subseteq Inserting \ {r}

\* A request that is answered is not about to insert.
LEMMA AnswerAdmitsNothing ==
  ASSUME TypeOK, NEW r \in Request, Answer(r)
  PROVE  Inserting' \subseteq Inserting
BY DEF TypeOK, ApiTypeOK, Answer, Inserting

\* Nor is one that goes on to a later step.
LEMMA ContinueAdmitsNothing ==
  ASSUME TypeOK, NEW r \in Request, NEW step, Continue(r, step), step # "insert"
  PROVE  Inserting' \subseteq Inserting
BY DEF TypeOK, ApiTypeOK, Continue, Inserting

\* What the steps of a request admit.
LEMMA ApiAdmits ==
  ASSUME TypeOK, NEW r \in Request, NewCall(r) \/ CallStepTaken(r) \/ CallFault(r)
  PROVE  NothingAdmitted \/ Counted(r) \/ Inserted(r)
<1> USE AnswerAdmitsNothing, ContinueAdmitsNothing DEF NothingAdmitted, storeVars, ActiveRows
<1>1. CASE \E k \in Key \cup {NoKey} : PostLookup(r, k)
  <2>1. Inserting' \subseteq Inserting
    BY <1>1 DEF PostLookup, TypeOK, ApiTypeOK, Inserting
  <2> QED
    BY <1>1, <2>1 DEF PostLookup
<1>2. CASE \E s \in Sandbox : DeleteRead(r, s)
  <2>1. Inserting' \subseteq Inserting
    BY <1>2 DEF DeleteRead, TypeOK, ApiTypeOK, Inserting
  <2> QED
    BY <1>2, <2>1 DEF DeleteRead
<1>3. CASE PostCount(r)
  BY <1>3 DEF PostCount, Counted
<1>4. CASE \E s \in Sandbox : PostInsert(r, s)
  <2> PICK s \in Sandbox : PostInsert(r, s)
    BY <1>4
  <2>1. ActiveRows' \subseteq ActiveRows \cup {s}
    BY DEF PostInsert, InsertRow, TypeOK, StoreTypeOK
  <2>2. r \in Inserting /\ Inserting' \subseteq Inserting \ {r}
    BY DEF PostInsert, TypeOK, ApiTypeOK, Inserting
  <2> QED
    BY <2>1, <2>2 DEF Inserted
<1>5. CASE PostConflict(r)
  BY <1>5 DEF PostConflict
<1>6. CASE PostEnqueue(r) \/ DeleteEnqueue(r)
  BY <1>6 DEF PostEnqueue, DeleteEnqueue
<1>7. CASE PostMarkFailed(r)
  <2>1. ActiveRows' \subseteq ActiveRows
    BY <1>7 DEF PostMarkFailed, MarkFailed, Active, TypeOK, StoreTypeOK
  <2> QED
    BY <1>7, <2>1 DEF PostMarkFailed
<1>8. CASE DeleteMark(r)
  <2>1. ActiveRows' \subseteq ActiveRows
    BY <1>8 DEF DeleteMark, Transition, TypeOK, StoreTypeOK
  <2> QED
    BY <1>8, <2>1 DEF DeleteMark
<1>9. CASE DeleteRecheck(r)
  BY <1>9 DEF DeleteRecheck
<1>10. CASE PostEnqueueFails(r) \/ DeleteEnqueueFails(r) \/ CallCrash(r)
  BY <1>10 DEF PostEnqueueFails, DeleteEnqueueFails, CallCrash
<1> QED
  BY <1>1, <1>2, <1>3, <1>4, <1>5, <1>6, <1>7, <1>8, <1>9, <1>10, Zenon
     DEF NewCall, CallStepTaken, CallContinues, CallFault

\* Handlers, sweeps, the daemon, arq and the clock make no row active.
LEMMA SurroundingsAdmitNothing ==
  ASSUME TypeOK, Surroundings \/ UNCHANGED vars
  PROVE  NothingAdmitted
<1> USE DEF NothingAdmitted, ActiveRows, Inserting, apiVars, TypeOK, StoreTypeOK
<1>1. ASSUME NEW s \in Sandbox, StartGuarantee(s) PROVE NothingAdmitted
  BY <1>1 DEF StartGuarantee, StartRow, Startable, Active
<1>2. ASSUME NEW s \in Sandbox, StopGuarantee(s) PROVE NothingAdmitted
  BY <1>2 DEF StopGuarantee, StopRow, Active
<1>3. ASSUME NEW w \in Sweeper, SweepGuarantee(w) PROVE NothingAdmitted
  BY <1>3 DEF SweepGuarantee, SweepRows, Active
<1>4. ASSUME NEW s \in Sandbox, DockerGuarantee(s) PROVE NothingAdmitted
  BY <1>4 DEF DockerGuarantee, storeVars
<1>5. CASE QueueGuarantee \/ TimeGuarantee \/ UNCHANGED vars
  BY <1>5 DEF QueueGuarantee, TimeGuarantee, vars, storeVars
<1> QED
  BY <1>1, <1>2, <1>3, <1>4, <1>5, Zenon DEF Surroundings

-----------------------------------------------------------------------------
(* Counting *)

\* Active rows and inserting requests are finitely many.
LEMMA AdmissionFinite ==
  /\ IsFiniteSet(ActiveRows) /\ Cardinality(ActiveRows) \in Nat
  /\ IsFiniteSet(Inserting) /\ Cardinality(Inserting) \in Nat
  /\ Cardinality(Inserting) <= Cardinality(Request) /\ Cardinality(Request) \in Nat
<1>1. ActiveRows \in SUBSET Sandbox /\ Inserting \in SUBSET Request
  BY DEF ActiveRows, Inserting
<1> QED
  BY <1>1, FS_Subset, FS_CardinalityType, StoreAssumption, ApiAssumption
     DEF StoreAssumption, ApiAssumption

\* A step that admits nothing, counts or inserts keeps the sum bounded.
LEMMA AdmissionStep ==
  ASSUME AdmissionInv,
         NothingAdmitted \/ \E r \in Request : Counted(r) \/ Inserted(r)
  PROVE  AdmissionInv'
<1> USE AdmissionFinite, ApiAssumption DEF AdmissionInv
<1>0. /\ IsFiniteSet(ActiveRows') /\ Cardinality(ActiveRows') \in Nat
      /\ IsFiniteSet(Inserting') /\ Cardinality(Inserting') \in Nat
      /\ Cardinality(Inserting') <= Cardinality(Request)
  <2>1. ActiveRows' \in SUBSET Sandbox /\ Inserting' \in SUBSET Request
    BY DEF ActiveRows, Inserting
  <2> QED
    BY <2>1, FS_Subset, FS_CardinalityType, StoreAssumption
       DEF StoreAssumption, ApiAssumption
<1>1. CASE NothingAdmitted
  <2>1. /\ Cardinality(ActiveRows') <= Cardinality(ActiveRows)
        /\ Cardinality(Inserting') <= Cardinality(Inserting)
    BY <1>1, FS_Subset DEF NothingAdmitted
  <2> QED
    BY <1>0, <2>1 DEF ApiAssumption
<1>2. CASE \E r \in Request : Counted(r)
  BY <1>0, <1>2 DEF Counted, UnderCap, ApiAssumption
<1>3. CASE \E r \in Request : Inserted(r)
  <2> PICK r \in Request, s \in Sandbox :
        /\ r \in Inserting
        /\ ActiveRows' \subseteq ActiveRows \cup {s}
        /\ Inserting' \subseteq Inserting \ {r}
    BY <1>3 DEF Inserted
  <2>1. Cardinality(ActiveRows') <= Cardinality(ActiveRows) + 1
    <3>1. /\ IsFiniteSet(ActiveRows \cup {s})
          /\ Cardinality(ActiveRows \cup {s}) \in Nat
          /\ Cardinality(ActiveRows \cup {s}) <= Cardinality(ActiveRows) + 1
      <4>1. IsFiniteSet(ActiveRows \cup {s})
        BY FS_AddElement
      <4>2. Cardinality(ActiveRows \cup {s}) \in Nat
        BY <4>1, FS_CardinalityType
      <4>3. Cardinality(ActiveRows \cup {s}) =
              IF s \in ActiveRows THEN Cardinality(ActiveRows)
                                  ELSE Cardinality(ActiveRows) + 1
        BY FS_AddElement
      <4> QED
        BY <4>1, <4>2, <4>3
    <3>2. Cardinality(ActiveRows') <= Cardinality(ActiveRows \cup {s})
      BY <3>1, FS_Subset
    <3> QED
      BY <1>0, <3>1, <3>2
  <2>2. Cardinality(Inserting') <= Cardinality(Inserting) - 1
    <3>1. /\ IsFiniteSet(Inserting \ {r})
          /\ Cardinality(Inserting \ {r}) = Cardinality(Inserting) - 1
      BY FS_RemoveElement
    <3>2. Cardinality(Inserting') <= Cardinality(Inserting \ {r})
      BY <3>1, FS_Subset
    <3> QED
      BY <1>0, <3>1, <3>2
  <2> QED
    BY <1>0, <2>1, <2>2 DEF ApiAssumption
<1> QED
  BY <1>1, <1>2, <1>3

-----------------------------------------------------------------------------
\* Between SELECT count(*) and the insert other requests come in, and
\* nevertheless create_sandbox never lets more than MaxActive + |Request| - 1
\* sandboxes be active, whatever workers and sweeps do meanwhile.
THEOREM AdmissionBounded == Spec => []OvershootBounded
<1>1. Init => AdmissionInv
  <2> SUFFICES ASSUME Init PROVE AdmissionInv
    OBVIOUS
  <2>1. ActiveRows = {} /\ Inserting = {}
    BY DEF Init, StoreInit, ApiInit, ActiveRows, Active, Inserting
  <2> QED
    BY <2>1, FS_EmptySet, AdmissionFinite, ApiAssumption DEF AdmissionInv, ApiAssumption
<1>2. TypeOK /\ AdmissionInv /\ [Next]_vars => AdmissionInv'
  <2> SUFFICES ASSUME TypeOK, AdmissionInv, [Next]_vars PROVE AdmissionInv'
    OBVIOUS
  <2>1. NothingAdmitted \/ \E r \in Request : Counted(r) \/ Inserted(r)
    BY ApiAdmits, SurroundingsAdmitNothing, StepActor, Zenon
  <2> QED
    BY <2>1, AdmissionStep
<1>3. AdmissionInv => OvershootBounded
  BY AdmissionFinite, ApiAssumption DEF AdmissionInv, OvershootBounded, ApiAssumption
<1> QED
  BY <1>1, <1>2, <1>3, TypeCorrect, PTL DEF Spec

=============================================================================

---------------------------- MODULE Orchestrator ----------------------------
(***************************************************************************)
(* The sandbox service as a whole: API requests, job handlers and sweeps   *)
(* interleave over the table, the queue and the Docker daemon, none of     *)
(* which lock anything for longer than one statement, command or request.  *)
(*                                                                         *)
(* What may go wrong is one action per place where it bites, and counted:  *)
(* MaxFaults of the kinds in FaultKind happen in a behaviour.              *)
(***************************************************************************)
EXTENDS SandboxApi, SandboxWorker, SandboxReaper

CONSTANTS
  FaultKind,   \* the kinds of fault considered
  MaxFaults    \* bound on how many happen

ASSUME FaultAssumption ==
  /\ FaultKind \subseteq {"api", "redis", "docker", "db", "crash", "cut", "kill"}
  /\ MaxFaults \in Nat

VARIABLES
  faults,     \* how many have happened
  disrupted   \* history: has one hit the API, Redis, the database or a worker?

vars == <<storeVars, queueVars, runtimeVars, apiVars, workerVars, reaperVars,
          faults, disrupted>>

TypeOK ==
  /\ StoreTypeOK
  /\ QueueTypeOK
  /\ RuntimeTypeOK
  /\ ApiTypeOK
  /\ WorkerTypeOK
  /\ ReaperTypeOK
  /\ faults \in Nat
  /\ disrupted \in BOOLEAN

Init ==
  /\ StoreInit
  /\ QueueInit
  /\ RuntimeInit
  /\ ApiInit
  /\ WorkerInit
  /\ ReaperInit
  /\ faults = 0
  /\ disrupted = FALSE

-----------------------------------------------------------------------------
Fault(kind) ==
  /\ kind \in FaultKind
  /\ faults < MaxFaults
  /\ faults' = faults + 1
  /\ disrupted' = (disrupted \/ kind \notin {"docker", "kill"})

NoFault == UNCHANGED <<faults, disrupted>>

ApiAlone == UNCHANGED <<runtimeVars, workerVars, reaperVars>>

WorkerAlone == UNCHANGED <<apiVars, reaperVars>>

ReaperAlone == UNCHANGED <<queueVars, apiVars, workerVars>>

RuntimeAlone == UNCHANGED <<storeVars, queueVars, apiVars, workerVars, reaperVars>>

-----------------------------------------------------------------------------
\* There is always another uuid: here a POST comes only while an id is left.
IdsLeft == \E s \in Sandbox \ Stray : status[s] = "none"

\* A client sends a request.
NewCall(r) ==
  /\ \/ IdsLeft /\ \E k \in Key \cup {NoKey} : PostLookup(r, k)
     \/ \E s \in Sandbox : DeleteRead(r, s)
  /\ ApiAlone /\ NoFault

CallStepTaken(r) == CallContinues(r) /\ ApiAlone /\ NoFault

CallFault(r) ==
  /\ \/ PostEnqueueFails(r) /\ Fault("redis")
     \/ DeleteEnqueueFails(r) /\ Fault("redis")
     \/ CallCrash(r) /\ Fault("api")
  /\ ApiAlone

\* A worker takes a job, or Redis gives up on one.
JobStep(j) ==
  /\ \/ \E s \in Sandbox : j = StartJob(s) /\ PickStart(s)
     \/ \E s \in Sandbox : j = StopJob(s) /\ PickStop(s)
     \/ KeyExpires(j)
     \/ JobDropped(j)
  /\ WorkerAlone /\ NoFault

StarterStepTaken(s) == StarterContinues(s) /\ WorkerAlone /\ NoFault

StopperStepTaken(s) == StopperContinues(s) /\ WorkerAlone /\ NoFault

HandlerFault(s) ==
  /\ \/ StartFails(s) /\ Fault("docker")
     \/ StartDiscardFails(s) /\ Fault("docker")
     \/ StopRemoveFails(s) /\ Fault("docker")
     \/ StartError(s) /\ Fault("db")
     \/ StopError(s) /\ Fault("db")
     \/ StartCrash(s) /\ Fault("crash")
     \/ StopCrash(s) /\ Fault("crash")
     \/ StartCutShort(s) /\ Fault("cut")
     \/ StopCutShort(s) /\ Fault("cut")
  /\ WorkerAlone

SweepStepTaken(w) == SweepContinues(w) /\ ReaperAlone /\ NoFault

SweepFault(w) ==
  /\ \/ SweepAbort(w) /\ \E kind \in {"docker", "db", "crash"} : Fault(kind)
     \/ \E s \in Sandbox :
          SweepRemoveFails(w, s) /\ \E kind \in {"docker", "cut"} : Fault(kind)
  /\ ReaperAlone

\* Launches nobody waits for come to their end.
GhostStep(s) ==
  /\ GhostCreate(s) \/ GhostBoot(s) \/ GhostEnds(s)
  /\ RuntimeAlone /\ NoFault

\* So do, perhaps, removals nobody waits for.
LateRemoval(s) ==
  /\ GhostLook(s) \/ GhostFind(s) \/ GhostRemove(s) \/ GhostSpares(s)
  /\ RuntimeAlone /\ NoFault

\* Something outside this system.
Outside(s) ==
  /\ ContainerExits(s) \/ ContainerVanishes(s)
  /\ RuntimeAlone
  /\ Fault("kill")

RedisLoss ==
  /\ FlushRedis
  /\ UNCHANGED storeVars
  /\ ApiAlone /\ UNCHANGED apiVars
  /\ Fault("redis")

TimePasses(s) ==
  /\ Tick(s)
  /\ UNCHANGED <<queueVars, apiVars>>
  /\ ApiAlone /\ NoFault

Next ==
  \/ \E r \in Request : NewCall(r) \/ CallStepTaken(r) \/ CallFault(r)
  \/ \E j \in Job : JobStep(j)
  \/ \E s \in Sandbox :
       \/ StarterStepTaken(s) \/ StopperStepTaken(s) \/ HandlerFault(s)
       \/ GhostStep(s) \/ LateRemoval(s) \/ Outside(s) \/ TimePasses(s)
  \/ \E w \in Sweeper : SweepStepTaken(w) \/ SweepFault(w)
  \/ RedisLoss

Spec == Init /\ [][Next]_vars

\* Workers that are up take jobs and their handlers go on, sweeps are
\* scheduled and go on, begun requests go on and threads finish.  Clients may
\* send nothing, no fault need happen, a removal that was given up on need not
\* be carried out, and time need not pass: what is to happen
\* does not wait for a sandbox's time to live.
ServiceFairness ==
  /\ \A r \in Request : WF_call(CallStepTaken(r))
  /\ \A j \in Job : WF_queueVars(JobStep(j))
  /\ \A s \in Sandbox :
       /\ WF_starter(StarterStepTaken(s))
       /\ WF_stopper(StopperStepTaken(s))
       /\ WF_runtimeVars(GhostStep(s))
  /\ \A w \in Sweeper : WF_reaperVars(SweepStepTaken(w))

FairSpec == Spec /\ ServiceFairness

-----------------------------------------------------------------------------
(* Safety *)

\* A sandbox reported as running, whose time has not come and whose container
\* nobody outside killed, has its container: no retry, late stop, sweep or
\* second sweep takes it away.  There is one exception, and only after a call
\* has failed: a removal or a launch that this system gave up on, whose thread
\* or request goes on, may take the container of the try that came after it.
LiveSandboxKeepsItsContainer ==
  \A s \in Sandbox :
    status[s] = "running" /\ age[s] = "live" /\ s \notin lost
      => container[s] = "running" \/ (s \in overtaken /\ faults > 0)

\* The container was killed or removed from outside, or by a call given up on.
Taken(s) == s \in lost \cup overtaken

\* What a sweep is about to call disappeared is gone: reading the running rows
\* before listing the containers leaves no room for a sandbox that was started
\* in between.  (A sandbox past its time may have been removed by a sweep.)
VanishedIsReal ==
  \A w \in Sweeper : \A s \in gone[w] :
    sweep[w] \notin {"idle", "list"} /\ status[s] = "running"
      => Taken(s) \/ LabelExpired(s)

\* An accepted sandbox is never left without somebody who owes it its start: if
\* neither the API, Redis, the database nor a worker failed, a row that is
\* queued or starting has its job, which is dropped by no retry and no count of
\* tries, or is about to get it from the request that inserted the row.
StartsAreOwed ==
  ~disrupted =>
    \A s \in Sandbox :
      status[s] \in Startable =>
        \/ StartJob(s) \in jobs
        \/ \E r \in Request : call[r] = "enqueue" /\ target[r] = s

\* Nor an accepted stop without somebody who owes it its end: whichever request
\* marked the row, and whichever enqueue found the id taken by a handler that
\* was about to return.
StopsAreOwed ==
  faults = 0 =>
    \A s \in Sandbox :
      status[s] = "stopping" =>
        \/ StopJob(s) \in jobs
        \/ \E r \in Request : call[r] \in {"recheck", "enqueueStop"} /\ target[r] = s

-----------------------------------------------------------------------------
(* Steps *)

\* Nothing is left that could bring a container of s back: no thread at work on
\* one, no start handler past its checks, and a row that lets none pass them.
GoneForGood(s) ==
  /\ container[s] = "absent" /\ ~Pending(s)
  /\ \/ s \in Stray
     \/ status[s] \in NoContainerWanted /\ starter[s] \notin Launching
     \/ RowExpired(s) /\ starter[s] \notin Launching \cup {"claim"}

\* A sandbox that has ended stays without container, whatever is delivered or
\* retried afterwards, in whichever order.
WhatIsGoneStaysGone ==
  [][\A s \in Sandbox : GoneForGood(s) => GoneForGood(s)']_vars

\* With one sweep at a time, a row is failed as disappeared only if somebody
\* outside this system, or a call reported as failed, took its container.
OnlyTheLostDisappear ==
  [][\A w \in Sweeper, s \in Sandbox :
       sweep[w] = "reap" /\ s \in gone[w] \ gone'[w] /\ status'[s] # status[s]
         => Taken(s) \/ (LabelExpired(s) /\ faults > 0)]_vars

\* A sandbox's status moves as SandboxLifecycle says, and a stop finishes.
Lifecycle == INSTANCE SandboxLifecycle WITH status <- status

LifecycleSpec == Lifecycle!Spec

-----------------------------------------------------------------------------
(* Progress *)

\* A sandbox that is to have no container, or whose time is over, ends up
\* without one for good, whatever leaked it (a crash, a lost or failed stop, a
\* forgotten thread, an earlier database, a failed sweep), and one that was
\* leaked does not wait for its time to be over.
NothingLeaks ==
  \A s \in Sandbox :
    status[s] \in NoContainerWanted \/ s \in Stray \/ age[s] = "due"
      ~> [](container[s] = "absent")

\* A container that was removed underneath a running sandbox is noticed, unless
\* a launch that was given up on may yet put another in its place.
LossIsNoticed ==
  \A s \in Sandbox :
    status[s] = "running" /\ container[s] = "absent" /\ ~Pending(s)
      ~> status[s] # "running"

\* If neither the API, Redis, the database nor a worker fails, every accepted
\* sandbox is started or settled, however often its launch fails.
StartSettles ==
  \A s \in Sandbox :
    status[s] \in Startable ~> status[s] \notin Startable \/ disrupted

-----------------------------------------------------------------------------
(* The invariant behind the safety properties *)

\* A sandbox has a row before anything else refers to it, and a stray container
\* never gets one.
RowFirst ==
  /\ \A s \in Stray : status[s] = "none"
  /\ \A r \in Request :
       call[r] \notin NoTargetYet => status[target[r]] # "none"
  /\ \A s \in Sandbox :
       status[s] = "none" =>
         /\ StartJob(s) \notin jobs /\ starter[s] = "idle" /\ ~Pending(s)
         /\ container[s] # "absent" => s \in Stray
         /\ \A w \in Sweeper : s \in live[w] => s \in Stray

\* A stop job, or a handler of one, only ever exists for a sandbox that is to
\* have no container: removing it needs no look at the row.
StopIntent ==
  /\ \A s \in Sandbox :
       StopJob(s) \in jobs \/ stopper[s] # "idle" => status[s] \in NoContainerWanted
  /\ \A r \in Request :
       call[r] = "enqueueStop" => status[target[r]] \in NoContainerWanted

\* The reaper's list of containers to remove, which it works through long
\* after it made it, never comes to hold one that is wanted.
ReapIntent ==
  \A w \in Sweeper : \A s \in todo[w] :
    LabelExpired(s) \/ status[s] \in NoContainerWanted \/ s \in Stray

\* Between its claim and its last write a start handler is alone in moving the
\* row, except for those who want no container.
ClaimHeld ==
  \A s \in Sandbox :
    /\ starter[s] \in Launching \cup {"publish", "discard", "settle"}
         => status[s] \in {"starting"} \cup NoContainerWanted
    /\ starter[s] = "drop" => status[s] \in NoContainerWanted

\* What a handler is about to publish is there.
PublishedRuns ==
  \A s \in Sandbox :
    starter[s] = "publish" /\ status[s] = "starting" /\ age[s] = "live" /\ ~Taken(s)
      => container[s] = "running"

\* Somebody still acts, or has acted, on the container of s for a caller that no
\* longer waits for it.
GivenUp(s) ==
  forgotten[s] > 0 \/ creator[s] = "thread" \/ s \in sought \cup doomed \cup overtaken

\* Nobody does before a call has failed.
GivenUpLate == \A s \in Sandbox : GivenUp(s) => faults > 0

\* A row a sweep saw running has not been started since.
SeenRunning ==
  \A w \in Sweeper : \A s \in gone[w] :
    status[s] \in {"running"} \cup NoContainerWanted

SweepIdle ==
  \A w \in Sweeper :
    /\ sweep[w] = "idle" => gone[w] = {} /\ live[w] = {} /\ todo[w] = {}
    /\ sweep[w] \in {"list", "classify"} => todo[w] = {}

\* What the start of s is owed by: a handler has its job and counts its tries,
\* returns only from a row that is settled, and gives its job back only if one
\* more try is left.
StartDuty(s) ==
  /\ status[s] \in Startable =>
       \/ StartJob(s) \in jobs
       \/ \E r \in Request : call[r] = "enqueue" /\ target[r] = s
  /\ IF starter[s] = "idle"
       THEN attempt[StartJob(s)] = 0
       ELSE /\ StartJob(s) \in jobs
            /\ attempt[StartJob(s)] = tries[StartJob(s)] /\ tries[StartJob(s)] # 0
  /\ starter[s] \in {"idle", "retry"} => tries[StartJob(s)] < MaxTries
  /\ starter[s] = "return" => status[s] \notin Startable

\* The same of its stop, when nothing fails.
StopDuty(s) ==
  /\ status[s] = "stopping" =>
       \/ StopJob(s) \in jobs
       \/ \E r \in Request : call[r] \in {"recheck", "enqueueStop"} /\ target[r] = s
  /\ IF stopper[s] = "idle"
       THEN attempt[StopJob(s)] = 0 /\ tries[StopJob(s)] = 0
       ELSE attempt[StopJob(s)] # 0 /\ StopJob(s) \in jobs
  /\ stopper[s] # "retry"
  /\ stopper[s] = "return" => status[s] # "stopping"

DutyInv ==
  \A s \in Sandbox :
    /\ ~disrupted => StartDuty(s)
    /\ faults = 0 => StopDuty(s)

\* Clients are told, or are about to be, that s runs.
Shown(s) ==
  \/ status[s] = "running"
  \/ starter[s] = "publish" /\ status[s] = "starting"

\* Its container was lost, or was removed by a sweep that is yet to say so or
\* did not come to.
Explained(s) ==
  \/ Taken(s)
  \/ /\ LabelExpired(s)
     /\ faults > 0 \/ \E w \in Sweeper : sweep[w] = "settle" /\ at[w] = s

MissingIsExplained ==
  \A s \in Sandbox : Shown(s) /\ container[s] = "absent" => Explained(s)

\* At most one sweep is under way at a time.
OneSweep == \A v, w \in Sweeper : v = w

\* Then what it is about to call disappeared was not removed by an earlier one,
\* unless that one failed.
VanishedIsLost ==
  OneSweep =>
    \A w \in Sweeper : \A s \in gone[w] :
      sweep[w] \notin {"idle", "list"} /\ status[s] = "running"
        => Taken(s) \/ (LabelExpired(s) /\ faults > 0)

MissingInv == MissingIsExplained /\ VanishedIsLost

IInv ==
  /\ TypeOK
  /\ RowFirst
  /\ StopIntent
  /\ ReapIntent
  /\ ClaimHeld
  /\ PublishedRuns
  /\ GivenUpLate
  /\ SeenRunning
  /\ SweepIdle
  /\ VanishedIsReal
  /\ LiveSandboxKeepsItsContainer
=============================================================================

--------------------------- MODULE SandboxWorker ----------------------------
(***************************************************************************)
(* The job handlers of app/worker.py, start_sandbox and stop_sandbox, with *)
(* one action per awaited call.  The in-progress key of a job keeps a      *)
(* second worker off it, so at most one handler of each kind runs per      *)
(* sandbox, in whichever worker of whichever pool took the job.            *)
(*                                                                         *)
(* A handler ends in one of four ways: it returns and its job is finished; *)
(* it raises Retry and its job stays queued; it raises anything else, or   *)
(* runs into job_timeout, and its job is dropped; its worker dies or is    *)
(* stopped, and the job is run again when its in-progress key has expired. *)
(***************************************************************************)
EXTENDS JobQueue, ContainerRuntime

VARIABLES
  starter,   \* starter[s]: next step of the start_sandbox handler of s
  stopper,   \* stopper[s]: next step of the stop_sandbox handler of s
  attempt    \* attempt[j]: ctx["job_try"] of the handler running job j, or 0

workerVars == <<starter, stopper, attempt>>

StartStep ==
  {"idle", "read", "expire", "claim", "look", "clear", "create", "boot", "probe",
   "publish", "drop", "discard", "settle", "retry", "return"}

StopStep == {"idle", "remove", "mark", "retry", "return"}

WorkerTypeOK ==
  /\ starter \in [Sandbox -> StartStep]
  /\ stopper \in [Sandbox -> StopStep]
  /\ attempt \in [Job -> 0 .. MaxTries]

WorkerInit ==
  /\ starter = [s \in Sandbox |-> "idle"]
  /\ stopper = [s \in Sandbox |-> "idle"]
  /\ attempt = [j \in Job |-> 0]

-----------------------------------------------------------------------------
(* start_sandbox *)

StartAt(s, step) ==
  /\ starter' = [starter EXCEPT ![s] = step]
  /\ UNCHANGED <<stopper, attempt>>

StarterEnds(s) ==
  /\ starter' = [starter EXCEPT ![s] = "idle"]
  /\ attempt' = [attempt EXCEPT ![StartJob(s)] = 0]
  /\ UNCHANGED stopper

PickStart(s) ==
  /\ starter[s] = "idle"
  /\ PickUp(StartJob(s))
  /\ starter' = [starter EXCEPT ![s] = "read"]
  /\ attempt' = [attempt EXCEPT ![StartJob(s)] = tries[StartJob(s)] + 1]
  /\ UNCHANGED <<stopper, storeVars, runtimeVars>>

\* session.get: a row that is settled (or missing) ends the job, one past its
\* time to live is not worth a container.
StartRead(s) ==
  /\ starter[s] = "read"
  /\ \/ status[s] \notin Startable /\ StartAt(s, "return")
     \/ status[s] \in Startable /\ RowExpired(s) /\ StartAt(s, "expire")
     \/ status[s] \in Startable /\ ~RowExpired(s) /\ StartAt(s, "claim")
  /\ UNCHANGED <<storeVars, queueVars, runtimeVars>>

StartExpire(s) ==
  /\ starter[s] = "expire"
  /\ Transition(s, Startable, "stopped")
  /\ StartAt(s, "return")
  /\ UNCHANGED <<key, age, queueVars, runtimeVars>>

\* MUTANT of StartClaim: the row count is not looked at.
StartClaimBlind(s) ==
  /\ starter[s] = "claim"
  /\ Transition(s, Startable, "starting")
  /\ StartAt(s, "look")
  /\ UNCHANGED <<key, age, queueVars, runtimeVars>>

\* Losing this write to a concurrent stop ends the job as "cancelled".
StartClaim(s) ==
  /\ starter[s] = "claim"
  /\ Transition(s, Startable, "starting")
  /\ StartAt(s, IF status[s] \in Startable THEN "look" ELSE "return")
  /\ UNCHANGED <<key, age, queueVars, runtimeVars>>

\* _ensure_container finds the container a crashed try left, or clears the way.
StartLook(s) ==
  /\ starter[s] = "look"
  /\ StartAt(s, CASE container[s] = "running" -> "probe"
                  [] container[s] = "absent" -> "create"
                  [] OTHER -> "clear")
  /\ UNCHANGED <<storeVars, queueVars, runtimeVars>>

\* What did not run (never started, or exited) when it looked is removed, by
\* force: a thread may have started it since.  It is removed by its id, so if
\* it is gone, replaced by another or not, the answer is 404 and the launch
\* raises.
StartClear(s) ==
  /\ starter[s] = "clear"
  /\ \/ container[s] # "absent" /\ Remove(s) /\ StartAt(s, "create")
     \/ StartAt(s, "discard") /\ UNCHANGED runtimeVars
  /\ UNCHANGED <<storeVars, queueVars>>

\* Creating it; on 409 the winner of the race is used if it has a port, and it
\* has one only while it runs.
StartCreate(s) ==
  /\ starter[s] = "create"
  /\ \/ Create(s) /\ StartAt(s, "boot")
     \/ /\ container[s] # "absent"
        /\ StartAt(s, IF container[s] = "running" THEN "probe" ELSE "discard")
        /\ UNCHANGED runtimeVars
  /\ UNCHANGED <<storeVars, queueVars>>

\* Starting it; if it has been removed meanwhile the daemon answers 404.
StartBoot(s) ==
  /\ starter[s] = "boot"
  /\ \/ Boot(s) /\ StartAt(s, "probe")
     \/ ~Bootable(s) /\ StartAt(s, "discard") /\ UNCHANGED runtimeVars
  /\ UNCHANGED <<storeVars, queueVars>>

\* _wait_ready answers, or gives up on a container that no longer runs.
StartProbe(s) ==
  /\ starter[s] = "probe"
  /\ \/ Answers(s) /\ StartAt(s, "publish")
     \/ container[s] # "running" /\ StartAt(s, "discard") /\ UNCHANGED runtimeVars
  /\ UNCHANGED <<storeVars, queueVars>>

Launching == {"look", "clear", "create", "boot", "probe"}

\* What a launch that is given up on leaves behind: nothing, a request that is
\* carried out all the same, or a thread that goes on from where it was.
LaunchLeft(s) ==
  \/ LaunchEnds(s)
  \/ starter[s] \in {"look", "clear", "create"} /\ AbandonLaunch(s)
  \/ starter[s] = "clear" /\ (AbandonClear(s) \/ DeleteRaises(s))
  \/ starter[s] = "boot" /\ AbandonBoot(s)

\* The launch raises: an injected failure, an error from Docker, a container
\* that never answers, the deadline of its thread or launch_timeout_s.
StartFails(s) ==
  /\ starter[s] \in Launching
  /\ LaunchLeft(s)
  /\ StartAt(s, "discard")
  /\ UNCHANGED <<storeVars, queueVars>>

AfterDiscard(s) == IF starter[s] = "discard" THEN "settle" ELSE "return"

\* _discard, after a failed launch or a lost publication.
StartDiscard(s) ==
  /\ starter[s] \in {"discard", "drop"}
  /\ Remove(s)
  /\ StartAt(s, AfterDiscard(s))
  /\ UNCHANGED <<storeVars, queueVars>>

\* ... which swallows every exception.
StartDiscardFails(s) ==
  /\ starter[s] \in {"discard", "drop"}
  /\ RemoveRaises(s)
  /\ StartAt(s, AfterDiscard(s))
  /\ UNCHANGED <<storeVars, queueVars>>

\* MUTANT of StartSettle: <= for <, the last try is retried too.
StartSettleOffByOne(s) ==
  /\ starter[s] = "settle"
  /\ IF attempt[StartJob(s)] <= MaxTries
       THEN /\ Transition(s, {"starting"}, "queued")
            /\ StartAt(s, IF status[s] = "starting" THEN "retry" ELSE "return")
       ELSE /\ Transition(s, {"starting"}, "failed")
            /\ StartAt(s, "return")
  /\ UNCHANGED <<key, age, queueVars, runtimeVars>>

\* MUTANT of StartSettle: a plain write, no compare-and-set.
StartSettleBlind(s) ==
  /\ starter[s] = "settle"
  /\ IF attempt[StartJob(s)] < MaxTries
       THEN Transition(s, SandboxStatus, "queued") /\ StartAt(s, "retry")
       ELSE Transition(s, SandboxStatus, "failed") /\ StartAt(s, "return")
  /\ UNCHANGED <<key, age, queueVars, runtimeVars>>

\* Back to `queued` for another try, or, on the last one, `failed`.
StartSettle(s) ==
  /\ starter[s] = "settle"
  /\ IF attempt[StartJob(s)] < MaxTries
       THEN /\ Transition(s, {"starting"}, "queued")
            /\ StartAt(s, IF status[s] = "starting" THEN "retry" ELSE "return")
       ELSE /\ Transition(s, {"starting"}, "failed")
            /\ StartAt(s, "return")
  /\ UNCHANGED <<key, age, queueVars, runtimeVars>>

\* MUTANT of StartPublish: a plain write, no compare-and-set.
StartPublishBlind(s) ==
  /\ starter[s] = "publish"
  /\ Transition(s, SandboxStatus, "running")
  /\ StartAt(s, "return")
  /\ UNCHANGED <<key, age, queueVars, runtimeVars>>

\* Only a row still `starting` becomes `running`.
StartPublish(s) ==
  /\ starter[s] = "publish"
  /\ Transition(s, {"starting"}, "running")
  /\ StartAt(s, IF status[s] = "starting" THEN "return" ELSE "drop")
  /\ UNCHANGED <<key, age, queueVars, runtimeVars>>

StartReturn(s) ==
  /\ starter[s] = "return"
  /\ FinishJob(StartJob(s))
  /\ StarterEnds(s)
  /\ UNCHANGED <<storeVars, runtimeVars>>

StartRetry(s) ==
  /\ starter[s] = "retry"
  /\ RequeueJob(StartJob(s))
  /\ StarterEnds(s)
  /\ UNCHANGED <<storeVars, runtimeVars>>

\* A statement raises, before or after the database carried it out, or hangs
\* into job_timeout: arq drops the job.
StartError(s) ==
  /\ starter[s] \in {"read", "expire", "claim", "look", "publish", "drop",
                     "settle", "retry"}
  /\ FinishJob(StartJob(s))
  /\ StarterEnds(s)
  /\ UNCHANGED <<storeVars, runtimeVars>>

\* The worker dies, between two requests to the daemon.
StartCrash(s) ==
  /\ starter[s] # "idle"
  /\ LaunchEnds(s)
  /\ StarterEnds(s)
  /\ UNCHANGED <<storeVars, queueVars>>

\* It dies or is stopped in the middle of one: the daemon may carry that out all
\* the same, and a process that is stopped waits for its threads.
StartCutShort(s) ==
  /\ \/ starter[s] \in Launching /\ LaunchLeft(s)
     \/ starter[s] \in {"discard", "drop"} /\ RemoveRaises(s)
  /\ StarterEnds(s)
  /\ UNCHANGED <<storeVars, queueVars>>

StarterContinues(s) ==
  \/ StartRead(s)
  \/ StartExpire(s)
  \/ StartClaim(s)
  \/ StartLook(s)
  \/ StartClear(s)
  \/ StartCreate(s)
  \/ StartBoot(s)
  \/ StartProbe(s)
  \/ StartDiscard(s)
  \/ StartSettle(s)
  \/ StartPublish(s)
  \/ StartReturn(s)
  \/ StartRetry(s)

-----------------------------------------------------------------------------
(* stop_sandbox *)

StopAt(s, step) ==
  /\ stopper' = [stopper EXCEPT ![s] = step]
  /\ UNCHANGED <<starter, attempt>>

StopperEnds(s) ==
  /\ stopper' = [stopper EXCEPT ![s] = "idle"]
  /\ attempt' = [attempt EXCEPT ![StopJob(s)] = 0]
  /\ UNCHANGED starter

PickStop(s) ==
  /\ stopper[s] = "idle"
  /\ PickUp(StopJob(s))
  /\ stopper' = [stopper EXCEPT ![s] = "remove"]
  /\ attempt' = [attempt EXCEPT ![StopJob(s)] = tries[StopJob(s)] + 1]
  /\ UNCHANGED <<starter, storeVars, runtimeVars>>

\* The container goes first, whatever the row says.
StopRemove(s) ==
  /\ stopper[s] = "remove"
  /\ Remove(s)
  /\ StopAt(s, "mark")
  /\ UNCHANGED <<storeVars, queueVars>>

\* Retried, and after the last try left to the reaper.
StopRemoveFails(s) ==
  /\ stopper[s] = "remove"
  /\ RemoveRaises(s)
  /\ StopAt(s, IF attempt[StopJob(s)] < MaxTries THEN "retry" ELSE "return")
  /\ UNCHANGED <<storeVars, queueVars>>

\* MUTANT of StopMark: only a row that still runs is marked.
StopMarkRunning(s) ==
  /\ stopper[s] = "mark"
  /\ Transition(s, {"running"}, "stopped")
  /\ StopAt(s, "return")
  /\ UNCHANGED <<key, age, queueVars, runtimeVars>>

\* The container is gone, and the stop done.
StopMark(s) ==
  /\ stopper[s] = "mark"
  /\ Transition(s, {"stopping"}, "stopped")
  /\ StopAt(s, "return")
  /\ UNCHANGED <<key, age, queueVars, runtimeVars>>

StopReturn(s) ==
  /\ stopper[s] = "return"
  /\ FinishJob(StopJob(s))
  /\ StopperEnds(s)
  /\ UNCHANGED <<storeVars, runtimeVars>>

StopRetry(s) ==
  /\ stopper[s] = "retry"
  /\ RequeueJob(StopJob(s))
  /\ StopperEnds(s)
  /\ UNCHANGED <<storeVars, runtimeVars>>

StopError(s) ==
  /\ stopper[s] = "mark"
  /\ FinishJob(StopJob(s))
  /\ StopperEnds(s)
  /\ UNCHANGED <<storeVars, runtimeVars>>

\* The worker dies, ...
StopCrash(s) ==
  /\ stopper[s] # "idle"
  /\ StopperEnds(s)
  /\ UNCHANGED <<storeVars, queueVars, runtimeVars>>

\* ... or dies or is stopped during the removal.
StopCutShort(s) ==
  /\ stopper[s] = "remove"
  /\ RemoveRaises(s)
  /\ StopperEnds(s)
  /\ UNCHANGED <<storeVars, queueVars>>

StopperContinues(s) ==
  \/ StopRemove(s)
  \/ StopMark(s)
  \/ StopReturn(s)
  \/ StopRetry(s)

-----------------------------------------------------------------------------
\* Does a live handler run job j?
Running(j) == attempt[j] # 0

\* The in-progress key of a dead worker expires; that of a live one cannot,
\* because it outlives job_timeout.
KeyExpires(j) ==
  /\ j \in busy
  /\ ~Running(j)
  /\ busy' = busy \ {j}
  /\ UNCHANGED <<jobs, tries, workerVars, storeVars, runtimeVars>>

\* The job has been picked up too often.
JobDropped(j) ==
  /\ ~Running(j)
  /\ DropExhausted(j)
  /\ UNCHANGED <<workerVars, storeVars, runtimeVars>>
=============================================================================

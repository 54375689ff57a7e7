# A verification project for the sandbox service

The service (repository `README.md`, `app/`) starts one container per sandbox on behalf of AI
agents. `POST /sandboxes` writes a row and queues a job; a worker starts the container and
publishes it as `running`; `DELETE` asks for its end; a periodic sweep, the reaper, makes
containers and rows agree. Nothing holds a lock across an `await`: requests, two job handlers,
sweeps, abandoned Docker threads and the Docker daemon interleave freely, and any of them may fail
half way. Around that sit the split of jobs between two worker pools, the Docker requests behind each
runtime call, the time budget of a job and the scrape endpoint. These modules model all of it. Each module names the code it
translates; `PROJECT.json` maps every definition to its lines.

## 1. Inventory

| Component | State | Operations | Talks to |
|---|---|---|---|
| `sandboxes` table (`app/models.py`, `_transition` in `app/worker.py`) | one row per sandbox: status, `expires_at`, `idempotency_key`, and columns no guard reads | insert, compare-and-set on status, one plain write (`sandboxes.py:118`), one bulk update (`worker.py:285`) | everyone |
| API (`app/routes/sandboxes.py`) | none beyond the requests in flight | POST: replay, count, insert, enqueue, mark failed. DELETE: read, mark, re-read, enqueue. GETs | table, queue, canary weight |
| Job queue (`app/queue.py`, arq, Redis) | job keys, in-progress keys, try counters | enqueue (deduplicated by id), pick up, finish, retry, drop after `max_tries` | API, workers |
| Worker handlers (`start_sandbox`, `stop_sandbox`) | where each running handler is | see section 3 | table, runtime, queue |
| Reaper (`reconcile_sandboxes`) | the snapshot, listing and work list of each sweep | snapshot, list, classify, remove, settle, fail the vanished, finish stops | table, runtime |
| Container runtime (`app/runtime.py`) | the containers the Docker daemon holds, the threads still working | launch (get, create, start, probe), remove, list, prepare | Docker daemon |
| Rollout (`app/rollout.py`, `routes/rollout.py`, the runbook's mitigation) | the canary weight, each pool's queue, which jobs run where | read, set, route by crc32; take, finish, retry, discard; move a queue | Redis, API, workers, operator |
| Settings (`app/config.py`) | constants | validate that a launch fits in a job | all; arq's `job_timeout` |
| Metrics, health (`routes/metrics.py`, `routes/health.py`) | gauges | sample at scrape time; probe | table, Redis |
| Wiring, schemas, engine, logs, deployment, alert rules, tests | — | — | — |

Behaviours that are hard here: lock-free interleaving around every `await`; at-least-once delivery
with a drop after the last try; an enqueue whose reply is lost; a deadline that stops the waiting
and not the Docker thread; a removal carried out after its caller gave up; workers, the API or
Redis dying between two writes, or in the middle of a request; a sweep that acts on a snapshot it made several calls ago; two
sweeps at once; a label whose expiry is a second coarser than the row's. `PROJECT.json`, "hazards",
has each at its line.

What makes each part correct:

- table: a status only ever moves along the life cycle; a settled sandbox is not revived.
- API: the row is there before anybody refers to it; the cap is overshot by a bounded amount;
  an accepted stop is carried through although its enqueue failed.
- queue and handlers: a try more or less never leaves a sandbox unsettled; a handler alone moves
  the row it has claimed, except for those that want no container.
- reaper: never takes a container that is wanted; takes every one that is not; calls disappeared
  only what is gone.
- runtime: a container is started only by its creator, and not after its removal; what happens
  behind a caller's back was begun by a call that raised; a remove that returns told the truth.
- rollout: no job is lost between the pools, and a rollback drains the canary.
- job budget: `job_timeout` is a backstop, the handler's own bounds come first.
- scrape: what it exposes is no older than the answers that were on their way when it began.

## 2. Plan

Done, in this order.

1. `SandboxIds`, `SandboxStore`, `JobQueue`, `ContainerRuntime`: the shared state and its operations.
2. `SandboxApi`, `SandboxWorker`, `SandboxReaper`: the three programs over it.
3. `SandboxLifecycle`: the abstract specification. `Orchestrator`: the composition, its properties,
   its inductive invariant, and the refinement of `SandboxLifecycle`.
4. `Admission`: the API alone with several sandboxes and requests, its environment abstracted.
5. `OrchestratorTypes`, `OrchestratorSteps`, `OrchestratorSafety`, `OrchestratorDuties`: the theorems.
6. `DocumentedClaims`: sentences of documents and comments that the code does not keep.
7. `DockerRuntime`: the runtime request by request, implementing `ContainerRuntime`; `DockerProofs`.
8. `Rollout` and `Canary`: routing, the pools' queues, a rollback by the runbook; `CanaryProofs`.
9. `JobBudget`, `JobBudgetProofs`; `Scrape`, `ScrapeProofs`.

Left: the API's start-up and shutdown (`app/main.py`, `app/db.py`), whose DDL is idempotent; health
probes, which have no state.

## 3. Modules

`SandboxIds` has the sandbox ids; `SandboxStore`, `JobQueue` (which extends it) and `ContainerRuntime`
hold state and its operations; `SandboxApi` extends the queue, `SandboxWorker` the queue and the
runtime, `SandboxReaper` the table and the runtime; `Orchestrator` extends all three programs and says
what each of their steps leaves alone. `DockerRuntime` instantiates `ContainerRuntime`. `Rollout` extends
`SandboxApi`, `Canary` extends `Rollout`. `JobBudget` and `Scrape` stand alone. The modules named `MC...`
only name the model values of the runs.

**SandboxStore** — `status`, `key`, and `age`: where the clock stands relative to `expires_at`.
`labelDue` is the last second of a sandbox's life: the container's label is truncated to a second
(`runtime.py:117`), so a sweep may see it expired before the row is. `Transition` is `_transition`.
Type, URL, error, attempts and timestamps are written beside the status and no guard reads them.
Both worker constants, `_STARTABLE` and `_NO_CONTAINER_WANTED`, are here.

**JobQueue** — what the code relies on in arq: an id exists once; a picked-up job has an
in-progress key that outlives a dead worker; each pick-up is a try; a job picked up more than
`max_tries` times is dropped and its handler not called. `EnqueueRaises` is the enqueue that raised
and may have happened. In `Orchestrator` the two pools' queues are one set: ids are global, every pool
can run every job, so which of them does is no state its properties can see. `Rollout` tells them apart.

**ContainerRuntime** — what `app/runtime.py` promises, in single steps. One container per sandbox (its
name is deterministic), `absent`, `created`, `running` or `exited`. A call may be given up on at any
request of its thread: by the deadline of `_run`, which also covers the wait for a free thread of the
executor, or by `launch_timeout_s`, which the settings may make shorter than any request. What such a
call leaves behind is state of its own: `forgotten` counts the launches that may yet create a
container, `creator` says who is about to start the one that is there (the handler, a thread nobody
waits for, or nobody), `sought` are the sandboxes a removal may yet look for, `doomed` the containers
such a call has found and may remove, or whose removal is on its way to the daemon. Two variables are
history, read by properties only, and cleared when the container answers a probe: `lost` are containers
that died or were removed from outside this system, `overtaken` those removed by a call that this
system itself had made and given up on. A container started after its removal, or by somebody who did
not create it, is excluded here and shown to be excluded by `DockerRuntime`.

**DockerRuntime** — `launch`, `remove` and `prepare` as the Docker requests they make, each call in a
thread of its own. `step[t]` is the thread's next request, `waited` the threads that a handler still
awaits: `Deadline` takes a thread out of it at any request, the first included, and the thread goes on.
A thread that has not begun is cancelled with its call, which is `ThreadDies`. A request on a container
object names its id: `holds` are the threads whose handle is of the container that is there; a removal
makes all others' stale, and a stale handle gets 404. Every request may be refused (`Refused`), carried
out without an answer (`AnswerLost`), or carried out later (`CarriedOutLate`, then `Late`); a worker that
dies in the middle of one leaves it to the daemon in the same way (`StillInFlight`). `containers.run` is
create, pull on demand, create again, start; 409 leads to the winner's container (`Adopt`). A start job
has one handler at a time, so one awaited launch per sandbox; removals are not restricted. The
refinement mapping: the threads nobody waits for are counted as `forgotten` while they may create, are
in `sought` while they are to look for what to remove, in `doomed` while they hold it, and are `creator`
while they hold what they are to start; late requests are counted with them.

**SandboxApi** — one action per awaited call; a request is a program counter, a target and a key.
Requests that end having changed nothing are not kept as steps. `PostMarkFailed` is the plain
ORM write. `CallCrash` is the API dying or a statement raising, between any two steps (so also
after a commit whose reply was lost).

**SandboxWorker** — `start_sandbox`, one action per awaited call and per Docker request that changes
something, plus its ends: return, `Retry`, an exception or `job_timeout` (arq drops the job), and the
death or stop of its worker (the job is run again when its in-progress key has expired). `LaunchLeft` is
what a launch that raises leaves behind, at whichever request it was given up: nothing, a thread that
goes on from there, or a request on its way. `StartCrash` is a worker that dies between two requests,
`StartCutShort` and `StopCutShort` one that dies or is stopped (SIGTERM, `worker_drain_s` over) in the
middle of one: the daemon may carry the request out, and a process that is stopped waits for its
threads. Looking for the container and clearing it away are two steps (`StartLook`, `StartClear`): a
forgotten thread may act in between. Handlers are kept per sandbox and kind, because the in-progress
key lets only one run: it outlives `job_timeout`. After Redis lost its data a second handler of the same
job waits here for the first to end. A missing row and a settled one share a branch: neither starts
anything.

**SandboxReaper** — one action per awaited call of `reconcile_sandboxes`; reading the statuses and
then the clock is one step. `gone` starts as the snapshot of running rows and becomes what the
listing left of it, `live` is the listing, `todo` the removals decided on. The listing includes
`created` and `exited` containers, as `all=True` does. Any number of sweeps at once.

**Orchestrator** — the composition. Every fault is an action at the place where it bites, of a
kind (`api`, `redis`, `docker`, `db`, `crash`, `cut`, `kill`; `cut` is a worker cut short in the middle
of a Docker request), and `MaxFaults` bounds how many happen. Time passes for each sandbox at any
moment. A POST comes only while an id is left (`IdsLeft`): ids are fresh uuids, so their number is a
bound of the instance and no behaviour of the service.

**SandboxLifecycle** — the abstract specification: where a status may go next, and that an
accepted stop finishes. `Lifecycle` in `Orchestrator` instantiates it; the mapping is the identity on
`status`, everything else is hidden.

**Admission** — the real API actions with several sandboxes; workers and reaper are replaced by
"a row moves to some successor in `SandboxLifecycle`", which the refinement justifies.

**Rollout** — `weight` in Redis; `seen[r]`, the weight a request routes by, read some awaits before it
enqueues (0 when the read fails); `deployment`, the row's pool, where its start job goes; per pool the
ids in its queue, the jobs its handlers run and whether its worker is up. arq keeps an id in the queue
while it runs, removes it from the queue of the pool that ran it, and rescores it there on `Retry`
(which the handlers raise only while a try is left), so after a move an id can be in both queues, or in
one without a job; an id without job, or tried too often, is thrown out un-run (`Discarded`). `fate` is
history: whether a handler of the job has run to its end, or the last try died with its pool.
`crc32 % 100` is a constant function. Handlers move rows as `SandboxLifecycle` allows.

**Canary** — a rollout: the weight is set at any time; the canary dies and need not come back; while
`QueueNotDraining` holds for it the operator sets the weight to 0 and runs the runbook's script.

**JobBudget** — one try of `start_sandbox` on a clock. Each awaited call takes up to its own bound
(`Bound`); arq cancels at `JobTimeout`; the settings are any the validator accepts. `db_timeout_s` is a
limit on a single wait, and given three times (`app/db.py:20-22`): to the pool, to connecting, and to
each command. So a phase that needs a connection is given `Checkout` waits for it (the pool, the
pre-ping, a new connection when that fails), one for BEGIN, `Statement` waits for its statement
(prepared, then executed), and one for COMMIT. How many waits a checkout and a statement are is the
library's affair; both are constants.

**Scrape** — `GET /metrics`: two samplers in turn, each reading and setting gauges of the process that
other scrapes set too, and clearing all of its own when a read fails. A read is answered in one step
(`Read`) and set in a later one (`Set`): other scrapes may begin, set and respond in between. A value is
abstracted to its age: the scrapes that were under way when it was given, and those that began while
it was in the hands of the scrape that had asked for it.

The modules with proofs (`Orchestrator...`, `CanaryProofs`, `ScrapeProofs`, `JobBudgetProofs`,
`DockerProofs`) are described in section 5.

## 4. Runs

In the runs of `Orchestrator`: `MaxTries` 2 (one retry and a last try), `MaxActive` 1 (the cap only
delays a single sandbox; `Admission` is about it). Sandboxes meet in three places only: the
cap, the bulk update that finishes stops, and the end of a sweep by one failed removal. So one
sandbox with every interleaving is the instance of choice, and `Admission` has three. Deadlock is
checked in every passing run: a sweep, a scrape, a call or a setting of the weight can always begin.

| Run | Instance | Checks | Shows |
|---|---|---|---|
| Service | 1 sandbox, 1 request, 2 symmetric sweeps, 1 fault of any of the seven kinds | `TypeOK`, `IInv`, `DutyInv`, `LiveSandboxKeepsItsContainer`, `VanishedIsReal`, `StartsAreOwed`, `StopsAreOwed`, `WhatIsGoneStaysGone` | the invariants of the proofs; no retry, late stop, sweep or second sweep takes a running sandbox's container within its time, and nothing does before a call has failed; what a sweep is about to fail is gone or expired; an accepted start or stop always has a job or a request about to make one; what has ended gets no container again |
| Progress | 1 sandbox, 1 request, 1 sweep, 1 fault of any kind but `cut` | `LifecycleSpec`, `NothingLeaks`, `LossIsNoticed`, `OnlyTheLostDisappear`, `StartSettles`, `MissingInv` | the refinement; stops finish; unwanted, leaked and expired containers go for good; a missing container has a reason and is noticed, and nothing else is failed as missing; every accepted sandbox starts or settles |
| Admission | 3 sandboxes, 2 requests, 1 key, cap 1, symmetric | `OvershootBounded` | count-then-insert overshoots by at most the other requests in flight |
| Canary | 1 sandbox whose bucket is 0, 1 request, weights 0 and 1, 2 deaths | `TypeOK`, `EveryJobHasAnEntry`, `OnePoolRunsIt`, `AtZeroOnlyOvertaken`, `JobsGetDone` | moving a queue under running, retried and newly routed jobs loses none and runs none twice at a time; a handler of each runs to its end, though the canary may never return, unless the job's last try died with its pool |
| Scrape | 3 symmetric scrapes at once | `ExposedIsFresh` | what a scrape shows was given since it began, or was another scrape's answer, not yet set, when it began; a failed sampler leaves nothing older, nor do two scrapes that fail differently |
| Docker | 1 sandbox, 3 symmetric threads, 2 late creations at a time | `TypeOK`, `RemovedWasAbsent`, `KeepsItsPromise` | the requests implement `ContainerRuntime`; a remove that returns told the truth |

Why these bounds: the hazards of the orchestrator need one sandbox, one request that creates and then
stops it (a request slot serves both, one after the other), a second sweep, and the fault they are
about. Two tries distinguish the retry from the last try. One fault of any kind leaves room for each
hazard listed; `CarriedOver` needs two, a launch that fails and a discard that is given up on. `Canary`
needs one job of each kind, one bucket on either side of the weight as the weight changes, and a pool
that dies, comes back and dies again: twice is `MaxTries`, so that a job's last try dies too. Three
threads let an abandoned launch, its retry and a removal overlap, with two creations that are late as
well. In `Progress` `cut` is left out for its size: what a worker that is cut short leaves behind is what
a failed launch or removal (`docker`) leaves behind, and that its job is run again is `crash`. Containers
of an earlier database (`Stray`) are in the modules and in the theorems; the runs have none.

The largest runs are `Service` (2.7 million states), `Docker` (1.1 million), `Scrape` (640,000),
`Progress` (370,000) and `Canary` (350,000); each takes less than three minutes with two workers.

Fairness (`FairSpec` of `Orchestrator`): begun requests, deliveries, running handlers, sweeps and
abandoned threads go on. The code justifies each: the event loop runs what is ready, every await has a
timeout, arq polls, the cron job comes round every `reconcile_interval_s`. Each is weak fairness of one
actor's step, with the actor's own variables as subscript. Nothing is assumed of clients, faults, the
removals that were given up on or the clock, so what is promised does not wait for a time to live
to pass. Faults are finitely many: progress is promised to those who are not failed for ever.
`StartSettles` excepts behaviours in which the API, Redis, the database or a worker failed
(`disrupted`): the code has no answer to a row that is committed and never enqueued. `LossIsNoticed`
excepts a running row whose container is gone while a launch that was given up on may still put
another in its place: then the sweep finds that one.

Fairness of `Canary`: a worker that is up takes jobs, its handlers end, in-progress keys expire, the
stable worker is restarted (`compose.yaml`, `restart`) and a page is answered. Nobody need restart the
canary, and no handler need raise `Retry`. Deaths are bounded by `MaxDeaths`. `JobsGetDone` asks for a
handler that ran to its end, and not for an id that has left the queues; its exception, a job whose last
try died with its pool and which is then thrown out un-run, is limitation #2 of the repository's README.

### Where documents and code part

Each of these runs refutes one sentence; `PROJECT.json`, "findings", quotes it.

| Run | Sentence | What happens |
|---|---|---|
| FastWorker | README.md:54, a fast worker can't be overwritten by a late API write | the enqueue's reply is lost, the worker runs the job, the API's plain write marks the row `failed` over `starting` or `running` |
| DeadContainer | README.md:113, an OOM-killed container's row is failed by the reaper | the exited container is listed, the row stays `running` until its time is over |
| StuckStarting | docs/RUNBOOK.md:57, a stuck `starting` is cleaned up at TTL | no sweep ever reads a `starting` row that has no container |
| DuplicateAtCap | sandboxes.py:74, a concurrent duplicate returns the original even at capacity | it looks for the key before the original is inserted, counts after it, and gets 429 |
| CarriedOver | worker.py:144, a broken container is never carried into a retry | the discard swallows a removal that was given up on; the retry adopts the container, publishes it, and the removal comes after |
| JobBudget | config.py:54, cleanup and status write come before arq cancels | the bound leaves out the read and the claim, and counts two waits for the database where there are many; with 90 s, 45 s, 10 s and 5 s the handler can be cancelled before its last write, leaving `starting` |

`JobBudget` counts in units of 5 s with the default settings, where the validator's bound is 85 s of
90 s and the handler's worst case 130 s with `Checkout` = 2 and `Statement` = 1 (120 s if both are 1). The
run stops when the handler ends, so deadlock is not checked there.

Noted beside them: two sweeps at once, or one that dies between a removal and its compare-and-set, may
record an ordinary expiry as `failed`, "container disappeared" (worker.py:327 calls a double sweep
harmless; that it takes a second sweep or a failure is the theorem `LostDisappear`); the last update of a sweep may
finish a stop whose container was created after the listing, and a later removal takes it
(`NothingLeaks`); an ordinary stop under way when a sweep passes is counted as an `orphan`, which
docs/RUNBOOK.md:87 takes for a crash or a lost stop; a launch thread that outlives its deadline may
hand its container to the retry, which then adopts it, or remove the retry's, if it was given up on
before it had looked; docs/RUNBOOK.md:77 says the stable pool runs the moved jobs as they are, which
does not hold of one whose last try died with the canary; and README.md:78 calls the gauges exactly as
fresh as the scrape, which holds of one scrape at a time (`ExposedIsFresh` is what holds of several).

## 5. Proofs

TLAPS proves the following for every value of the constants: any sets of sandboxes, strays, requests,
keys, sweeps, threads and scrapes and any bounds. The assumptions are on the constants only, each in
the module that declares them: `StoreAssumption`, `QueueAssumption`, `ApiAssumption`, `FaultAssumption`,
`RolloutAssumption`, `CanaryAssumption`, `DockerAssumption`. They say that ids and the values that
stand for "none" differ, that bounds are numbers and that the sets counted are finite.

| Theorem | Module | Says |
|---|---|---|
| `TypeCorrect` | `OrchestratorTypes` | `Spec => []TypeOK`; in it, no job is tried more than `MaxTries` times |
| `InvariantCorrect` | `OrchestratorSafety` | `Spec => []IInv`, the inductive invariant |
| `LiveSandboxKept` | `OrchestratorSafety` | a running sandbox within its time has its container, unless that was lost outside or, after a failed call, to a removal or launch that had been given up on |
| `VanishedReal` | `OrchestratorSafety` | what a sweep is about to fail as disappeared is gone or expired |
| `LifecycleSafe` | `OrchestratorSafety` | the service implements `SandboxLifecycle!Safety` |
| `AdmissionBounded` | `OrchestratorSafety` | the cap is overshot by at most the other requests in flight |
| `GoneStaysGone` | `OrchestratorDuties` | a sandbox that has ended stays without container, whatever is delivered or retried later |
| `MissingExplained` | `OrchestratorDuties` | a sandbox shown as running without container lost it outside or to a call given up on, or to a sweep that is yet to say so or failed |
| `LostDisappear` | `OrchestratorDuties` | with one sweep at a time, only what was lost is failed as disappeared (or, after a failure, something expired) |
| `DutiesKept`, `StartsOwed`, `StopsOwed` | `OrchestratorDuties` | an accepted start or stop always has a job or a request about to enqueue it |
| `RuntimeAsPromised` | `OrchestratorDuties` | `Spec => RuntimeSpec`: the service does to containers only what `ContainerRuntime` allows, one operation a step |
| `DockerTypes`, `RemoveTellsTheTruth` | `DockerProofs` | types; a remove that returns saw a moment without container |
| `PromiseKept` | `DockerProofs` | `Spec => KeepsItsPromise`: the requests implement `ContainerRuntime` |
| `CanaryTypes`, `JobsKeepTheirEntry` | `CanaryProofs` | types; every job is in the queue of a pool |
| `OnePoolRuns` | `CanaryProofs` | a job is run by one pool at a time |
| `DrainedStaysDrained` | `CanaryProofs` | at weight 0 only overtaken requests put a new job into the canary's queue |
| `ThrownOutOnlyWhenCut` | `CanaryProofs` | a job leaves the queues only with a handler run to its end, or after its last try died with its pool |
| `RouteMonotone` | `CanaryProofs` | raising the weight only moves sandboxes into the canary |
| `ExposedFresh` | `ScrapeProofs` | what a scrape exposes is no older than the answers under way when it began |
| `BackstopSuffices` | `JobBudgetProofs` | with room for two connections, three statements, two BEGINs and two COMMITs instead of two database timeouts, and strictly less than `job_timeout`, arq never cancels a handler that gave up its launch |

**How the orchestrator's proofs go.** There are some forty actions and the invariant has eleven parts. So the proof
does not pair them off; it goes through what each *actor* guarantees.

1. `OrchestratorTypes`: every operation, then every action, keeps the types.
2. `OrchestratorSteps`: a step of a request, a start handler, a stop handler, a sweep, the daemon
   side, arq or the clock is within that actor's guarantee (`ApiGuarantee`, `StartGuarantee`,
   `StopGuarantee`, `SweepGuarantee`, `DockerGuarantee`, `QueueGuarantee`, `TimeGuarantee`): which rows
   and containers it may move, from what to what, and where it may be afterwards. `StepGuarantee`:
   every step is within one of them. Faults are part of the actor they strike.
3. `OrchestratorSafety`: each guarantee keeps `IInv`, one lemma per actor, one step per conjunct.
4. `OrchestratorDuties`: the same guarantees, with `IInv`, give what lies behind liveness (below).

**The invariant.** `LiveSandboxKeepsItsContainer` is not inductive. A removal looks at no row, so
one must know why it may remove:

- `StopIntent`: a stop job, its handler, or a request about to enqueue it exists only for a row that
  wants no container. Statuses in `NoContainerWanted` are never left for one outside
  (`StepMovesRowsOn`), so the right to remove does not lapse while the job waits.
- `ReapIntent`: the same for each sweep's work list, where an expired label or a missing row
  is a right as well.
- `ClaimHeld`: from its claim to its last write a start handler finds its row `starting` or unwanted,
  so its removals, on failure or after a lost compare-and-set, take no running sandbox's container.
- `PublishedRuns`: the compare-and-set that publishes finds the container the probe saw.
- `GivenUpLate`: threads and requests nobody waits for exist only once a call has failed. What they do is
  the one exception the property makes, and this is what keeps the exception from excusing anything else:
  as long as no call has failed, nothing at all takes the container.
- `SeenRunning`, `SweepIdle`: what a sweep still holds of its snapshot was running and can only have
  moved to a status that wants no container; with these `VanishedIsReal` is inductive.
- `RowFirst`: nobody refers to a sandbox that has no row, so an insert disturbs nothing; strays never
  get one.

`IInv` is also checked by TLC (`Service`). `LifecycleSafe` uses `RowFirst` for the API's plain write,
the one row write without a compare-and-set: it finds a row, and every status a row can have may be
followed by `failed`. That this holds of `stopped` too is what the code does and what the abstract
specification therefore has to allow (see the run FastWorker).

**The cap.** `OvershootBounded` is not inductive either: a request that has counted adds its row whatever
the count has become since. `AdmissionInv` counts the rows such requests are about to add along with the
active ones; a count that finds room leaves at most `MaxActive - 1` active and `|Request|` about to
insert, and nothing else raises the sum, because handlers, sweeps, daemon and clock make no row active
(their guarantees again). The theorem is about the whole service, the run `Admission` about the API
with its surroundings abstracted.

**What is gone.** Liveness is out of these provers' reach, but a good part of `NothingLeaks` is not
liveness: that what the reaper removed does not come back. `GoneForGood(s)` says that nothing is left
that could bring a container: none is there, no thread is at work on one, and no start handler is past
the check that would let it launch. A start handler meets two checks, the clock (`StartRead`) and the
claim (`StartClaim`), so a row that wants no container stops it at the claim, and a row whose time is
over stops it only if it has not yet looked at the clock: a handler at `claim` may still launch for a
sandbox that has just expired, and `GoneForGood` has to except it. Given that, `RowFirst` and the fact
that rows never leave `NoContainerWanted`, each actor's guarantee keeps it.

**What is missing.** `OnlyTheLostDisappear` is about one step at the end of a sweep; its reason lies
before that sweep began. `MissingIsExplained` carries it: whenever a row is `running`, or is about to be
published, and has no container, the container is in `lost` or `overtaken`, or it was past its label's expiry and
either the sweep that removed it is about to settle the row or something has failed. So when a sweep
lists the containers and no other is under way, what it finds missing was lost, or something had
failed before; `VanishedIsLost` holds on to that until the row is written. With a second sweep the middle
case is alive while the first lists, which is how a double sweep fails an ordinary expiry.

**What is owed.** `StartsAreOwed` and `StopsAreOwed` are the safety halves of `StartSettles` and of
finishing a stop: somebody is there to go on. They are not inductive, since a job is dropped in two
ways. A drop by count is excluded by following the tries: a running handler's `attempt` is its job's
count, and a handler gives its job back only if one more try is left (`worker.py:148`), so a
start job nobody runs has been tried less than `MaxTries` times. A drop by return is excluded by where
the handler stands: at `return` the row is no longer `queued` or `starting` (`stopping`, for a stop). A
request adds the other case: an `Enqueue` that finds the id taken is no loss, because the job that
takes it is the one owed. `StartDuty` holds while nothing failed that disrupts (failed launches and
killed containers do not); `StopDuty` while nothing failed at all, because the last failed removal
gives the stop to the reaper (`worker.py:217`).

**The runtime.** `PromiseKept` rests on `HandlesInv`: a handle that is not stale is of a container that
is there, and among the threads and late requests at most one may start a container (`Titled`), because
a creation needs the name to be free, which makes every other handle of it stale or of something else.
The mapping counts threads, so the lemmas say first what each kind of step does to the mapped variables
(`ForgottenLess`, `TitleLost`, `RemovalsGone`, ...), then one lemma per kind of request shows which step
of `ContainerRuntime` it is: `KeptByCall`, `KeptByDeadline`, `KeptByRequest`, `KeptLate`, `KeptByProbe`,
`KeptByDaemon`. A deadline over a launch that is still to create is `AbandonLaunch` or `AbandonClear`, one
over a start `AbandonBoot`, one over a removal a `RemoveRaises`; a look of a thread nobody waits for is
`GhostLook`, `GhostFind`, a stutter, or the end of a thread that would have created or removed something.
`RuntimeAsPromised` is the other side: the orchestrator, which extends `ContainerRuntime`, uses it one
operation at a time, also in its failing and crashing steps. `RemoveTellsTheTruth` follows a removal under
way: either it has seen a moment without container or the one it found is still there
(`RemovalsAreSeen`).

**The rollout.** `AtZeroOnlyOvertaken` needs to know that a retried or running job is not a new one
(`RunningIsClaimed`) and that a start job about to be enqueued goes where the request's weight routed
its row (`StartsAreRouted`). `EveryJobHasAnEntry` is inductive with `TypeOK`. `OnePoolRunsIt` is part of
`RunningIsClaimed`: what runs has its in-progress key, which every pool asks for, and which expires under
no live handler because it is set to outlive `job_timeout` (arq; external to this repository).
`ThrownOutOnlyWhenCut` is the safety half of `JobsGetDone`: an id is thrown out for want of tries only if
its tries were not used up by a job that is still owed something. `TriesAreHeld` says so: a job whose
tries are used up is being run, or its last one died with its pool. It needs the guard of `Retry`
(`worker.py:148` and 212 retry only while a try is left), as the mutant of `JobsGetDone` shows.

**The scrape.** `ExposedIsFresh` is not inductive: `FreshOnceSampled` says it of every gauge a scrape is
past, and that the age of an answer which waits to be set takes every scrape under way into account,
those that began since included, so that a late `Set` by one scrape does not age the gauge of another.

**The budget.** What has elapsed is at most the bounds of the phases passed plus what was spent on this
one, which `BackstopSuffices` sums up to the launch, one runtime call, two connections, three statements
and four waits for BEGIN and COMMIT, for every number of waits a connection or a statement may be.

## 6. What is not modelled or not proved

- Not modelled: the components marked `not_modelled` in `PROJECT.json`, with their reasons: health
  probes, GETs, schema creation, wiring, logs and traces, deployment files, dashboards,
  tests. They have no state of the system's own that anything here depends on.
- Durations are left out except in `JobBudget`: a timeout is a step that may come at any moment its
  precondition allows. `JobBudget` is about `start_sandbox`; `stop_sandbox` has one runtime call.
- How long a worker that is told to stop waits for its threads: it may leave any request or thread
  behind (`cut`), or none.
- Ports and what a container serves: whatever runs under the name answers the probe or does not.
- The unlabelled gauge of the canary weight: what `clear()` does to it is the library's affair.
- Only model-checked, because the provers here do not do liveness: `NothingLeaks`, `LossIsNoticed`,
  `StartSettles`, `JobsGetDone`, and the fairness half of `LifecycleSpec`. What of them is safety is
  proved: `GoneStaysGone`, `MissingExplained`, `StartsOwed`, `StopsOwed`, `JobsKeepTheirEntry`,
  `ThrownOutOnlyWhenCut`, `LifecycleSafe`. Every invariant and action property a passing run checks has a theorem.

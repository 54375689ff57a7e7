--------------------------- MODULE DockerRuntime ---------------------------
(***************************************************************************)
(* app/runtime.py request by request: launch, remove and prepare, each in  *)
(* a thread of its own under an asyncio deadline, against one Docker       *)
(* daemon.  The daemon may refuse a request, may carry it out while its    *)
(* answer is lost, or may carry it out after the SDK gave up on it.        *)
(*                                                                         *)
(* A request on a container object names it by its id, so a thread keeps a *)
(* handle that goes stale when that container is removed, even if another  *)
(* has its name by then; `create`, `get` and the probe go by the name.     *)
(*                                                                         *)
(* A call can be given up on at any request of its thread: its deadline    *)
(* also covers the wait for a free thread of the executor, and a launch is *)
(* under launch_timeout_s besides, which may be shorter.                   *)
(***************************************************************************)
EXTENDS Naturals, FiniteSets, SandboxIds

CONSTANTS
  Thread,      \* the threads that asyncio.to_thread uses
  NoSandbox,   \* "this thread works for no sandbox"
  MaxLate      \* bound on creations that are carried out late, per sandbox

ASSUME DockerAssumption ==
  /\ NoSandbox \notin Sandbox
  /\ MaxLate \in Nat
  /\ IsFiniteSet(Thread)

VARIABLES
  box,          \* box[s]: the container named sandbox-{s}
  image,        \* the daemon has the sandbox image
  step,         \* step[t]: the request that thread t makes next
  of,           \* of[t]: the sandbox it works for
  waited,       \* the threads somebody still waits for
  holds,        \* the threads whose handle is of the container that is there
  lateCreate,   \* lateCreate[s]: creations given up on, yet to be carried out
  lateBoot,     \* sandboxes whose container will be started all the same
  lateDelete,   \* sandboxes whose container will be removed all the same
  lost,         \* history: as in ContainerRuntime
  overtaken,    \* history: as in ContainerRuntime
  wasAbsent     \* history: removals during which there was a moment without container

boxVars == <<box, lateBoot, lateDelete, wasAbsent>>

vars == <<boxVars, image, step, of, waited, holds, lateCreate, lost, overtaken>>

LaunchStep == {"get", "drop", "create", "pull", "boot", "adopt", "inspect", "probe"}

Step == LaunchStep \cup {"idle", "find", "delete", "findImage", "pullImage", "removed",
                         "returned", "raised"}

TypeOK ==
  /\ box \in [Sandbox -> {"absent", "created", "running", "exited"}]
  /\ image \in BOOLEAN
  /\ step \in [Thread -> Step]
  /\ of \in [Thread -> Sandbox \cup {NoSandbox}]
  /\ \A t \in Thread :
       of[t] = NoSandbox => step[t] \in {"idle", "findImage", "pullImage", "returned", "raised"}
  /\ waited \subseteq Thread /\ holds \subseteq Thread /\ wasAbsent \subseteq Thread
  /\ lateCreate \in [Sandbox -> Nat]
  /\ lateBoot \subseteq Sandbox /\ lateDelete \subseteq Sandbox
  /\ lost \subseteq Sandbox /\ overtaken \subseteq Sandbox

Init ==
  /\ box = [s \in Sandbox |-> IF s \in Stray THEN "running" ELSE "absent"]
  /\ image \in BOOLEAN
  /\ step = [t \in Thread |-> "idle"]
  /\ of = [t \in Thread |-> NoSandbox]
  /\ waited = {} /\ holds = {} /\ wasAbsent = {}
  /\ lateCreate = [s \in Sandbox |-> 0]
  /\ lateBoot = {} /\ lateDelete = {} /\ lost = {} /\ overtaken = {}

-----------------------------------------------------------------------------
(* A thread goes on, or what it runs raises *)

GoesOn(t, next) == step' = [step EXCEPT ![t] = next] /\ UNCHANGED <<of, waited>>

Raises(t) == GoesOn(t, "raised") /\ holds' = holds \ {t}

Takes(t) == holds' = holds \cup {t}

Holding(t) == t \in holds

(* What the daemon does to a container *)

Untouched == UNCHANGED <<boxVars, lateCreate, lost, overtaken>>

Users(s) == {u \in Thread : of[u] = s}

\* The container of s is removed: every handle of it is stale from now on.
Removal(s) ==
  /\ box' = [box EXCEPT ![s] = "absent"]
  /\ lateBoot' = lateBoot \ {s}
  /\ lateDelete' = lateDelete \ {s}
  /\ wasAbsent' = wasAbsent \cup {u \in Users(s) : step[u] \in {"find", "delete"}}
  /\ UNCHANGED lateCreate

\* The request of t that removes the container of s.
RemovedBy(t, s) ==
  /\ Removal(s)
  /\ holds' = holds \ Users(s)
  /\ overtaken' = IF t \in waited THEN overtaken ELSE overtaken \cup {s}

BoxBecomes(s, new) ==
  /\ box' = [box EXCEPT ![s] = new]
  /\ UNCHANGED <<lateBoot, lateDelete, wasAbsent, lateCreate>>

-----------------------------------------------------------------------------
(* Calls *)

Begins(t, s, first) ==
  /\ step[t] = "idle"
  /\ step' = [step EXCEPT ![t] = first]
  /\ of' = [of EXCEPT ![t] = s]
  /\ waited' = waited \cup {t}
  /\ UNCHANGED <<box, lateBoot, lateDelete, image, holds, lateCreate, lost, overtaken>>

\* launch.  The queue hands a sandbox's start job to one handler at a time.
Launch(t, s) ==
  /\ \A u \in waited \cap Users(s) : step[u] \notin LaunchStep
  /\ Begins(t, s, "get")
  /\ UNCHANGED wasAbsent

\* remove.
RemoveCall(t, s) ==
  /\ Begins(t, s, "find")
  /\ wasAbsent' = IF box[s] = "absent" THEN wasAbsent \cup {t} ELSE wasAbsent

\* prepare: once, when a worker starts.
Prepare(t) == Begins(t, NoSandbox, "findImage") /\ UNCHANGED wasAbsent

\* The thread's function is over, and with it the call.
CallEnds(t) ==
  /\ step[t] \in {"removed", "returned", "raised"}
  /\ step' = [step EXCEPT ![t] = "idle"]
  /\ of' = [of EXCEPT ![t] = NoSandbox]
  /\ waited' = waited \ {t}
  /\ holds' = holds \ {t}
  /\ wasAbsent' = wasAbsent \ {t}
  /\ UNCHANGED <<box, lateBoot, lateDelete, image, lateCreate, lost, overtaken>>

\* The daemon will carry out the request that t has made, whatever becomes of t.
StillInFlight(t) ==
  \/ /\ step[t] \in {"drop", "delete"} /\ Holding(t)
     /\ lateDelete' = lateDelete \cup {of[t]} /\ UNCHANGED <<lateCreate, lateBoot>>
  \/ /\ step[t] = "create" /\ image /\ lateCreate[of[t]] < MaxLate
     /\ lateCreate' = [lateCreate EXCEPT ![of[t]] = @ + 1]
     /\ UNCHANGED <<lateDelete, lateBoot>>
  \/ /\ step[t] = "boot" /\ Holding(t)
     /\ lateBoot' = lateBoot \cup {of[t]} /\ UNCHANGED <<lateCreate, lateDelete>>

\* The thread dies with its worker, a request of it perhaps on its way.
ThreadDies(t) ==
  /\ step[t] \notin {"idle", "removed", "returned", "raised"}
  /\ StillInFlight(t) \/ UNCHANGED <<lateCreate, lateBoot, lateDelete>>
  /\ step' = [step EXCEPT ![t] = "idle"]
  /\ of' = [of EXCEPT ![t] = NoSandbox]
  /\ waited' = waited \ {t}
  /\ holds' = holds \ {t}
  /\ wasAbsent' = wasAbsent \ {t}
  /\ UNCHANGED <<box, image, lost, overtaken>>

\* The call raises TimeoutError or is cancelled by launch_timeout_s, and its
\* thread goes on.  (One that had not begun is cancelled with it: it dies.)
Deadline(t) ==
  /\ t \in waited
  /\ step[t] \notin {"idle", "probe", "removed", "returned", "raised"}
  /\ waited' = waited \ {t}
  /\ UNCHANGED <<boxVars, image, step, of, holds, lateCreate, lost, overtaken>>

-----------------------------------------------------------------------------
(* launch: _ensure_container, then _wait_ready *)

Get(t) ==
  /\ step[t] = "get"
  /\ \/ box[of[t]] = "absent" /\ GoesOn(t, "create") /\ UNCHANGED holds
     \/ box[of[t]] = "running" /\ GoesOn(t, "inspect") /\ Takes(t)
     \/ box[of[t]] \in {"created", "exited"} /\ GoesOn(t, "drop") /\ Takes(t)
  /\ Untouched /\ UNCHANGED image

\* The container is removed and made anew; a stale handle gets 404, which nobody catches.
Drop(t) ==
  /\ step[t] = "drop"
  /\ \/ Holding(t) /\ RemovedBy(t, of[t]) /\ GoesOn(t, "create")
     \/ ~Holding(t) /\ Raises(t) /\ UNCHANGED <<boxVars, lateCreate, overtaken>>
  /\ UNCHANGED <<image, lost>>

\* containers.run: without an image it pulls and asks again; 409 means that
\* the name is taken by now.
Create(t) ==
  /\ step[t] = "create"
  /\ \/ ~image /\ GoesOn(t, "pull") /\ UNCHANGED holds /\ Untouched
     \/ /\ image /\ box[of[t]] = "absent"
        /\ BoxBecomes(of[t], "created") /\ GoesOn(t, "boot") /\ Takes(t)
        /\ UNCHANGED <<lost, overtaken>>
     \/ image /\ box[of[t]] # "absent" /\ GoesOn(t, "adopt") /\ UNCHANGED holds /\ Untouched
  /\ UNCHANGED image

\* MUTANT of Pull: after any pull a container is created.
PullThenCreate(t) ==
  /\ step[t] \in {"pull", "pullImage"}
  /\ image' = TRUE
  /\ GoesOn(t, "create")
  /\ UNCHANGED holds /\ Untouched

\* The one request without a bound, of a launch or ahead of time.
Pull(t) ==
  /\ step[t] \in {"pull", "pullImage"}
  /\ image' = TRUE
  /\ GoesOn(t, IF step[t] = "pull" THEN "create" ELSE "returned")
  /\ UNCHANGED holds /\ Untouched

Boot(t) ==
  /\ step[t] = "boot"
  /\ \/ Holding(t) /\ BoxBecomes(of[t], "running") /\ GoesOn(t, "inspect") /\ UNCHANGED holds
     \/ ~Holding(t) /\ Raises(t) /\ UNCHANGED <<boxVars, lateCreate>>
  /\ UNCHANGED <<image, lost, overtaken>>

\* MUTANT of Adopt: the winner's container is started.
AdoptStarts(t) ==
  /\ step[t] = "adopt"
  /\ \/ box[of[t]] # "absent" /\ GoesOn(t, "boot") /\ Takes(t)
     \/ box[of[t]] = "absent" /\ Raises(t)
  /\ Untouched /\ UNCHANGED image

\* After a 409 the winner's container is taken, if it is still there.
Adopt(t) ==
  /\ step[t] = "adopt"
  /\ \/ box[of[t]] # "absent" /\ GoesOn(t, "inspect") /\ Takes(t)
     \/ box[of[t]] = "absent" /\ Raises(t)
  /\ Untouched /\ UNCHANGED image

\* reload: only a running container has a host port.  The probe is no longer
\* the thread's, so a thread nobody waits for is over.
Inspect(t) ==
  /\ step[t] = "inspect"
  /\ \/ /\ Holding(t) /\ box[of[t]] = "running"
        /\ GoesOn(t, IF t \in waited THEN "probe" ELSE "returned") /\ holds' = holds \ {t}
     \/ /\ Holding(t) => box[of[t]] # "running"
        /\ Raises(t)
  /\ Untouched /\ UNCHANGED image

\* _wait_ready: whatever has the name answers, or nothing does in time.
Probe(t) ==
  /\ step[t] = "probe"
  /\ \/ /\ box[of[t]] = "running" /\ GoesOn(t, "returned")
        /\ lost' = lost \ {of[t]} /\ overtaken' = overtaken \ {of[t]}
     \/ GoesOn(t, "raised") /\ UNCHANGED <<lost, overtaken>>
  /\ UNCHANGED <<boxVars, lateCreate, image, holds>>

-----------------------------------------------------------------------------
(* remove, prepare *)

Find(t) ==
  /\ step[t] = "find"
  /\ \/ box[of[t]] = "absent" /\ GoesOn(t, "removed") /\ UNCHANGED holds
     \/ box[of[t]] # "absent" /\ GoesOn(t, "delete") /\ Takes(t)
  /\ Untouched /\ UNCHANGED image

\* A stale handle gets 404: somebody else has removed it.
Delete(t) ==
  /\ step[t] = "delete"
  /\ GoesOn(t, "removed")
  /\ \/ Holding(t) /\ RemovedBy(t, of[t])
     \/ ~Holding(t) /\ UNCHANGED <<boxVars, lateCreate, holds, overtaken>>
  /\ UNCHANGED <<image, lost>>

\* The pull is a call of its own: nobody makes it if this one was given up on.
FindImage(t) ==
  /\ step[t] = "findImage"
  /\ GoesOn(t, IF image \/ t \notin waited THEN "returned" ELSE "pullImage")
  /\ UNCHANGED <<holds, image>> /\ Untouched

-----------------------------------------------------------------------------
(* Requests that raise: refused, or timed out *)

\* MUTANT of Refused: a removal that fails counts as one.
RefusedUnnoticed(t) ==
  /\ step[t] \in (LaunchStep \ {"probe"}) \cup {"find", "delete", "findImage", "pullImage"}
  /\ IF step[t] = "pullImage" THEN GoesOn(t, "returned") /\ UNCHANGED holds
     ELSE IF step[t] = "delete" THEN GoesOn(t, "removed") /\ UNCHANGED holds
     ELSE Raises(t)
  /\ UNCHANGED image /\ Untouched

\* Nothing was done.  A pull ahead of time may fail.
Refused(t) ==
  /\ step[t] \in (LaunchStep \ {"probe"}) \cup {"find", "delete", "findImage", "pullImage"}
  /\ IF step[t] = "pullImage" THEN GoesOn(t, "returned") /\ UNCHANGED holds ELSE Raises(t)
  /\ UNCHANGED image /\ Untouched

\* It was done, and the answer did not come.
AnswerLost(t) ==
  /\ GoesOn(t, "raised")
  /\ \/ step[t] \in {"drop", "delete"} /\ Holding(t) /\ RemovedBy(t, of[t])
     \/ /\ step[t] = "create" /\ image /\ box[of[t]] = "absent"
        /\ BoxBecomes(of[t], "created") /\ Takes(t) /\ UNCHANGED overtaken
     \/ /\ step[t] = "boot" /\ Holding(t)
        /\ BoxBecomes(of[t], "running") /\ holds' = holds \ {t} /\ UNCHANGED overtaken
  /\ UNCHANGED <<image, lost>>

\* It will be done.
CarriedOutLate(t) ==
  /\ StillInFlight(t)
  /\ Raises(t)
  /\ UNCHANGED <<box, wasAbsent, image, lost, overtaken>>

Request(t) ==
  \/ Get(t) \/ Drop(t) \/ Create(t) \/ Boot(t) \/ Adopt(t) \/ Inspect(t) \/ Probe(t)
  \/ Find(t) \/ Delete(t) \/ FindImage(t)
  \/ Refused(t) \/ AnswerLost(t) \/ CarriedOutLate(t)

-----------------------------------------------------------------------------
(* What the daemon does by itself *)

Late(s) ==
  \/ /\ lateCreate[s] > 0
     /\ lateCreate' = [lateCreate EXCEPT ![s] = @ - 1]
     /\ box' = [box EXCEPT ![s] = IF @ = "absent" THEN "created" ELSE @]
     /\ UNCHANGED <<lateBoot, lateDelete, wasAbsent, holds, overtaken>>
  \/ /\ s \in lateBoot
     /\ box' = [box EXCEPT ![s] = "running"]
     /\ lateBoot' = lateBoot \ {s}
     /\ UNCHANGED <<lateCreate, lateDelete, wasAbsent, holds, overtaken>>
  \/ /\ s \in lateDelete
     /\ Removal(s)
     /\ holds' = holds \ Users(s)
     /\ overtaken' = overtaken \cup {s}

\* The container's process ends, or somebody removes the container by hand.
Outside(s) ==
  /\ \/ box[s] = "running" /\ BoxBecomes(s, "exited") /\ UNCHANGED holds
     \/ box[s] # "absent" /\ Removal(s) /\ holds' = holds \ Users(s)
  /\ lost' = lost \cup {s}

DaemonStep(s) ==
  /\ \/ Late(s) /\ UNCHANGED lost
     \/ Outside(s) /\ UNCHANGED overtaken
  /\ UNCHANGED <<image, step, of, waited>>

Next ==
  \/ \E t \in Thread, s \in Sandbox : Launch(t, s) \/ RemoveCall(t, s)
  \/ \E t \in Thread :
       \/ Prepare(t) \/ Request(t) \/ Pull(t)
       \/ CallEnds(t) \/ ThreadDies(t) \/ Deadline(t)
  \/ \E s \in Sandbox : DaemonStep(s)

Spec == Init /\ [][Next]_vars

-----------------------------------------------------------------------------
\* Threads nobody waits for: those that may yet create a container, those that
\* may yet look for one to remove, those that hold the one they are to remove,
\* and the one that has yet to start what it created.
Forgotten(s) == {t \in Users(s) \ waited : step[t] \in {"get", "drop", "create", "pull"}}

Seeker(s) == {t \in Users(s) \ waited : step[t] = "find"}

Remover(s) == {t \in Users(s) \ waited : step[t] \in {"drop", "delete"} /\ Holding(t)}

Starter(s) == {t \in Users(s) \ waited : step[t] = "boot" /\ Holding(t)}

\* Somebody is waited for who created the container, and may start it.
Maker(s) == {t \in Users(s) \cap waited : step[t] \in {"boot", "raised"} /\ Holding(t)}

forgottenBar == [s \in Sandbox |-> Cardinality(Forgotten(s)) + lateCreate[s]]

creatorBar ==
  [s \in Sandbox |->
     IF Maker(s) # {} THEN "handler"
     ELSE IF Starter(s) # {} \/ s \in lateBoot THEN "thread"
     ELSE "none"]

soughtBar == {s \in Sandbox : Seeker(s) # {}}

doomedBar == {s \in Sandbox : s \in lateDelete \/ Remover(s) # {}}

Promised ==
  INSTANCE ContainerRuntime
  WITH container <- box, forgotten <- forgottenBar, creator <- creatorBar,
       sought <- soughtBar, doomed <- doomedBar

\* The requests together do what ContainerRuntime promises in single steps,
\* whatever threads overlap, are given up on or die: a container is started
\* only by its creator and never after it was removed, and what is created,
\* started or removed behind a caller's back was begun by a call that raised.
KeepsItsPromise == Promised!RuntimeSpec

\* A remove that returns was right at some moment of the call: there was no
\* container then, whatever was created, removed or replaced meanwhile.
RemovedWasAbsent == \A t \in Thread : step[t] = "removed" => t \in wasAbsent
=============================================================================

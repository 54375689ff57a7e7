-------------------------- MODULE ContainerRuntime --------------------------
(***************************************************************************)
(* What the container runtime (app/runtime.py) promises its callers, one   *)
(* step per Docker request that changes something: create, start, remove.  *)
(* There is at most one container per sandbox, because its name is         *)
(* `sandbox-{id}`.  DockerRuntime has the requests in detail and is shown  *)
(* to implement this.                                                      *)
(*                                                                         *)
(* Every Docker call runs in a thread under an asyncio deadline, and a     *)
(* launch under launch_timeout_s besides.  When one passes the caller      *)
(* moves on and the thread does not, at whatever request it is: a launch   *)
(* can still remove, create (forgotten) and start (creator) a container    *)
(* later, a removal can still look for one (sought) and remove what it     *)
(* found (doomed), as can the daemon when its answer was lost.             *)
(***************************************************************************)
EXTENDS Naturals, SandboxIds

VARIABLES
  container,  \* container[s]: what the daemon holds under the name of s
  forgotten,  \* forgotten[s]: launches of s that nobody waits for any more
              \* and that may yet create its container
  creator,    \* creator[s]: who is about to start the container of s
  sought,     \* sandboxes whose container a removal nobody waits for may yet find
  doomed,     \* containers that may be removed although nobody waits for it
  lost,       \* history: containers that, since they last answered, died or
              \* were removed from outside this system
  overtaken   \* history: containers that, since they last answered, were
              \* removed by a call this system had given up on

runtimeVars == <<container, forgotten, creator, sought, doomed, lost, overtaken>>

ContainerState == {"absent", "created", "running", "exited"}

\* A container is started, by its id, by whoever created it: the handler, or
\* a thread the handler no longer waits for.
Creator == {"none", "handler", "thread"}

RuntimeTypeOK ==
  /\ container \in [Sandbox -> ContainerState]
  /\ forgotten \in [Sandbox -> Nat]
  /\ creator \in [Sandbox -> Creator]
  /\ sought \subseteq Sandbox
  /\ doomed \subseteq Sandbox
  /\ lost \subseteq Sandbox
  /\ overtaken \subseteq Sandbox

RuntimeInit ==
  /\ container = [s \in Sandbox |-> IF s \in Stray THEN "running" ELSE "absent"]
  /\ forgotten = [s \in Sandbox |-> 0]
  /\ creator = [s \in Sandbox |-> "none"]
  /\ sought = {} /\ doomed = {} /\ lost = {} /\ overtaken = {}

\* Somebody may still create or start a container of s.
Pending(s) == forgotten[s] > 0 \/ creator[s] # "none"

-----------------------------------------------------------------------------
\* list_sandboxes: all=True, so created and exited containers are listed too.
Listed == {s \in Sandbox : container[s] # "absent"}

\* The container of s is gone: whoever was to start or to remove that very
\* container will be told 404.
Gone(s) ==
  /\ container' = [container EXCEPT ![s] = "absent"]
  /\ doomed' = doomed \ {s}
  /\ creator' = [creator EXCEPT ![s] = "none"]
  /\ UNCHANGED sought

\* remove: idempotent, there may be nothing to remove.
Remove(s) ==
  /\ Gone(s)
  /\ UNCHANGED <<forgotten, lost, overtaken>>

\* The request to remove the container, once found, raised: nothing was done, or
\* it was done and the answer was lost, or it will still be done.
DeleteRaises(s) ==
  \/ UNCHANGED runtimeVars
  \/ container[s] # "absent" /\ Remove(s)
  \/ /\ container[s] # "absent"
     /\ doomed' = doomed \cup {s}
     /\ UNCHANGED <<container, forgotten, creator, sought, lost, overtaken>>

\* remove raised: then, or before its thread has looked for the container.
RemoveRaises(s) ==
  \/ DeleteRaises(s)
  \/ /\ sought' = sought \cup {s}
     /\ UNCHANGED <<container, forgotten, creator, doomed, lost, overtaken>>

\* containers.run creates the container.
Create(s) ==
  /\ container[s] = "absent"
  /\ container' = [container EXCEPT ![s] = "created"]
  /\ creator' = [creator EXCEPT ![s] = "handler"]
  /\ UNCHANGED <<forgotten, sought, doomed, lost, overtaken>>

\* containers.run starts the container it created, unless that was removed.
Bootable(s) == creator[s] = "handler"

Boot(s) ==
  /\ Bootable(s)
  /\ container' = [container EXCEPT ![s] = "running"]
  /\ creator' = [creator EXCEPT ![s] = "none"]
  /\ UNCHANGED <<forgotten, sought, doomed, lost, overtaken>>

\* _wait_ready: the container answers.
Answers(s) ==
  /\ container[s] = "running"
  /\ lost' = lost \ {s}
  /\ overtaken' = overtaken \ {s}
  /\ UNCHANGED <<container, forgotten, creator, sought, doomed>>

\* The launch raised, and its thread is done for: what it created stays as it is.
LaunchEnds(s) ==
  /\ creator' = [creator EXCEPT ![s] = IF @ = "handler" THEN "none" ELSE @]
  /\ UNCHANGED <<container, forgotten, sought, doomed, lost, overtaken>>

\* The launch is given up on while its thread has not created a container: it is
\* still looking for one, or about to create it, ...
AbandonLaunch(s) ==
  /\ forgotten' = [forgotten EXCEPT ![s] = @ + 1]
  /\ UNCHANGED <<container, creator, sought, doomed, lost, overtaken>>

\* ... or about to remove the one it found first ...
AbandonClear(s) ==
  /\ container[s] # "absent"
  /\ forgotten' = [forgotten EXCEPT ![s] = @ + 1]
  /\ doomed' = doomed \cup {s}
  /\ UNCHANGED <<container, creator, sought, lost, overtaken>>

\* ... or while it is about to start the one it created.
AbandonBoot(s) ==
  /\ Bootable(s)
  /\ creator' = [creator EXCEPT ![s] = "thread"]
  /\ UNCHANGED <<container, forgotten, sought, doomed, lost, overtaken>>

-----------------------------------------------------------------------------
(* What goes on behind the callers' backs *)

\* A launch nobody waits for finds a container that does not run, and is to
\* remove it before it creates its own.
GhostLook(s) ==
  /\ forgotten[s] > 0
  /\ container[s] \in {"created", "exited"}
  /\ doomed' = doomed \cup {s}
  /\ UNCHANGED <<container, forgotten, creator, sought, lost, overtaken>>

\* A removal nobody waits for finds a container; another may yet do so.
GhostFind(s) ==
  /\ s \in sought
  /\ container[s] # "absent"
  /\ doomed' = doomed \cup {s}
  /\ sought' \in {sought, sought \ {s}}
  /\ UNCHANGED <<container, forgotten, creator, lost, overtaken>>

\* A removal nobody waits for takes place, late or by such a thread.  If a
\* launch wanted it, that launch goes on to create or has ended.
GhostRemove(s) ==
  /\ s \in doomed
  /\ Gone(s)
  /\ overtaken' = overtaken \cup {s}
  /\ \/ UNCHANGED forgotten
     \/ forgotten[s] > 0 /\ forgotten' = [forgotten EXCEPT ![s] = @ - 1]
  /\ UNCHANGED lost

\* ... or will not take place: there was nothing to find, the daemon refused,
\* or the thread died with its worker.
GhostSpares(s) ==
  /\ doomed' \in {doomed, doomed \ {s}}
  /\ sought' \in {sought, sought \ {s}}
  /\ UNCHANGED <<container, forgotten, creator, lost, overtaken>>

\* A creation nobody waits for takes place, by a thread that goes on to start
\* the container or by a request whose thread gave up.  If the name is taken
\* the daemon answers 409 and the thread only reads the winner's port.
GhostCreate(s) ==
  /\ forgotten[s] > 0
  /\ forgotten' = [forgotten EXCEPT ![s] = @ - 1]
  /\ \/ /\ container[s] = "absent"
        /\ container' = [container EXCEPT ![s] = "created"]
        /\ \E c \in {"thread", "none"} : creator' = [creator EXCEPT ![s] = c]
     \/ /\ container[s] # "absent"
        /\ UNCHANGED <<container, creator>>
  /\ UNCHANGED <<sought, doomed, lost, overtaken>>

\* ... and is started.
GhostBoot(s) ==
  /\ creator[s] = "thread"
  /\ container' = [container EXCEPT ![s] = "running"]
  /\ creator' = [creator EXCEPT ![s] = "none"]
  /\ UNCHANGED <<forgotten, sought, doomed, lost, overtaken>>

\* ... or such a launch fails, finds a container that runs, finds the one it was
\* to remove gone, or dies with its worker.
GhostEnds(s) ==
  /\ \/ /\ forgotten[s] > 0
        /\ forgotten' = [forgotten EXCEPT ![s] = @ - 1]
        /\ UNCHANGED creator
     \/ /\ creator[s] = "thread"
        /\ creator' = [creator EXCEPT ![s] = "none"]
        /\ UNCHANGED forgotten
  /\ doomed' \in {doomed, doomed \ {s}}
  /\ UNCHANGED <<container, sought, lost, overtaken>>

\* The sandbox's process ends (OOM kill, crash): its container stays, exited.
ContainerExits(s) ==
  /\ container[s] = "running"
  /\ container' = [container EXCEPT ![s] = "exited"]
  /\ lost' = lost \cup {s}
  /\ UNCHANGED <<forgotten, creator, sought, doomed, overtaken>>

\* Somebody removes the container by hand.
ContainerVanishes(s) ==
  /\ container[s] # "absent"
  /\ Gone(s)
  /\ lost' = lost \cup {s}
  /\ UNCHANGED <<forgotten, overtaken>>

-----------------------------------------------------------------------------
\* What may happen to the containers at all, whoever calls.
RuntimeNext ==
  \E s \in Sandbox :
    \/ Remove(s) \/ RemoveRaises(s)
    \/ Create(s) \/ Boot(s) \/ Answers(s) \/ LaunchEnds(s)
    \/ AbandonLaunch(s) \/ AbandonClear(s) \/ AbandonBoot(s)
    \/ GhostLook(s) \/ GhostFind(s) \/ GhostRemove(s) \/ GhostSpares(s)
    \/ GhostCreate(s) \/ GhostBoot(s) \/ GhostEnds(s)
    \/ ContainerExits(s) \/ ContainerVanishes(s)

RuntimeSpec == RuntimeInit /\ [][RuntimeNext]_runtimeVars
=============================================================================

--------------------------- MODULE SandboxReaper ----------------------------
(***************************************************************************)
(* reconcile_sandboxes of app/worker.py, the periodic sweep that makes the *)
(* containers agree with the table, one action per awaited call.  The      *)
(* cron job of a tick has one id for both pools, but a sweep that outlasts *)
(* the interval meets the next tick's: several may be under way at once.   *)
(***************************************************************************)
EXTENDS SandboxStore, ContainerRuntime

CONSTANT Sweeper    \* the sweeps that can be under way at once

VARIABLES
  sweep,     \* sweep[w]: what sweep w does next
  gone,      \* gone[w]: rows seen running, after the listing only those
             \* without a container
  live,      \* live[w]: sandboxes whose container was listed
  todo,      \* todo[w]: listed containers it decided to remove
  at         \* at[w]: the sandbox whose container it just removed

reaperVars == <<sweep, gone, live, todo, at>>

SweepStep == {"idle", "list", "classify", "reap", "settle"}

ReaperTypeOK ==
  /\ sweep \in [Sweeper -> SweepStep]
  /\ gone \in [Sweeper -> SUBSET Sandbox]
  /\ live \in [Sweeper -> SUBSET Sandbox]
  /\ todo \in [Sweeper -> SUBSET Sandbox]
  /\ at \in [Sweeper -> Sandbox \cup {NoSandbox}]

ReaperInit ==
  /\ sweep = [w \in Sweeper |-> "idle"]
  /\ gone = [w \in Sweeper |-> {}]
  /\ live = [w \in Sweeper |-> {}]
  /\ todo = [w \in Sweeper |-> {}]
  /\ at = [w \in Sweeper |-> NoSandbox]

SweepEnds(w) ==
  /\ sweep' = [sweep EXCEPT ![w] = "idle"]
  /\ gone' = [gone EXCEPT ![w] = {}]
  /\ live' = [live EXCEPT ![w] = {}]
  /\ todo' = [todo EXCEPT ![w] = {}]
  /\ at' = [at EXCEPT ![w] = NoSandbox]

-----------------------------------------------------------------------------
\* MUTANT of SweepSnapshot: rows that are only starting are taken as well.
SweepSnapshotStarting(w) ==
  /\ sweep[w] = "idle"
  /\ sweep' = [sweep EXCEPT ![w] = "list"]
  /\ gone' = [gone EXCEPT ![w] = {s \in Sandbox : status[s] \in {"starting", "running"}}]
  /\ UNCHANGED <<live, todo, at, storeVars, runtimeVars>>

\* The running rows, read before the containers are listed.
SweepSnapshot(w) ==
  /\ sweep[w] = "idle"
  /\ sweep' = [sweep EXCEPT ![w] = "list"]
  /\ gone' = [gone EXCEPT ![w] = {s \in Sandbox : status[s] = "running"}]
  /\ UNCHANGED <<live, todo, at, storeVars, runtimeVars>>

\* MUTANT of SweepList: the intersection for the difference.
SweepListIntersects(w) ==
  /\ sweep[w] = "list"
  /\ sweep' = [sweep EXCEPT ![w] = "classify"]
  /\ live' = [live EXCEPT ![w] = Listed]
  /\ gone' = [gone EXCEPT ![w] = @ \cap Listed]
  /\ UNCHANGED <<todo, at, storeVars, runtimeVars>>

\* One list call, of every container with the service's label.
SweepList(w) ==
  /\ sweep[w] = "list"
  /\ sweep' = [sweep EXCEPT ![w] = "classify"]
  /\ live' = [live EXCEPT ![w] = Listed]
  /\ gone' = [gone EXCEPT ![w] = @ \ Listed]
  /\ UNCHANGED <<todo, at, storeVars, runtimeVars>>

\* MUTANT of Reapable: whatever does not run is an orphan.
ReapableUnlessRunning(s) == LabelExpired(s) \/ status[s] # "running"

\* MUTANT of Reapable: no orphans, only the time to live.
ReapableExpired(s) == LabelExpired(s)

\* MUTANT of Reapable: no time to live, only orphans.
ReapableOrphan(s) == status[s] \in NoContainerWanted \cup {"none"}

\* A container to remove: past its label's expiry, or wanted by no row.
Reapable(s) ==
  \/ LabelExpired(s)
  \/ status[s] \in NoContainerWanted \cup {"none"}

\* MUTANT of SweepClassify: the running rows are read after the listing.
SweepClassifyLate(w) ==
  /\ sweep[w] = "classify"
  /\ sweep' = [sweep EXCEPT ![w] = "reap"]
  /\ todo' = [todo EXCEPT ![w] = {s \in live[w] : Reapable(s)}]
  /\ gone' = [gone EXCEPT ![w] = {s \in Sandbox : status[s] = "running"} \ live[w]]
  /\ UNCHANGED <<live, at, storeVars, runtimeVars>>

\* Reads the statuses of the listed sandboxes, then the clock.
SweepClassify(w) ==
  /\ sweep[w] = "classify"
  /\ sweep' = [sweep EXCEPT ![w] = "reap"]
  /\ todo' = [todo EXCEPT ![w] = {s \in live[w] : Reapable(s)}]
  /\ UNCHANGED <<gone, live, at, storeVars, runtimeVars>>

SweepRemove(w, s) ==
  /\ sweep[w] = "reap"
  /\ s \in todo[w]
  /\ Remove(s)
  /\ sweep' = [sweep EXCEPT ![w] = "settle"]
  /\ todo' = [todo EXCEPT ![w] = @ \ {s}]
  /\ at' = [at EXCEPT ![w] = s]
  /\ UNCHANGED <<gone, live, storeVars>>

SweepStop(w) ==
  /\ sweep[w] = "settle"
  /\ Transition(at[w], Active, "stopped")
  /\ sweep' = [sweep EXCEPT ![w] = "reap"]
  /\ at' = [at EXCEPT ![w] = NoSandbox]
  /\ UNCHANGED <<gone, live, todo, key, age, runtimeVars>>

\* "container disappeared"
SweepVanish(w, s) ==
  /\ sweep[w] = "reap"
  /\ todo[w] = {}
  /\ s \in gone[w]
  /\ Transition(s, {"running"}, "failed")
  /\ gone' = [gone EXCEPT ![w] = @ \ {s}]
  /\ UNCHANGED <<sweep, live, todo, at, key, age, runtimeVars>>

\* One statement finishes every stop whose container was not listed.
FinishStops(w) ==
  status' = [s \in Sandbox |->
               IF status[s] = "stopping" /\ s \notin live[w] THEN "stopped" ELSE status[s]]

SweepFinish(w) ==
  /\ sweep[w] = "reap"
  /\ todo[w] = {}
  /\ gone[w] = {}
  /\ FinishStops(w)
  /\ SweepEnds(w)
  /\ UNCHANGED <<key, age, runtimeVars>>

\* A database or Docker call of the sweep raises, or its worker dies.
SweepAbort(w) ==
  /\ sweep[w] # "idle"
  /\ SweepEnds(w)
  /\ UNCHANGED <<storeVars, runtimeVars>>

\* ... the call under way being the removal of a container.
SweepRemoveFails(w, s) ==
  /\ sweep[w] = "reap"
  /\ s \in todo[w]
  /\ RemoveRaises(s)
  /\ SweepEnds(w)
  /\ UNCHANGED storeVars

SweepContinues(w) ==
  \/ SweepSnapshot(w)
  \/ SweepList(w)
  \/ SweepClassify(w)
  \/ \E s \in Sandbox : SweepRemove(w, s) \/ SweepVanish(w, s)
  \/ SweepStop(w)
  \/ SweepFinish(w)
=============================================================================

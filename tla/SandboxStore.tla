---------------------------- MODULE SandboxStore ----------------------------
(***************************************************************************)
(* The `sandboxes` table (app/models.py), the source of truth for a        *)
(* sandbox's lifecycle, and the compare-and-set write through which the    *)
(* worker and the reaper change it (app/worker.py, _transition).           *)
(*                                                                         *)
(* A row is kept as its status and its idempotency key.  Its other columns *)
(* (type, url, error, attempts, created_at) are written beside the status  *)
(* and never read by a guard, so they are left out; expires_at is kept as  *)
(* where the clock stands relative to it (age).                            *)
(***************************************************************************)
EXTENDS Naturals, FiniteSets, SandboxIds

CONSTANTS
  NoSandbox, \* "no sandbox"
  Key,       \* the Idempotency-Key values that clients use
  NoKey      \* "no Idempotency-Key header"

ASSUME StoreAssumption ==
  /\ IsFiniteSet(Sandbox)
  /\ Stray \subseteq Sandbox
  /\ NoSandbox \notin Sandbox
  /\ NoKey \notin Key

VARIABLES
  status,    \* status[s]: the row's status, "none" while there is no row
  key,       \* key[s]: the row's idempotency_key
  age        \* age[s]: how far the clock has come relative to expires_at

storeVars == <<status, key, age>>

-----------------------------------------------------------------------------
SandboxStatus ==
  {"queued", "starting", "running", "stopping", "stopped", "failed"}

\* ACTIVE_STATUSES: statuses that count against the admission cap.
Active == {"queued", "starting", "running", "stopping"}

Terminal == SandboxStatus \ Active

\* _STARTABLE: (re)running the start job is meaningful.
Startable == {"queued", "starting"}

\* _NO_CONTAINER_WANTED: a container of a sandbox in one of these is a leak.
NoContainerWanted == {"stopping", "stopped", "failed"}

\* The label on the container carries int(expires_at.timestamp()): truncated
\* to a second, so the reaper may see the container expired ("labelDue")
\* just before the row's own expires_at has passed ("due").
Age == {"live", "labelDue", "due"}

LabelExpired(s) == age[s] # "live"

RowExpired(s) == age[s] = "due"

StoreTypeOK ==
  /\ status \in [Sandbox -> SandboxStatus \cup {"none"}]
  /\ key \in [Sandbox -> Key \cup {NoKey}]
  /\ age \in [Sandbox -> Age]

StoreInit ==
  /\ status = [s \in Sandbox |-> "none"]
  /\ key = [s \in Sandbox |-> NoKey]
  /\ age = [s \in Sandbox |-> "live"]

-----------------------------------------------------------------------------
ActiveRows == {s \in Sandbox : status[s] \in Active}

\* UPDATE sandboxes SET status = to WHERE id = s AND status IN from.  The
\* call returns True exactly when status[s] \in from (rowcount = 1).
Transition(s, from, to) ==
  status' = [status EXCEPT ![s] = IF @ \in from THEN to ELSE @]

\* INSERT of a new row.  The caller has checked the unique constraint.
InsertRow(s, k) ==
  /\ status[s] = "none"
  /\ status' = [status EXCEPT ![s] = "queued"]
  /\ key' = [key EXCEPT ![s] = k]

KeyTaken(k) == k # NoKey /\ \E s \in Sandbox : key[s] = k

\* Time passes for one sandbox.
Tick(s) ==
  /\ status[s] # "none" \/ s \in Stray
  /\ age[s] # "due"
  /\ age' = [age EXCEPT ![s] = IF @ = "live" THEN "labelDue" ELSE "due"]
  /\ UNCHANGED <<status, key>>
=============================================================================

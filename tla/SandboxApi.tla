----------------------------- MODULE SandboxApi -----------------------------
(***************************************************************************)
(* The handlers of app/routes/sandboxes.py that change something: POST     *)
(* /sandboxes (create_sandbox) and DELETE /sandboxes/{id} (stop_sandbox).  *)
(* A handler gives up control at every await, so a request is a program    *)
(* counter and one action per awaited call.                                *)
(*                                                                         *)
(* A request that ends having changed nothing (a replay, a 404, a 429, a   *)
(* DELETE of a settled sandbox, every GET) is not kept as a step unless    *)
(* it gives up what an earlier step of it had begun.                       *)
(***************************************************************************)
EXTENDS JobQueue

CONSTANTS
  Request,    \* the requests that can be in flight at once
  MaxActive   \* sandbox_max_active

ASSUME ApiAssumption ==
  /\ IsFiniteSet(Request)
  /\ MaxActive \in Nat \ {0}

VARIABLES
  call,      \* call[r]: what request r does next
  target,    \* target[r]: the sandbox it is about
  keyOf      \* keyOf[r]: the Idempotency-Key it came with

apiVars == <<call, target, keyOf>>

CallStep ==
  {"idle", "count", "insert", "enqueue", "markFailed",
   "mark", "recheck", "enqueueStop"}

\* The steps taken before a POST has chosen its sandbox.
NoTargetYet == {"idle", "count", "insert"}

ApiTypeOK ==
  /\ call \in [Request -> CallStep]
  /\ target \in [Request -> Sandbox \cup {NoSandbox}]
  /\ \A r \in Request : target[r] = NoSandbox <=> call[r] \in NoTargetYet
  /\ keyOf \in [Request -> Key \cup {NoKey}]

ApiInit ==
  /\ call = [r \in Request |-> "idle"]
  /\ target = [r \in Request |-> NoSandbox]
  /\ keyOf = [r \in Request |-> NoKey]

\* The request is answered and its session closed.
Answer(r) ==
  /\ call' = [call EXCEPT ![r] = "idle"]
  /\ target' = [target EXCEPT ![r] = NoSandbox]
  /\ keyOf' = [keyOf EXCEPT ![r] = NoKey]

Continue(r, step) ==
  /\ call' = [call EXCEPT ![r] = step]
  /\ UNCHANGED <<target, keyOf>>

-----------------------------------------------------------------------------
(* POST *)

\* _replay finds no sandbox with this key (if it does, it is returned).
PostLookup(r, k) ==
  /\ call[r] = "idle"
  /\ ~KeyTaken(k)
  /\ call' = [call EXCEPT ![r] = "count"]
  /\ keyOf' = [keyOf EXCEPT ![r] = k]
  /\ UNCHANGED <<target, storeVars, queueVars>>

\* MUTANT of UnderCap: > for >=.
UnderCapOffByOne == Cardinality(ActiveRows) <= MaxActive

\* SELECT count(*) over the active rows.
UnderCap == Cardinality(ActiveRows) < MaxActive

\* 429 at the cap; below it the request goes on to choose an id and a pool.
PostCount(r) ==
  /\ call[r] = "count"
  /\ IF UnderCap THEN Continue(r, "insert") ELSE Answer(r)
  /\ UNCHANGED <<storeVars, queueVars>>

\* The row is committed before anything is enqueued.
PostInsert(r, s) ==
  /\ call[r] = "insert"
  /\ s \notin Stray
  /\ ~KeyTaken(keyOf[r])
  /\ InsertRow(s, keyOf[r])
  /\ call' = [call EXCEPT ![r] = "enqueue"]
  /\ target' = [target EXCEPT ![r] = s]
  /\ UNCHANGED <<keyOf, age, queueVars>>

\* IntegrityError: a concurrent request with the same key won the insert, and
\* its sandbox is the answer.
PostConflict(r) ==
  /\ call[r] = "insert"
  /\ KeyTaken(keyOf[r])
  /\ Answer(r)
  /\ UNCHANGED <<storeVars, queueVars>>

PostEnqueue(r) ==
  /\ call[r] = "enqueue"
  /\ Enqueue(StartJob(target[r]))
  /\ Answer(r)
  /\ UNCHANGED storeVars

PostEnqueueFails(r) ==
  /\ call[r] = "enqueue"
  /\ EnqueueRaises(StartJob(target[r]))
  /\ Continue(r, "markFailed")
  /\ UNCHANGED storeVars

\* The failure is recorded by a plain ORM write, whatever the row says now.
MarkFailed(s) == status' = [status EXCEPT ![s] = "failed"]

PostMarkFailed(r) ==
  /\ call[r] = "markFailed"
  /\ MarkFailed(target[r])
  /\ Answer(r)
  /\ UNCHANGED <<key, age, queueVars>>

-----------------------------------------------------------------------------
(* DELETE *)

\* A row that is missing or settled is answered at once.
DeleteRead(r, s) ==
  /\ call[r] = "idle"
  /\ status[s] \in Active
  /\ call' = [call EXCEPT ![r] = "mark"]
  /\ target' = [target EXCEPT ![r] = s]
  /\ UNCHANGED <<keyOf, storeVars, queueVars>>

\* Compare-and-set to `stopping`.
DeleteMark(r) ==
  /\ call[r] = "mark"
  /\ Transition(target[r], Active, "stopping")
  /\ Continue(r, "recheck")
  /\ UNCHANGED <<key, age, queueVars>>

\* session.refresh: was it this request, or an earlier one, that stopped it?
DeleteRecheck(r) ==
  /\ call[r] = "recheck"
  /\ IF status[target[r]] = "stopping" THEN Continue(r, "enqueueStop") ELSE Answer(r)
  /\ UNCHANGED <<storeVars, queueVars>>

DeleteEnqueue(r) ==
  /\ call[r] = "enqueueStop"
  /\ Enqueue(StopJob(target[r]))
  /\ Answer(r)
  /\ UNCHANGED storeVars

\* 503; the row stays `stopping`.
DeleteEnqueueFails(r) ==
  /\ call[r] = "enqueueStop"
  /\ EnqueueRaises(StopJob(target[r]))
  /\ Answer(r)
  /\ UNCHANGED storeVars

-----------------------------------------------------------------------------
\* The API process dies, or a statement of the request raises and ends it.
CallCrash(r) ==
  /\ call[r] # "idle"
  /\ Answer(r)
  /\ UNCHANGED <<storeVars, queueVars>>

\* What a begun request does when nothing fails.
CallContinues(r) ==
  \/ PostCount(r)
  \/ \E s \in Sandbox : PostInsert(r, s)
  \/ PostConflict(r)
  \/ PostEnqueue(r)
  \/ PostMarkFailed(r)
  \/ DeleteMark(r)
  \/ DeleteRecheck(r)
  \/ DeleteEnqueue(r)

-----------------------------------------------------------------------------
\* The admission cap is soft, and by how much: counting and inserting are two
\* statements, so each other request in flight may add one sandbox too many.
OvershootBounded ==
  Cardinality(ActiveRows) <= MaxActive + Cardinality(Request) - 1
=============================================================================

----------------------------- MODULE JobBudget ------------------------------
(***************************************************************************)
(* The time one try of start_sandbox may take (app/worker.py) against the  *)
(* time arq gives it (job_timeout), under the settings that app/config.py  *)
(* lets a worker start with.  Every awaited call may take up to its own    *)
(* bound; arq's timer runs from the start of the handler and cancels it.   *)
(***************************************************************************)
EXTENDS Naturals

CONSTANTS   \* in one unit of time
  DbTimeout,       \* db_timeout_s: bounds each single wait for the pool or Postgres
  DockerTimeout,   \* docker_timeout_s: a runtime call has three times that
  LaunchTimeout,   \* launch_timeout_s
  JobTimeout       \* job_timeout_s

CONSTANTS   \* SQLAlchemy and its driver: how many such waits there are
  Checkout,        \* for a connection: the pool, its pre-ping, a new connection
  Statement        \* for one statement, prepared and executed

VARIABLES
  phase,     \* what the handler awaits
  spent,     \* time spent on that
  elapsed,   \* time since the handler began
  gaveUp     \* the launch was given up

vars == <<phase, spent, elapsed, gaveUp>>

\* _launch_fits_in_job: a worker whose settings do not pass does not start.
LaunchFitsInJob == LaunchTimeout + 3 * DockerTimeout + 2 * DbTimeout <= JobTimeout

\* pool_timeout, the connect timeout and the command timeout are three settings
\* of one value (app/db.py): each wait has all of it.
Connect == Checkout * DbTimeout

Execute == Statement * DbTimeout

\* A connection, BEGIN and a SELECT; UPDATE and COMMIT, which gives the
\* connection back; the launch; one runtime call; a connection again, BEGIN,
\* UPDATE and COMMIT.
Bound ==
  [read    |-> Connect + DbTimeout + Execute,
   claim   |-> Execute + DbTimeout,
   launch  |-> LaunchTimeout,
   discard |-> 3 * DockerTimeout,
   settle  |-> Connect + DbTimeout + Execute + DbTimeout,
   publish |-> Connect + DbTimeout + Execute + DbTimeout,
   drop    |-> 3 * DockerTimeout]

Phase == DOMAIN Bound \cup {"ended", "cancelled"}

Init ==
  /\ LaunchFitsInJob
  /\ phase = "read"
  /\ spent = 0
  /\ elapsed = 0
  /\ gaveUp = FALSE

TimePasses ==
  /\ phase \in DOMAIN Bound
  /\ spent < Bound[phase]
  /\ elapsed < JobTimeout
  /\ spent' = spent + 1
  /\ elapsed' = elapsed + 1
  /\ UNCHANGED <<phase, gaveUp>>

Goes(from, to) ==
  /\ phase = from
  /\ phase' = to
  /\ spent' = 0
  /\ UNCHANGED elapsed

\* What is awaited succeeds, or raises: a statement that raises, and a row that
\* is not to be started, end the handler; a launch that raises or runs into
\* launch_timeout_s does not.
HandlerGoesOn ==
  \/ /\ \/ \E next \in {"claim", "ended"} : Goes("read", next)
        \/ \E next \in {"launch", "ended"} : Goes("claim", next)
        \/ Goes("launch", "publish")
        \/ Goes("discard", "settle")
        \/ \E next \in {"drop", "ended"} : Goes("publish", next)
        \/ Goes("settle", "ended")
        \/ Goes("drop", "ended")
     /\ UNCHANGED gaveUp
  \/ Goes("launch", "discard") /\ gaveUp' = TRUE

\* asyncio.wait_for around the handler.
ArqCancels ==
  /\ phase \in DOMAIN Bound
  /\ elapsed = JobTimeout
  /\ phase' = "cancelled"
  /\ UNCHANGED <<spent, elapsed, gaveUp>>

Next == TimePasses \/ HandlerGoesOn \/ ArqCancels

Spec == Init /\ [][Next]_vars

-----------------------------------------------------------------------------
\* app/config.py:54-56: "After the launch gives up, the handler still removes
\* the half-made container [...] and writes the status, all before arq cancels."
BackstopOnly == gaveUp => phase # "cancelled"

\* What the settings would have to fulfil.
TryFitsInJob ==
  LaunchTimeout + 3 * DockerTimeout + 2 * Connect + 3 * Execute + 4 * DbTimeout < JobTimeout
=============================================================================

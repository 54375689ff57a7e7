-------------------------- MODULE JobBudgetProofs ---------------------------
(***************************************************************************)
(* What job_timeout_s has to cover for arq's timer never to cut short a    *)
(* handler whose launch gave up, whatever the single settings are.         *)
(***************************************************************************)
EXTENDS JobBudget, TLAPS

\* The most that can have elapsed before each phase of a try whose launch
\* is or will be given up.
Before ==
  [read    |-> 0,
   claim   |-> Connect + Execute + DbTimeout,
   launch  |-> Connect + 2 * Execute + 2 * DbTimeout,
   discard |-> Connect + 2 * Execute + 2 * DbTimeout + LaunchTimeout,
   settle  |-> Connect + 2 * Execute + 2 * DbTimeout + LaunchTimeout + 3 * DockerTimeout]

\* The inductive invariant.  A try that published its container is of no
\* concern: its launch was not given up.
WithinBudget ==
  /\ phase \in Phase
  /\ spent \in Nat
  /\ elapsed \in Nat
  /\ gaveUp \in BOOLEAN
  /\ gaveUp => phase \in {"discard", "settle", "ended"}
  /\ phase \in {"discard", "settle"} => gaveUp
  /\ phase \in DOMAIN Before => spent <= Bound[phase] /\ elapsed <= Before[phase] + spent

\* The two tables, spelt out.
LEMMA Tables ==
  /\ DOMAIN Bound = {"read", "claim", "launch", "discard", "settle", "publish", "drop"}
  /\ DOMAIN Before = {"read", "claim", "launch", "discard", "settle"}
  /\ Bound["read"] = Connect + DbTimeout + Execute /\ Bound["claim"] = Execute + DbTimeout
  /\ Bound["launch"] = LaunchTimeout /\ Bound["discard"] = 3 * DockerTimeout
  /\ Bound["settle"] = Connect + DbTimeout + Execute + DbTimeout
  /\ Before["read"] = 0 /\ Before["claim"] = Connect + Execute + DbTimeout
  /\ Before["launch"] = Connect + 2 * Execute + 2 * DbTimeout
  /\ Before["discard"] = Connect + 2 * Execute + 2 * DbTimeout + LaunchTimeout
  /\ Before["settle"] =
       Connect + 2 * Execute + 2 * DbTimeout + LaunchTimeout + 3 * DockerTimeout
BY DEF Bound, Before

\* How long a connection and a statement take are numbers.
LEMMA Waits ==
  ASSUME DbTimeout \in Nat, Checkout \in Nat, Statement \in Nat
  PROVE  Connect \in Nat /\ Execute \in Nat
BY DEF Connect, Execute

\* If job_timeout_s also covers what precedes the launch, and every wait of the
\* connection and the transaction of the last write (app/db.py:20-22), however
\* many the driver needs, then the handler of app/worker.py:104-175 settles its
\* row after a launch that gave up before arq cancels it.
THEOREM BackstopSuffices ==
  ASSUME DbTimeout \in Nat, DockerTimeout \in Nat, LaunchTimeout \in Nat, JobTimeout \in Nat,
         Checkout \in Nat, Statement \in Nat,
         TryFitsInJob
  PROVE  Spec => []BackstopOnly
<1>0. Connect \in Nat /\ Execute \in Nat
  BY Waits
<1>1. Init => WithinBudget
  <2> SUFFICES ASSUME Init PROVE WithinBudget
    OBVIOUS
  <2>1. spent <= Bound[phase] /\ elapsed <= Before[phase] + spent
    <3>1. Bound[phase] = Connect + DbTimeout + Execute /\ Before[phase] = 0 /\ spent = 0 /\ elapsed = 0
      BY Tables DEF Init
    <3>2. QED
      BY <1>0, <3>1
  <2>2. phase \in Phase
    BY Tables DEF Init, Phase
  <2>3. QED
    BY <2>1, <2>2 DEF Init, WithinBudget
<1>2. WithinBudget /\ [Next]_vars => WithinBudget'
  <2> SUFFICES ASSUME WithinBudget, [Next]_vars PROVE WithinBudget'
    OBVIOUS
  <2>1. CASE TimePasses
    BY <1>0, <2>1, Tables DEF TimePasses, WithinBudget, Phase
  <2>2. CASE HandlerGoesOn
    <3> DEFINE All == {"read", "claim", "launch", "discard", "settle", "publish", "drop",
                       "ended", "cancelled"}
    <3>0. Phase = All /\ Phase' = All
      BY Tables DEF Phase, Bound
    <3>1. phase' \in All /\ spent' = 0 /\ elapsed' = elapsed
      BY <2>2 DEF HandlerGoesOn, Goes
    <3>2. /\ gaveUp' \in BOOLEAN
          /\ gaveUp' => phase' \in {"discard", "settle", "ended"}
          /\ phase' \in {"discard", "settle"} => gaveUp'
      <4>1. CASE Goes("launch", "discard") /\ gaveUp' = TRUE
        BY <4>1 DEF Goes
      <4>2. CASE ~(Goes("launch", "discard") /\ gaveUp' = TRUE)
        <5>1. UNCHANGED gaveUp
          BY <2>2, <4>2 DEF HandlerGoesOn
        <5>2. phase \in {"discard", "settle", "ended"} => phase' \in {"settle", "ended"}
          BY <2>2, <4>2 DEF HandlerGoesOn, Goes
        <5>3. phase' \in {"discard", "settle"} => phase = "discard"
          BY <2>2, <4>2 DEF HandlerGoesOn, Goes
        <5>4. QED
          BY <5>1, <5>2, <5>3, Zenon DEF WithinBudget
      <4>3. QED
        BY <4>1, <4>2
    <3>3. phase' \in DOMAIN Before => 0 <= Bound[phase'] /\ elapsed <= Before[phase']
      <4>1. phase \in DOMAIN Before => elapsed <= Before[phase] + Bound[phase]
        BY <1>0, Tables DEF WithinBudget
      <4>2. CASE phase' = "claim"
        BY <1>0, <2>2, <4>1, <4>2, Tables DEF HandlerGoesOn, Goes
      <4>3. CASE phase' = "launch"
        BY <1>0, <2>2, <4>1, <4>3, Tables DEF HandlerGoesOn, Goes
      <4>4. CASE phase' = "discard"
        BY <1>0, <2>2, <4>1, <4>4, Tables DEF HandlerGoesOn, Goes
      <4>5. CASE phase' = "settle"
        BY <1>0, <2>2, <4>1, <4>5, Tables DEF HandlerGoesOn, Goes
      <4>6. CASE phase' \in {"publish", "drop", "ended"}
        BY <4>6, Tables
      <4>7. QED
        BY <2>2, <4>2, <4>3, <4>4, <4>5, <4>6 DEF HandlerGoesOn, Goes
    <3>4. phase' \in Phase' /\ spent' \in Nat /\ elapsed' \in Nat
      BY <3>0, <3>1 DEF WithinBudget
    <3>5. phase' \in DOMAIN Before =>
            spent' <= Bound[phase'] /\ elapsed' <= Before[phase'] + spent'
      <4>1. CASE phase' \in DOMAIN Before
        <5>1. Before[phase'] \in Nat
          BY <1>0, <4>1, Tables
        <5>2. QED
          BY <3>1, <3>3, <4>1, <5>1
      <4>2. QED
        BY <4>1
    <3>6. QED
      BY <3>2, <3>4, <3>5 DEF WithinBudget
  <2>3. CASE ArqCancels
    <3>1. phase \notin {"discard", "settle"}
      BY <1>0, <2>3, Tables DEF ArqCancels, WithinBudget, TryFitsInJob
    <3>2. QED
      BY <2>3, <3>1, Tables DEF ArqCancels, WithinBudget, Phase
  <2>4. CASE UNCHANGED vars
    BY <2>4 DEF vars, WithinBudget
  <2>5. QED
    BY <2>1, <2>2, <2>3, <2>4 DEF Next
<1>3. WithinBudget => BackstopOnly
  BY DEF WithinBudget, BackstopOnly
<1>4. QED
  BY <1>1, <1>2, <1>3, PTL DEF Spec
=============================================================================

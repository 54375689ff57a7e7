---------------------------- MODULE DockerProofs ----------------------------
(***************************************************************************)
(* Proofs about DockerRuntime, for any number of sandboxes, threads and    *)
(* late requests: what a returned remove means, and that the requests      *)
(* together implement ContainerRuntime.                                    *)
(***************************************************************************)
EXTENDS DockerRuntime, FiniteSetTheorems, TLAPS

-----------------------------------------------------------------------------
(* Types *)

LEMMA DockerTypeInit == Init => TypeOK
BY DEF Init, TypeOK, Step, LaunchStep

\* Where a thread goes.
LEMMA ThreadTypes ==
  ASSUME TypeOK, NEW t \in Thread, NEW next \in Step, GoesOn(t, next),
         of[t] = NoSandbox => next \in {"idle", "findImage", "pullImage", "returned", "raised"}
  PROVE  /\ step' \in [Thread -> Step]
         /\ of' \in [Thread -> Sandbox \cup {NoSandbox}]
         /\ \A u \in Thread : of'[u] = NoSandbox
              => step'[u] \in {"idle", "findImage", "pullImage", "returned", "raised"}
         /\ waited' \subseteq Thread
BY DEF TypeOK, GoesOn

\* What happens to a container.
LEMMA BoxTypes ==
  ASSUME TypeOK, NEW s \in Sandbox,
         \/ Removal(s)
         \/ \E new \in {"created", "running", "exited"} : BoxBecomes(s, new)
         \/ UNCHANGED <<boxVars, lateCreate>>
  PROVE  /\ box' \in [Sandbox -> {"absent", "created", "running", "exited"}]
         /\ wasAbsent' \subseteq Thread
         /\ lateCreate' \in [Sandbox -> Nat]
         /\ lateBoot' \subseteq Sandbox /\ lateDelete' \subseteq Sandbox
BY DEF TypeOK, Removal, BoxBecomes, Users, boxVars

\* A thread at any of these steps works for a sandbox.
LEMMA WorksForOne ==
  ASSUME TypeOK, NEW t \in Thread,
         step[t] \in LaunchStep \cup {"find", "delete", "removed"}
  PROVE  of[t] \in Sandbox
BY DEF TypeOK, LaunchStep

\* A request that is on its way concerns that sandbox.
LEMMA FlightTypes ==
  ASSUME TypeOK, NEW t \in Thread, StillInFlight(t)
  PROVE  /\ of[t] \in Sandbox
         /\ lateCreate' \in [Sandbox -> Nat]
         /\ lateBoot' \subseteq Sandbox /\ lateDelete' \subseteq Sandbox
<1>1. of[t] \in Sandbox
  BY WorksForOne DEF StillInFlight, LaunchStep
<1> QED
  BY <1>1 DEF StillInFlight, TypeOK

LEMMA RequestTypes ==
  ASSUME TypeOK, NEW t \in Thread, Request(t) \/ Pull(t)
  PROVE  TypeOK'
<1> USE DEF Untouched, boxVars, Takes, Raises, Step, LaunchStep
<1>1. \E next \in Step :
        /\ GoesOn(t, next)
        /\ of[t] = NoSandbox => next \in {"idle", "findImage", "pullImage", "returned", "raised"}
  BY WorksForOne
     DEF Request, Pull, Get, Drop, Create, Boot, Adopt, Inspect, Probe, Find, Delete, FindImage,
         Refused, AnswerLost, CarriedOutLate, TypeOK
<1>2. image' \in BOOLEAN
  BY DEF Request, Pull, Get, Drop, Create, Boot, Adopt, Inspect, Probe, Find, Delete, FindImage,
         Refused, AnswerLost, CarriedOutLate, TypeOK
<1>3. holds' \subseteq Thread
  BY DEF Request, Pull, Get, Drop, Create, Boot, Adopt, Inspect, Probe, Find, Delete, FindImage,
         Refused, AnswerLost, CarriedOutLate, RemovedBy, TypeOK
<1>4. /\ box' \in [Sandbox -> {"absent", "created", "running", "exited"}]
      /\ wasAbsent' \subseteq Thread
      /\ lateCreate' \in [Sandbox -> Nat]
      /\ lateBoot' \subseteq Sandbox /\ lateDelete' \subseteq Sandbox
      /\ lost' \subseteq Sandbox /\ overtaken' \subseteq Sandbox
  <2>1. CASE CarriedOutLate(t)
    BY <2>1, FlightTypes DEF CarriedOutLate, TypeOK
  <2>2. CASE Pull(t)
    BY <2>2 DEF Pull, TypeOK
  <2>3. CASE Refused(t) \/ FindImage(t)
    BY <2>3 DEF Refused, FindImage, TypeOK
  <2>4. CASE Request(t) /\ ~(CarriedOutLate(t) \/ Refused(t) \/ FindImage(t))
    <3>1. of[t] \in Sandbox
      BY <2>4, WorksForOne
         DEF Request, Get, Drop, Create, Boot, Adopt, Inspect, Probe, Find, Delete, AnswerLost
    <3>2. \/ Removal(of[t])
          \/ \E new \in {"created", "running", "exited"} : BoxBecomes(of[t], new)
          \/ UNCHANGED <<boxVars, lateCreate>>
      BY <2>4
         DEF Request, Get, Drop, Create, Boot, Adopt, Inspect, Probe, Find, Delete, AnswerLost,
             RemovedBy
    <3>3. lost' \subseteq Sandbox /\ overtaken' \subseteq Sandbox
      BY <2>4, <3>1
         DEF Request, Get, Drop, Create, Boot, Adopt, Inspect, Probe, Find, Delete, AnswerLost,
             RemovedBy, TypeOK
    <3>4. QED
      BY <3>1, <3>2, <3>3, BoxTypes
  <2>5. QED
    BY <2>1, <2>2, <2>3, <2>4
<1>5. QED
  BY <1>1, <1>2, <1>3, <1>4, ThreadTypes DEF TypeOK

LEMMA DockerTypeStep == TypeOK /\ [Next]_vars => TypeOK'
<1> SUFFICES ASSUME TypeOK, [Next]_vars PROVE TypeOK'
  OBVIOUS
<1>1. ASSUME NEW t \in Thread, NEW s \in Sandbox, Launch(t, s) \/ RemoveCall(t, s)
      PROVE  TypeOK'
  BY <1>1, DockerAssumption DEF Launch, RemoveCall, Begins, TypeOK, Step, LaunchStep, DockerAssumption
<1>2. ASSUME NEW t \in Thread, Prepare(t) PROVE TypeOK'
  BY <1>2 DEF Prepare, Begins, TypeOK, Step
<1>3. ASSUME NEW t \in Thread, Request(t) \/ Pull(t) PROVE TypeOK'
  BY <1>3, RequestTypes
<1>4. ASSUME NEW t \in Thread, CallEnds(t) \/ ThreadDies(t) \/ Deadline(t) PROVE TypeOK'
  BY <1>4, FlightTypes DEF CallEnds, ThreadDies, Deadline, boxVars, TypeOK, Step
<1>5. ASSUME NEW s \in Sandbox, DaemonStep(s) PROVE TypeOK'
  BY <1>5 DEF DaemonStep, Late, Outside, Removal, BoxBecomes, Users, TypeOK
<1>6. CASE UNCHANGED vars
  BY <1>6 DEF vars, boxVars, TypeOK
<1>7. QED
  BY <1>1, <1>2, <1>3, <1>4, <1>5, <1>6 DEF Next

\* The state of DockerRuntime stays well typed.
THEOREM DockerTypes == Spec => []TypeOK
BY DockerTypeInit, DockerTypeStep, PTL DEF Spec

-----------------------------------------------------------------------------
(* What a returned remove means *)

\* A removal under way has seen a moment without container if there is none
\* now, or if the one it found is gone.
RemovalsAreSeen ==
  \A t \in Thread :
    \/ step[t] \notin {"find", "delete", "removed"}
    \/ t \in wasAbsent
    \/ step[t] = "find" /\ box[of[t]] # "absent"
    \/ step[t] = "delete" /\ box[of[t]] # "absent" /\ t \in holds

LEMMA SeenInit == Init => RemovalsAreSeen
BY DEF Init, RemovalsAreSeen

\* A container that goes is seen to go by every removal of it under way; what
\* else happens to containers leaves none where there was one.
LEMMA SeenKept ==
  ASSUME TypeOK, RemovalsAreSeen, NEW s \in Sandbox, NEW u \in Thread,
         step'[u] = step[u], of'[u] = of[u],
         \/ Removal(s) /\ holds' = holds \ Users(s)
         \/ /\ \/ \E new \in {"created", "running", "exited"} : BoxBecomes(s, new)
               \/ box' = box /\ wasAbsent' = wasAbsent
            /\ u \in holds' <=> u \in holds
  PROVE  \/ step'[u] \notin {"find", "delete", "removed"}
         \/ u \in wasAbsent'
         \/ step'[u] = "find" /\ box'[of'[u]] # "absent"
         \/ step'[u] = "delete" /\ box'[of'[u]] # "absent" /\ u \in holds'
<1>1. CASE Removal(s) /\ holds' = holds \ Users(s)
  <2>1. CASE of[u] = s
    BY <1>1, <2>1 DEF Removal, Users, RemovalsAreSeen
  <2>2. CASE of[u] # s
    <3>1. step[u] \in {"find", "delete"} => of[u] \in Sandbox
      BY WorksForOne
    <3>2. QED
      BY <1>1, <2>2, <3>1 DEF Removal, Users, RemovalsAreSeen, TypeOK
  <2>3. QED
    BY <2>1, <2>2
<1>2. CASE /\ \/ \E new \in {"created", "running", "exited"} : BoxBecomes(s, new)
              \/ box' = box /\ wasAbsent' = wasAbsent
           /\ u \in holds' <=> u \in holds
  <2>1. step[u] \in {"find", "delete"} => of[u] \in Sandbox
    BY WorksForOne
  <2>2. QED
    BY <1>2, <2>1 DEF BoxBecomes, RemovalsAreSeen, TypeOK
<1>3. QED
  BY <1>1, <1>2

\* A thread's own request.
LEMMA SeenByRequest ==
  ASSUME TypeOK, RemovalsAreSeen, NEW t \in Thread, Request(t) \/ Pull(t)
  PROVE  RemovalsAreSeen'
<1> USE DEF Untouched, boxVars, Takes, Raises, GoesOn, RemovedBy
<1>1. \A u \in Thread \ {t} : step'[u] = step[u] /\ of'[u] = of[u]
  BY DEF Request, Pull, Get, Drop, Create, Boot, Adopt, Inspect, Probe, Find, Delete, FindImage,
         Refused, AnswerLost, CarriedOutLate, TypeOK
<1>2. ASSUME NEW u \in Thread \ {t}
      PROVE  \/ step'[u] \notin {"find", "delete", "removed"}
             \/ u \in wasAbsent'
             \/ step'[u] = "find" /\ box'[of'[u]] # "absent"
             \/ step'[u] = "delete" /\ box'[of'[u]] # "absent" /\ u \in holds'
  <2>1. CASE /\ step[t] \in LaunchStep \cup {"find", "delete"}
             /\ \/ Removal(of[t]) /\ holds' = holds \ Users(of[t])
                \/ /\ \/ \E new \in {"created", "running", "exited"} : BoxBecomes(of[t], new)
                      \/ box' = box /\ wasAbsent' = wasAbsent
                   /\ u \in holds' <=> u \in holds
    BY <1>1, <2>1, SeenKept, WorksForOne
  <2>2. CASE box' = box /\ wasAbsent' = wasAbsent /\ holds' = holds
    BY <1>1, <2>2 DEF RemovalsAreSeen
  <2>3. CASE Refused(t) \/ CarriedOutLate(t)
    BY <1>1, <2>3 DEF Refused, CarriedOutLate, RemovalsAreSeen
  <2>4. \/ Refused(t) \/ CarriedOutLate(t)
        \/ box' = box /\ wasAbsent' = wasAbsent /\ holds' = holds
        \/ /\ step[t] \in LaunchStep \cup {"find", "delete"}
           /\ \/ Removal(of[t]) /\ holds' = holds \ Users(of[t])
              \/ /\ \/ \E new \in {"created", "running", "exited"} : BoxBecomes(of[t], new)
                    \/ box' = box /\ wasAbsent' = wasAbsent
                 /\ u \in holds' <=> u \in holds
    BY DEF Request, Pull, Get, Drop, Create, Boot, Adopt, Inspect, Probe, Find, Delete, FindImage,
           AnswerLost, LaunchStep
  <2>5. QED
    BY <2>1, <2>2, <2>3, <2>4
<1>3. \/ step'[t] \notin {"find", "delete", "removed"}
      \/ t \in wasAbsent'
      \/ step'[t] = "find" /\ box'[of'[t]] # "absent"
      \/ step'[t] = "delete" /\ box'[of'[t]] # "absent" /\ t \in holds'
  <2>1. CASE Find(t)
    BY <2>1, WorksForOne DEF Find, RemovalsAreSeen, TypeOK
  <2>2. CASE Delete(t)
    <3>1. step'[t] = "removed"
      BY <2>2 DEF Delete, TypeOK
    <3>2. CASE Removal(of[t])
      BY <2>2, <3>2 DEF Delete, Removal, Users
    <3>3. CASE ~Holding(t) /\ wasAbsent' = wasAbsent
      BY <2>2, <3>3 DEF Delete, Holding, RemovalsAreSeen
    <3>4. QED
      BY <2>2, <3>2, <3>3 DEF Delete
  <2>3. CASE (Request(t) \/ Pull(t)) /\ ~Find(t) /\ ~Delete(t)
    BY <2>3
       DEF Request, Pull, Get, Drop, Create, Boot, Adopt, Inspect, Probe, FindImage, Refused,
           AnswerLost, CarriedOutLate, TypeOK
  <2>4. QED
    BY <2>1, <2>2, <2>3
<1>4. QED
  BY <1>2, <1>3 DEF RemovalsAreSeen

LEMMA SeenStep == TypeOK /\ RemovalsAreSeen /\ [Next]_vars => RemovalsAreSeen'
<1> SUFFICES ASSUME TypeOK, RemovalsAreSeen, [Next]_vars PROVE RemovalsAreSeen'
  OBVIOUS
<1>1. ASSUME NEW t \in Thread, NEW s \in Sandbox, Launch(t, s) \/ RemoveCall(t, s)
      PROVE  RemovalsAreSeen'
  BY <1>1 DEF Launch, RemoveCall, Begins, TypeOK, RemovalsAreSeen
<1>2. ASSUME NEW t \in Thread, Prepare(t) PROVE RemovalsAreSeen'
  BY <1>2 DEF Prepare, Begins, TypeOK, RemovalsAreSeen
<1>3. ASSUME NEW t \in Thread, Request(t) \/ Pull(t) PROVE RemovalsAreSeen'
  BY <1>3, SeenByRequest
<1>4. ASSUME NEW t \in Thread, CallEnds(t) \/ ThreadDies(t) \/ Deadline(t)
      PROVE  RemovalsAreSeen'
  BY <1>4 DEF CallEnds, ThreadDies, Deadline, boxVars, TypeOK, RemovalsAreSeen
<1>5. ASSUME NEW s \in Sandbox, DaemonStep(s) PROVE RemovalsAreSeen'
  <2>1. step' = step /\ of' = of
    BY <1>5 DEF DaemonStep
  <2>2. CASE \/ Removal(s) /\ holds' = holds \ Users(s)
             \/ (\E new \in {"created", "running", "exited"} : BoxBecomes(s, new)) /\ holds' = holds
    BY <2>1, <2>2, SeenKept DEF RemovalsAreSeen
  <2>3. CASE /\ \E new \in {"created", "running"} :
                  box' = [box EXCEPT ![s] = IF @ = "absent" \/ new = "running" THEN new ELSE @]
             /\ UNCHANGED <<wasAbsent, holds>>
    BY <2>1, <2>3, WorksForOne DEF RemovalsAreSeen, TypeOK
  <2>4. QED
    BY <1>5, <2>2, <2>3 DEF DaemonStep, Late, Outside
<1>6. CASE UNCHANGED vars
  BY <1>6 DEF vars, boxVars, RemovalsAreSeen
<1>7. QED
  BY <1>1, <1>2, <1>3, <1>4, <1>5, <1>6 DEF Next

\* remove (app/runtime.py:98-100, 158-163) tells the truth, whoever else
\* creates, replaces or removes the container while it is under way.
THEOREM RemoveTellsTheTruth == Spec => []RemovedWasAbsent
<1>1. RemovalsAreSeen => RemovedWasAbsent
  BY DEF RemovalsAreSeen, RemovedWasAbsent
<1>2. QED
  BY <1>1, DockerTypeInit, DockerTypeStep, SeenInit, SeenStep, PTL DEF Spec

-----------------------------------------------------------------------------
(* Who may start a container *)

\* The thread t created the container that is there and has not started it.
Titled(t) ==
  /\ t \in holds
  /\ \/ step[t] = "boot"
     \/ step[t] = "raised" /\ t \in waited

\* A handle is of something, and what is late concerns something; at most one
\* thread, or late request, may start a container.
HandlesInv ==
  /\ \A t \in holds : of[t] \in Sandbox /\ box[of[t]] # "absent"
  /\ \A s \in lateBoot \cup lateDelete : box[s] # "absent"
  /\ \A t, u \in Thread : Titled(t) /\ Titled(u) /\ of[t] = of[u] => t = u
  /\ \A t \in Thread : Titled(t) => of[t] \notin lateBoot
  /\ \A t \in Thread : step[t] \in {"idle", "probe"} => t \notin holds

LEMMA HandlesInit == Init => HandlesInv
BY DEF Init, HandlesInv, Titled

\* Only thread t moves.
Only(t) ==
  \A u \in Thread \ {t} :
    step'[u] = step[u] /\ of'[u] = of[u] /\ (u \in waited' <=> u \in waited)

\* ... and the handles of the others stay good.
OthersHold(t) == \A u \in Thread \ {t} : u \in holds' <=> u \in holds

\* A thread that makes no container and boots none late leaves the titles to
\* start a container as they were, or loses its own.
LEMMA HandlesKept ==
  ASSUME TypeOK, HandlesInv, TypeOK', NEW t \in Thread, Only(t), OthersHold(t),
         \A s \in Sandbox : box[s] # "absent" => box'[s] # "absent",
         UNCHANGED <<lateBoot, lateDelete>>,
         t \in holds' => of'[t] \in Sandbox /\ box'[of'[t]] # "absent",
         Titled(t)' => Titled(t) /\ of'[t] = of[t],
         step'[t] \in {"idle", "probe"} => t \notin holds'
  PROVE  HandlesInv'
<1> USE DEF Only, OthersHold
<1>1. \A u \in Thread : Titled(u)' => Titled(u) /\ of'[u] = of[u]
  BY DEF Titled
<1>2. \A u \in holds' : of'[u] \in Sandbox /\ box'[of'[u]] # "absent"
  BY DEF HandlesInv, TypeOK
<1>3. \A s \in lateBoot' \cup lateDelete' : box'[s] # "absent"
  BY DEF HandlesInv, TypeOK
<1>4. \A u, v \in Thread : Titled(u)' /\ Titled(v)' /\ of'[u] = of'[v] => u = v
  BY <1>1 DEF HandlesInv
<1>5. \A u \in Thread : Titled(u)' => of'[u] \notin lateBoot'
  BY <1>1 DEF HandlesInv
<1>6. \A u \in Thread : step'[u] \in {"idle", "probe"} => u \notin holds'
  BY DEF HandlesInv
<1>7. QED
  BY <1>2, <1>3, <1>4, <1>5, <1>6 DEF HandlesInv

\* A removal makes every handle of that container stale.
LEMMA HandlesGone ==
  ASSUME TypeOK, HandlesInv, TypeOK', NEW t \in Thread, NEW s \in Sandbox, Only(t),
         Removal(s), holds' = holds \ Users(s), of'[t] = of[t], t \in Users(s)
  PROVE  HandlesInv'
<1> USE DEF Only, Removal, Users
<1>1. \A u \in Thread : Titled(u)' => Titled(u) /\ of'[u] = of[u]
  BY DEF Titled
<1>2. \A u \in holds' : of'[u] \in Sandbox /\ box'[of'[u]] # "absent"
  BY DEF HandlesInv, TypeOK
<1>3. \A z \in lateBoot' \cup lateDelete' : box'[z] # "absent"
  BY DEF HandlesInv, TypeOK
<1>4. \A u, v \in Thread : Titled(u)' /\ Titled(v)' /\ of'[u] = of'[v] => u = v
  BY <1>1 DEF HandlesInv
<1>5. \A u \in Thread : Titled(u)' => of'[u] \notin lateBoot'
  BY <1>1 DEF HandlesInv
<1>6. \A u \in Thread : step'[u] \in {"idle", "probe"} => u \notin holds'
  BY DEF HandlesInv
<1>7. QED
  BY <1>2, <1>3, <1>4, <1>5, <1>6 DEF HandlesInv

\* Whoever creates a container is the only one to hold it.
LEMMA HandlesMade ==
  ASSUME TypeOK, HandlesInv, TypeOK', NEW t \in Thread, NEW s \in Sandbox, Only(t),
         box[s] = "absent", BoxBecomes(s, "created"), holds' = holds \cup {t},
         of[t] = s, of'[t] = s, step'[t] \in {"boot", "raised"}
  PROVE  HandlesInv'
<1> USE DEF Only, BoxBecomes
<1>1. \A u \in Thread \ {t} : Titled(u)' => Titled(u) /\ of'[u] = of[u] /\ of[u] # s
  BY DEF Titled, HandlesInv
<1>2. \A u \in holds' : of'[u] \in Sandbox /\ box'[of'[u]] # "absent"
  BY DEF HandlesInv, TypeOK
<1>3. \A z \in lateBoot' \cup lateDelete' : box'[z] # "absent" /\ z # s
  BY DEF HandlesInv, TypeOK
<1>4. \A u, v \in Thread : Titled(u)' /\ Titled(v)' /\ of'[u] = of'[v] => u = v
  BY <1>1 DEF HandlesInv
<1>5. \A u \in Thread : Titled(u)' => of'[u] \notin lateBoot'
  BY <1>1, <1>3 DEF HandlesInv
<1>6. \A u \in Thread : step'[u] \in {"idle", "probe"} => u \notin holds'
  BY DEF HandlesInv
<1>7. QED
  BY <1>2, <1>3, <1>4, <1>5, <1>6 DEF HandlesInv

LEMMA RequestIsOnes ==
  ASSUME TypeOK, NEW t \in Thread, Request(t) \/ Pull(t)
  PROVE  Only(t) /\ of' = of /\ waited' = waited
BY DEF Request, Pull, Get, Drop, Create, Boot, Adopt, Inspect, Probe, Find, Delete, FindImage,
       Refused, AnswerLost, CarriedOutLate, Raises, GoesOn, Only, TypeOK

LEMMA LateBoots ==
  ASSUME NEW t \in Thread, StillInFlight(t)
  PROVE  \/ lateBoot' = lateBoot
         \/ Titled(t) /\ lateBoot' = lateBoot \cup {of[t]}
BY DEF StillInFlight, Titled, Holding

\* A thread leaves its title to a request that is on its way.
LEMMA HandlesLate ==
  ASSUME TypeOK, HandlesInv, NEW t \in Thread, Only(t), OthersHold(t), StillInFlight(t),
         box' = box, holds' = holds \ {t}, step'[t] \in {"raised", "idle"}
  PROVE  HandlesInv'
<1> USE DEF Only, OthersHold
<1>1. of[t] \in Sandbox
  BY FlightTypes
<1>2. \A u \in Thread : Titled(u)' => u # t /\ Titled(u) /\ of'[u] = of[u]
  BY DEF Titled
<1>3. \/ lateBoot' = lateBoot
      \/ Titled(t) /\ lateBoot' = lateBoot \cup {of[t]}
  BY LateBoots
<1>4. \A s \in lateBoot' \cup lateDelete' : box'[s] # "absent"
  BY DEF StillInFlight, HandlesInv, Holding
<1>5. \A u, v \in Thread : Titled(u)' /\ Titled(v)' /\ of'[u] = of'[v] => u = v
  BY <1>2 DEF HandlesInv
<1>6. \A u \in Thread : Titled(u)' => of'[u] \notin lateBoot'
  BY <1>2, <1>3 DEF HandlesInv
<1>7. \A u \in holds' : of'[u] \in Sandbox /\ box'[of'[u]] # "absent"
  BY DEF HandlesInv, TypeOK
<1>8. \A u \in Thread : step'[u] \in {"idle", "probe"} => u \notin holds'
  BY DEF HandlesInv
<1>9. QED
  BY <1>4, <1>5, <1>6, <1>7, <1>8 DEF HandlesInv

LEMMA HandlesByRequest ==
  ASSUME TypeOK, HandlesInv, TypeOK', NEW t \in Thread, Request(t) \/ Pull(t)
  PROVE  HandlesInv'
<1>0. Only(t) /\ of' = of /\ waited' = waited
  BY RequestIsOnes
<1> USE <1>0, WorksForOne DEF Untouched, boxVars, Takes, Raises, GoesOn, Holding, RemovedBy
<1>1. CASE Get(t) \/ Adopt(t) \/ Find(t)
  <2>1. of[t] \in Sandbox /\ step'[t] \notin {"get", "boot", "probe", "idle"}
    BY <1>1 DEF Get, Adopt, Find, LaunchStep, TypeOK
  <2>2. /\ box' = box /\ lateBoot' = lateBoot /\ lateDelete' = lateDelete /\ OthersHold(t)
        /\ t \in holds' => t \in holds \/ box[of[t]] # "absent"
        /\ step'[t] = "raised" => t \notin holds'
    BY <1>1 DEF Get, Adopt, Find, OthersHold, TypeOK
  <2>3. t \in holds' => of'[t] \in Sandbox /\ box'[of'[t]] # "absent"
    BY <2>1, <2>2 DEF HandlesInv
  <2>4. ~Titled(t)'
    BY <2>1, <2>2 DEF Titled
  <2>5. QED
    BY <2>1, <2>2, <2>3, <2>4, HandlesKept
<1>2. CASE /\ Drop(t) \/ Delete(t) \/ AnswerLost(t)
           /\ Removal(of[t]) /\ holds' = holds \ Users(of[t])
  <2>1. of[t] \in Sandbox /\ t \in Users(of[t])
    BY <1>2 DEF Drop, Delete, AnswerLost, LaunchStep, TypeOK, Users, HandlesInv
  <2>2. QED
    BY <1>2, <2>1, HandlesGone
<1>3. CASE /\ Create(t) \/ AnswerLost(t)
           /\ step[t] = "create" /\ box[of[t]] = "absent" /\ BoxBecomes(of[t], "created")
           /\ Takes(t) /\ step'[t] \in {"boot", "raised"}
  <2>1. of[t] \in Sandbox
    BY <1>3 DEF LaunchStep
  <2>2. QED
    BY <1>3, <2>1, HandlesMade
<1>4. CASE /\ Boot(t) \/ AnswerLost(t)
           /\ step[t] = "boot" /\ Holding(t) /\ BoxBecomes(of[t], "running")
           /\ holds' \in {holds, holds \ {t}}
           /\ step'[t] \in {"inspect", "raised"}
           /\ step'[t] = "raised" => t \notin holds'
  <2>1. of[t] \in Sandbox
    BY <1>4 DEF LaunchStep
  <2>2. OthersHold(t) /\ ~Titled(t)'
    BY <1>4 DEF OthersHold, Titled
  <2>3. \A s \in Sandbox : box[s] # "absent" => box'[s] # "absent"
    BY <1>4, <2>1 DEF BoxBecomes, TypeOK
  <2>4. box'[of[t]] = "running"
    BY <1>4, <2>1 DEF BoxBecomes, TypeOK
  <2>5. QED
    BY <1>4, <2>1, <2>2, <2>3, <2>4, HandlesKept DEF BoxBecomes
<1>5. CASE /\ UNCHANGED <<box, lateBoot, lateDelete>>
           /\ holds' \in {holds, holds \ {t}}
           /\ step'[t] \notin {"boot", "idle"}
           /\ step'[t] \in {"raised", "probe"} => t \notin holds'
  BY <1>5, HandlesKept DEF OthersHold, Titled, HandlesInv
<1>6. CASE CarriedOutLate(t)
  BY <1>6, HandlesLate DEF CarriedOutLate, OthersHold, TypeOK
<1>7. CASE Drop(t) \/ Delete(t)
  <2>1. CASE Removal(of[t]) /\ holds' = holds \ Users(of[t])
    BY <1>2, <1>7, <2>1
  <2>2. CASE ~(Removal(of[t]) /\ holds' = holds \ Users(of[t]))
    BY <1>5, <1>7, <2>2 DEF Drop, Delete, TypeOK
  <2>3. QED
    BY <2>1, <2>2
<1>8. CASE Create(t) \/ Boot(t)
  BY <1>3, <1>4, <1>5, <1>8 DEF Create, Boot, TypeOK, HandlesInv
<1>9. CASE Inspect(t) \/ Probe(t) \/ FindImage(t) \/ Refused(t) \/ Pull(t)
  BY <1>5, <1>9 DEF Inspect, Probe, FindImage, Refused, Pull, TypeOK, HandlesInv
<1>10. CASE AnswerLost(t)
  <2>0. step'[t] = "raised"
    BY <1>10 DEF AnswerLost, TypeOK
  <2>1. CASE Removal(of[t]) /\ holds' = holds \ Users(of[t])
    BY <1>2, <1>10, <2>1
  <2>2. CASE /\ step[t] = "create" /\ image /\ box[of[t]] = "absent"
             /\ BoxBecomes(of[t], "created") /\ Takes(t)
    BY <1>3, <1>10, <2>0, <2>2
  <2>3. CASE /\ step[t] = "boot" /\ Holding(t)
             /\ BoxBecomes(of[t], "running") /\ holds' = holds \ {t}
    BY <1>4, <1>10, <2>0, <2>3
  <2>4. QED
    BY <1>10, <2>1, <2>2, <2>3 DEF AnswerLost
<1>11. QED
  BY <1>1, <1>6, <1>7, <1>8, <1>9, <1>10 DEF Request

\* The daemon alone: it may start a container late, and removes no handle's
\* container without making the handle stale.
LEMMA HandlesByDaemon ==
  ASSUME TypeOK, HandlesInv, TypeOK', NEW s \in Sandbox, DaemonStep(s)
  PROVE  HandlesInv'
<1>0. step' = step /\ of' = of /\ waited' = waited
  BY DEF DaemonStep
<1>1. CASE Removal(s) /\ holds' = holds \ Users(s)
  BY <1>0, <1>1 DEF Removal, Users, HandlesInv, Titled, TypeOK
<1>2. CASE /\ \A z \in Sandbox : box[z] # "absent" => box'[z] # "absent"
           /\ lateBoot' \subseteq lateBoot /\ lateDelete' = lateDelete /\ holds' = holds
  BY <1>0, <1>2 DEF HandlesInv, Titled, TypeOK
<1>3. \/ Removal(s) /\ holds' = holds \ Users(s)
      \/ /\ \A z \in Sandbox : box[z] # "absent" => box'[z] # "absent"
         /\ lateBoot' \subseteq lateBoot /\ lateDelete' = lateDelete /\ holds' = holds
  BY DEF DaemonStep, Late, Outside, BoxBecomes, TypeOK
<1>4. QED
  BY <1>1, <1>2, <1>3

LEMMA HandlesStep == TypeOK /\ HandlesInv /\ [Next]_vars => HandlesInv'
<1> SUFFICES ASSUME TypeOK, HandlesInv, [Next]_vars PROVE HandlesInv'
  OBVIOUS
<1>0. TypeOK'
  BY DockerTypeStep
<1>1. ASSUME NEW t \in Thread, NEW s \in Sandbox \cup {NoSandbox}, NEW first \in Step,
             Begins(t, s, first), first \notin {"boot", "raised", "probe"}
      PROVE  HandlesInv'
  <2>1. Only(t) /\ OthersHold(t) /\ step'[t] = first /\ t \in waited' /\ holds' = holds /\ box' = box
    BY <1>1 DEF Begins, Only, OthersHold, TypeOK
  <2>2. t \notin holds
    BY <1>1 DEF Begins, HandlesInv
  <2>3. QED
    BY <1>0, <1>1, <2>1, <2>2, HandlesKept DEF Begins, Titled
<1>2. ASSUME NEW t \in Thread, Request(t) \/ Pull(t) PROVE HandlesInv'
  BY <1>0, <1>2, HandlesByRequest
<1>3. ASSUME NEW t \in Thread, CallEnds(t) \/ ThreadDies(t) PROVE HandlesInv'
  <2>1. /\ Only(t) /\ OthersHold(t) /\ step'[t] = "idle" /\ box' = box
        /\ holds' = holds \ {t}
    BY <1>3 DEF CallEnds, ThreadDies, Only, OthersHold, TypeOK
  <2>2. CASE UNCHANGED <<lateBoot, lateDelete>>
    BY <1>0, <2>1, <2>2, HandlesKept DEF Titled
  <2>3. CASE StillInFlight(t)
    BY <2>1, <2>3, HandlesLate
  <2>4. QED
    BY <1>3, <2>2, <2>3 DEF CallEnds, ThreadDies
<1>4. ASSUME NEW t \in Thread, Deadline(t) PROVE HandlesInv'
  <2>1. /\ Only(t) /\ OthersHold(t) /\ step' = step /\ of' = of /\ holds' = holds /\ box' = box
        /\ UNCHANGED <<lateBoot, lateDelete>>
        /\ step[t] \notin {"probe", "raised"}
    BY <1>4 DEF Deadline, boxVars, Only, OthersHold
  <2>2. QED
    BY <1>0, <2>1, HandlesKept DEF Titled, HandlesInv
<1>5. ASSUME NEW s \in Sandbox, DaemonStep(s) PROVE HandlesInv'
  BY <1>0, <1>5, HandlesByDaemon
<1>6. CASE UNCHANGED vars
  BY <1>6 DEF vars, boxVars, HandlesInv, Titled
<1>7. QED
  BY <1>1, <1>2, <1>3, <1>4, <1>5, <1>6
     DEF Next, Launch, RemoveCall, Prepare, Step, LaunchStep

-----------------------------------------------------------------------------
(* What ContainerRuntime sees of a step *)

LEMMA ForgottenFinite ==
  ASSUME NEW s \in Sandbox
  PROVE  IsFiniteSet(Forgotten(s)) /\ Cardinality(Forgotten(s)) \in Nat
<1>1. Forgotten(s) \in SUBSET Thread
  BY DEF Forgotten, Users
<1>2. QED
  BY <1>1, FS_Subset, FS_CardinalityType, DockerAssumption DEF DockerAssumption

\* The others are forgotten or not, as before.
LEMMA ForgottenOthers ==
  ASSUME NEW t \in Thread, Only(t), NEW s \in Sandbox
  PROVE  Forgotten(s)' \ {t} = Forgotten(s) \ {t}
BY DEF Forgotten, Users, Only

LEMMA ForgottenSame ==
  ASSUME NEW t \in Thread, Only(t), lateCreate' = lateCreate,
         \A s \in Sandbox : t \in Forgotten(s)' <=> t \in Forgotten(s)
  PROVE  forgottenBar' = forgottenBar
<1>1. \A s \in Sandbox : Forgotten(s)' = Forgotten(s)
  BY ForgottenOthers
<1>2. QED
  BY <1>1 DEF forgottenBar

LEMMA ForgottenLess ==
  ASSUME TypeOK, NEW t \in Thread, Only(t), lateCreate' = lateCreate, NEW s \in Sandbox,
         t \in Forgotten(s), \A z \in Sandbox : t \notin Forgotten(z)'
  PROVE  forgottenBar[s] > 0 /\ forgottenBar' = [forgottenBar EXCEPT ![s] = @ - 1]
<1>1. Forgotten(s)' = Forgotten(s) \ {t}
  BY ForgottenOthers
<1>2. Cardinality(Forgotten(s)') = Cardinality(Forgotten(s)) - 1 /\ Cardinality(Forgotten(s)) > 0
  <2>1. Cardinality(Forgotten(s) \ {t}) = Cardinality(Forgotten(s)) - 1
    BY FS_RemoveElement, ForgottenFinite
  <2>2. Cardinality(Forgotten(s)) # 0
    BY FS_EmptySet, ForgottenFinite
  <2>3. QED
    BY <1>1, <2>1, <2>2, ForgottenFinite
<1>3. \A z \in Sandbox \ {s} : Forgotten(z)' = Forgotten(z)
  <2>1. \A z \in Sandbox \ {s} : t \notin Forgotten(z)
    BY DEF Forgotten, Users
  <2>2. QED
    BY <2>1, ForgottenOthers
<1>4. lateCreate[s] \in Nat
  BY DEF TypeOK
<1>5. forgottenBar'[s] = forgottenBar[s] - 1 /\ forgottenBar[s] > 0
  BY <1>2, <1>4, ForgottenFinite DEF forgottenBar
<1>6. \A z \in Sandbox \ {s} : forgottenBar'[z] = forgottenBar[z]
  BY <1>3 DEF forgottenBar
<1>7. QED
  BY <1>5, <1>6 DEF forgottenBar

LEMMA ForgottenMore ==
  ASSUME TypeOK, NEW t \in Thread, Only(t), lateCreate' = lateCreate, NEW s \in Sandbox,
         \A z \in Sandbox : t \notin Forgotten(z), t \in Forgotten(s)'
  PROVE  forgottenBar' = [forgottenBar EXCEPT ![s] = @ + 1]
<1>1. Forgotten(s)' = Forgotten(s) \cup {t}
  BY ForgottenOthers
<1>2. Cardinality(Forgotten(s)') = Cardinality(Forgotten(s)) + 1
  BY <1>1, FS_AddElement, ForgottenFinite
<1>3. \A z \in Sandbox \ {s} : Forgotten(z)' = Forgotten(z)
  <2>1. \A z \in Sandbox \ {s} : t \notin Forgotten(z)'
    BY DEF Forgotten, Users
  <2>2. QED
    BY <2>1, ForgottenOthers
<1>4. lateCreate[s] \in Nat
  BY DEF TypeOK
<1>5. forgottenBar'[s] = forgottenBar[s] + 1
  BY <1>2, <1>4, ForgottenFinite DEF forgottenBar
<1>6. \A z \in Sandbox \ {s} : forgottenBar'[z] = forgottenBar[z]
  BY <1>3 DEF forgottenBar
<1>7. QED
  BY <1>5, <1>6 DEF forgottenBar

\* One late creation more.
LEMMA ForgottenLate ==
  ASSUME TypeOK, NEW s \in Sandbox,
         lateCreate' = [lateCreate EXCEPT ![s] = @ + 1],
         \A z \in Sandbox : Forgotten(z)' = Forgotten(z)
  PROVE  forgottenBar' = [forgottenBar EXCEPT ![s] = @ + 1]
<1>1. \A z \in Sandbox : Cardinality(Forgotten(z)) \in Nat /\ lateCreate[z] \in Nat
  BY ForgottenFinite DEF TypeOK
<1>2. forgottenBar'[s] = forgottenBar[s] + 1
  BY <1>1 DEF forgottenBar, TypeOK
<1>3. \A z \in Sandbox \ {s} : forgottenBar'[z] = forgottenBar[z]
  BY DEF forgottenBar, TypeOK
<1>4. QED
  BY <1>2, <1>3 DEF forgottenBar

LEMMA CreatorSame ==
  ASSUME NEW t \in Thread, Only(t), OthersHold(t), lateBoot' = lateBoot,
         \A s \in Sandbox : /\ t \in Maker(s)' <=> t \in Maker(s)
                            /\ t \in Starter(s)' <=> t \in Starter(s)
  PROVE  creatorBar' = creatorBar
<1>1. ASSUME NEW s \in Sandbox
      PROVE  Maker(s)' = Maker(s) /\ Starter(s)' = Starter(s)
  BY DEF Maker, Starter, Users, Holding, Only, OthersHold
<1>2. QED
  BY <1>1 DEF creatorBar

\* What creatorBar shows of a container whose creator is known.
LEMMA CreatorShown ==
  ASSUME HandlesInv, NEW s \in Sandbox
  PROVE  /\ \A t \in Maker(s) : creatorBar[s] = "handler" /\ Starter(s) = {} /\ s \notin lateBoot
         /\ \A t \in Starter(s) : creatorBar[s] = "thread" /\ Maker(s) = {} /\ s \notin lateBoot
         /\ s \in lateBoot => creatorBar[s] = "thread" /\ Maker(s) = {} /\ Starter(s) = {}
<1>1. \A t \in Maker(s) \cup Starter(s) : t \in Thread /\ Titled(t) /\ of[t] = s
  BY DEF Maker, Starter, Users, Holding, Titled
<1>2. Maker(s) \cap Starter(s) = {}
  BY DEF Maker, Starter
<1>3. \A t \in Maker(s) : Starter(s) = {} /\ s \notin lateBoot
  BY <1>1, <1>2 DEF HandlesInv
<1>4. \A t \in Starter(s) : Maker(s) = {} /\ s \notin lateBoot
  BY <1>1, <1>2 DEF HandlesInv
<1>5. QED
  BY <1>3, <1>4 DEF creatorBar

\* A thread starts its container, or will not do so any more.
LEMMA TitleLost ==
  ASSUME TypeOK, HandlesInv, NEW t \in Thread, Only(t), OthersHold(t), lateBoot' = lateBoot,
         NEW s \in Sandbox, of[t] = s, Titled(t),
         \A z \in Sandbox : t \notin Maker(z)' /\ t \notin Starter(z)'
  PROVE  /\ creatorBar[s] = IF t \in waited THEN "handler" ELSE "thread"
         /\ creatorBar' = [creatorBar EXCEPT ![s] = "none"]
<1>1. \/ t \in waited /\ t \in Maker(s)
      \/ t \notin waited /\ t \in Starter(s)
  BY DEF Titled, Maker, Starter, Users, Holding
<1>2. \A u \in Thread : Titled(u) /\ of[u] = s => u = t
  BY DEF HandlesInv
<1>3. s \notin lateBoot
  BY DEF HandlesInv
<1>4. \A u \in Thread \ {t}, z \in Sandbox :
        /\ u \in Maker(z)' <=> u \in Maker(z)
        /\ u \in Starter(z)' <=> u \in Starter(z)
  BY DEF Maker, Starter, Users, Holding, Only, OthersHold
<1>5. \A u \in Maker(s) \cup Starter(s) : u \in Thread /\ Titled(u) /\ of[u] = s
  BY DEF Maker, Starter, Users, Holding, Titled
<1>6. \A z \in Sandbox : Maker(z)' \subseteq Thread /\ Starter(z)' \subseteq Thread
  BY DEF Maker, Starter, Users
<1>7. Maker(s)' = {} /\ Starter(s)' = {}
  BY <1>2, <1>4, <1>5, <1>6
<1>8. \A z \in Sandbox \ {s} : Maker(z)' = Maker(z) /\ Starter(z)' = Starter(z)
  <2>1. \A z \in Sandbox \ {s} : t \notin Maker(z) /\ t \notin Starter(z)
    BY DEF Maker, Starter, Users
  <2>2. \A z \in Sandbox : Maker(z) \subseteq Thread /\ Starter(z) \subseteq Thread
    BY DEF Maker, Starter, Users
  <2>3. QED
    BY <1>4, <1>6, <2>1, <2>2
<1>9. QED
  BY <1>1, <1>3, <1>7, <1>8, CreatorShown DEF creatorBar

\* A container is created.
LEMMA TitleMade ==
  ASSUME TypeOK, HandlesInv, NEW t \in Thread, Only(t), OthersHold(t), lateBoot' = lateBoot,
         NEW s \in Sandbox, of[t] = s, of'[t] = s, box[s] = "absent"
  PROVE  /\ creatorBar[s] = "none"
         /\ creatorBar' = [creatorBar EXCEPT ![s] = IF t \in Maker(s)' THEN "handler"
                                                   ELSE IF t \in Starter(s)' THEN "thread"
                                                   ELSE "none"]
<1>1. \A u \in holds : of[u] # s
  BY DEF HandlesInv
<1>2. s \notin lateBoot
  BY DEF HandlesInv
<1>3. Maker(s) = {} /\ Starter(s) = {}
  BY <1>1 DEF Maker, Starter, Users, Holding
<1>4. Maker(s)' \subseteq {t} /\ Starter(s)' \subseteq {t}
  BY <1>1 DEF Maker, Starter, Users, Holding, Only, OthersHold
<1>5. \A z \in Sandbox \ {s} : Maker(z)' = Maker(z) /\ Starter(z)' = Starter(z)
  BY DEF Maker, Starter, Users, Holding, Only, OthersHold
<1>6. QED
  BY <1>2, <1>3, <1>4, <1>5 DEF creatorBar

\* A container is removed: nobody can start it any more.
LEMMA TitlesGone ==
  ASSUME TypeOK, NEW s \in Sandbox, Removal(s), holds' = holds \ Users(s), of' = of,
         \A u \in Thread : of[u] # s => /\ step'[u] = step[u]
                                        /\ u \in waited' <=> u \in waited
  PROVE  creatorBar' = [creatorBar EXCEPT ![s] = "none"]
<1>1. Maker(s)' = {} /\ Starter(s)' = {}
  BY DEF Maker, Starter, Users, Holding
<1>2. \A z \in Sandbox \ {s} : Maker(z)' = Maker(z) /\ Starter(z)' = Starter(z)
  BY DEF Maker, Starter, Users, Holding
<1>3. s \notin lateBoot' /\ \A z \in Sandbox \ {s} : z \in lateBoot' <=> z \in lateBoot
  BY DEF Removal
<1>4. QED
  BY <1>1, <1>2, <1>3 DEF creatorBar

\* A thread leaves its container to a thread, or to a request, nobody waits for.
LEMMA TitlePassed ==
  ASSUME TypeOK, HandlesInv, NEW t \in Thread, Only(t), OthersHold(t),
         NEW s \in Sandbox, of[t] = s, Titled(t),
         \A z \in Sandbox : t \notin Maker(z)' /\ (t \in Starter(z)' => z = s),
         \/ t \in Starter(s)' /\ lateBoot' = lateBoot
         \/ t \notin Starter(s)' /\ lateBoot' = lateBoot \cup {s}
  PROVE  /\ creatorBar[s] = IF t \in waited THEN "handler" ELSE "thread"
         /\ creatorBar' = [creatorBar EXCEPT ![s] = "thread"]
<1>1. \/ t \in waited /\ t \in Maker(s)
      \/ t \notin waited /\ t \in Starter(s)
  BY DEF Titled, Maker, Starter, Users, Holding
<1>2. \A u \in Thread : Titled(u) /\ of[u] = s => u = t
  BY DEF HandlesInv
<1>3. \A u \in Thread \ {t}, z \in Sandbox :
        /\ u \in Maker(z)' <=> u \in Maker(z)
        /\ u \in Starter(z)' <=> u \in Starter(z)
  BY DEF Maker, Starter, Users, Holding, Only, OthersHold
<1>4. \A u \in Maker(s) \cup Starter(s) : u \in Thread /\ Titled(u) /\ of[u] = s
  BY DEF Maker, Starter, Users, Holding, Titled
<1>5. \A z \in Sandbox : /\ Maker(z)' \subseteq Thread /\ Starter(z)' \subseteq Thread
                         /\ Maker(z) \subseteq Thread /\ Starter(z) \subseteq Thread
  BY DEF Maker, Starter, Users
<1>6. Maker(s)' = {}
  BY <1>2, <1>3, <1>4, <1>5
<1>7. Starter(s)' # {} \/ s \in lateBoot'
  OBVIOUS
<1>8. \A z \in Sandbox \ {s} : Maker(z)' = Maker(z) /\ Starter(z)' = Starter(z)
  <2>1. \A z \in Sandbox \ {s} : t \notin Maker(z) /\ t \notin Starter(z)
    BY DEF Maker, Starter, Users
  <2>2. QED
    BY <1>3, <1>5, <2>1
<1>9. \A z \in Sandbox \ {s} : z \in lateBoot' <=> z \in lateBoot
  OBVIOUS
<1>10. QED
  BY <1>1, <1>6, <1>7, <1>8, <1>9, CreatorShown DEF creatorBar

\* A creation passes from a thread to a request.
LEMMA ForgottenSwapped ==
  ASSUME TypeOK, NEW t \in Thread, Only(t), NEW s \in Sandbox,
         t \in Forgotten(s), \A z \in Sandbox : t \notin Forgotten(z)',
         lateCreate' = [lateCreate EXCEPT ![s] = @ + 1]
  PROVE  forgottenBar' = forgottenBar
<1>1. Forgotten(s)' = Forgotten(s) \ {t}
  BY ForgottenOthers
<1>2. Cardinality(Forgotten(s) \ {t}) = Cardinality(Forgotten(s)) - 1
  BY FS_RemoveElement, ForgottenFinite
<1>3. \A z \in Sandbox \ {s} : Forgotten(z)' = Forgotten(z)
  <2>1. \A z \in Sandbox \ {s} : t \notin Forgotten(z)
    BY DEF Forgotten, Users
  <2>2. QED
    BY <2>1, ForgottenOthers
<1>4. forgottenBar'[s] = forgottenBar[s]
  <2>1. Cardinality(Forgotten(s)) \in Nat /\ lateCreate[s] \in Nat /\ lateCreate'[s] = lateCreate[s] + 1
    BY ForgottenFinite DEF TypeOK
  <2>2. QED
    BY <1>1, <1>2, <2>1 DEF forgottenBar
<1>5. \A z \in Sandbox \ {s} : forgottenBar'[z] = forgottenBar[z]
  BY <1>3 DEF forgottenBar, TypeOK
<1>6. QED
  BY <1>4, <1>5 DEF forgottenBar

\* The others look for what they are to remove, or hold it, as before.
LEMMA RemovalOthers ==
  ASSUME NEW t \in Thread, Only(t), OthersHold(t), NEW s \in Sandbox
  PROVE  /\ Seeker(s)' \ {t} = Seeker(s) \ {t}
         /\ Remover(s)' \ {t} = Remover(s) \ {t}
BY DEF Seeker, Remover, Users, Holding, Only, OthersHold

\* So does t.
LEMMA RemovalsSame ==
  ASSUME NEW t \in Thread, Only(t), OthersHold(t), lateDelete' = lateDelete,
         \A s \in Sandbox : /\ t \in Seeker(s)' <=> t \in Seeker(s)
                            /\ t \in Remover(s)' <=> t \in Remover(s)
  PROVE  soughtBar' = soughtBar /\ doomedBar' = doomedBar
<1>1. \A s \in Sandbox : Seeker(s)' = Seeker(s) /\ Remover(s)' = Remover(s)
  BY RemovalOthers
<1>2. QED
  BY <1>1 DEF soughtBar, doomedBar

\* A thread works for one sandbox.
LEMMA RemovesOne ==
  ASSUME NEW t \in Thread, NEW s \in Sandbox, of[t] = s
  PROVE  \A z \in Sandbox \ {s} : t \notin Seeker(z) /\ t \notin Remover(z)
BY DEF Seeker, Remover, Users

\* ... removes nothing any more, and its request perhaps does.
LEMMA RemovalsLess ==
  ASSUME NEW t \in Thread, Only(t), OthersHold(t), NEW s \in Sandbox, of[t] = s,
         \A z \in Sandbox \ {s} : z \in lateDelete' <=> z \in lateDelete,
         \A z \in Sandbox : t \notin Seeker(z)' /\ t \notin Remover(z)'
  PROVE  /\ soughtBar' \in {soughtBar, soughtBar \ {s}}
         /\ lateDelete' = lateDelete => doomedBar' \in {doomedBar, doomedBar \ {s}}
         /\ s \in lateDelete' => doomedBar' = doomedBar \cup {s}
<1>1. \A z \in Sandbox \ {s} : Seeker(z)' = Seeker(z) /\ Remover(z)' = Remover(z)
  BY RemovalOthers, RemovesOne
<1>2. \A z \in Sandbox \ {s} : /\ z \in soughtBar' <=> z \in soughtBar
                               /\ z \in doomedBar' <=> z \in doomedBar
  BY <1>1 DEF soughtBar, doomedBar
<1>3. s \in soughtBar' => s \in soughtBar
  BY RemovalOthers DEF soughtBar
<1>4. lateDelete' = lateDelete /\ s \in doomedBar' => s \in doomedBar
  BY RemovalOthers DEF doomedBar
<1>5. s \in lateDelete' => s \in doomedBar'
  BY DEF doomedBar
<1>6. soughtBar \subseteq Sandbox /\ doomedBar \subseteq Sandbox
      /\ soughtBar' \subseteq Sandbox /\ doomedBar' \subseteq Sandbox
  BY DEF soughtBar, doomedBar
<1>7. soughtBar' \in {soughtBar, soughtBar \ {s}}
  <2>1. CASE s \in soughtBar'
    <3>1. soughtBar' = soughtBar
      <4>1. \A z : z \in soughtBar' <=> z \in soughtBar
        BY <1>2, <1>3, <1>6, <2>1, Zenon
      <4>2. QED
        BY <4>1
    <3>2. QED
      BY <3>1
  <2>2. CASE s \notin soughtBar'
    <3>1. soughtBar' = soughtBar \ {s}
      BY <1>2, <1>6, <2>2
    <3>2. QED
      BY <3>1
  <2>3. QED
    BY <2>1, <2>2
<1>8. lateDelete' = lateDelete => doomedBar' \in {doomedBar, doomedBar \ {s}}
  BY <1>2, <1>4, <1>6
<1>9. s \in lateDelete' => doomedBar' = doomedBar \cup {s}
  BY <1>2, <1>5, <1>6
<1>10. QED
  BY <1>7, <1>8, <1>9

\* ... has found what it is to remove, or is left behind with it.
LEMMA RemovalFound ==
  ASSUME NEW t \in Thread, Only(t), OthersHold(t), lateDelete' = lateDelete,
         NEW s \in Sandbox, of[t] = s, of'[t] = s,
         t \in Remover(s)', t \notin Seeker(s)'
  PROVE  /\ soughtBar' \in {soughtBar, soughtBar \ {s}}
         /\ t \notin Seeker(s) => soughtBar' = soughtBar
         /\ doomedBar' = doomedBar \cup {s}
<1>1. \A z \in Sandbox \ {s} : /\ t \notin Seeker(z) /\ t \notin Remover(z)
                               /\ t \notin Seeker(z)' /\ t \notin Remover(z)'
  BY DEF Seeker, Remover, Users
<1>2. \A z \in Sandbox \ {s} : Seeker(z)' = Seeker(z) /\ Remover(z)' = Remover(z)
  BY <1>1, RemovalOthers
<1>3. \A z \in Sandbox \ {s} : /\ z \in soughtBar' <=> z \in soughtBar
                               /\ z \in doomedBar' <=> z \in doomedBar
  BY <1>2 DEF soughtBar, doomedBar
<1>4. /\ s \in soughtBar' => s \in soughtBar
      /\ t \notin Seeker(s) => (s \in soughtBar' <=> s \in soughtBar)
  BY RemovalOthers DEF soughtBar
<1>5. s \in doomedBar'
  BY DEF doomedBar
<1>6. soughtBar \subseteq Sandbox /\ doomedBar \subseteq Sandbox
      /\ soughtBar' \subseteq Sandbox /\ doomedBar' \subseteq Sandbox
  BY DEF soughtBar, doomedBar
<1>7. QED
  BY <1>3, <1>4, <1>5, <1>6

\* A container is removed: nobody can remove it any more.
LEMMA RemovalsGone ==
  ASSUME TypeOK, NEW s \in Sandbox, Removal(s), holds' = holds \ Users(s), of' = of,
         \A u \in Thread :
           /\ u \in waited' <=> u \in waited
           /\ step'[u] # step[u] => of[u] = s /\ step[u] # "find" /\ step'[u] # "find"
  PROVE  soughtBar' = soughtBar /\ doomedBar' = doomedBar \ {s}
<1>1. \A z \in Sandbox : Seeker(z)' = Seeker(z)
  BY DEF Seeker, Users
<1>2. Remover(s)' = {}
  BY DEF Remover, Users, Holding
<1>3. \A z \in Sandbox \ {s} : Remover(z)' = Remover(z)
  BY DEF Remover, Users, Holding
<1>4. s \notin lateDelete' /\ \A z \in Sandbox \ {s} : z \in lateDelete' <=> z \in lateDelete
  BY DEF Removal
<1>5. QED
  BY <1>1, <1>2, <1>3, <1>4 DEF soughtBar, doomedBar

-----------------------------------------------------------------------------
(* Every step keeps the promise *)

Kept == Promised!RuntimeNext \/ UNCHANGED Promised!runtimeVars

LEMMA PromiseInit == Init => Promised!RuntimeInit
<1> SUFFICES ASSUME Init PROVE Promised!RuntimeInit
  OBVIOUS
<1>1. \A s \in Sandbox : /\ Forgotten(s) = {} /\ Maker(s) = {} /\ Starter(s) = {}
                         /\ Seeker(s) = {} /\ Remover(s) = {}
  BY DEF Init, Forgotten, Maker, Starter, Seeker, Remover, Users
<1>2. forgottenBar = [s \in Sandbox |-> 0]
  <2>1. \A s \in Sandbox : Cardinality(Forgotten(s)) = 0
    BY <1>1, FS_EmptySet
  <2>2. QED
    BY <2>1 DEF Init, forgottenBar
<1>3. creatorBar = [s \in Sandbox |-> "none"]
  BY <1>1 DEF Init, creatorBar
<1>4. soughtBar = {} /\ doomedBar = {}
  BY <1>1 DEF Init, soughtBar, doomedBar
<1>5. QED
  BY <1>2, <1>3, <1>4 DEF Init, Promised!RuntimeInit

\* Thread t has nothing behind anybody's back, and starts nothing for anybody.
Harmless(t) ==
  \A z \in Sandbox : t \notin Forgotten(z) \cup Maker(z) \cup Starter(z)
                               \cup Seeker(z) \cup Remover(z)

\* A thread that afterwards neither creates, starts nor removes anything, and did
\* nothing to a container: a call nobody waits for has come to its end, or a launch
\* has failed, or nothing is to be seen.
LEMMA EndsQuietly ==
  ASSUME TypeOK, HandlesInv, NEW t \in Thread, Only(t), OthersHold(t),
         UNCHANGED <<box, lateCreate, lateBoot, lateDelete, lost, overtaken>>,
         Harmless(t)'
  PROVE  Kept
<1>0. \A z \in Sandbox : /\ t \notin Forgotten(z)' /\ t \notin Maker(z)' /\ t \notin Starter(z)'
                         /\ t \notin Seeker(z)' /\ t \notin Remover(z)'
  BY DEF Harmless
<1>1. CASE \E s \in Sandbox : t \in Forgotten(s)
  <2> PICK s \in Sandbox : t \in Forgotten(s)
    BY <1>1
  <2>1. forgottenBar[s] > 0 /\ forgottenBar' = [forgottenBar EXCEPT ![s] = @ - 1]
    BY <1>0, ForgottenLess
  <2>2. \A z \in Sandbox : t \notin Maker(z) /\ t \notin Starter(z) /\ t \notin Seeker(z)
    BY DEF Forgotten, Maker, Starter, Seeker, Users
  <2>3. creatorBar' = creatorBar
    BY <1>0, <2>2, CreatorSame
  <2>4. of[t] = s
    BY DEF Forgotten, Users
  <2>5. doomedBar' \in {doomedBar, doomedBar \ {s}}
    BY <1>0, <2>4, RemovalsLess
  <2>6. soughtBar' = soughtBar
    BY <1>0, <2>2, RemovalOthers DEF soughtBar
  <2>7. Promised!GhostEnds(s)
    BY <2>1, <2>3, <2>5, <2>6 DEF Promised!GhostEnds
  <2>8. QED
    BY <2>7 DEF Kept, Promised!RuntimeNext
<1>2. CASE Titled(t) /\ \A z \in Sandbox : t \notin Forgotten(z)
  <2>1. of[t] \in Sandbox
    BY <1>2 DEF Titled, HandlesInv
  <2>2. forgottenBar' = forgottenBar
    BY <1>0, <1>2, ForgottenSame
  <2>3. /\ creatorBar[of[t]] = IF t \in waited THEN "handler" ELSE "thread"
        /\ creatorBar' = [creatorBar EXCEPT ![of[t]] = "none"]
    BY <1>0, <1>2, <2>1, TitleLost
  <2>4. \A z \in Sandbox : t \notin Seeker(z) /\ t \notin Remover(z)
    BY <1>2 DEF Titled, Seeker, Remover
  <2>5. soughtBar' = soughtBar /\ doomedBar' = doomedBar
    BY <1>0, <2>4, RemovalsSame
  <2>6. Promised!LaunchEnds(of[t]) \/ Promised!GhostEnds(of[t])
    BY <2>1, <2>2, <2>3, <2>5 DEF Promised!LaunchEnds, Promised!GhostEnds, creatorBar
  <2>7. QED
    BY <2>1, <2>6 DEF Kept, Promised!RuntimeNext
<1>3. CASE ~Titled(t) /\ \A z \in Sandbox : t \notin Forgotten(z)
  <2>1. \A z \in Sandbox : t \notin Maker(z) /\ t \notin Starter(z)
    BY <1>3 DEF Titled, Maker, Starter, Users, Holding
  <2>2. creatorBar' = creatorBar /\ forgottenBar' = forgottenBar
    BY <1>0, <1>3, <2>1, CreatorSame, ForgottenSame
  <2>3. CASE of[t] \in Sandbox
    <3>1. /\ soughtBar' \in {soughtBar, soughtBar \ {of[t]}}
          /\ doomedBar' \in {doomedBar, doomedBar \ {of[t]}}
      BY <1>0, <2>3, RemovalsLess
    <3>2. Promised!GhostSpares(of[t])
      BY <2>2, <3>1 DEF Promised!GhostSpares
    <3>3. QED
      BY <2>3, <3>2 DEF Kept, Promised!RuntimeNext
  <2>4. CASE of[t] \notin Sandbox
    <3>1. \A z \in Sandbox : t \notin Seeker(z) /\ t \notin Remover(z)
      BY <2>4 DEF Seeker, Remover, Users
    <3>2. soughtBar' = soughtBar /\ doomedBar' = doomedBar
      BY <1>0, <3>1, RemovalsSame
    <3>3. QED
      BY <2>2, <3>2 DEF Kept, Promised!runtimeVars
  <2>5. QED
    BY <2>3, <2>4
<1>4. QED
  BY <1>1, <1>2, <1>3

\* A thread that goes on to create, with a pull or without one.
LEMMA StillCreating ==
  ASSUME TypeOK, NEW t \in Thread, Only(t), of'[t] = of[t], holds' = holds,
         t \in waited' <=> t \in waited,
         UNCHANGED <<box, lateCreate, lateBoot, lateDelete, lost, overtaken>>,
         step[t] \in {"get", "create", "pull"}, step'[t] \in {"create", "pull"}
  PROVE  Kept
<1>1. \A z \in Sandbox : /\ t \in Forgotten(z)' <=> t \in Forgotten(z)
                         /\ t \in Maker(z)' <=> t \in Maker(z)
                         /\ t \in Starter(z)' <=> t \in Starter(z)
                         /\ t \in Seeker(z)' <=> t \in Seeker(z)
                         /\ t \in Remover(z)' <=> t \in Remover(z)
  BY DEF Forgotten, Maker, Starter, Seeker, Remover, Users
<1>2. OthersHold(t)
  BY DEF OthersHold
<1>3. QED
  BY <1>1, <1>2, CreatorSame, ForgottenSame, RemovalsSame DEF Kept, Promised!runtimeVars

\* A thread nobody waits for finds what it is to remove.
LEMMA FindsLate ==
  ASSUME TypeOK, HandlesInv, NEW t \in Thread, Only(t), OthersHold(t), NEW s \in Sandbox,
         of' = of, waited' = waited, of[t] = s, t \notin waited, t \in holds',
         UNCHANGED <<box, lateCreate, lateBoot, lateDelete, lost, overtaken>>,
         \/ step[t] = "get" /\ step'[t] = "drop" /\ box[s] \in {"created", "exited"}
         \/ step[t] = "find" /\ step'[t] = "delete" /\ box[s] # "absent"
  PROVE  Kept
<1>1. \A z \in Sandbox : /\ t \in Forgotten(z)' <=> t \in Forgotten(z)
                         /\ t \notin Maker(z) /\ t \notin Maker(z)'
                         /\ t \notin Starter(z) /\ t \notin Starter(z)'
  BY DEF Forgotten, Maker, Starter, Users
<1>2. forgottenBar' = forgottenBar /\ creatorBar' = creatorBar
  BY <1>1, ForgottenSame, CreatorSame
<1>3. t \in Remover(s)' /\ t \notin Seeker(s)'
  BY DEF Remover, Seeker, Users, Holding
<1>4. /\ soughtBar' \in {soughtBar, soughtBar \ {s}}
      /\ t \notin Seeker(s) => soughtBar' = soughtBar
      /\ doomedBar' = doomedBar \cup {s}
  BY <1>3, RemovalFound
<1>5. CASE step[t] = "get" /\ box[s] \in {"created", "exited"}
  <2>1. t \in Forgotten(s) /\ t \notin Seeker(s)
    BY <1>5 DEF Forgotten, Seeker, Users
  <2>2. forgottenBar[s] > 0
    <3>1. Cardinality(Forgotten(s)) # 0
      BY <2>1, FS_EmptySet, ForgottenFinite
    <3>2. QED
      BY <3>1, ForgottenFinite DEF forgottenBar, TypeOK
  <2>3. Promised!GhostLook(s)
    BY <1>2, <1>4, <1>5, <2>1, <2>2 DEF Promised!GhostLook
  <2>4. QED
    BY <2>3 DEF Kept, Promised!RuntimeNext
<1>6. CASE step[t] = "find" /\ box[s] # "absent"
  <2>1. s \in soughtBar
    BY <1>6 DEF Seeker, soughtBar, Users
  <2>2. Promised!GhostFind(s)
    BY <1>2, <1>4, <1>6, <2>1 DEF Promised!GhostFind
  <2>3. QED
    BY <2>2 DEF Kept, Promised!RuntimeNext
<1>7. QED
  BY <1>5, <1>6

\* The container is created, and will be started by t, or will not.
LEMMA Creates ==
  ASSUME TypeOK, HandlesInv, NEW t \in Thread, Only(t), NEW s \in Sandbox,
         of' = of, waited' = waited, of[t] = s, step[t] = "create", box[s] = "absent",
         BoxBecomes(s, "created"), holds' = holds \cup {t}, UNCHANGED <<lost, overtaken>>,
         step'[t] \in {"boot", "raised"}
  PROVE  Kept
<1>1. OthersHold(t) /\ lateBoot' = lateBoot /\ lateCreate' = lateCreate /\ lateDelete' = lateDelete
  BY DEF OthersHold, BoxBecomes
<1>2. /\ creatorBar[s] = "none"
      /\ creatorBar' = [creatorBar EXCEPT ![s] = IF t \in Maker(s)' THEN "handler"
                                                ELSE IF t \in Starter(s)' THEN "thread"
                                                ELSE "none"]
  BY <1>1, TitleMade
<1>3. box' = [box EXCEPT ![s] = "created"]
  BY DEF BoxBecomes
<1>4. \A z \in Sandbox : t \notin Forgotten(z)'
  BY DEF Forgotten
<1>s. soughtBar' = soughtBar /\ doomedBar' = doomedBar
  BY <1>1, RemovalsSame DEF Seeker, Remover
<1>5. CASE t \in waited
  <2>1. t \in Maker(s)'
    BY <1>5 DEF Maker, Users, Holding
  <2>2. forgottenBar' = forgottenBar
    BY <1>1, <1>4, <1>5, ForgottenSame DEF Forgotten
  <2>3. Promised!Create(s)
    BY <1>1, <1>2, <1>3, <1>s, <2>1, <2>2 DEF Promised!Create
  <2>4. QED
    BY <2>3 DEF Kept, Promised!RuntimeNext
<1>6. CASE t \notin waited
  <2>1. t \in Forgotten(s)
    BY <1>6 DEF Forgotten, Users
  <2>2. forgottenBar[s] > 0 /\ forgottenBar' = [forgottenBar EXCEPT ![s] = @ - 1]
    BY <1>1, <1>4, <2>1, ForgottenLess
  <2>3. t \notin Maker(s)'
    BY <1>6 DEF Maker
  <2>4. \E c \in {"thread", "none"} : creatorBar' = [creatorBar EXCEPT ![s] = c]
    BY <1>2, <2>3
  <2>5. Promised!GhostCreate(s)
    BY <1>1, <1>3, <1>s, <2>2, <2>4 DEF Promised!GhostCreate
  <2>6. QED
    BY <2>5 DEF Kept, Promised!RuntimeNext
<1>7. QED
  BY <1>5, <1>6

\* The container is started by its creator.
LEMMA Boots ==
  ASSUME TypeOK, HandlesInv, NEW t \in Thread, Only(t), OthersHold(t), NEW s \in Sandbox,
         of' = of, waited' = waited, of[t] = s, step[t] = "boot", Holding(t),
         BoxBecomes(s, "running"), UNCHANGED <<lost, overtaken>>,
         step'[t] \in {"inspect", "raised"}, step'[t] = "raised" => t \notin holds'
  PROVE  Kept
<1>1. lateBoot' = lateBoot /\ lateCreate' = lateCreate /\ lateDelete' = lateDelete
  BY DEF BoxBecomes
<1>2. Titled(t)
  BY DEF Titled, Holding
<1>3. \A z \in Sandbox : t \notin Maker(z)' /\ t \notin Starter(z)'
  BY DEF Maker, Starter, Holding
<1>4. /\ creatorBar[s] = IF t \in waited THEN "handler" ELSE "thread"
      /\ creatorBar' = [creatorBar EXCEPT ![s] = "none"]
  BY <1>1, <1>2, <1>3, TitleLost
<1>5. forgottenBar' = forgottenBar
  BY <1>1, ForgottenSame DEF Forgotten
<1>6. box' = [box EXCEPT ![s] = "running"]
  BY DEF BoxBecomes
<1>7. soughtBar' = soughtBar /\ doomedBar' = doomedBar
  BY <1>1, RemovalsSame DEF Seeker, Remover
<1>8. Promised!Boot(s) \/ Promised!GhostBoot(s)
  BY <1>1, <1>4, <1>5, <1>6, <1>7 DEF Promised!Boot, Promised!Bootable, Promised!GhostBoot
<1>9. QED
  BY <1>8 DEF Kept, Promised!RuntimeNext

\* The container is removed by the request of a thread, waited for or not.
LEMMA Removes ==
  ASSUME TypeOK, HandlesInv, NEW t \in Thread, Only(t), NEW s \in Sandbox,
         of' = of, waited' = waited, of[t] = s, Holding(t), RemovedBy(t, s), lost' = lost,
         \/ step[t] = "drop" /\ step'[t] \in {"create", "raised"}
         \/ step[t] = "delete" /\ step'[t] \in {"removed", "raised"}
  PROVE  Kept
<1> USE DEF RemovedBy
<1>1. creatorBar' = [creatorBar EXCEPT ![s] = "none"]
  BY TitlesGone DEF Only
<1>2. soughtBar' = soughtBar /\ doomedBar' = doomedBar \ {s}
  <2>1. \A u \in Thread :
          /\ u \in waited' <=> u \in waited
          /\ step'[u] # step[u] => of[u] = s /\ step[u] # "find" /\ step'[u] # "find"
    BY DEF Only
  <2>2. QED
    BY <2>1, RemovalsGone
<1>3. Promised!Gone(s) /\ lateCreate' = lateCreate
  BY <1>1, <1>2 DEF Promised!Gone, Removal
<1>4. CASE t \in waited
  <2>1. forgottenBar' = forgottenBar
    BY <1>3, <1>4, ForgottenSame DEF Forgotten
  <2>2. Promised!Remove(s)
    BY <1>3, <1>4, <2>1 DEF Promised!Remove
  <2>3. QED
    BY <2>2 DEF Kept, Promised!RuntimeNext
<1>5. CASE t \notin waited
  <2>1. s \in doomedBar
    BY <1>5 DEF Remover, Users, Holding, doomedBar
  <2>2. CASE step[t] = "drop" /\ step'[t] = "raised"
    <3>1. t \in Forgotten(s) /\ \A z \in Sandbox : t \notin Forgotten(z)'
      BY <1>5, <2>2 DEF Forgotten, Users
    <3>2. QED
      BY <1>3, <3>1, ForgottenLess, <1>5, <2>1 DEF Promised!GhostRemove, Kept, Promised!RuntimeNext
  <2>3. CASE ~(step[t] = "drop" /\ step'[t] = "raised")
    <3>1. forgottenBar' = forgottenBar
      BY <1>3, <2>3, ForgottenSame DEF Forgotten, Users
    <3>2. Promised!GhostRemove(s)
      BY <1>3, <1>5, <2>1, <3>1 DEF Promised!GhostRemove
    <3>3. QED
      BY <3>2 DEF Kept, Promised!RuntimeNext
  <2>4. QED
    BY <2>2, <2>3
<1>6. QED
  BY <1>4, <1>5

\* A request is on its way whose thread gave up on it, or died: the daemon will
\* carry it out for nobody.
LEMMA KeptLate ==
  ASSUME TypeOK, HandlesInv, NEW t \in Thread, Only(t), OthersHold(t), StillInFlight(t),
         UNCHANGED <<box, lost, overtaken>>, Harmless(t)'
  PROVE  Kept
<1> DEFINE s == of[t]
<1>1. \A z \in Sandbox : /\ t \notin Forgotten(z)' /\ t \notin Maker(z)' /\ t \notin Starter(z)'
                         /\ t \notin Seeker(z)' /\ t \notin Remover(z)'
  BY DEF Harmless
<1>2. s \in Sandbox
  BY FlightTypes
<1>3. \A z \in Sandbox : t \notin Seeker(z)
  BY DEF Seeker, StillInFlight
<1>s. soughtBar' = soughtBar
  BY <1>1, <1>3, RemovalOthers DEF soughtBar
<1>4. CASE /\ step[t] \in {"drop", "delete"} /\ Holding(t)
           /\ lateDelete' = lateDelete \cup {s} /\ UNCHANGED <<lateCreate, lateBoot>>
  <2>1. \A z \in Sandbox : t \notin Maker(z) /\ t \notin Starter(z)
    BY <1>4 DEF Maker, Starter
  <2>2. creatorBar' = creatorBar
    BY <1>1, <1>4, <2>1, CreatorSame
  <2>3. doomedBar' = doomedBar \cup {s}
    BY <1>1, <1>2, <1>4, RemovalsLess
  <2>4. box[s] # "absent"
    BY <1>4 DEF HandlesInv, Holding
  <2>5. CASE t \in waited \/ step[t] = "delete"
    <3>1. forgottenBar' = forgottenBar
      BY <1>1, <1>4, <2>5, ForgottenSame DEF Forgotten
    <3>2. Promised!DeleteRaises(s)
      BY <1>4, <1>s, <2>2, <2>3, <2>4, <3>1 DEF Promised!DeleteRaises
    <3>3. QED
      BY <1>2, <3>2 DEF Kept, Promised!RuntimeNext, Promised!RemoveRaises
  <2>6. CASE t \notin waited /\ step[t] = "drop"
    <3>1. t \in Forgotten(s) /\ s \in doomedBar
      BY <1>2, <1>4, <2>6 DEF Forgotten, Remover, Users, doomedBar
    <3>2. forgottenBar[s] > 0 /\ forgottenBar' = [forgottenBar EXCEPT ![s] = @ - 1]
      BY <1>1, <1>2, <1>4, <3>1, ForgottenLess
    <3>3. doomedBar' = doomedBar
      BY <2>3, <3>1
    <3>4. Promised!GhostEnds(s)
      BY <1>s, <2>2, <3>2, <3>3 DEF Promised!GhostEnds
    <3>5. QED
      BY <1>2, <3>4 DEF Kept, Promised!RuntimeNext
  <2>7. QED
    BY <1>4, <2>5, <2>6
<1>5. CASE /\ step[t] = "create" /\ lateCreate' = [lateCreate EXCEPT ![s] = @ + 1]
           /\ UNCHANGED <<lateDelete, lateBoot>>
  <2>1. \A z \in Sandbox : t \notin Maker(z) /\ t \notin Starter(z) /\ t \notin Remover(z)
    BY <1>5 DEF Maker, Starter, Remover
  <2>2. creatorBar' = creatorBar /\ doomedBar' = doomedBar
    BY <1>1, <1>3, <1>5, <2>1, CreatorSame, RemovalsSame
  <2>3. CASE t \in waited
    <3>1. \A z \in Sandbox : t \notin Forgotten(z)
      BY <2>3 DEF Forgotten
    <3>2. \A z \in Sandbox : Forgotten(z)' = Forgotten(z)
      BY <1>1, <3>1, ForgottenOthers
    <3>3. forgottenBar' = [forgottenBar EXCEPT ![s] = @ + 1]
      BY <1>2, <1>5, <3>2, ForgottenLate
    <3>4. Promised!AbandonLaunch(s)
      BY <1>s, <2>2, <3>3 DEF Promised!AbandonLaunch
    <3>5. QED
      BY <1>2, <3>4 DEF Kept, Promised!RuntimeNext
  <2>4. CASE t \notin waited
    <3>1. t \in Forgotten(s)
      BY <1>5, <2>4 DEF Forgotten, Users
    <3>2. forgottenBar' = forgottenBar
      BY <1>1, <1>2, <1>5, <3>1, ForgottenSwapped
    <3>3. QED
      BY <1>s, <2>2, <3>2 DEF Kept, Promised!runtimeVars
  <2>5. QED
    BY <2>3, <2>4
<1>6. CASE /\ step[t] = "boot" /\ Holding(t)
           /\ lateBoot' = lateBoot \cup {s} /\ UNCHANGED <<lateCreate, lateDelete>>
  <2>1. Titled(t)
    BY <1>6 DEF Titled, Holding
  <2>2. /\ creatorBar[s] = IF t \in waited THEN "handler" ELSE "thread"
        /\ creatorBar' = [creatorBar EXCEPT ![s] = "thread"]
    BY <1>1, <1>2, <1>6, <2>1, TitlePassed
  <2>3. \A z \in Sandbox : t \notin Forgotten(z) /\ t \notin Remover(z)
    BY <1>6 DEF Forgotten, Remover
  <2>4. forgottenBar' = forgottenBar /\ doomedBar' = doomedBar
    BY <1>1, <1>3, <1>6, <2>3, ForgottenSame, RemovalsSame
  <2>5. Promised!AbandonBoot(s) \/ creatorBar' = creatorBar
    BY <1>2, <1>s, <1>6, <2>2, <2>4
       DEF Promised!AbandonBoot, Promised!Bootable, creatorBar
  <2>6. QED
    BY <1>2, <1>s, <1>6, <2>4, <2>5 DEF Kept, Promised!RuntimeNext, Promised!runtimeVars
<1>7. QED
  BY <1>4, <1>5, <1>6 DEF StillInFlight

LEMMA KeptByCall ==
  ASSUME TypeOK, HandlesInv, NEW t \in Thread, NEW s \in Sandbox \cup {NoSandbox},
         NEW first \in {"get", "find", "findImage"},
         \/ Begins(t, s, first)
         \/ CallEnds(t) \/ ThreadDies(t)
  PROVE  Kept
<1>1. CASE Begins(t, s, first)
  <2>1. Only(t) /\ OthersHold(t) /\ t \notin holds' /\ t \in waited' /\ step'[t] = first
    BY <1>1 DEF Begins, Only, OthersHold, HandlesInv, TypeOK
  <2>2. Harmless(t)'
    BY <2>1 DEF Harmless, Forgotten, Maker, Starter, Seeker, Remover
  <2>3. QED
    BY <1>1, <2>1, <2>2, EndsQuietly DEF Begins
<1>2. CASE CallEnds(t) \/ ThreadDies(t)
  <2>1. Only(t) /\ OthersHold(t) /\ step'[t] = "idle" /\ UNCHANGED <<box, lost, overtaken>>
    BY <1>2 DEF CallEnds, ThreadDies, Only, OthersHold, TypeOK
  <2>2. Harmless(t)'
    BY <2>1 DEF Harmless, Forgotten, Maker, Starter, Seeker, Remover
  <2>3. CASE UNCHANGED <<lateCreate, lateBoot, lateDelete>>
    BY <2>1, <2>2, <2>3, EndsQuietly
  <2>4. CASE StillInFlight(t)
    BY <2>1, <2>2, <2>4, KeptLate
  <2>5. QED
    BY <1>2, <2>3, <2>4 DEF CallEnds, ThreadDies
<1>3. QED
  BY <1>1, <1>2

\* The handler moves on, its thread does not.
LEMMA KeptByDeadline ==
  ASSUME TypeOK, HandlesInv, NEW t \in Thread, Deadline(t)
  PROVE  Kept
<1> DEFINE s == of[t]
<1>1. /\ Only(t) /\ OthersHold(t) /\ t \in waited /\ t \notin waited'
      /\ UNCHANGED <<box, lateCreate, lateBoot, lateDelete, lost, overtaken, step, of, holds>>
  BY DEF Deadline, boxVars, Only, OthersHold
<1>2. \A z \in Sandbox : /\ t \notin Forgotten(z) /\ t \notin Starter(z) /\ t \notin Maker(z)'
                         /\ t \notin Seeker(z) /\ t \notin Remover(z)
  BY <1>1 DEF Forgotten, Starter, Maker, Seeker, Remover
<1>3. CASE step[t] \in {"get", "drop", "create", "pull"}
  <2>1. s \in Sandbox
    BY <1>3, WorksForOne DEF LaunchStep
  <2>2. t \in Forgotten(s)'
    BY <1>1, <1>3, <2>1 DEF Forgotten, Users
  <2>3. forgottenBar' = [forgottenBar EXCEPT ![s] = @ + 1]
    BY <1>1, <1>2, <2>1, <2>2, ForgottenMore
  <2>4. \A z \in Sandbox : t \notin Maker(z) /\ t \notin Starter(z)' /\ t \notin Seeker(z)'
    BY <1>1, <1>3 DEF Maker, Starter, Seeker
  <2>5. creatorBar' = creatorBar
    BY <1>1, <1>2, <2>4, CreatorSame
  <2>6. CASE step[t] = "drop" /\ Holding(t)
    <3>1. t \in Remover(s)'
      BY <1>1, <2>1, <2>6 DEF Remover, Users, Holding
    <3>2. soughtBar' = soughtBar /\ doomedBar' = doomedBar \cup {s}
      BY <1>1, <1>2, <2>1, <2>4, <3>1, RemovalFound
    <3>3. box[s] # "absent"
      BY <2>6 DEF HandlesInv, Holding
    <3>4. Promised!AbandonClear(s)
      BY <1>1, <2>3, <2>5, <3>2, <3>3 DEF Promised!AbandonClear
    <3>5. QED
      BY <2>1, <3>4 DEF Kept, Promised!RuntimeNext
  <2>7. CASE ~(step[t] = "drop" /\ Holding(t))
    <3>1. \A z \in Sandbox : t \notin Remover(z)'
      BY <1>1, <1>3, <2>7 DEF Remover, Holding
    <3>2. soughtBar' = soughtBar /\ doomedBar' = doomedBar
      BY <1>1, <1>2, <2>4, <3>1, RemovalsSame
    <3>3. Promised!AbandonLaunch(s)
      BY <1>1, <2>3, <2>5, <3>2 DEF Promised!AbandonLaunch
    <3>4. QED
      BY <2>1, <3>3 DEF Kept, Promised!RuntimeNext
  <2>8. QED
    BY <2>6, <2>7
<1>4. CASE step[t] = "boot" /\ Holding(t)
  <2>1. s \in Sandbox /\ Titled(t)
    BY <1>4, WorksForOne DEF LaunchStep, Titled, Holding
  <2>2. /\ t \in Starter(s)'
        /\ \A z \in Sandbox : /\ t \notin Forgotten(z)' /\ t \notin Seeker(z)'
                             /\ t \notin Remover(z)' /\ (t \in Starter(z)' => z = s)
    BY <1>1, <1>4, <2>1 DEF Starter, Users, Holding, Forgotten, Seeker, Remover
  <2>3. /\ creatorBar[s] = "handler"
        /\ creatorBar' = [creatorBar EXCEPT ![s] = "thread"]
    BY <1>1, <1>2, <2>1, <2>2, TitlePassed
  <2>4. forgottenBar' = forgottenBar /\ soughtBar' = soughtBar /\ doomedBar' = doomedBar
    BY <1>1, <1>2, <2>2, ForgottenSame, RemovalsSame
  <2>5. Promised!AbandonBoot(s)
    BY <1>1, <2>3, <2>4 DEF Promised!AbandonBoot, Promised!Bootable
  <2>6. QED
    BY <2>1, <2>5 DEF Kept, Promised!RuntimeNext
<1>5. CASE step[t] = "find" \/ (step[t] = "delete" /\ Holding(t))
  <2>1. s \in Sandbox
    BY <1>5, WorksForOne
  <2>2. \A z \in Sandbox : /\ t \notin Forgotten(z)' /\ t \notin Starter(z)'
                           /\ t \notin Maker(z)
    BY <1>1, <1>5 DEF Forgotten, Starter, Maker
  <2>3. forgottenBar' = forgottenBar /\ creatorBar' = creatorBar
    BY <1>1, <1>2, <2>2, ForgottenSame, CreatorSame
  <2>4. CASE step[t] = "find"
    <3>1. \A z \in Sandbox : Remover(z)' = Remover(z)
      BY <1>1, <1>2, <2>4, RemovalOthers DEF Remover
    <3>2. doomedBar' = doomedBar
      BY <1>1, <3>1 DEF doomedBar
    <3>3. \A z \in Sandbox : Seeker(z)' = IF z = s THEN Seeker(z) \cup {t} ELSE Seeker(z)
      BY <1>1, <1>2, <2>4 DEF Seeker, Users, Only
    <3>4. soughtBar' = soughtBar \cup {s}
      BY <2>1, <3>3 DEF soughtBar
    <3>5. Promised!RemoveRaises(s)
      BY <1>1, <2>3, <3>2, <3>4 DEF Promised!RemoveRaises
    <3>6. QED
      BY <2>1, <3>5 DEF Kept, Promised!RuntimeNext
  <2>5. CASE step[t] = "delete" /\ Holding(t)
    <3>1. t \in Remover(s)' /\ t \notin Seeker(s)'
      BY <1>1, <2>1, <2>5 DEF Remover, Seeker, Users, Holding
    <3>2. soughtBar' = soughtBar /\ doomedBar' = doomedBar \cup {s}
      BY <1>1, <1>2, <2>1, <3>1, RemovalFound
    <3>3. box[s] # "absent"
      BY <2>5 DEF HandlesInv, Holding
    <3>4. Promised!DeleteRaises(s)
      BY <1>1, <2>3, <3>2, <3>3 DEF Promised!DeleteRaises
    <3>5. QED
      BY <2>1, <3>4 DEF Kept, Promised!RuntimeNext, Promised!RemoveRaises
  <2>6. QED
    BY <1>5, <2>4, <2>5
<1>6. CASE /\ step[t] \notin {"get", "drop", "create", "pull", "find"}
           /\ ~(step[t] \in {"boot", "delete"} /\ Holding(t))
  <2>1. Harmless(t)'
    BY <1>1, <1>2, <1>6 DEF Harmless, Forgotten, Starter, Seeker, Remover, Holding
  <2>2. QED
    BY <1>1, <2>1, EndsQuietly
<1>7. QED
  BY <1>3, <1>4, <1>5, <1>6

LEMMA KeptByProbe ==
  ASSUME TypeOK, HandlesInv, NEW t \in Thread, Probe(t)
  PROVE  Kept
<1>1. /\ Only(t) /\ OthersHold(t) /\ step[t] = "probe" /\ step'[t] \in {"returned", "raised"}
      /\ t \notin holds' /\ UNCHANGED <<box, lateCreate, lateBoot, lateDelete>>
  BY DEF Probe, GoesOn, boxVars, Only, OthersHold, HandlesInv, TypeOK
<1>2. \A z \in Sandbox : /\ t \notin Forgotten(z)' /\ t \notin Maker(z)' /\ t \notin Starter(z)'
                         /\ t \notin Forgotten(z) /\ t \notin Maker(z) /\ t \notin Starter(z)
                         /\ t \notin Seeker(z)' /\ t \notin Remover(z)'
                         /\ t \notin Seeker(z) /\ t \notin Remover(z)
  BY <1>1 DEF Forgotten, Maker, Starter, Seeker, Remover, Holding
<1>3. /\ forgottenBar' = forgottenBar /\ creatorBar' = creatorBar
      /\ soughtBar' = soughtBar /\ doomedBar' = doomedBar
  BY <1>1, <1>2, ForgottenSame, CreatorSame, RemovalsSame
<1>4. of[t] \in Sandbox
  BY <1>1, WorksForOne DEF LaunchStep
<1>5. Promised!Answers(of[t]) \/ UNCHANGED <<lost, overtaken>>
  BY <1>1, <1>3 DEF Probe, Promised!Answers
<1>6. QED
  BY <1>1, <1>3, <1>4, <1>5 DEF Kept, Promised!RuntimeNext, Promised!runtimeVars

LEMMA KeptByRequest ==
  ASSUME TypeOK, HandlesInv, NEW t \in Thread, Request(t) \/ Pull(t)
  PROVE  Kept
<1>0. Only(t) /\ of' = of /\ waited' = waited
  BY RequestIsOnes
<1> USE <1>0 DEF Untouched, boxVars, Takes, Raises, GoesOn
\* Requests that look, or did nothing.
<1>1. CASE /\ UNCHANGED <<box, lateBoot, lateDelete, lateCreate, lost, overtaken>>
           /\ OthersHold(t)
           /\ step'[t] \notin {"pull", "boot"}
           /\ step'[t] \in {"get", "drop", "create", "find", "delete"} => t \in waited
           /\ step'[t] = "raised" => t \notin holds'
  <2>1. Harmless(t)'
    BY <1>1 DEF Harmless, Forgotten, Maker, Starter, Seeker, Remover, Holding
  <2>2. QED
    BY <1>1, <2>1, EndsQuietly
<1>2. CASE Get(t) \/ Find(t)
  <2>1. of[t] \in Sandbox /\ OthersHold(t)
    BY <1>2, WorksForOne DEF Get, Find, LaunchStep, OthersHold
  <2>2. CASE t \in waited \/ step'[t] \in {"inspect", "removed"}
    BY <1>1, <1>2, <2>1, <2>2 DEF Get, Find, TypeOK
  <2>3. CASE step'[t] = "create" /\ holds' = holds
    BY <1>2, <2>3, StillCreating DEF Get, Find, TypeOK
  <2>4. CASE t \notin waited /\ step'[t] = "drop"
    BY <1>2, <2>1, <2>4, FindsLate DEF Get, Find, TypeOK
  <2>5. CASE t \notin waited /\ step'[t] = "delete"
    BY <1>2, <2>1, <2>5, FindsLate DEF Get, Find, TypeOK
  <2>6. QED
    BY <1>2, <2>2, <2>3, <2>4, <2>5 DEF Get, Find, TypeOK
<1>3. CASE Adopt(t) \/ Inspect(t) \/ FindImage(t) \/ Refused(t)
  BY <1>1, <1>3 DEF Adopt, Inspect, FindImage, Refused, OthersHold, TypeOK
<1>4. CASE Pull(t)
  <2>1. CASE step[t] = "pull"
    BY <1>4, <2>1, StillCreating DEF Pull, TypeOK
  <2>2. CASE step[t] = "pullImage"
    BY <1>1, <1>4, <2>2 DEF Pull, OthersHold, TypeOK
  <2>3. QED
    BY <1>4, <2>1, <2>2 DEF Pull
<1>5. CASE Create(t)
  <2>1. of[t] \in Sandbox
    BY <1>5, WorksForOne DEF Create, LaunchStep
  <2>2. CASE GoesOn(t, "pull") /\ UNCHANGED holds /\ Untouched
    BY <1>5, <2>2, StillCreating DEF Create, TypeOK
  <2>3. CASE /\ box[of[t]] = "absent" /\ BoxBecomes(of[t], "created")
             /\ GoesOn(t, "boot") /\ Takes(t) /\ UNCHANGED <<lost, overtaken>>
    BY <1>5, <2>1, <2>3, Creates DEF Create, TypeOK
  <2>4. CASE GoesOn(t, "adopt") /\ UNCHANGED holds /\ Untouched
    BY <1>1, <2>4 DEF OthersHold, TypeOK
  <2>5. QED
    BY <1>5, <2>2, <2>3, <2>4 DEF Create
<1>6. CASE Boot(t)
  <2>1. CASE Holding(t) /\ BoxBecomes(of[t], "running") /\ GoesOn(t, "inspect") /\ UNCHANGED holds
    <3>1. of[t] \in Sandbox /\ OthersHold(t) /\ step'[t] = "inspect"
      BY <1>6, <2>1, WorksForOne DEF Boot, LaunchStep, OthersHold, TypeOK
    <3>2. QED
      BY <1>6, <2>1, <3>1, Boots DEF Boot
  <2>2. CASE ~Holding(t) /\ Raises(t) /\ UNCHANGED <<boxVars, lateCreate>>
    BY <1>1, <1>6, <2>2 DEF Boot, OthersHold, TypeOK
  <2>3. QED
    BY <1>6, <2>1, <2>2 DEF Boot
<1>7. CASE Drop(t) \/ Delete(t)
  <2>1. of[t] \in Sandbox /\ lost' = lost
    BY <1>7, WorksForOne DEF Drop, Delete, LaunchStep
  <2>2. CASE Holding(t)
    BY <1>7, <2>1, <2>2, Removes DEF Drop, Delete, TypeOK
  <2>3. CASE ~Holding(t)
    BY <1>1, <1>7, <2>1, <2>3 DEF Drop, Delete, OthersHold, Holding, TypeOK
  <2>4. QED
    BY <2>2, <2>3
<1>8. CASE AnswerLost(t)
  <2>1. step'[t] = "raised" /\ lost' = lost
    BY <1>8 DEF AnswerLost, TypeOK
  <2>2. of[t] \in Sandbox
    BY <1>8, WorksForOne DEF AnswerLost, LaunchStep
  <2>3. CASE step[t] \in {"drop", "delete"} /\ Holding(t) /\ RemovedBy(t, of[t])
    BY <2>1, <2>2, <2>3, Removes
  <2>4. CASE /\ step[t] = "create" /\ box[of[t]] = "absent"
             /\ BoxBecomes(of[t], "created") /\ Takes(t) /\ UNCHANGED overtaken
    BY <2>1, <2>2, <2>4, Creates
  <2>5. CASE /\ step[t] = "boot" /\ Holding(t)
             /\ BoxBecomes(of[t], "running") /\ holds' = holds \ {t} /\ UNCHANGED overtaken
    <3>1. OthersHold(t) /\ t \notin holds'
      BY <2>5 DEF OthersHold
    <3>2. QED
      BY <2>1, <2>2, <2>5, <3>1, Boots
  <2>6. QED
    BY <1>8, <2>3, <2>4, <2>5 DEF AnswerLost
<1>9. CASE CarriedOutLate(t)
  <2>1. step'[t] = "raised" /\ t \notin holds' /\ OthersHold(t)
    BY <1>9 DEF CarriedOutLate, OthersHold, TypeOK
  <2>2. Harmless(t)'
    BY <2>1 DEF Harmless, Forgotten, Maker, Starter, Seeker, Remover, Holding
  <2>3. QED
    BY <1>9, <2>1, <2>2, KeptLate DEF CarriedOutLate
<1>10. QED
  BY <1>2, <1>3, <1>4, <1>5, <1>6, <1>7, <1>8, <1>9, KeptByProbe DEF Request

LEMMA KeptByDaemon ==
  ASSUME TypeOK, HandlesInv, NEW s \in Sandbox, DaemonStep(s)
  PROVE  Kept
<1>1. step' = step /\ of' = of /\ waited' = waited
  BY DEF DaemonStep
<1>2. \A z \in Sandbox : Forgotten(z)' = Forgotten(z)
  BY <1>1 DEF Forgotten, Users
<1>3. lateCreate' = lateCreate => forgottenBar' = forgottenBar
  BY <1>2 DEF forgottenBar
<1>4. holds' = holds => \A z \in Sandbox : Maker(z)' = Maker(z) /\ Starter(z)' = Starter(z)
  BY <1>1 DEF Maker, Starter, Users, Holding
<1>5. holds' = holds /\ lateBoot' = lateBoot => creatorBar' = creatorBar
  BY <1>4 DEF creatorBar
<1>s. holds' = holds /\ lateDelete' = lateDelete
        => soughtBar' = soughtBar /\ doomedBar' = doomedBar
  BY <1>1 DEF soughtBar, doomedBar, Seeker, Remover, Users, Holding
<1>6. CASE Removal(s) /\ holds' = holds \ Users(s)
  <2>1. creatorBar' = [creatorBar EXCEPT ![s] = "none"]
    BY <1>1, <1>6, TitlesGone
  <2>2. forgottenBar' = forgottenBar
    BY <1>3, <1>6 DEF Removal
  <2>3. soughtBar' = soughtBar /\ doomedBar' = doomedBar \ {s}
    BY <1>1, <1>6, RemovalsGone
  <2>4. Promised!Gone(s)
    BY <1>6, <2>1, <2>3 DEF Removal, Promised!Gone
  <2>5. \/ s \in lateDelete /\ overtaken' = overtaken \cup {s} /\ lost' = lost
        \/ box[s] # "absent" /\ overtaken' = overtaken /\ lost' = lost \cup {s}
    BY <1>6 DEF DaemonStep, Late, Outside, Removal, BoxBecomes, TypeOK, HandlesInv
  <2>6. s \in lateDelete => s \in doomedBar
    BY DEF doomedBar
  <2>7. Promised!GhostRemove(s) \/ Promised!ContainerVanishes(s)
    BY <2>2, <2>4, <2>5, <2>6 DEF Promised!GhostRemove, Promised!ContainerVanishes
  <2>8. QED
    BY <2>7 DEF Kept, Promised!RuntimeNext
<1>7. CASE /\ lateCreate[s] > 0
           /\ lateCreate' = [lateCreate EXCEPT ![s] = @ - 1]
           /\ box' = [box EXCEPT ![s] = IF @ = "absent" THEN "created" ELSE @]
           /\ UNCHANGED <<lateBoot, lateDelete, holds, lost, overtaken>>
  <2>1. forgottenBar[s] > 0 /\ forgottenBar' = [forgottenBar EXCEPT ![s] = @ - 1]
    <3>1. \A z \in Sandbox : Cardinality(Forgotten(z)) \in Nat /\ lateCreate[z] \in Nat
      BY ForgottenFinite DEF TypeOK
    <3>2. forgottenBar'[s] = forgottenBar[s] - 1 /\ forgottenBar[s] > 0
      BY <1>2, <1>7, <3>1 DEF forgottenBar, TypeOK
    <3>3. \A z \in Sandbox \ {s} : forgottenBar'[z] = forgottenBar[z]
      BY <1>2, <1>7 DEF forgottenBar, TypeOK
    <3>4. QED
      BY <3>2, <3>3 DEF forgottenBar
  <2>2. creatorBar' = creatorBar
    BY <1>5, <1>7
  <2>3. CASE box[s] = "absent"
    <3>1. \A u \in Maker(s) \cup Starter(s) : u \in holds /\ of[u] = s
      BY DEF Maker, Starter, Users, Holding
    <3>2. creatorBar[s] = "none"
      BY <2>3, <3>1 DEF creatorBar, HandlesInv
    <3>3. creatorBar' = [creatorBar EXCEPT ![s] = "none"]
      BY <2>2, <3>2 DEF creatorBar
    <3>4. box' = [box EXCEPT ![s] = "created"]
      BY <1>7, <2>3
    <3>5. Promised!GhostCreate(s)
      BY <1>s, <1>7, <2>1, <2>3, <3>3, <3>4 DEF Promised!GhostCreate
    <3>6. QED
      BY <3>5 DEF Kept, Promised!RuntimeNext
  <2>4. CASE box[s] # "absent"
    <3>1. box' = box
      BY <1>7, <2>4 DEF TypeOK
    <3>2. Promised!GhostCreate(s)
      BY <1>s, <1>7, <2>1, <2>2, <2>4, <3>1 DEF Promised!GhostCreate
    <3>3. QED
      BY <3>2 DEF Kept, Promised!RuntimeNext
  <2>5. QED
    BY <2>3, <2>4
<1>8. CASE /\ s \in lateBoot
           /\ box' = [box EXCEPT ![s] = "running"]
           /\ lateBoot' = lateBoot \ {s}
           /\ UNCHANGED <<lateCreate, lateDelete, holds, lost, overtaken>>
  <2>1. creatorBar[s] = "thread" /\ Maker(s) = {} /\ Starter(s) = {}
    BY <1>8, CreatorShown
  <2>2. \A z \in Sandbox \ {s} : z \in lateBoot' <=> z \in lateBoot
    BY <1>8
  <2>3. creatorBar' = [creatorBar EXCEPT ![s] = "none"]
    BY <1>4, <1>8, <2>1, <2>2 DEF creatorBar
  <2>4. Promised!GhostBoot(s)
    BY <1>3, <1>s, <1>8, <2>1, <2>3 DEF Promised!GhostBoot
  <2>5. QED
    BY <2>4 DEF Kept, Promised!RuntimeNext
<1>9. CASE box[s] = "running" /\ BoxBecomes(s, "exited") /\ holds' = holds /\ lost' = lost \cup {s}
           /\ overtaken' = overtaken
  <2>1. Promised!ContainerExits(s)
    BY <1>3, <1>5, <1>s, <1>9 DEF BoxBecomes, Promised!ContainerExits
  <2>2. QED
    BY <2>1 DEF Kept, Promised!RuntimeNext
<1>10. QED
  BY <1>6, <1>7, <1>8, <1>9 DEF DaemonStep, Late, Outside

LEMMA PromiseStep == TypeOK /\ HandlesInv /\ [Next]_vars => [Promised!RuntimeNext]_(Promised!runtimeVars)
<1> SUFFICES ASSUME TypeOK, HandlesInv, [Next]_vars PROVE Kept
  BY DEF Kept
<1>1. ASSUME NEW t \in Thread, NEW s \in Sandbox, Launch(t, s) \/ RemoveCall(t, s)
      PROVE  Kept
  BY <1>1, KeptByCall DEF Launch, RemoveCall
<1>2. ASSUME NEW t \in Thread, Prepare(t) \/ CallEnds(t) \/ ThreadDies(t) PROVE Kept
  BY <1>2, KeptByCall DEF Prepare
<1>3. ASSUME NEW t \in Thread, Request(t) \/ Pull(t) PROVE Kept
  BY <1>3, KeptByRequest
<1>4. ASSUME NEW t \in Thread, Deadline(t) PROVE Kept
  BY <1>4, KeptByDeadline
<1>5. ASSUME NEW s \in Sandbox, DaemonStep(s) PROVE Kept
  BY <1>5, KeptByDaemon
<1>6. CASE UNCHANGED vars
  <2>1. \A s \in Sandbox :
          /\ Forgotten(s)' = Forgotten(s) /\ Maker(s)' = Maker(s) /\ Starter(s)' = Starter(s)
          /\ Seeker(s)' = Seeker(s) /\ Remover(s)' = Remover(s)
    BY <1>6 DEF vars, boxVars, Forgotten, Maker, Starter, Seeker, Remover, Users, Holding
  <2>2. /\ forgottenBar' = forgottenBar /\ creatorBar' = creatorBar
        /\ soughtBar' = soughtBar /\ doomedBar' = doomedBar
    BY <1>6, <2>1 DEF vars, boxVars, forgottenBar, creatorBar, soughtBar, doomedBar
  <2>3. QED
    BY <1>6, <2>2 DEF vars, boxVars, Kept, Promised!runtimeVars
<1>7. QED
  BY <1>1, <1>2, <1>3, <1>4, <1>5, <1>6 DEF Next

\* app/runtime.py, request by request, implements the single steps the
\* orchestrator is checked and proved against, at whichever request a thread is
\* given up on, dies or loses its answer.
THEOREM PromiseKept == Spec => KeepsItsPromise
BY DockerTypeInit, DockerTypeStep, HandlesInit, HandlesStep, PromiseInit, PromiseStep, PTL
   DEF Spec, KeepsItsPromise, Promised!RuntimeSpec
=============================================================================

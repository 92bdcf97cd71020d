---------------------------- MODULE AccessProofs ----------------------------
(***************************************************************************)
(* What holds of AccessRequestController for every set of requests,        *)
(* permissions and Clusters, and every number of crashes, faults and       *)
(* edits: the types with any number of provider processes, and with a      *)
(* single one that nothing is left behind in a k0s cluster and that what   *)
(* was granted is not lost without an edit.                                *)
(***************************************************************************)
EXTENDS AccessRequestController, TLAPS

USE DEF Present

----------------------------------------------------------------------------
(* Types of the operators the actions are built from. *)

\* The sets the types are made of.
LEMMA RestTypes ==
    /\ {} \in Lists
    /\ UnsetRequest \in Request
    /\ NoSecret \in Secret
    /\ IdleWorker \in Worker /\ IdleWorker.pc = "idle"
<1>1. {} \in Lists
  BY DEF Lists
<1>2. 0 \in Nat
  OBVIOUS
<1>3. UnsetRequest \in Request
  BY <1>1, <1>2, Zenon DEF UnsetRequest, Request, Lives, Operations
<1>4. NoSecret \in Secret
  BY <1>1, <1>2, Zenon DEF NoSecret, Secret
<1>5. IdleWorker \in Worker /\ IdleWorker.pc = "idle"
  BY <1>3, Zenon DEF IdleWorker, Worker, Labels
<1> QED
  BY <1>1, <1>3, <1>4, <1>5

\* What is stored of a request is a request.
LEMMA CollectedTypes ==
    ASSUME NEW q \in Request
    PROVE  Collected(q) \in Request
BY RestTypes, Zenon DEF Collected, Request, Lives

\* The fields of a request with one of them replaced.
LEMMA RequestOperators ==
    ASSUME NEW q \in Request
    PROVE  /\ \A v \in BOOLEAN : LET n == [q EXCEPT !.finalizer = v]
                                IN  /\ n \in Request /\ n.life = q.life /\ n.finalizer = v
                                    /\ n.perms = q.perms /\ n.generation = q.generation
                                    /\ n.admin = q.admin
           /\ \A v \in Operations : LET n == [q EXCEPT !.op = v]
                                   IN  /\ n \in Request /\ n.life = q.life
                                       /\ n.finalizer = q.finalizer
                                       /\ n.perms = q.perms /\ n.generation = q.generation
           /\ \A v \in {"no", "labelled", "ready"} :
                  LET n == [q EXCEPT !.assigned = v]
                  IN  /\ n \in Request /\ n.life = q.life /\ n.finalizer = q.finalizer
                      /\ n.perms = q.perms /\ n.generation = q.generation
           /\ \A v \in Lists : LET n == [q EXCEPT !.perms = v, !.generation = @ + 1]
                              IN  /\ n \in Request /\ n.life = q.life
                                  /\ n.finalizer = q.finalizer
                                  /\ n.generation = q.generation + 1
           /\ \A v \in Lives : LET n == [q EXCEPT !.life = v]
                              IN  /\ n \in Request /\ n.life = v /\ n.finalizer = q.finalizer
                                  /\ n.perms = q.perms /\ n.generation = q.generation
<1>1. \A v \in BOOLEAN : LET n == [q EXCEPT !.finalizer = v]
                        IN  /\ n \in Request /\ n.life = q.life /\ n.finalizer = v
                            /\ n.perms = q.perms /\ n.generation = q.generation
                            /\ n.admin = q.admin
  BY Zenon DEF Request
<1>2. \A v \in Operations : LET n == [q EXCEPT !.op = v]
                           IN  /\ n \in Request /\ n.life = q.life
                               /\ n.finalizer = q.finalizer
                               /\ n.perms = q.perms /\ n.generation = q.generation
  BY Zenon DEF Request
<1>3. \A v \in {"no", "labelled", "ready"} :
          LET n == [q EXCEPT !.assigned = v]
          IN  /\ n \in Request /\ n.life = q.life /\ n.finalizer = q.finalizer
              /\ n.perms = q.perms /\ n.generation = q.generation
  BY Zenon DEF Request
<1>4. \A v \in Lists : LET n == [q EXCEPT !.perms = v, !.generation = @ + 1]
                      IN  /\ n \in Request /\ n.life = q.life
                          /\ n.finalizer = q.finalizer
                          /\ n.generation = q.generation + 1
  <2>1. q.generation \in Nat
    BY Zenon DEF Request
  <2>2. q.generation + 1 \in Nat
    BY <2>1
  <2> QED
    BY <2>2, Zenon DEF Request
<1>5. \A v \in Lives : LET n == [q EXCEPT !.life = v]
                      IN  /\ n \in Request /\ n.life = v /\ n.finalizer = q.finalizer
                          /\ n.perms = q.perms /\ n.generation = q.generation
  BY Zenon DEF Request
<1> QED
  BY <1>1, <1>2, <1>3, <1>4, <1>5

\* The fields of a worker with some of them replaced.
LEMMA WorkerOperators ==
    ASSUME NEW w \in Worker
    PROVE  /\ \A l \in Labels : LET v == [w EXCEPT !.pc = l]
                                IN  /\ v \in Worker /\ v.pc = l
                                    /\ v.cur = w.cur /\ v.target = w.target
                                    /\ v.request = w.request /\ v.todo = w.todo
           /\ LET v == Fail(w)
              IN  v \in Worker /\ v.pc = "commit" /\ v.cur = w.cur /\ v.request = w.request
           /\ LET v == [w EXCEPT !.stale = TRUE]
              IN  /\ v \in Worker /\ v.pc = w.pc
                  /\ v.cur = w.cur /\ v.target = w.target
                  /\ v.request = w.request /\ v.todo = w.todo
           /\ LET v == [w EXCEPT !.wrote = TRUE]
              IN  /\ v \in Worker /\ v.pc = w.pc
                  /\ v.cur = w.cur /\ v.target = w.target
                  /\ v.request = w.request /\ v.todo = w.todo
<1>1. \A l \in Labels : LET v == [w EXCEPT !.pc = l]
                        IN  /\ v \in Worker /\ v.pc = l
                            /\ v.cur = w.cur /\ v.target = w.target
                            /\ v.request = w.request /\ v.todo = w.todo
  BY Zenon DEF Worker
<1>2. LET v == Fail(w)
      IN  v \in Worker /\ v.pc = "commit" /\ v.cur = w.cur /\ v.request = w.request
  BY Zenon DEF Worker, Fail, Labels
<1>3. LET v == [w EXCEPT !.stale = TRUE]
      IN  /\ v \in Worker /\ v.pc = w.pc
          /\ v.cur = w.cur /\ v.target = w.target
          /\ v.request = w.request /\ v.todo = w.todo
  BY Zenon DEF Worker
<1>4. LET v == [w EXCEPT !.wrote = TRUE]
      IN  /\ v \in Worker /\ v.pc = w.pc
          /\ v.cur = w.cur /\ v.target = w.target
          /\ v.request = w.request /\ v.todo = w.todo
  BY Zenon DEF Worker
<1> QED
  BY <1>1, <1>2, <1>3, <1>4

----------------------------------------------------------------------------
(* Type correctness *)

RequestsOK == requests \in [Requests -> Request]
SecretsOK == secrets \in [Requests -> Secret]
ContentsOK == contents \in [Clusters -> [Requests -> SUBSET Items]]
QueueOK == queue \in [Procs -> SUBSET Requests]
TimersOK == timers \in [Procs -> SUBSET Requests]
WorkersOK == worker \in [Procs -> Worker] /\ \A p \in Procs : Sound(worker[p])
BudgetOK == faults \in Nat /\ edits \in Nat

TypeParts ==
    /\ LifecycleTypeOK /\ RequestsOK /\ SecretsOK /\ ContentsOK
    /\ QueueOK /\ TimersOK /\ WorkersOK /\ BudgetOK

\* Type correctness by variable, before and after a step.
LEMMA TypeOKParts == (TypeOK <=> TypeParts) /\ (TypeOK' <=> TypeParts')
<1>1. TypeOK <=> TypeParts
  BY DEF TypeParts, TypeOK, RequestsOK, SecretsOK, ContentsOK, QueueOK, TimersOK, WorkersOK,
         BudgetOK
<1>2. TypeOK' <=> TypeParts'
  BY DEF TypeParts, TypeOK, RequestsOK, SecretsOK, ContentsOK, QueueOK, TimersOK, WorkersOK,
         BudgetOK
<1> QED
  BY <1>1, <1>2

\* A step counts at most one fault.
FaultStep == (\E kind : Fault(kind)) \/ UNCHANGED faults

\* The counts stay natural numbers.
LEMMA BudgetTypes == ASSUME BudgetOK, FaultStep, UNCHANGED edits PROVE BudgetOK'
BY DEF BudgetOK, FaultStep, Fault

\* What does not change keeps its type.
LEMMA SameTypes ==
    /\ LifecycleTypeOK /\ UNCHANGED lifecycleVars => LifecycleTypeOK'
    /\ RequestsOK /\ UNCHANGED requests => RequestsOK'
    /\ SecretsOK /\ UNCHANGED secrets => SecretsOK'
    /\ ContentsOK /\ UNCHANGED contents => ContentsOK'
    /\ QueueOK /\ UNCHANGED queue => QueueOK'
    /\ TimersOK /\ UNCHANGED timers => TimersOK'
    /\ WorkersOK /\ UNCHANGED worker => WorkersOK'
    /\ BudgetOK /\ UNCHANGED <<faults, edits>> => BudgetOK'
BY DEF LifecycleTypeOK, RequestsOK, SecretsOK, ContentsOK, QueueOK, TimersOK, WorkersOK,
       BudgetOK, lifecycleVars

\* A step that replaces one worker keeps the workers' types.
LEMMA StepTypes ==
    ASSUME WorkersOK, NEW p \in Procs, NEW w, Sound(w), Step(p, w)
    PROVE  WorkersOK'
BY DEF WorkersOK, Sound, Step

\* A write leaves requests, queues and workers of their types.
LEMMA WriteTypes ==
    ASSUME RequestsOK, QueueOK, WorkersOK, NEW r \in Requests, NEW q \in Request,
           Stored(r, q),
           \/ worker' = Overtaken(r)
           \/ \E p \in Procs, w \in Worker :
                  Sound(w) /\ worker' = [Overtaken(r) EXCEPT ![p] = w]
    PROVE  RequestsOK' /\ QueueOK' /\ WorkersOK'
<1>1. RequestsOK'
  BY CollectedTypes DEF RequestsOK, Stored
<1>2. QueueOK'
  BY DEF QueueOK, Stored, Queued
<1>3. \A p \in Procs : Sound([worker[p] EXCEPT !.stale = TRUE])
  BY WorkerOperators DEF WorkersOK, Sound
<1>4. Overtaken(r) \in [Procs -> Worker] /\ \A p \in Procs : Sound(Overtaken(r)[p])
  BY <1>3 DEF WorkersOK, Overtaken, Sound
<1>5. WorkersOK'
  BY <1>4 DEF WorkersOK
<1> QED
  BY <1>1, <1>2, <1>5

\* client.Update writes one request and ends in a worker of the right type.
LEMMA UpdateTypes ==
    ASSUME RequestsOK, QueueOK, WorkersOK, faults \in Nat,
           NEW p \in Procs, worker[p].pc # "idle",
           NEW q \in Request, NEW w, Sound(w), w.pc # "idle",
           Update(p, q, w)
    PROVE  RequestsOK' /\ QueueOK' /\ WorkersOK' /\ faults' \in Nat
<1> DEFINE me == worker[p]
           accepted == [w EXCEPT !.wrote = TRUE]
           lost == [Fail(me) EXCEPT !.stale = TRUE]
<1>1. me \in Worker /\ me.cur \in Requests
  BY DEF WorkersOK, Sound
<1>2. Sound(Fail(me))
  BY <1>1, WorkerOperators DEF Sound, ClusterSteps, GrantSteps
<1>3. Sound(accepted)
  BY WorkerOperators DEF Sound
<1>4. Sound(lost)
  <2>1. Fail(me) \in Worker
    BY <1>2 DEF Sound
  <2> QED
    BY <1>2, <2>1, WorkerOperators DEF Sound
<1>5. faults' \in Nat
  BY DEF Update, Fault
<1>6. \/ Write(p, me.cur, q, accepted)
      \/ Write(p, me.cur, q, lost)
      \/ Step(p, Fail(me)) /\ UNCHANGED <<requests, queue>>
  BY Zenon DEF Update
<1> HIDE DEF me, accepted, lost
<1>7. CASE \E v \in Worker : Sound(v) /\ Write(p, me.cur, q, v)
  BY <1>1, <1>5, <1>7, WriteTypes DEF Write
<1>8. CASE Step(p, Fail(me)) /\ UNCHANGED <<requests, queue>>
  BY <1>2, <1>5, <1>8, StepTypes DEF RequestsOK, QueueOK
<1> QED
  BY <1>3, <1>4, <1>6, <1>7, <1>8 DEF Sound

\* A call to a k0s cluster writes what it holds for one request.
LEMMA CallTypes ==
    ASSUME ContentsOK, WorkersOK, faults \in Nat,
           NEW p \in Procs, worker[p].pc # "idle",
           NEW items \in SUBSET Items, NEW w, Sound(w),
           Call(p, items, w)
    PROVE  ContentsOK' /\ WorkersOK' /\ faults' \in Nat
<1> DEFINE me == worker[p]
<1>1. me \in Worker /\ me.cur \in Requests
  BY DEF WorkersOK, Sound
<1>2. Sound(Fail(me))
  BY <1>1, WorkerOperators DEF Sound, ClusterSteps, GrantSteps
<1>3. WorkersOK'
  BY <1>2, StepTypes DEF Call
<1>4. [contents EXCEPT ![me.target][me.cur] = items] \in [Clusters -> [Requests -> SUBSET Items]]
  BY <1>1 DEF ContentsOK
<1>5. ContentsOK'
  BY <1>4, Zenon DEF Call, ContentsOK
<1>6. faults' \in Nat
  BY DEF Call, Fault
<1> QED
  BY <1>3, <1>5, <1>6

\* A worker in a pass, and how a pass can end early.
LEMMA InPass ==
    ASSUME TypeOK, NEW p \in Procs, worker[p].pc # "idle"
    PROVE  /\ worker[p] \in Worker /\ worker[p].cur \in Requests
           /\ worker[p].request \in Request
           /\ worker[p].pc \in ClusterSteps => worker[p].target \in Clusters
           /\ requests[worker[p].cur] \in Request
           /\ Sound(Fail(worker[p])) /\ Sound(IdleWorker)
<1>1. worker[p] \in Worker /\ worker[p].cur \in Requests
  BY DEF TypeOK, Sound
<1>2. worker[p].pc \in ClusterSteps => worker[p].target \in Clusters
  BY DEF TypeOK, Sound
<1>3. worker[p].request \in Request
  BY <1>1, Zenon DEF Worker
<1>4. requests[worker[p].cur] \in Request
  BY <1>1 DEF TypeOK
<1>5. Sound(Fail(worker[p])) /\ Sound(IdleWorker)
  BY <1>1, WorkerOperators, RestTypes DEF Sound, ClusterSteps, GrantSteps
<1> QED
  BY <1>1, <1>2, <1>3, <1>4, <1>5

\* Steps that only move a worker on.
LEMMA MoveTypes ==
    ASSUME TypeOK, NEW p \in Procs,
           \/ Responsible(p) \/ GetCluster(p) \/ TokenStillValid(p)
           \/ TargetClient(p) \/ ClusterExists(p)
    PROVE  TypeOK'
<1> DEFINE me == worker[p]
           found(c, l) == [me EXCEPT !.target = c, !.pc = l]
           valid == [me EXCEPT !.pc = "commit", !.renew = TRUE]
<1>1. /\ UNCHANGED <<requests, secrets, contents, queue, timers, edits, lifecycleVars>>
      /\ me.pc \in {"responsible", "cluster", "valid", "target", "exists"}
  BY DEF Responsible, GetCluster, TokenStillValid, TargetClient, ClusterExists, At
<1>2. /\ me \in Worker /\ me.cur \in Requests
      /\ me.pc \in ClusterSteps => me.target \in Clusters
      /\ Sound(Fail(me)) /\ Sound(IdleWorker)
  BY <1>1, InPass
<1>3. \A l \in Labels : l \notin ClusterSteps \/ me.pc \in ClusterSteps
          => Sound([me EXCEPT !.pc = l])
  BY <1>2, WorkerOperators DEF Sound
<1>4. \A c \in Clusters, l \in Labels : Sound(found(c, l))
  <2>1. \A c \in Clusters, l \in Labels :
            found(c, l) \in Worker /\ found(c, l).cur = me.cur /\ found(c, l).target = c
    BY <1>2, Zenon DEF Worker
  <2> QED
    BY <1>2, <2>1 DEF Sound
<1>5. Sound(valid)
  <2>1. valid \in Worker /\ valid.cur = me.cur /\ valid.pc = "commit"
    BY <1>2, Zenon DEF Worker, Labels
  <2> QED
    BY <1>2, <2>1 DEF Sound, ClusterSteps, GrantSteps
<1> HIDE DEF found, valid
<1>6. BudgetOK'
  <2>1. FaultStep
    BY DEF FaultStep, Responsible, GetCluster, TokenStillValid, TargetClient, ClusterExists
  <2> QED
    BY <1>1, <2>1, TypeOKParts, BudgetTypes DEF TypeParts
<1>7. \E w : Sound(w) /\ Step(p, w)
  <2>1. CASE Responsible(p)
    BY <1>2, <1>3, <2>1 DEF Responsible, Labels, ClusterSteps, GrantSteps
  <2>2. CASE GetCluster(p)
    <3>1. \/ \E c \in Clusters, l \in Labels : Step(p, found(c, l))
          \/ Step(p, Fail(me))
      BY <2>2 DEF GetCluster, Granting, Labels, found
    <3> QED
      BY <1>2, <1>4, <3>1
  <2>3. CASE TokenStillValid(p)
    <3>1. Step(p, valid) \/ Step(p, [me EXCEPT !.pc = "target"])
      BY <2>3, Zenon DEF TokenStillValid, valid
    <3> QED
      BY <1>3, <1>5, <2>3, <3>1 DEF TokenStillValid, At, Labels, ClusterSteps, GrantSteps
  <2>4. CASE TargetClient(p)
    BY <1>2, <1>3, <2>4 DEF TargetClient, At, Labels, ClusterSteps, GrantSteps
  <2>5. CASE ClusterExists(p)
    BY <1>2, <1>3, <2>5 DEF ClusterExists, At, Labels, ClusterSteps, GrantSteps
  <2> QED
    BY <2>1, <2>2, <2>3, <2>4, <2>5
<1>8. WorkersOK'
  BY <1>7, StepTypes, TypeOKParts DEF TypeParts
<1> QED
  BY <1>1, <1>6, <1>8, TypeOKParts, SameTypes DEF TypeParts

\* Steps that write the request.
LEMMA WriteStepTypes ==
    ASSUME TypeOK, NEW p \in Procs,
           \/ RemoveOperation(p) \/ AddFinalizer(p) \/ RemoveFinalizer(p) \/ UpdateStatus(p)
    PROVE  TypeOK'
<1> DEFINE me == worker[p]
           r == me.cur
<1>1. /\ UNCHANGED <<secrets, contents, edits, lifecycleVars>>
      /\ me.pc \in {"operation", "addFinalizer", "removeFinalizer", "commit"}
  BY DEF RemoveOperation, AddFinalizer, RemoveFinalizer, UpdateStatus, At
<1>2. /\ me \in Worker /\ r \in Requests /\ requests[r] \in Request
      /\ me.request \in Request
      /\ me.pc \in ClusterSteps => me.target \in Clusters
      /\ Sound(Fail(me)) /\ Sound(IdleWorker)
  BY <1>1, InPass
<1>3. RequestsOK /\ QueueOK /\ WorkersOK /\ TimersOK /\ BudgetOK
  BY TypeOKParts DEF TypeParts
<1>4. /\ Write(p, r, [requests[r] EXCEPT !.op = ""], IdleWorker) => RequestsOK' /\ QueueOK' /\ WorkersOK'
      /\ \A q \in Request : Write(p, r, q, IdleWorker) => RequestsOK' /\ QueueOK' /\ WorkersOK'
  <2>1. [requests[r] EXCEPT !.op = ""] \in Request
    BY <1>2, RequestOperators DEF Operations
  <2> QED
    BY <1>2, <1>3, <2>1, WriteTypes, RestTypes DEF Write
<1>5. Abort(p) /\ UNCHANGED requests => RequestsOK' /\ QueueOK' /\ WorkersOK'
  <2> SUFFICES ASSUME Abort(p), UNCHANGED requests PROVE RequestsOK' /\ QueueOK' /\ WorkersOK'
    OBVIOUS
  <2>1. WorkersOK'
    BY <1>2, <1>3, StepTypes DEF Abort
  <2> QED
    BY <1>2, <1>3, <2>1 DEF Abort, RequestsOK, QueueOK
<1>6. BudgetOK'
  <2>1. FaultStep
    BY DEF FaultStep, RemoveOperation, UpdateStatus, AddFinalizer, RemoveFinalizer, Update
  <2> QED
    BY <1>1, <1>3, <2>1, BudgetTypes
<1>7. TimersOK'
  BY <1>2, <1>3 DEF RemoveOperation, AddFinalizer, RemoveFinalizer, UpdateStatus, TimersOK
<1>8. RequestsOK' /\ QueueOK' /\ WorkersOK'
  <2>1. CASE RemoveOperation(p)
    <3> DEFINE q == [requests[r] EXCEPT !.op = ""]
               w == [me EXCEPT !.pc = "responsible", !.request = q, !.stale = FALSE]
    <3>1. q \in Request
      BY <1>2, RequestOperators DEF Operations
    <3>2. w \in Worker /\ w.cur = r /\ w.pc = "responsible"
      <4> HIDE DEF q
      <4> QED
        BY <1>2, <3>1, Zenon DEF Worker, Labels
    <3>3. Sound(w)
      BY <1>2, <3>2 DEF Sound, ClusterSteps, GrantSteps
    <3>4. \/ Write(p, r, q, w)
          \/ Write(p, r, q, IdleWorker)
          \/ Abort(p) /\ UNCHANGED requests
      BY <2>1, Zenon DEF RemoveOperation
    <3> HIDE DEF q, w
    <3>5. CASE Write(p, r, q, w)
      BY <1>2, <1>3, <3>1, <3>2, <3>3, <3>5, WriteTypes DEF Write
    <3> QED
      BY <1>4, <1>5, <3>1, <3>4, <3>5
  <2>2. CASE AddFinalizer(p)
    <3> DEFINE w == [me EXCEPT !.pc = Granting(me), !.request.finalizer = TRUE]
               q == [requests[r] EXCEPT !.finalizer = TRUE]
    <3>1. q \in Request
      BY <1>2, RequestOperators
    <3>2. Granting(me) \in {"target", "valid"}
      BY DEF Granting
    <3>3. /\ w \in Worker /\ w.cur = r /\ w.pc = Granting(me) /\ w.target = me.target
      <4>1. [me.request EXCEPT !.finalizer = TRUE] \in Request
        BY <1>2, RequestOperators
      <4>2. Granting(me) \in Labels
        BY <3>2 DEF Labels
      <4> QED
        BY <1>2, <4>1, <4>2, Zenon DEF Worker
    <3>4. Sound(w) /\ w.pc # "idle"
      BY <1>2, <2>2, <3>2, <3>3 DEF Sound, AddFinalizer, At, ClusterSteps, GrantSteps
    <3>5. Update(p, q, w)
      BY <2>2, Zenon DEF AddFinalizer
    <3> HIDE DEF q, w
    <3> QED
      BY <1>1, <1>3, <3>1, <3>4, <3>5, UpdateTypes DEF BudgetOK
  <2>3. CASE RemoveFinalizer(p)
    <3> DEFINE w == [me EXCEPT !.pc = "commit"]
               q == [requests[r] EXCEPT !.finalizer = FALSE]
    <3>1. q \in Request
      BY <1>2, RequestOperators
    <3>2. Sound(w) /\ w.pc # "idle"
      <4>1. w \in Worker /\ w.pc = "commit" /\ w.cur = r
        BY <1>2, WorkerOperators DEF Labels
      <4> HIDE DEF w
      <4> QED
        BY <1>2, <4>1 DEF Sound, ClusterSteps, GrantSteps
    <3>3. Update(p, q, w)
      BY <2>3, Zenon DEF RemoveFinalizer
    <3> HIDE DEF q, w
    <3> QED
      BY <1>1, <1>3, <3>1, <3>2, <3>3, UpdateTypes DEF BudgetOK
  <2>4. CASE UpdateStatus(p)
    <3> DEFINE ready == IF me.again THEN "False" ELSE "True"
               q == [requests[r] EXCEPT !.granted = @ \/ me.granted,
                                        !.ready = IF ready = me.request.ready THEN @ ELSE ready]
    <3>1. q \in Request
      BY <1>2, Zenon DEF Request, Worker
    <3>2. \/ Write(p, r, q, IdleWorker)
          \/ Abort(p) /\ UNCHANGED requests
          \/ /\ Step(p, IdleWorker) /\ UNCHANGED requests
             /\ queue' = [queue EXCEPT ![p] = @ \cup {r}] \/ queue' = queue
      <4> HIDE DEF q
      <4> QED
        BY <2>4 DEF UpdateStatus, q
    <3> HIDE DEF q
    <3>3. CASE /\ Step(p, IdleWorker) /\ UNCHANGED requests
               /\ queue' = [queue EXCEPT ![p] = @ \cup {r}] \/ queue' = queue
      <4>1. WorkersOK'
        BY <1>2, <1>3, <3>3, StepTypes
      <4> QED
        BY <1>2, <1>3, <3>3, <4>1 DEF RequestsOK, QueueOK
    <3> QED
      BY <1>4, <1>5, <3>1, <3>2, <3>3
  <2> QED
    BY <2>1, <2>2, <2>3, <2>4
<1> QED
  BY <1>1, <1>6, <1>7, <1>8, TypeOKParts, SameTypes DEF TypeParts

\* Steps that call the k0s cluster.
LEMMA CallStepTypes ==
    ASSUME TypeOK, NEW p \in Procs,
           \/ EnsureServiceAccount(p) \/ EnsurePermission(p) \/ CreateToken(p) \/ CleanUp(p)
    PROVE  TypeOK'
<1> DEFINE me == worker[p]
           done == [me EXCEPT !.pc = IF Deleting(me) THEN "removeFinalizer" ELSE "commit",
                              !.renew = ~Deleting(me)]
           started == [me EXCEPT !.pc = IF me.request.perms = {} THEN "token" ELSE "permissions",
                                 !.todo = me.request.perms]
           ensured(i) == [me EXCEPT !.pc = IF me.todo = {i} THEN "token" ELSE "permissions",
                                    !.todo = me.todo \ {i}]
<1>1. /\ UNCHANGED <<requests, secrets, queue, timers, edits, lifecycleVars>>
      /\ me.pc \in {"account", "permissions", "token", "cleanup"}
  BY DEF EnsureServiceAccount, EnsurePermission, CreateToken, CleanUp, At
<1>2. /\ me \in Worker /\ me.cur \in Requests /\ me.target \in Clusters
      /\ me.request \in Request /\ Sound(Fail(me)) /\ Sound(me)
  BY <1>1, InPass DEF ClusterSteps, GrantSteps, TypeOK
<1>3. me.request.perms \subseteq Entries /\ me.todo \subseteq Entries
  BY <1>2 DEF Request, Worker, Lists
<1>4. Held(me) \subseteq Items
  BY <1>2 DEF Held, TypeOK
<1>5. /\ Sound(started) /\ started.pc # "idle"
      /\ \A i \in me.todo : Sound(ensured(i)) /\ ensured(i).pc # "idle"
      /\ Sound(done) /\ done.pc # "idle"
  <2>1. /\ started \in Worker /\ started.cur = me.cur /\ started.target = me.target
        /\ started.pc \in {"token", "permissions"}
    BY <1>2, <1>3, Zenon DEF Worker, Labels
  <2>2. \A i \in me.todo :
            /\ ensured(i) \in Worker /\ ensured(i).cur = me.cur
            /\ ensured(i).target = me.target /\ ensured(i).pc \in {"token", "permissions"}
    BY <1>2, <1>3, Zenon DEF Worker, Labels
  <2>3. /\ done \in Worker /\ done.cur = me.cur /\ done.target = me.target
        /\ done.pc \in {"removeFinalizer", "commit"}
    BY <1>2, Zenon DEF Worker, Labels, Deleting
  <2> HIDE DEF started, ensured, done
  <2> QED
    BY <1>2, <2>1, <2>2, <2>3 DEF Sound
<1>6. Sound([me EXCEPT !.pc = "secret"])
  <2> DEFINE v == [me EXCEPT !.pc = "secret"]
  <2>1. v \in Worker /\ v.pc = "secret" /\ v.cur = me.cur /\ v.target = me.target
    BY <1>2, WorkerOperators DEF Labels
  <2> HIDE DEF v
  <2>2. Sound(v)
    BY <1>2, <2>1 DEF Sound
  <2> QED
    BY <2>2 DEF v
<1>7. \E items \in SUBSET Items : \E w : Sound(w) /\ Call(p, items, w)
  <2>1. CASE EnsureServiceAccount(p)
    <3>1. Call(p, Held(me) \cup {Account}, started)
      BY <2>1, Zenon DEF EnsureServiceAccount
    <3>2. Held(me) \cup {Account} \in SUBSET Items
      BY <1>4 DEF Items
    <3> HIDE DEF started
    <3> QED
      BY <1>5, <3>1, <3>2
  <2>2. CASE EnsurePermission(p)
    <3>1. PICK i \in me.todo : Call(p, Overwritten(Held(me), i), ensured(i))
      BY <2>2, Zenon DEF EnsurePermission
    <3>2. Overwritten(Held(me), i) \in SUBSET Items
      BY <1>3, <1>4 DEF Items, Overwritten
    <3> HIDE DEF ensured
    <3> QED
      BY <1>5, <3>1, <3>2
  <2>3. CASE CreateToken(p)
    <3>1. \/ Call(p, Held(me), [me EXCEPT !.pc = "secret"])
          \/ Call(p, Held(me), Fail(me))
      BY <2>3, Zenon DEF CreateToken
    <3> QED
      BY <1>2, <1>4, <1>6, <3>1
  <2>4. CASE CleanUp(p)
    <3>1. \/ Call(p, Held(me), done)
          \/ \E i \in Held(me) : Call(p, Held(me) \ {i}, done) \/ Call(p, Held(me) \ {i}, me)
      <4> HIDE DEF done
      <4> QED
        BY <2>4 DEF CleanUp, done
    <3>2. \A i : Held(me) \ {i} \in SUBSET Items
      BY <1>4
    <3> HIDE DEF done
    <3> QED
      BY <1>2, <1>4, <1>5, <3>1, <3>2
  <2> QED
    BY <2>1, <2>2, <2>3, <2>4
<1>8. ContentsOK' /\ WorkersOK' /\ faults' \in Nat
  BY <1>1, <1>7, CallTypes, TypeOKParts DEF TypeParts, BudgetOK
<1>9. BudgetOK'
  BY <1>1, <1>8, TypeOKParts DEF TypeParts, BudgetOK
<1> QED
  BY <1>1, <1>8, <1>9, TypeOKParts, SameTypes DEF TypeParts

\* The secret that is written is one.
LEMMA WriteSecretTypes ==
    ASSUME TypeOK, NEW p \in Procs, WriteSecret(p)
    PROVE  TypeOK'
<1> DEFINE me == worker[p]
           s == [cluster |-> me.target,
                 perms |-> IF me.request.admin THEN {} ELSE me.request.perms,
                 generation |-> me.request.generation,
                 age |-> IF me.request.admin THEN "never" ELSE "fresh"]
           w == [me EXCEPT !.granted = TRUE,
                           !.pc = IF me.request.admin THEN "commit" ELSE "cleanup"]
<1>1. me.pc = "secret" /\ UNCHANGED <<requests, contents, timers, edits, lifecycleVars>>
  BY DEF WriteSecret, At
<1>2. /\ me \in Worker /\ me.cur \in Requests /\ me.target \in Clusters
      /\ me.request \in Request /\ Sound(Fail(me))
  BY <1>1, InPass DEF ClusterSteps, GrantSteps
<1>3. s \in Secret
  BY <1>2, RestTypes, Zenon DEF Secret, Request, UnsetRequest
<1>4. Sound(w)
  <2>1. /\ w \in Worker /\ w.cur = me.cur /\ w.target = me.target
        /\ w.pc \in {"commit", "cleanup"}
    BY <1>2, Zenon DEF Worker, Labels
  <2> HIDE DEF w
  <2> QED
    BY <1>2, <2>1 DEF Sound
<1> HIDE DEF s, w
<1>5. /\ \/ secrets' = [secrets EXCEPT ![me.cur] = s] /\ queue' = Queued(me.cur)
         \/ UNCHANGED <<secrets, queue>>
      /\ Step(p, w) \/ Step(p, Fail(me))
  BY Zenon DEF WriteSecret, s, w
<1>6. SecretsOK' /\ QueueOK' /\ WorkersOK'
  BY <1>2, <1>3, <1>4, <1>5, StepTypes, TypeOKParts
     DEF TypeParts, SecretsOK, QueueOK, Queued
<1>7. BudgetOK'
  <2>1. FaultStep
    BY DEF WriteSecret, FaultStep
  <2> QED
    BY <1>1, <2>1, BudgetTypes, TypeOKParts DEF TypeParts
<1> QED
  BY <1>1, <1>6, <1>7, TypeOKParts, SameTypes DEF TypeParts

\* The workqueue, the timers and a restart.
LEMMA ProcessTypes ==
    ASSUME TypeOK, NEW p \in Procs,
           \/ Crash(p)
           \/ \E r \in Requests : Skip(p, r) \/ Get(p, r) \/ TimerFires(p, r)
    PROVE  TypeOK'
<1> USE TypeOKParts DEF TypeParts
<1>1. CASE Crash(p)
  <2>1. WorkersOK'
    BY <1>1, RestTypes, StepTypes DEF Crash, Sound, ClusterSteps, GrantSteps
  <2>2. QueueOK' /\ TimersOK' /\ BudgetOK'
    BY <1>1, BudgetTypes DEF Crash, QueueOK, TimersOK, FaultStep
  <2> QED
    BY <1>1, <2>1, <2>2, SameTypes DEF Crash
<1>2. ASSUME NEW r \in Requests, Skip(p, r) \/ TimerFires(p, r)
      PROVE  TypeOK'
  <2>1. QueueOK' /\ TimersOK'
    BY <1>2 DEF Skip, TimerFires, QueueOK, TimersOK
  <2> QED
    BY <1>2, <2>1, SameTypes DEF Skip, TimerFires
<1>3. ASSUME NEW r \in Requests, Get(p, r)
      PROVE  TypeOK'
  <2> DEFINE w == [IdleWorker EXCEPT
                     !.pc = IF requests[r].op = "reconcile" THEN "operation" ELSE "responsible",
                     !.cur = r, !.request = requests[r]]
  <2>1. requests[r] \in Request
    BY DEF RequestsOK
  <2>2. w \in Worker /\ w.cur = r /\ w.pc \in {"operation", "responsible"}
    BY <2>1, RestTypes, Zenon DEF Worker, Labels
  <2>3. Step(p, w) /\ UNCHANGED <<requests, secrets, contents, timers, faults, edits, lifecycleVars>>
        /\ queue' = [queue EXCEPT ![p] = @ \ {r}]
    BY <1>3, Zenon DEF Get
  <2> HIDE DEF w
  <2>4. WorkersOK'
    BY <2>2, <2>3, StepTypes DEF Sound, ClusterSteps, GrantSteps
  <2>5. QueueOK'
    BY <2>3 DEF QueueOK
  <2> QED
    BY <2>3, <2>4, <2>5, SameTypes
<1> QED
  BY <1>1, <1>2, <1>3

\* What users and operators write of a request is a request.
LEMMA EditTypes ==
    ASSUME TypeOK, NEW r \in Requests, NEW q \in Request, Edit(r, q), edits' \in Nat
    PROVE  TypeOK'
<1> USE TypeOKParts DEF TypeParts
<1>1. RequestsOK' /\ QueueOK' /\ WorkersOK'
  BY WriteTypes DEF Edit
<1>2. BudgetOK'
  BY DEF Edit, BudgetOK
<1> QED
  BY <1>1, <1>2, SameTypes DEF Edit

\* What is written of a request r is what becomes of it.
Successor(r, q) ==
    LET o == requests[r]
    IN  \/ o.life = "none" /\ q.life = "live"
        \/ /\ q.life = o.life \/ (o.life = "live" /\ q.life = "deleting")
           /\ \/ q.generation = o.generation /\ q.perms = o.perms
              \/ o.generation < q.generation

\* An edit writes what becomes of the request, and leaves its finalizer.
LEMMA Edited ==
    ASSUME TypeOK, NEW r \in Requests,
           \/ CreateRequest(r) \/ DeleteRequest(r) \/ Assign(r)
           \/ \E v \in Operations : SetOperation(r, v)
           \/ EditPermissions(r)
    PROVE  \E q \in Request :
               /\ Edit(r, q) /\ Successor(r, q)
               /\ Present(requests[r]) /\ requests[r].finalizer => q.finalizer
<1> DEFINE o == requests[r]
<1>0. o \in Request /\ o.generation \in Nat
  BY Zenon DEF TypeOK, Request
<1>1. ASSUME NEW q \in Request, Edit(r, q), q.finalizer = o.finalizer, Successor(r, q)
      PROVE  \E x \in Request :
                 /\ Edit(r, x) /\ Successor(r, x)
                 /\ Present(requests[r]) /\ requests[r].finalizer => x.finalizer
  BY <1>1
<1>2. CASE CreateRequest(r)
  <2>1. PICK admin \in BOOLEAN, perms \in Lists :
            Edit(r, [UnsetRequest EXCEPT !.life = "live", !.admin = admin, !.perms = perms])
    BY <1>2 DEF CreateRequest
  <2> DEFINE q == [UnsetRequest EXCEPT !.life = "live", !.admin = admin, !.perms = perms]
  <2>2. q \in Request /\ q.life = "live"
    BY RestTypes, Zenon DEF Request, Lives
  <2>3. o.life = "none" /\ Edit(r, q)
    BY <1>2, <2>1 DEF CreateRequest
  <2> HIDE DEF q
  <2> QED
    BY <2>2, <2>3 DEF Successor
<1>3. CASE DeleteRequest(r)
  <2> DEFINE q == [o EXCEPT !.life = "deleting"]
  <2>1. /\ q \in Request /\ q.life = "deleting" /\ q.finalizer = o.finalizer
        /\ q.perms = o.perms /\ q.generation = o.generation
    BY <1>0, RequestOperators DEF Lives
  <2>2. o.life = "live" /\ Edit(r, q)
    BY <1>3 DEF DeleteRequest
  <2> HIDE DEF q
  <2> QED
    BY <1>1, <2>1, <2>2 DEF Successor
<1>4. CASE Assign(r)
  <2>1. PICK a \in {"no", "labelled", "ready"} : Edit(r, [o EXCEPT !.assigned = a])
    BY <1>4 DEF Assign
  <2> DEFINE q == [o EXCEPT !.assigned = a]
  <2>2. /\ q \in Request /\ q.life = o.life /\ q.finalizer = o.finalizer
        /\ q.perms = o.perms /\ q.generation = o.generation
    BY <1>0, Zenon DEF Request
  <2>3. Edit(r, q)
    BY <2>1
  <2> HIDE DEF q
  <2> QED
    BY <1>1, <2>2, <2>3 DEF Successor
<1>5. ASSUME NEW v \in Operations, SetOperation(r, v)
      PROVE  \E x \in Request :
                 /\ Edit(r, x) /\ Successor(r, x)
                 /\ Present(requests[r]) /\ requests[r].finalizer => x.finalizer
  <2> DEFINE q == [o EXCEPT !.op = v]
  <2>1. /\ q \in Request /\ q.life = o.life /\ q.finalizer = o.finalizer
        /\ q.perms = o.perms /\ q.generation = o.generation
    BY <1>0, RequestOperators
  <2>2. Edit(r, q)
    BY <1>5 DEF SetOperation
  <2> HIDE DEF q
  <2> QED
    BY <1>1, <2>1, <2>2 DEF Successor
<1>6. CASE EditPermissions(r)
  <2>1. PICK v \in Lists : Edit(r, [o EXCEPT !.perms = v, !.generation = @ + 1])
    BY <1>6 DEF EditPermissions
  <2> DEFINE q == [o EXCEPT !.perms = v, !.generation = @ + 1]
  <2>2. /\ q \in Request /\ q.life = o.life /\ q.finalizer = o.finalizer
        /\ q.generation = o.generation + 1
    BY <1>0, RequestOperators
  <2>3. Edit(r, q)
    BY <2>1
  <2> HIDE DEF q
  <2>4. o.generation < q.generation
    BY <1>0, <2>2
  <2> QED
    BY <1>1, <2>2, <2>3, <2>4 DEF Successor
<1> QED
  BY <1>2, <1>3, <1>4, <1>5, <1>6

\* Users, operators, and what becomes of secrets.
LEMMA EnvironmentTypes ==
    ASSUME TypeOK, NEW r \in Requests, UserStep(r) \/ GarbageCollect(r) \/ TokenAges(r)
    PROVE  TypeOK'
<1> USE TypeOKParts DEF TypeParts
<1>0. edits' \in Nat
  <2>1. edits' = edits \/ edits' = edits + 1
    BY Zenon DEF UserStep, CreateRequest, DeleteRequest, Assign, SetOperation,
           EditPermissions, DeleteSecret, GarbageCollect, TokenAges
  <2> QED
    BY <2>1 DEF BudgetOK
<1>1. CASE DropSecret(r)
  <2>1. SecretsOK' /\ QueueOK' /\ BudgetOK'
    BY <1>0, <1>1, RestTypes DEF DropSecret, SecretsOK, QueueOK, Queued, BudgetOK
  <2> QED
    BY <1>1, <2>1, SameTypes DEF DropSecret
<1>2. CASE TokenAges(r)
  <2>1. secrets[r] \in Secret
    BY DEF SecretsOK
  <2>2. [secrets[r] EXCEPT !.age = "due"] \in Secret
    BY <2>1, Zenon DEF Secret
  <2>3. SecretsOK'
    BY <1>2, <2>2 DEF TokenAges, SecretsOK
  <2> QED
    BY <1>2, <2>3, SameTypes DEF TokenAges
<1>3. CASE \E q \in Request : Edit(r, q)
  BY <1>0, <1>3, EditTypes
<1> QED
  BY <1>1, <1>2, <1>3, Edited DEF UserStep, DeleteSecret, GarbageCollect

\* The life cycle of a Cluster.
LEMMA ClusterTypes ==
    ASSUME TypeOK, NEW c \in Clusters, ClusterStep(c)
    PROVE  TypeOK'
<1> USE TypeOKParts DEF TypeParts
<1>1. LifecycleTypeOK'
  <2>1. UNCHANGED slice \/ \E s \in Slices \cup {NoSubnet} : slice' = [slice EXCEPT ![c] = s]
    BY DEF ClusterStep, LifecycleStep, Create, Delete, Lease, Build, Start, Boot, TearDown, Vanish
  <2>2. UNCHANGED life \/ \E l \in Lives : life' = [life EXCEPT ![c] = l]
    BY DEF ClusterStep, LifecycleStep, Create, Delete, Lease, Build, Start, Boot, TearDown,
           Vanish, Lives
  <2>3. UNCHANGED k0s \/ \E k \in K0sStates : k0s' = [k0s EXCEPT ![c] = k]
    BY DEF ClusterStep, LifecycleStep, Create, Delete, Lease, Build, Start, Boot, TearDown,
           Vanish, K0sStates
  <2> QED
    BY <2>1, <2>2, <2>3 DEF LifecycleTypeOK
<1>2. ContentsOK'
  BY DEF ClusterStep, ContentsOK
<1> QED
  BY <1>1, <1>2, SameTypes DEF ClusterStep

\* The types hold initially.
LEMMA TypeInit == Init => TypeOK
<1> SUFFICES ASSUME Init PROVE TypeOK
  OBVIOUS
<1>1. LifecycleTypeOK
  BY DEF Init, LifecycleInit, LifecycleTypeOK, Lives, K0sStates
<1>2. WorkersOK
  BY RestTypes DEF Init, WorkersOK, Sound, ClusterSteps, GrantSteps
<1>3. RequestsOK /\ SecretsOK /\ ContentsOK /\ QueueOK /\ TimersOK /\ BudgetOK
  BY RestTypes DEF Init, RequestsOK, SecretsOK, ContentsOK, QueueOK, TimersOK, BudgetOK
<1> QED
  BY <1>1, <1>2, <1>3, TypeOKParts DEF TypeParts

\* Every step keeps the types.
LEMMA TypeStep == TypeOK /\ [Next]_vars => TypeOK'
<1> SUFFICES ASSUME TypeOK, [Next]_vars PROVE TypeOK'
  OBVIOUS
<1>1. ASSUME NEW p \in Procs, Pass(p) PROVE TypeOK'
  BY <1>1, MoveTypes, WriteStepTypes, CallStepTypes, WriteSecretTypes DEF Pass
<1>2. ASSUME NEW p \in Procs, Crash(p) PROVE TypeOK'
  BY <1>2, ProcessTypes
<1>3. ASSUME NEW p \in Procs, NEW r \in Requests, Dequeue(p, r) \/ TimerFires(p, r)
      PROVE  TypeOK'
  BY <1>3, ProcessTypes DEF Dequeue
<1>4. ASSUME NEW r \in Requests, UserStep(r) \/ GarbageCollect(r) \/ TokenAges(r)
      PROVE  TypeOK'
  BY <1>4, EnvironmentTypes
<1>5. ASSUME NEW c \in Clusters, ClusterStep(c) PROVE TypeOK'
  BY <1>5, ClusterTypes
<1>6. CASE UNCHANGED vars
  BY <1>6, TypeOKParts, SameTypes DEF vars, accessVars, TypeParts
<1> QED
  BY <1>1, <1>2, <1>3, <1>4, <1>5, <1>6 DEF Next

\* Every variable keeps its type, with any number of provider processes, and a
\* worker never acts on a request or a Cluster it does not know.
THEOREM AccessTyping == Spec => []TypeOK
BY TypeInit, TypeStep, PTL DEF Spec

----------------------------------------------------------------------------
(* Custody: what a step that teaches no worker anything leaves as it is *)

\* A request goes on with its life, and has other permissions only in a later
\* generation.
RequestGoesOn(r) ==
    LET q == requests[r]
        n == requests'[r]
    IN  /\ q.life \in {"deleting", "gone"} => n.life \in {"deleting", "gone"}
        /\ q.life # "none" => n.life # "none"
        /\ n.life = "live" => q.life \in {"none", "live"}
        /\ n.life = "live" /\ q.life = "live" =>
               \/ n.generation = q.generation /\ n.perms = q.perms
               \/ q.generation < n.generation

\* It keeps its finalizer, too.
RequestKept(r) ==
    /\ RequestGoesOn(r)
    /\ Present(requests[r]) /\ requests[r].finalizer =>
           Present(requests'[r]) /\ requests'[r].finalizer

\* A secret is dropped or goes on to lead to the same cluster.
SecretKept(r) ==
    \/ secrets'[r].age = "none"
    \/ /\ secrets[r].age \in {"fresh", "due"} \/ secrets[r].age = secrets'[r].age
       /\ secrets'[r].cluster = secrets[r].cluster /\ secrets'[r].perms = secrets[r].perms
       /\ secrets'[r].generation = secrets[r].generation

RestKept ==
    /\ \A r \in Requests : RequestGoesOn(r) /\ SecretKept(r)
    /\ UNCHANGED <<contents, lifecycleVars>>

StateKept == RestKept /\ \A r \in Requests : RequestKept(r)

\* A worker stays where it is, or its pass ends.
WorkerKept(p) ==
    LET me == worker[p]
        now == worker'[p]
    IN  \/ now.pc \in {"idle", "commit"}
        \/ /\ now.pc = me.pc /\ now.cur = me.cur /\ now.request = me.request
           /\ now.target = me.target /\ now.todo = me.todo

\* What holds of the state, whatever the workers do.
StateHolds == NothingLeftBehind /\ GrantsHold /\ ClustersHold

\* The invariant, part by part, before and after a step.
LEMMA CustodyParts ==
    /\ Custody <=> /\ TypeOK /\ StateHolds /\ GenerationsKept
                   /\ \A p \in Procs : PassKnows(p) /\ PassGrants(p)
    /\ Custody' <=> /\ TypeOK' /\ StateHolds' /\ GenerationsKept'
                    /\ \A p \in Procs : PassKnows(p)' /\ PassGrants(p)'
<1>1. Custody <=> /\ TypeOK /\ StateHolds /\ GenerationsKept
                  /\ \A p \in Procs : PassKnows(p) /\ PassGrants(p)
  BY DEF Custody, StateHolds
<1>2. Custody' <=> /\ TypeOK' /\ StateHolds' /\ GenerationsKept'
                   /\ \A p \in Procs : PassKnows(p)' /\ PassGrants(p)'
  BY DEF Custody, StateHolds
<1> QED
  BY <1>1, <1>2

\* Requests that go on, and secrets that are kept, keep what does not depend on
\* finalizers.
LEMMA KeptRest ==
    ASSUME Custody, RestKept
    PROVE  ClustersHold' /\ GrantsHold'
<1>2. ClustersHold'
  <2>1. BuiltOnLease'
    BY DEF Custody, ClustersHold, RestKept, BuiltOnLease, lifecycleVars, Exists
  <2>2. \A r \in Requests : secrets'[r].age # "none" =>
            /\ requests'[r].life # "none"
            /\ secrets'[r].cluster \in Clusters /\ life'[secrets'[r].cluster] # "none"
    <3> SUFFICES ASSUME NEW r \in Requests, secrets'[r].age # "none"
                 PROVE  /\ requests'[r].life # "none"
                        /\ secrets'[r].cluster \in Clusters
                        /\ life'[secrets'[r].cluster] # "none"
      OBVIOUS
    <3>1. secrets[r].age # "none" /\ secrets'[r].cluster = secrets[r].cluster
      BY DEF RestKept, SecretKept
    <3>2. RequestGoesOn(r) /\ life' = life
      BY DEF RestKept, lifecycleVars
    <3>3. /\ requests[r].life # "none"
          /\ secrets[r].cluster \in Clusters /\ life[secrets[r].cluster] # "none"
      BY <3>1 DEF Custody, ClustersHold
    <3> QED
      BY <3>1, <3>2, <3>3 DEF RequestGoesOn
  <2> QED
    BY <2>1, <2>2 DEF Custody, ClustersHold, RestKept, lifecycleVars, Exists
<1>3. GrantsHold'
  <2> SUFFICES ASSUME NEW r \in Requests,
                      requests'[r].life = "live", secrets'[r].age \in {"fresh", "due"},
                      life'[secrets'[r].cluster] = "live"
               PROVE  Backed(secrets'[r], requests'[r], contents'[secrets'[r].cluster][r])
    BY DEF GrantsHold
  <2>1. /\ secrets[r].age \in {"fresh", "due"}
        /\ secrets'[r].cluster = secrets[r].cluster /\ secrets'[r].perms = secrets[r].perms
        /\ secrets'[r].generation = secrets[r].generation
    BY DEF RestKept, SecretKept
  <2>2. RequestGoesOn(r) /\ life' = life /\ contents' = contents
    BY DEF RestKept, lifecycleVars
  <2>3. requests[r].life # "none"
    BY <2>1 DEF Custody, ClustersHold
  <2>4. requests[r].life = "live"
    BY <2>2, <2>3 DEF RequestGoesOn
  <2>5. Backed(secrets[r], requests[r], contents[secrets[r].cluster][r])
    BY <2>1, <2>2, <2>4 DEF Custody, GrantsHold
  <2>6. secrets[r].generation = requests'[r].generation
            => secrets[r].generation = requests[r].generation
    <3>1. secrets[r].generation <= requests[r].generation
      BY <2>1, <2>4 DEF Custody, GenerationsKept, Copy
    <3>2. requests[r].generation \in Nat /\ secrets[r].generation \in Nat
      BY DEF Custody, TypeOK, Request, Secret
    <3> QED
      BY <2>2, <2>4, <3>1, <3>2 DEF RequestGoesOn
  <2> QED
    BY <2>1, <2>2, <2>5, <2>6 DEF Backed
<1> QED
  BY <1>2, <1>3

\* Requests and secrets that are kept keep the state.
LEMMA KeptState ==
    ASSUME Custody, StateKept
    PROVE  StateHolds'
<1>1. NothingLeftBehind'
  BY DEF Custody, NothingLeftBehind, StateKept, RestKept, RequestKept
<1> QED
  BY <1>1, KeptRest DEF StateKept, StateHolds

\* Workers that are kept know what they knew.
LEMMA KeptWorker ==
    ASSUME Custody, StateKept, NEW p \in Procs, WorkerKept(p)
    PROVE  PassKnows(p)' /\ PassGrants(p)'
<1> DEFINE me == worker[p]
           now == worker'[p]
           r == me.cur
<1>1. CASE now.pc \in {"idle", "commit"}
  BY <1>1 DEF PassKnows, PassGrants, Ensured
<1>2. CASE /\ now.pc = me.pc /\ now.cur = me.cur /\ now.request = me.request
           /\ now.target = me.target /\ now.todo = me.todo
           /\ me.pc \notin {"idle", "commit"}
  <2>1. r \in Requests
    BY <1>2 DEF Custody, TypeOK, Sound
  <2>2. RequestKept(r) /\ SecretKept(r) /\ life' = life /\ contents' = contents
    BY <2>1 DEF StateKept, RestKept, RequestKept, RequestGoesOn, lifecycleVars
  <2>3. PassKnows(p) /\ PassGrants(p)
    BY DEF Custody
  <2>4. PassKnows(p)'
    BY <1>2, <2>2, <2>3 DEF PassKnows, RequestKept, RequestGoesOn, Deleting
  <2>5. PassGrants(p)'
    BY <1>2, <2>2, <2>3 DEF PassGrants, Ensured, SecretKept, Deleting
  <2> QED
    BY <2>4, <2>5
<1> QED
  BY <1>1, <1>2 DEF WorkerKept

\* A step that keeps requests, secrets and workers keeps the invariant.
LEMMA Quiet ==
    ASSUME Custody, TypeOK', GenerationsKept', StateKept, \A p \in Procs : WorkerKept(p)
    PROVE  Custody'
BY KeptState, KeptWorker, CustodyParts

\* The only worker moves on, with what it has to know then.
LEMMA MovesOn ==
    ASSUME Custody, TypeOK', GenerationsKept', SingleProcess, StateKept, NEW p \in Procs,
           WorkerKept(p) \/ (PassKnows(p)' /\ PassGrants(p)')
    PROVE  Custody'
<1>1. PassKnows(p)' /\ PassGrants(p)'
  BY KeptWorker
<1>2. \A q \in Procs : PassKnows(q)' /\ PassGrants(q)'
  BY <1>1 DEF SingleProcess
<1> QED
  BY <1>2, KeptState, CustodyParts

\* Nothing of the state but the workers changes.
LEMMA SameState ==
    ASSUME TypeOK, UNCHANGED <<requests, secrets, contents, lifecycleVars>>
    PROVE  StateKept
BY DEF StateKept, RestKept, RequestKept, RequestGoesOn, SecretKept

\* A write of what becomes of a request, and one that leaves its finalizer.
LEMMA StoredKept ==
    ASSUME TypeOK, NEW r \in Requests, NEW q \in Request, Stored(r, q), Successor(r, q)
    PROVE  /\ \A x \in Requests : RequestGoesOn(x)
           /\ (Present(requests[r]) /\ requests[r].finalizer => q.finalizer)
                  => \A x \in Requests : RequestKept(x)
<1>1. requests'[r] = Collected(q) /\ \A x \in Requests \ {r} : requests'[x] = requests[x]
  BY DEF Stored, TypeOK
<1>2. \/ Collected(q) = q
      \/ q.life = "deleting" /\ ~q.finalizer /\ Collected(q).life = "gone"
  <2>1. [UnsetRequest EXCEPT !.life = "gone"].life = "gone"
    BY RestTypes, RequestOperators DEF Lives
  <2> QED
    BY <2>1 DEF Collected
<1>3. \A x \in Requests \ {r} : RequestKept(x)
  BY <1>1 DEF RequestKept, RequestGoesOn
<1>4. RequestGoesOn(r)
  BY <1>1, <1>2 DEF RequestGoesOn, Successor
<1>5. (Present(requests[r]) /\ requests[r].finalizer => q.finalizer) => RequestKept(r)
  BY <1>1, <1>2, <1>4 DEF RequestKept, Successor
<1> QED
  BY <1>3, <1>4, <1>5 DEF RequestKept

\* Workers that only learn that their object changed meanwhile.
LEMMA OvertakenKept ==
    ASSUME TypeOK, NEW r \in Requests
    PROVE  /\ worker' = Overtaken(r) => \A p \in Procs : WorkerKept(p)
           /\ \A p \in Procs : \A w : worker' = [Overtaken(r) EXCEPT ![p] = w] => worker'[p] = w
<1>1. \A p \in Procs : worker[p] \in Worker
  BY DEF TypeOK
<1>2. ASSUME worker' = Overtaken(r), NEW p \in Procs
      PROVE  WorkerKept(p)
  <2> DEFINE v == [worker[p] EXCEPT !.stale = TRUE]
  <2>1. worker'[p] = v \/ worker'[p] = worker[p]
    BY <1>2 DEF Overtaken
  <2>2. /\ v.pc = worker[p].pc /\ v.cur = worker[p].cur /\ v.target = worker[p].target
        /\ v.request = worker[p].request /\ v.todo = worker[p].todo
    BY <1>1, WorkerOperators
  <2> HIDE DEF v
  <2> QED
    BY <2>1, <2>2 DEF WorkerKept
<1>3. \A p \in Procs : \A w : worker' = [Overtaken(r) EXCEPT ![p] = w] => worker'[p] = w
  BY DEF Overtaken
<1> QED
  BY <1>2, <1>3

----------------------------------------------------------------------------
(* Generations: no pass holds an older list than its token was granted with *)

\* A worker is idle, holds the list it held, or the one that was just read.
WorkerDated(p) ==
    LET me == worker[p]
        now == worker'[p]
        Of(q) == now.request.perms = q.perms /\ now.request.generation = q.generation
    IN  \/ now.pc = "idle"
        \/ me.pc # "idle" /\ now.cur = me.cur /\ Of(me.request)
        \/ Present(requests[now.cur]) /\ Of(requests[now.cur])

\* What is left of a patch of the status is of the same generation.
LEMMA PatchedStatus ==
    ASSUME TypeOK, NEW p \in Procs, worker[p].pc = "commit"
    PROVE  LET me == worker[p]
               o == requests[me.cur]
               ready == IF me.again THEN "False" ELSE "True"
               q == [o EXCEPT !.granted = @ \/ me.granted,
                              !.ready = IF ready = me.request.ready THEN @ ELSE ready]
           IN  /\ q \in Request /\ q.life = o.life /\ q.finalizer = o.finalizer
               /\ q.perms = o.perms /\ q.generation = o.generation
<1> DEFINE me == worker[p]
           o == requests[me.cur]
           ready == IF me.again THEN "False" ELSE "True"
           q == [o EXCEPT !.granted = @ \/ me.granted,
                          !.ready = IF ready = me.request.ready THEN @ ELSE ready]
<1>1. me \in Worker /\ o \in Request
  BY InPass
<1>2. q \in Request
  BY <1>1, Zenon DEF Request, Worker
<1> HIDE DEF ready
<1>3. q.life = o.life /\ q.finalizer = o.finalizer
  BY <1>1, Zenon DEF Request
<1>4. q.perms = o.perms /\ q.generation = o.generation
  BY <1>1, Zenon DEF Request
<1> QED
  BY <1>2, <1>3, <1>4 DEF ready

\* Steps that write no secret keep the order of the generations.
LEMMA DatedKeeps ==
    ASSUME TypeOK, TypeOK', GenerationsKept,
           \A r \in Requests : RequestGoesOn(r) /\ SecretKept(r),
           \A p \in Procs : WorkerDated(p)
    PROVE  GenerationsKept'
<1>1. /\ \A r \in Requests : /\ requests[r].generation \in Nat /\ requests'[r].generation \in Nat
                             /\ secrets[r].generation \in Nat
      /\ \A p \in Procs : /\ worker[p].request.generation \in Nat
                          /\ worker'[p].request.generation \in Nat
                          /\ worker'[p].pc # "idle" => worker'[p].cur \in Requests
  BY DEF TypeOK, Request, Secret, Worker, Sound
<1>2. ASSUME NEW r \in Requests, requests'[r].life = "live", requests[r].life # "none",
             NEW a, a.generation \in Nat, Copy(a, requests[r])
      PROVE  Copy(a, requests'[r])
  <2>1. RequestGoesOn(r)
    OBVIOUS
  <2> QED
    BY <1>1, <1>2, <2>1 DEF RequestGoesOn, Copy
<1>3. ASSUME NEW r \in Requests, requests'[r].life = "live", secrets'[r].age \in {"fresh", "due"}
      PROVE  /\ requests[r].life = "live" /\ secrets[r].age \in {"fresh", "due"}
             /\ secrets'[r].generation = secrets[r].generation
             /\ secrets'[r].perms = secrets[r].perms
             /\ Copy(secrets[r], requests[r])
  <2>1. RequestGoesOn(r) /\ SecretKept(r)
    OBVIOUS
  <2>2. secrets[r].age \in {"fresh", "due"} /\ requests[r].life # "none"
    BY <1>3, <2>1 DEF SecretKept, GenerationsKept
  <2>3. requests[r].life = "live"
    BY <1>3, <2>1, <2>2 DEF RequestGoesOn
  <2> QED
    BY <1>3, <2>1, <2>2, <2>3 DEF SecretKept, GenerationsKept
<1>4. ASSUME NEW r \in Requests
      PROVE  /\ requests'[r].life = "none" => secrets'[r].age = "none"
             /\ requests'[r].life = "live" /\ secrets'[r].age \in {"fresh", "due"}
                    => Copy(secrets'[r], requests'[r])
  <2>1. RequestGoesOn(r) /\ SecretKept(r)
    OBVIOUS
  <2>2. requests'[r].life = "none" => secrets'[r].age = "none"
    BY <2>1 DEF RequestGoesOn, SecretKept, GenerationsKept
  <2>3. requests'[r].life = "live" /\ secrets'[r].age \in {"fresh", "due"}
            => Copy(secrets[r], requests'[r])
    BY <1>1, <1>2, <1>3
  <2> QED
    BY <1>3, <2>2, <2>3 DEF Copy
<1>5. ASSUME NEW p \in Procs, NEW r \in Requests,
             worker'[p].pc # "idle", worker'[p].cur = r
      PROVE  /\ requests'[r].life # "none"
             /\ requests'[r].life = "live" => Copy(worker'[p].request, requests'[r])
             /\ requests'[r].life = "live" /\ secrets'[r].age \in {"fresh", "due"}
                    => secrets'[r].generation <= worker'[p].request.generation
  <2> DEFINE me == worker[p]
             now == worker'[p]
  <2>1. RequestGoesOn(r) /\ WorkerDated(p)
    OBVIOUS
  <2>2. CASE /\ me.pc # "idle" /\ now.cur = me.cur
             /\ now.request.perms = me.request.perms
             /\ now.request.generation = me.request.generation
    <3>1. /\ requests[r].life # "none"
          /\ requests[r].life = "live" => Copy(me.request, requests[r])
          /\ requests[r].life = "live" /\ secrets[r].age \in {"fresh", "due"}
                 => secrets[r].generation <= me.request.generation
      BY <1>5, <2>2 DEF GenerationsKept
    <3>2. requests'[r].life # "none" /\ (requests'[r].life = "live" => requests[r].life = "live")
      BY <2>1, <3>1 DEF RequestGoesOn
    <3>3. requests'[r].life = "live" => Copy(me.request, requests'[r])
      BY <1>1, <1>2, <3>1, <3>2
    <3> QED
      BY <1>3, <2>2, <3>1, <3>2, <3>3 DEF Copy
  <2>3. CASE /\ Present(requests[r])
             /\ now.request.perms = requests[r].perms
             /\ now.request.generation = requests[r].generation
    <3>1. requests'[r].life # "none"
      BY <2>1, <2>3 DEF RequestGoesOn
    <3>2. Copy(now.request, requests[r])
      BY <1>1, <2>3 DEF Copy
    <3>3. requests'[r].life = "live" => Copy(now.request, requests'[r])
      BY <1>1, <1>2, <2>3, <3>2
    <3> QED
      BY <1>3, <2>3, <3>1, <3>3 DEF Copy
  <2> QED
    BY <1>5, <2>1, <2>2, <2>3 DEF WorkerDated
<1> QED
  BY <1>4, <1>5 DEF GenerationsKept

\* A step that replaces one worker, and one that writes a request.
LEMMA DatedSteps ==
    ASSUME TypeOK, TypeOK', GenerationsKept, UNCHANGED secrets, NEW p \in Procs, NEW w,
           \/ Step(p, w) /\ UNCHANGED requests
           \/ \E r \in Requests, q \in Request : Write(p, r, q, w) /\ Successor(r, q),
           LET me == worker[p]
           IN  \/ w.pc = "idle"
               \/ me.pc # "idle" /\ w.cur = me.cur /\ w.request.perms = me.request.perms
                  /\ w.request.generation = me.request.generation
               \/ Present(requests[w.cur]) /\ w.request.perms = requests[w.cur].perms
                  /\ w.request.generation = requests[w.cur].generation
    PROVE  GenerationsKept'
<1>1. \A r \in Requests : SecretKept(r)
  BY DEF SecretKept
<1>2. \A r \in Requests : RequestGoesOn(r)
  <2>1. CASE UNCHANGED requests
    BY <2>1 DEF RequestGoesOn
  <2>2. ASSUME NEW r \in Requests, NEW q \in Request, Write(p, r, q, w), Successor(r, q)
        PROVE  \A x \in Requests : RequestGoesOn(x)
    BY <2>2, StoredKept DEF Write
  <2> QED
    BY <2>1, <2>2
<1>3. worker'[p] = w /\ \A x \in Procs \ {p} : WorkerDated(x)
  <2>1. CASE Step(p, w)
    BY <2>1 DEF Step, TypeOK, WorkerDated
  <2>2. ASSUME NEW r \in Requests, worker' = [Overtaken(r) EXCEPT ![p] = w]
        PROVE  worker'[p] = w /\ \A x \in Procs \ {p} : WorkerDated(x)
    <3>1. worker'[p] = w /\ \A x \in Procs \ {p} : worker'[x] = Overtaken(r)[x]
      BY <2>2 DEF Overtaken
    <3> SUFFICES ASSUME NEW x \in Procs \ {p} PROVE WorkerDated(x)
      BY <3>1
    <3> DEFINE v == [worker[x] EXCEPT !.stale = TRUE]
    <3>2. v.pc = worker[x].pc /\ v.cur = worker[x].cur /\ v.request = worker[x].request
      BY WorkerOperators DEF TypeOK
    <3>3. worker'[x] = v \/ worker'[x] = worker[x]
      BY <3>1 DEF Overtaken
    <3> HIDE DEF v
    <3> QED
      BY <3>2, <3>3 DEF WorkerDated
  <2> QED
    BY <2>1, <2>2 DEF Write
<1>4. WorkerDated(p)
  BY <1>3 DEF WorkerDated
<1> QED
  BY <1>1, <1>2, <1>3, <1>4, DatedKeeps

\* The steps of a pass but the one that writes the secret.
LEMMA PassGenerations ==
    ASSUME TypeOK, TypeOK', GenerationsKept, NEW p \in Procs, Pass(p), ~WriteSecret(p)
    PROVE  GenerationsKept'
<1> DEFINE me == worker[p]
           r == me.cur
           o == requests[r]
           n == [me.request EXCEPT !.finalizer = TRUE]
           Same(w) == /\ w.cur = r /\ w.request.perms = me.request.perms
                      /\ w.request.generation = me.request.generation
           Keeps(q) == /\ q \in Request /\ q.life = o.life
                       /\ q.perms = o.perms /\ q.generation = o.generation
           Carries(w) == Step(p, w) /\ UNCHANGED requests
           Stores(w) == \E q : Write(p, r, q, w) /\ Keeps(q)
<1>1. me.pc # "idle" /\ UNCHANGED secrets
  BY DEF Pass, RemoveOperation, Responsible, GetCluster, AddFinalizer, TokenStillValid,
         TargetClient, EnsureServiceAccount, EnsurePermission, CreateToken, CleanUp,
         ClusterExists, RemoveFinalizer, UpdateStatus, At
<1>2. me \in Worker /\ r \in Requests /\ o \in Request /\ me.request \in Request
  BY <1>1, InPass
<1>3. /\ Same(me) /\ Same(Fail(me)) /\ Fail(me) \in Worker
      /\ \A l \in Labels : Same([me EXCEPT !.pc = l])
  BY <1>2, WorkerOperators
<1>4. \A w : Carries(w) /\ Same(w) => GenerationsKept'
  BY <1>1, DatedSteps
<1>5. Carries(IdleWorker) => GenerationsKept'
  BY <1>1, DatedSteps, RestTypes
<1>6. ASSUME NEW w, Stores(w),
             \/ Same(w) \/ w.pc = "idle"
             \/ Present(o) /\ w.cur = r /\ w.request.perms = o.perms
                /\ w.request.generation = o.generation
      PROVE  GenerationsKept'
  <2>1. PICK q \in Request : Write(p, r, q, w) /\ Keeps(q)
    BY <1>6
  <2>2. Successor(r, q)
    BY <2>1 DEF Successor
  <2> QED
    BY <1>1, <1>2, <1>6, <2>1, <2>2, DatedSteps
<1>7. \A q : Keeps(q) /\ Abort(p) /\ UNCHANGED requests => GenerationsKept'
  BY <1>5 DEF Abort
<1>8. Same([me EXCEPT !.pc = "commit", !.renew = TRUE])
  BY <1>2, Zenon DEF Worker
<1>9. n.perms = me.request.perms /\ n.generation = me.request.generation
  BY <1>2, RequestOperators
<1>10. ASSUME NEW q, Keeps(q), NEW w \in Worker, Same(w), Update(p, q, w)
       PROVE  GenerationsKept'
  <2> DEFINE v == [w EXCEPT !.wrote = TRUE]
             lost == [Fail(me) EXCEPT !.stale = TRUE]
  <2>1. Write(p, r, q, v) \/ Write(p, r, q, lost) \/ Carries(Fail(me))
    BY <1>10, Zenon DEF Update
  <2>2. Same(v) /\ Same(lost)
    BY <1>3, <1>10, WorkerOperators
  <2> HIDE DEF v, lost
  <2> QED
    BY <1>3, <1>4, <1>6, <1>10, <2>1, <2>2
<1>11. ASSUME NEW items, NEW w, Same(w), Call(p, items, w), UNCHANGED requests
       PROVE  GenerationsKept'
  BY <1>3, <1>4, <1>11 DEF Call
<1>12. CASE Responsible(p)
  BY <1>3, <1>4, <1>5, <1>12 DEF Responsible, Labels
<1>13. CASE GetCluster(p)
  <2>1. \A c, l : Same([me EXCEPT !.target = c, !.pc = l])
    BY <1>2, Zenon DEF Worker
  <2>2. Carries(Fail(me)) \/ \E c, l : Carries([me EXCEPT !.target = c, !.pc = l])
    BY <1>13 DEF GetCluster
  <2> HIDE DEF Same, Carries
  <2> QED
    BY <1>3, <1>4, <2>1, <2>2
<1>14. CASE TokenStillValid(p)
  <2>1. \/ Carries([me EXCEPT !.pc = "commit", !.renew = TRUE])
        \/ Carries([me EXCEPT !.pc = "target"])
    BY <1>14, Zenon DEF TokenStillValid
  <2> HIDE DEF Same, Carries
  <2> QED
    BY <1>3, <1>4, <1>8, <2>1 DEF Labels
<1>15. CASE TargetClient(p)
  <2>1. \/ Carries(Fail(me))
        \/ \E l \in {"cleanup", "secret", "account"} : Carries([me EXCEPT !.pc = l])
    BY <1>15 DEF TargetClient
  <2> HIDE DEF Same, Carries
  <2> QED
    BY <1>3, <1>4, <2>1 DEF Labels
<1>16. CASE ClusterExists(p)
  <2>1. \/ Carries(Fail(me))
        \/ \E l \in {"removeFinalizer", "target"} : Carries([me EXCEPT !.pc = l])
    BY <1>16 DEF ClusterExists
  <2> HIDE DEF Same, Carries
  <2> QED
    BY <1>3, <1>4, <2>1 DEF Labels
<1>17. CASE RemoveOperation(p)
  <2> DEFINE q == [o EXCEPT !.op = ""]
             w == [me EXCEPT !.pc = "responsible", !.request = q, !.stale = FALSE]
  <2>1. Keeps(q)
    BY <1>2, RequestOperators DEF Operations
  <2>2. \/ Present(o) /\ Write(p, r, q, w)
        \/ Write(p, r, q, IdleWorker)
        \/ Abort(p) /\ UNCHANGED requests
    BY <1>17, Zenon DEF RemoveOperation
  <2>3. w.cur = r /\ w.request = q
    <3> HIDE DEF q
    <3> QED
      BY <1>2, Zenon DEF Worker
  <2> HIDE DEF q, w
  <2> QED
    BY <1>6, <1>7, <2>1, <2>2, <2>3, RestTypes
<1>18. CASE AddFinalizer(p)
  <2> DEFINE w == [me EXCEPT !.pc = Granting(me), !.request.finalizer = TRUE]
             q == [o EXCEPT !.finalizer = TRUE]
  <2>1. Keeps(q) /\ n \in Request
    BY <1>2, RequestOperators
  <2>2. Granting(me) \in Labels
    BY DEF Granting, Labels
  <2>3. w \in Worker /\ w.cur = r /\ w.request = n
    <3> HIDE DEF Keeps
    <3> QED
      BY <1>2, <2>1, <2>2, Zenon DEF Worker
  <2>4. Update(p, q, w)
    BY <1>18, Zenon DEF AddFinalizer
  <2> HIDE DEF q, w, n
  <2> QED
    BY <1>9, <1>10, <2>1, <2>3, <2>4
<1>19. CASE RemoveFinalizer(p)
  <2> DEFINE w == [me EXCEPT !.pc = "commit"]
             q == [o EXCEPT !.finalizer = FALSE]
  <2>1. Keeps(q)
    BY <1>2, RequestOperators
  <2>2. w \in Worker /\ Same(w)
    BY <1>2, WorkerOperators DEF Labels
  <2>3. Update(p, q, w)
    BY <1>19, Zenon DEF RemoveFinalizer
  <2> HIDE DEF q, w
  <2> QED
    BY <1>10, <2>1, <2>2, <2>3
<1>20. CASE UpdateStatus(p)
  <2> DEFINE ready == IF me.again THEN "False" ELSE "True"
             q == [o EXCEPT !.granted = @ \/ me.granted,
                            !.ready = IF ready = me.request.ready THEN @ ELSE ready]
  <2>1. Keeps(q)
    BY <1>20, PatchedStatus DEF UpdateStatus, At
  <2>2. Write(p, r, q, IdleWorker) \/ Carries(IdleWorker)
    <3> HIDE DEF q
    <3> QED
      BY <1>20 DEF UpdateStatus, Abort, q
  <2> HIDE DEF q
  <2> QED
    BY <1>5, <1>6, <2>1, <2>2, RestTypes
<1>21. CASE EnsureServiceAccount(p)
  <2> DEFINE w == [me EXCEPT !.pc = IF me.request.perms = {} THEN "token" ELSE "permissions",
                             !.todo = me.request.perms]
  <2>1. Same(w)
    BY <1>2, Zenon DEF Worker
  <2>2. \E items : Call(p, items, w)
    BY <1>21, Zenon DEF EnsureServiceAccount
  <2> HIDE DEF Same, w
  <2> QED
    BY <1>11, <1>21, <2>1, <2>2 DEF EnsureServiceAccount
<1>22. CASE EnsurePermission(p)
  <2> DEFINE w(i) == [me EXCEPT !.pc = IF me.todo = {i} THEN "token" ELSE "permissions",
                                !.todo = me.todo \ {i}]
  <2>1. \A i : Same(w(i))
    BY <1>2, Zenon DEF Worker
  <2>2. \E i, items : Call(p, items, w(i))
    BY <1>22, Zenon DEF EnsurePermission
  <2> HIDE DEF Same, w
  <2> QED
    BY <1>11, <1>22, <2>1, <2>2 DEF EnsurePermission
<1>23. CASE CreateToken(p)
  <2>1. Same([me EXCEPT !.pc = "secret"])
    BY <1>3 DEF Labels
  <2> HIDE DEF Same
  <2> QED
    BY <1>3, <1>11, <1>23, <2>1 DEF CreateToken
<1>24. CASE CleanUp(p)
  <2> DEFINE w == [me EXCEPT !.pc = IF Deleting(me) THEN "removeFinalizer" ELSE "commit",
                             !.renew = ~Deleting(me)]
  <2>1. Same(w)
    BY <1>2, Zenon DEF Worker
  <2>2. \E items : Call(p, items, w) \/ Call(p, items, me)
    <3> HIDE DEF w
    <3> QED
      BY <1>24 DEF CleanUp, w
  <2> HIDE DEF Same, w
  <2> QED
    BY <1>3, <1>11, <1>24, <2>1, <2>2 DEF CleanUp
<1> QED
  BY <1>12, <1>13, <1>14, <1>15, <1>16, <1>17, <1>18, <1>19, <1>20, <1>21, <1>22, <1>23, <1>24
     DEF Pass

\* The secret is of what the only pass has read.
LEMMA SecretGenerations ==
    ASSUME TypeOK, TypeOK', GenerationsKept, SingleProcess, NEW p \in Procs, WriteSecret(p)
    PROVE  GenerationsKept'
<1> DEFINE me == worker[p]
           r == me.cur
           s == [cluster |-> me.target,
                 perms |-> IF me.request.admin THEN {} ELSE me.request.perms,
                 generation |-> me.request.generation,
                 age |-> IF me.request.admin THEN "never" ELSE "fresh"]
           w == [me EXCEPT !.granted = TRUE,
                           !.pc = IF me.request.admin THEN "commit" ELSE "cleanup"]
<1>1. me.pc = "secret" /\ requests' = requests
  BY DEF WriteSecret, At
<1>2. me \in Worker /\ r \in Requests /\ me.request \in Request
  BY <1>1, InPass
<1>3. w.cur = r /\ w.request = me.request
  BY <1>2, Zenon DEF Worker
<1>4. Fail(me).cur = r /\ Fail(me).request = me.request
  BY <1>2, WorkerOperators
<1>5. /\ s.generation = me.request.generation
      /\ s.age \in {"fresh", "due"} => s.perms = me.request.perms
  OBVIOUS
<1> HIDE DEF s, w
<1>6. /\ secrets' = [secrets EXCEPT ![r] = s] \/ UNCHANGED secrets
      /\ Step(p, w) \/ Step(p, Fail(me))
  BY Zenon DEF WriteSecret, s, w
<1>7. /\ worker'[p].cur = r /\ worker'[p].request = me.request
      /\ \A x \in Procs : x = p
  BY <1>3, <1>4, <1>6 DEF Step, TypeOK, SingleProcess
<1>8. /\ requests[r].life # "none"
      /\ requests[r].life = "live" => Copy(me.request, requests[r])
      /\ me.request.generation \in Nat
  BY <1>1, <1>2 DEF GenerationsKept, Request
<1>9. \A x \in Requests : secrets'[x] = secrets[x] \/ (x = r /\ secrets'[x] = s)
  BY <1>2, <1>6 DEF TypeOK
<1> SUFFICES ASSUME NEW x \in Requests
             PROVE  LET q == requests[x]
                        t == secrets'[x]
                        token == t.age \in {"fresh", "due"}
                    IN  /\ q.life = "none" => t.age = "none"
                        /\ q.life = "live" /\ token => Copy(t, q)
                        /\ worker'[p].pc # "idle" /\ worker'[p].cur = x =>
                               /\ q.life # "none"
                               /\ q.life = "live" => Copy(worker'[p].request, q)
                               /\ q.life = "live" /\ token =>
                                      t.generation <= worker'[p].request.generation
  BY <1>1, <1>7 DEF GenerationsKept
<1>10. CASE secrets'[x] = secrets[x]
  BY <1>1, <1>7, <1>10 DEF GenerationsKept
<1>11. CASE x = r /\ secrets'[x] = s
  BY <1>5, <1>7, <1>8, <1>11 DEF Copy
<1> QED
  BY <1>9, <1>10, <1>11

\* Every step keeps the order of the generations.
LEMMA GenerationsStep ==
    ASSUME TypeOK, TypeOK', GenerationsKept, SingleProcess, [Next]_vars
    PROVE  GenerationsKept'
<1>1. ASSUME NEW p \in Procs, Pass(p) PROVE GenerationsKept'
  BY <1>1, PassGenerations, SecretGenerations
<1>2. ASSUME NEW p \in Procs, Crash(p) PROVE GenerationsKept'
  BY <1>2, DatedSteps, RestTypes DEF Crash
<1>3. ASSUME NEW r \in Requests,
             \A x \in Requests : RequestGoesOn(x) /\ SecretKept(x),
             UNCHANGED worker \/ worker' = Overtaken(r)
      PROVE  GenerationsKept'
  <2> SUFFICES ASSUME NEW x \in Procs PROVE WorkerDated(x)
    BY <1>3, DatedKeeps
  <2> DEFINE v == [worker[x] EXCEPT !.stale = TRUE]
  <2>1. v.pc = worker[x].pc /\ v.cur = worker[x].cur /\ v.request = worker[x].request
    BY WorkerOperators DEF TypeOK
  <2>2. worker'[x] = v \/ worker'[x] = worker[x]
    BY <1>3 DEF Overtaken
  <2> HIDE DEF v
  <2> QED
    BY <2>1, <2>2 DEF WorkerDated
<1>4. ASSUME NEW p \in Procs, NEW r \in Requests, Dequeue(p, r) \/ TimerFires(p, r)
      PROVE  GenerationsKept'
  <2>1. CASE Skip(p, r) \/ TimerFires(p, r)
    BY <1>3, <2>1 DEF Skip, TimerFires, RequestGoesOn, SecretKept
  <2>2. CASE Get(p, r)
    <3> DEFINE w == [IdleWorker EXCEPT
                       !.pc = IF requests[r].op = "reconcile" THEN "operation" ELSE "responsible",
                       !.cur = r, !.request = requests[r]]
    <3>1. requests[r] \in Request /\ Present(requests[r])
      BY <2>2 DEF TypeOK, Get
    <3>2. w.cur = r /\ w.request = requests[r]
      BY <3>1, RestTypes, Zenon DEF Worker
    <3>3. Step(p, w) /\ UNCHANGED <<requests, secrets>>
      BY <2>2, Zenon DEF Get
    <3> HIDE DEF w
    <3> QED
      BY <3>1, <3>2, <3>3, DatedSteps
  <2> QED
    BY <1>4, <2>1, <2>2 DEF Dequeue
<1>5. ASSUME NEW r \in Requests, UserStep(r) \/ GarbageCollect(r) \/ TokenAges(r)
      PROVE  GenerationsKept'
  <2>1. secrets[r] \in Secret
    BY DEF TypeOK
  <2>2. CASE DropSecret(r)
    <3>1. \A x \in Requests : SecretKept(x)
      BY <2>1, <2>2, Zenon DEF DropSecret, SecretKept, NoSecret, TypeOK
    <3> QED
      BY <1>3, <2>2, <3>1 DEF DropSecret, RequestGoesOn
  <2>3. CASE TokenAges(r)
    <3>1. /\ secrets'[r].cluster = secrets[r].cluster /\ secrets'[r].perms = secrets[r].perms
          /\ secrets'[r].generation = secrets[r].generation
          /\ secrets[r].age = "fresh" /\ \A x \in Requests \ {r} : secrets'[x] = secrets[x]
      BY <2>1, <2>3, Zenon DEF TokenAges, Secret, TypeOK
    <3> QED
      BY <1>3, <2>3, <3>1 DEF TokenAges, RequestGoesOn, SecretKept
  <2>4. ASSUME NEW q \in Request, Edit(r, q), Successor(r, q)
        PROVE  GenerationsKept'
    BY <1>3, <2>4, StoredKept DEF Edit, SecretKept
  <2> QED
    BY <1>5, <2>2, <2>3, <2>4, Edited DEF UserStep, DeleteSecret, GarbageCollect
<1>6. CASE UNCHANGED <<requests, secrets, worker>>
  BY <1>6, DatedKeeps DEF WorkerDated, RequestGoesOn, SecretKept
<1> QED
  BY <1>1, <1>2, <1>4, <1>5, <1>6 DEF Next, ClusterStep, vars, accessVars

----------------------------------------------------------------------------
(* Custody: the steps *)

\* The ways a pass can end early end it.
LEMMA Ends ==
    ASSUME TypeOK, NEW p \in Procs, worker[p].pc # "idle",
           Step(p, Fail(worker[p])) \/ Step(p, IdleWorker)
    PROVE  WorkerKept(p)
<1>1. Fail(worker[p]).pc = "commit" /\ IdleWorker.pc = "idle"
  BY InPass, WorkerOperators, RestTypes
<1>2. worker'[p] = Fail(worker[p]) \/ worker'[p] = IdleWorker
  BY DEF Step, TypeOK
<1> QED
  BY <1>1, <1>2 DEF WorkerKept

\* Whoever edits a request, the provider's finalizer stays, and with it what
\* the workers know.
LEMMA EditCustody ==
    ASSUME Custody, TypeOK', GenerationsKept', NEW r \in Requests,
           UserStep(r) \/ GarbageCollect(r) \/ TokenAges(r)
    PROVE  Custody'
<1> USE DEF Custody
<1>0. requests[r] \in Request /\ secrets[r] \in Secret
  BY DEF TypeOK
<1>1. CASE DropSecret(r)
  <2>1. \A x \in Requests : SecretKept(x)
    BY <1>0, <1>1, Zenon DEF DropSecret, SecretKept, NoSecret, TypeOK
  <2>2. StateKept /\ \A p \in Procs : WorkerKept(p)
    BY <1>1, <2>1 DEF DropSecret, StateKept, RestKept, RequestKept, RequestGoesOn, WorkerKept
  <2> QED
    BY <2>2, Quiet
<1>2. CASE TokenAges(r)
  <2>1. /\ secrets'[r].cluster = secrets[r].cluster /\ secrets'[r].perms = secrets[r].perms
        /\ secrets'[r].generation = secrets[r].generation
        /\ secrets[r].age = "fresh" /\ \A x \in Requests \ {r} : secrets'[x] = secrets[x]
    BY <1>0, <1>2, Zenon DEF TokenAges, Secret, TypeOK
  <2>2. \A x \in Requests : SecretKept(x)
    BY <2>1 DEF SecretKept
  <2>3. StateKept /\ \A p \in Procs : WorkerKept(p)
    BY <1>2, <2>2 DEF TokenAges, StateKept, RestKept, RequestKept, RequestGoesOn, WorkerKept
  <2> QED
    BY <2>3, Quiet
<1>3. ASSUME NEW q \in Request, Edit(r, q), Successor(r, q),
             Present(requests[r]) /\ requests[r].finalizer => q.finalizer
      PROVE  Custody'
  <2>1. \A x \in Requests : RequestKept(x)
    BY <1>3, StoredKept DEF Edit
  <2>2. StateKept
    BY <1>3, <2>1 DEF Edit, StateKept, RestKept, RequestKept, SecretKept
  <2>3. \A p \in Procs : WorkerKept(p)
    BY <1>3, OvertakenKept DEF Edit
  <2> QED
    BY <2>2, <2>3, Quiet
<1> QED
  BY <1>1, <1>2, <1>3, Edited DEF UserStep, DeleteSecret, GarbageCollect

\* The workqueue, the timers and a restart.
LEMMA ProcessCustody ==
    ASSUME Custody, TypeOK', GenerationsKept', SingleProcess, NEW p \in Procs,
           \/ Crash(p)
           \/ \E r \in Requests : Skip(p, r) \/ Get(p, r) \/ TimerFires(p, r)
    PROVE  Custody'
<1>1. TypeOK /\ UNCHANGED <<requests, secrets, contents, lifecycleVars>>
  BY DEF Custody, Crash, Skip, Get, TimerFires
<1>2. StateKept
  BY <1>1, SameState
<1>3. CASE Crash(p)
  <2>1. worker'[p].pc = "idle"
    BY <1>1, <1>3, RestTypes DEF Crash, Step, TypeOK
  <2> QED
    BY <1>2, <2>1, MovesOn DEF WorkerKept
<1>4. ASSUME NEW r \in Requests, Skip(p, r) \/ TimerFires(p, r)
      PROVE  Custody'
  BY <1>2, <1>4, Quiet DEF Skip, TimerFires, WorkerKept
<1>5. ASSUME NEW r \in Requests, Get(p, r)
      PROVE  Custody'
  <2> DEFINE w == [IdleWorker EXCEPT
                     !.pc = IF requests[r].op = "reconcile" THEN "operation" ELSE "responsible",
                     !.cur = r, !.request = requests[r]]
  <2>1. requests[r] \in Request /\ Present(requests[r])
    BY <1>1, <1>5 DEF TypeOK, Get
  <2>2. w.cur = r /\ w.request = requests[r] /\ w.pc \in {"operation", "responsible"}
    BY <2>1, RestTypes, Zenon DEF Worker
  <2>3. worker'[p] = w
    BY <1>1, <1>5, Zenon DEF Get, Step, TypeOK
  <2> HIDE DEF w
  <2>4. PassKnows(p)' /\ PassGrants(p)'
    BY <1>1, <2>1, <2>2, <2>3 DEF PassKnows, PassGrants, Ensured, ClusterSteps, GrantSteps, Deleting
  <2> QED
    BY <1>2, <2>4, MovesOn
<1> QED
  BY <1>3, <1>4, <1>5

\* A pass comes to know its Cluster.
LEMMA FindsCluster ==
    ASSUME Custody, TypeOK', GenerationsKept', SingleProcess, NoneAdopted, NEW p \in Procs,
           Responsible(p) \/ GetCluster(p)
    PROVE  Custody'
<1> DEFINE me == worker[p]
<1>1. /\ TypeOK /\ UNCHANGED <<requests, secrets, contents, lifecycleVars>>
      /\ me.pc \in {"responsible", "cluster"}
  BY DEF Custody, Responsible, GetCluster, At
<1>2. /\ StateKept /\ me \in Worker /\ me.cur \in Requests
      /\ life' = life /\ contents' = contents
  BY <1>1, SameState, InPass DEF lifecycleVars
<1>3. CASE Step(p, Fail(me)) \/ Step(p, IdleWorker)
  BY <1>1, <1>2, <1>3, Ends, MovesOn
<1>4. CASE Responsible(p) /\ Step(p, [me EXCEPT !.pc = "cluster"])
  <2> DEFINE w == [me EXCEPT !.pc = "cluster"]
  <2>1. w.pc = "cluster" /\ w.cur = me.cur /\ w.request = me.request
    BY <1>2, WorkerOperators DEF Labels
  <2>2. worker'[p] = w
    BY <1>1, <1>4 DEF Step, TypeOK
  <2> HIDE DEF w
  <2>3. PassKnows(p) /\ me.pc \notin {"idle", "commit"}
    BY <1>1 DEF Custody
  <2>4. PassKnows(p)' /\ PassGrants(p)'
    BY <1>1, <2>1, <2>2, <2>3
       DEF PassKnows, PassGrants, Ensured, ClusterSteps, GrantSteps, Deleting
  <2> QED
    BY <1>2, <2>4, MovesOn
<1>5. ASSUME NEW c \in Clusters, Exists(c), GetCluster(p), NEW l,
             \/ l = "exists" /\ Deleting(me) /\ me.request.finalizer
             \/ l = "commit"
             \/ l = "addFinalizer" /\ ~Deleting(me)
             \/ l \in {"target", "valid"} /\ ~Deleting(me) /\ me.request.finalizer,
             Step(p, [me EXCEPT !.target = c, !.pc = l])
      PROVE  Custody'
  <2> DEFINE w == [me EXCEPT !.target = c, !.pc = l]
  <2>1. w.pc = l /\ w.cur = me.cur /\ w.request = me.request /\ w.target = c
    BY <1>2, Zenon DEF Worker
  <2>2. worker'[p] = w
    BY <1>1, <1>5 DEF Step, TypeOK
  <2> HIDE DEF w
  <2>3. PassKnows(p) /\ me.pc \notin {"idle", "commit"}
    BY <1>1 DEF Custody
  <2>4. life[c] # "none"
    BY <1>5 DEF Exists
  <2>5. \A d \in Clusters \ {c} : contents[d][me.cur] = {}
    <3> SUFFICES ASSUME NEW d \in Clusters \ {c} PROVE contents[d][me.cur] = {}
      OBVIOUS
    <3>1. ~Exists(d)
      BY <1>5 DEF Custody, ClustersHold
    <3>2. k0s[d] = "absent"
      BY <3>1 DEF Custody, ClustersHold, BuiltOnLease, NoneAdopted
    <3> QED
      BY <1>2, <3>2 DEF Custody, ClustersHold
  <2>6. PassKnows(p)'
    <3>1. l # "removeFinalizer" /\ (l \in GrantSteps => ~Deleting(me))
      BY <1>5 DEF GrantSteps
    <3>2. l \in ClusterSteps \ {"addFinalizer"} => me.request.finalizer
      BY <1>5 DEF ClusterSteps, GrantSteps
    <3>3. l = "exists" => Deleting(me)
      BY <1>5
    <3> QED
      BY <1>1, <1>2, <2>1, <2>2, <2>3, <2>4, <2>5, <3>1, <3>2, <3>3 DEF PassKnows, Deleting
  <2>7. PassGrants(p)'
    BY <1>5, <2>1, <2>2 DEF PassGrants, Ensured
  <2> QED
    BY <1>2, <2>6, <2>7, MovesOn
<1>6. CASE Responsible(p)
  BY <1>3, <1>4, <1>6 DEF Responsible
<1>7. CASE GetCluster(p)
  <2>1. CASE Step(p, Fail(me))
    BY <1>3, <2>1
  <2>2. ASSUME NEW c \in Clusters, Exists(c), NEW l,
               Step(p, [me EXCEPT !.target = c, !.pc = l]),
               l = CASE Deleting(me) /\ me.request.finalizer -> "exists"
                     [] Deleting(me) /\ ~me.request.finalizer -> "commit"
                     [] ~Deleting(me) /\ ~me.request.finalizer -> "addFinalizer"
                     [] OTHER -> Granting(me)
        PROVE  Custody'
    <3>1. Deleting(me) \in BOOLEAN /\ me.request.finalizer \in BOOLEAN
      BY <1>2, Zenon DEF Deleting, Worker, Request
    <3>2. \/ l = "exists" /\ Deleting(me) /\ me.request.finalizer
          \/ l = "commit"
          \/ l = "addFinalizer" /\ ~Deleting(me)
          \/ l = Granting(me) /\ ~Deleting(me) /\ me.request.finalizer
      BY <2>2, <3>1
    <3>3. Granting(me) \in {"target", "valid"}
      BY DEF Granting
    <3> QED
      BY <1>5, <1>7, <2>2, <3>2, <3>3
  <2> QED
    BY <1>7, <2>1, <2>2 DEF GetCluster
<1> QED
  BY <1>6, <1>7

\* Steps that look before the pass acts.
LEMMA LooksCustody ==
    ASSUME Custody, TypeOK', GenerationsKept', SingleProcess, NEW p \in Procs,
           TokenStillValid(p) \/ TargetClient(p) \/ ClusterExists(p)
    PROVE  Custody'
<1> DEFINE me == worker[p]
           valid == [me EXCEPT !.pc = "commit", !.renew = TRUE]
<1>1. /\ TypeOK /\ UNCHANGED <<requests, secrets, contents, lifecycleVars>>
      /\ me.pc \in {"valid", "target", "exists"}
  BY DEF Custody, TokenStillValid, TargetClient, ClusterExists, At
<1>2. /\ StateKept /\ me \in Worker /\ me.cur \in Requests /\ me.target \in Clusters
      /\ life' = life /\ contents' = contents /\ me.request \in Request
  BY <1>1, SameState, InPass DEF lifecycleVars, ClusterSteps, GrantSteps
<1>3. CASE Step(p, Fail(me))
  BY <1>1, <1>2, <1>3, Ends, MovesOn
<1>4. CASE Step(p, valid)
  <2>1. valid.pc = "commit"
    BY <1>2, Zenon DEF Worker
  <2>2. worker'[p] = valid
    BY <1>1, <1>4 DEF Step, TypeOK
  <2> QED
    BY <1>2, <2>1, <2>2, MovesOn DEF WorkerKept
<1>5. ASSUME NEW l \in Labels, Step(p, [me EXCEPT !.pc = l]),
             \/ l = "target"
             \/ l = "cleanup" /\ Deleting(me)
             \/ l = "secret" /\ ~Deleting(me) /\ me.request.admin
             \/ l = "account" /\ ~Deleting(me)
             \/ l = "removeFinalizer" /\ me.pc = "exists" /\ k0s[me.target] = "absent"
      PROVE  Custody'
  <2> DEFINE w == [me EXCEPT !.pc = l]
  <2>1. w.pc = l /\ w.cur = me.cur /\ w.request = me.request /\ w.target = me.target
    BY <1>2, <1>5, WorkerOperators
  <2>2. worker'[p] = w
    BY <1>1, <1>5 DEF Step, TypeOK
  <2> HIDE DEF w
  <2>3. PassKnows(p) /\ me.pc \notin {"idle", "commit"} /\ me.pc \in ClusterSteps \ {"addFinalizer"}
    BY <1>1 DEF Custody, ClusterSteps, GrantSteps
  <2>4. l \in ClusterSteps /\ me.request.finalizer
    BY <1>5, <2>3 DEF PassKnows, ClusterSteps, GrantSteps
  <2>5. /\ l \in GrantSteps => ~Deleting(me)
        /\ l \in {"exists", "removeFinalizer"} => Deleting(me)
    BY <1>5, <2>3 DEF PassKnows, GrantSteps
  <2>6. l = "removeFinalizer" => contents[me.target][me.cur] = {}
    BY <1>2, <1>5 DEF Custody, ClustersHold
  <2>7. PassKnows(p)'
    BY <1>1, <1>2, <2>1, <2>2, <2>3, <2>4, <2>5, <2>6 DEF PassKnows, Deleting
  <2>8. PassGrants(p)'
    BY <1>5, <2>1, <2>2 DEF PassGrants, Ensured, Deleting
  <2> QED
    BY <1>2, <2>7, <2>8, MovesOn
<1>6. CASE TokenStillValid(p)
  <2>1. Step(p, valid) \/ Step(p, [me EXCEPT !.pc = "target"])
    BY <1>6, Zenon DEF TokenStillValid
  <2> HIDE DEF valid
  <2> QED
    BY <1>4, <1>5, <2>1 DEF Labels
<1>7. CASE TargetClient(p)
  <2>1. Deleting(me) \in BOOLEAN /\ me.request.admin \in BOOLEAN
    BY <1>2, Zenon DEF Deleting, Request
  <2>2. \/ Step(p, Fail(me))
        \/ Deleting(me) /\ Step(p, [me EXCEPT !.pc = "cleanup"])
        \/ ~Deleting(me) /\ me.request.admin /\ Step(p, [me EXCEPT !.pc = "secret"])
        \/ ~Deleting(me) /\ Step(p, [me EXCEPT !.pc = "account"])
    BY <1>7, <2>1 DEF TargetClient
  <2> QED
    BY <1>3, <1>5, <2>2 DEF Labels
<1>8. CASE ClusterExists(p)
  <2>1. \/ Step(p, Fail(me))
        \/ Step(p, [me EXCEPT !.pc = "target"])
        \/ k0s[me.target] = "absent" /\ Step(p, [me EXCEPT !.pc = "removeFinalizer"])
    BY <1>8 DEF ClusterExists
  <2> QED
    BY <1>3, <1>5, <1>8, <2>1 DEF Labels, ClusterExists, At
<1> QED
  BY <1>6, <1>7, <1>8

\* A write of the request by a pass that keeps its finalizer.
LEMMA WriteCustody ==
    ASSUME Custody, TypeOK', GenerationsKept', SingleProcess, NEW p \in Procs, NEW r \in Requests,
           NEW q \in Request, q.life = requests[r].life,
           q.perms = requests[r].perms, q.generation = requests[r].generation,
           requests[r].finalizer => q.finalizer,
           NEW w, Write(p, r, q, w), UNCHANGED <<secrets, contents, lifecycleVars>>,
           w.pc \in {"idle", "commit"} \/ (PassKnows(p)' /\ PassGrants(p)')
    PROVE  Custody'
<1>1. StateKept
  <2>1. \A x \in Requests : RequestKept(x)
    BY StoredKept DEF Write, Custody, Successor
  <2>2. \A x \in Requests : SecretKept(x)
    BY DEF SecretKept
  <2> QED
    BY <2>1, <2>2 DEF StateKept, RestKept, RequestKept
<1>2. worker'[p] = w
  BY OvertakenKept DEF Write, Custody
<1> QED
  BY <1>1, <1>2, MovesOn DEF WorkerKept

\* The annotation is removed, the finalizer added, the status patched.
LEMMA WritesCustody ==
    ASSUME Custody, TypeOK', GenerationsKept', SingleProcess, NEW p \in Procs,
           RemoveOperation(p) \/ AddFinalizer(p) \/ UpdateStatus(p)
    PROVE  Custody'
<1> DEFINE me == worker[p]
           r == me.cur
<1>1. /\ TypeOK /\ UNCHANGED <<secrets, contents, lifecycleVars>>
      /\ me.pc \in {"operation", "addFinalizer", "commit"}
      /\ life' = life /\ contents' = contents
  BY DEF Custody, RemoveOperation, AddFinalizer, UpdateStatus, At, lifecycleVars
<1>2. /\ me \in Worker /\ r \in Requests /\ requests[r] \in Request /\ me.request \in Request
      /\ Fail(me) \in Worker
  BY <1>1, InPass DEF Sound
<1>3. CASE (Step(p, Fail(me)) \/ Step(p, IdleWorker)) /\ UNCHANGED requests
  <2>1. StateKept
    BY <1>1, <1>3, SameState
  <2> QED
    BY <1>1, <1>3, <2>1, Ends, MovesOn
<1>4. CASE RemoveOperation(p)
  <2> DEFINE q == [requests[r] EXCEPT !.op = ""]
             w == [me EXCEPT !.pc = "responsible", !.request = q, !.stale = FALSE]
  <2>1. /\ q \in Request /\ q.life = requests[r].life /\ q.finalizer = requests[r].finalizer
        /\ q.perms = requests[r].perms /\ q.generation = requests[r].generation
    BY <1>2, RequestOperators DEF Operations
  <2>2. \/ Present(requests[r]) /\ Write(p, r, q, w)
        \/ Write(p, r, q, IdleWorker)
        \/ Abort(p) /\ UNCHANGED requests
    BY <1>4, Zenon DEF RemoveOperation
  <2>3. w.pc = "responsible" /\ w.cur = r /\ w.request = q
    <3> HIDE DEF q
    <3> QED
      BY <1>2, Zenon DEF Worker
  <2> HIDE DEF q, w
  <2>4. CASE Present(requests[r]) /\ Write(p, r, q, w)
    <3>1. worker'[p] = w
      BY <1>1, <1>2, <2>4, OvertakenKept DEF Write
    <3>2. requests'[r] = Collected(q)
      BY <1>1, <1>2, <2>4 DEF Write, Stored, TypeOK
    <3>3. /\ q.finalizer => requests'[r] = q
          /\ q.life = "deleting" => requests'[r].life \in {"deleting", "gone"}
      <4>1. [UnsetRequest EXCEPT !.life = "gone"].life = "gone"
        BY RestTypes, RequestOperators DEF Lives
      <4> QED
        BY <3>2, <4>1 DEF Collected
    <3>4. PassKnows(p)' /\ PassGrants(p)'
      BY <2>1, <2>3, <2>4, <3>1, <3>3
         DEF PassKnows, PassGrants, Ensured, ClusterSteps, GrantSteps, Deleting
    <3> QED
      BY <1>1, <1>2, <2>1, <2>4, <3>4, WriteCustody
  <2>5. CASE Write(p, r, q, IdleWorker)
    BY <1>1, <1>2, <2>1, <2>5, WriteCustody, RestTypes
  <2> QED
    BY <1>3, <2>2, <2>4, <2>5 DEF Abort
<1>5. CASE AddFinalizer(p)
  <2> DEFINE q == [requests[r] EXCEPT !.finalizer = TRUE]
             n == [me.request EXCEPT !.finalizer = TRUE]
             v == [me EXCEPT !.pc = Granting(me), !.request.finalizer = TRUE]
             w == [v EXCEPT !.wrote = TRUE]
             lost == [Fail(me) EXCEPT !.stale = TRUE]
  <2>1. /\ q \in Request /\ q.life = requests[r].life /\ q.finalizer
        /\ q.perms = requests[r].perms /\ q.generation = requests[r].generation
        /\ n \in Request /\ n.life = me.request.life /\ n.finalizer
        /\ n.admin = me.request.admin
    BY <1>2, RequestOperators
  <2>2. Granting(me) \in {"target", "valid"} /\ Granting(me) \in Labels
    BY DEF Granting, Labels
  <2>3. v \in Worker /\ v.pc = Granting(me) /\ v.cur = r /\ v.request = n /\ v.target = me.target
    BY <1>2, <2>1, <2>2, Zenon DEF Worker
  <2>4. \/ Present(requests[r]) /\ Write(p, r, q, w)
        \/ Write(p, r, q, lost)
        \/ Step(p, Fail(me)) /\ UNCHANGED requests
    BY <1>5, Zenon DEF AddFinalizer, Update
  <2> HIDE DEF q, n, v
  <2>5. /\ w.pc = Granting(me) /\ w.cur = r /\ w.request = n /\ w.target = me.target
        /\ lost.pc = "commit"
    BY <1>2, <2>3, WorkerOperators
  <2> HIDE DEF w, lost
  <2>6. CASE Present(requests[r]) /\ Write(p, r, q, w)
    <3>1. worker'[p] = w
      BY <1>1, <1>2, <2>6, OvertakenKept DEF Write
    <3>2. requests'[r] = q
      BY <1>1, <1>2, <2>1, <2>6 DEF Write, Stored, TypeOK, Collected
    <3>3. PassKnows(p) /\ me.pc = "addFinalizer"
      BY <1>5 DEF Custody, AddFinalizer, At
    <3>4. life[me.target] # "none" /\ ~Deleting(me)
      BY <3>3 DEF PassKnows, ClusterSteps, GrantSteps
    <3>5. ~Deleting(w)
      BY <2>1, <2>5, <3>4 DEF Deleting
    <3>6. PassKnows(p)'
      BY <1>1, <2>1, <2>2, <2>5, <2>6, <3>1, <3>2, <3>4, <3>5 DEF PassKnows
    <3>7. PassGrants(p)'
      BY <2>2, <2>5, <3>1 DEF PassGrants, Ensured
    <3> QED
      BY <1>1, <1>2, <2>1, <2>6, <3>6, <3>7, WriteCustody
  <2>7. CASE Write(p, r, q, lost)
    BY <1>1, <1>2, <2>1, <2>5, <2>7, WriteCustody
  <2> QED
    BY <1>3, <2>4, <2>6, <2>7
<1>6. CASE UpdateStatus(p)
  <2> DEFINE ready == IF me.again THEN "False" ELSE "True"
             q == [requests[r] EXCEPT !.granted = @ \/ me.granted,
                                      !.ready = IF ready = me.request.ready THEN @ ELSE ready]
  <2>1. /\ q \in Request /\ q.life = requests[r].life /\ q.finalizer = requests[r].finalizer
        /\ q.perms = requests[r].perms /\ q.generation = requests[r].generation
    BY <1>1, <1>6, PatchedStatus DEF UpdateStatus, At
  <2>2. \/ Write(p, r, q, IdleWorker)
        \/ Step(p, IdleWorker) /\ UNCHANGED requests
    <3> HIDE DEF q
    <3> QED
      BY <1>6 DEF UpdateStatus, Abort, q
  <2> HIDE DEF q
  <2> QED
    BY <1>1, <1>2, <1>3, <2>1, <2>2, WriteCustody, RestTypes
<1> QED
  BY <1>4, <1>5, <1>6

\* The finalizer is removed when no k0s cluster holds anything for the request.
LEMMA RemoveFinalizerCustody ==
    ASSUME Custody, TypeOK', GenerationsKept', SingleProcess, NEW p \in Procs, RemoveFinalizer(p)
    PROVE  Custody'
<1> DEFINE me == worker[p]
           r == me.cur
           q == [requests[r] EXCEPT !.finalizer = FALSE]
           v == [me EXCEPT !.pc = "commit"]
           w == [v EXCEPT !.wrote = TRUE]
           lost == [Fail(me) EXCEPT !.stale = TRUE]
<1>1. /\ TypeOK /\ UNCHANGED <<secrets, contents, lifecycleVars>>
      /\ me.pc = "removeFinalizer" /\ contents' = contents
  BY DEF Custody, RemoveFinalizer, At
<1>2. /\ me \in Worker /\ r \in Requests /\ requests[r] \in Request /\ me.target \in Clusters
      /\ Fail(me) \in Worker
  BY <1>1, InPass DEF Sound, ClusterSteps, GrantSteps
<1>3. /\ q \in Request /\ q.life = requests[r].life
      /\ q.perms = requests[r].perms /\ q.generation = requests[r].generation
  BY <1>2, RequestOperators
<1>4. v \in Worker /\ v.pc = "commit"
  BY <1>2, WorkerOperators DEF Labels
<1>5. \/ Write(p, r, q, w) \/ Write(p, r, q, lost)
      \/ Step(p, Fail(me)) /\ UNCHANGED requests
  BY Zenon DEF RemoveFinalizer, Update
<1> HIDE DEF q, v
<1>6. w.pc = "commit" /\ lost.pc = "commit"
  BY <1>2, <1>4, WorkerOperators
<1> HIDE DEF w, lost
<1>7. CASE Step(p, Fail(me)) /\ UNCHANGED requests
  <2>1. StateKept
    BY <1>1, <1>7, SameState
  <2> QED
    BY <1>1, <1>7, <2>1, Ends, MovesOn
<1>8. ASSUME NEW x, x.pc = "commit", Write(p, r, q, x)
      PROVE  Custody'
  <2>1. worker'[p] = x
    BY <1>1, <1>2, <1>8, OvertakenKept DEF Write
  <2>2. PassKnows(p)' /\ PassGrants(p)'
    BY <1>8, <2>1 DEF PassKnows, PassGrants, Ensured
  <2>3. requests'[r] = Collected(q) /\ \A y \in Requests \ {r} : requests'[y] = requests[y]
    BY <1>1, <1>2, <1>8 DEF Write, Stored, TypeOK
  <2>4. \/ requests'[r] = q
        \/ q.life = "deleting" /\ requests'[r].life = "gone"
    <3>1. [UnsetRequest EXCEPT !.life = "gone"].life = "gone"
      BY RestTypes, RequestOperators DEF Lives
    <3> QED
      BY <2>3, <3>1 DEF Collected
  <2>5. \A y \in Requests : RequestGoesOn(y) /\ SecretKept(y)
    BY <1>1, <1>2, <1>3, <1>8, StoredKept DEF Write, Successor, SecretKept
  <2>6. ClustersHold' /\ GrantsHold'
    BY <1>1, <2>5, KeptRest DEF RestKept
  <2>7. \A c \in Clusters : contents[c][r] = {}
    BY <1>1, <1>2 DEF Custody, PassKnows, ClusterSteps, GrantSteps
  <2>8. NothingLeftBehind'
    BY <1>1, <2>3, <2>7 DEF Custody, NothingLeftBehind
  <2>9. \A y \in Procs : PassKnows(y)' /\ PassGrants(y)'
    BY <2>2 DEF SingleProcess
  <2> QED
    BY <2>6, <2>8, <2>9, CustodyParts DEF StateHolds
<1> QED
  BY <1>5, <1>6, <1>7, <1>8

\* A call that went well.
Applied(p, items, w) ==
    LET me == worker[p]
    IN  /\ worker'[p] = w
        /\ contents'[me.target][me.cur] = items
        /\ \A d \in Clusters \ {me.target} : contents'[d][me.cur] = contents[d][me.cur]

\* What a k0s cluster holds for the request of the only worker in a pass changes.
LEMMA CallCustody ==
    ASSUME Custody, TypeOK', GenerationsKept', SingleProcess, NEW p \in Procs,
           worker[p].pc # "idle", worker[p].target \in Clusters,
           NEW items \in SUBSET Items, NEW w, Call(p, items, w),
           UNCHANGED <<requests, secrets, lifecycleVars>>,
           \/ Present(requests[worker[p].cur]) /\ requests[worker[p].cur].finalizer
           \/ items \subseteq Held(worker[p]),
           LET me == worker[p]
               s == secrets[me.cur]
           IN  /\ requests[me.cur].life = "live" /\ s.age \in {"fresh", "due"}
               /\ s.cluster = me.target /\ life[me.target] = "live"
               /\ Backed(s, requests[me.cur], Held(me))
               => Backed(s, requests[me.cur], items),
           Applied(p, items, w)
               => w.pc \in {"idle", "commit"} \/ (PassKnows(p)' /\ PassGrants(p)')
    PROVE  Custody'
<1> DEFINE me == worker[p]
           r == me.cur
           c == me.target
<1>1. /\ TypeOK /\ r \in Requests /\ c \in Clusters /\ life' = life /\ k0s' = k0s
      /\ slice' = slice
  BY InPass DEF Custody, lifecycleVars
<1>2. CASE contents' = contents /\ Step(p, Fail(me))
  <2>1. StateKept
    BY <1>1, <1>2, SameState
  <2> QED
    BY <1>1, <1>2, <2>1, Ends, MovesOn
<1>3. CASE /\ k0s[c] = "ready" /\ contents' = [contents EXCEPT ![c][r] = items]
           /\ Step(p, w) \/ Step(p, Fail(me))
  <2>1. /\ contents'[c][r] = items
        /\ \A d \in Clusters, x \in Requests :
               d # c \/ x # r => contents'[d][x] = contents[d][x]
    BY <1>1, <1>3 DEF TypeOK
  <2>2. NothingLeftBehind'
    <3> SUFFICES ASSUME NEW d \in Clusters, NEW x \in Requests, contents'[d][x] # {}
                 PROVE  Present(requests[x]) /\ requests[x].finalizer
      BY DEF NothingLeftBehind
    <3>1. CASE d # c \/ x # r
      BY <2>1, <3>1 DEF Custody, NothingLeftBehind
    <3>2. CASE d = c /\ x = r
      <4>1. CASE items \subseteq Held(me)
        <5>1. contents[c][r] # {}
          BY <2>1, <3>2, <4>1 DEF Held
        <5> QED
          BY <1>1, <3>2, <5>1 DEF Custody, NothingLeftBehind
      <4> QED
        BY <3>2, <4>1
    <3> QED
      BY <3>1, <3>2
  <2>3. GrantsHold'
    <3> SUFFICES ASSUME NEW x \in Requests,
                        requests[x].life = "live", secrets[x].age \in {"fresh", "due"},
                        life[secrets[x].cluster] = "live"
                 PROVE  Backed(secrets[x], requests[x], contents'[secrets[x].cluster][x])
      BY <1>1 DEF GrantsHold
    <3>1. Backed(secrets[x], requests[x], contents[secrets[x].cluster][x])
      BY DEF Custody, GrantsHold
    <3>2. secrets[x].cluster \in Clusters
      BY DEF Custody, ClustersHold
    <3>3. CASE secrets[x].cluster # c \/ x # r
      BY <2>1, <3>1, <3>2, <3>3
    <3>4. CASE secrets[x].cluster = c /\ x = r
      <4>1. Backed(secrets[x], requests[x], Held(me))
        BY <3>1, <3>4 DEF Held
      <4> QED
        BY <2>1, <3>4, <4>1
    <3> QED
      BY <3>3, <3>4
  <2>4. ClustersHold'
    <3>1. \A d \in Clusters, x \in Requests : contents'[d][x] # {} => k0s[d] # "absent"
      BY <1>3, <2>1 DEF Custody, ClustersHold
    <3> QED
      BY <1>1, <3>1 DEF Custody, ClustersHold, BuiltOnLease, Exists
  <2>5. PassKnows(p)' /\ PassGrants(p)'
    <3>1. CASE Step(p, w)
      <4>1. worker'[p] = w
        BY <1>1, <3>1 DEF Step, TypeOK
      <4>2. CASE w.pc \in {"idle", "commit"}
        BY <4>1, <4>2 DEF PassKnows, PassGrants, Ensured
      <4> QED
        BY <1>1, <2>1, <4>1, <4>2 DEF Applied
    <3>2. CASE Step(p, Fail(me))
      <4>1. worker'[p] = Fail(me) /\ Fail(me).pc = "commit"
        BY <1>1, <3>2, InPass, WorkerOperators DEF Step, TypeOK
      <4> QED
        BY <4>1 DEF PassKnows, PassGrants, Ensured
    <3> QED
      BY <1>3, <3>1, <3>2
  <2>6. \A q \in Procs : PassKnows(q)' /\ PassGrants(q)'
    BY <2>5 DEF SingleProcess
  <2> QED
    BY <2>2, <2>3, <2>4, <2>6, CustodyParts DEF StateHolds
<1> QED
  BY <1>2, <1>3, Zenon DEF Call

\* A pass that grants ensures one item after the other and then asks for the
\* token.
LEMMA EnsuresCustody ==
    ASSUME Custody, TypeOK', GenerationsKept', SingleProcess, NEW p \in Procs,
           EnsureServiceAccount(p) \/ EnsurePermission(p) \/ CreateToken(p)
    PROVE  Custody'
<1> DEFINE me == worker[p]
           r == me.cur
           c == me.target
           perms == me.request.perms
           started == [me EXCEPT !.pc = IF perms = {} THEN "token" ELSE "permissions",
                                 !.todo = perms]
           ensured(i) == [me EXCEPT !.pc = IF me.todo = {i} THEN "token" ELSE "permissions",
                                    !.todo = me.todo \ {i}]
           asked == [me EXCEPT !.pc = "secret"]
<1>1. /\ TypeOK /\ UNCHANGED <<requests, secrets, lifecycleVars>>
      /\ me.pc \in {"account", "permissions", "token"}
      /\ requests' = requests /\ secrets' = secrets /\ life' = life
  BY DEF Custody, EnsureServiceAccount, EnsurePermission, CreateToken, At, lifecycleVars
<1>2. /\ me \in Worker /\ r \in Requests /\ c \in Clusters /\ me.request \in Request
  BY <1>1, InPass DEF ClusterSteps, GrantSteps
<1>3. Held(me) \subseteq Items /\ perms \in Lists /\ me.todo \subseteq Entries
  <2>1. perms \in Lists /\ me.todo \subseteq Entries
    BY <1>2 DEF Request, Worker
  <2> QED
    BY <1>1, <1>2, <2>1 DEF Held, TypeOK
<1>4. PassKnows(p) /\ PassGrants(p) /\ me.pc \notin {"idle", "commit"}
  BY <1>1 DEF Custody
<1>5. /\ Present(requests[r]) /\ requests[r].finalizer /\ me.request.finalizer
      /\ ~Deleting(me) /\ life[c] # "none"
  BY <1>1, <1>4 DEF PassKnows, ClusterSteps, GrantSteps
<1>6. ASSUME NEW items \in SUBSET Items,
             LET s == secrets[r]
             IN  /\ requests[r].life = "live" /\ s.age \in {"fresh", "due"}
                 /\ Backed(s, requests[r], Held(me))
                 => Backed(s, requests[r], items),
             NEW w, Call(p, items, w),
             \/ w.pc \in {"idle", "commit"}
             \/ /\ w.pc \in {"permissions", "token", "secret"} /\ w.cur = r
                /\ w.target = c /\ w.request = me.request
                /\ w.todo \subseteq IF w.pc = "permissions" THEN perms ELSE {}
                /\ life[c] = "live" => (perms \ w.todo) \cup {Account} \subseteq items
      PROVE  Custody'
  <2>1. ASSUME Applied(p, items, w), w.pc \notin {"idle", "commit"}
        PROVE  PassKnows(p)' /\ PassGrants(p)'
    <3>1. PassKnows(p)'
      BY <1>1, <1>5, <1>6, <2>1
         DEF Applied, PassKnows, ClusterSteps, GrantSteps, Deleting
    <3>2. PassGrants(p)'
      BY <1>1, <1>6, <2>1 DEF Applied, PassGrants, Ensured
    <3> QED
      BY <3>1, <3>2
  <2> QED
    BY <1>1, <1>2, <1>5, <1>6, <2>1, CallCustody
<1>7. CASE EnsureServiceAccount(p)
  <2>1. Call(p, Held(me) \cup {Account}, started)
    BY <1>7, Zenon DEF EnsureServiceAccount
  <2>2. /\ started.pc = (IF perms = {} THEN "token" ELSE "permissions") /\ started.cur = r
        /\ started.target = c /\ started.request = me.request /\ started.todo = perms
    BY <1>2, Zenon DEF Worker
  <2>3. Held(me) \cup {Account} \in SUBSET Items
    BY <1>3 DEF Items
  <2> HIDE DEF started
  <2>4. /\ started.pc \in {"permissions", "token"}
        /\ started.todo \subseteq IF started.pc = "permissions" THEN perms ELSE {}
        /\ (perms \ started.todo) \cup {Account} \subseteq Held(me) \cup {Account}
    BY <2>2
  <2>5. Backed(secrets[r], requests[r], Held(me))
            => Backed(secrets[r], requests[r], Held(me) \cup {Account})
    BY DEF Backed, NamesOf
  <2> QED
    BY <1>6, <2>1, <2>2, <2>3, <2>4, <2>5
<1>8. CASE EnsurePermission(p)
  <2>1. PICK i \in me.todo : Call(p, Overwritten(Held(me), i), ensured(i))
    BY <1>8, Zenon DEF EnsurePermission
  <2> DEFINE w == ensured(i)
             items == Overwritten(Held(me), i)
  <2>2. /\ w.pc = (IF me.todo = {i} THEN "token" ELSE "permissions") /\ w.cur = r
        /\ w.target = c /\ w.request = me.request /\ w.todo = me.todo \ {i}
    BY <1>2, Zenon DEF Worker
  <2>3. items \in SUBSET Items
    BY <1>3 DEF Items, Overwritten
  <2>4. Call(p, items, w)
    BY <2>1
  <2>5. /\ me.todo \subseteq perms
        /\ life[c] = "live" => (perms \ me.todo) \cup {Account} \subseteq Held(me)
    BY <1>4, <1>5, <1>8 DEF PassGrants, Ensured, EnsurePermission, At, Held
  <2>6. i \in perms /\ i[1] # "serviceaccount" /\ Account[1] = "serviceaccount"
    BY <1>3, <2>5, AccessAssumption DEF Lists, Entries, Account
  \* No other entry of the list has the name of i, nor has the serviceaccount.
  <2>7. \A h \in perms \cup {Account} : h \in Held(me) \/ h = i => h \in items
    BY <1>3, <2>6 DEF Lists, Overwritten
  <2>8. NamesOf(Held(me)) \subseteq NamesOf(items)
    BY DEF NamesOf, Overwritten
  \* As long as the token is of the generation asked for, i is one of its own.
  <2>9. ASSUME requests[r].life = "live", secrets[r].age \in {"fresh", "due"},
               Backed(secrets[r], requests[r], Held(me))
        PROVE  Backed(secrets[r], requests[r], items)
    <3>1. /\ Copy(secrets[r], requests[r]) /\ Copy(me.request, requests[r])
          /\ secrets[r].generation <= me.request.generation
      BY <1>2, <1>4, <2>9 DEF Custody, GenerationsKept
    <3>2. /\ requests[r].generation \in Nat /\ secrets[r].generation \in Nat
          /\ me.request.generation \in Nat
      BY <1>1, <1>2 DEF TypeOK, Request, Secret
    <3>3. secrets[r].generation = requests[r].generation => secrets[r].perms = perms
      BY <3>1, <3>2 DEF Copy
    <3> QED
      BY <2>7, <2>8, <2>9, <3>3 DEF Backed
  <2> HIDE DEF w, items
  <2>10. /\ w.pc \in {"permissions", "token"}
         /\ w.todo \subseteq IF w.pc = "permissions" THEN perms ELSE {}
         /\ life[c] = "live" => (perms \ w.todo) \cup {Account} \subseteq items
    BY <2>2, <2>5, <2>7
  <2> QED
    BY <1>6, <2>2, <2>3, <2>4, <2>9, <2>10
<1>9. CASE CreateToken(p)
  <2>1. Call(p, Held(me), asked) \/ Call(p, Held(me), Fail(me))
    BY <1>9, Zenon DEF CreateToken
  <2>2. /\ asked.pc = "secret" /\ asked.cur = r /\ asked.target = c
        /\ asked.request = me.request /\ asked.todo = me.todo
    BY <1>2, WorkerOperators DEF Labels
  <2>3. Fail(me).pc = "commit"
    BY <1>2, WorkerOperators
  <2>4. /\ me.todo = {}
        /\ life[c] = "live" => (perms \ me.todo) \cup {Account} \subseteq Held(me)
    BY <1>4, <1>5, <1>9 DEF PassGrants, Ensured, CreateToken, At, Held
  <2> HIDE DEF asked
  <2> QED
    BY <1>3, <1>6, <2>1, <2>2, <2>3, <2>4
<1> QED
  BY <1>7, <1>8, <1>9

\* The cleanup takes nothing from the secret that was written, and leaves
\* nothing of a request that is deleted.
LEMMA CleanUpCustody ==
    ASSUME Custody, TypeOK', GenerationsKept', SingleProcess, NEW p \in Procs, CleanUp(p)
    PROVE  Custody'
<1> DEFINE me == worker[p]
           r == me.cur
           c == me.target
           s == secrets[r]
           stale == {h \in Held(me) : h[1] \notin Keep(me)}
           done == [me EXCEPT !.pc = IF Deleting(me) THEN "removeFinalizer" ELSE "commit",
                              !.renew = ~Deleting(me)]
<1>1. /\ TypeOK /\ UNCHANGED <<requests, secrets, lifecycleVars>> /\ me.pc = "cleanup"
      /\ requests' = requests /\ secrets' = secrets /\ life' = life
  BY DEF Custody, CleanUp, At, lifecycleVars
<1>2. /\ me \in Worker /\ r \in Requests /\ c \in Clusters /\ me.request \in Request
      /\ Held(me) \subseteq Items
  BY <1>1, InPass DEF ClusterSteps, GrantSteps, Held, TypeOK
<1>3. /\ done.pc = (IF Deleting(me) THEN "removeFinalizer" ELSE "commit")
      /\ done.cur = r /\ done.target = c /\ done.request = me.request
  BY <1>2, Zenon DEF Worker
<1>4. \/ stale = {} /\ Call(p, Held(me), done)
      \/ \E i \in stale :
             \/ stale = {i} /\ Call(p, Held(me) \ {i}, done)
             \/ Call(p, Held(me) \ {i}, me)
  <2> HIDE DEF done
  <2> QED
    BY DEF CleanUp, done
<1> HIDE DEF done
<1>5. PassKnows(p) /\ PassGrants(p)
  BY DEF Custody
<1>6. /\ Present(requests[r]) /\ requests[r].finalizer /\ me.request.finalizer
      /\ life[c] # "none"
      /\ Deleting(me) => /\ requests[r].life \in {"deleting", "gone"}
                         /\ \A d \in Clusters \ {c} : contents[d][r] = {}
  BY <1>1, <1>5 DEF PassKnows, ClusterSteps, GrantSteps
<1>7. ASSUME NEW items \in SUBSET Held(me), NEW w, Call(p, items, w),
             Held(me) \ stale \subseteq items,
             w = me \/ (w = done /\ (Deleting(me) => items = {}))
      PROVE  Custody'
  <2>1. ~Deleting(me) => Keep(me) = NamesOf(me.request.perms \cup {Account})
    BY DEF Keep
  <2>2. /\ requests[r].life = "live" /\ s.age \in {"fresh", "due"}
        /\ s.cluster = c /\ life[c] = "live" /\ Backed(s, requests[r], Held(me))
        => Backed(s, requests[r], items)
    <3> SUFFICES ASSUME requests[r].life = "live", s.age \in {"fresh", "due"},
                        Backed(s, requests[r], Held(me))
                 PROVE  Backed(s, requests[r], items)
      OBVIOUS
    <3>1. ~Deleting(me)
      BY <1>6
    <3>2. s.perms = me.request.perms
      BY <1>1, <1>5, <3>1 DEF PassGrants, Ensured
    <3>3. \A h \in Held(me) : h[1] \in NamesOf(s.perms \cup {Account}) => h \in items
      BY <1>7, <2>1, <3>1, <3>2
    <3>4. NamesOf(s.perms \cup {Account}) \subseteq NamesOf(items)
      <4> SUFFICES ASSUME NEW n \in NamesOf(s.perms \cup {Account}) PROVE n \in NamesOf(items)
        OBVIOUS
      <4>1. n \in NamesOf(Held(me))
        BY DEF Backed
      <4>2. PICK h \in Held(me) : h[1] = n
        BY <4>1 DEF NamesOf
      <4> QED
        BY <3>3, <4>2 DEF NamesOf
    <3>5. s.perms \cup {Account} \subseteq Held(me) => s.perms \cup {Account} \subseteq items
      BY <3>3 DEF NamesOf
    <3> QED
      BY <3>4, <3>5 DEF Backed
  <2>3. ASSUME Applied(p, items, w), w.pc \notin {"idle", "commit"}
        PROVE  PassKnows(p)' /\ PassGrants(p)'
    <3>1. w.cur = r /\ w.target = c /\ w.request = me.request
      BY <1>3, <1>7
    <3>2. Deleting(me) => /\ \A d \in Clusters \ {c} : contents'[d][r] = {}
                          /\ w.pc = "removeFinalizer" => contents'[c][r] = {}
      BY <1>1, <1>6, <1>7, <2>3 DEF Applied
    <3>3. w.pc \in {"cleanup", "removeFinalizer"} /\ (w.pc = "removeFinalizer" => Deleting(me))
      BY <1>1, <1>3, <1>7, <2>3
    <3>4. PassKnows(p)'
      BY <1>1, <1>6, <2>3, <3>1, <3>2, <3>3
         DEF Applied, PassKnows, ClusterSteps, GrantSteps, Deleting
    <3>5. PassGrants(p)'
      <4>1. CASE Deleting(me)
        BY <2>3, <3>1, <4>1 DEF Applied, PassGrants, Ensured, Deleting
      <4>2. CASE ~Deleting(me) /\ w = me
        <5>1. Ensured(me) /\ me.todo = {}
          BY <1>1, <1>5, <4>2 DEF PassGrants, Ensured
        <5>2. life[c] = "live" => me.request.perms \cup {Account} \subseteq contents[c][r]
          BY <1>5, <5>1 DEF PassGrants
        <5>3. life[c] = "live" => me.request.perms \cup {Account} \subseteq items
          BY <1>7, <2>1, <4>2, <5>2 DEF Held, NamesOf
        <5> QED
          BY <1>1, <1>5, <2>3, <4>2, <5>1, <5>3 DEF Applied, PassGrants
      <4> QED
        BY <1>3, <1>7, <3>3, <4>1, <4>2
    <3> QED
      BY <3>4, <3>5
  <2> QED
    BY <1>1, <1>2, <1>6, <1>7, <2>2, <2>3, CallCustody
<1>8. Deleting(me) => stale = Held(me)
  BY DEF Keep
<1> HIDE DEF stale
<1>9. CASE stale = {} /\ Call(p, Held(me), done)
  BY <1>7, <1>8, <1>9
<1>10. ASSUME NEW i \in stale,
              \/ stale = {i} /\ Call(p, Held(me) \ {i}, done)
              \/ Call(p, Held(me) \ {i}, me)
       PROVE  Custody'
  <2>1. Held(me) \ {i} \in SUBSET Held(me) /\ Held(me) \ stale \subseteq Held(me) \ {i}
    OBVIOUS
  <2>2. CASE stale = {i} /\ Call(p, Held(me) \ {i}, done)
    BY <1>7, <1>8, <2>1, <2>2
  <2>3. CASE Call(p, Held(me) \ {i}, me)
    BY <1>7, <2>1, <2>3
  <2> QED
    BY <1>10, <2>2, <2>3
<1> QED
  BY <1>4, <1>9, <1>10

\* The secret leads to what the pass has ensured.
LEMMA WriteSecretCustody ==
    ASSUME Custody, TypeOK', GenerationsKept', SingleProcess, NEW p \in Procs, WriteSecret(p)
    PROVE  Custody'
<1> DEFINE me == worker[p]
           r == me.cur
           c == me.target
           admin == me.request.admin
           s == [cluster |-> me.target,
                 perms |-> IF me.request.admin THEN {} ELSE me.request.perms,
                 generation |-> me.request.generation,
                 age |-> IF me.request.admin THEN "never" ELSE "fresh"]
           w == [me EXCEPT !.granted = TRUE,
                           !.pc = IF me.request.admin THEN "commit" ELSE "cleanup"]
<1>1. /\ TypeOK /\ UNCHANGED <<requests, contents, lifecycleVars>> /\ me.pc = "secret"
      /\ requests' = requests /\ contents' = contents /\ life' = life /\ k0s' = k0s
      /\ slice' = slice
  BY DEF Custody, WriteSecret, At, lifecycleVars
<1>2. /\ me \in Worker /\ r \in Requests /\ c \in Clusters /\ Sound(Fail(me))
  BY <1>1, InPass DEF ClusterSteps, GrantSteps
<1>3. /\ w.pc = (IF admin THEN "commit" ELSE "cleanup")
      /\ w.cur = r /\ w.target = c /\ w.request = me.request /\ w.todo = me.todo
  BY <1>2, Zenon DEF Worker
<1>4. /\ s.cluster = c /\ s.age = (IF admin THEN "never" ELSE "fresh")
      /\ s.perms = IF admin THEN {} ELSE me.request.perms
  OBVIOUS
<1> HIDE DEF s, w
<1>5. \/ secrets' = [secrets EXCEPT ![r] = s] /\ (Step(p, w) \/ Step(p, Fail(me)))
      \/ UNCHANGED secrets /\ Step(p, Fail(me))
  BY Zenon DEF WriteSecret, s, w
<1>6. PassKnows(p) /\ PassGrants(p)
  BY DEF Custody
<1>7. /\ Present(requests[r]) /\ requests[r].finalizer /\ me.request.finalizer
      /\ ~Deleting(me) /\ life[c] # "none"
  BY <1>1, <1>6 DEF PassKnows, ClusterSteps, GrantSteps
<1>8. ~admin => /\ me.todo = {}
                /\ life[c] = "live" => me.request.perms \cup {Account} \subseteq contents[c][r]
  BY <1>1, <1>6, <1>7 DEF PassGrants, Ensured
<1>9. CASE UNCHANGED secrets /\ Step(p, Fail(me))
  <2>1. StateKept
    BY <1>1, <1>9, SameState
  <2> QED
    BY <1>1, <1>9, <2>1, Ends, MovesOn
<1>10. CASE secrets' = [secrets EXCEPT ![r] = s] /\ (Step(p, w) \/ Step(p, Fail(me)))
  <2>1. secrets'[r] = s /\ \A x \in Requests \ {r} : secrets'[x] = secrets[x]
    BY <1>1, <1>2, <1>10 DEF TypeOK
  <2>2. NothingLeftBehind'
    BY <1>1 DEF Custody, NothingLeftBehind
  <2>3. ClustersHold'
    <3>1. BuiltOnLease'
      BY <1>1 DEF Custody, ClustersHold, BuiltOnLease, Exists
    <3>2. \A x \in Requests : secrets'[x].age # "none" =>
              /\ requests[x].life # "none"
              /\ secrets'[x].cluster \in Clusters /\ life[secrets'[x].cluster] # "none"
      BY <1>2, <1>4, <1>7, <2>1 DEF Custody, ClustersHold
    <3> QED
      BY <1>1, <3>1, <3>2 DEF Custody, ClustersHold, Exists
  <2>4. GrantsHold'
    <3> SUFFICES ASSUME NEW x \in Requests,
                        requests[x].life = "live", secrets'[x].age \in {"fresh", "due"},
                        life[secrets'[x].cluster] = "live"
                 PROVE  Backed(secrets'[x], requests[x], contents[secrets'[x].cluster][x])
      BY <1>1 DEF GrantsHold
    <3>1. CASE x # r
      BY <2>1, <3>1 DEF Custody, GrantsHold
    <3>2. CASE x = r
      BY <1>4, <1>8, <2>1, <3>2 DEF Backed, NamesOf
    <3> QED
      BY <3>1, <3>2
  <2>5. PassKnows(p)' /\ PassGrants(p)'
    <3>1. CASE worker'[p].pc \in {"idle", "commit"}
      BY <3>1 DEF PassKnows, PassGrants, Ensured
    <3>2. CASE worker'[p] = w /\ ~admin
      <4>1. PassKnows(p)'
        BY <1>1, <1>3, <1>7, <3>2 DEF PassKnows, ClusterSteps, GrantSteps, Deleting
      <4>2. PassGrants(p)'
        BY <1>1, <1>3, <1>4, <1>8, <2>1, <3>2 DEF PassGrants, Ensured
      <4> QED
        BY <4>1, <4>2
    <3>3. worker'[p] = w \/ worker'[p] = Fail(me)
      BY <1>1, <1>10 DEF Step, TypeOK
    <3>4. Fail(me).pc = "commit"
      BY <1>2, WorkerOperators
    <3> QED
      BY <1>3, <3>1, <3>2, <3>3, <3>4
  <2>6. \A q \in Procs : PassKnows(q)' /\ PassGrants(q)'
    BY <2>5 DEF SingleProcess
  <2> QED
    BY <2>2, <2>3, <2>4, <2>6, CustodyParts DEF StateHolds
<1> QED
  BY <1>5, <1>9, <1>10

\* Clusters are built and torn down within their lease, and one of them has the
\* name at a time.
LEMMA ClusterParts ==
    ASSUME Custody, NoneAdopted, NEW c \in Clusters, ClusterStep(c)
    PROVE  /\ \A d \in Clusters : k0s'[d] # "absent" => Exists(d)' /\ slice'[d] # NoSubnet
           /\ \A d, e \in Clusters : Exists(d)' /\ Exists(e)' => d = e
           /\ \A d \in Clusters : life[d] # "none" => life'[d] # "none"
           /\ \A d \in Clusters : life[d] # "none" /\ life'[d] = "live" =>
                  life[d] = "live" /\ (k0s'[d] = "absent" => k0s[d] = "absent")
           /\ \A d \in Clusters \ {c} : k0s'[d] = k0s[d]
<1>1. /\ LifecycleTypeOK
      /\ \A d \in Clusters : k0s[d] # "absent" => Exists(d) /\ slice[d] # NoSubnet
      /\ \A d, e \in Clusters : Exists(d) /\ Exists(e) => d = e
  BY DEF Custody, TypeOK, ClustersHold, BuiltOnLease, NoneAdopted
<1>2. /\ \A d \in Clusters \ {c} : life'[d] = life[d] /\ slice'[d] = slice[d] /\ k0s'[d] = k0s[d]
      /\ \/ life[c] = "none" /\ life'[c] = "live" /\ slice'[c] = slice[c] /\ k0s'[c] = k0s[c]
            /\ \A d \in Clusters : ~Exists(d)
         \/ life[c] = "live" /\ life'[c] \in {"deleting", "gone"} /\ slice'[c] = slice[c]
            /\ k0s'[c] = k0s[c] /\ (life'[c] = "gone" => slice[c] = NoSubnet)
         \/ life'[c] = life[c] /\ k0s'[c] = k0s[c] /\ slice'[c] \in Slices
         \/ life'[c] = life[c] /\ slice'[c] = slice[c] /\ k0s'[c] # "absent"
            /\ (k0s[c] = "absent" => Exists(c) /\ slice[c] # NoSubnet)
         \/ life'[c] = life[c] /\ slice'[c] = slice[c] /\ life[c] = "deleting"
            /\ k0s'[c] = "absent"
         \/ life[c] = "deleting" /\ life'[c] = "gone" /\ k0s'[c] = k0s[c]
            /\ (slice[c] # NoSubnet => k0s[c] = "absent")
  <2> USE <1>1 DEF LifecycleTypeOK, ClusterStep
  <2>1. CASE Create(c)
    BY <2>1 DEF Create
  <2>2. CASE Delete(c)
    BY <2>2 DEF Delete
  <2>3. CASE \E s \in Slices : Lease(c, s)
    BY <2>3 DEF Lease
  <2>4. CASE Build(c)
    BY <2>4 DEF Build
  <2>5. CASE Start(c)
    BY <2>5 DEF Start
  <2>6. CASE Boot(c)
    BY <2>6 DEF Boot
  <2>7. CASE TearDown(c)
    BY <2>7 DEF TearDown
  <2>8. CASE Vanish(c)
    BY <2>8 DEF Vanish
  <2> QED
    BY <2>1, <2>2, <2>3, <2>4, <2>5, <2>6, <2>7, <2>8 DEF LifecycleStep
<1>3. \A d \in Clusters : k0s'[d] # "absent" => Exists(d)' /\ slice'[d] # NoSubnet
  <2>1. \A d \in Clusters \ {c} : k0s'[d] # "absent" => Exists(d)' /\ slice'[d] # NoSubnet
    BY <1>1, <1>2 DEF Exists
  <2>2. k0s'[c] # "absent" => Exists(c)' /\ slice'[c] # NoSubnet
    BY <1>1, <1>2, LifecycleAssumption DEF Exists
  <2> QED
    BY <2>1, <2>2
<1>4. \A d, e \in Clusters : Exists(d)' /\ Exists(e)' => d = e
  <2>1. \A d \in Clusters \ {c} : Exists(d)' <=> Exists(d)
    BY <1>2 DEF Exists
  <2>2. Exists(c)' => Exists(c) \/ \A d \in Clusters : ~Exists(d)
    BY <1>2 DEF Exists
  <2> QED
    BY <1>1, <2>1, <2>2
<1>5. /\ \A d \in Clusters : life[d] # "none" => life'[d] # "none"
      /\ \A d \in Clusters : life[d] # "none" /\ life'[d] = "live" =>
             life[d] = "live" /\ (k0s'[d] = "absent" => k0s[d] = "absent")
  BY <1>2
<1> QED
  BY <1>2, <1>3, <1>4, <1>5

\* What becomes of a Cluster takes nothing from a request before it is deleted.
LEMMA ClusterCustody ==
    ASSUME Custody, TypeOK', GenerationsKept', NoneAdopted, NEW c \in Clusters, ClusterStep(c)
    PROVE  Custody'
<1>1. TypeOK /\ requests' = requests /\ secrets' = secrets /\ worker' = worker
  BY DEF Custody, ClusterStep
<1>2. \A d \in Clusters, r \in Requests :
          contents'[d][r] = contents[d][r] \/ (contents'[d][r] = {} /\ k0s'[d] = "absent")
  BY <1>1 DEF ClusterStep, TypeOK
<1>3. \A d \in Clusters, r \in Requests : contents'[d][r] # {} => k0s'[d] # "absent"
  <2>1. \A r \in Requests : contents'[c][r] # {} => k0s'[c] # "absent"
    BY <1>1 DEF ClusterStep, TypeOK
  <2>2. \A d \in Clusters \ {c}, r \in Requests : contents'[d][r] # {} => k0s'[d] # "absent"
    BY <1>2, ClusterParts DEF Custody, ClustersHold
  <2> QED
    BY <2>1, <2>2
\* What a live Cluster holds stays.
<1>4. \A d \in Clusters, r \in Requests :
          life[d] # "none" /\ life'[d] = "live" =>
              life[d] = "live" /\ contents'[d][r] = contents[d][r]
  <2> SUFFICES ASSUME NEW d \in Clusters, NEW r \in Requests,
                      life[d] # "none", life'[d] = "live"
               PROVE  life[d] = "live" /\ contents'[d][r] = contents[d][r]
    OBVIOUS
  <2>1. life[d] = "live" /\ (k0s'[d] = "absent" => k0s[d] = "absent")
    BY ClusterParts
  <2>2. k0s[d] = "absent" => contents[d][r] = {}
    BY DEF Custody, ClustersHold
  <2> QED
    BY <1>2, <2>1, <2>2
<1>5. NothingLeftBehind'
  BY <1>1, <1>2 DEF Custody, NothingLeftBehind
<1>6. ClustersHold'
  <2>1. BuiltOnLease'
    BY ClusterParts DEF BuiltOnLease
  <2>2. \A r \in Requests : secrets'[r].age # "none" =>
            /\ requests'[r].life # "none"
            /\ secrets'[r].cluster \in Clusters /\ life'[secrets'[r].cluster] # "none"
    BY <1>1, ClusterParts DEF Custody, ClustersHold
  <2>3. \A d, e \in Clusters : Exists(d)' /\ Exists(e)' => d = e
    BY ClusterParts
  <2> QED
    BY <1>3, <2>1, <2>2, <2>3 DEF ClustersHold
<1>7. GrantsHold'
  <2> SUFFICES ASSUME NEW r \in Requests,
                      requests[r].life = "live", secrets[r].age \in {"fresh", "due"},
                      life'[secrets[r].cluster] = "live"
               PROVE  Backed(secrets[r], requests[r], contents'[secrets[r].cluster][r])
    BY <1>1 DEF GrantsHold
  <2>1. secrets[r].cluster \in Clusters /\ life[secrets[r].cluster] # "none"
    BY DEF Custody, ClustersHold
  <2>2. /\ life[secrets[r].cluster] = "live"
        /\ contents'[secrets[r].cluster][r] = contents[secrets[r].cluster][r]
    BY <1>4, <2>1
  <2> QED
    BY <2>2 DEF Custody, GrantsHold
<1>8. ASSUME NEW p \in Procs
      PROVE  PassKnows(p)' /\ PassGrants(p)'
  <2> DEFINE me == worker[p]
  <2>1. PassKnows(p) /\ PassGrants(p)
    BY DEF Custody
  <2>2. CASE me.pc \in {"idle", "commit"}
    BY <1>1, <2>2 DEF PassKnows, PassGrants, Ensured
  <2>3. CASE me.pc \notin {"idle", "commit"}
    <3>1. me.cur \in Requests /\ (me.pc \in ClusterSteps => me.target \in Clusters)
      BY <1>1, <2>3, InPass
    <3>2. \A d \in Clusters : /\ contents[d][me.cur] = {} => contents'[d][me.cur] = {}
                              /\ life[d] # "none" => life'[d] # "none"
      BY <1>2, <3>1, ClusterParts
    <3>3. PassKnows(p)'
      BY <1>1, <2>1, <2>3, <3>1, <3>2 DEF PassKnows, ClusterSteps, GrantSteps, Deleting
    <3>4. PassGrants(p)'
      <4>1. CASE ~Ensured(me)
        BY <1>1, <4>1 DEF PassGrants, Ensured, Deleting
      <4>2. CASE Ensured(me)
        <5>1. me.pc \in ClusterSteps
          BY <4>2 DEF Ensured, ClusterSteps, GrantSteps
        <5>2. life[me.target] # "none"
          BY <2>1, <2>3, <5>1 DEF PassKnows
        <5>3. life'[me.target] = "live" =>
                  life[me.target] = "live" /\ contents'[me.target][me.cur] = contents[me.target][me.cur]
          BY <1>4, <3>1, <5>1, <5>2
        <5> QED
          BY <1>1, <2>1, <4>2, <5>3 DEF PassGrants
      <4> QED
        BY <4>1, <4>2
    <3> QED
      BY <3>3, <3>4
  <2> QED
    BY <2>2, <2>3
<1> QED
  BY <1>5, <1>6, <1>7, <1>8, CustodyParts DEF StateHolds

----------------------------------------------------------------------------
(* The theorems *)

\* The invariant holds initially.
LEMMA CustodyInit == ASSUME NoneAdopted, Init PROVE Custody
<1>1. TypeOK
  BY TypeInit
<1>2. /\ life = [c \in Clusters |-> "none"] /\ k0s = [c \in Clusters |-> "absent"]
      /\ \A r \in Requests : secrets[r].age = "none"
      /\ \A c \in Clusters, r \in Requests : contents[c][r] = {}
      /\ \A p \in Procs : worker[p].pc = "idle"
  <2>1. NoSecret.age = "none" /\ IdleWorker.pc = "idle"
    BY DEF NoSecret, IdleWorker
  <2> QED
    BY <2>1 DEF Init, LifecycleInit, NoneAdopted
<1>3. NothingLeftBehind /\ GrantsHold
  BY <1>2 DEF NothingLeftBehind, GrantsHold
<1>4. ClustersHold
  BY <1>2 DEF ClustersHold, BuiltOnLease, Exists
<1>5. \A p \in Procs : PassKnows(p) /\ PassGrants(p)
  BY <1>2 DEF PassKnows, PassGrants, Ensured
<1>6. GenerationsKept
  BY <1>2 DEF GenerationsKept
<1> QED
  BY <1>1, <1>3, <1>4, <1>5, <1>6 DEF Custody

\* Every step keeps it.
LEMMA CustodyStep ==
    ASSUME SingleProcess, NoneAdopted, Custody, [Next]_vars
    PROVE  Custody'
<1>0. TypeOK' /\ GenerationsKept'
  BY TypeStep, GenerationsStep DEF Custody
<1>1. ASSUME NEW p \in Procs, Pass(p) PROVE Custody'
  BY <1>0, <1>1, FindsCluster, LooksCustody, WritesCustody, RemoveFinalizerCustody,
     EnsuresCustody, CleanUpCustody, WriteSecretCustody DEF Pass
<1>2. ASSUME NEW p \in Procs, Crash(p) PROVE Custody'
  BY <1>0, <1>2, ProcessCustody
<1>3. ASSUME NEW p \in Procs, NEW r \in Requests, Dequeue(p, r) \/ TimerFires(p, r)
      PROVE  Custody'
  BY <1>0, <1>3, ProcessCustody DEF Dequeue
<1>4. ASSUME NEW r \in Requests, UserStep(r) \/ GarbageCollect(r) \/ TokenAges(r)
      PROVE  Custody'
  BY <1>0, <1>4, EditCustody
<1>5. ASSUME NEW c \in Clusters, ClusterStep(c) PROVE Custody'
  BY <1>0, <1>5, ClusterCustody
<1>6. CASE UNCHANGED vars
  <2>1. StateKept
    BY <1>6, SameState DEF vars, accessVars, Custody
  <2>2. \A p \in Procs : WorkerKept(p)
    BY <1>6 DEF vars, accessVars, WorkerKept
  <2> QED
    BY <1>0, <2>1, <2>2, Quiet
<1> QED
  BY <1>1, <1>2, <1>3, <1>4, <1>5, <1>6 DEF Next

\* With a single provider process what a pass knows of its request and its
\* Cluster stays true until it acts on it (Custody is inductive).
THEOREM CustodyKept ==
    ASSUME SingleProcess, NoneAdopted
    PROVE  Spec => []Custody
BY CustodyInit, CustodyStep, PTL DEF Spec

\* With a single provider process nothing is left in a k0s cluster for a request
\* that is gone, however the deletion of the request and of the Cluster, passes,
\* faults and restarts interleave.
THEOREM NothingIsLeft ==
    ASSUME SingleProcess, NoneAdopted
    PROVE  Spec => []NothingLeftBehind
<1>1. Custody => NothingLeftBehind
  BY DEF Custody
<1> QED
  BY <1>1, CustodyKept, PTL

\* With a single provider process nothing of what a token was given out for is
\* ever missing until its request or its Cluster is deleted, and all of it stays
\* what it was until the permissions of the request are edited: an edited entry
\* is written over what has its name, the token in use or not.
THEOREM GrantsAreKept ==
    ASSUME SingleProcess, NoneAdopted
    PROVE  Spec => []GrantsHold
<1>1. Custody => GrantsHold
  BY DEF Custody
<1> QED
  BY <1>1, CustodyKept, PTL

=============================================================================

---------------------- MODULE ClusterControllerProofs ----------------------
(***************************************************************************)
(* What holds of ClusterController for every set of Clusters, every range  *)
(* of slices and every number of faults and edits.                         *)
(***************************************************************************)
EXTENDS ClusterController, FiniteSetTheorems, TLAPS

USE DEF Present

----------------------------------------------------------------------------
(* Types of the operators the actions are built from. *)

\* The sets the types are made of.
LEMMA ObjectTypes ==
    /\ NoObject \in Object
    /\ EmptyStatus \in Status
    /\ IdleWorker \in Worker
BY Zenon DEF NoObject, EmptyStatus, IdleWorker, Object, Status, Worker, Labels,
       Operations, Phases, ConditionStatus

\* Decoding a status and patching one yield a status.
LEMMA StatusOperators ==
    ASSUME NEW m \in Status, NEW s \in Status, NEW n \in Status
    PROVE  /\ DecodedStatus(m, s) \in Status
           /\ PatchedStatus(s, m, n) \in Status
<1>1. ASSUME NEW l \in Status, NEW ph \in Phases, NEW pr \in BOOLEAN, NEW en \in BOOLEAN
      PROVE  [phase |-> ph, k0s |-> l.k0s, metallb |-> l.metallb,
              ready |-> l.ready, provider |-> pr, endpoints |-> en] \in Status
  BY Zenon DEF Status
<1>2. DecodedStatus(m, s) \in Status
  <2> DEFINE ph == IF s.phase = "" THEN m.phase ELSE s.phase
             pr == m.provider \/ s.provider
             en == m.endpoints \/ s.endpoints
             l == IF Conditions(s) = <<"", "", "">> THEN m ELSE s
  <2>1. l \in Status
    OBVIOUS
  <2>2. ph \in Phases
    BY DEF Status
  <2>3. pr \in BOOLEAN /\ en \in BOOLEAN
    OBVIOUS
  <2> HIDE DEF l, ph, pr, en
  <2>4. [phase |-> ph, k0s |-> l.k0s, metallb |-> l.metallb,
         ready |-> l.ready, provider |-> pr, endpoints |-> en] \in Status
    BY <1>1, <2>1, <2>2, <2>3
  <2> QED
    BY <2>4 DEF DecodedStatus, l, ph, pr, en
<1>3. PatchedStatus(s, m, n) \in Status
  <2> DEFINE ph == IF n.phase # m.phase THEN n.phase ELSE s.phase
             pr == IF n.provider # m.provider THEN n.provider ELSE s.provider
             en == IF n.endpoints # m.endpoints THEN n.endpoints ELSE s.endpoints
             l == IF Conditions(n) # Conditions(m) THEN n ELSE s
  <2>1. l \in Status
    OBVIOUS
  <2>2. ph \in Phases
    BY DEF Status
  <2>3. pr \in BOOLEAN /\ en \in BOOLEAN
    BY Zenon DEF Status
  <2> HIDE DEF l, ph, pr, en
  <2>4. [phase |-> ph, k0s |-> l.k0s, metallb |-> l.metallb,
         ready |-> l.ready, provider |-> pr, endpoints |-> en] \in Status
    BY <1>1, <2>1, <2>2, <2>3
  <2> QED
    BY <2>4 DEF PatchedStatus, l, ph, pr, en
<1> QED
  BY <1>2, <1>3

\* The API server and the client's decoder turn objects into objects.
LEMMA ObjectOperators ==
    ASSUME NEW m \in Object, NEW o \in Object
    PROVE  /\ Decoded(m, o) \in Object
           /\ Collected(o) \in Object
<1>1. DecodedStatus(m.status, o.status) \in Status
  BY StatusOperators DEF Object
<1>2. Decoded(m, o) \in Object
  <2> DEFINE l == IF o.finalizer \/ o.foreign THEN o ELSE m
             life == IF m.life = "deleting" THEN m.life ELSE o.life
             subnet == IF o.subnet = NoSubnet THEN m.subnet ELSE o.subnet
  <2>1. l \in Object /\ life \in {"none", "live", "deleting", "gone"}
        /\ subnet \in Slices \cup {NoSubnet}
    BY Zenon DEF Object
  <2> HIDE DEF l, life, subnet
  <2>2. [o EXCEPT !.life = life, !.finalizer = l.finalizer, !.foreign = l.foreign,
                  !.subnet = subnet, !.status = DecodedStatus(m.status, o.status)] \in Object
    BY <1>1, <2>1, Zenon DEF Object
  <2> QED
    BY <2>2 DEF Decoded, l, life, subnet
<1>3. Collected(o) \in Object
  BY ObjectTypes, Zenon DEF Collected, GoneObject, Object
<1> QED
  BY <1>2, <1>3

\* A worker whose Cluster is known while it is in a pass.
Sane(w) == w \in Worker /\ (w.pc = "idle" \/ w.cur \in Clusters)

\* The ways a step of a pass can end yield workers that know their Cluster.
LEMMA WorkerOperators ==
    ASSUME NEW w \in Worker, w.cur \in Clusters
    PROVE  /\ \A l \in Labels : Sane([w EXCEPT !.pc = l])
           /\ \A o \in Object : [w EXCEPT !.cluster = o] \in Worker
           /\ Sane(Fail(w)) /\ Sane(FailK0s(w)) /\ Sane(FailMetalLB(w))
           /\ Sane(K0sUp(w)) /\ Sane(MarkReady(w)) /\ Sane(Begin(w))
<1>1. \A l \in Labels : Sane([w EXCEPT !.pc = l])
  BY Zenon DEF Sane, Worker
<1>2. \A o \in Object : [w EXCEPT !.cluster = o] \in Worker
  BY Zenon DEF Worker
<1>3. Sane(Fail(w))
  BY Zenon DEF Sane, Fail, Worker, Labels
<1>4. \A st \in Status : [w.cluster EXCEPT !.status = st] \in Object
  BY Zenon DEF Worker, Object
<1>5. Sane(FailK0s(w)) 
  BY <1>3, Zenon DEF Sane, Fail, FailK0s, Worker, Object, Status, ConditionStatus
<1>6. Sane(FailMetalLB(w)) 
  BY <1>3, Zenon DEF Sane, Fail, FailMetalLB, Worker, Object, Status, ConditionStatus
<1>7. Sane(K0sUp(w)) 
  BY Zenon DEF Sane, K0sUp, Worker, Labels, Object, Status, ConditionStatus
<1>8. Sane(MarkReady(w))
  BY Zenon DEF Sane, MarkReady, Worker, Labels, Object, Status, ConditionStatus, Phases
<1>9. Sane(Begin(w))
  BY Zenon DEF Sane, Begin, Worker, Labels, Object, Status, Phases
<1> QED
  BY <1>1, <1>2, <1>3, <1>5, <1>6, <1>7, <1>8, <1>9

----------------------------------------------------------------------------
(* Type correctness *)

ObjectsOK == objects \in [Clusters -> Object]
QueueOK == queue \in [Procs -> SUBSET ObjectNames]
WorkersOK == worker \in [Procs -> Worker] /\ \A p \in Procs : Sane(worker[p])

\* A step that replaces one worker keeps the workers' types.
LEMMA StepTypes ==
    ASSUME WorkersOK, NEW p \in Procs, NEW w, Sane(w), Step(p, w)
    PROVE  WorkersOK'
BY DEF WorkersOK, Sane, Step

\* A write leaves objects, queues and workers of their types.
LEMMA WriteTypes ==
    ASSUME ObjectsOK, QueueOK, WorkersOK, NEW c \in Clusters, NEW o \in Object,
           Stored(c, o),
           \/ worker' = Overtaken(c)
           \/ \E p \in Procs, w \in Worker :
                  Sane(w) /\ worker' = [Overtaken(c) EXCEPT ![p] = w]
    PROVE  ObjectsOK' /\ QueueOK' /\ WorkersOK'
<1>1. ObjectsOK'
  BY ObjectOperators DEF ObjectsOK, Stored
<1>2. QueueOK'
  BY DEF QueueOK, Stored, ObjectNames
<1>3. \A q \in Procs : Sane([worker[q] EXCEPT !.stale = TRUE])
  BY Zenon DEF WorkersOK, Sane, Worker
<1>4. Overtaken(c) \in [Procs -> Worker] /\ \A q \in Procs : Sane(Overtaken(c)[q])
  BY <1>3 DEF WorkersOK, Overtaken, Sane
<1>5. WorkersOK'
  BY <1>4 DEF WorkersOK
<1> QED
  BY <1>1, <1>2, <1>5

\* client.Update writes one Cluster and ends in a worker of the right type.
LEMMA UpdateTypes ==
    ASSUME ObjectsOK, QueueOK, WorkersOK, faults \in Nat,
           NEW p \in Procs, worker[p].pc # "idle",
           NEW m \in Object, NEW l \in Labels,
           Update(p, m, [worker[p] EXCEPT !.pc = l])
    PROVE  ObjectsOK' /\ QueueOK' /\ WorkersOK' /\ faults' \in Nat
<1> DEFINE me == worker[p]
           o == Sent(p, m)
<1>1. me \in Worker /\ me.cur \in Clusters
  BY DEF WorkersOK, Sane
<1>2. o \in Object
  <2>1. objects[me.cur] \in Object
    BY <1>1 DEF ObjectsOK
  <2> DEFINE was == objects[me.cur]
  <2> HIDE DEF was
  <2>2. was \in Object /\ o = [m EXCEPT !.life = was.life, !.status = was.status]
    BY <2>1 DEF Sent, was
  <2> QED
    BY <2>2, Zenon DEF Object
<1> HIDE DEF o
<1>3. Decoded(m, o) \in Object
  BY <1>2, ObjectOperators
<1>4. Sane(Fail(me)) /\ Sane([Fail(me) EXCEPT !.stale = TRUE])
  <2>1. Sane(Fail(me))
    BY <1>1, WorkerOperators
  <2> QED
    BY <2>1, Zenon DEF Sane, Worker
<1>5. Sane(Answered([me EXCEPT !.pc = l], m, o))
  <2>1. [me EXCEPT !.pc = l] \in Worker /\ [me EXCEPT !.pc = l].cur \in Clusters
    BY <1>1, SMT DEF Worker
  <2> DEFINE v == [me EXCEPT !.pc = l]
  <2> HIDE DEF v
  <2>2. v \in Worker /\ v.cur \in Clusters
    BY <2>1 DEF v
  <2>3. (v.wrote \/ Present(Collected(o))) \in BOOLEAN
    OBVIOUS
  <2> DEFINE wrote == v.wrote \/ Present(Collected(o))
  <2> HIDE DEF wrote
  <2>4. Sane([v EXCEPT !.cluster = Decoded(m, o), !.wrote = wrote])
    BY <2>2, <2>3, <1>3, Zenon DEF Sane, Worker, wrote
  <2> QED
    BY <2>4 DEF v, wrote, Answered
<1>6. faults' \in Nat
  BY DEF Update, Fault
<1> DEFINE accepted == Answered([me EXCEPT !.pc = l], m, o)
           lost == [Fail(me) EXCEPT !.stale = TRUE]
<1>7. \/ Write(p, me.cur, o, accepted)
      \/ Write(p, me.cur, o, lost)
      \/ Step(p, Fail(me)) /\ UNCHANGED <<objects, queue>>
  BY Zenon DEF Update, o
<1> HIDE DEF me, accepted, lost
<1>8. CASE \E w \in Worker : Sane(w) /\ Write(p, me.cur, o, w)
  BY <1>1, <1>2, <1>8, <1>6, WriteTypes DEF Write
<1>9. CASE Step(p, Fail(me)) /\ UNCHANGED <<objects, queue>>
  BY <1>9, <1>4, <1>6, StepTypes DEF ObjectsOK, QueueOK
<1> QED
  BY <1>4, <1>5, <1>7, <1>8, <1>9 DEF Sane, accepted, lost

\* An object that has a name.
LEMMA HolderIs ==
    ASSUME NEW c, NEW d \in Holders(c)
    PROVE  d \in Clusters /\ Present(objects[d]) /\ ObjectName[d] = ObjectName[c]
BY DEF Holders, PresentClusters

\* A step counts at most one fault.
FaultStep == (\E kind : Fault(kind)) \/ UNCHANGED faults

\* The count of faults stays a natural number.
LEMMA FaultTypes == ASSUME faults \in Nat, FaultStep PROVE faults' \in Nat
BY DEF FaultStep, Fault

\* Type correctness by variable.
LEMMA TypeOKParts ==
    TypeOK <=> /\ ObjectsOK /\ QueueOK /\ WorkersOK /\ ProviderTypeOK
               /\ profile \in {"absent", "ours", "other"}
               /\ faults \in Nat /\ edits \in Nat
BY DEF TypeOK, ObjectsOK, QueueOK, WorkersOK, Sane

\* Every operation on docker, and docker's own steps, keep the containers' type.
LEMMA DockerTypes ==
    ASSUME ProviderTypeOK, NEW n, NEW s \in Slices \cup {NoSubnet},
           \/ ContainerCreate(n) \/ ContainerStart(n) \/ DeleteCluster(n)
           \/ InstallMetalLB(n) \/ ConfigureSubnet(n, s) \/ UNCHANGED containers
           \/ Boot(n) \/ MetalLBPodsReady(n),
           network' \in BOOLEAN
    PROVE  ProviderTypeOK'
<1>1. containers \in [Names -> Container]
  BY DEF ProviderTypeOK
<1>2. NoContainer \in Container
  BY Zenon DEF NoContainer, Container
<1>3. \A c \in Container :
          /\ [c EXCEPT !.state = "created"] \in Container
          /\ [c EXCEPT !.state = "running"] \in Container
          /\ [c EXCEPT !.state = "ready"] \in Container
          /\ [c EXCEPT !.metallb = "ready"] \in Container
          /\ [c EXCEPT !.metallb = IF @ = "absent" THEN "installed" ELSE @] \in Container
          /\ [c EXCEPT !.pool = s] \in Container
  BY SMT DEF Container
<1>4. containers' \in [Names -> Container]
  <2>1. CASE ContainerCreate(n)
    BY <1>1, <1>3, <2>1 DEF ContainerCreate
  <2>2. CASE ContainerStart(n)
    BY <1>1, <1>3, <2>2 DEF ContainerStart
  <2>3. CASE DeleteCluster(n)
    BY <1>1, <1>2, <2>3 DEF DeleteCluster
  <2>4. CASE InstallMetalLB(n)
    BY <1>1, <1>3, <2>4 DEF InstallMetalLB
  <2>5. CASE ConfigureSubnet(n, s)
    BY <1>1, <1>3, <2>5 DEF ConfigureSubnet
  <2>6. CASE Boot(n)
    BY <1>1, <1>3, <2>6 DEF Boot
  <2>7. CASE MetalLBPodsReady(n)
    BY <1>1, <1>3, <2>7 DEF MetalLBPodsReady
  <2> QED
    BY <1>1, <2>1, <2>2, <2>3, <2>4, <2>5, <2>6, <2>7
<1> QED
  BY <1>4 DEF ProviderTypeOK

\* A step of a pass that does not touch the platform API.
LEMMA PassTypes ==
    ASSUME TypeOK, NEW p \in Procs, NEW w, Sane(w), Step(p, w),
           UNCHANGED platformVars, ProviderTypeOK', faults' \in Nat
    PROVE  TypeOK'
<1>1. WorkersOK'
  BY StepTypes, TypeOKParts
<1>2. ObjectsOK' /\ QueueOK' /\ profile' \in {"absent", "ours", "other"} /\ edits' \in Nat
  BY TypeOKParts DEF ObjectsOK, QueueOK, platformVars
<1> QED
  BY <1>1, <1>2, TypeOKParts DEF ObjectsOK, QueueOK, WorkersOK, ProviderTypeOK, TypeOK, Sane

\* What is known of a worker in the middle of a pass.
LEMMA InPass ==
    ASSUME TypeOK, NEW p \in Procs, worker[p].pc # "idle"
    PROVE  /\ worker[p] \in Worker /\ worker[p].cur \in Clusters
           /\ worker[p].cluster \in Object /\ worker[p].cluster.status \in Status
           /\ worker[p].cluster.subnet \in Slices \cup {NoSubnet}
           /\ objects[worker[p].cur] \in Object
BY TypeOKParts DEF WorkersOK, ObjectsOK, Sane, Worker, Object

\* The actions of Pass, in three groups: those that call the API server,
LEMMA ApiSteps ==
    ASSUME TypeOK, NEW p \in Procs,
           \/ RemoveOperation(p) \/ Responsible(p) \/ EnsureFinalizer(p)
           \/ AssignSubnet(p) \/ RemoveFinalizer(p)
           \/ DisplayMetadata(p) \/ CommitStatus(p)
    PROVE  TypeOK'
<1> DEFINE me == worker[p]
<1>0. me.pc # "idle"
  BY DEF RemoveOperation, Responsible, EnsureFinalizer, AssignSubnet,
         RemoveFinalizer, DisplayMetadata, CommitStatus, At
<1>1. /\ me \in Worker /\ me.cur \in Clusters
      /\ me.cluster \in Object /\ me.cluster.status \in Status
      /\ me.cluster.subnet \in Slices \cup {NoSubnet}
      /\ objects[me.cur] \in Object
  BY <1>0, InPass
<1>2. /\ UNCHANGED <<profile, edits, dockerVars>>
  BY DEF RemoveOperation, Responsible, EnsureFinalizer, AssignSubnet,
         RemoveFinalizer, DisplayMetadata, CommitStatus
<1>3. ObjectsOK /\ QueueOK /\ WorkersOK /\ faults \in Nat
  BY TypeOKParts
<1>4. Sane(IdleWorker)
  BY ObjectTypes DEF Sane, IdleWorker
<1>5. SUFFICES ObjectsOK' /\ QueueOK' /\ WorkersOK' /\ faults' \in Nat
  <2>1. ProviderTypeOK' /\ profile' \in {"absent", "ours", "other"} /\ edits' \in Nat
    BY <1>2, TypeOKParts DEF ProviderTypeOK, dockerVars
  <2> QED
    BY <1>5, <2>1 DEF TypeOK, ObjectsOK, QueueOK, WorkersOK, ProviderTypeOK, Sane
<1>6. CASE RemoveOperation(p)
  <2> DEFINE Unmarked(d) == [objects[d] EXCEPT !.op = ""]
             Read(d) == Decoded(me.cluster, Unmarked(d))
             Accepted(d) == [me EXCEPT !.pc = "profile", !.cur = d, !.cluster = Read(d),
                                    !.old = Read(d).status, !.stale = FALSE]
  <2>1. \A d \in Clusters : Unmarked(d) \in Object
    BY <1>3, Zenon DEF ObjectsOK, Object, Operations
  <2>2. \A d \in Clusters : Read(d) \in Object /\ Read(d).status \in Status
    <3> TAKE d \in Clusters
    <3> HIDE DEF Unmarked
    <3>1. Read(d) \in Object
      BY <1>1, <2>1, ObjectOperators
    <3> HIDE DEF Read
    <3> QED
      BY <3>1 DEF Object
  <2> HIDE DEF Unmarked, Read
  <2>3. \A d \in Clusters : Sane(Accepted(d))
    BY <1>1, <2>2, Zenon DEF Sane, Worker, Labels
  <2>4. faults' \in Nat
    <3>1. FaultStep
      BY <1>6, Zenon DEF RemoveOperation, FaultStep
    <3> QED
      BY <1>3, <3>1, FaultTypes
  <2> HIDE DEF Accepted
  <2>5. \/ \E d \in Holders(me.cur) : Write(p, d, Unmarked(d), Accepted(d))
        \/ \E d \in Holders(me.cur) : Write(p, d, Unmarked(d), IdleWorker)
        \/ Abort(p) /\ UNCHANGED objects
    BY <1>6, Zenon DEF RemoveOperation, Unmarked, Read, Accepted
  <2>6. CASE Abort(p) /\ UNCHANGED objects
    BY <1>1, <1>3, <1>4, <2>4, <2>6, StepTypes DEF Abort, ObjectsOK, QueueOK, ObjectNames
  <2>7. CASE \E d \in Holders(me.cur) : \E w \in Worker :
                 Sane(w) /\ Write(p, d, Unmarked(d), w)
    BY <1>3, <2>1, <2>4, <2>7, WriteTypes, HolderIs DEF Write
  <2> QED
    BY <1>4, <2>3, <2>5, <2>6, <2>7, HolderIs DEF Sane
<1>7. CASE Responsible(p)
  <2>1. Sane(Begin(me))
    BY <1>1, WorkerOperators
  <2>2. faults' \in Nat /\ UNCHANGED objects
    BY <1>3, <1>7 DEF Responsible, Fault
  <2>3. QueueOK'
    BY <1>1, <1>3, <1>7 DEF Responsible, Abort, QueueOK, ObjectNames
  <2>4. Step(p, Begin(me)) \/ Step(p, IdleWorker)
    BY <1>7 DEF Responsible, Abort
  <2> QED
    BY <1>3, <1>4, <2>1, <2>2, <2>3, <2>4, StepTypes DEF ObjectsOK
<1>8. CASE EnsureFinalizer(p)
  <2>1. [me.cluster EXCEPT !.finalizer = TRUE] \in Object
    BY <1>1, Zenon DEF Object
  <2> QED
    BY <1>0, <1>3, <1>8, <2>1, UpdateTypes DEF EnsureFinalizer, Labels
<1>9. CASE AssignSubnet(p)
  BY <1>0, <1>1, <1>3, <1>9, UpdateTypes DEF AssignSubnet, Labels
<1>10. CASE RemoveFinalizer(p)
  <2>1. [me.cluster EXCEPT !.finalizer = FALSE] \in Object
    BY <1>1, Zenon DEF Object
  <2> QED
    BY <1>0, <1>3, <1>10, <2>1, UpdateTypes DEF RemoveFinalizer, Labels
<1>11. CASE DisplayMetadata(p)
  <2> DEFINE Shown(d) == [objects[d] EXCEPT !.shown = (d = me.cur)]
             Synced(d) == [me EXCEPT !.cur = d, !.cluster = Decoded(me.cluster, Shown(d)),
                                     !.wrote = TRUE, !.stale = FALSE]
             lost == [Fail(me) EXCEPT !.stale = TRUE]
  <2>1. \A d \in Clusters : Shown(d) \in Object
    <3> TAKE d \in Clusters
    <3> DEFINE b == d = me.cur
    <3>1. b \in BOOLEAN /\ objects[d] \in Object
      BY <1>3 DEF ObjectsOK
    <3> HIDE DEF b
    <3>2. [objects[d] EXCEPT !.shown = b] \in Object
      BY <3>1, Zenon DEF Object
    <3> QED
      BY <3>2 DEF b
  <2> HIDE DEF Shown
  <2>2. \A d \in Clusters : Decoded(me.cluster, Shown(d)) \in Object
    BY <1>1, <2>1, ObjectOperators
  <2>3. \A d \in Clusters : Synced(d) \in Worker /\ Synced(d).cur \in Clusters
    BY <1>1, <2>2, Zenon DEF Worker
  <2>4. Sane(Fail(me))
    BY <1>1, WorkerOperators
  <2>5. Sane(lost)
    BY <2>4, Zenon DEF Sane, Worker
  <2> HIDE DEF Synced, lost
  <2>6. \A d \in Clusters : Sane(MarkReady(Synced(d)))
    BY <2>3, WorkerOperators
  <2>7. faults' \in Nat
    <3>1. FaultStep
      BY <1>11, Zenon DEF DisplayMetadata, FaultStep
    <3> QED
      BY <1>3, <3>1, FaultTypes
  <2>8. \/ \E d \in Holders(me.cur) : Write(p, d, Shown(d), MarkReady(Synced(d)))
        \/ \E d \in Holders(me.cur) : Write(p, d, Shown(d), lost)
        \/ Step(p, Fail(me)) /\ UNCHANGED <<objects, queue>>
    BY <1>11, Zenon DEF DisplayMetadata, Shown, Synced, lost
  <2>9. CASE Step(p, Fail(me)) /\ UNCHANGED <<objects, queue>>
    BY <1>3, <2>4, <2>7, <2>9, StepTypes DEF ObjectsOK, QueueOK
  <2>10. CASE \E d \in Holders(me.cur) : \E w \in Worker :
                  Sane(w) /\ Write(p, d, Shown(d), w)
    BY <1>3, <2>1, <2>7, <2>10, WriteTypes, HolderIs DEF Write
  <2> QED
    BY <2>5, <2>6, <2>8, <2>9, <2>10, HolderIs DEF Sane
<1>12. CASE CommitStatus(p)
  <2> DEFINE St(d) == PatchedStatus(objects[d].status, me.old, me.cluster.status)
             O(d) == [objects[d] EXCEPT !.status = St(d)]
  <2>1. \A d \in Clusters : St(d) \in Status
    BY <1>1, <1>3, StatusOperators DEF ObjectsOK, Object, Worker
  <2>2. \A d \in Clusters : O(d) \in Object
    BY <1>3, <2>1, Zenon DEF ObjectsOK, Object
  <2>3. faults' \in Nat
    <3>1. FaultStep
      <4>1. ASSUME NEW d, IF me.wrote /\ (me.stale \/ d # me.cur)
                          THEN UNCHANGED faults ELSE Fault("api")
            PROVE  FaultStep
        BY <4>1 DEF FaultStep
      <4> QED
        BY <1>12, <4>1, Zenon DEF CommitStatus, FaultStep
    <3> QED
      BY <1>3, <3>1, FaultTypes
  <2>4. \/ \E d \in Holders(me.cur) : Write(p, d, O(d), IdleWorker)
        \/ /\ Step(p, IdleWorker) /\ UNCHANGED objects
           /\ \E b \in BOOLEAN : queue' =
                  [queue EXCEPT ![p] = IF b THEN @ \cup {ObjectName[me.cur]} ELSE @]
    BY <1>1, <1>12, Zenon DEF CommitStatus, Worker
  <2> HIDE DEF O
  <2>5. CASE \E d \in Holders(me.cur) : Write(p, d, O(d), IdleWorker)
    BY <1>3, <1>4, <2>2, <2>3, <2>5, WriteTypes, HolderIs DEF Write, Sane
  <2>6. CASE /\ Step(p, IdleWorker) /\ UNCHANGED objects
             /\ \E b \in BOOLEAN : queue' =
                    [queue EXCEPT ![p] = IF b THEN @ \cup {ObjectName[me.cur]} ELSE @]
    BY <1>1, <1>3, <1>4, <2>3, <2>6, StepTypes DEF ObjectsOK, QueueOK, ObjectNames
  <2> QED
    BY <2>4, <2>5, <2>6
<1> QED
  BY <1>6, <1>7, <1>8, <1>9, <1>10, <1>11, <1>12

\* those that look for, build or remove the k0s cluster,
LEMMA K0sSteps ==
    ASSUME TypeOK, NEW p \in Procs,
           \/ PickSubnet(p) \/ EnsureK0sCluster(p) \/ Prepare(p)
           \/ CreateContainer(p) \/ StartContainer(p) \/ WaitReady(p)
           \/ LookupContainer(p) \/ RemoveContainer(p)
    PROVE  TypeOK'
<1> DEFINE me == worker[p]
           n == K0sName(me.cur)
           started == [me EXCEPT !.cluster.status.phase = "Progressing"]
<1>0. me.pc # "idle"
  BY DEF PickSubnet, EnsureK0sCluster, Prepare, CreateContainer, StartContainer,
         WaitReady, LookupContainer, RemoveContainer, At
<1>1. me \in Worker /\ me.cur \in Clusters /\ me.cluster \in Object
  BY <1>0, InPass
<1>2. UNCHANGED platformVars
  BY DEF PickSubnet, EnsureK0sCluster, Prepare, CreateContainer, StartContainer,
         WaitReady, LookupContainer, RemoveContainer, platformVars
<1>3. ProviderTypeOK /\ faults \in Nat
  BY TypeOKParts
<1>4. faults' \in Nat
  <2>1. FaultStep
    BY Zenon DEF PickSubnet, EnsureK0sCluster, Prepare, CreateContainer,
       StartContainer, WaitReady, LookupContainer, RemoveContainer, FaultStep
  <2> QED
    BY <1>3, <2>1, FaultTypes
<1>5. network' \in BOOLEAN
  BY <1>3 DEF PickSubnet, EnsureK0sCluster, Prepare, CreateContainer, StartContainer,
         WaitReady, LookupContainer, RemoveContainer, EnsureNetwork,
         ProviderTypeOK, dockerVars
<1>6. ContainerCreate(n) \/ ContainerStart(n) \/ DeleteCluster(n) \/ UNCHANGED containers
  BY DEF PickSubnet, EnsureK0sCluster, Prepare, CreateContainer, StartContainer,
         WaitReady, LookupContainer, RemoveContainer, dockerVars
<1>7. ProviderTypeOK'
  BY <1>3, <1>5, <1>6, DockerTypes
<1>8. /\ \A l \in Labels : Sane([me EXCEPT !.pc = l])
      /\ Sane(Fail(me)) /\ Sane(FailK0s(me)) /\ Sane(K0sUp(me))
  BY <1>1, WorkerOperators
<1>9. started \in Worker /\ started.cur \in Clusters
  BY <1>1, Zenon DEF Worker, Object, Status, Phases
<1>10. \A s \in Slices : Sane([me EXCEPT !.pc = "assign", !.cluster.subnet = s])
  BY <1>1, Zenon DEF Sane, Worker, Labels, Object
<1> HIDE DEF started
<1>11. /\ \A l \in Labels : Sane([started EXCEPT !.pc = l])
       /\ Sane(FailK0s(started)) /\ Sane(K0sUp(started))
  BY <1>9, WorkerOperators
<1>12. \E w : Sane(w) /\ Step(p, w)
  <2>1. CASE PickSubnet(p)
    BY <1>8, <1>10, <2>1 DEF PickSubnet, FreeSlices
  <2>2. CASE EnsureK0sCluster(p)
    BY <1>11, <2>2 DEF EnsureK0sCluster, Labels, started
  <2>3. CASE Prepare(p)
    BY <1>8, <2>3 DEF Prepare, Labels
  <2>4. CASE CreateContainer(p)
    BY <1>8, <2>4 DEF CreateContainer, Labels
  <2>5. CASE StartContainer(p)
    BY <1>8, <2>5 DEF StartContainer, Labels
  <2>6. CASE WaitReady(p)
    BY <1>8, <2>6 DEF WaitReady
  <2>7. CASE LookupContainer(p)
    BY <1>8, <2>7 DEF LookupContainer, Labels
  <2>8. CASE RemoveContainer(p)
    BY <1>8, <2>8 DEF RemoveContainer, Labels
  <2> QED
    BY <2>1, <2>2, <2>3, <2>4, <2>5, <2>6, <2>7, <2>8
<1> QED
  BY <1>2, <1>4, <1>7, <1>12, PassTypes

\* and those that call into the k0s cluster.
LEMMA MetalLBSteps ==
    ASSUME TypeOK, NEW p \in Procs,
           \/ TargetClient(p) \/ Install(p) \/ PodsReady(p)
           \/ ConfigureMetalLB(p) \/ PublishAccess(p)
    PROVE  TypeOK'
<1> DEFINE me == worker[p]
           n == K0sName(me.cur)
           provided == [me EXCEPT !.cluster.status.provider = TRUE]
           published == [provided EXCEPT !.cluster.status.endpoints = TRUE]
<1>0. me.pc # "idle"
  BY DEF TargetClient, Install, PodsReady, ConfigureMetalLB, PublishAccess, At
<1>1. /\ me \in Worker /\ me.cur \in Clusters /\ me.cluster \in Object
      /\ me.cluster.subnet \in Slices \cup {NoSubnet}
  BY <1>0, InPass
<1>2. UNCHANGED platformVars
  BY DEF TargetClient, Install, PodsReady, ConfigureMetalLB, PublishAccess, platformVars
<1>3. ProviderTypeOK /\ faults \in Nat
  BY TypeOKParts
<1>4. faults' \in Nat
  BY <1>3 DEF TargetClient, Install, PodsReady, ConfigureMetalLB, PublishAccess, Fault
<1>5. /\ network' = network
      /\ InstallMetalLB(n) \/ ConfigureSubnet(n, me.cluster.subnet) \/ UNCHANGED containers
  BY DEF TargetClient, Install, PodsReady, ConfigureMetalLB, PublishAccess, dockerVars
<1>6. ProviderTypeOK'
  BY <1>1, <1>3, <1>5, DockerTypes DEF ProviderTypeOK
<1>7. /\ \A l \in Labels : Sane([me EXCEPT !.pc = l])
      /\ Sane(Fail(me)) /\ Sane(FailMetalLB(me))
  BY <1>1, WorkerOperators
<1>8. Sane([me EXCEPT !.pc = "publish", !.cluster.status.metallb = "True"])
  BY <1>1, Zenon DEF Sane, Worker, Labels, Object, Status, ConditionStatus
<1>9. provided \in Worker /\ provided.cur \in Clusters
  BY <1>1, Zenon DEF Worker, Object, Status
<1> HIDE DEF provided
<1>10. published \in Worker /\ published.cur \in Clusters
  BY <1>9, Zenon DEF Worker, Object, Status
<1> HIDE DEF published
<1>11. /\ \A l \in Labels : Sane([published EXCEPT !.pc = l])
       /\ Sane(MarkReady(published)) /\ Sane(Fail(published)) /\ Sane(Fail(provided))
  BY <1>9, <1>10, WorkerOperators
<1>12. \E w : Sane(w) /\ Step(p, w)
  <2>1. CASE TargetClient(p)
    BY <1>7, <2>1 DEF TargetClient, Labels
  <2>2. CASE Install(p)
    BY <1>7, <2>2 DEF Install, Labels
  <2>3. CASE PodsReady(p)
    BY <1>7, <2>3 DEF PodsReady, Labels
  <2>4. CASE ConfigureMetalLB(p)
    BY <1>7, <1>8, <2>4 DEF ConfigureMetalLB
  <2>5. CASE PublishAccess(p)
    <3>1. \/ Step(p, MarkReady(published))
          \/ Step(p, [published EXCEPT !.pc = "display"])
          \/ Step(p, Fail(provided)) \/ Step(p, Fail(published))
      BY <2>5, Zenon DEF PublishAccess, provided, published
    <3> QED
      BY <1>11, <3>1 DEF Labels
  <2> QED
    BY <2>1, <2>2, <2>3, <2>4, <2>5
<1> QED
  BY <1>2, <1>4, <1>6, <1>12, PassTypes

\* The types hold initially.
LEMMA TypeInit == Init => TypeOK
<1> SUFFICES ASSUME Init PROVE TypeOK
  OBVIOUS
<1>0. TypeOK
  <2>1. NoContainer \in Container /\ [NoContainer EXCEPT !.state = "ready"] \in Container
    BY Zenon DEF NoContainer, Container
  <2>2. ProviderTypeOK
    BY <2>1, ProviderAssumption DEF Init, ProviderInit, ProviderTypeOK
  <2>3. ObjectsOK /\ QueueOK /\ WorkersOK
    BY ObjectTypes DEF Init, ObjectsOK, QueueOK, WorkersOK, Sane, IdleWorker
  <2> QED
    BY <2>2, <2>3, TypeOKParts DEF Init
<1> QED
  BY <1>0

\* Every step keeps the types.
LEMMA TypeStep == TypeOK /\ [Next]_vars => TypeOK'
<1> SUFFICES ASSUME TypeOK, [Next]_vars PROVE TypeOK'
  OBVIOUS
<1>1. TypeOK'
  <2> USE DEF TypeOK, ObjectsOK, QueueOK, WorkersOK, ProviderTypeOK, Sane
  <2>1. ASSUME NEW p \in Procs, Pass(p) PROVE TypeOK'
    <3> HIDE DEF TypeOK
    <3> QED
      BY <2>1, ApiSteps, K0sSteps, MetalLBSteps DEF Pass
  <2>2. ASSUME NEW p \in Procs, Crash(p) PROVE TypeOK'
    BY <2>2, ObjectTypes DEF Crash, Fault, Step, PresentClusters, ObjectNames, dockerVars, IdleWorker
  <2>3. ASSUME NEW p \in Procs, NEW c \in Clusters, Dequeue(p, c) PROVE TypeOK'
    <3> DEFINE w == [IdleWorker EXCEPT
                        !.pc = IF objects[c].op = "reconcile" THEN "operation" ELSE "profile",
                        !.cur = c, !.cluster = objects[c], !.old = objects[c].status]
    <3>1. w \in Worker /\ w.cur = c
      BY ObjectTypes, Zenon DEF Worker, Labels, Object
    <3> HIDE DEF w
    <3>2. CASE Skip(p, c)
      BY <3>2 DEF Skip, dockerVars
    <3>3. CASE Get(p, c)
      <4>1. WorkersOK'
        BY <3>1, <3>3, StepTypes DEF Get, w
      <4> QED
        BY <3>3, <4>1 DEF Get, dockerVars
    <3> QED
      BY <2>3, <3>2, <3>3 DEF Dequeue
  <2>4. ASSUME NEW c \in Clusters, UserStep(c) PROVE TypeOK'
    <3>1. \E o \in Object : Edit(c, o)
      <4>1. /\ [NoObject EXCEPT !.life = "live"] \in Object
            /\ [objects[c] EXCEPT !.life = "deleting"] \in Object
            /\ [objects[c] EXCEPT !.foreign = TRUE] \in Object
            /\ [objects[c] EXCEPT !.foreign = FALSE] \in Object
            /\ \A v \in Operations : [objects[c] EXCEPT !.op = v] \in Object
        BY ObjectTypes, Zenon DEF Object
      <4> QED
        BY <2>4, <4>1 DEF UserStep, CreateObject, DeleteObject, SetOperation,
               AddForeignFinalizer, RemoveForeignFinalizer
    <3>2. ObjectsOK' /\ QueueOK' /\ WorkersOK'
      BY <3>1, WriteTypes DEF Edit
    <3>3. edits' = edits \/ edits' = edits + 1
      BY <2>4, Zenon DEF UserStep, CreateObject, DeleteObject, SetOperation,
             AddForeignFinalizer, RemoveForeignFinalizer
    <3>4. UNCHANGED <<profile, faults, dockerVars>>
      BY <3>1 DEF Edit
    <3> QED
      BY <3>2, <3>3, <3>4 DEF dockerVars
  <2>5. ASSUME NEW v \in {"absent", "ours", "other"}, SetProfile(v) PROVE TypeOK'
    <3>1. PICK missed \in SUBSET Procs :
              /\ faults' = faults + Cardinality(missed)
              /\ queue' = [q \in Procs |-> IF q \in missed THEN queue[q]
                                           ELSE queue[q] \cup
                                               {ObjectName[c] : c \in PresentClusters}]
      BY <2>5 DEF SetProfile
    <3>2. Cardinality(missed) \in Nat
      BY ControllerAssumption, FS_Subset, FS_CardinalityType
    <3>3. faults' \in Nat /\ queue' \in [Procs -> SUBSET ObjectNames]
      BY <3>1, <3>2 DEF PresentClusters, ObjectNames
    <3> QED
      BY <2>5, <3>3 DEF SetProfile, dockerVars
  <2>6. ASSUME NEW n \in Names, DockerStep(n) PROVE TypeOK'
    <3>1. ProviderTypeOK'
      BY <2>6, DockerTypes DEF DockerStep, Boot, MetalLBPodsReady, NoSubnet
    <3> QED
      BY <2>6, <3>1 DEF DockerStep
  <2>7. CASE UNCHANGED vars
    BY <2>7 DEF vars
  <2> QED
    BY <2>1, <2>2, <2>3, <2>4, <2>5, <2>6, <2>7 DEF Next
<1> QED
  BY <1>1

\* Every variable keeps its type, for every set of Clusters, processes, faults.
THEOREM Typing == Spec => []TypeOK
BY TypeInit, TypeStep, PTL DEF Spec

=============================================================================

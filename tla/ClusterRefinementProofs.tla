---------------------- MODULE ClusterRefinementProofs ----------------------
(***************************************************************************)
(* With a single provider process ClusterController implements             *)
(* ClusterLifecycle, for every set of Clusters, every range of slices and  *)
(* every number of crashes, faults and edits.                              *)
(***************************************************************************)
EXTENDS OwnershipProofs, ClusterRefinement

USE DEF Present

----------------------------------------------------------------------------
(* What changes of objects and containers are in the life cycle *)

\* A step of the life cycle, or one that changes nothing in it.
Moved == [Lifecycle!LifecycleNext]_(Lifecycle!lifecycleVars)

\* An object that is being deleted and that nobody holds is not there any more.
HeldObjects ==
    \A c \in Clusters :
        objects[c].life = "deleting" => objects[c].finalizer \/ objects[c].foreign

\* What the steps rely on.
Implementing == Ownership /\ LeasesInOrder /\ HeldObjects

\* The abstract state, member by member.
LEMMA AbstractState ==
    /\ Lifecycle!lifecycleVars =
           << [c \in Clusters |-> objects[c].life],
              [c \in Clusters |-> objects[c].subnet],
              [c \in Clusters |-> containers[K0sName(c)].state] >>
    /\ Lifecycle!lifecycleVars' =
           << [c \in Clusters |-> objects'[c].life],
              [c \in Clusters |-> objects'[c].subnet],
              [c \in Clusters |-> containers'[K0sName(c)].state] >>
BY DEF Lifecycle!lifecycleVars

\* Whatever else a step does, it is a stutter of the life cycle when no object
\* changes its life or slice and no container its state.
LEMMA Unmoved ==
    ASSUME \A c \in Clusters : /\ objects'[c].life = objects[c].life
                               /\ objects'[c].subnet = objects[c].subnet
                               /\ containers'[K0sName(c)].state = containers[K0sName(c)].state
    PROVE  Moved
<1>1. Lifecycle!lifecycleVars' = Lifecycle!lifecycleVars
  BY AbstractState
<1> QED
  BY <1>1 DEF Moved

\* A function that differs from another one in at most one place.
LEMMA Replaced ==
    ASSUME NEW S, NEW f, NEW g, NEW c \in S, NEW v,
           f = [d \in S |-> f[d]], g = [d \in S |-> g[d]],
           \A d \in S : g[d] = IF d = c THEN v ELSE f[d]
    PROVE  g = [f EXCEPT ![c] = v]
<1>1. [f EXCEPT ![c] = v] = [d \in S |-> IF d = c THEN v ELSE f[d]]
  OBVIOUS
<1>2. g = [d \in S |-> IF d = c THEN v ELSE f[d]]
  OBVIOUS
<1> QED
  BY <1>1, <1>2

\* One object changes.
LEMMA ObjectMoves ==
    ASSUME Ownership, NEW c \in Clusters, NEW x,
           objects' = [objects EXCEPT ![c] = x], UNCHANGED containers,
           LET o == objects[c]
           IN  \/ x.life = o.life /\ x.subnet = o.subnet
               \/ o.life = "none" /\ x.life = "live" /\ x.subnet = o.subnet
               \/ o.life = "live" /\ x.life = "deleting" /\ x.subnet = o.subnet
               \/ /\ o.life = "live" /\ x.life = "gone"
                  /\ o.subnet = NoSubnet /\ x.subnet = NoSubnet
               \/ /\ o.life = "live" /\ x.life = "live"
                  /\ o.subnet = NoSubnet /\ x.subnet \in Slices \ AssignedSubnets
               \/ /\ o.life = "deleting" /\ x.life = "gone" /\ x.subnet = NoSubnet
                  /\ o.subnet # NoSubnet => ~ClusterExists(K0sName(c))
    PROVE  Moved
<1> DEFINE o == objects[c]
           A == [d \in Clusters |-> objects[d].life]
           B == [d \in Clusters |-> objects[d].subnet]
           D == [d \in Clusters |-> containers[K0sName(d)].state]
<1>1. objects'[c] = x /\ \A d \in Clusters \ {c} : objects'[d] = objects[d]
  BY DEF Ownership, TypeOK
<1>2. /\ A' = [A EXCEPT ![c] = x.life]
      /\ B' = [B EXCEPT ![c] = x.subnet]
      /\ D' = D
  <2>1. A' = [d \in Clusters |-> objects'[d].life]
    OBVIOUS
  <2>2. B' = [d \in Clusters |-> objects'[d].subnet]
    OBVIOUS
  <2>3. [d \in Clusters |-> objects'[d].life] = [A EXCEPT ![c] = x.life]
    <3> DEFINE A1 == [d \in Clusters |-> objects'[d].life]
    <3>1. \A d \in Clusters : A1[d] = IF d = c THEN x.life ELSE A[d]
      BY <1>1
    <3>2. A = [d \in Clusters |-> A[d]] /\ A1 = [d \in Clusters |-> A1[d]]
      OBVIOUS
    <3> HIDE DEF A, A1
    <3>3. A1 = [A EXCEPT ![c] = x.life]
      BY <3>1, <3>2, Replaced
    <3> QED
      BY <3>3 DEF A1
  <2>4. [d \in Clusters |-> objects'[d].subnet] = [B EXCEPT ![c] = x.subnet]
    <3> DEFINE B1 == [d \in Clusters |-> objects'[d].subnet]
    <3>1. \A d \in Clusters : B1[d] = IF d = c THEN x.subnet ELSE B[d]
      BY <1>1
    <3>2. B = [d \in Clusters |-> B[d]] /\ B1 = [d \in Clusters |-> B1[d]]
      OBVIOUS
    <3> HIDE DEF B, B1
    <3>3. B1 = [B EXCEPT ![c] = x.subnet]
      BY <3>1, <3>2, Replaced
    <3> QED
      BY <3>3 DEF B1
  <2>5. D' = D
    OBVIOUS
  <2> QED
    BY <2>1, <2>2, <2>3, <2>4, <2>5
<1>3. A[c] = o.life /\ B[c] = o.subnet /\ D[c] = containers[K0sName(c)].state
  OBVIOUS
<1>4. CASE x.life = o.life /\ x.subnet = o.subnet
  BY <1>1, <1>4, Unmoved
<1>5. CASE o.life = "none" /\ x.life = "live" /\ x.subnet = o.subnet
  <2>1. Lifecycle!Create(c)
    BY <1>2, <1>3, <1>5 DEF Lifecycle!Create
  <2> QED
    BY <2>1 DEF Moved, Lifecycle!LifecycleNext, Lifecycle!LifecycleStep
<1>6. CASE o.life = "live" /\ x.life = "deleting" /\ x.subnet = o.subnet
  <2>1. Lifecycle!Delete(c)
    BY <1>2, <1>3, <1>6 DEF Lifecycle!Delete
  <2> QED
    BY <2>1 DEF Moved, Lifecycle!LifecycleNext, Lifecycle!LifecycleStep
<1>7. CASE /\ o.life = "live" /\ x.life = "gone"
           /\ o.subnet = NoSubnet /\ x.subnet = NoSubnet
  <2>1. Lifecycle!Delete(c)
    BY <1>2, <1>3, <1>7 DEF Lifecycle!Delete
  <2> QED
    BY <2>1 DEF Moved, Lifecycle!LifecycleNext, Lifecycle!LifecycleStep
<1>8. CASE /\ o.life = "live" /\ x.life = "live"
           /\ o.subnet = NoSubnet /\ x.subnet \in Slices \ AssignedSubnets
  <2>1. \A d \in Clusters : B[d] # x.subnet
    <3>1. ASSUME NEW d \in Clusters, ~Present(objects[d])
          PROVE  objects[d].subnet = NoSubnet
      BY <3>1 DEF Ownership, PoolsOwned
    <3>2. NoSubnet \notin Slices
      BY SliceAssumption DEF Slices, NoSubnet
    <3> QED
      BY <1>8, <3>1, <3>2 DEF AssignedSubnets, PresentClusters
  <2>2. A' = A
    BY <1>2, <1>3, <1>8
  <2>3. Lifecycle!Lease(c, x.subnet)
    BY <1>2, <1>3, <1>8, <2>1, <2>2 DEF Lifecycle!Lease
  <2> QED
    BY <1>8, <2>3 DEF Moved, Lifecycle!LifecycleNext, Lifecycle!LifecycleStep
<1>9. CASE /\ o.life = "deleting" /\ x.life = "gone" /\ x.subnet = NoSubnet
           /\ o.subnet # NoSubnet => ~ClusterExists(K0sName(c))
  <2>1. Lifecycle!Vanish(c)
    BY <1>2, <1>3, <1>9 DEF Lifecycle!Vanish, ClusterExists
  <2> QED
    BY <2>1 DEF Moved, Lifecycle!LifecycleNext, Lifecycle!LifecycleStep
<1> QED
  BY <1>4, <1>5, <1>6, <1>7, <1>8, <1>9

\* One container changes.
LEMMA ContainerMoves ==
    ASSUME Ownership, NEW c \in Clusters, NEW r, UNCHANGED objects,
           containers' = [containers EXCEPT ![K0sName(c)] = r],
           LET s == containers[K0sName(c)].state
           IN  \/ r.state = s
               \/ /\ s = "absent" /\ r.state = "created"
                  /\ Present(objects[c]) /\ objects[c].subnet # NoSubnet
               \/ s = "created" /\ r.state = "running"
               \/ s = "running" /\ r.state = "ready"
               \/ r.state = "absent" /\ objects[c].life = "deleting"
    PROVE  Moved
<1> DEFINE n == K0sName(c)
           s == containers[n].state
           A == [d \in Clusters |-> objects[d].life]
           B == [d \in Clusters |-> objects[d].subnet]
           D == [d \in Clusters |-> containers[K0sName(d)].state]
<1>1. containers'[n] = r /\ \A m \in Names \ {n} : containers'[m] = containers[m]
  BY NamesDiffer DEF Ownership, TypeOK, ProviderTypeOK
<1>2. \A d \in Clusters \ {c} : containers'[K0sName(d)] = containers[K0sName(d)]
  BY <1>1, NamesDiffer
<1>3. D' = [D EXCEPT ![c] = r.state] /\ A' = A /\ B' = B
  <2>1. D' = [d \in Clusters |-> containers'[K0sName(d)].state]
    OBVIOUS
  <2>2. [d \in Clusters |-> containers'[K0sName(d)].state] = [D EXCEPT ![c] = r.state]
    <3> DEFINE D1 == [d \in Clusters |-> containers'[K0sName(d)].state]
    <3>1. \A d \in Clusters : D1[d] = IF d = c THEN r.state ELSE D[d]
      BY <1>1, <1>2
    <3>2. D = [d \in Clusters |-> D[d]] /\ D1 = [d \in Clusters |-> D1[d]]
      OBVIOUS
    <3> HIDE DEF D, D1
    <3>3. D1 = [D EXCEPT ![c] = r.state]
      BY <3>1, <3>2, Replaced
    <3> QED
      BY <3>3 DEF D1
  <2>3. A' = A /\ B' = B
    OBVIOUS
  <2> QED
    BY <2>1, <2>2, <2>3
<1>4. A[c] = objects[c].life /\ B[c] = objects[c].subnet /\ D[c] = s
  OBVIOUS
<1>5. CASE r.state = s
  BY <1>1, <1>2, <1>5, Unmoved
<1>6. CASE /\ s = "absent" /\ r.state = "created"
           /\ Present(objects[c]) /\ objects[c].subnet # NoSubnet
  <2>1. Lifecycle!Build(c)
    BY <1>3, <1>4, <1>6 DEF Lifecycle!Build, Lifecycle!Exists
  <2> QED
    BY <2>1 DEF Moved, Lifecycle!LifecycleNext, Lifecycle!LifecycleStep
<1>7. CASE s = "created" /\ r.state = "running"
  <2>1. Lifecycle!Start(c)
    BY <1>3, <1>4, <1>7 DEF Lifecycle!Start
  <2> QED
    BY <2>1 DEF Moved, Lifecycle!LifecycleNext, Lifecycle!LifecycleStep
<1>8. CASE s = "running" /\ r.state = "ready"
  <2>1. Lifecycle!Boot(c)
    BY <1>3, <1>4, <1>8 DEF Lifecycle!Boot
  <2> QED
    BY <2>1 DEF Moved, Lifecycle!LifecycleNext, Lifecycle!LifecycleStep
<1>9. CASE r.state = "absent" /\ s # "absent" /\ objects[c].life = "deleting"
  <2>1. Lifecycle!TearDown(c)
    BY <1>3, <1>4, <1>9 DEF Lifecycle!TearDown
  <2> QED
    BY <2>1 DEF Moved, Lifecycle!LifecycleNext, Lifecycle!LifecycleStep
<1> QED
  BY <1>5, <1>6, <1>7, <1>8, <1>9

----------------------------------------------------------------------------
(* What changes of objects and passes keep leases in order *)

\* The part of a pass that PassCurrent is about.
Choosing == {"operation", "profile", "pick", "assign"}

LeasesKept == LeasesInOrder' /\ HeldObjects'

\* A pass in which nothing happens stays current.
LEMMA PassWaits ==
    ASSUME Implementing, NEW q \in Procs, worker'[q] = worker[q], UNCHANGED objects
    PROVE  PassCurrent(q)'
BY DEF Implementing, LeasesInOrder, PassCurrent

\* So does one that may have been overtaken.
LEMMA PassOvertaken ==
    ASSUME Implementing, NEW q \in Procs, NEW c \in Clusters, NEW x,
           objects' = [objects EXCEPT ![c] = x], worker'[q] = Overtaken(c)[q]
    PROVE  PassCurrent(q)'
<1>1. /\ TypeOK /\ PassCurrent(q) /\ worker[q] \in Worker
      /\ objects \in [Clusters -> Object]
  BY DEF Implementing, LeasesInOrder, Ownership, TypeOK
<1>2. CASE worker[q].cur # c
  <2>1. worker'[q] = worker[q]
    BY <1>2 DEF Overtaken
  <2>2. objects'[worker[q].cur] = objects[worker[q].cur]
    BY <1>1, <1>2
  <2> QED
    BY <1>1, <2>1, <2>2 DEF PassCurrent
<1>3. CASE worker[q].cur = c
  <2> DEFINE w == [worker[q] EXCEPT !.stale = TRUE]
  <2>1. worker'[q] = w
    BY <1>3 DEF Overtaken
  <2>2. w.pc = worker[q].pc /\ w.cluster = worker[q].cluster /\ w.stale
    BY <1>1, Zenon DEF Worker
  <2> HIDE DEF w
  <2> QED
    BY <1>1, <2>1, <2>2 DEF PassCurrent
<1> QED
  BY <1>2, <1>3

\* A step of one pass that writes no object.
LEMMA LocalLeases ==
    ASSUME Implementing, NEW p \in Procs, NEW v, Step(p, v), UNCHANGED objects,
           v.pc \notin Choosing \/ PassCurrent(p)'
    PROVE  LeasesKept
<1>1. worker'[p] = v /\ \A q \in Procs \ {p} : worker'[q] = worker[q]
  BY DEF Implementing, Ownership, TypeOK, Step
<1>2. PassCurrent(p)'
  BY <1>1 DEF PassCurrent, Choosing
<1>3. \A q \in Procs \ {p} : PassCurrent(q)'
  BY <1>1, PassWaits
<1> QED
  BY <1>2, <1>3 DEF LeasesKept, Implementing, LeasesInOrder, HeldObjects

\* After a write of an object whoever is being deleted is held by somebody, and
\* whoever holds a slice holds the finalizer.
LEMMA StoredLeases ==
    ASSUME Implementing, NEW c \in Clusters, NEW o \in Object, Present(o),
           objects' = [objects EXCEPT ![c] = Collected(o)],
           o.subnet # NoSubnet => o.finalizer \/ Collected(o).life = "gone"
    PROVE  /\ HeldObjects'
           /\ \A d \in Clusters : objects'[d].subnet # NoSubnet => objects'[d].finalizer
<1> DEFINE x == Collected(o)
<1>1. objects'[c] = x /\ \A d \in Clusters \ {c} : objects'[d] = objects[d]
  BY DEF Implementing, Ownership, TypeOK
<1>2. \/ x = o
      \/ x.life = "gone" /\ x.subnet = NoSubnet
  BY CollectedFields
<1>3. x.life = "deleting" => x.finalizer \/ x.foreign
  BY Zenon DEF Collected, GoneObject, NoObject
<1>4. x.subnet # NoSubnet => x.finalizer
  BY <1>2
<1> HIDE DEF x
<1> QED
  BY <1>1, <1>3, <1>4 DEF Implementing, HeldObjects, LeasesInOrder

\* A write of a pass.
LEMMA WriteLeases ==
    ASSUME Implementing, NEW p \in Procs, NEW c \in Clusters, NEW o \in Object, NEW v,
           Write(p, c, o, v), Present(o),
           o.subnet # NoSubnet => o.finalizer \/ Collected(o).life = "gone",
           v.pc \notin Choosing \/ PassCurrent(p)'
    PROVE  LeasesKept
<1>1. /\ objects' = [objects EXCEPT ![c] = Collected(o)]
      /\ worker'[p] = v
      /\ \A q \in Procs \ {p} : worker'[q] = Overtaken(c)[q]
  BY DEF Write, Stored, Overtaken
<1>2. PassCurrent(p)'
  BY <1>1 DEF PassCurrent, Choosing
<1>3. \A q \in Procs \ {p} : PassCurrent(q)'
  BY <1>1, PassOvertaken
<1> QED
  BY <1>1, <1>2, <1>3, StoredLeases DEF LeasesKept, LeasesInOrder

\* How client.Update of m can end, seen from the passes.
LEMMA UpdateWrites ==
    ASSUME TypeOK, NEW p \in Procs, worker[p].cur \in Clusters, NEW m \in Object,
           NEW l \in Labels, Update(p, m, [worker[p] EXCEPT !.pc = l])
    PROVE  LET me == worker[p]
           IN  \E o \in Object : \E v :
                   /\ o.life = objects[me.cur].life /\ o.subnet = m.subnet
                   /\ o.finalizer = m.finalizer /\ o.foreign = m.foreign
                   /\ v.pc \in {l, "commit"}
                   /\ \/ /\ Present(objects[me.cur]) /\ ~me.stale
                         /\ Write(p, me.cur, o, v)
                      \/ UNCHANGED objects /\ Step(p, v)
<1> DEFINE me == worker[p]
           o == Sent(p, m)
           u == Answered([me EXCEPT !.pc = l], m, o)
           lost == [Fail(me) EXCEPT !.stale = TRUE]
<1>1. me \in Worker
  BY DEF TypeOK
<1>2. Fail(me).pc = "commit" /\ lost.pc = "commit"
  BY <1>1, Zenon DEF Fail, Worker
<1>3. u.pc = l
  BY <1>1, Zenon DEF Worker, Answered
<1>4. \/ Present(objects[me.cur]) /\ ~me.stale /\ Write(p, me.cur, o, u)
      \/ Present(objects[me.cur]) /\ ~me.stale /\ Write(p, me.cur, o, lost)
      \/ UNCHANGED objects /\ Step(p, Fail(me))
  BY Zenon DEF Update, u, lost, o
<1>5. /\ o \in Object /\ o.life = objects[me.cur].life /\ o.subnet = m.subnet
      /\ o.finalizer = m.finalizer /\ o.foreign = m.foreign
  BY UpdateEnds DEF o
<1> HIDE DEF u, lost, o
<1> QED
  BY <1>2, <1>3, <1>4, <1>5

----------------------------------------------------------------------------
(* The steps of a pass that write no object *)

Implemented == Moved /\ LeasesKept

\* A step that is only about the pass.
LEMMA PassOnly ==
    ASSUME Implementing, NEW p \in Procs, NEW v, Step(p, v), UNCHANGED <<objects, containers>>,
           v.pc \notin Choosing \/ PassCurrent(p)'
    PROVE  Implemented
BY LocalLeases, Unmoved DEF Implemented

\* The calls to docker and k0s lead away from choosing a slice.
LEMMA CallsLead ==
    ASSUME TypeOK, NEW p \in Procs,
           \/ EnsureK0sCluster(p) \/ Prepare(p) \/ WaitReady(p)
           \/ TargetClient(p) \/ PodsReady(p) \/ PublishAccess(p) \/ LookupContainer(p)
           \/ CreateContainer(p) \/ StartContainer(p) \/ Install(p)
           \/ ConfigureMetalLB(p) \/ RemoveContainer(p)
    PROVE  UNCHANGED objects /\ \E v : Step(p, v) /\ v.pc \notin Choosing
<1> DEFINE me == worker[p]
           started == [me EXCEPT !.cluster.status.phase = "Progressing"]
           provided == [me EXCEPT !.cluster.status.provider = TRUE]
           published == [provided EXCEPT !.cluster.status.endpoints = TRUE]
           configured == [me EXCEPT !.pc = "publish", !.cluster.status.metallb = "True"]
<1>1. me \in Worker /\ me.cur \in Clusters /\ me.cluster \in Object
  <2>1. me.pc # "idle"
    BY DEF EnsureK0sCluster, Prepare, WaitReady, TargetClient, PodsReady, PublishAccess,
       LookupContainer, CreateContainer, StartContainer, Install, ConfigureMetalLB,
       RemoveContainer, At
  <2> QED
    BY <2>1, InPass
<1>2. UNCHANGED objects
  BY DEF EnsureK0sCluster, Prepare, WaitReady, TargetClient, PodsReady, PublishAccess,
     LookupContainer, CreateContainer, StartContainer, Install, ConfigureMetalLB,
     RemoveContainer, platformVars
<1>3. started \in Worker /\ provided \in Worker /\ published \in Worker
  BY <1>1, Zenon DEF Worker, Object, Status, Phases
<1>4. configured.pc = "publish"
  BY <1>1, WorkerFields
<1> HIDE DEF started, provided, published, configured
<1>5. ASSUME NEW w \in Worker
      PROVE  /\ Fail(w).pc = "commit" /\ FailK0s(w).pc = "commit"
             /\ FailMetalLB(w).pc = "commit" /\ MarkReady(w).pc = "commit"
             /\ K0sUp(w).pc = "target"
             /\ \A l \in Labels : [w EXCEPT !.pc = l].pc = l
  BY <1>5, WorkerFields
<1>6. /\ "commit" \notin Choosing /\ "target" \notin Choosing /\ "publish" \notin Choosing
      /\ Labels \ Choosing = {"idle", "addFinalizer", "exists", "prepare", "create",
             "start", "wait", "target", "install", "podsReady", "configure", "publish",
             "display", "lookup", "remove", "removeFinalizer", "commit"}
  BY DEF Labels, Choosing
<1>7. CASE EnsureK0sCluster(p) \/ Prepare(p) \/ WaitReady(p)
  <2>1. CASE EnsureK0sCluster(p)
    <3>1. \/ Step(p, K0sUp(started)) \/ Step(p, [started EXCEPT !.pc = "prepare"])
          \/ Step(p, FailK0s(started))
      BY <2>1, Zenon DEF EnsureK0sCluster, started
    <3>2. /\ K0sUp(started).pc = "target" /\ FailK0s(started).pc = "commit"
          /\ [started EXCEPT !.pc = "prepare"].pc = "prepare" /\ "prepare" \notin Choosing
      BY <1>3, <1>5, <1>6
    <3> QED
      BY <1>2, <1>6, <3>1, <3>2
  <2>2. CASE Prepare(p)
    BY <1>1, <1>2, <1>5, <1>6, <2>2 DEF Prepare
  <2>3. CASE WaitReady(p)
    BY <1>1, <1>2, <1>5, <1>6, <2>3 DEF WaitReady
  <2> QED
    BY <1>7, <2>1, <2>2, <2>3
<1>8. CASE TargetClient(p) \/ PodsReady(p) \/ LookupContainer(p)
  <2>1. CASE TargetClient(p)
    BY <1>1, <1>2, <1>5, <1>6, <2>1 DEF TargetClient
  <2>2. CASE PodsReady(p)
    BY <1>1, <1>2, <1>5, <1>6, <2>2 DEF PodsReady
  <2>3. CASE LookupContainer(p)
    BY <1>1, <1>2, <1>5, <1>6, <2>3 DEF LookupContainer
  <2> QED
    BY <1>8, <2>1, <2>2, <2>3
<1>9. CASE PublishAccess(p)
  <2>1. \/ Step(p, MarkReady(published)) \/ Step(p, [published EXCEPT !.pc = "display"])
        \/ Step(p, Fail(provided)) \/ Step(p, Fail(published))
    BY <1>9, Zenon DEF PublishAccess, provided, published
  <2> QED
    BY <1>2, <1>3, <1>5, <1>6, <2>1
<1>10. CASE CreateContainer(p) \/ StartContainer(p) \/ Install(p)
  <2>1. CASE CreateContainer(p)
    BY <1>1, <1>2, <1>5, <1>6, <2>1 DEF CreateContainer
  <2>2. CASE StartContainer(p)
    BY <1>1, <1>2, <1>5, <1>6, <2>2 DEF StartContainer
  <2>3. CASE Install(p)
    BY <1>1, <1>2, <1>5, <1>6, <2>3 DEF Install
  <2> QED
    BY <1>10, <2>1, <2>2, <2>3
<1>11. CASE ConfigureMetalLB(p)
  BY <1>1, <1>2, <1>4, <1>5, <1>6, <1>11 DEF ConfigureMetalLB, configured
<1>12. CASE RemoveContainer(p)
  BY <1>1, <1>2, <1>5, <1>6, <1>12 DEF RemoveContainer
<1> QED
  BY <1>7, <1>8, <1>9, <1>10, <1>11, <1>12

\* The queries.
LEMMA QueriesImplement ==
    ASSUME Implementing, NEW p \in Procs,
           \/ EnsureK0sCluster(p) \/ Prepare(p) \/ WaitReady(p)
           \/ TargetClient(p) \/ PodsReady(p) \/ PublishAccess(p) \/ LookupContainer(p)
    PROVE  Implemented
<1>1. TypeOK
  BY DEF Implementing, Ownership
<1>2. UNCHANGED containers
  BY DEF EnsureK0sCluster, Prepare, WaitReady, TargetClient, PodsReady, PublishAccess,
     LookupContainer, dockerVars
<1> QED
  BY <1>1, <1>2, CallsLead, PassOnly

\* The calls that change a container: a pass that builds knows that its Cluster
\* is there and holds a slice, one that removes that it is being deleted.
LEMMA CallsImplement ==
    ASSUME Implementing, NEW p \in Procs,
           \/ CreateContainer(p) \/ StartContainer(p) \/ Install(p)
           \/ ConfigureMetalLB(p) \/ RemoveContainer(p)
    PROVE  Implemented
<1> DEFINE me == worker[p]
           c == me.cur
           n == K0sName(c)
<1>1. /\ Ownership /\ TypeOK /\ c \in Clusters /\ n \in Names
      /\ containers \in [Names -> Container] /\ PassKnows(p)
      /\ me.pc \in {"create", "start", "install", "configure", "remove"}
  <2>1. me.pc \in {"create", "start", "install", "configure", "remove"}
    BY DEF CreateContainer, StartContainer, Install, ConfigureMetalLB, RemoveContainer, At
  <2> QED
    BY <2>1, NamesDiffer, InPass DEF Implementing, Ownership, TypeOK, ProviderTypeOK
<1>2. UNCHANGED objects /\ LeasesKept
  BY <1>1, CallsLead, LocalLeases
<1>3. ASSUME NEW r \in Container
      PROVE  \A v : /\ [r EXCEPT !.state = v].state = v
                    /\ [r EXCEPT !.metallb = v].state = r.state
                    /\ [r EXCEPT !.pool = v].state = r.state
  BY Zenon DEF Container
<1>4. NoContainer.state = "absent"
  BY Zenon DEF NoContainer
<1>5. CASE UNCHANGED containers
  BY <1>2, <1>5, Unmoved DEF Implemented
<1>6. CASE CreateContainer(p) /\ ContainerCreate(n)
  <2>1. Present(objects[c]) /\ objects[c].subnet # NoSubnet
    BY <1>1, <1>6, Builds DEF CreateContainer, At, Building
  <2>2. /\ containers' = [containers EXCEPT ![n] = [containers[n] EXCEPT !.state = "created"]]
        /\ containers[n].state = "absent"
    BY <1>6 DEF ContainerCreate, ClusterExists
  <2>3. [containers[n] EXCEPT !.state = "created"].state = "created"
    BY <1>1, <1>3
  <2> QED
    BY <1>1, <1>2, <2>1, <2>2, <2>3, ContainerMoves DEF Implemented
<1>7. CASE ContainerStart(n)
  <2>1. /\ containers' = [containers EXCEPT ![n] = [containers[n] EXCEPT !.state = "running"]]
        /\ containers[n].state = "created"
    BY <1>7 DEF ContainerStart
  <2>2. [containers[n] EXCEPT !.state = "running"].state = "running"
    BY <1>1, <1>3
  <2> QED
    BY <1>1, <1>2, <2>1, <2>2, ContainerMoves DEF Implemented
<1>8. CASE InstallMetalLB(n) \/ ConfigureSubnet(n, me.cluster.subnet)
  <2> DEFINE k == containers[n]
             i == [k EXCEPT !.metallb = IF k.metallb = "absent" THEN "installed" ELSE k.metallb]
             s == [k EXCEPT !.pool = me.cluster.subnet]
  <2>1. k \in Container
    BY <1>1
  <2>2. i.state = k.state /\ s.state = k.state
    BY <1>3, <2>1
  <2>3. containers' = [containers EXCEPT ![n] = i] \/ containers' = [containers EXCEPT ![n] = s]
    BY <1>8 DEF InstallMetalLB, ConfigureSubnet
  <2> HIDE DEF i, s
  <2> QED
    BY <1>1, <1>2, <2>2, <2>3, ContainerMoves DEF Implemented
<1>9. CASE RemoveContainer(p) /\ DeleteCluster(n)
  <2>1. objects[c].life = "deleting"
    BY <1>1, <1>9 DEF RemoveContainer, At, PassKnows, Owning, Removing
  <2>2. containers' = [containers EXCEPT ![n] = NoContainer]
    BY <1>9 DEF DeleteCluster
  <2> QED
    BY <1>1, <1>2, <1>4, <2>1, <2>2, ContainerMoves DEF Implemented
<1> QED
  BY <1>5, <1>6, <1>7, <1>8, <1>9
     DEF CreateContainer, StartContainer, Install, ConfigureMetalLB, RemoveContainer

----------------------------------------------------------------------------
(* The steps of a pass that write its object *)

\* A write keeps the object's life and gives up the finalizer only when the
\* container is gone; it leases a slice nobody holds to a live Cluster, or none.
LEMMA WriteImplements ==
    ASSUME Implementing, NEW p \in Procs, NEW c \in Clusters, NEW o \in Object, NEW v,
           Write(p, c, o, v), Present(o), UNCHANGED containers,
           o.life = objects[c].life,
           \/ o.subnet = objects[c].subnet
           \/ /\ o.life = "live" /\ objects[c].subnet = NoSubnet
              /\ o.subnet \in Slices \ AssignedSubnets,
           ~o.finalizer => ~objects[c].finalizer \/ ~ClusterExists(K0sName(c)),
           o.subnet # NoSubnet => o.finalizer \/ Collected(o).life = "gone",
           v.pc \notin Choosing \/ PassCurrent(p)'
    PROVE  Implemented
<1> DEFINE x == Collected(o)
<1>1. objects' = [objects EXCEPT ![c] = x]
  BY DEF Write, Stored
<1>2. \/ x = o
      \/ /\ o.life = "deleting" /\ ~o.finalizer
         /\ x.life = "gone" /\ x.subnet = NoSubnet
  BY CollectedFields
<1>3. objects[c].subnet # NoSubnet => objects[c].finalizer
  BY DEF Implementing, LeasesInOrder
<1>4. Ownership
  BY DEF Implementing
<1> HIDE DEF x
<1>5. Moved
  BY <1>1, <1>2, <1>3, <1>4, ObjectMoves
<1> QED
  BY <1>5, WriteLeases DEF Implemented

\* The finalizer comes first and goes last.
LEMMA FinalizersImplement ==
    ASSUME Implementing, NEW p \in Procs, EnsureFinalizer(p) \/ RemoveFinalizer(p)
    PROVE  Implemented
<1> DEFINE me == worker[p]
           c == me.cur
           held == [me.cluster EXCEPT !.finalizer = TRUE]
           free == [me.cluster EXCEPT !.finalizer = FALSE]
<1>1. /\ TypeOK /\ PassKnows(p) /\ c \in Clusters /\ me.cluster \in Object
      /\ me.pc \in {"addFinalizer", "removeFinalizer"}
      /\ "commit" \in Labels \ Choosing /\ UNCHANGED containers
  BY InPass DEF Implementing, Ownership, EnsureFinalizer, RemoveFinalizer, At, Labels,
     Choosing, dockerVars, Worker
<1>2. /\ held \in Object /\ held.finalizer /\ held.subnet = me.cluster.subnet
      /\ free \in Object /\ ~free.finalizer /\ free.subnet = me.cluster.subnet
      /\ free.foreign = me.cluster.foreign
  BY <1>1, Zenon DEF Object
<1>3. Present(objects[c]) => me.cluster.subnet = objects[c].subnet
  BY <1>1 DEF PassKnows, Present
<1>4. CASE EnsureFinalizer(p)
  <2>1. Update(p, held, [me EXCEPT !.pc = "commit"])
    BY <1>4 DEF EnsureFinalizer
  <2> HIDE DEF held
  <2>2. PICK o \in Object : \E v :
            /\ o.life = objects[c].life /\ o.subnet = held.subnet
            /\ o.finalizer = held.finalizer /\ v.pc = "commit"
            /\ \/ Present(objects[c]) /\ Write(p, c, o, v)
               \/ UNCHANGED objects /\ Step(p, v)
    BY <1>1, <1>2, <2>1, UpdateWrites
  <2>3. PICK v : /\ v.pc = "commit"
                 /\ \/ Present(objects[c]) /\ Write(p, c, o, v)
                    \/ UNCHANGED objects /\ Step(p, v)
    BY <2>2
  <2>4. CASE Present(objects[c]) /\ Write(p, c, o, v)
    <3>1. Present(o) /\ o.subnet = objects[c].subnet /\ o.finalizer
      BY <1>2, <1>3, <2>2, <2>4 DEF Present
    <3> QED
      BY <1>1, <2>2, <2>3, <2>4, <3>1, WriteImplements
  <2>5. CASE UNCHANGED objects /\ Step(p, v)
    BY <1>1, <2>3, <2>5, PassOnly
  <2> QED
    BY <2>3, <2>4, <2>5
<1>5. CASE RemoveFinalizer(p)
  <2>1. Update(p, free, [me EXCEPT !.pc = "commit"]) /\ me.pc = "removeFinalizer"
    BY <1>5 DEF RemoveFinalizer, At
  <2> HIDE DEF free
  <2>2. PICK o \in Object : \E v :
            /\ o.life = objects[c].life /\ o.subnet = free.subnet
            /\ o.finalizer = free.finalizer /\ o.foreign = free.foreign /\ v.pc = "commit"
            /\ \/ Present(objects[c]) /\ Write(p, c, o, v)
               \/ UNCHANGED objects /\ Step(p, v)
    BY <1>1, <1>2, <2>1, UpdateWrites
  <2>3. PICK v : /\ v.pc = "commit"
                 /\ \/ Present(objects[c]) /\ Write(p, c, o, v)
                    \/ UNCHANGED objects /\ Step(p, v)
    BY <2>2
  <2>4. CASE Present(objects[c]) /\ Write(p, c, o, v)
    <3>1. /\ ~ClusterExists(K0sName(c)) /\ ~me.cluster.foreign
          /\ objects[c].life = "deleting"
      BY <1>1, <2>1 DEF PassKnows, Owning, Removing
    <3>2. /\ Present(o) /\ o.subnet = objects[c].subnet
          /\ o.life = "deleting" /\ ~o.finalizer /\ ~o.foreign
      BY <1>2, <1>3, <2>2, <2>4, <3>1 DEF Present
    <3>3. Collected(o).life = "gone"
      BY <3>2, Zenon DEF Collected, GoneObject, NoObject
    <3> QED
      BY <1>1, <2>2, <2>3, <2>4, <3>1, <3>2, <3>3, WriteImplements
  <2>5. CASE UNCHANGED objects /\ Step(p, v)
    BY <1>1, <2>3, <2>5, PassOnly
  <2> QED
    BY <2>3, <2>4, <2>5
<1> QED
  BY <1>4, <1>5

\* A pass that was not overtaken since it read a live Cluster without a slice
\* leases it one that is still free.
LEMMA AssignImplements ==
    ASSUME Implementing, NEW p \in Procs, AssignSubnet(p)
    PROVE  Implemented
<1> DEFINE me == worker[p]
           c == me.cur
<1>1. /\ TypeOK /\ PassKnows(p) /\ PassCurrent(p) /\ me.pc = "assign"
      /\ c \in Clusters /\ objects[c] \in Object /\ me.cluster \in Object
      /\ "exists" \in Labels \ Choosing /\ "commit" \notin Choosing /\ UNCHANGED containers
  BY InPass DEF Implementing, LeasesInOrder, Ownership, AssignSubnet, At, Labels,
     Choosing, dockerVars, Worker
<1>2. Update(p, me.cluster, [me EXCEPT !.pc = "exists"])
  BY DEF AssignSubnet
<1>3. /\ objects[c].subnet = NoSubnet /\ me.cluster.finalizer
      /\ me.cluster.subnet \in Slices \ AssignedSubnets
      /\ ~me.stale => objects[c].life = "live"
  BY <1>1 DEF PassKnows, PassCurrent, Owning
<1>4. PICK o \in Object : \E v :
          /\ o.life = objects[c].life /\ o.subnet = me.cluster.subnet
          /\ o.finalizer = me.cluster.finalizer
          /\ v.pc \in {"exists", "commit"}
          /\ \/ Present(objects[c]) /\ ~me.stale /\ Write(p, c, o, v)
             \/ UNCHANGED objects /\ Step(p, v)
  BY <1>1, <1>2, UpdateWrites
<1>5. PICK v : /\ v.pc \in {"exists", "commit"}
               /\ \/ Present(objects[c]) /\ ~me.stale /\ Write(p, c, o, v)
                  \/ UNCHANGED objects /\ Step(p, v)
  BY <1>4
<1>6. CASE Present(objects[c]) /\ ~me.stale /\ Write(p, c, o, v)
  <2>1. Present(o) /\ o.life = "live"
    BY <1>3, <1>4, <1>6 DEF Present
  <2> QED
    BY <1>1, <1>3, <1>4, <1>5, <1>6, <2>1, WriteImplements
<1>7. CASE UNCHANGED objects /\ Step(p, v)
  BY <1>1, <1>5, <1>7, PassOnly
<1> QED
  BY <1>5, <1>6, <1>7

\* A patch by name, on whichever object has it, changes nothing in the life cycle.
LEMMA PatchImplements ==
    ASSUME Implementing, NEW p \in Procs, NEW c \in Clusters, NEW d \in Holders(c),
           NEW o, NEW v, Untouched(o, d), Write(p, d, o, v), UNCHANGED containers,
           v.pc \notin Choosing \/ PassCurrent(p)'
    PROVE  Implemented
<1>1. d \in Clusters /\ Present(objects[d])
  BY HolderIs
<1>2. objects[d].subnet # NoSubnet => objects[d].finalizer
  BY <1>1 DEF Implementing, LeasesInOrder
<1>3. /\ o \in Object /\ Present(o)
      /\ o.life = objects[d].life /\ o.subnet = objects[d].subnet
      /\ o.finalizer = objects[d].finalizer
  BY <1>1 DEF Untouched, Present
<1> QED
  BY <1>1, <1>2, <1>3, WriteImplements

\* The status and the display metadata are no part of the life cycle.
LEMMA StatusImplements ==
    ASSUME Implementing, NEW p \in Procs, DisplayMetadata(p) \/ CommitStatus(p)
    PROVE  Implemented
<1> DEFINE c == worker[p].cur
<1>1. /\ TypeOK /\ c \in Clusters /\ UNCHANGED containers
      /\ "idle" \notin Choosing /\ "commit" \notin Choosing
  BY InPass DEF Implementing, Ownership, DisplayMetadata, CommitStatus, At, Choosing,
     dockerVars
<1>2. \/ UNCHANGED objects /\ \E v : v.pc \in {"idle", "commit"} /\ Step(p, v)
      \/ \E d \in Holders(c) : \E o : \E v :
             Untouched(o, d) /\ v.pc \in {"idle", "commit"} /\ Write(p, d, o, v)
  BY <1>1, StatusWrites
<1>3. ASSUME NEW v, v.pc \in {"idle", "commit"}, UNCHANGED objects, Step(p, v)
      PROVE  Implemented
  BY <1>1, <1>3, PassOnly
<1>4. ASSUME NEW d \in Holders(c), NEW o, NEW v, Untouched(o, d),
             v.pc \in {"idle", "commit"}, Write(p, d, o, v)
      PROVE  Implemented
  BY <1>1, <1>4, PatchImplements
<1> QED
  BY <1>2, <1>3, <1>4

----------------------------------------------------------------------------
(* A pass starts and chooses a slice *)

\* What a pass has just read is current.
LEMMA GetImplements ==
    ASSUME Implementing, NEW p \in Procs, NEW c \in Clusters, Get(p, c)
    PROVE  Implemented
<1> DEFINE l == IF objects[c].op = "reconcile" THEN "operation" ELSE "profile"
           w == [IdleWorker EXCEPT !.pc = l, !.cur = c, !.cluster = objects[c],
                                   !.old = objects[c].status]
<1>1. /\ TypeOK /\ objects[c] \in Object /\ Present(objects[c])
      /\ UNCHANGED <<objects, containers>>
  BY DEF Implementing, Ownership, TypeOK, Get, dockerVars
<1>2. w.cur = c /\ w.cluster = objects[c] /\ w.pc \in {"operation", "profile"}
  BY Zenon DEF IdleWorker
<1>3. Step(p, w) /\ worker'[p] = w
  BY <1>1 DEF Get, Step, TypeOK
<1> HIDE DEF w, l
<1>4. PassCurrent(p)'
  BY <1>1, <1>2, <1>3 DEF PassCurrent
<1> QED
  BY <1>1, <1>3, <1>4, PassOnly

\* So is what the patch of the operation annotation returned, of a successor too:
\* it did not make the object vanish, which somebody holds.
LEMMA OperationImplements ==
    ASSUME Implementing, NEW p \in Procs, RemoveOperation(p)
    PROVE  Implemented
<1> DEFINE me == worker[p]
           c == me.cur
           O(d) == [objects[d] EXCEPT !.op = ""]
           W(d) == [me EXCEPT !.pc = "profile", !.cur = d,
                              !.cluster = Decoded(me.cluster, O(d)),
                              !.old = Decoded(me.cluster, O(d)).status, !.stale = FALSE]
<1>1. /\ TypeOK /\ c \in Clusters /\ me \in Worker /\ me.cluster \in Object
      /\ UNCHANGED containers /\ "idle" \notin Choosing
  BY InPass DEF Implementing, Ownership, RemoveOperation, At, Choosing, dockerVars, Worker
<1>2. \A d \in Clusters : Untouched(O(d), d)
  BY <1>1, Patches, ObjectTypes
<1>3. \A d : /\ W(d).pc = "profile" /\ W(d).cur = d /\ ~W(d).stale
             /\ W(d).cluster = Decoded(me.cluster, O(d))
  BY <1>1, Zenon DEF Worker
<1>4. IdleWorker.pc = "idle"
  BY DEF IdleWorker
<1>5. \/ \E d \in Holders(c) : Write(p, d, O(d), W(d))
      \/ \E d \in Holders(c) : Write(p, d, O(d), IdleWorker)
      \/ UNCHANGED objects /\ Step(p, IdleWorker)
  BY Zenon DEF RemoveOperation, Abort, O, W
<1> HIDE DEF O, W
<1>6. ASSUME NEW d \in Holders(c), Write(p, d, O(d), W(d))
      PROVE  PassCurrent(p)'
  <2>1. d \in Clusters /\ Present(objects[d]) /\ Untouched(O(d), d)
    BY <1>2, HolderIs
  <2>2. Collected(O(d)) = O(d)
    BY <2>1 DEF Collected, Untouched, Implementing, HeldObjects
  <2>3. worker'[p] = W(d) /\ objects'[d] = O(d)
    BY <1>1, <1>6, <2>1, <2>2, Written DEF TypeOK
  <2>4. /\ O(d) \in Object /\ Present(O(d))
        /\ Decoded(me.cluster, O(d)).life \in {"deleting", O(d).life}
    BY <1>1, <2>1, DecodedFields DEF Untouched, Present
  <2> QED
    BY <1>3, <2>3, <2>4 DEF PassCurrent, Present
<1>7. ASSUME NEW d \in Holders(c), NEW v, v \in {W(d), IdleWorker}, Write(p, d, O(d), v)
      PROVE  Implemented
  <2>1. v.pc \notin Choosing \/ PassCurrent(p)'
    BY <1>1, <1>4, <1>6, <1>7
  <2> QED
    BY <1>1, <1>2, <1>7, <2>1, PatchImplements, HolderIs
<1>8. CASE UNCHANGED objects /\ Step(p, IdleWorker)
  BY <1>1, <1>4, <1>8, PassOnly
<1> QED
  BY <1>5, <1>7, <1>8

\* A slice is chosen only for a Cluster that was read as live.
LEMMA ResponsibleImplements ==
    ASSUME Implementing, NEW p \in Procs, Responsible(p)
    PROVE  Implemented
<1> DEFINE me == worker[p]
           w == Begin(me)
<1>1. /\ TypeOK /\ PassCurrent(p) /\ me \in Worker /\ me.pc = "profile"
      /\ "idle" \notin Choosing
      /\ UNCHANGED <<objects, containers>>
  BY InPass DEF Implementing, LeasesInOrder, Ownership, Responsible, At, Choosing, dockerVars
<1>2. Kept(w, me) /\ w.pc \in {"lookup", "commit", "addFinalizer", "pick", "exists"}
  BY <1>1, BeginFields
<1>3. w.stale = me.stale /\ (w.pc = "pick" => me.cluster.life # "deleting")
  <2> DEFINE deletion == [me EXCEPT !.cluster.status.phase = "Terminating"]
  <2>1. deletion.stale = me.stale /\ deletion \in Worker
    BY <1>1, Zenon DEF Worker, Object, Status, Phases
  <2> DEFINE looks == [deletion EXCEPT !.pc = "lookup"]
             commits(v) == [deletion EXCEPT !.pc = "commit", !.again = v]
             adds == [me EXCEPT !.pc = "addFinalizer"]
             picks == [me EXCEPT !.pc = "pick"]
             goesOn == [me EXCEPT !.pc = "exists"]
  <2> HIDE DEF deletion
  <2>2. /\ looks.stale = deletion.stale /\ looks.pc = "lookup"
        /\ \A v : commits(v).stale = deletion.stale /\ commits(v).pc = "commit"
        /\ adds.stale = me.stale /\ picks.stale = me.stale /\ goesOn.stale = me.stale
    BY <1>1, <2>1, Zenon DEF Worker
  <2>3. \/ /\ me.cluster.life = "deleting"
           /\ w = looks \/ \E v : w = commits(v)
        \/ /\ me.cluster.life # "deleting"
           /\ w = adds \/ w = picks \/ w = goesOn
    BY Zenon DEF Begin, deletion
  <2> HIDE DEF looks, commits, adds, picks, goesOn
  <2> QED
    BY <2>1, <2>2, <2>3
<1>4. Step(p, w) \/ Step(p, IdleWorker)
  BY DEF Responsible, Abort
<1>5. IdleWorker.pc = "idle"
  BY DEF IdleWorker
<1> HIDE DEF w
<1>6. ASSUME Step(p, w)
      PROVE  PassCurrent(p)'
  <2>1. worker'[p] = w
    BY <1>1, <1>6 DEF Step, TypeOK
  <2> QED
    BY <1>1, <1>2, <1>3, <2>1 DEF PassCurrent, Kept
<1> QED
  BY <1>1, <1>4, <1>5, <1>6, PassOnly

\* Choosing it changes nothing else the pass knows.
LEMMA PickImplements ==
    ASSUME Implementing, NEW p \in Procs, PickSubnet(p)
    PROVE  Implemented
<1> DEFINE me == worker[p]
           w(s) == [me EXCEPT !.pc = "assign", !.cluster.subnet = s]
<1>1. /\ TypeOK /\ PassCurrent(p) /\ me \in Worker /\ me.cluster \in Object /\ me.pc = "pick"
      /\ "commit" \notin Choosing
      /\ UNCHANGED <<objects, containers>>
  BY InPass DEF Implementing, LeasesInOrder, Ownership, PickSubnet, At, Choosing, dockerVars
<1>2. \A s : /\ w(s).pc = "assign" /\ w(s).cur = me.cur /\ w(s).stale = me.stale
            /\ w(s).cluster.life = me.cluster.life
  BY <1>1, Zenon DEF Worker, Object
<1>3. Fail(me).pc = "commit"
  BY <1>1, WorkerFields
<1>4. (\E s : Step(p, w(s))) \/ Step(p, Fail(me))
  BY Zenon DEF PickSubnet, w
<1> HIDE DEF w
<1>5. ASSUME NEW s, Step(p, w(s))
      PROVE  PassCurrent(p)'
  <2>1. worker'[p] = w(s)
    BY <1>1, <1>5 DEF Step, TypeOK
  <2> QED
    BY <1>1, <1>2, <2>1 DEF PassCurrent
<1> QED
  BY <1>1, <1>3, <1>4, <1>5, PassOnly

----------------------------------------------------------------------------
(* Everybody else *)

\* An edit of an object creates it, deletes it, or changes nothing that a pass
\* that chooses a slice relies on without marking it as overtaken.
LEMMA UsersImplement ==
    ASSUME Implementing, NEW c \in Clusters, UserStep(c)
    PROVE  Implemented
<1>1. TypeOK /\ Ownership /\ objects \in [Clusters -> Object]
  BY DEF Implementing, Ownership, TypeOK
<1>2. PICK o \in Object :
          /\ Edit(c, o) /\ Present(o)
          /\ o.finalizer = objects[c].finalizer /\ o.subnet = objects[c].subnet
          /\ \/ o.life = objects[c].life
             \/ objects[c].life = "none" /\ o.life = "live"
             \/ objects[c].life = "live" /\ o.life = "deleting"
          /\ o.foreign => objects[c].foreign \/ objects[c].life = "live"
  BY <1>1, UserEdits
<1> DEFINE x == Collected(o)
<1>3. /\ objects' = [objects EXCEPT ![c] = x] /\ UNCHANGED containers
      /\ \A q \in Procs : worker'[q] = Overtaken(c)[q]
  BY <1>2 DEF Edit, Stored, Overtaken, dockerVars
<1>4. \/ x = o
      \/ /\ o.life = "deleting" /\ ~o.finalizer
         /\ x.life = "gone" /\ x.subnet = NoSubnet
  BY CollectedFields
<1>5. objects[c].subnet # NoSubnet => objects[c].finalizer
  BY DEF Implementing, LeasesInOrder
<1>6. HeldObjects' /\ \A d \in Clusters : objects'[d].subnet # NoSubnet => objects'[d].finalizer
  BY <1>2, <1>3, <1>5, StoredLeases
<1>7. \A q \in Procs : PassCurrent(q)'
  BY <1>3, PassOvertaken
<1> HIDE DEF x
<1>8. Moved
  BY <1>1, <1>2, <1>3, <1>4, <1>5, ObjectMoves
<1> QED
  BY <1>6, <1>7, <1>8 DEF Implemented, LeasesKept, LeasesInOrder

\* A step in which no object and no pass changes.
LEMMA NobodyWaits ==
    ASSUME Implementing, UNCHANGED <<objects, worker>>
    PROVE  LeasesKept
<1>1. \A q \in Procs : PassCurrent(q)'
  BY PassWaits
<1> QED
  BY <1>1 DEF LeasesKept, Implementing, LeasesInOrder, HeldObjects

\* docker boots what was started; the metallb pods are not in the life cycle.
LEMMA DockerImplements ==
    ASSUME Implementing, NEW n \in Names, DockerStep(n)
    PROVE  Implemented
<1>1. /\ Ownership /\ containers \in [Names -> Container] /\ UNCHANGED objects /\ LeasesKept
  BY NobodyWaits DEF Implementing, Ownership, TypeOK, ProviderTypeOK, DockerStep
<1> DEFINE k == containers[n]
           b == [k EXCEPT !.state = "ready"]
           m == [k EXCEPT !.metallb = "ready"]
<1>2. /\ b.state = "ready" /\ m.state = k.state
  BY <1>1, Zenon DEF Container
<1>3. \/ containers' = [containers EXCEPT ![n] = b] /\ k.state = "running"
      \/ containers' = [containers EXCEPT ![n] = m]
  BY DEF DockerStep, Boot, MetalLBPodsReady
<1> HIDE DEF b, m
<1>4. CASE \E c \in Clusters : n = K0sName(c)
  BY <1>1, <1>2, <1>3, <1>4, ContainerMoves DEF Implemented
<1>5. CASE \A c \in Clusters : n # K0sName(c)
  <2>1. \A c \in Clusters : containers'[K0sName(c)] = containers[K0sName(c)]
    BY <1>1, <1>3, <1>5, NamesDiffer
  <2> QED
    BY <1>1, <2>1, Unmoved DEF Implemented
<1> QED
  BY <1>4, <1>5

\* The queue, the profile and restarts are not in the life cycle.
LEMMA OthersImplement ==
    ASSUME Implementing,
           \/ \E p \in Procs, c \in Clusters : Skip(p, c)
           \/ \E v \in {"absent", "ours", "other"} : SetProfile(v)
           \/ \E p \in Procs : Crash(p)
           \/ UNCHANGED vars
    PROVE  Implemented
<1>1. UNCHANGED <<objects, containers>>
  BY DEF Skip, SetProfile, Crash, vars, dockerVars
<1>2. CASE UNCHANGED worker
  BY <1>1, <1>2, NobodyWaits, Unmoved DEF Implemented
<1>3. CASE \E p \in Procs : Crash(p)
  <2>1. IdleWorker.pc \notin Choosing
    BY DEF IdleWorker, Choosing
  <2> QED
    BY <1>1, <1>3, <2>1, PassOnly DEF Crash
<1> QED
  BY <1>2, <1>3 DEF Skip, SetProfile, vars

----------------------------------------------------------------------------
(* The theorems *)

\* Nothing exists and no pass runs, initially.
LEMMA InitImplements == Init => Lifecycle!LifecycleInit /\ LeasesInOrder /\ HeldObjects
<1> SUFFICES ASSUME Init PROVE Lifecycle!LifecycleInit /\ LeasesInOrder /\ HeldObjects
  OBVIOUS
<1>1. \A c \in Clusters : objects[c].life = "none" /\ objects[c].subnet = NoSubnet
  BY Zenon DEF Init, NoObject
<1>2. \A p \in Procs : worker[p].pc = "idle"
  BY Zenon DEF Init, IdleWorker
<1>3. \A c \in Clusters : containers[K0sName(c)].state =
                               IF c \in Adopting THEN "ready" ELSE "absent"
  <2>1. NoContainer.state = "absent" /\ [NoContainer EXCEPT !.state = "ready"].state = "ready"
    BY Zenon DEF NoContainer
  <2>2. ASSUME NEW c \in Clusters
        PROVE  containers[K0sName(c)] =
                   IF c \in Adopting THEN [NoContainer EXCEPT !.state = "ready"] ELSE NoContainer
    BY NamesDiffer DEF Init, ProviderInit, Adopting
  <2> QED
    BY <2>1, <2>2
<1>4. Lifecycle!LifecycleInit
  BY <1>1, <1>3 DEF Lifecycle!LifecycleInit
<1>5. LeasesInOrder /\ HeldObjects
  BY <1>1, <1>2 DEF LeasesInOrder, HeldObjects, PassCurrent
<1> QED
  BY <1>4, <1>5

\* Every step implements one of the life cycle, or none.
LEMMA NextImplements ==
    ASSUME Implementing, [Next]_vars
    PROVE  Implemented
<1>1. ASSUME NEW p \in Procs, Pass(p) PROVE Implemented
  BY <1>1, OperationImplements, ResponsibleImplements, FinalizersImplement, PickImplements,
     AssignImplements, StatusImplements, QueriesImplement, CallsImplement DEF Pass
<1>2. ASSUME NEW p \in Procs, NEW c \in Clusters, Dequeue(p, c) PROVE Implemented
  BY <1>2, GetImplements, OthersImplement DEF Dequeue
<1> QED
  BY <1>1, <1>2, UsersImplement, DockerImplements, OthersImplement DEF Next

\* With one process the strengthened invariant holds and every step is one of
\* the life cycle.
LEMMA ImplementingHolds ==
    ASSUME SingleProcess
    PROVE  Spec => []Implementing
<1>1. Init => Implementing
  BY OwnershipInit, InitImplements DEF Implementing
<1>2. Implementing /\ [Next]_vars => Implementing'
  BY OwnershipStep, NextImplements DEF Implementing, Implemented, LeasesKept
<1> QED
  BY <1>1, <1>2, PTL DEF Spec

\* Whoever holds a slice holds the finalizer, and a slice is only chosen for a
\* Cluster that was read as live.
THEOREM LeasesOrdered == ASSUME SingleProcess PROVE Spec => []LeasesInOrder
<1>1. Implementing => LeasesInOrder
  BY DEF Implementing
<1> QED
  BY <1>1, ImplementingHolds, PTL

\* The controller, with everything that can happen between two of its calls,
\* implements the life cycle of leases and k0s clusters.
THEOREM Refinement == ASSUME SingleProcess PROVE Spec => ImplementsLifecycle
<1>1. Init => Lifecycle!LifecycleInit
  BY InitImplements
<1>2. Implementing /\ [Next]_vars => [Lifecycle!LifecycleNext]_(Lifecycle!lifecycleVars)
  BY NextImplements DEF Implemented, Moved
<1> QED
  BY <1>1, <1>2, ImplementingHolds, PTL DEF Spec, ImplementsLifecycle, Lifecycle!LifecycleSpec

=============================================================================

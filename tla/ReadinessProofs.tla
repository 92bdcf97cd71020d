--------------------------- MODULE ReadinessProofs ---------------------------
(***************************************************************************)
(* What holds with any number of provider processes at work on the same    *)
(* Clusters, for every set of Clusters, every range of slices and every    *)
(* number of crashes, faults and edits.  A Cluster in phase Ready is       *)
(* usable, and a Cluster keeps its slice: the argument is the inductive    *)
(* invariant Readiness.  When the controller rests, every Cluster is as it *)
(* should be: the argument is the inductive invariant Attendance.          *)
(***************************************************************************)
EXTENDS OwnershipProofs

USE DEF Present

----------------------------------------------------------------------------
(* What a pass sees of the object and of the container *)

\* v has in memory what w has, but for conditions, a phase that is not Ready,
\* and access data it published meanwhile.
SeesAs(v, w) ==
    LET s == v.cluster.status
        t == w.cluster.status
    IN  /\ v.cur = w.cur /\ v.old = w.old /\ v.stale = w.stale
        /\ v.cluster.life = w.cluster.life /\ v.cluster.shown = w.cluster.shown
        /\ v.cluster.subnet = w.cluster.subnet
        /\ t.provider => s.provider
        /\ t.endpoints => s.endpoints
        /\ s.phase = "Ready" => t.phase = "Ready"

\* An object as it may change under a pass: a deletion is final, and slice,
\* access data and display metadata stay once they are there.
Grows(o, x) ==
    /\ x.life # "none"
    /\ Present(x) => Present(o) \/ o.life = "none"
    /\ Present(x) /\ Present(o) =>
        /\ o.life = "deleting" => x.life = "deleting"
        /\ o.status.provider => x.status.provider
        /\ o.status.endpoints => x.status.endpoints
        /\ o.shown => x.shown
        /\ o.subnet # NoSubnet => x.subnet = o.subnet

\* A container as it may change under a pass over a Cluster that is not being
\* deleted.
Lasts(n, m, o) ==
    o.life = "live" =>
        /\ n.state = "ready" /\ n.metallb = "ready" => m.state = "ready" /\ m.metallb = "ready"
        /\ Serves(n, o) => Serves(m, o)

\* What Ready promises of the object o and its container n.
Published(n, o) ==
    o.life = "live" /\ o.status.phase = "Ready" =>
        Serves(n, o) /\ o.status.provider /\ o.status.endpoints /\ o.shown

\* A pass that gives up sees what it saw.
LEMMA GivesUp ==
    ASSUME NEW w, NEW v, NEW o, NEW n, Sees(w, o, n), SeesAs(v, w), v.pc = "commit"
    PROVE  Sees(v, o, n)
BY DEF Sees, SeesAs, Building, Removing, Publishing

\* A pass goes on: each step asks for what the steps before it made sure of.
LEMMA GoesOn ==
    ASSUME NEW w, NEW v, NEW o, NEW n, Sees(w, o, n), SeesAs(v, w),
           w.pc \notin {"assign", "commit"}, v.pc \notin {"operation", "assign", "commit"},
           v.pc = "pick" => w.cluster.subnet = NoSubnet,
           v.pc \in Building => w.cluster.subnet # NoSubnet,
           v.pc \in Removing => w.cluster.life = "deleting",
           v.pc = "display" => v.cluster.status.provider /\ v.cluster.status.endpoints,
           o.life = "live" /\ v.pc = "configure" => n.state = "ready" /\ n.metallb = "ready",
           o.life = "live" /\ v.pc \in Publishing => Serves(n, o)
    PROVE  Sees(v, o, n)
BY DEF Sees, SeesAs

\* Somebody else writes the object: what the pass saw stays.
LEMMA SeenObject ==
    ASSUME NEW w, NEW v, NEW o, NEW x, NEW n, Sees(w, o, n), Grows(o, x), o.life # "none",
           v.pc = w.pc, v.cur = w.cur, v.old = w.old, v.cluster = w.cluster, v.stale
    PROVE  Sees(v, x, n)
<1> USE DEF Sees, Grows, Serves
<1>1. /\ x.life # "none"
      /\ x.life = "live" => o.life = "live"
      /\ Present(x) => Present(o)
  OBVIOUS
<1>2. Present(x) =>
            /\ v.old.provider => v.cluster.status.provider /\ x.status.provider
            /\ v.old.endpoints => v.cluster.status.endpoints /\ x.status.endpoints
            /\ v.cluster.shown => x.shown
            /\ v.cluster.life = "deleting" => x.life = "deleting"
            /\ v.pc = "operation" => v.cluster.status = v.old
  BY <1>1
<1>3. Present(x) =>
            /\ v.pc \notin {"assign", "commit"} => v.cluster.subnet \in {NoSubnet, x.subnet}
            /\ v.pc = "pick" => v.cluster.subnet = NoSubnet
            /\ v.pc = "assign" => v.cluster.subnet # NoSubnet
            /\ v.pc \in Building => v.cluster.subnet # NoSubnet
            /\ v.pc \in Removing => v.cluster.life = "deleting"
            /\ v.pc = "display" => v.cluster.status.provider /\ v.cluster.status.endpoints
  BY <1>1
<1>4. x.life = "live" =>
            /\ v.pc = "configure" => n.state = "ready" /\ n.metallb = "ready"
            /\ v.pc \in Publishing => Serves(n, x)
            /\ v.cluster.status.phase = "Ready" =>
                   Serves(n, x) /\ v.cluster.status.provider
                   /\ v.cluster.status.endpoints /\ x.shown
  BY <1>1
<1> QED
  BY <1>1, <1>2, <1>3, <1>4

\* The container changes: what the pass saw of it stays.
LEMMA SeenContainer ==
    ASSUME NEW w, NEW o, NEW n, NEW m, Sees(w, o, n), Lasts(n, m, o)
    PROVE  Sees(w, o, m)
BY DEF Sees, Lasts

\* What has just been read is so, even if the object is collected at once.
LEMMA JustRead ==
    ASSUME NEW v, NEW o \in Object, NEW x, NEW n, Present(o), x \in {o, Collected(o)},
           v.pc \in {"operation", "profile"}, v.cluster = o, v.old = o.status,
           Published(n, o)
    PROVE  Sees(v, x, n)
<1>1. x = o \/ (x.life = "gone")
  BY CollectedFields
<1> QED
  BY <1>1 DEF Sees, Published, Building, Removing, Publishing

\* An object grows into what it is, and into nothing when it is collected.
LEMMA GrowsCollected ==
    ASSUME NEW o, NEW x \in Object, Grows(o, x)
    PROVE  Grows(o, Collected(x))
BY CollectedFields DEF Grows

\* The ways a step of a pass can end keep what it sees.
LEMMA SameSight ==
    ASSUME NEW w \in Worker
    PROVE  /\ SeesAs(Fail(w), w) /\ SeesAs(FailK0s(w), w) /\ SeesAs(FailMetalLB(w), w)
           /\ SeesAs(K0sUp(w), w) /\ SeesAs(Begin(w), w)
           /\ \A l \in Labels : SeesAs([w EXCEPT !.pc = l], w)
           /\ SeesAs([w EXCEPT !.pc = "publish", !.cluster.status.metallb = "True"], w)
           /\ SeesAs([w EXCEPT !.cluster.status.phase = "Progressing"], w)
           /\ SeesAs([w EXCEPT !.cluster.status.provider = TRUE], w)
           /\ SeesAs([w EXCEPT !.cluster.status.endpoints = TRUE], w)
<1>1. w.cluster \in Object /\ w.cluster.status \in Status
  BY DEF Worker, Object
<1>2. SeesAs(Fail(w), w) /\ SeesAs(FailK0s(w), w) /\ SeesAs(FailMetalLB(w), w)
  BY <1>1, Zenon DEF SeesAs, Fail, FailK0s, FailMetalLB, Worker, Object, Status
<1>3. SeesAs(K0sUp(w), w)
  BY <1>1, Zenon DEF SeesAs, K0sUp, Worker, Object, Status
<1>4. \A l \in Labels : SeesAs([w EXCEPT !.pc = l], w)
  BY <1>1, Zenon DEF SeesAs, Worker, Object, Status
<1>5. SeesAs([w EXCEPT !.pc = "publish", !.cluster.status.metallb = "True"], w)
  BY <1>1, Zenon DEF SeesAs, Worker, Object, Status
<1>6. \A ph \in {"Progressing", "Terminating"} :
          SeesAs([w EXCEPT !.cluster.status.phase = ph], w)
  BY <1>1, Zenon DEF SeesAs, Worker, Object, Status
<1>7. /\ SeesAs([w EXCEPT !.cluster.status.provider = TRUE], w)
      /\ SeesAs([w EXCEPT !.cluster.status.endpoints = TRUE], w)
  BY <1>1, Zenon DEF SeesAs, Worker, Object, Status
<1>8. SeesAs(Begin(w), w)
  <2> DEFINE d == [w EXCEPT !.cluster.status.phase = "Terminating"]
  <2>1. d \in Worker
    BY <1>1, Zenon DEF Worker, Object, Status, Phases
  <2>2. SeesAs(d, w)
    BY <1>6
  <2> HIDE DEF d
  <2>3. \A l \in Labels, b \in BOOLEAN :
            /\ SeesAs([d EXCEPT !.pc = l], d)
            /\ SeesAs([d EXCEPT !.pc = l, !.again = b], d)
    BY <2>1, Zenon DEF SeesAs, Worker
  <2>4. \A v : SeesAs(v, d) => SeesAs(v, w)
    BY <2>2 DEF SeesAs
  <2>5. {"lookup", "commit", "addFinalizer", "pick", "exists"} \subseteq Labels
    BY DEF Labels
  <2>6. w.cluster.finalizer \in BOOLEAN
    BY <1>1 DEF Object
  <2>7. Begin(w) \in {[d EXCEPT !.pc = "lookup"],
                      [d EXCEPT !.pc = "commit", !.again = w.cluster.finalizer],
                      [w EXCEPT !.pc = "addFinalizer"], [w EXCEPT !.pc = "pick"],
                      [w EXCEPT !.pc = "exists"]}
    BY Zenon DEF Begin, d
  <2> QED
    BY <1>4, <2>3, <2>4, <2>5, <2>6, <2>7
<1> QED
  BY <1>2, <1>3, <1>4, <1>5, <1>6, <1>7, <1>8

\* A pass that has been overtaken has in memory what it had.
LEMMA OvertakenSight ==
    ASSUME NEW w \in Worker
    PROVE  LET v == [w EXCEPT !.stale = TRUE]
           IN  /\ v.pc = w.pc /\ v.cur = w.cur /\ v.old = w.old
               /\ v.cluster = w.cluster /\ v.stale
BY Zenon DEF Worker

----------------------------------------------------------------------------
(* What a step may do to the objects and to the containers *)

\* The part of Readiness that is not about types.
Seen ==
    /\ UnsharedReadyMeansUsable
    /\ \A c \in Clusters : ~Present(objects[c]) => objects[c].subnet = NoSubnet
    /\ \A p \in Procs : PassSees(p)

\* Readiness is the types and what is seen.
LEMMA ReadinessParts ==
    /\ Readiness <=> TypeOK /\ Seen
    /\ UnsharedReadyMeansUsable <=>
           \A c \in Clusters : Unshared(c) => Published(containers[K0sName(c)], objects[c])
BY DEF Readiness, Seen, UnsharedReadyMeansUsable, UsableWhenReady, Published, Usable

\* A name that more than one Cluster had stays one that more than one had.
LEMMA SharedStays ==
    ASSUME NEW c, Unshared(c)',
           \A d \in Clusters : objects[d].life # "none" => objects'[d].life # "none"
    PROVE  Unshared(c)
BY DEF Unshared

\* What is known of a worker in a pass, its object and its container, when no
\* other Cluster had the name.
LEMMA InSight ==
    ASSUME Readiness, NEW p \in Procs, worker[p].pc # "idle", Unshared(worker[p].cur)
    PROVE  LET me == worker[p]
               o == objects[me.cur]
               n == containers[K0sName(me.cur)]
           IN  /\ TypeOK /\ Seen /\ me \in Worker /\ me.cur \in Clusters
               /\ me.cluster \in Object /\ o \in Object
               /\ K0sName(me.cur) \in Names /\ n \in Container
               /\ worker \in [Procs -> Worker] /\ objects \in [Clusters -> Object]
               /\ containers \in [Names -> Container]
               /\ o.life # "none" /\ Sees(me, o, n) /\ Published(n, o)
<1>1. TypeOK /\ Seen
  BY ReadinessParts
<1>2. worker[p].cur \in Clusters
  BY <1>1, InPass
<1> QED
  BY <1>1, <1>2, InPass, NamesDiffer, ReadinessParts DEF TypeOK, ProviderTypeOK, Seen, PassSees

\* Nothing is written and no container changes.
LEMMA Unmoved ==
    ASSUME Readiness, UNCHANGED <<objects, containers>>,
           \A q \in Procs : worker'[q] = worker[q] \/ PassSees(q)'
    PROVE  Seen'
<1>1. Seen
  BY ReadinessParts
<1>2. UnsharedReadyMeansUsable'
  BY <1>1 DEF Seen, UnsharedReadyMeansUsable, Unshared, UsableWhenReady, Usable
<1> QED
  BY <1>1, <1>2 DEF Seen, PassSees, Unshared

\* One container changes.
LEMMA Moved ==
    ASSUME Readiness, NEW n \in Names, NEW x, UNCHANGED objects,
           containers' = [containers EXCEPT ![n] = x],
           \A c \in Clusters :
               K0sName(c) = n /\ Unshared(c) => Lasts(containers[n], x, objects[c]),
           \A q \in Procs : worker'[q] = worker[q] \/ PassSees(q)'
    PROVE  Seen'
<1>1. /\ Seen /\ containers \in [Names -> Container]
      /\ \A q \in Procs : worker[q].pc = "idle" \/ worker[q].cur \in Clusters
      /\ \A c : Unshared(c)' <=> Unshared(c)
  BY ReadinessParts DEF TypeOK, ProviderTypeOK, Unshared
<1>2. \A c \in Clusters : Unshared(c) =>
          \/ containers'[K0sName(c)] = containers[K0sName(c)]
          \/ Lasts(containers[K0sName(c)], containers'[K0sName(c)], objects[c])
  BY <1>1, NamesDiffer
<1>3. UnsharedReadyMeansUsable'
  <2> SUFFICES ASSUME NEW c \in Clusters, Unshared(c)
               PROVE  Published(containers'[K0sName(c)], objects[c])
    BY <1>1 DEF UnsharedReadyMeansUsable, UsableWhenReady, Published, Usable
  <2>1. Published(containers[K0sName(c)], objects[c])
    BY <1>1, ReadinessParts DEF Seen
  <2> QED
    BY <1>2, <2>1 DEF Published, Lasts
<1>4. ASSUME NEW q \in Procs PROVE PassSees(q)'
  <2>1. SUFFICES ASSUME worker'[q] = worker[q], worker[q].pc # "idle" PROVE PassSees(q)'
    BY DEF PassSees
  <2>2. /\ worker[q].cur \in Clusters /\ objects[worker[q].cur].life # "none"
        /\ Unshared(worker[q].cur) =>
               Sees(worker[q], objects[worker[q].cur], containers[K0sName(worker[q].cur)])
    BY <1>1, <2>1 DEF Seen, PassSees
  <2>3. Unshared(worker[q].cur) =>
            Sees(worker[q], objects[worker[q].cur], containers'[K0sName(worker[q].cur)])
    BY <1>2, <2>2, SeenContainer
  <2> QED
    BY <2>1, <2>2, <2>3 DEF PassSees, Unshared
<1> QED
  BY <1>1, <1>3, <1>4 DEF Seen

\* One object is written, and collected if it was its last finalizer.
LEMMA Rewritten ==
    ASSUME Readiness, NEW c \in Clusters, NEW o \in Object, UNCHANGED containers,
           objects' = [objects EXCEPT ![c] = Collected(o)], Present(o),
           Unshared(c) => Grows(objects[c], o) /\ Published(containers[K0sName(c)], o),
           \A q \in Procs : worker'[q] = Overtaken(c)[q] \/ PassSees(q)'
    PROVE  Seen'
<1> DEFINE x == Collected(o)
<1>1. /\ Seen /\ objects \in [Clusters -> Object] /\ worker \in [Procs -> Worker]
      /\ \A q \in Procs : worker[q].pc = "idle" \/ worker[q].cur \in Clusters
  BY ReadinessParts DEF TypeOK
<1>2. objects'[c] = x /\ \A d \in Clusters \ {c} : objects'[d] = objects[d]
  BY <1>1
<1>3. /\ Unshared(c) => Grows(objects[c], x)
      /\ x.life # "none" /\ (x = o \/ (x.life = "gone" /\ x.subnet = NoSubnet))
  <2>1. Unshared(c) => Grows(objects[c], x)
    BY GrowsCollected
  <2>2. x = o \/ (x.life = "gone" /\ x.subnet = NoSubnet)
    BY CollectedFields
  <2> QED
    BY <2>1, <2>2
<1> HIDE DEF x
<1>4. \A d : Unshared(d)' => Unshared(d)
  BY <1>2, <1>3, SharedStays
<1>5. UnsharedReadyMeansUsable'
  <2> SUFFICES ASSUME NEW d \in Clusters, Unshared(d)'
               PROVE  Published(containers[K0sName(d)], objects'[d])
    BY DEF UnsharedReadyMeansUsable, UsableWhenReady, Published, Usable
  <2>1. Unshared(d) /\ Published(containers[K0sName(d)], objects[d])
    BY <1>1, <1>4, ReadinessParts DEF Seen
  <2> QED
    BY <1>2, <1>3, <2>1 DEF Published
<1>6. ASSUME NEW q \in Procs PROVE PassSees(q)'
  <2>1. SUFFICES ASSUME worker'[q] = Overtaken(c)[q], worker'[q].pc # "idle"
                 PROVE  PassSees(q)'
    BY DEF PassSees
  <2>2. worker'[q] = IF worker[q].cur = c THEN [worker[q] EXCEPT !.stale = TRUE] ELSE worker[q]
    BY <2>1 DEF Overtaken
  <2>3. CASE worker[q].cur = c
    <3>1. LET v == worker'[q]
          IN  /\ v.pc = worker[q].pc /\ v.cur = c /\ v.old = worker[q].old
              /\ v.cluster = worker[q].cluster /\ v.stale
      BY <1>1, <2>2, <2>3, OvertakenSight
    <3>2. /\ objects[c].life # "none"
          /\ Unshared(c) => Sees(worker[q], objects[c], containers[K0sName(c)])
      BY <1>1, <2>1, <2>3, <3>1 DEF Seen, PassSees
    <3>3. Unshared(c)' => Sees(worker'[q], x, containers[K0sName(c)])
      BY <1>3, <1>4, <2>3, <3>1, <3>2, SeenObject
    <3> QED
      BY <1>2, <1>3, <3>1, <3>3 DEF PassSees, Unshared
  <2>4. CASE worker[q].cur # c
    <3>1. worker[q].cur \in Clusters /\ worker'[q] = worker[q]
      BY <1>1, <2>1, <2>2, <2>4
    <3>2. /\ objects[worker[q].cur].life # "none"
          /\ Unshared(worker[q].cur) =>
                 Sees(worker[q], objects[worker[q].cur], containers[K0sName(worker[q].cur)])
      BY <1>1, <2>1, <3>1 DEF Seen, PassSees
    <3>3. objects'[worker[q].cur] = objects[worker[q].cur]
      BY <1>2, <2>4, <3>1
    <3>4. Unshared(worker[q].cur)' => Unshared(worker[q].cur)
      BY <1>4, <3>1
    <3> QED
      BY <3>1, <3>2, <3>3, <3>4 DEF PassSees
  <2> QED
    BY <2>3, <2>4
<1> QED
  BY <1>1, <1>2, <1>3, <1>5, <1>6 DEF Seen

----------------------------------------------------------------------------
(* The steps of a pass that leave the objects and the containers alone *)

\* A pass goes on with what it sees, or ends.
LEMMA PassActs ==
    ASSUME Readiness, NEW p \in Procs, UNCHANGED <<objects, containers>>,
           NEW v, Step(p, v),
           \/ v.pc = "idle"
           \/ /\ worker[p].pc # "idle" /\ v.cur = worker[p].cur
              /\ Sees(v, objects[v.cur], containers[K0sName(v.cur)])
    PROVE  Seen'
<1>1. worker \in [Procs -> Worker] /\ PassSees(p)
  BY ReadinessParts DEF TypeOK, Seen
<1>2. worker'[p] = v /\ \A q \in Procs \ {p} : worker'[q] = worker[q]
  BY <1>1 DEF Step
<1>3. PassSees(p)'
  BY <1>1, <1>2 DEF PassSees
<1> QED
  BY <1>2, <1>3, Unmoved

\* A pass fails, or goes on to a step that asks for nothing new.
LEMMA PassContinues ==
    ASSUME Readiness, NEW p \in Procs, Unshared(worker[p].cur),
           UNCHANGED <<objects, containers>>,
           worker[p].pc \notin {"idle", "commit", "assign"},
           NEW w \in Worker, SeesAs(w, worker[p]),
           \/ Step(p, Fail(w)) \/ Step(p, FailK0s(w)) \/ Step(p, FailMetalLB(w))
           \/ /\ Step(p, K0sUp(w)) \/ \E l \in {"prepare", "create", "target", "install"} :
                                          Step(p, [w EXCEPT !.pc = l])
              /\ worker[p].pc \in Building
    PROVE  Seen'
<1> DEFINE me == worker[p]
           o == objects[me.cur]
           n == containers[K0sName(me.cur)]
<1>1. /\ me \in Worker /\ me.cur \in Clusters /\ Sees(me, o, n) /\ o \in Object
  BY InSight
<1>2. w.cur = me.cur /\ \A v : SeesAs(v, w) => SeesAs(v, me)
  BY DEF SeesAs
<1>3. /\ Fail(w).pc = "commit" /\ FailK0s(w).pc = "commit" /\ FailMetalLB(w).pc = "commit"
      /\ K0sUp(w).pc = "target" /\ \A l \in Labels : [w EXCEPT !.pc = l].pc = l
  BY WorkerFields
<1>4. /\ SeesAs(Fail(w), me) /\ SeesAs(FailK0s(w), me) /\ SeesAs(FailMetalLB(w), me)
      /\ SeesAs(K0sUp(w), me) /\ \A l \in Labels : SeesAs([w EXCEPT !.pc = l], me)
  BY <1>2, SameSight
<1>5. ASSUME NEW v, Step(p, v), SeesAs(v, me),
             \/ v.pc = "commit"
             \/ v.pc \in {"prepare", "create", "target", "install"} /\ me.pc \in Building
      PROVE  Seen'
  <2>1. v.cur = me.cur
    BY <1>5 DEF SeesAs
  <2>2. CASE v.pc = "commit"
    BY <1>1, <1>5, <2>1, <2>2, GivesUp, PassActs
  <2>3. CASE v.pc \in {"prepare", "create", "target", "install"} /\ me.pc \in Building
    <3>1. Present(o) => me.cluster.subnet # NoSubnet
      BY <1>1, <2>3 DEF Sees
    <3>2. CASE Present(o)
      <4>1. Sees(v, o, n)
        BY <1>1, <1>5, <2>3, <3>1, <3>2, GoesOn DEF Removing, Publishing
      <4> QED
        BY <1>5, <2>1, <4>1, PassActs
    <3>3. CASE ~Present(o)
      <4>1. Sees(v, o, n)
        BY <1>1, <3>3 DEF Sees
      <4> QED
        BY <1>5, <2>1, <4>1, PassActs
    <3> QED
      BY <3>2, <3>3
  <2> QED
    BY <1>5, <2>2, <2>3
<1>6. {"prepare", "create", "target", "install"} \subseteq Labels
  BY DEF Labels
<1> QED
  BY <1>3, <1>4, <1>5, <1>6

\* The steps that look at docker, k0s or the pods.
LEMMA LookingSees ==
    ASSUME Readiness, NEW p \in Procs, Unshared(worker[p].cur),
           \/ EnsureK0sCluster(p) \/ Prepare(p) \/ WaitReady(p) \/ TargetClient(p)
    PROVE  Seen'
<1> DEFINE me == worker[p]
           started == [me EXCEPT !.cluster.status.phase = "Progressing"]
<1>1. /\ me.pc \in {"exists", "prepare", "wait", "target"}
      /\ me.pc \in Building
      /\ UNCHANGED <<objects, containers>>
  BY DEF EnsureK0sCluster, Prepare, WaitReady, TargetClient, At, Building,
         platformVars, dockerVars
<1>2. me \in Worker /\ me.cluster \in Object
  BY <1>1, InSight
<1>3. started \in Worker
  BY <1>2, Zenon DEF Worker, Object, Status, Phases
<1>4. SeesAs(me, me) /\ SeesAs(started, me)
  BY <1>2, SameSight DEF SeesAs
<1> HIDE DEF started
<1>5. CASE EnsureK0sCluster(p)
  BY <1>1, <1>3, <1>4, <1>5, PassContinues DEF EnsureK0sCluster, started
<1>6. CASE Prepare(p) \/ WaitReady(p) \/ TargetClient(p)
  BY <1>1, <1>2, <1>4, <1>6, PassContinues DEF Prepare, WaitReady, TargetClient
<1> QED
  BY <1>5, <1>6

\* Where run goes is what the object in memory asks for.
LEMMA ResponsibleSees ==
    ASSUME Readiness, NEW p \in Procs, Unshared(worker[p].cur), Responsible(p)
    PROVE  Seen'
<1> DEFINE me == worker[p]
           o == objects[me.cur]
           n == containers[K0sName(me.cur)]
<1>1. me.pc = "profile" /\ UNCHANGED <<objects, containers>>
  BY DEF Responsible, At, dockerVars
<1>2. me \in Worker /\ Sees(me, o, n)
  BY <1>1, InSight
<1>3. CASE Step(p, IdleWorker)
  BY <1>1, <1>3, PassActs DEF IdleWorker
<1>4. CASE Step(p, Begin(me))
  <2>1. SeesAs(Begin(me), me) /\ Begin(me).cur = me.cur
    BY <1>2, SameSight DEF SeesAs
  <2>2. Sees(Begin(me), o, n)
    BY <1>1, <1>2, <2>1, BeginFields, GoesOn, GivesUp DEF Building, Removing, Publishing
  <2> QED
    BY <1>1, <1>4, <2>1, <2>2, PassActs
<1> QED
  BY <1>3, <1>4 DEF Responsible, Abort

\* A slice is picked for an object that has none, as far as the pass knows.
LEMMA PickSees ==
    ASSUME Readiness, NEW p \in Procs, Unshared(worker[p].cur), PickSubnet(p)
    PROVE  Seen'
<1> DEFINE me == worker[p]
           o == objects[me.cur]
           n == containers[K0sName(me.cur)]
<1>1. me.pc = "pick" /\ UNCHANGED <<objects, containers>>
  BY DEF PickSubnet, At, dockerVars
<1>2. me \in Worker /\ me.cluster \in Object /\ Sees(me, o, n)
  BY <1>1, InSight
<1>3. CASE Step(p, Fail(me))
  BY <1>1, <1>2, <1>3, PassContinues DEF SeesAs
<1>4. ASSUME NEW s \in Slices, Step(p, [me EXCEPT !.pc = "assign", !.cluster.subnet = s])
      PROVE  Seen'
  <2> DEFINE v == [me EXCEPT !.pc = "assign", !.cluster.subnet = s]
  <2>1. /\ v.pc = "assign" /\ v.cur = me.cur /\ v.old = me.old /\ v.stale = me.stale
        /\ v.cluster.subnet = s /\ v.cluster.life = me.cluster.life
        /\ v.cluster.shown = me.cluster.shown /\ v.cluster.status = me.cluster.status
    BY <1>2, Zenon DEF Worker, Object
  <2> HIDE DEF v
  <2>2. s # NoSubnet
    BY SliceAssumption DEF Slices, NoSubnet
  <2>3. Sees(v, o, n)
    BY <1>1, <1>2, <2>1, <2>2 DEF Sees, Building, Removing, Publishing
  <2> QED
    BY <1>1, <1>4, <2>1, <2>3, PassActs DEF v
<1> QED
  BY <1>3, <1>4 DEF PickSubnet, NextAvailableLBNetwork, FreeSlices

\* metallb is seen to run before the pool is configured.
LEMMA PodsSees ==
    ASSUME Readiness, NEW p \in Procs, Unshared(worker[p].cur), PodsReady(p)
    PROVE  Seen'
<1> DEFINE me == worker[p]
           o == objects[me.cur]
           n == containers[K0sName(me.cur)]
           v == [me EXCEPT !.pc = "configure"]
<1>1. me.pc = "podsReady" /\ me.pc \in Building /\ UNCHANGED <<objects, containers>>
  BY DEF PodsReady, At, Building, platformVars, dockerVars
<1>2. me \in Worker /\ Sees(me, o, n)
  BY <1>1, InSight
<1>3. CASE Step(p, FailMetalLB(me))
  BY <1>1, <1>2, <1>3, PassContinues DEF SeesAs
<1>4. CASE Step(p, v) /\ n.state = "ready" /\ n.metallb = "ready"
  <2>1. v.pc = "configure" /\ SeesAs(v, me) /\ v.cur = me.cur
    BY <1>2, WorkerFields, SameSight DEF Labels, Kept
  <2> HIDE DEF v
  <2>2. Sees(v, o, n)
    <3>1. CASE Present(o)
      <4>1. me.cluster.subnet # NoSubnet
        BY <1>1, <1>2, <3>1 DEF Sees
      <4> QED
        BY <1>1, <1>2, <1>4, <2>1, <4>1, GoesOn DEF Removing, Publishing
    <3>2. CASE ~Present(o)
      BY <1>2, <3>2 DEF Sees
    <3> QED
      BY <3>1, <3>2
  <2> QED
    BY <1>1, <1>4, <2>1, <2>2, PassActs
<1> QED
  BY <1>3, <1>4 DEF PodsReady

\* Ready is set by a pass that configured the pool and published the rest.
LEMMA PublishSees ==
    ASSUME Readiness, NEW p \in Procs, Unshared(worker[p].cur), PublishAccess(p)
    PROVE  Seen'
<1> DEFINE me == worker[p]
           o == objects[me.cur]
           n == containers[K0sName(me.cur)]
           provided == [me EXCEPT !.cluster.status.provider = TRUE]
           published == [provided EXCEPT !.cluster.status.endpoints = TRUE]
<1>1. me.pc = "publish" /\ UNCHANGED <<objects, containers>>
  BY DEF PublishAccess, At, platformVars, dockerVars
<1>2. me \in Worker /\ me.cluster \in Object /\ Sees(me, o, n)
  BY <1>1, InSight
<1>3. provided \in Worker /\ provided.cluster.status.provider /\ SeesAs(provided, me)
  BY <1>2, SameSight, Zenon DEF Worker, Object, Status
<1>4. published = [provided EXCEPT !.cluster.status.endpoints = TRUE]
  OBVIOUS
<1> HIDE DEF provided, published
<1>5. published \in Worker /\ published.cluster.status.endpoints
  BY <1>3, <1>4, Zenon DEF Worker, Object, Status
<1>6. SeesAs(published, provided)
  BY <1>3, <1>4, SameSight
<1>7. /\ SeesAs(published, me)
      /\ published.cluster.status.provider /\ published.cluster.shown = me.cluster.shown
  BY <1>3, <1>6 DEF SeesAs
<1>8. CASE Step(p, Fail(provided)) \/ Step(p, Fail(published))
  BY <1>1, <1>3, <1>5, <1>7, <1>8, PassContinues
<1>9. CASE Step(p, [published EXCEPT !.pc = "display"])
  <2> DEFINE v == [published EXCEPT !.pc = "display"]
  <2>1. /\ v.pc = "display" /\ SeesAs(v, published)
        /\ v.cluster = published.cluster
    BY <1>5, WorkerFields, SameSight DEF Labels, Worker
  <2>2. SeesAs(v, me) /\ v.cur = me.cur
    BY <1>7, <2>1 DEF SeesAs
  <2> HIDE DEF v
  <2>3. Sees(v, o, n)
    <3>1. CASE Present(o)
      <4>1. me.cluster.subnet # NoSubnet /\ (o.life = "live" => Serves(n, o))
        BY <1>1, <1>2, <3>1 DEF Sees, Building, Publishing
      <4> QED
        BY <1>1, <1>2, <1>5, <1>7, <2>1, <2>2, <4>1, GoesOn DEF Removing, Publishing
    <3>2. CASE ~Present(o)
      BY <1>2, <3>2 DEF Sees
    <3> QED
      BY <3>1, <3>2
  <2> QED
    BY <1>1, <1>9, <2>2, <2>3, PassActs DEF v
<1>10. CASE published.cluster.shown /\ Step(p, MarkReady(published))
  <2> DEFINE v == MarkReady(published)
  <2>1. published.cluster \in Object
    BY <1>5 DEF Worker
  <2>2. /\ v.pc = "commit" /\ v.cur = published.cur /\ v.old = published.old
        /\ v.cluster.life = published.cluster.life
        /\ v.cluster.shown = published.cluster.shown
        /\ v.cluster.status.provider = published.cluster.status.provider
        /\ v.cluster.status.endpoints = published.cluster.status.endpoints
    BY <1>5, <2>1, Zenon DEF MarkReady, Worker, Object, Status
  <2> HIDE DEF v
  <2>3. Sees(v, o, n) /\ v.cur = me.cur
    BY <1>1, <1>2, <1>5, <1>7, <1>10, <2>2
       DEF Sees, SeesAs, Building, Removing, Publishing
  <2> QED
    BY <1>1, <1>10, <2>3, PassActs DEF v
<1>11. \/ published.cluster.shown /\ Step(p, MarkReady(published))
       \/ Step(p, [published EXCEPT !.pc = "display"])
       \/ Step(p, Fail(provided)) \/ Step(p, Fail(published))
  <2>1. provided.cluster.shown = published.cluster.shown
    BY <1>6 DEF SeesAs
  <2> QED
    BY <2>1, Zenon DEF PublishAccess, provided, published
<1> QED
  BY <1>8, <1>9, <1>10, <1>11

\* The lookup is the step of a pass that saw the deletion.
LEMMA LookupSees ==
    ASSUME Readiness, NEW p \in Procs, Unshared(worker[p].cur), LookupContainer(p)
    PROVE  Seen'
<1> DEFINE me == worker[p]
           o == objects[me.cur]
           n == containers[K0sName(me.cur)]
<1>1. me.pc = "lookup" /\ UNCHANGED <<objects, containers>>
  BY DEF LookupContainer, At, platformVars, dockerVars
<1>2. me \in Worker /\ Sees(me, o, n)
  BY <1>1, InSight
<1>3. CASE Step(p, Fail(me))
  BY <1>1, <1>2, <1>3, PassContinues DEF SeesAs
<1>4. ASSUME NEW l \in {"remove", "removeFinalizer"}, Step(p, [me EXCEPT !.pc = l])
      PROVE  Seen'
  <2> DEFINE v == [me EXCEPT !.pc = l]
  <2>1. v.pc = l /\ SeesAs(v, me) /\ v.cur = me.cur
    <3>1. l \in Labels
      BY DEF Labels
    <3> QED
      BY <1>2, <3>1, WorkerFields, SameSight DEF Kept
  <2> HIDE DEF v
  <2>2. Sees(v, o, n)
    <3>1. CASE Present(o)
      <4>1. me.cluster.life = "deleting"
        BY <1>1, <1>2, <3>1 DEF Sees, Removing
      <4> QED
        BY <1>1, <1>2, <2>1, <4>1, GoesOn DEF Building, Publishing
    <3>2. CASE ~Present(o)
      BY <1>2, <3>2 DEF Sees
    <3> QED
      BY <3>1, <3>2
  <2> QED
    BY <1>1, <1>4, <2>1, <2>2, PassActs DEF v
<1> QED
  BY <1>3, <1>4 DEF LookupContainer

----------------------------------------------------------------------------
(* The steps of a pass that change a container, and docker at work *)

\* What is there of a container stays, unless it is taken away or its pool is
\* configured anew.
LEMMA ContainerLasts ==
    ASSUME TypeOK, NEW n \in Names,
           \/ ContainerCreate(n) \/ ContainerStart(n) \/ InstallMetalLB(n)
           \/ Boot(n) \/ MetalLBPodsReady(n)
    PROVE  \E x : /\ containers' = [containers EXCEPT ![n] = x]
                  /\ \A o : Lasts(containers[n], x, o)
<1> DEFINE r == containers[n]
<1>1. r \in Container /\ containers \in [Names -> Container]
  BY DEF TypeOK, ProviderTypeOK
<1>2. \A v : /\ LET x == [r EXCEPT !.state = v] IN x.metallb = r.metallb /\ x.pool = r.pool
             /\ [r EXCEPT !.state = v].state = v
             /\ LET x == [r EXCEPT !.metallb = v] IN x.state = r.state /\ x.pool = r.pool
             /\ [r EXCEPT !.metallb = v].metallb = v
  BY <1>1, Zenon DEF Container
<1>3. CASE ContainerCreate(n)
  <2>1. containers' = [containers EXCEPT ![n] = [r EXCEPT !.state = "created"]]
        /\ r.state = "absent"
    BY <1>3 DEF ContainerCreate, ClusterExists
  <2> QED
    BY <2>1 DEF Lasts, Serves
<1>4. CASE ContainerStart(n)
  <2>1. containers' = [containers EXCEPT ![n] = [r EXCEPT !.state = "running"]]
        /\ r.state = "created"
    BY <1>4 DEF ContainerStart
  <2> QED
    BY <2>1 DEF Lasts, Serves
<1>5. CASE InstallMetalLB(n)
  <2> DEFINE m == IF r.metallb = "absent" THEN "installed" ELSE r.metallb
             x == [r EXCEPT !.metallb = m]
  <2>1. containers' = [containers EXCEPT ![n] = x]
    BY <1>5 DEF InstallMetalLB
  <2>2. x.state = r.state /\ x.pool = r.pool /\ (r.metallb = "ready" => x.metallb = "ready")
    BY <1>2
  <2> HIDE DEF x
  <2> QED
    BY <2>1, <2>2 DEF Lasts, Serves
<1>6. CASE Boot(n)
  <2>1. containers' = [containers EXCEPT ![n] = [r EXCEPT !.state = "ready"]]
        /\ r.state = "running"
    BY <1>6 DEF Boot
  <2> QED
    BY <2>1 DEF Lasts, Serves
<1>7. CASE MetalLBPodsReady(n)
  <2>1. containers' = [containers EXCEPT ![n] = [r EXCEPT !.metallb = "ready"]]
        /\ r.metallb = "installed"
    BY <1>7 DEF MetalLBPodsReady
  <2> QED
    BY <2>1 DEF Lasts, Serves
<1> QED
  BY <1>3, <1>4, <1>5, <1>6, <1>7

\* A pass acts on its container.
LEMMA PassBuilds ==
    ASSUME Readiness, NEW p \in Procs, Unshared(worker[p].cur),
           worker[p].pc # "idle", UNCHANGED objects,
           NEW x, containers' = [containers EXCEPT ![K0sName(worker[p].cur)] = x],
           Lasts(containers[K0sName(worker[p].cur)], x, objects[worker[p].cur]),
           NEW v, Step(p, v), v.cur = worker[p].cur, Sees(v, objects[v.cur], x)
    PROVE  Seen'
<1> DEFINE c == worker[p].cur
<1>1. /\ c \in Clusters /\ K0sName(c) \in Names /\ containers \in [Names -> Container]
      /\ worker \in [Procs -> Worker] /\ objects[c].life # "none"
  BY InSight
<1>2. worker'[p] = v /\ \A q \in Procs \ {p} : worker'[q] = worker[q]
  BY <1>1 DEF Step
<1>3. containers'[K0sName(c)] = x
  BY <1>1
<1>4. PassSees(p)'
  BY <1>1, <1>2, <1>3 DEF PassSees
<1>5. \A d \in Clusters : K0sName(d) = K0sName(c) => d = c
  BY <1>1, NamesDiffer
<1> QED
  BY <1>1, <1>2, <1>4, <1>5, Moved

\* Building a k0s cluster takes nothing away from it.
LEMMA BuildingSees ==
    ASSUME Readiness, NEW p \in Procs, Unshared(worker[p].cur),
           CreateContainer(p) \/ StartContainer(p) \/ Install(p)
    PROVE  Seen'
<1> DEFINE me == worker[p]
           o == objects[me.cur]
           nn == K0sName(me.cur)
           n == containers[nn]
<1>1. me.pc \in {"create", "start", "install"} /\ UNCHANGED objects
  BY DEF CreateContainer, StartContainer, Install, At, platformVars
<1>2. /\ TypeOK /\ me \in Worker /\ Sees(me, o, n) /\ nn \in Names
      /\ containers \in [Names -> Container]
  BY <1>1, InSight
<1>3. \E v : /\ Step(p, v) /\ SeesAs(v, me)
             /\ v.pc \in {"commit", "start", "wait", "podsReady"}
  <2>1. /\ SeesAs(FailK0s(me), me) /\ SeesAs(FailMetalLB(me), me)
        /\ FailK0s(me).pc = "commit" /\ FailMetalLB(me).pc = "commit"
        /\ \A l \in {"start", "wait", "podsReady"} :
               [me EXCEPT !.pc = l].pc = l /\ SeesAs([me EXCEPT !.pc = l], me)
    <3>1. {"start", "wait", "podsReady"} \subseteq Labels
      BY DEF Labels
    <3> QED
      BY <1>2, <3>1, SameSight, WorkerFields
  <2> QED
    BY <2>1 DEF CreateContainer, StartContainer, Install
<1>4. PICK v : /\ Step(p, v) /\ SeesAs(v, me)
               /\ v.pc \in {"commit", "start", "wait", "podsReady"}
  BY <1>3
<1>5. Sees(v, o, n)
  <2>1. CASE v.pc = "commit"
    BY <1>2, <1>4, <2>1, GivesUp
  <2>2. CASE v.pc # "commit" /\ Present(o)
    <3>1. me.cluster.subnet # NoSubnet
      BY <1>1, <1>2, <2>2 DEF Sees, Building
    <3> QED
      BY <1>1, <1>2, <1>4, <2>2, <3>1, GoesOn DEF Removing, Publishing
  <2>3. CASE ~Present(o)
    BY <1>2, <2>3 DEF Sees
  <2> QED
    BY <2>1, <2>2, <2>3
<1>6. v.cur = me.cur
  BY <1>4 DEF SeesAs
<1>7. CASE UNCHANGED containers
  BY <1>1, <1>4, <1>5, <1>6, <1>7, PassActs
<1>8. CASE ContainerCreate(nn) \/ ContainerStart(nn) \/ InstallMetalLB(nn)
  <2>1. PICK x : /\ containers' = [containers EXCEPT ![nn] = x]
                 /\ \A ob : Lasts(n, x, ob)
    BY <1>2, <1>8, ContainerLasts
  <2>2. Sees(v, o, x)
    BY <1>5, <2>1, SeenContainer
  <2> QED
    BY <1>1, <1>4, <1>6, <2>1, <2>2, PassBuilds
<1> QED
  BY <1>7, <1>8 DEF CreateContainer, StartContainer, Install

\* The pool that is configured is the slice the object is annotated with.
LEMMA ConfigureSees ==
    ASSUME Readiness, NEW p \in Procs, Unshared(worker[p].cur), ConfigureMetalLB(p)
    PROVE  Seen'
<1> DEFINE me == worker[p]
           o == objects[me.cur]
           nn == K0sName(me.cur)
           n == containers[nn]
           x == [n EXCEPT !.pool = me.cluster.subnet]
           v == [me EXCEPT !.pc = "publish", !.cluster.status.metallb = "True"]
<1>1. me.pc = "configure" /\ UNCHANGED objects
  BY DEF ConfigureMetalLB, At, platformVars
<1>2. /\ TypeOK /\ me \in Worker /\ Sees(me, o, n) /\ nn \in Names /\ n \in Container
  BY <1>1, InSight
<1>3. x.state = n.state /\ x.metallb = n.metallb /\ x.pool = me.cluster.subnet
  BY <1>2, Zenon DEF Container
<1>4. v.pc = "publish" /\ SeesAs(v, me)
  BY <1>2, SameSight, WorkerFields
<1>5. SeesAs(FailMetalLB(me), me) /\ FailMetalLB(me).pc = "commit"
  BY <1>2, SameSight, WorkerFields
<1> HIDE DEF x, v
<1>6. v.cur = me.cur /\ FailMetalLB(me).cur = me.cur
  BY <1>4, <1>5 DEF SeesAs
<1>7. Present(o) => me.cluster.subnet = o.subnet /\ o.subnet # NoSubnet
  BY <1>1, <1>2 DEF Sees, Building
<1>8. o.life = "live" => n.state = "ready" /\ n.metallb = "ready" /\ Serves(x, o)
  BY <1>1, <1>2, <1>3, <1>7 DEF Sees, Serves
<1>9. Lasts(n, x, o)
  BY <1>3, <1>8 DEF Lasts
<1>10. Sees(me, o, x)
  BY <1>2, <1>9, SeenContainer
<1>11. Sees(v, o, x)
  <2>1. CASE Present(o)
    BY <1>1, <1>4, <1>7, <1>8, <1>10, <2>1, GoesOn DEF Removing
  <2>2. CASE ~Present(o)
    BY <1>2, <2>2 DEF Sees
  <2> QED
    BY <2>1, <2>2
<1>12. Sees(FailMetalLB(me), o, x) /\ Sees(FailMetalLB(me), o, n)
  BY <1>2, <1>5, <1>10, GivesUp
<1>13. CASE UNCHANGED containers /\ Step(p, FailMetalLB(me))
  BY <1>1, <1>6, <1>12, <1>13, PassActs
<1>14. CASE /\ ConfigureSubnet(nn, me.cluster.subnet)
            /\ Step(p, v) \/ Step(p, FailMetalLB(me))
  <2>1. containers' = [containers EXCEPT ![nn] = x]
    BY <1>14 DEF ConfigureSubnet, x
  <2>2. CASE Step(p, v)
    BY <1>1, <1>6, <1>9, <1>11, <2>1, <2>2, PassBuilds
  <2>3. CASE Step(p, FailMetalLB(me))
    BY <1>1, <1>6, <1>9, <1>12, <2>1, <2>3, PassBuilds
  <2> QED
    BY <1>14, <2>2, <2>3
<1> QED
  BY <1>13, <1>14 DEF ConfigureMetalLB, v

\* A container is only taken away from a Cluster that is being deleted.
LEMMA RemovingSees ==
    ASSUME Readiness, NEW p \in Procs, Unshared(worker[p].cur), RemoveContainer(p)
    PROVE  Seen'
<1> DEFINE me == worker[p]
           o == objects[me.cur]
           nn == K0sName(me.cur)
           n == containers[nn]
<1>1. me.pc = "remove" /\ UNCHANGED objects
  BY DEF RemoveContainer, At, platformVars
<1>2. me \in Worker /\ Sees(me, o, n)
  BY <1>1, InSight
<1>3. o.life # "live"
  BY <1>1, <1>2 DEF Sees, Removing
<1>4. Lasts(n, NoContainer, o)
  BY <1>3 DEF Lasts
<1>5. \E v : /\ Step(p, v) /\ SeesAs(v, me)
             /\ v.pc \in {"commit", "removeFinalizer"}
  <2>1. /\ SeesAs(Fail(me), me) /\ Fail(me).pc = "commit"
        /\ SeesAs([me EXCEPT !.pc = "removeFinalizer"], me)
        /\ [me EXCEPT !.pc = "removeFinalizer"].pc = "removeFinalizer"
    BY <1>2, SameSight, WorkerFields DEF Labels
  <2> QED
    BY <2>1 DEF RemoveContainer
<1>6. PICK v : /\ Step(p, v) /\ SeesAs(v, me)
               /\ v.pc \in {"commit", "removeFinalizer"}
  BY <1>5
<1>7. v.cur = me.cur
  BY <1>6 DEF SeesAs
<1>8. Sees(v, o, n)
  <2>1. CASE v.pc = "commit"
    BY <1>2, <1>6, <2>1, GivesUp
  <2>2. CASE v.pc = "removeFinalizer" /\ Present(o)
    <3>1. me.cluster.life = "deleting"
      BY <1>1, <1>2, <2>2 DEF Sees, Removing
    <3> QED
      BY <1>1, <1>2, <1>6, <2>2, <3>1, GoesOn DEF Building, Publishing
  <2>3. CASE ~Present(o)
    BY <1>2, <2>3 DEF Sees
  <2> QED
    BY <1>6, <2>1, <2>2, <2>3
<1>9. CASE UNCHANGED containers
  BY <1>1, <1>6, <1>7, <1>8, <1>9, PassActs
<1>10. CASE DeleteCluster(nn)
  <2>1. Sees(v, o, NoContainer)
    BY <1>4, <1>8, SeenContainer
  <2> QED
    BY <1>1, <1>4, <1>6, <1>7, <1>10, <2>1, PassBuilds DEF DeleteCluster
<1> QED
  BY <1>9, <1>10 DEF RemoveContainer

----------------------------------------------------------------------------
(* The steps of a pass that write the object *)

\* A pass writes its object and goes on with what it sees of it, or ends.
LEMMA PassWrites ==
    ASSUME Readiness, NEW p \in Procs, NEW c \in Clusters, NEW o \in Object, NEW w,
           UNCHANGED containers, Write(p, c, o, w),
           Grows(objects[c], o), Present(o), Published(containers[K0sName(c)], o),
           w.pc = "idle" \/ (w.cur = c /\ Sees(w, Collected(o), containers[K0sName(c)]))
    PROVE  Seen'
<1>0. Collected(o).life # "none"
  BY CollectedFields
<1>1. TypeOK /\ objects \in [Clusters -> Object]
  BY ReadinessParts DEF TypeOK
<1>2. objects' = [objects EXCEPT ![c] = Collected(o)] /\ worker'[p] = w
  BY <1>1, Written
<1>3. objects'[c] = Collected(o)
  BY <1>1, <1>2
<1>4. PassSees(p)'
  BY <1>0, <1>2, <1>3 DEF PassSees
<1>5. \A q \in Procs \ {p} : worker'[q] = Overtaken(c)[q]
  BY DEF Write, Overtaken
<1> QED
  BY <1>2, <1>4, <1>5, Rewritten

\* A write whose response is lost ends the pass: it sees what it saw.
LEMMA LostSees ==
    ASSUME NEW w \in Worker, NEW o, NEW x, NEW n, Sees(w, o, n), Grows(o, x),
           o.life # "none"
    PROVE  LET v == [Fail(w) EXCEPT !.stale = TRUE]
           IN  v.cur = w.cur /\ Sees(v, x, n)
<1> DEFINE u == [w EXCEPT !.stale = TRUE]
           v == [Fail(w) EXCEPT !.stale = TRUE]
<1>1. /\ u.pc = w.pc /\ u.cur = w.cur /\ u.old = w.old
      /\ u.cluster = w.cluster /\ u.stale
  BY OvertakenSight
<1>2. /\ v.pc = "commit" /\ v.cur = w.cur /\ v.old = w.old
      /\ v.cluster = w.cluster /\ v.stale
  BY Zenon DEF Fail, Worker
<1>3. u.stale = v.stale
  BY Zenon DEF Fail, Worker
<1> HIDE DEF u, v
<1>4. Sees(u, x, n)
  BY <1>1, SeenObject
<1>5. SeesAs(v, u)
  BY <1>1, <1>2, <1>3 DEF SeesAs
<1>6. Sees(v, x, n)
  BY <1>2, <1>4, <1>5, GivesUp
<1> QED
  BY <1>2, <1>6 DEF v

\* What the decoder makes of the status in memory and the one in the response.
LEMMA DecodedStatusFields ==
    ASSUME NEW m, NEW s
    PROVE  LET d == DecodedStatus(m, s)
           IN  /\ d.provider <=> m.provider \/ s.provider
               /\ d.endpoints <=> m.endpoints \/ s.endpoints
               /\ d.phase \in {m.phase, s.phase}
BY Zenon DEF DecodedStatus

\* client.Update: refused, lost, or accepted for the object the pass has read.
LEMMA UpdateSees ==
    ASSUME Readiness, NEW p \in Procs, Unshared(worker[p].cur),
           worker[p].pc \notin {"idle", "commit"}, UNCHANGED containers,
           NEW m \in Object, NEW l \in Labels,
           Update(p, m, [worker[p] EXCEPT !.pc = l]),
           LET me == worker[p]
               o == objects[me.cur]
           IN  /\ m.life = me.cluster.life /\ m.status = me.cluster.status
               /\ m.shown = me.cluster.shown
               /\ Present(o) /\ ~me.stale =>
                      /\ o.subnet # NoSubnet => m.subnet = o.subnet
                      /\ l = "commit" \/ (l = "exists" /\ m.subnet # NoSubnet)
    PROVE  Seen'
<1> DEFINE me == worker[p]
           c == me.cur
           o == objects[c]
           n == containers[K0sName(c)]
           x == Sent(p, m)
           d == Decoded(m, x)
           u == Answered([me EXCEPT !.pc = l], m, x)
           lost == [Fail(me) EXCEPT !.stale = TRUE]
<1>1. /\ TypeOK /\ me \in Worker /\ c \in Clusters /\ me.cluster \in Object /\ o \in Object
      /\ o.life # "none" /\ Sees(me, o, n) /\ Published(n, o) /\ UNCHANGED containers
  BY InSight
<1>0. /\ x \in Object /\ x.life = o.life /\ x.subnet = m.subnet /\ x.shown = m.shown
      /\ x.status = o.status
  <2>1. x \in Object /\ x.life = o.life /\ x.subnet = m.subnet /\ x.shown = m.shown
    BY <1>1, UpdateEnds
  <2>2. x.status = o.status
    BY Zenon DEF Sent, Object
  <2> QED
    BY <2>1, <2>2
<1> HIDE DEF x
<1>2. \/ Present(o) /\ ~me.stale /\ Write(p, c, x, u)
      \/ Present(o) /\ ~me.stale /\ Write(p, c, x, lost)
      \/ UNCHANGED objects /\ Step(p, Fail(me))
  BY Zenon DEF Update, u, lost, d, x
<1>3. CASE UNCHANGED objects /\ Step(p, Fail(me))
  <2>1. Fail(me).pc = "commit" /\ SeesAs(Fail(me), me)
    BY <1>1, WorkerFields, SameSight
  <2>2. Sees(Fail(me), o, n) /\ Fail(me).cur = c
    BY <1>1, <2>1, GivesUp DEF SeesAs
  <2> QED
    BY <1>1, <1>3, <2>2, PassActs
<1>4. CASE Present(o) /\ ~me.stale /\ (Write(p, c, x, u) \/ Write(p, c, x, lost))
  <2>1. /\ x.life = o.life /\ x.status = o.status /\ x.shown = o.shown
        /\ o.subnet # NoSubnet => x.subnet = o.subnet
        /\ l = "commit" \/ (l = "exists" /\ x.subnet # NoSubnet)
    <3>1. m.shown = o.shown
      BY <1>1, <1>4 DEF Sees
    <3> QED
      BY <1>0, <1>4, <3>1
  <2>2. Grows(o, x) /\ Published(n, x) /\ Present(x)
    BY <1>1, <1>4, <2>1 DEF Grows, Published, Serves
  <2>3. CASE Write(p, c, x, lost)
    <3>1. lost.cur = c /\ Sees(lost, Collected(x), n)
      BY <1>0, <1>1, <2>2, LostSees, GrowsCollected
    <3> HIDE DEF lost
    <3> QED
      BY <1>0, <1>1, <2>2, <2>3, <3>1, PassWrites
  <2>4. CASE Write(p, c, x, u)
    <3>1. /\ u.pc = l /\ u.cur = c /\ u.old = me.old /\ u.cluster = d
          /\ u.stale = me.stale
      BY <1>1, Zenon DEF Worker, Answered
    <3>2. /\ d.life = x.life /\ d.subnet = x.subnet /\ d.shown = x.shown
          /\ d.status.provider <=> me.cluster.status.provider \/ x.status.provider
          /\ d.status.endpoints <=> me.cluster.status.endpoints \/ x.status.endpoints
          /\ d.status.phase \in {me.cluster.status.phase, x.status.phase}
      <4>1. /\ d.life = IF m.life = "deleting" THEN m.life ELSE x.life
            /\ d.subnet = IF x.subnet = NoSubnet THEN m.subnet ELSE x.subnet
            /\ d.shown = x.shown /\ d.status = DecodedStatus(m.status, x.status)
        BY <1>0, DecodedFields
      <4>2. m.life = "deleting" => x.life = "deleting"
        BY <1>1, <1>4, <2>1 DEF Sees
      <4> QED
        BY <1>0, <4>1, <4>2, DecodedStatusFields
    <3> HIDE DEF u, d
    <3>3. /\ me.old.provider => d.status.provider /\ x.status.provider
          /\ me.old.endpoints => d.status.endpoints /\ x.status.endpoints
      BY <1>1, <1>4, <2>1, <3>2 DEF Sees
    <3>4. x.life = "live" /\ d.status.phase = "Ready" =>
              /\ Serves(n, x) /\ d.status.provider /\ d.status.endpoints /\ x.shown
      <4>1. CASE me.cluster.status.phase = "Ready"
        BY <1>1, <2>1, <3>2, <4>1 DEF Sees, Serves
      <4>2. CASE x.status.phase = "Ready"
        BY <1>1, <2>1, <2>2, <3>2, <4>2 DEF Published
      <4> QED
        BY <3>2, <4>1, <4>2
    <3>5. Sees(u, x, n)
      BY <1>4, <2>1, <2>2, <3>1, <3>2, <3>3, <3>4
         DEF Sees, Building, Removing, Publishing
    <3>6. Sees(u, Collected(x), n)
      <4>1. Collected(x) = x \/ Collected(x).life = "gone"
        BY <1>0, CollectedFields
      <4> QED
        BY <3>5, <4>1 DEF Sees
    <3> QED
      BY <1>0, <1>1, <2>2, <2>4, <3>1, <3>6, PassWrites
  <2> QED
    BY <1>4, <2>3, <2>4
<1> QED
  BY <1>2, <1>3, <1>4

\* The finalizer is taken or given back, and the slice is only written to an
\* object that has none.
LEMMA UpdatesSee ==
    ASSUME Readiness, NEW p \in Procs, Unshared(worker[p].cur),
           EnsureFinalizer(p) \/ AssignSubnet(p) \/ RemoveFinalizer(p)
    PROVE  Seen'
<1> DEFINE me == worker[p]
           o == objects[me.cur]
           n == containers[K0sName(me.cur)]
<1>1. /\ me.pc \in {"addFinalizer", "assign", "removeFinalizer"}
      /\ UNCHANGED containers /\ {"commit", "exists"} \subseteq Labels
  BY DEF EnsureFinalizer, AssignSubnet, RemoveFinalizer, At, Labels, dockerVars
<1>2. me \in Worker /\ me.cluster \in Object /\ o \in Object /\ Sees(me, o, n)
  BY <1>1, InSight
<1>3. CASE EnsureFinalizer(p) \/ RemoveFinalizer(p)
  <2>1. PICK b \in BOOLEAN :
            Update(p, [me.cluster EXCEPT !.finalizer = b], [me EXCEPT !.pc = "commit"])
    BY <1>3 DEF EnsureFinalizer, RemoveFinalizer
  <2> DEFINE m == [me.cluster EXCEPT !.finalizer = b]
  <2>2. /\ m \in Object /\ m.life = me.cluster.life /\ m.status = me.cluster.status
        /\ m.shown = me.cluster.shown /\ m.subnet = me.cluster.subnet
    BY <1>2, Zenon DEF Object
  <2>3. me.pc # "assign"
    BY <1>3 DEF EnsureFinalizer, RemoveFinalizer, At
  <2>4. Present(o) /\ ~me.stale => me.cluster.subnet = o.subnet
    BY <1>1, <1>2, <2>3 DEF Sees
  <2> HIDE DEF m
  <2> QED
    BY <1>1, <2>1, <2>2, <2>4, UpdateSees DEF m
<1>4. CASE AssignSubnet(p)
  <2>1. me.pc = "assign" /\ Update(p, me.cluster, [me EXCEPT !.pc = "exists"])
    BY <1>4 DEF AssignSubnet, At
  <2>2. Present(o) /\ ~me.stale => o.subnet = NoSubnet /\ me.cluster.subnet # NoSubnet
    BY <1>2, <2>1 DEF Sees
  <2> QED
    BY <1>1, <1>2, <2>1, <2>2, UpdateSees
<1> QED
  BY <1>3, <1>4

\* A patch by the name of a Cluster that never shared it lands on that Cluster.
LEMMA OnlyHolder ==
    ASSUME NEW c, Unshared(c), NEW d \in Holders(c)
    PROVE  d = c /\ Present(objects[c])
BY DEF Unshared, Holders, PresentClusters

\* What a merge patch of the status leaves of the status it is applied to.
LEMMA PatchedFields ==
    ASSUME NEW s \in Status, NEW old \in Status, NEW new \in Status
    PROVE  LET t == PatchedStatus(s, old, new)
           IN  /\ t \in Status
               /\ t.phase \in {new.phase, s.phase}
               /\ t.provider = IF new.provider # old.provider THEN new.provider ELSE s.provider
               /\ t.endpoints = IF new.endpoints # old.endpoints THEN new.endpoints
                                                                  ELSE s.endpoints
<1>1. PatchedStatus(s, old, new) \in Status
  BY StatusOperators
<1> QED
  BY <1>1, Zenon DEF PatchedStatus

\* The status a pass commits promises what the pass has seen to.
LEMMA CommitSees ==
    ASSUME Readiness, NEW p \in Procs, Unshared(worker[p].cur), CommitStatus(p)
    PROVE  Seen'
<1> DEFINE me == worker[p]
           c == me.cur
           o == objects[c]
           n == containers[K0sName(c)]
           t == PatchedStatus(o.status, me.old, me.cluster.status)
           x == [o EXCEPT !.status = PatchedStatus(@, me.old, me.cluster.status)]
<1>1. me.pc = "commit" /\ UNCHANGED containers
  BY DEF CommitStatus, At, dockerVars
<1>2. /\ me \in Worker /\ c \in Clusters /\ o \in Object /\ Sees(me, o, n) /\ Published(n, o)
  BY <1>1, InSight
<1>3. o.status \in Status /\ me.old \in Status /\ me.cluster.status \in Status
  BY <1>2 DEF Object, Worker
<1>4. /\ t \in Status
      /\ t.phase \in {me.cluster.status.phase, o.status.phase}
      /\ t.provider = IF me.cluster.status.provider # me.old.provider
                      THEN me.cluster.status.provider ELSE o.status.provider
      /\ t.endpoints = IF me.cluster.status.endpoints # me.old.endpoints
                       THEN me.cluster.status.endpoints ELSE o.status.endpoints
  BY <1>3, PatchedFields
<1>5. /\ x.life = o.life /\ x.subnet = o.subnet /\ x.shown = o.shown /\ x.status = t
  BY <1>2, Zenon DEF Object
<1>6. x \in Object
  BY <1>2, <1>4, Zenon DEF Object
<1>7. \/ Present(o) /\ Write(p, c, x, IdleWorker)
      \/ UNCHANGED objects /\ Step(p, IdleWorker)
  <2>1. \A e \in Holders(c) : e = c /\ Present(o)
    BY OnlyHolder
  <2>2. \/ \E e \in Holders(c) :
               Write(p, e, [objects[e] EXCEPT
                                !.status = PatchedStatus(@, me.old, me.cluster.status)],
                     IdleWorker)
        \/ UNCHANGED objects /\ Step(p, IdleWorker)
    BY Zenon DEF CommitStatus
  <2> QED
    BY <2>1, <2>2
<1> HIDE DEF t, x
<1>8. CASE UNCHANGED objects /\ Step(p, IdleWorker)
  BY <1>1, <1>8, PassActs DEF IdleWorker
<1>9. CASE Present(o) /\ Write(p, c, x, IdleWorker)
  <2>1. /\ o.status.provider \in BOOLEAN /\ o.status.endpoints \in BOOLEAN
        /\ me.old.provider \in BOOLEAN /\ me.old.endpoints \in BOOLEAN
        /\ me.cluster.status.provider \in BOOLEAN /\ me.cluster.status.endpoints \in BOOLEAN
    BY <1>3, Zenon DEF Status
  <2>2. /\ me.old.provider => me.cluster.status.provider /\ o.status.provider
        /\ me.old.endpoints => me.cluster.status.endpoints /\ o.status.endpoints
    BY <1>2, <1>9 DEF Sees
  <2>3. /\ o.status.provider => t.provider
        /\ o.status.endpoints => t.endpoints
        /\ me.cluster.status.provider => t.provider
        /\ me.cluster.status.endpoints => t.endpoints
    BY <1>4, <2>1, <2>2
  <2>4. Grows(o, x) /\ Present(x)
    BY <1>5, <1>9, <2>3 DEF Grows
  <2>5. Published(n, x)
    <3>1. CASE t.phase = me.cluster.status.phase
      BY <1>2, <1>5, <2>3, <3>1 DEF Sees, Published, Serves
    <3>2. CASE t.phase = o.status.phase
      BY <1>2, <1>5, <2>3, <3>2 DEF Published, Serves
    <3> QED
      BY <1>4, <3>1, <3>2
  <2> QED
    BY <1>1, <1>2, <1>6, <1>9, <2>4, <2>5, PassWrites DEF IdleWorker
<1> QED
  BY <1>7, <1>8, <1>9

\* The display metadata are the last that Ready waits for.
LEMMA DisplaySees ==
    ASSUME Readiness, NEW p \in Procs, Unshared(worker[p].cur), DisplayMetadata(p)
    PROVE  Seen'
<1> DEFINE me == worker[p]
           c == me.cur
           o == objects[c]
           n == containers[K0sName(c)]
           x == [o EXCEPT !.shown = (c = c)]
           d == Decoded(me.cluster, x)
           synced == [me EXCEPT !.cur = c, !.cluster = d, !.wrote = TRUE, !.stale = FALSE]
           v == MarkReady(synced)
           lost == [Fail(me) EXCEPT !.stale = TRUE]
<1>1. me.pc = "display" /\ UNCHANGED containers
  BY DEF DisplayMetadata, At, dockerVars
<1>2. /\ me \in Worker /\ c \in Clusters /\ me.cluster \in Object /\ o \in Object
      /\ o.life # "none" /\ Sees(me, o, n) /\ Published(n, o)
  BY <1>1, InSight
<1>3. /\ x \in Object /\ x.life = o.life /\ x.subnet = o.subnet /\ x.shown
      /\ x.status = o.status
  BY <1>2, Zenon DEF Object
<1>4. \/ Present(o) /\ Write(p, c, x, v)
      \/ Present(o) /\ Write(p, c, x, lost)
      \/ UNCHANGED objects /\ Step(p, Fail(me))
  BY OnlyHolder, Zenon DEF DisplayMetadata, x, d, synced, v, lost
<1> HIDE DEF x
<1>5. /\ d \in Object /\ d.shown = x.shown
      /\ Present(o) => d.life = x.life /\ d.subnet \in {me.cluster.subnet, x.subnet}
      /\ o.subnet # NoSubnet => d.subnet = x.subnet
      /\ d.status.provider <=> me.cluster.status.provider \/ x.status.provider
      /\ d.status.endpoints <=> me.cluster.status.endpoints \/ x.status.endpoints
  <2>1. /\ d.life = IF me.cluster.life = "deleting" THEN me.cluster.life ELSE x.life
        /\ d.subnet = IF x.subnet = NoSubnet THEN me.cluster.subnet ELSE x.subnet
        /\ d.shown = x.shown /\ d.status = DecodedStatus(me.cluster.status, x.status)
    <3>1. me.cluster \in Object /\ x \in Object
      BY <1>2, <1>3
    <3> QED
      BY <3>1, DecodedFields
  <2>2. Present(o) /\ me.cluster.life = "deleting" => o.life = "deleting"
    BY <1>2 DEF Sees
  <2>3. d \in Object
    BY <1>2, <1>3, ObjectOperators
  <2> QED
    BY <1>3, <2>1, <2>2, <2>3, DecodedStatusFields
<1> HIDE DEF d
<1>6. /\ synced \in Worker /\ synced.cluster = d /\ synced.cur = c
      /\ synced.old = me.old
  BY <1>2, <1>5, Zenon DEF Worker
<1> HIDE DEF synced
<1>7. /\ v.pc = "commit" /\ v.cur = c /\ v.old = me.old
      /\ v.cluster.life = d.life /\ v.cluster.shown = d.shown
      /\ v.cluster.status.provider = d.status.provider
      /\ v.cluster.status.endpoints = d.status.endpoints
  BY <1>5, <1>6, Zenon DEF MarkReady, Worker, Object, Status
<1> HIDE DEF v
<1>8. CASE UNCHANGED objects /\ Step(p, Fail(me))
  BY <1>1, <1>2, <1>8, PassContinues DEF SeesAs
<1>9. CASE Present(o) /\ (Write(p, c, x, v) \/ Write(p, c, x, lost))
  <2>1. Grows(o, x) /\ Published(n, x) /\ Present(x)
    BY <1>2, <1>3, <1>9 DEF Grows, Published, Serves
  <2>2. CASE Write(p, c, x, lost)
    <3>1. lost.cur = c /\ Sees(lost, Collected(x), n)
      BY <1>2, <1>3, <2>1, LostSees, GrowsCollected
    <3> HIDE DEF lost
    <3> QED
      BY <1>1, <1>2, <1>3, <2>1, <2>2, <3>1, PassWrites
  <2>3. CASE Write(p, c, x, v)
    <3>1. /\ me.cluster.status.provider /\ me.cluster.status.endpoints
          /\ o.life = "live" => Serves(n, o)
          /\ me.old.provider => o.status.provider
          /\ me.old.endpoints => o.status.endpoints
      BY <1>1, <1>2, <1>9 DEF Sees, Publishing
    <3>2. Sees(v, x, n)
      BY <1>3, <1>5, <1>7, <2>1, <3>1 DEF Sees, Building, Removing, Publishing, Serves
    <3>3. Sees(v, Collected(x), n)
      <4>1. Collected(x) = x \/ Collected(x).life = "gone"
        BY <1>3, CollectedFields
      <4> QED
        BY <3>2, <4>1 DEF Sees
    <3> QED
      BY <1>1, <1>2, <1>3, <1>7, <2>1, <2>3, <3>3, PassWrites
  <2> QED
    BY <1>9, <2>2, <2>3
<1> QED
  BY <1>4, <1>8, <1>9

\* The pass works on what the removal of the annotation returns.
LEMMA OperationSees ==
    ASSUME Readiness, NEW p \in Procs, Unshared(worker[p].cur), RemoveOperation(p)
    PROVE  Seen'
<1> DEFINE me == worker[p]
           c == me.cur
           o == objects[c]
           n == containers[K0sName(c)]
           x == [o EXCEPT !.op = ""]
           d == Decoded(me.cluster, x)
           v == [me EXCEPT !.pc = "profile", !.cur = c, !.cluster = d, !.old = d.status,
                           !.stale = FALSE]
<1>1. me.pc = "operation" /\ UNCHANGED containers
  BY DEF RemoveOperation, At, dockerVars
<1>2. /\ me \in Worker /\ c \in Clusters /\ me.cluster \in Object /\ o \in Object
      /\ Sees(me, o, n) /\ Published(n, o)
  BY <1>1, InSight
<1>3. /\ x \in Object /\ x.life = o.life /\ x.subnet = o.subnet /\ x.shown = o.shown
      /\ x.status = o.status
  BY <1>2, Zenon DEF Object, Operations
<1>4. \/ Present(o) /\ Write(p, c, x, v)
      \/ Present(o) /\ Write(p, c, x, IdleWorker)
      \/ UNCHANGED objects /\ Step(p, IdleWorker)
  <2>1. \A e \in Holders(c) : e = c /\ Present(o)
    BY OnlyHolder
  <2> QED
    BY <2>1, Zenon DEF RemoveOperation, Abort
<1>5. v.pc = "profile" /\ v.cur = c /\ v.cluster = d /\ v.old = d.status
  BY <1>2, Zenon DEF Worker
<1>6. /\ d.life = IF me.cluster.life = "deleting" THEN me.cluster.life ELSE x.life
      /\ d.subnet = IF x.subnet = NoSubnet THEN me.cluster.subnet ELSE x.subnet
      /\ d.shown = x.shown
      /\ d.status.provider <=> me.cluster.status.provider \/ x.status.provider
      /\ d.status.endpoints <=> me.cluster.status.endpoints \/ x.status.endpoints
      /\ d.status.phase \in {me.cluster.status.phase, x.status.phase}
  <2>1. /\ d.life = IF me.cluster.life = "deleting" THEN me.cluster.life ELSE x.life
        /\ d.subnet = IF x.subnet = NoSubnet THEN me.cluster.subnet ELSE x.subnet
        /\ d.shown = x.shown /\ d.status = DecodedStatus(me.cluster.status, x.status)
    BY <1>2, <1>3, DecodedFields
  <2> HIDE DEF x, d
  <2>2. /\ d.status.provider <=> me.cluster.status.provider \/ x.status.provider
        /\ d.status.endpoints <=> me.cluster.status.endpoints \/ x.status.endpoints
        /\ d.status.phase \in {me.cluster.status.phase, x.status.phase}
    BY <2>1, DecodedStatusFields
  <2> QED
    BY <2>1, <2>2
<1> HIDE DEF x, d, v
<1>7. CASE UNCHANGED objects /\ Step(p, IdleWorker)
  BY <1>1, <1>7, PassActs DEF IdleWorker
<1>8. CASE Present(o) /\ (Write(p, c, x, v) \/ Write(p, c, x, IdleWorker))
  <2>1. Grows(o, x) /\ Published(n, x) /\ Present(x)
    BY <1>2, <1>3, <1>8 DEF Grows, Published, Serves
  <2>2. /\ me.cluster.status = me.old
        /\ me.old.provider => o.status.provider
        /\ me.old.endpoints => o.status.endpoints
        /\ me.cluster.life = "deleting" => o.life = "deleting"
        /\ me.cluster.subnet \in {NoSubnet, o.subnet}
    BY <1>1, <1>2, <1>8 DEF Sees
  <2>3. o.life = "live" /\ d.status.phase = "Ready" =>
            Serves(n, o) /\ d.status.provider /\ d.status.endpoints /\ o.shown
    <3>1. CASE me.cluster.status.phase = "Ready"
      BY <1>2, <1>6, <3>1 DEF Sees
    <3>2. CASE x.status.phase = "Ready"
      BY <1>2, <1>3, <1>6, <3>2 DEF Published
    <3> QED
      BY <1>6, <3>1, <3>2
  <2>4. /\ d.status.provider => x.status.provider
        /\ d.status.endpoints => x.status.endpoints
        /\ d.life = x.life /\ d.subnet = x.subnet
    BY <1>3, <1>6, <2>2
  <2>5. Sees(v, x, n)
    BY <1>3, <1>5, <1>6, <2>3, <2>4 DEF Sees, Building, Removing, Publishing, Serves
  <2>6. Sees(v, Collected(x), n)
    <3>1. Collected(x) = x \/ Collected(x).life = "gone"
      BY <1>3, CollectedFields
    <3> QED
      BY <2>5, <3>1 DEF Sees
  <2>7. IdleWorker.pc = "idle"
    BY DEF IdleWorker
  <2> QED
    BY <1>1, <1>2, <1>3, <1>5, <1>8, <2>1, <2>6, <2>7, PassWrites
<1> QED
  BY <1>4, <1>7, <1>8

----------------------------------------------------------------------------
(* A step of a pass, whatever it has seen *)

\* How a pass that leaves the objects alone goes on.
Goes(v, w) ==
    \/ v.pc = "idle"
    \/ /\ v.cur = w.cur /\ w.pc # "commit"
       /\ v.pc # "commit" =>
              /\ v.stale = w.stale
              /\ w.pc = "pick" \/ v.cluster.subnet = w.cluster.subnet
              /\ v.pc = "pick" => v.cluster.subnet = NoSubnet

\* How a pass that has written x for Cluster d goes on.
Follows(v, w, d, x) ==
    \/ v.pc = "idle"
    \/ /\ v.cur \in {w.cur, d}
       /\ v.pc # "commit" => /\ v.cur = d /\ v.pc # "pick"
                             /\ x.subnet \in {NoSubnet, v.cluster.subnet}

\* A step of a pass touches the container of its Cluster, or writes the object
\* that has the name of its Cluster.
Shape(p) ==
    LET me == worker[p]
    IN  /\ \A n \in Names \ {K0sName(me.cur)} : containers'[n] = containers[n]
        /\ \E v :
               \/ UNCHANGED objects /\ Step(p, v) /\ Goes(v, me)
               \/ \E d \in Holders(me.cur), x \in Object :
                      Present(x) /\ Write(p, d, x, v) /\ Follows(v, me, d, x)

\* The steps that leave the objects alone.
LEMMA LocalShape ==
    ASSUME TypeOK, NEW p \in Procs,
           \/ Responsible(p) \/ PickSubnet(p)
           \/ EnsureK0sCluster(p) \/ Prepare(p) \/ CreateContainer(p)
           \/ StartContainer(p) \/ WaitReady(p) \/ TargetClient(p) \/ Install(p)
           \/ PodsReady(p) \/ ConfigureMetalLB(p) \/ PublishAccess(p)
           \/ LookupContainer(p) \/ RemoveContainer(p)
    PROVE  Shape(p)
<1> DEFINE me == worker[p]
           started == [me EXCEPT !.cluster.status.phase = "Progressing"]
           provided == [me EXCEPT !.cluster.status.provider = TRUE]
           published == [provided EXCEPT !.cluster.status.endpoints = TRUE]
           configured == [me EXCEPT !.pc = "publish", !.cluster.status.metallb = "True"]
<1>1. me.pc \notin {"idle", "commit"} /\ UNCHANGED objects
  BY DEF Responsible, PickSubnet, EnsureK0sCluster, Prepare, CreateContainer,
         StartContainer, WaitReady, TargetClient, Install, PodsReady, ConfigureMetalLB,
         PublishAccess, LookupContainer, RemoveContainer, At, platformVars
<1>2. me \in Worker /\ me.cluster \in Object /\ containers \in [Names -> Container]
  BY DEF TypeOK, ProviderTypeOK, Worker
<1>3. \A n \in Names \ {K0sName(me.cur)} : containers'[n] = containers[n]
  BY <1>2 DEF Responsible, PickSubnet, EnsureK0sCluster, Prepare, CreateContainer,
         StartContainer, WaitReady, TargetClient, Install, PodsReady, ConfigureMetalLB,
         PublishAccess, LookupContainer, RemoveContainer, platformVars, dockerVars,
         ContainerCreate, ContainerStart, InstallMetalLB, ConfigureSubnet, DeleteCluster
<1>4. \A v : SeesAs(v, me) /\ v.pc # "pick" => Goes(v, me)
  BY <1>1 DEF SeesAs, Goes
<1>5. /\ started \in Worker /\ SeesAs(started, me)
      /\ provided \in Worker /\ SeesAs(provided, me)
  BY <1>2, SameSight, Zenon DEF Worker, Object, Status, Phases
<1> HIDE DEF started, provided
<1>6. published \in Worker /\ SeesAs(published, provided)
  BY <1>5, SameSight, Zenon DEF Worker, Object, Status
<1> HIDE DEF published
<1>7. SeesAs(me, me) /\ SeesAs(published, me)
  BY <1>5, <1>6 DEF SeesAs
<1>8. ASSUME NEW w \in Worker, SeesAs(w, me)
      PROVE  /\ Goes(Fail(w), me) /\ Goes(FailK0s(w), me) /\ Goes(FailMetalLB(w), me)
             /\ Goes(K0sUp(w), me) /\ Goes(MarkReady(w), me)
             /\ \A l \in Labels \ {"pick"} : Goes([w EXCEPT !.pc = l], me)
  <2>1. \A v : SeesAs(v, w) => SeesAs(v, me)
    BY <1>8 DEF SeesAs
  <2>2. /\ SeesAs(Fail(w), me) /\ SeesAs(FailK0s(w), me) /\ SeesAs(FailMetalLB(w), me)
        /\ SeesAs(K0sUp(w), me) /\ \A l \in Labels : SeesAs([w EXCEPT !.pc = l], me)
    BY <2>1, SameSight
  <2>3. /\ Fail(w).pc = "commit" /\ FailK0s(w).pc = "commit" /\ FailMetalLB(w).pc = "commit"
        /\ K0sUp(w).pc = "target" /\ \A l \in Labels : [w EXCEPT !.pc = l].pc = l
    BY WorkerFields
  <2>4. MarkReady(w).pc = "commit" /\ MarkReady(w).cur = w.cur
    BY Zenon DEF MarkReady, Worker
  <2>5. Goes(MarkReady(w), me)
    BY <1>1, <1>8, <2>4 DEF Goes, SeesAs
  <2> QED
    BY <1>4, <2>2, <2>3, <2>5
<1>9. Goes(configured, me)
  <2>1. SeesAs(configured, me) /\ configured.pc = "publish"
    BY <1>2, SameSight, WorkerFields
  <2> QED
    BY <1>4, <2>1
<1> HIDE DEF configured
<1>10. {"prepare", "create", "start", "wait", "target", "install", "podsReady",
        "configure", "publish", "display", "remove", "removeFinalizer"}
           \subseteq Labels \ {"pick"}
  BY DEF Labels
<1>11. \E v : Step(p, v) /\ Goes(v, me)
  <2>1. CASE Responsible(p)
    <3>1. Step(p, Begin(me)) \/ Step(p, IdleWorker)
      BY <2>1 DEF Responsible, Abort
    <3>2. Goes(Begin(me), me)
      <4>1. SeesAs(Begin(me), me)
        BY <1>2, SameSight
      <4>2. Begin(me).pc = "pick" => me.cluster.subnet = NoSubnet
        BY <1>2, BeginFields
      <4> QED
        BY <1>1, <4>1, <4>2 DEF SeesAs, Goes
    <3>3. Goes(IdleWorker, me)
      BY DEF Goes, IdleWorker
    <3> QED
      BY <3>1, <3>2, <3>3
  <2>2. CASE PickSubnet(p)
    <3>1. CASE Step(p, Fail(me))
      BY <1>2, <1>7, <1>8, <3>1
    <3>2. ASSUME NEW s \in Slices, Step(p, [me EXCEPT !.pc = "assign", !.cluster.subnet = s])
          PROVE  \E v : Step(p, v) /\ Goes(v, me)
      <4> DEFINE v == [me EXCEPT !.pc = "assign", !.cluster.subnet = s]
      <4>1. v.pc = "assign" /\ v.cur = me.cur /\ v.stale = me.stale
        BY <1>2, Zenon DEF Worker
      <4>2. me.pc = "pick"
        BY <2>2 DEF PickSubnet, At
      <4> HIDE DEF v
      <4>3. Goes(v, me)
        BY <4>1, <4>2 DEF Goes
      <4> QED
        BY <3>2, <4>3 DEF v
    <3> QED
      BY <2>2, <3>1, <3>2 DEF PickSubnet, NextAvailableLBNetwork, FreeSlices
  <2>3. CASE EnsureK0sCluster(p)
    BY <1>5, <1>8, <1>10, <2>3 DEF EnsureK0sCluster, started
  <2>4. CASE Prepare(p) \/ CreateContainer(p) \/ StartContainer(p) \/ WaitReady(p)
    BY <1>2, <1>7, <1>8, <1>10, <2>4 DEF Prepare, CreateContainer, StartContainer, WaitReady
  <2>5. CASE TargetClient(p) \/ Install(p) \/ PodsReady(p)
    BY <1>2, <1>7, <1>8, <1>10, <2>5 DEF TargetClient, Install, PodsReady
  <2>6. CASE ConfigureMetalLB(p)
    BY <1>2, <1>7, <1>8, <1>9, <2>6 DEF ConfigureMetalLB, configured
  <2>7. CASE PublishAccess(p)
    <3>1. \/ Step(p, MarkReady(published)) \/ Step(p, [published EXCEPT !.pc = "display"])
          \/ Step(p, Fail(provided)) \/ Step(p, Fail(published))
      BY <2>7, Zenon DEF PublishAccess, provided, published
    <3> QED
      BY <1>5, <1>6, <1>7, <1>8, <1>10, <3>1
  <2>8. CASE LookupContainer(p) \/ RemoveContainer(p)
    BY <1>2, <1>7, <1>8, <1>10, <2>8 DEF LookupContainer, RemoveContainer
  <2> QED
    BY <2>1, <2>2, <2>3, <2>4, <2>5, <2>6, <2>7, <2>8
<1> QED
  BY <1>1, <1>3, <1>11 DEF Shape

\* client.Update and the patches by name.
LEMMA WriteShape ==
    ASSUME TypeOK, NEW p \in Procs,
           \/ RemoveOperation(p) \/ DisplayMetadata(p) \/ CommitStatus(p)
           \/ EnsureFinalizer(p) \/ AssignSubnet(p) \/ RemoveFinalizer(p)
    PROVE  Shape(p)
<1> DEFINE me == worker[p]
           c == me.cur
<1>1. me.pc # "idle" /\ UNCHANGED containers
  BY DEF RemoveOperation, DisplayMetadata, CommitStatus, EnsureFinalizer, AssignSubnet,
         RemoveFinalizer, At, dockerVars
<1>2. /\ me \in Worker /\ me.cluster \in Object /\ c \in Clusters
      /\ objects \in [Clusters -> Object]
  BY <1>1, InPass DEF TypeOK, Worker
<1>3. \A d \in Holders(c) : d \in Clusters /\ Present(objects[d])
  BY <1>2, HolderIs
<1>4. Goes(IdleWorker, me) /\ \A d, x : Follows(IdleWorker, me, d, x)
  BY DEF Goes, Follows, IdleWorker
<1>5. CASE RemoveOperation(p)
  <2> DEFINE O(d) == [objects[d] EXCEPT !.op = ""]
             D(d) == Decoded(me.cluster, O(d))
             W(d) == [me EXCEPT !.pc = "profile", !.cur = d, !.cluster = D(d),
                                !.old = D(d).status, !.stale = FALSE]
  <2>1. \A d \in Clusters : O(d) \in Object /\ O(d).life = objects[d].life
    BY Patches, ObjectTypes DEF Untouched
  <2>2. \A d \in Holders(c) : O(d) \in Object /\ Present(O(d))
    BY <1>3, <2>1
  <2>3. \A d \in Holders(c) : O(d).subnet \in {NoSubnet, D(d).subnet}
    BY <1>2, <2>2, DecodedFields
  <2> HIDE DEF O, D
  <2>4. \A d : W(d).pc = "profile" /\ W(d).cur = d /\ W(d).cluster = D(d)
    BY <1>2, Zenon DEF Worker
  <2> HIDE DEF W
  <2>5. \A d \in Holders(c) : Follows(W(d), me, d, O(d))
    BY <2>3, <2>4 DEF Follows
  <2>6. \/ \E d \in Holders(c) : Write(p, d, O(d), W(d))
        \/ \E d \in Holders(c) : Write(p, d, O(d), IdleWorker)
        \/ UNCHANGED objects /\ Step(p, IdleWorker)
    BY <1>5, Zenon DEF RemoveOperation, Abort, O, D, W
  <2> QED
    BY <1>1, <1>4, <2>2, <2>5, <2>6 DEF Shape
<1>6. CASE DisplayMetadata(p)
  <2> DEFINE O(d) == [objects[d] EXCEPT !.shown = (d = c)]
             Synced(d) == [me EXCEPT !.cur = d, !.cluster = Decoded(me.cluster, O(d)),
                                     !.wrote = TRUE, !.stale = FALSE]
             W(d) == MarkReady(Synced(d))
             lost == [Fail(me) EXCEPT !.stale = TRUE]
  <2>1. \A d \in Clusters : O(d) \in Object /\ O(d).life = objects[d].life
    BY Patches, ObjectTypes DEF Untouched
  <2>2. \A d \in Holders(c) : O(d) \in Object /\ Present(O(d))
    BY <1>3, <2>1
  <2> HIDE DEF O
  <2>3. /\ \A d : W(d).pc = "commit" /\ W(d).cur = d
        /\ lost.pc = "commit" /\ lost.cur = c
        /\ Fail(me).pc = "commit" /\ Fail(me).cur = c
    BY <1>2, Zenon DEF MarkReady, Fail, Worker
  <2> HIDE DEF Synced, W, lost
  <2>4. \A d \in Holders(c) : Follows(W(d), me, d, O(d)) /\ Follows(lost, me, d, O(d))
    BY <2>3 DEF Follows
  <2>5. Goes(Fail(me), me)
    BY <1>6, <2>3 DEF Goes, DisplayMetadata, At
  <2>6. \/ \E d \in Holders(c) : Write(p, d, O(d), W(d))
        \/ \E d \in Holders(c) : Write(p, d, O(d), lost)
        \/ UNCHANGED objects /\ Step(p, Fail(me))
    BY <1>6, Zenon DEF DisplayMetadata, O, Synced, W, lost
  <2> QED
    BY <1>1, <2>2, <2>4, <2>5, <2>6 DEF Shape
<1>7. CASE CommitStatus(p)
  <2> DEFINE St(d) == PatchedStatus(objects[d].status, me.old, me.cluster.status)
             O(d) == [objects[d] EXCEPT !.status = St(d)]
  <2>1. \A d \in Clusters : St(d) \in Status
    BY <1>2, StatusOperators DEF Object, Worker
  <2> HIDE DEF St
  <2>2. \A d \in Holders(c) : O(d) \in Object /\ Present(O(d))
    BY <1>3, <2>1, Patches DEF Untouched
  <2>3. \/ \E d \in Holders(c) : Write(p, d, O(d), IdleWorker)
        \/ UNCHANGED objects /\ Step(p, IdleWorker)
    BY <1>7, Zenon DEF CommitStatus, O, St
  <2> HIDE DEF O
  <2> QED
    BY <1>1, <1>4, <2>2, <2>3 DEF Shape
<1>8. CASE EnsureFinalizer(p) \/ AssignSubnet(p) \/ RemoveFinalizer(p)
  <2>1. PICK m \in Object, l \in {"commit", "exists"} :
            Update(p, m, [me EXCEPT !.pc = l])
    <3>1. \A b \in BOOLEAN : [me.cluster EXCEPT !.finalizer = b] \in Object
      BY <1>2, Zenon DEF Object
    <3> QED
      BY <1>2, <1>8, <3>1 DEF EnsureFinalizer, AssignSubnet, RemoveFinalizer
  <2> DEFINE x == Sent(p, m)
             u == Answered([me EXCEPT !.pc = l], m, x)
             lost == [Fail(me) EXCEPT !.stale = TRUE]
  <2>2. /\ l \in Labels /\ x \in Object /\ x.life = objects[c].life /\ x.subnet = m.subnet
    BY <1>2, <2>1, UpdateEnds DEF Labels
  <2> HIDE DEF x
  <2>3. /\ u.pc = l /\ u.cur = c /\ u.cluster = Decoded(m, x)
        /\ lost.pc = "commit" /\ lost.cur = c
        /\ Fail(me).pc = "commit" /\ Fail(me).cur = c
    BY <1>2, Zenon DEF Answered, Fail, Worker
  <2>4. u.cluster.subnet = x.subnet
    BY <2>2, <2>3, DecodedFields
  <2>5. \/ Present(objects[c]) /\ (Write(p, c, x, u) \/ Write(p, c, x, lost))
        \/ UNCHANGED objects /\ Step(p, Fail(me))
    BY <2>1, Zenon DEF Update, u, lost, x
  <2> HIDE DEF u, lost
  <2>6. Follows(u, me, c, x) /\ Follows(lost, me, c, x)
    BY <2>1, <2>3, <2>4 DEF Follows
  <2>7. Goes(Fail(me), me)
    BY <1>8, <2>3 DEF Goes, EnsureFinalizer, AssignSubnet, RemoveFinalizer, At
  <2>8. Present(objects[c]) => c \in Holders(c) /\ Present(x)
    BY <1>2, <2>2 DEF Holders, PresentClusters
  <2> QED
    BY <1>1, <2>2, <2>5, <2>6, <2>7, <2>8 DEF Shape
<1> QED
  BY <1>5, <1>6, <1>7, <1>8

\* Every step of a pass has that shape.
LEMMA PassShape ==
    ASSUME TypeOK, NEW p \in Procs, Pass(p)
    PROVE  Shape(p) /\ worker[p].pc # "idle"
<1>1. worker[p].pc # "idle"
  BY DEF Pass, RemoveOperation, Responsible, EnsureFinalizer, PickSubnet, AssignSubnet,
         EnsureK0sCluster, Prepare, CreateContainer, StartContainer, WaitReady,
         TargetClient, Install, PodsReady, ConfigureMetalLB, PublishAccess,
         DisplayMetadata, CommitStatus, LookupContainer, RemoveContainer,
         RemoveFinalizer, At
<1> QED
  BY <1>1, LocalShape, WriteShape DEF Pass

\* What happens under a name that several Clusters had concerns none of those that
\* are alone with theirs.
LEMMA SharedSees ==
    ASSUME Readiness, NEW p \in Procs, Pass(p), ~Unshared(worker[p].cur)
    PROVE  Seen'
<1> DEFINE c == worker[p].cur
<1>1. /\ TypeOK /\ Seen /\ objects \in [Clusters -> Object]
      /\ worker \in [Procs -> Worker] /\ containers \in [Names -> Container]
      /\ \A q \in Procs : worker[q].pc = "idle" \/ worker[q].cur \in Clusters
  BY ReadinessParts DEF TypeOK, ProviderTypeOK
<1>2. Shape(p) /\ worker[p].pc # "idle" /\ c \in Clusters
  BY <1>1, PassShape
<1>3. objects[c].life # "none"
  BY <1>1, <1>2 DEF Seen, PassSees
<1>4. \A d \in {c} \cup Holders(c) : d \in Clusters /\ ~Unshared(d) /\ objects[d].life # "none"
  BY <1>2, <1>3 DEF Holders, PresentClusters, Unshared
<1>5. ASSUME NEW e \in {c} \cup Holders(c), NEW v, worker'[p] = v,
             v.pc = "idle" \/ v.cur \in {c} \cup Holders(c),
             \A d \in Clusters \ {e} : objects'[d] = objects[d],
             \/ objects'[e] = objects[e]
             \/ objects'[e].life # "none" /\ (Present(objects'[e]) \/ objects'[e].subnet = NoSubnet),
             \A q \in Procs \ {p} : worker'[q] = worker[q] \/ worker'[q].cur = e
      PROVE  Seen'
  <2>1. \A d \in Clusters : objects[d].life # "none" => objects'[d].life # "none"
    BY <1>5
  <2>2. \A d : Unshared(d)' => Unshared(d) /\ d \notin {c} \cup Holders(c)
    BY <1>4, <2>1, SharedStays
  <2>3. ASSUME NEW d \in Clusters, Unshared(d)'
        PROVE  Unshared(d) /\ objects'[d] = objects[d]
               /\ containers'[K0sName(d)] = containers[K0sName(d)]
    <3>1. Unshared(d) /\ d # c /\ d # e
      BY <2>2, <2>3
    <3>2. K0sName(d) \in Names \ {K0sName(c)}
      BY <1>2, <3>1, NamesDiffer
    <3> QED
      BY <1>2, <1>5, <3>1, <3>2 DEF Shape
  <2>4. UnsharedReadyMeansUsable'
    BY <1>1, <2>3 DEF Seen, UnsharedReadyMeansUsable, UsableWhenReady, Usable
  <2>5. \A d \in Clusters : ~Present(objects'[d]) => objects'[d].subnet = NoSubnet
    BY <1>1, <1>5 DEF Seen
  <2>6. ASSUME NEW q \in Procs PROVE PassSees(q)'
    <3>1. CASE worker'[q].cur \in {c} \cup Holders(c)
      BY <1>4, <2>1, <2>2, <3>1 DEF PassSees
    <3>2. CASE worker'[q].pc = "idle"
      BY <3>2 DEF PassSees
    <3>3. CASE worker'[q] = worker[q] /\ worker[q].pc # "idle"
      <4>1. worker[q].cur \in Clusters /\ PassSees(q)
        BY <1>1, <3>3 DEF Seen
      <4> QED
        BY <2>1, <2>3, <3>3, <4>1 DEF PassSees
    <3> QED
      BY <1>5, <3>1, <3>2, <3>3
  <2> QED
    BY <2>4, <2>5, <2>6 DEF Seen
<1>6. PICK v : \/ UNCHANGED objects /\ Step(p, v) /\ Goes(v, worker[p])
               \/ \E d \in Holders(c), x \in Object :
                      Present(x) /\ Write(p, d, x, v) /\ Follows(v, worker[p], d, x)
  BY <1>2 DEF Shape
<1>7. CASE UNCHANGED objects /\ Step(p, v) /\ Goes(v, worker[p])
  <2>1. worker'[p] = v /\ \A q \in Procs \ {p} : worker'[q] = worker[q]
    BY <1>1, <1>7 DEF Step
  <2>2. v.pc = "idle" \/ v.cur = c
    BY <1>7 DEF Goes
  <2> QED
    BY <1>5, <1>7, <2>1, <2>2
<1>8. ASSUME NEW d \in Holders(c), NEW x \in Object,
             Present(x), Write(p, d, x, v), Follows(v, worker[p], d, x)
      PROVE  Seen'
  <2>1. d \in Clusters
    BY <1>4
  <2>2. objects' = [objects EXCEPT ![d] = Collected(x)] /\ worker'[p] = v
    BY <1>1, <1>8, <2>1, Written
  <2>3. \A q \in Procs \ {p} : worker'[q] = worker[q] \/ worker'[q].cur = d
    <3>1. \A q \in Procs \ {p} :
              worker'[q] = IF worker[q].cur = d THEN [worker[q] EXCEPT !.stale = TRUE]
                                                ELSE worker[q]
      BY <1>8 DEF Write, Overtaken
    <3>2. \A w \in Worker : [w EXCEPT !.stale = TRUE].cur = w.cur
      BY OvertakenSight
    <3> QED
      BY <1>1, <3>1, <3>2
  <2>4. v.pc = "idle" \/ v.cur \in {c} \cup Holders(c)
    BY <1>8 DEF Follows
  <2>5. /\ Collected(x).life # "none"
        /\ Present(Collected(x)) \/ Collected(x).subnet = NoSubnet
    BY <1>8, CollectedFields
  <2>6. objects'[d] = Collected(x) /\ \A b \in Clusters \ {d} : objects'[b] = objects[b]
    BY <1>1, <2>1, <2>2
  <2> QED
    BY <1>5, <2>2, <2>3, <2>4, <2>5, <2>6
<1> QED
  BY <1>6, <1>7, <1>8

----------------------------------------------------------------------------
(* The start of a pass, and everybody else *)

\* A pass has seen what it has just read.
LEMMA GetSees ==
    ASSUME Readiness, NEW p \in Procs, NEW c \in Clusters, Get(p, c)
    PROVE  Seen'
<1> DEFINE o == objects[c]
           l == IF o.op = "reconcile" THEN "operation" ELSE "profile"
           v == [IdleWorker EXCEPT !.pc = l, !.cur = c, !.cluster = o, !.old = o.status]
<1>1. /\ Step(p, v) /\ Present(o) /\ UNCHANGED <<objects, containers>>
  BY DEF Get, dockerVars
<1>2. /\ o \in Object /\ worker \in [Procs -> Worker]
      /\ Unshared(c) => Published(containers[K0sName(c)], o)
  BY ReadinessParts DEF TypeOK, Seen
<1>3. v.pc = l /\ v.cur = c /\ v.cluster = o /\ v.old = o.status
  BY Zenon DEF IdleWorker
<1>4. l \in {"operation", "profile"}
  OBVIOUS
<1> HIDE DEF l, v
<1>5. Unshared(c) => Sees(v, o, containers[K0sName(c)])
  BY <1>1, <1>2, <1>3, <1>4, JustRead
<1>6. worker'[p] = v /\ \A q \in Procs \ {p} : worker'[q] = worker[q]
  BY <1>1, <1>2 DEF Step
<1>7. PassSees(p)'
  BY <1>1, <1>3, <1>5, <1>6 DEF PassSees, Unshared
<1> QED
  BY <1>1, <1>6, <1>7, Unmoved

\* What users and other controllers do to an object takes nothing away from it.
LEMMA EditsGrow ==
    ASSUME Readiness, NEW c \in Clusters, UserStep(c)
    PROVE  \E x \in Object :
               /\ Edit(c, x) /\ Present(x)
               /\ Unshared(c) =>
                      Grows(objects[c], x) /\ Published(containers[K0sName(c)], x)
               /\ objects[c].subnet # NoSubnet => x.subnet = objects[c].subnet
<1> DEFINE o == objects[c]
           n == containers[K0sName(c)]
<1>1. /\ o \in Object
      /\ Unshared(c) => Published(n, o)
      /\ ~Present(o) => o.subnet = NoSubnet
  BY ReadinessParts DEF TypeOK, Seen
<1>2. ASSUME NEW x \in Object, Edit(c, x), Present(o),
             x.life = o.life \/ (o.life = "live" /\ x.life = "deleting"),
             x.subnet = o.subnet, x.shown = o.shown, x.status = o.status
      PROVE  /\ Present(x) /\ x.subnet = o.subnet
             /\ Unshared(c) => Grows(o, x) /\ Published(n, x)
  BY <1>1, <1>2 DEF Grows, Published, Serves
<1>3. CASE CreateObject(c)
  <2> DEFINE x == [NoObject EXCEPT !.life = "live"]
  <2>1. x \in Object /\ x.life = "live" /\ x.status.phase = ""
    BY ObjectTypes, Zenon DEF NoObject, EmptyStatus, Object
  <2>2. o.life = "none" /\ Edit(c, x)
    BY <1>3 DEF CreateObject
  <2> HIDE DEF x
  <2>3. Grows(o, x) /\ Published(n, x)
    BY <2>1, <2>2 DEF Grows, Published
  <2> QED
    BY <1>1, <2>1, <2>2, <2>3
<1>4. CASE DeleteObject(c)
  <2> DEFINE x == [o EXCEPT !.life = "deleting"]
  <2>1. /\ x \in Object /\ x.life = "deleting" /\ x.subnet = o.subnet
        /\ x.shown = o.shown /\ x.status = o.status
    BY <1>1, Zenon DEF Object
  <2>2. o.life = "live" /\ Edit(c, x)
    BY <1>4 DEF DeleteObject
  <2> HIDE DEF x
  <2> QED
    BY <1>2, <2>1, <2>2
<1>5. ASSUME NEW v \in Operations, SetOperation(c, v)
      PROVE  \E x \in Object : Edit(c, x) /\ Present(o) /\ x.life = o.life
                /\ x.subnet = o.subnet /\ x.shown = o.shown /\ x.status = o.status
  <2> DEFINE x == [o EXCEPT !.op = v]
  <2>1. /\ x \in Object /\ x.life = o.life /\ x.subnet = o.subnet
        /\ x.shown = o.shown /\ x.status = o.status
    BY <1>1, Zenon DEF Object
  <2>2. Present(o) /\ Edit(c, x)
    BY <1>5 DEF SetOperation
  <2> HIDE DEF x
  <2> QED
    BY <2>1, <2>2
<1>6. ASSUME NEW b \in BOOLEAN, Edit(c, [o EXCEPT !.foreign = b]), Present(o)
      PROVE  \E x \in Object : Edit(c, x) /\ Present(o) /\ x.life = o.life
                /\ x.subnet = o.subnet /\ x.shown = o.shown /\ x.status = o.status
  <2> DEFINE x == [o EXCEPT !.foreign = b]
  <2>1. /\ x \in Object /\ x.life = o.life /\ x.subnet = o.subnet
        /\ x.shown = o.shown /\ x.status = o.status
    BY <1>1, Zenon DEF Object
  <2>2. Edit(c, x)
    BY <1>6
  <2> HIDE DEF x
  <2> QED
    BY <1>6, <2>1, <2>2
<1>7. CASE \/ \E v \in Operations : SetOperation(c, v)
           \/ AddForeignFinalizer(c) \/ RemoveForeignFinalizer(c)
  BY <1>2, <1>5, <1>6, <1>7 DEF AddForeignFinalizer, RemoveForeignFinalizer
<1> QED
  BY <1>3, <1>4, <1>7 DEF UserStep

\* Users, other controllers, docker, a lost process and the profile.
LEMMA OthersSee ==
    ASSUME Readiness,
           \/ \E c \in Clusters : UserStep(c)
           \/ \E n \in Names : DockerStep(n)
           \/ \E v \in {"absent", "ours", "other"} : SetProfile(v)
           \/ \E p \in Procs, c \in Clusters : Skip(p, c)
           \/ \E p \in Procs : Crash(p)
           \/ UNCHANGED vars
    PROVE  Seen'
<1>1. TypeOK
  BY ReadinessParts
<1>2. ASSUME NEW c \in Clusters, UserStep(c) PROVE Seen'
  <2>1. PICK x \in Object :
            /\ Edit(c, x) /\ Present(x)
            /\ Unshared(c) =>
                   Grows(objects[c], x) /\ Published(containers[K0sName(c)], x)
    BY <1>2, EditsGrow
  <2> QED
    BY <2>1, Rewritten DEF Edit, Stored, dockerVars
<1>3. ASSUME NEW n \in Names, DockerStep(n) PROVE Seen'
  <2>1. Boot(n) \/ MetalLBPodsReady(n)
    BY <1>3 DEF DockerStep
  <2>2. PICK x : /\ containers' = [containers EXCEPT ![n] = x]
                 /\ \A o : Lasts(containers[n], x, o)
    BY <1>1, <2>1, ContainerLasts
  <2> QED
    BY <1>3, <2>2, Moved DEF DockerStep
<1>4. ASSUME NEW p \in Procs, Crash(p) PROVE Seen'
  BY <1>4, PassActs DEF Crash, IdleWorker, dockerVars
<1>5. CASE UNCHANGED <<objects, containers, worker>>
  BY <1>5, Unmoved
<1> QED
  BY <1>2, <1>3, <1>4, <1>5 DEF SetProfile, Skip, vars, dockerVars

----------------------------------------------------------------------------
(* The theorems on Ready *)

\* Readiness holds initially.
LEMMA ReadinessInit == Init => Readiness
<1> SUFFICES ASSUME Init PROVE Readiness
  OBVIOUS
<1>1. TypeOK
  BY TypeInit
<1>2. \A c \in Clusters : objects[c].life = "none" /\ objects[c].subnet = NoSubnet
  <2>1. NoObject.life = "none" /\ NoObject.subnet = NoSubnet
    BY Zenon DEF NoObject
  <2> QED
    BY <2>1 DEF Init
<1>3. \A p \in Procs : worker[p].pc = "idle"
  BY DEF Init, IdleWorker
<1> QED
  BY <1>1, <1>2, <1>3
     DEF Readiness, UnsharedReadyMeansUsable, UsableWhenReady, PassSees

\* Every step keeps Readiness.
LEMMA ReadinessStep == Readiness /\ [Next]_vars => Readiness'
<1> SUFFICES ASSUME Readiness, [Next]_vars PROVE Readiness'
  OBVIOUS
<1>1. TypeOK'
  BY TypeStep DEF Readiness
<1>2. ASSUME NEW p \in Procs, Pass(p) PROVE Seen'
  BY <1>2, SharedSees, OperationSees, ResponsibleSees, UpdatesSee, PickSees, LookingSees,
     BuildingSees, PodsSees, ConfigureSees, PublishSees, DisplaySees, CommitSees,
     LookupSees, RemovingSees DEF Pass
<1>3. ASSUME NEW p \in Procs, NEW c \in Clusters, Dequeue(p, c) PROVE Seen'
  BY <1>3, GetSees, OthersSee DEF Dequeue
<1>4. Seen'
  BY <1>2, <1>3, OthersSee DEF Next
<1> QED
  BY <1>1, <1>4 DEF Readiness, Seen

\* With any number of processes, what a pass has seen stays until it acts on it,
\* or the write it then tries is refused.
THEOREM ReadinessHolds == Spec => []Readiness
BY ReadinessInit, ReadinessStep, PTL DEF Spec

\* A live Cluster in phase Ready is usable, however many processes work on it, if
\* no other one had its name.
THEOREM ReadyIsUsable == Spec => []UnsharedReadyMeansUsable
<1>1. Readiness => UnsharedReadyMeansUsable
  BY DEF Readiness
<1> QED
  BY <1>1, ReadinessHolds, PTL

----------------------------------------------------------------------------
(* The theorem on the slice *)

\* A pass that has not been overtaken knows the slice its object has, if it has
\* one.
KnowsSlice(p) ==
    LET me == worker[p]
        o == objects[me.cur]
    IN  me.pc \notin {"idle", "commit"} =>
            /\ ~me.stale /\ Present(o) => o.subnet \in {NoSubnet, me.cluster.subnet}
            /\ me.pc = "pick" => me.cluster.subnet = NoSubnet

\* A write of c leaves the workers in a pass over it overtaken, and the others
\* what they know.
LEMMA SliceOvertaken ==
    ASSUME Readiness, \A q \in Procs : KnowsSlice(q), NEW c \in Clusters, NEW x,
           Stored(c, x), NEW q \in Procs, worker'[q] = Overtaken(c)[q]
    PROVE  KnowsSlice(q)'
<1>1. TypeOK /\ worker[q] \in Worker /\ objects \in [Clusters -> Object]
  BY DEF Readiness, TypeOK
<1>2. /\ objects' = [objects EXCEPT ![c] = Collected(x)]
      /\ worker'[q] = IF worker[q].cur = c THEN [worker[q] EXCEPT !.stale = TRUE] ELSE worker[q]
  BY DEF Stored, Overtaken
<1>3. CASE worker[q].cur = c
  <2>1. LET v == worker'[q] IN v.pc = worker[q].pc /\ v.cluster = worker[q].cluster /\ v.stale
    BY <1>1, <1>2, <1>3, OvertakenSight
  <2> QED
    BY <2>1 DEF KnowsSlice
<1>4. CASE worker[q].cur # c
  <2>1. worker[q].pc = "idle" \/ worker[q].cur \in Clusters
    BY <1>1 DEF TypeOK
  <2> QED
    BY <1>1, <1>2, <1>4, <2>1 DEF KnowsSlice
<1> QED
  BY <1>3, <1>4

\* A pass knows the slice when it has read the object, and when it has written it.
LEMMA SliceInPass ==
    ASSUME Readiness, \A q \in Procs : KnowsSlice(q), NEW p \in Procs, Pass(p)
    PROVE  \A q \in Procs : KnowsSlice(q)'
<1> DEFINE me == worker[p]
<1>1. /\ TypeOK /\ worker \in [Procs -> Worker] /\ objects \in [Clusters -> Object]
      /\ me.pc # "idle" /\ me.cur \in Clusters
      /\ \A c \in Clusters : ~Present(objects[c]) => objects[c].subnet = NoSubnet
  BY PassShape DEF Readiness, TypeOK
<1>2. PICK v : \/ UNCHANGED objects /\ Step(p, v) /\ Goes(v, me)
               \/ \E d \in Holders(me.cur), x \in Object :
                      Present(x) /\ Write(p, d, x, v) /\ Follows(v, me, d, x)
  BY <1>1, PassShape DEF Shape
<1>3. CASE UNCHANGED objects /\ Step(p, v) /\ Goes(v, me)
  <2>1. worker'[p] = v /\ \A q \in Procs \ {p} : worker'[q] = worker[q]
    BY <1>1, <1>3 DEF Step
  <2>2. KnowsSlice(p)'
    BY <1>1, <1>3, <2>1 DEF KnowsSlice, Goes
  <2> QED
    BY <1>3, <2>1, <2>2 DEF KnowsSlice
<1>4. ASSUME NEW d \in Holders(me.cur), NEW x \in Object,
             Present(x), Write(p, d, x, v), Follows(v, me, d, x)
      PROVE  \A q \in Procs : KnowsSlice(q)'
  <2>1. d \in Clusters
    BY HolderIs
  <2>2. objects' = [objects EXCEPT ![d] = Collected(x)] /\ worker'[p] = v
    BY <1>1, <1>4, <2>1, Written
  <2>3. objects'[d] = x \/ ~Present(objects'[d])
    BY <1>1, <2>1, <2>2, CollectedFields
  <2>4. KnowsSlice(p)'
    BY <1>4, <2>2, <2>3 DEF KnowsSlice, Follows
  <2>5. \A q \in Procs \ {p} : worker'[q] = Overtaken(d)[q]
    BY <1>4 DEF Write, Overtaken
  <2> QED
    BY <1>4, <2>1, <2>4, <2>5, SliceOvertaken DEF Write
<1> QED
  BY <1>2, <1>3, <1>4

\* Every step keeps what is known of the slices.
LEMMA SliceStep ==
    ASSUME Readiness, \A q \in Procs : KnowsSlice(q), [Next]_vars
    PROVE  \A q \in Procs : KnowsSlice(q)'
<1>1. TypeOK /\ worker \in [Procs -> Worker]
  BY DEF Readiness, TypeOK
<1>2. ASSUME NEW p \in Procs, NEW c \in Clusters, Get(p, c)
      PROVE  \A q \in Procs : KnowsSlice(q)'
  <2> DEFINE l == IF objects[c].op = "reconcile" THEN "operation" ELSE "profile"
             v == [IdleWorker EXCEPT !.pc = l, !.cur = c, !.cluster = objects[c],
                                     !.old = objects[c].status]
  <2>1. Step(p, v) /\ UNCHANGED objects
    BY <1>2 DEF Get
  <2>2. v.pc # "pick" /\ v.cur = c /\ v.cluster = objects[c]
    BY Zenon DEF IdleWorker
  <2> HIDE DEF v
  <2>3. worker'[p] = v /\ \A q \in Procs \ {p} : worker'[q] = worker[q]
    BY <1>1, <2>1 DEF Step
  <2> QED
    BY <2>1, <2>2, <2>3 DEF KnowsSlice
<1>3. ASSUME NEW c \in Clusters, UserStep(c)
      PROVE  \A q \in Procs : KnowsSlice(q)'
  <2>1. PICK x \in Object : Edit(c, x)
    BY <1>3, EditsGrow
  <2> QED
    BY <2>1, SliceOvertaken DEF Edit
<1>4. ASSUME UNCHANGED objects,
             \A q \in Procs : worker'[q] = worker[q] \/ worker'[q].pc = "idle"
      PROVE  \A q \in Procs : KnowsSlice(q)'
  BY <1>4 DEF KnowsSlice
<1>5. ASSUME NEW p \in Procs, Crash(p)
      PROVE  \A q \in Procs : KnowsSlice(q)'
  <2>1. \A q \in Procs : worker'[q] = worker[q] \/ worker'[q].pc = "idle"
    BY <1>1, <1>5 DEF Crash, Step, IdleWorker
  <2> QED
    BY <1>4, <1>5, <2>1 DEF Crash
<1>6. CASE UNCHANGED <<objects, worker>>
  BY <1>4, <1>6
<1> QED
  BY <1>2, <1>3, <1>5, <1>6, SliceInPass
     DEF Next, Dequeue, Skip, SetProfile, DockerStep, vars

\* A Cluster keeps its slice until the object is gone, however many processes
\* work on it: a pass that would write a second slice has been overtaken by the
\* one that wrote the first, and is refused (ensureSubnet).
THEOREM SliceKeptByAll == Spec => SliceIsKept
<1> DEFINE Inv == \A q \in Procs : KnowsSlice(q)
<1>1. Init => Inv
  BY DEF Init, KnowsSlice, IdleWorker
<1>2. Readiness /\ Inv /\ [Next]_vars => Inv'
  BY SliceStep
<1>3. Readiness /\ Inv /\ [Next]_vars => [\A c \in Clusters : Keeps(c)]_vars
  BY SliceStays DEF KnowsSlice, Readiness
<1> QED
  BY <1>1, <1>2, <1>3, ReadinessHolds, PTL DEF Spec, SliceIsKept, Keeps

----------------------------------------------------------------------------
(* No wakeup is lost: what a step leaves of a Cluster that is attended to *)

\* v is in the same pass over the same object as w.
Close(v, w) ==
    /\ v.cur = w.cur /\ v.old = w.old /\ v.stale = w.stale /\ v.pc # "idle"
    /\ v.cluster.life = w.cluster.life /\ v.cluster.finalizer = w.cluster.finalizer

\* The steps after the k0s cluster has been found up.
Up == {"target", "install", "podsReady", "configure"} \cup Publishing

\* A pass that goes on, or ends with an error, stays conclusive.
LEMMA Concludes ==
    ASSUME NEW w, NEW v, NEW o, Conclusive(w, o), Close(v, w),
           v.pc \in Building => o.life = "live",
           v.pc \in Up => v.cluster.status.k0s = "True",
           v.pc \in Publishing => v.cluster.status.metallb = "True",
           v.pc = "commit" =>
               \/ v.again \/ Reached(o)
               \/ o.life = "live" /\ v.cluster.status.phase = "Ready"
                  /\ AllTrue(v.cluster.status)
    PROVE  Conclusive(v, o)
BY DEF Conclusive, Close, Up

\* The ways a step of a pass can go on or end are about the same object.
LEMMA CloseSteps ==
    ASSUME NEW w \in Worker, w.pc # "idle"
    PROVE  /\ Close(Fail(w), w) /\ Fail(w).pc = "commit" /\ Fail(w).again
           /\ Close(FailK0s(w), w) /\ FailK0s(w).pc = "commit" /\ FailK0s(w).again
           /\ Close(FailMetalLB(w), w) /\ FailMetalLB(w).pc = "commit"
           /\ FailMetalLB(w).again
           /\ Close(K0sUp(w), w) /\ K0sUp(w).pc = "target"
           /\ K0sUp(w).cluster.status.k0s = "True"
           /\ \A l \in Labels \ {"idle"} :
                  LET v == [w EXCEPT !.pc = l]
                  IN  Close(v, w) /\ v.pc = l /\ v.cluster = w.cluster
<1>1. w.cluster \in Object /\ w.cluster.status \in Status
  BY DEF Worker, Object
<1>2. Close(Fail(w), w) /\ Fail(w).pc = "commit" /\ Fail(w).again
  BY <1>1, Zenon DEF Close, Fail, Worker, Object, Status
<1>3. Close(FailK0s(w), w) /\ FailK0s(w).pc = "commit" /\ FailK0s(w).again
  BY <1>1, Zenon DEF Close, Fail, FailK0s, Worker, Object, Status
<1>4. /\ Close(FailMetalLB(w), w) /\ FailMetalLB(w).pc = "commit"
      /\ FailMetalLB(w).again
  BY <1>1, Zenon DEF Close, Fail, FailMetalLB, Worker, Object, Status
<1>5. /\ Close(K0sUp(w), w) /\ K0sUp(w).pc = "target"
      /\ K0sUp(w).cluster.status.k0s = "True"
  BY <1>1, Zenon DEF Close, K0sUp, Worker, Object, Status
<1>6. \A l \in Labels \ {"idle"} :
          LET v == [w EXCEPT !.pc = l]
          IN  Close(v, w) /\ v.pc = l /\ v.cluster = w.cluster
  BY <1>1, Zenon DEF Close, Worker
<1> QED
  BY <1>2, <1>3, <1>4, <1>5, <1>6

\* Where run sends a pass, and that it comes back to an object whose finalizer
\* has to wait.
LEMMA CloseBegin ==
    ASSUME NEW w \in Worker, w.pc # "idle"
    PROVE  LET v == Begin(w)
           IN  /\ Close(v, w)
               /\ v.pc \in {"lookup", "commit", "addFinalizer", "pick", "exists"}
               /\ v.pc = "commit" =>
                      w.cluster.life = "deleting" /\ v.again = w.cluster.finalizer
               /\ v.pc = "exists" => w.cluster.life # "deleting"
<1>1. w.cluster \in Object /\ w.cluster.status \in Status
  BY DEF Worker, Object
<1> DEFINE d == [w EXCEPT !.cluster.status.phase = "Terminating"]
           P(v) == /\ Close(v, w)
                   /\ v.pc \in {"lookup", "commit", "addFinalizer", "pick", "exists"}
                   /\ v.pc = "commit" =>
                          w.cluster.life = "deleting" /\ v.again = w.cluster.finalizer
                   /\ v.pc = "exists" => w.cluster.life # "deleting"
<1>2. d \in Worker /\ Close(d, w)
  BY <1>1, Zenon DEF Close, Worker, Object, Status, Phases
<1> HIDE DEF d
<1>3. \A v : Close(v, d) => Close(v, w)
  BY <1>2 DEF Close
<1>4. LET v == [d EXCEPT !.pc = "lookup"] IN v.pc = "lookup" /\ Close(v, d)
  BY <1>2, Zenon DEF Close, Worker
<1>5. LET v == [d EXCEPT !.pc = "commit", !.again = w.cluster.finalizer]
      IN  v.pc = "commit" /\ v.again = w.cluster.finalizer /\ Close(v, d)
  BY <1>2, Zenon DEF Close, Worker
<1>6. \A l \in {"addFinalizer", "pick", "exists"} :
          [w EXCEPT !.pc = l].pc = l /\ Close([w EXCEPT !.pc = l], w)
  BY CloseSteps DEF Labels
<1>7. CASE w.cluster.life = "deleting" /\ w.cluster.finalizer /\ ~w.cluster.foreign
  <2>1. Begin(w) = [d EXCEPT !.pc = "lookup"]
    BY <1>7, Zenon DEF Begin, d
  <2> QED
    BY <1>3, <1>4, <2>1
<1>8. CASE w.cluster.life = "deleting" /\ ~(w.cluster.finalizer /\ ~w.cluster.foreign)
  <2>1. Begin(w) = [d EXCEPT !.pc = "commit", !.again = w.cluster.finalizer]
    BY <1>8, Zenon DEF Begin, d
  <2> QED
    BY <1>3, <1>5, <1>8, <2>1
<1>9. CASE w.cluster.life # "deleting"
  <2>1. Begin(w) \in {[w EXCEPT !.pc = l] : l \in {"addFinalizer", "pick", "exists"}}
    BY <1>9 DEF Begin
  <2> QED
    BY <1>6, <1>9, <2>1
<1> QED
  BY <1>7, <1>8, <1>9

\* After the step, p will come to c, or its pass over c stays conclusive.
Minds(p, c) ==
    \/ ObjectName[c] \in queue'[p]
    \/ /\ UNCHANGED objects
       /\ \/ Reached(objects[c])
          \/ worker'[p].cur = c /\ Conclusive(worker'[p], objects[c])

\* A conclusive pass over an object that is there, and what it knows of it.
InCharge(p) ==
    LET me == worker[p]
    IN  /\ TypeOK /\ OneHolder /\ profile = "ours" /\ me.pc # "idle"
        /\ Conclusive(me, objects[me.cur]) /\ Present(objects[me.cur])

\* A step that goes on with the same object.
LEMMA MindsOn ==
    ASSUME NEW p \in Procs, InCharge(p), UNCHANGED objects,
           NEW v, Step(p, v), Close(v, worker[p]),
           v.pc \in Building => worker[p].cluster.life # "deleting",
           v.pc \in Up => v.cluster.status.k0s = "True",
           v.pc \in Publishing => v.cluster.status.metallb = "True",
           v.pc = "commit" =>
               \/ v.again \/ Reached(objects[worker[p].cur])
               \/ /\ worker[p].cluster.life # "deleting"
                  /\ v.cluster.status.phase = "Ready" /\ AllTrue(v.cluster.status)
    PROVE  Minds(p, worker[p].cur)
<1> DEFINE me == worker[p]
           o == objects[me.cur]
<1>1. /\ worker \in [Procs -> Worker] /\ Conclusive(me, o)
      /\ me.cluster.life = o.life /\ (o.life # "deleting" => o.life = "live")
  BY DEF InCharge, TypeOK, Conclusive
<1>2. worker'[p] = v /\ v.cur = me.cur
  BY <1>1 DEF Step, Close
<1>3. Conclusive(v, o)
  BY <1>1, Concludes
<1> QED
  BY <1>2, <1>3 DEF Minds

\* A step that ends the pass with an error.
LEMMA MindsFailure ==
    ASSUME NEW p \in Procs, InCharge(p), UNCHANGED objects,
           NEW w \in Worker, Close(w, worker[p]),
           Step(p, Fail(w)) \/ Step(p, FailK0s(w)) \/ Step(p, FailMetalLB(w))
    PROVE  Minds(p, worker[p].cur)
<1>1. w.pc # "idle" /\ \A v : Close(v, w) => Close(v, worker[p])
  BY DEF Close
<1>2. ASSUME NEW v, Step(p, v), Close(v, w), v.pc = "commit", v.again
      PROVE  Minds(p, worker[p].cur)
  <2>1. v.pc \notin Building /\ v.pc \notin Up /\ v.pc \notin Publishing
    BY <1>2 DEF Building, Up, Publishing
  <2> QED
    BY <1>1, <1>2, <2>1, MindsOn
<1> QED
  BY <1>1, <1>2, CloseSteps

\* A step that only moves the pass on.
LEMMA MindsLabel ==
    ASSUME NEW p \in Procs, InCharge(p), UNCHANGED objects,
           NEW l \in Labels \ ({"idle", "commit"} \cup Publishing),
           Step(p, [worker[p] EXCEPT !.pc = l]),
           l \in Building => worker[p].pc \in Building,
           l \in Up => worker[p].pc \in Up
    PROVE  Minds(p, worker[p].cur)
<1> DEFINE me == worker[p]
           o == objects[me.cur]
           v == [me EXCEPT !.pc = l]
<1>1. me \in Worker /\ me.pc # "idle" /\ Conclusive(me, o)
  BY DEF InCharge, TypeOK
<1>2. /\ me.pc \in Building => me.cluster.life # "deleting"
      /\ me.pc \in Up => me.cluster.status.k0s = "True"
  BY <1>1 DEF Conclusive, Up
<1>3. Close(v, me) /\ v.pc = l /\ v.cluster = me.cluster
  BY <1>1, CloseSteps
<1> HIDE DEF v
<1> QED
  BY <1>2, <1>3, MindsOn DEF v

\* The steps on docker, the pods and the network.
LEMMA LookingMinds ==
    ASSUME NEW p \in Procs, InCharge(p),
           \/ Prepare(p) \/ CreateContainer(p) \/ StartContainer(p) \/ WaitReady(p)
           \/ TargetClient(p) \/ Install(p) \/ PodsReady(p)
           \/ LookupContainer(p) \/ RemoveContainer(p)
    PROVE  Minds(p, worker[p].cur)
<1> DEFINE me == worker[p]
<1>1. me \in Worker /\ UNCHANGED objects
  BY DEF InCharge, TypeOK, Prepare, CreateContainer, StartContainer, WaitReady,
         TargetClient, Install, PodsReady, LookupContainer, RemoveContainer, platformVars
<1>2. Close(me, me)
  BY DEF InCharge, Close
<1>3. CASE Step(p, Fail(me)) \/ Step(p, FailK0s(me)) \/ Step(p, FailMetalLB(me))
  BY <1>1, <1>2, <1>3, MindsFailure
<1>4. CASE WaitReady(p) /\ Step(p, K0sUp(me))
  <2> DEFINE v == K0sUp(me)
  <2>1. me.pc = "wait" /\ me.pc \in Building /\ me.cluster.life # "deleting"
    BY <1>4 DEF WaitReady, At, InCharge, Conclusive, Building
  <2>2. Close(v, me) /\ v.pc = "target" /\ v.cluster.status.k0s = "True"
    BY <1>1, <2>1, CloseSteps
  <2> HIDE DEF v
  <2> QED
    BY <1>1, <1>4, <2>1, <2>2, MindsOn DEF v, Publishing
<1>5. CASE /\ me.pc \in {"prepare", "create", "start", "target", "install", "podsReady"}
           /\ \E l \in {"create", "start", "wait", "install", "podsReady", "configure"} :
                  /\ Step(p, [me EXCEPT !.pc = l])
                  /\ l \in Up => me.pc \in Up
  BY <1>1, <1>5, MindsLabel DEF Labels, Building, Publishing
<1>6. CASE \E l \in {"remove", "removeFinalizer"} : Step(p, [me EXCEPT !.pc = l])
  BY <1>1, <1>6, MindsLabel DEF Labels, Building, Up, Publishing
<1>7. CASE Prepare(p) \/ CreateContainer(p) \/ StartContainer(p)
  BY <1>3, <1>5, <1>7 DEF Prepare, CreateContainer, StartContainer, At, Up, Publishing
<1>8. CASE TargetClient(p) \/ Install(p) \/ PodsReady(p)
  BY <1>3, <1>5, <1>8 DEF TargetClient, Install, PodsReady, At, Up
<1>9. CASE WaitReady(p)
  BY <1>3, <1>4, <1>9 DEF WaitReady
<1>10. CASE LookupContainer(p) \/ RemoveContainer(p)
  BY <1>3, <1>6, <1>10 DEF LookupContainer, RemoveContainer
<1> QED
  BY <1>7, <1>8, <1>9, <1>10

\* The condition on the k0s cluster comes before those that depend on it.
LEMMA EnsureMinds ==
    ASSUME NEW p \in Procs, InCharge(p), EnsureK0sCluster(p)
    PROVE  Minds(p, worker[p].cur)
<1> DEFINE me == worker[p]
           w == [me EXCEPT !.cluster.status.phase = "Progressing"]
<1>1. me \in Worker /\ UNCHANGED objects /\ me.pc = "exists" /\ me.pc \in Building
      /\ me.cluster \in Object /\ me.cluster.status \in Status
  BY DEF InCharge, TypeOK, EnsureK0sCluster, At, Building, platformVars, Worker, Object
<1>2. w \in Worker /\ Close(w, me) /\ w.pc # "idle"
  BY <1>1, Zenon DEF Close, Worker, Object, Status, Phases
<1>3. \A v : Close(v, w) => Close(v, me)
  BY <1>2 DEF Close
<1>4. me.cluster.life # "deleting"
  BY <1>1 DEF InCharge, Conclusive
<1>5. CASE Step(p, K0sUp(w))
  <2> DEFINE v == K0sUp(w)
  <2>1. Close(v, w) /\ v.pc = "target" /\ v.cluster.status.k0s = "True"
    BY <1>2, CloseSteps
  <2> HIDE DEF v, w
  <2> QED
    BY <1>1, <1>3, <1>4, <1>5, <2>1, MindsOn DEF v, Publishing
<1>6. CASE Step(p, [w EXCEPT !.pc = "prepare"])
  <2> DEFINE v == [w EXCEPT !.pc = "prepare"]
  <2>1. Close(v, w) /\ v.pc = "prepare"
    BY <1>2, CloseSteps DEF Labels
  <2> HIDE DEF v, w
  <2> QED
    BY <1>1, <1>3, <1>4, <1>6, <2>1, MindsOn DEF v, Up, Publishing
<1>7. CASE Step(p, FailK0s(w))
  BY <1>1, <1>2, <1>7, MindsFailure
<1> QED
  BY <1>5, <1>6, <1>7 DEF EnsureK0sCluster

\* A pass of the provider is sent on; a failure to read the profile is retried.
LEMMA ResponsibleMinds ==
    ASSUME NEW p \in Procs, InCharge(p), Responsible(p)
    PROVE  Minds(p, worker[p].cur)
<1> DEFINE me == worker[p]
           o == objects[me.cur]
           v == Begin(me)
<1>1. /\ me \in Worker /\ UNCHANGED objects /\ me.pc # "idle" /\ profile = "ours"
      /\ queue \in [Procs -> SUBSET ObjectNames] /\ Conclusive(me, o)
  BY DEF InCharge, TypeOK, Responsible
<1>2. CASE Abort(p)
  BY <1>1, <1>2 DEF Abort, Minds
<1>3. CASE Step(p, Begin(me))
  <2>1. /\ Close(v, me)
        /\ v.pc \in {"lookup", "commit", "addFinalizer", "pick", "exists"}
        /\ v.pc = "commit" =>
               me.cluster.life = "deleting" /\ v.again = me.cluster.finalizer
        /\ v.pc = "exists" => me.cluster.life # "deleting"
    BY <1>1, CloseBegin
  <2> HIDE DEF v
  <2>2. v.pc = "commit" => v.again \/ Reached(o)
    BY <1>1, <2>1 DEF Conclusive, Reached
  <2> QED
    BY <1>1, <1>3, <2>1, <2>2, MindsOn DEF v, Building, Up, Publishing
<1> QED
  BY <1>1, <1>2, <1>3 DEF Responsible

\* Without a free slice the pass ends with an error.
LEMMA PickMinds ==
    ASSUME NEW p \in Procs, InCharge(p), PickSubnet(p)
    PROVE  Minds(p, worker[p].cur)
<1> DEFINE me == worker[p]
<1>1. me \in Worker /\ UNCHANGED objects /\ Close(me, me)
  BY DEF InCharge, TypeOK, PickSubnet, Close
<1>2. CASE Step(p, Fail(me))
  BY <1>1, <1>2, MindsFailure
<1>3. ASSUME NEW s, Step(p, [me EXCEPT !.pc = "assign", !.cluster.subnet = s])
      PROVE  Minds(p, me.cur)
  <2> DEFINE v == [me EXCEPT !.pc = "assign", !.cluster.subnet = s]
  <2>1. Close(v, me) /\ v.pc = "assign"
    BY <1>1, Zenon DEF Close, Worker, Object
  <2> HIDE DEF v
  <2> QED
    BY <1>1, <1>3, <2>1, MindsOn DEF v, Building, Up, Publishing
<1> QED
  BY <1>2, <1>3 DEF PickSubnet

\* metallb is condition by condition up before anything is published.
LEMMA ConfigureMinds ==
    ASSUME NEW p \in Procs, InCharge(p), ConfigureMetalLB(p)
    PROVE  Minds(p, worker[p].cur)
<1> DEFINE me == worker[p]
           v == [me EXCEPT !.pc = "publish", !.cluster.status.metallb = "True"]
<1>1. me \in Worker /\ UNCHANGED objects /\ Close(me, me) /\ me.pc = "configure"
  BY DEF InCharge, TypeOK, ConfigureMetalLB, At, platformVars, Close
<1>2. me.cluster.life # "deleting" /\ me.cluster.status.k0s = "True"
  BY <1>1 DEF InCharge, Conclusive, Building
<1>3. CASE Step(p, FailMetalLB(me))
  BY <1>1, <1>3, MindsFailure
<1>4. CASE Step(p, v)
  <2>1. me.cluster \in Object /\ me.cluster.status \in Status
    BY <1>1 DEF Worker, Object
  <2>2. /\ Close(v, me) /\ v.pc = "publish"
        /\ v.cluster.status.k0s = me.cluster.status.k0s
        /\ v.cluster.status.metallb = "True"
    BY <1>1, <2>1, Zenon DEF Close, Worker, Object, Status
  <2> HIDE DEF v
  <2> QED
    BY <1>1, <1>2, <1>4, <2>2, MindsOn
<1> QED
  BY <1>3, <1>4 DEF ConfigureMetalLB

\* The aggregate is set when all it stands for is.
LEMMA PublishMinds ==
    ASSUME NEW p \in Procs, InCharge(p), PublishAccess(p)
    PROVE  Minds(p, worker[p].cur)
<1> DEFINE me == worker[p]
           provided == [me EXCEPT !.cluster.status.provider = TRUE]
           published == [provided EXCEPT !.cluster.status.endpoints = TRUE]
           Same(w) == /\ w \in Worker /\ Close(w, me)
                      /\ w.cluster.status.k0s = "True"
                      /\ w.cluster.status.metallb = "True"
<1>1. me \in Worker /\ UNCHANGED objects /\ me.pc = "publish"
  BY DEF InCharge, TypeOK, PublishAccess, At, platformVars
<1>2. /\ me.cluster.life # "deleting" /\ me.cluster.status.k0s = "True"
      /\ me.cluster.status.metallb = "True"
  BY <1>1 DEF InCharge, Conclusive, Building, Publishing
<1>3. Same(provided)
  <2>1. me.cluster \in Object /\ me.cluster.status \in Status
    BY <1>1 DEF Worker, Object
  <2> QED
    BY <1>1, <1>2, <2>1, Zenon DEF Close, Worker, Object, Status
<1>4. published = [provided EXCEPT !.cluster.status.endpoints = TRUE]
  OBVIOUS
<1>5. \/ Step(p, MarkReady(published)) \/ Step(p, [published EXCEPT !.pc = "display"])
      \/ Step(p, Fail(provided)) \/ Step(p, Fail(published))
  BY Zenon DEF PublishAccess
<1> HIDE DEF provided, published
<1>6. Same(published)
  <2>1. provided.cluster \in Object /\ provided.cluster.status \in Status
    BY <1>3 DEF Worker, Object
  <2>2. /\ published \in Worker /\ Close(published, provided)
        /\ published.cluster.status.k0s = provided.cluster.status.k0s
        /\ published.cluster.status.metallb = provided.cluster.status.metallb
    BY <1>3, <1>4, <2>1, Zenon DEF Close, Worker, Object, Status
  <2> QED
    BY <1>3, <2>2 DEF Close
<1>7. CASE Step(p, Fail(provided)) \/ Step(p, Fail(published))
  BY <1>1, <1>3, <1>6, <1>7, MindsFailure
<1>8. CASE Step(p, [published EXCEPT !.pc = "display"])
  <2> DEFINE v == [published EXCEPT !.pc = "display"]
  <2>1. Close(v, published) /\ v.pc = "display" /\ v.cluster = published.cluster
    BY <1>6, CloseSteps DEF Labels, Close
  <2> HIDE DEF v
  <2>2. Close(v, me)
    BY <1>6, <2>1 DEF Close
  <2> QED
    BY <1>1, <1>2, <1>6, <1>8, <2>1, <2>2, MindsOn DEF v
<1>9. CASE Step(p, MarkReady(published))
  <2> DEFINE v == MarkReady(published)
  <2>1. published.cluster \in Object /\ published.cluster.status \in Status
    BY <1>6 DEF Worker, Object
  <2>2. /\ Close(v, published) /\ v.pc = "commit"
        /\ v.cluster.status.phase = "Ready" /\ v.cluster.status.ready = "True"
        /\ v.cluster.status.k0s = published.cluster.status.k0s
        /\ v.cluster.status.metallb = published.cluster.status.metallb
    BY <1>6, <2>1, Zenon DEF Close, MarkReady, Worker, Object, Status
  <2> HIDE DEF v
  <2>3. Close(v, me) /\ AllTrue(v.cluster.status)
    BY <1>6, <2>2 DEF Close, AllTrue, Conditions
  <2> QED
    BY <1>1, <1>2, <1>9, <2>2, <2>3, MindsOn DEF v, Building, Up, Publishing
<1> QED
  BY <1>5, <1>7, <1>8, <1>9

\* A write brings everybody back; a write that is refused ends with an error.
LEMMA WritingMinds ==
    ASSUME NEW p \in Procs, InCharge(p),
           \/ RemoveOperation(p) \/ EnsureFinalizer(p) \/ AssignSubnet(p)
           \/ RemoveFinalizer(p) \/ DisplayMetadata(p)
    PROVE  Minds(p, worker[p].cur)
<1> DEFINE me == worker[p]
           c == me.cur
<1>1. me \in Worker /\ Close(me, me) /\ queue \in [Procs -> SUBSET ObjectNames]
  BY DEF InCharge, TypeOK, Close
<1>2. ASSUME NEW d, ObjectName[d] = ObjectName[c], NEW o, NEW w, Write(p, d, o, w)
      PROVE  Minds(p, c)
  BY <1>2 DEF Write, Stored, Minds
<1>3. ASSUME NEW o, NEW w, Update(p, o, w) PROVE Minds(p, c)
  <2>1. CASE Step(p, Fail(me)) /\ UNCHANGED objects
    BY <1>1, <2>1, MindsFailure
  <2> QED
    BY <1>2, <1>3, <2>1 DEF Update
<1>4. CASE Abort(p)
  BY <1>1, <1>4 DEF Abort, Minds
<1>5. CASE EnsureFinalizer(p) \/ AssignSubnet(p) \/ RemoveFinalizer(p)
  BY <1>3, <1>5 DEF EnsureFinalizer, AssignSubnet, RemoveFinalizer
<1>6. CASE RemoveOperation(p)
  BY <1>2, <1>4, <1>6, HolderIs DEF RemoveOperation
<1>7. CASE DisplayMetadata(p)
  <2>1. CASE Step(p, Fail(me)) /\ UNCHANGED objects
    BY <1>1, <2>1, MindsFailure
  <2> QED
    BY <1>2, <1>7, <2>1, HolderIs DEF DisplayMetadata
<1> QED
  BY <1>5, <1>6, <1>7

\* The status is written, or it already says that the goal is reached, or the
\* pass is to be repeated.
LEMMA CommitMinds ==
    ASSUME NEW p \in Procs, InCharge(p), CommitStatus(p)
    PROVE  Minds(p, worker[p].cur)
<1> DEFINE me == worker[p]
           c == me.cur
           o == objects[c]
           name == ObjectName[c]
<1>1. /\ me.pc = "commit" /\ queue \in [Procs -> SUBSET ObjectNames]
      /\ Conclusive(me, o) /\ Holders(c) # {}
  <2>1. c \in Clusters
    BY InPass DEF InCharge
  <2> QED
    BY <2>1 DEF InCharge, TypeOK, CommitStatus, At, Holders, PresentClusters
<1>2. CASE \E d \in Holders(c) : \E x : Write(p, d, x, IdleWorker)
  BY <1>2, HolderIs DEF Write, Stored, Minds
<1>3. CASE \/ queue' = [queue EXCEPT ![p] = @ \cup {name}]
           \/ /\ me.again
              /\ queue' = [queue EXCEPT ![p] = IF me.again THEN @ \cup {name} ELSE @]
  BY <1>1, <1>3 DEF Minds
<1>4. CASE me.cluster.status = me.old /\ ~me.again /\ UNCHANGED objects
  BY <1>1, <1>4 DEF Conclusive, Reached, Minds
<1>5. \/ /\ me.cluster.status = me.old \/ Holders(c) = {}
         /\ queue' = [queue EXCEPT ![p] = IF me.again THEN @ \cup {name} ELSE @]
         /\ UNCHANGED objects
      \/ \E d \in Holders(c) : \E x : Write(p, d, x, IdleWorker)
      \/ queue' = [queue EXCEPT ![p] = @ \cup {name}]
  BY Zenon DEF CommitStatus
<1> QED
  BY <1>1, <1>2, <1>3, <1>4, <1>5

\* Whatever a conclusive pass does, its Cluster stays attended to.
LEMMA PassMinds ==
    ASSUME NEW p \in Procs, InCharge(p), Pass(p)
    PROVE  Minds(p, worker[p].cur)
BY LookingMinds, EnsureMinds, ResponsibleMinds, PickMinds, ConfigureMinds,
   PublishMinds, WritingMinds, CommitMinds DEF Pass

----------------------------------------------------------------------------
(* Every step leaves somebody who attends to all Clusters *)

\* A pass writes the object that has the name of its Cluster, or it leaves them all
\* alone and queues no other name.
LEMMA PassFrame ==
    ASSUME TypeOK, NEW p \in Procs, Pass(p)
    PROVE  /\ profile' = profile
           /\ \/ \E d : ObjectName[d] = ObjectName[worker[p].cur] /\ \E o, w : Write(p, d, o, w)
              \/ /\ UNCHANGED objects /\ \E w : Step(p, w)
                 /\ \/ UNCHANGED queue
                    \/ queue' = [queue EXCEPT ![p] = @ \cup {ObjectName[worker[p].cur]}]
<1> DEFINE c == worker[p].cur
           name == ObjectName[c]
           Leaves == /\ UNCHANGED objects /\ \E w : Step(p, w)
                     /\ \/ UNCHANGED queue
                        \/ queue' = [queue EXCEPT ![p] = @ \cup {name}]
           Frame == (\E d : ObjectName[d] = name /\ \E o, w : Write(p, d, o, w)) \/ Leaves
<1>1. CASE \/ Prepare(p) \/ CreateContainer(p) \/ StartContainer(p) \/ WaitReady(p)
           \/ TargetClient(p) \/ Install(p) \/ PodsReady(p)
           \/ LookupContainer(p) \/ RemoveContainer(p)
  BY <1>1, Zenon DEF Prepare, CreateContainer, StartContainer, WaitReady, TargetClient,
     Install, PodsReady, LookupContainer, RemoveContainer, platformVars
<1>2. CASE \/ EnsureK0sCluster(p) \/ ConfigureMetalLB(p) \/ PublishAccess(p)
           \/ PickSubnet(p)
  BY <1>2, Zenon DEF EnsureK0sCluster, ConfigureMetalLB, PublishAccess, PickSubnet,
     platformVars
<1>3. CASE Responsible(p)
  BY <1>3, Zenon DEF Responsible, Abort
<1>4. ASSUME NEW o, NEW w, Update(p, o, w) PROVE Frame
  BY <1>4, Zenon DEF Update
<1>5. CASE EnsureFinalizer(p) \/ AssignSubnet(p) \/ RemoveFinalizer(p)
  BY <1>4, <1>5 DEF EnsureFinalizer, AssignSubnet, RemoveFinalizer
<1>6. CASE RemoveOperation(p)
  BY <1>6, HolderIs, Zenon DEF RemoveOperation, Abort
<1>7. CASE DisplayMetadata(p)
  BY <1>7, HolderIs, Zenon DEF DisplayMetadata
<1>8. CASE CommitStatus(p)
  <2>1. /\ UNCHANGED profile
        /\ \/ \E d \in Holders(c) : \E x : Write(p, d, x, IdleWorker)
           \/ /\ UNCHANGED objects /\ Step(p, IdleWorker)
              /\ \E b \in BOOLEAN :
                     queue' = [queue EXCEPT ![p] = IF b THEN @ \cup {name} ELSE @]
    BY <1>8, Zenon DEF CommitStatus
  <2>2. queue \in [Procs -> SUBSET ObjectNames]
    BY DEF TypeOK
  <2> QED
    BY <2>1, <2>2, HolderIs
<1> QED
  BY <1>1, <1>2, <1>3, <1>5, <1>6, <1>7, <1>8, Zenon DEF Pass

\* p attends to all Clusters.
Attends(p) == \A c \in Clusters : Attended(p, c)

\* A Cluster that nobody writes stays attended to, if p does not forget it.
LEMMA StaysAttended ==
    ASSUME NEW p \in Procs, NEW c \in Clusters, Attended(p, c),
           objects'[c] = objects[c],
           ObjectName[c] \in queue[p] => ObjectName[c] \in queue'[p],
           worker[p].cur = c /\ Conclusive(worker[p], objects[c]) /\ Present(objects[c]) =>
               \/ worker'[p] = worker[p] \/ ObjectName[c] \in queue'[p] \/ Reached(objects[c])
               \/ worker'[p].cur = c /\ Conclusive(worker'[p], objects[c])
    PROVE  Attended(p, c)'
BY DEF Attended

\* A write of one Cluster queues its name, and nothing becomes of the others.
LEMMA WriteAttended ==
    ASSUME TypeOK, NEW p \in Procs, Attends(p), NEW d, NEW x, Stored(d, x),
           worker'[p] = worker[p] \/ ObjectName[worker[p].cur] = ObjectName[d]
    PROVE  Attends(p)'
<1> SUFFICES ASSUME NEW c \in Clusters PROVE Attended(p, c)'
  BY DEF Attends
<1>1. /\ objects \in [Clusters -> Object] /\ queue \in [Procs -> SUBSET ObjectNames]
      /\ Attended(p, c)
  BY DEF TypeOK, Attends
<1>2. /\ ObjectName[d] \in queue'[p]
      /\ ObjectName[c] \in queue[p] => ObjectName[c] \in queue'[p]
  BY <1>1 DEF Stored
<1>3. CASE ObjectName[c] = ObjectName[d]
  BY <1>2, <1>3 DEF Attended
<1>4. CASE ObjectName[c] # ObjectName[d]
  <2>1. objects'[c] = objects[c]
    BY <1>1, <1>4 DEF Stored
  <2> QED
    BY <1>1, <1>2, <1>4, <2>1, StaysAttended
<1> QED
  BY <1>3, <1>4

\* The passes of all processes.
LEMMA PassAttended ==
    ASSUME TypeOK, OneHolder, profile = "ours", NEW p \in Procs, Attends(p),
           NEW q \in Procs, Pass(q)
    PROVE  Attends(p)'
<1> DEFINE me == worker[q]
<1>1. /\ objects \in [Clusters -> Object] /\ queue \in [Procs -> SUBSET ObjectNames]
      /\ worker \in [Procs -> Worker]
  BY DEF TypeOK
<1>2. me.pc # "idle"
  BY PassShape
<1>3. me.cur \in Clusters
  BY <1>2, InPass
<1>4. \/ \E d : ObjectName[d] = ObjectName[me.cur] /\ \E o, w : Write(q, d, o, w)
      \/ /\ UNCHANGED objects /\ \E w : Step(q, w)
         /\ \/ UNCHANGED queue
            \/ queue' = [queue EXCEPT ![q] = @ \cup {ObjectName[me.cur]}]
  BY PassFrame
<1>5. ASSUME NEW d, ObjectName[d] = ObjectName[me.cur], NEW o, NEW w, Write(q, d, o, w)
      PROVE  Attends(p)'
  <2>1. Stored(d, o)
    BY <1>5 DEF Write
  <2>2. worker'[p] = worker[p] \/ ObjectName[worker[p].cur] = ObjectName[d]
    BY <1>1, <1>5 DEF Write, Overtaken
  <2> QED
    BY <2>1, <2>2, WriteAttended
<1>6. CASE /\ UNCHANGED objects /\ \E w : Step(q, w)
           /\ \/ UNCHANGED queue
              \/ queue' = [queue EXCEPT ![q] = @ \cup {ObjectName[me.cur]}]
  <2> SUFFICES ASSUME NEW c \in Clusters PROVE Attended(p, c)'
    BY DEF Attends
  <2>1. /\ Attended(p, c) /\ objects'[c] = objects[c]
        /\ ObjectName[c] \in queue[p] => ObjectName[c] \in queue'[p]
    BY <1>1, <1>6 DEF Attends
  <2>2. CASE p # q
    <3>1. worker'[p] = worker[p]
      BY <1>1, <1>6, <2>2 DEF Step
    <3> QED
      BY <2>1, <3>1, StaysAttended
  <2>3. CASE p = q
    <3>1. ASSUME worker[p].cur = c, Conclusive(worker[p], objects[c]), Present(objects[c])
          PROVE  Minds(p, c)
      BY <1>2, <2>3, <3>1, PassMinds DEF InCharge
    <3> QED
      BY <2>1, <3>1, StaysAttended DEF Minds
  <2> QED
    BY <2>2, <2>3
<1> QED
  BY <1>4, <1>5, <1>6

\* The workqueue: a request that is taken off it is skipped for good reason, or
\* becomes a pass that is conclusive.
LEMMA DequeueAttended ==
    ASSUME TypeOK, OneHolder, NEW p \in Procs, Attends(p),
           NEW q \in Procs, NEW d \in Clusters, Dequeue(q, d)
    PROVE  Attends(p)'
<1> SUFFICES ASSUME NEW c \in Clusters PROVE Attended(p, c)'
  BY DEF Attends
<1>1. /\ objects \in [Clusters -> Object] /\ queue \in [Procs -> SUBSET ObjectNames]
      /\ worker \in [Procs -> Worker] /\ Attended(p, c)
  BY DEF TypeOK, Attends
<1>2. /\ UNCHANGED objects /\ worker[q].pc = "idle"
      /\ queue' = [queue EXCEPT ![q] = @ \ {ObjectName[d]}]
  BY DEF Dequeue, Skip, Get, At
<1>3. ~Conclusive(worker[q], objects[c])
  BY <1>2 DEF Conclusive
<1>4. CASE p # q \/ ObjectName[c] # ObjectName[d]
  <2>1. ObjectName[c] \in queue[p] => ObjectName[c] \in queue'[p]
    BY <1>1, <1>2, <1>4
  <2>2. worker'[p] = worker[p] \/ p = q
    BY <1>1 DEF Dequeue, Skip, Get, Step
  <2> QED
    BY <1>1, <1>2, <1>3, <2>1, <2>2, StaysAttended
<1>5. CASE p = q /\ ObjectName[c] = ObjectName[d] /\ Skip(q, d)
  BY <1>2, <1>5 DEF Skip, Attended, Holders, PresentClusters
<1>6. CASE p = q /\ c = d /\ Get(q, d)
  <2> DEFINE o == objects[c]
             l == IF o.op = "reconcile" THEN "operation" ELSE "profile"
             v == [IdleWorker EXCEPT !.pc = l, !.cur = c, !.cluster = o, !.old = o.status]
  <2>1. worker'[p] = v
    BY <1>1, <1>6 DEF Get, Step
  <2>2. v.pc = l /\ v.cur = c /\ v.cluster = o /\ v.old = o.status /\ ~v.stale
    BY Zenon DEF IdleWorker
  <2>3. l \in {"operation", "profile"}
    OBVIOUS
  <2> HIDE DEF l, v
  <2>4. Conclusive(v, o)
    BY <2>2, <2>3 DEF Conclusive, Building, Publishing
  <2> QED
    BY <1>2, <2>1, <2>2, <2>4 DEF Attended
<1>7. CASE ObjectName[c] = ObjectName[d] /\ c # d /\ Get(q, d)
  <2>1. ~Present(objects[c])
    BY <1>7 DEF Get, OneHolder, PresentClusters
  <2> QED
    BY <1>2, <2>1 DEF Attended
<1> QED
  BY <1>4, <1>5, <1>6, <1>7 DEF Dequeue

\* Users and other controllers, docker, and a process that is lost.
LEMMA OthersAttended ==
    ASSUME TypeOK, NEW p \in Procs, Attends(p),
           \/ \E c \in Clusters : UserStep(c)
           \/ \E n \in Names : DockerStep(n)
           \/ \E q \in Procs : Crash(q)
           \/ UNCHANGED vars
    PROVE  Attends(p)'
<1>1. /\ objects \in [Clusters -> Object] /\ queue \in [Procs -> SUBSET ObjectNames]
      /\ worker \in [Procs -> Worker]
  BY DEF TypeOK
<1>2. ASSUME NEW c \in Clusters, UserStep(c) PROVE Attends(p)'
  <2>1. PICK x : Edit(c, x)
    BY <1>2 DEF UserStep, CreateObject, DeleteObject, SetOperation,
       AddForeignFinalizer, RemoveForeignFinalizer
  <2>2. Stored(c, x) /\ (worker'[p] = worker[p] \/ worker[p].cur = c)
    BY <2>1 DEF Edit, Overtaken
  <2> QED
    BY <2>2, WriteAttended
<1>3. CASE UNCHANGED <<objects, queue, worker>>
  BY <1>3 DEF Attends, Attended
<1>4. ASSUME NEW q \in Procs, Crash(q) PROVE Attends(p)'
  <2> SUFFICES ASSUME NEW c \in Clusters PROVE Attended(p, c)'
    BY DEF Attends
  <2>1. UNCHANGED objects /\ Attended(p, c)
    BY <1>4 DEF Crash, Attends
  <2>2. CASE p = q
    <3>1. queue'[p] = {ObjectName[d] : d \in PresentClusters}
      BY <1>1, <1>4, <2>2 DEF Crash
    <3> QED
      BY <2>1, <3>1 DEF Attended, PresentClusters
  <2>3. CASE p # q
    <3>1. worker'[p] = worker[p] /\ queue'[p] = queue[p]
      BY <1>1, <1>4, <2>3 DEF Crash, Step
    <3> QED
      BY <2>1, <3>1 DEF Attended
  <2> QED
    BY <2>2, <2>3
<1> QED
  BY <1>2, <1>3, <1>4 DEF DockerStep, vars

\* There is a process, and there are more of them than can miss an event of the
\* ClusterProfile watch: a process that fails to list the Clusters drops it.
SomeoneListens == Procs # {} /\ ("list" \in Faults => MaxFaults < Cardinality(Procs))

\* When the profile comes to name the provider, somebody queues all Clusters.
LEMMA ProfileAttended ==
    ASSUME SomeoneListens, TypeOK, NEW v, SetProfile(v)
    PROVE  \E p \in Procs : Attends(p)'
<1>1. PICK missed \in SUBSET Procs :
          /\ missed # {} => "list" \in Faults
          /\ faults' = faults + Cardinality(missed) /\ faults' <= MaxFaults
          /\ queue' = [p \in Procs |-> IF p \in missed THEN queue[p]
                                       ELSE queue[p] \cup {ObjectName[c] : c \in PresentClusters}]
  BY DEF SetProfile
<1>2. /\ faults \in Nat /\ MaxFaults \in Nat
      /\ Cardinality(Procs) \in Nat
  BY ControllerAssumption, FS_CardinalityType DEF TypeOK
<1>3. missed # Procs
  BY <1>1, <1>2 DEF SomeoneListens
<1>4. PICK p \in Procs : p \notin missed
  BY <1>3
<1>5. UNCHANGED objects /\ \A c \in PresentClusters : ObjectName[c] \in queue'[p]
  BY <1>1, <1>4 DEF SetProfile
<1>6. Attends(p)'
  BY <1>5 DEF Attends, Attended, PresentClusters
<1> QED
  BY <1>6

\* Attendance holds initially.
LEMMA AttendanceInit == Init => Attendance
<1>1. ~Present(NoObject)
  BY Zenon DEF NoObject
<1> QED
  BY <1>1, TypeInit DEF Init, Attendance, OneHolder, PresentClusters

\* A name is only given away when nobody has it.
LEMMA OneHolderStep ==
    ASSUME TypeOK, OneHolder, [Next]_vars
    PROVE  OneHolder'
<1>1. objects \in [Clusters -> Object]
  BY DEF TypeOK
<1>2. CASE UNCHANGED objects
  BY <1>2 DEF OneHolder, PresentClusters
<1>3. ASSUME NEW d \in Clusters, NEW x, Stored(d, x), Present(objects[d]) \/ Holders(d) = {}
      PROVE  OneHolder'
  <2>1. \A c \in Clusters \ {d} : objects'[c] = objects[c]
    BY <1>1, <1>3 DEF Stored
  <2> QED
    BY <1>3, <2>1 DEF OneHolder, PresentClusters, Holders
<1>4. ASSUME NEW q \in Procs, Pass(q) PROVE OneHolder'
  <2>1. UNCHANGED objects \/ \E d \in Holders(worker[q].cur) : \E x : Stored(d, x)
    BY <1>4, PassShape, Zenon DEF Shape, Write
  <2> QED
    BY <1>2, <1>3, <2>1, HolderIs
<1>5. ASSUME NEW c \in Clusters, UserStep(c) PROVE OneHolder'
  BY <1>3, <1>5 DEF UserStep, CreateObject, DeleteObject, SetOperation,
     AddForeignFinalizer, RemoveForeignFinalizer, Edit
<1> QED
  BY <1>2, <1>4, <1>5 DEF Next, Dequeue, Skip, Get, Crash, DockerStep, SetProfile, vars

\* Nothing but SetProfile changes the profile.
LEMMA ProfileFrame ==
    ASSUME TypeOK, [Next]_vars
    PROVE  profile' = profile \/ \E v \in {"absent", "ours", "other"} : SetProfile(v)
<1>1. ASSUME NEW q \in Procs, Pass(q) PROVE profile' = profile
  BY <1>1, PassFrame
<1>2. ASSUME NEW q \in Procs, NEW c \in Clusters, Dequeue(q, c) PROVE profile' = profile
  BY <1>2 DEF Dequeue, Skip, Get
<1>3. ASSUME NEW c \in Clusters, UserStep(c) PROVE profile' = profile
  BY <1>3 DEF UserStep, CreateObject, DeleteObject, SetOperation,
     AddForeignFinalizer, RemoveForeignFinalizer, Edit
<1> QED
  BY <1>1, <1>2, <1>3 DEF Next, Crash, DockerStep, vars

\* Who attends to all Clusters of the provider goes on to do so.
LEMMA GoesOnAttending ==
    ASSUME TypeOK, OneHolder, profile = "ours", profile' = "ours", NEW p \in Procs, Attends(p),
           [Next]_vars
    PROVE  Attends(p)'
<1>1. ASSUME NEW q \in Procs, Pass(q) PROVE Attends(p)'
  BY <1>1, PassAttended
<1>2. ASSUME NEW q \in Procs, NEW c \in Clusters, Dequeue(q, c) PROVE Attends(p)'
  BY <1>2, DequeueAttended
<1>3. ~\E v \in {"absent", "ours", "other"} : SetProfile(v)
  BY DEF SetProfile
<1> QED
  BY <1>1, <1>2, <1>3, OthersAttended DEF Next

\* Attendance is the types, one holder of a name, and somebody who attends.
LEMMA AttendanceParts ==
    Attendance <=> TypeOK /\ OneHolder /\ (profile = "ours" => \E p \in Procs : Attends(p))
BY DEF Attendance, Attends

\* Every step keeps Attendance.
LEMMA AttendanceStep ==
    ASSUME SomeoneListens, Attendance, [Next]_vars
    PROVE  Attendance'
<1>1. TypeOK /\ TypeOK' /\ OneHolder /\ OneHolder'
  BY TypeStep, OneHolderStep DEF Attendance
<1>2. SUFFICES ASSUME profile' = "ours" PROVE \E p \in Procs : Attends(p)'
  BY <1>1 DEF Attendance, Attends
<1>3. CASE profile = "ours"
  BY <1>1, <1>2, <1>3, AttendanceParts, GoesOnAttending
<1>4. CASE profile # "ours"
  BY <1>1, <1>2, <1>4, ProfileFrame, ProfileAttended
<1> QED
  BY <1>3, <1>4

\* When the controller rests, whoever attends to the Clusters finds them settled.
LEMMA AttendanceSettles == Attendance => QuiescentMeansSettled
BY DEF Attendance, Attended, Conclusive, QuiescentMeansSettled, PresentClusters, At

\* However many processes work on the Clusters, one of them has something to do
\* for every Cluster that is not as it should be.
THEOREM AttendanceHolds ==
    ASSUME SomeoneListens
    PROVE  Spec => []Attendance
<1>1. Init => Attendance
  BY AttendanceInit
<1>2. Attendance /\ [Next]_vars => Attendance'
  BY AttendanceStep
<1> QED
  BY <1>1, <1>2, PTL DEF Spec

\* When the controller has nothing left to do, every Cluster of the provider is
\* as it should be, however many processes, crashes, conflicts, lost responses
\* and edits there were.
THEOREM NoWakeupLost ==
    ASSUME SomeoneListens
    PROVE  Spec => []QuiescentMeansSettled
BY AttendanceSettles, AttendanceHolds, PTL
=============================================================================

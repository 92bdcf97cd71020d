-------------------------- MODULE OwnershipProofs --------------------------
(***************************************************************************)
(* With a single provider process, no two Clusters share a slice and every *)
(* container has a Cluster that will clean it up, for every set of         *)
(* Clusters, every range of slices and every number of crashes, faults and *)
(* edits.  The argument is the inductive invariant Ownership.              *)
(***************************************************************************)
EXTENDS ClusterControllerProofs

USE DEF Present

----------------------------------------------------------------------------
(* Names, objects and workers *)

\* Two Clusters never share a k0s cluster name.
LEMMA NamesDiffer ==
    /\ \A c \in Clusters : K0sName(c) \in Names
    /\ \A c, d \in Clusters : K0sName(c) = K0sName(d) => c = d
BY ControllerAssumption, ProviderAssumption DEF K0sName

\* An object vanishes with its last finalizer, and then holds nothing.
LEMMA CollectedFields ==
    ASSUME NEW o \in Object
    PROVE  /\ o.finalizer => Collected(o) = o
           /\ \/ Collected(o) = o
              \/ /\ o.life = "deleting" /\ ~o.finalizer /\ ~o.foreign
                 /\ Collected(o).life = "gone" /\ Collected(o).subnet = NoSubnet
                 /\ ~Collected(o).finalizer /\ ~Collected(o).foreign
BY Zenon DEF Collected, GoneObject, NoObject

\* v is still about the same Cluster and the same object in memory as w, but
\* for its status and how it is displayed.
Kept(v, w) ==
    /\ v.cur = w.cur
    /\ v.cluster.life = w.cluster.life /\ v.cluster.finalizer = w.cluster.finalizer
    /\ v.cluster.foreign = w.cluster.foreign /\ v.cluster.subnet = w.cluster.subnet

\* The ways a step of a pass can end keep the Cluster and the object in memory.
LEMMA WorkerFields ==
    ASSUME NEW w \in Worker
    PROVE  /\ Fail(w).pc = "commit" /\ FailK0s(w).pc = "commit"
           /\ FailMetalLB(w).pc = "commit" /\ MarkReady(w).pc = "commit"
           /\ K0sUp(w).pc = "target" /\ Kept(K0sUp(w), w)
           /\ \A l \in Labels : /\ [w EXCEPT !.pc = l].pc = l
                                /\ Kept([w EXCEPT !.pc = l], w)
           /\ Kept([w EXCEPT !.cluster.status.phase = "Progressing"], w)
           /\ Kept([w EXCEPT !.pc = "publish", !.cluster.status.metallb = "True"], w)
           /\ [w EXCEPT !.pc = "publish", !.cluster.status.metallb = "True"].pc = "publish"
<1>1. w.cluster \in Object
  BY DEF Worker
<1>2. /\ Fail(w).pc = "commit" /\ FailK0s(w).pc = "commit"
      /\ FailMetalLB(w).pc = "commit" /\ MarkReady(w).pc = "commit"
  BY Zenon DEF Fail, FailK0s, FailMetalLB, MarkReady, Worker
<1>3. K0sUp(w).pc = "target" /\ Kept(K0sUp(w), w)
  BY <1>1, Zenon DEF K0sUp, Kept, Worker, Object
<1>4. \A l \in Labels : [w EXCEPT !.pc = l].pc = l /\ Kept([w EXCEPT !.pc = l], w)
  BY Zenon DEF Kept, Worker
<1>5. Kept([w EXCEPT !.cluster.status.phase = "Progressing"], w)
  BY <1>1, Zenon DEF Kept, Worker, Object
<1>6. /\ Kept([w EXCEPT !.pc = "publish", !.cluster.status.metallb = "True"], w)
      /\ [w EXCEPT !.pc = "publish", !.cluster.status.metallb = "True"].pc = "publish"
  BY <1>1, Zenon DEF Kept, Worker, Object
<1> QED
  BY <1>2, <1>3, <1>4, <1>5, <1>6

----------------------------------------------------------------------------
(* What a step may do to the objects and to the containers *)

\* The part of Ownership that is about objects and containers.
Disjoint == OneHolder /\ SubnetsDisjoint /\ ContainersOwned /\ PoolsOwned

\* docker holds something in the name of c that c must clean up.
Holds(c) ==
    LET n == K0sName(c)
    IN  (n \notin Adopted /\ containers[n].state # "absent") \/ containers[n].pool # NoSubnet

\* One object changes: it may be given a slice nobody is annotated with, and
\* may not lose what answers for a container; it appears only under a free name.
LEMMA ObjectChange ==
    ASSUME TypeOK, Disjoint, NEW c \in Clusters, NEW x \in Object,
           objects' = [objects EXCEPT ![c] = x], UNCHANGED containers,
           Present(x) => Present(objects[c]) \/ Holders(c) = {},
           Present(x) => \/ x.subnet = NoSubnet
                         \/ Present(objects[c]) /\ x.subnet = objects[c].subnet
                         \/ x.subnet \notin AssignedSubnets,
           x.subnet # NoSubnet => x.finalizer,
           Holds(c) => /\ Present(x) /\ x.finalizer /\ x.subnet # NoSubnet
                       /\ containers[K0sName(c)].pool \in {NoSubnet, x.subnet},
           ~Present(x) => ~x.finalizer /\ ~x.foreign
    PROVE  Disjoint'
<1>1. objects \in [Clusters -> Object]
  BY DEF TypeOK
<1>2. objects'[c] = x /\ \A d \in Clusters \ {c} : objects'[d] = objects[d]
  BY <1>1
<1>3. SubnetsDisjoint'
  BY <1>2 DEF Disjoint, SubnetsDisjoint, AssignedSubnets, PresentClusters
<1>4. ContainersOwned'
  BY <1>2 DEF Disjoint, ContainersOwned, Holds, ClusterExists
<1>5. PoolsOwned'
  BY <1>2 DEF Disjoint, PoolsOwned
<1>6. OneHolder'
  BY <1>2 DEF Disjoint, OneHolder, PresentClusters, Holders
<1> QED
  BY <1>3, <1>4, <1>5, <1>6 DEF Disjoint

\* One container changes: it may not appear, nor get a pool, without a Cluster
\* that answers for it.
LEMMA ContainerChange ==
    ASSUME TypeOK, Disjoint, NEW c \in Clusters, NEW x \in Container,
           containers' = [containers EXCEPT ![K0sName(c)] = x], UNCHANGED objects,
           \/ x.state # "absent" /\ x.pool = containers[K0sName(c)].pool /\ Holds(c)
           \/ x.state = "absent" /\ x.pool = NoSubnet
           \/ /\ Present(objects[c]) /\ objects[c].finalizer
              /\ objects[c].subnet # NoSubnet
              /\ x.state # "absent" /\ x.pool \in {NoSubnet, objects[c].subnet}
    PROVE  Disjoint'
<1> DEFINE n == K0sName(c)
<1>1. containers \in [Names -> Container] /\ n \in Names
  BY NamesDiffer DEF TypeOK, ProviderTypeOK
<1>2. containers'[n] = x /\ \A m \in Names \ {n} : containers'[m] = containers[m]
  BY <1>1
<1>3. \A d \in Clusters \ {c} : K0sName(d) \in Names \ {n}
  BY NamesDiffer
<1>4. SubnetsDisjoint' /\ OneHolder'
  BY DEF Disjoint, SubnetsDisjoint, OneHolder, PresentClusters
<1>5. ContainersOwned'
  <2> SUFFICES ASSUME NEW d \in Clusters, Holds(d)'
               PROVE  /\ Present(objects[d]) /\ objects[d].finalizer
                      /\ objects[d].subnet # NoSubnet
                      /\ containers'[K0sName(d)].pool \in {NoSubnet, objects[d].subnet}
    BY DEF ContainersOwned, Holds, ClusterExists
  <2>1. CASE d = c
    BY <1>2, <2>1 DEF Disjoint, ContainersOwned, Holds, ClusterExists
  <2>2. CASE d # c
    BY <1>2, <1>3, <2>2 DEF Disjoint, ContainersOwned, Holds, ClusterExists
  <2> QED
    BY <2>1, <2>2
<1>6. PoolsOwned'
  BY <1>1, <1>2 DEF Disjoint, PoolsOwned, Holds
<1> QED
  BY <1>4, <1>5, <1>6 DEF Disjoint

\* Nothing changes.
LEMMA NoChange == ASSUME Disjoint, UNCHANGED <<objects, containers>> PROVE Disjoint'
BY DEF Disjoint, OneHolder, SubnetsDisjoint, PresentClusters, ContainersOwned, PoolsOwned,
       ClusterExists

\* docker and k0s do not create, remove or configure on their own.
LEMMA DockerChange ==
    ASSUME TypeOK, Disjoint, NEW n \in Names, Boot(n) \/ MetalLBPodsReady(n) \/
           ContainerStart(n) \/ InstallMetalLB(n), UNCHANGED objects
    PROVE  /\ Disjoint'
           /\ \A m \in Names : (containers'[m].state = "absent") <=> (containers[m].state = "absent")
<1>1. containers \in [Names -> Container]
  BY DEF TypeOK, ProviderTypeOK
<1>2. \A m \in Names :
          /\ containers'[m].pool = containers[m].pool
          /\ (containers'[m].state = "absent") <=> (containers[m].state = "absent")
  BY <1>1, SMT DEF Boot, MetalLBPodsReady, ContainerStart, InstallMetalLB, Answers, Container
<1>3. SubnetsDisjoint' /\ OneHolder'
  BY DEF Disjoint, SubnetsDisjoint, OneHolder, PresentClusters
<1>4. ContainersOwned'
  BY <1>2, NamesDiffer DEF Disjoint, ContainersOwned, ClusterExists
<1>5. PoolsOwned'
  BY <1>2 DEF Disjoint, PoolsOwned
<1> QED
  BY <1>2, <1>3, <1>4, <1>5 DEF Disjoint

----------------------------------------------------------------------------
(* What a step may do to what the passes know *)

\* Ownership is what holds of objects and containers, and what the passes know.
LEMMA OwnershipParts ==
    Ownership <=> TypeOK /\ Disjoint /\ \A p \in Procs : PassKnows(p)
BY DEF Ownership, Disjoint

\* A pass that builds does so for a Cluster that is there, holds the finalizer
\* and is annotated with the slice the pass has in memory.
LEMMA Builds ==
    ASSUME Ownership, NEW p \in Procs, worker[p].pc \in Building
    PROVE  LET o == objects[worker[p].cur]
           IN  /\ worker[p].cur \in Clusters
               /\ Present(o) /\ o.finalizer /\ o.subnet # NoSubnet
               /\ worker[p].cluster.subnet = o.subnet
<1>1. worker[p].pc \notin {"idle", "commit", "assign"}
  BY DEF Building
<1>2. worker[p].cur \in Clusters /\ PassKnows(p) /\ worker[p].pc \in Owning
  BY <1>1 DEF Ownership, TypeOK, Owning
<1>3. worker[p].cluster.finalizer
  BY <1>1, <1>2 DEF PassKnows
<1> DEFINE o == objects[worker[p].cur]
<1>4. Present(o) /\ o.finalizer
  BY <1>1, <1>2, <1>3 DEF PassKnows
<1>5. worker[p].cluster.subnet = o.subnet \/ o.life = "gone"
  BY <1>1, <1>2 DEF PassKnows
<1>6. worker[p].cluster.subnet # NoSubnet
  BY <1>1, <1>2 DEF PassKnows
<1>7. worker[p].cluster.subnet = o.subnet
  BY <1>4, <1>5
<1> QED
  BY <1>2, <1>4, <1>6, <1>7, Zenon

\* A pass ends, or goes on with what it had in memory.
LEMMA PassMoves ==
    ASSUME Ownership, SingleProcess, NEW p \in Procs, NEW v, Step(p, v), UNCHANGED objects,
           \/ v.pc \in {"idle", "commit"}
           \/ /\ Kept(v, worker[p])
              /\ worker[p].pc \notin {"idle", "commit", "assign"}
              /\ v.pc \notin {"assign", "operation"}
              /\ v.pc = "pick" => worker[p].pc = "pick"
              /\ v.pc \in Building => worker[p].pc \in Building
              /\ v.pc \in Removing => worker[p].pc \in Removing
              /\ v.pc \in Owning => worker[p].pc \in Owning
              /\ v.pc = "removeFinalizer" => ~ClusterExists(K0sName(v.cur))'
    PROVE  \A q \in Procs : PassKnows(q)'
<1> SUFFICES PassKnows(p)'
  BY DEF SingleProcess
<1>1. worker'[p] = v
  BY DEF Step, Ownership, TypeOK
<1>2. CASE v.pc \in {"idle", "commit"}
  BY <1>1, <1>2 DEF PassKnows
<1>3. CASE v.pc \notin {"idle", "commit"}
  <2>1. PassKnows(p)
    BY DEF Ownership
  <2> QED
    BY <1>1, <1>3, <2>1 DEF PassKnows, Kept, ClusterExists
<1> QED
  BY <1>2, <1>3

\* Somebody else changes an object: a finalizer that is there stays, a deletion
\* is final, and no slice is given or exchanged.
LEMMA PassSurvives ==
    ASSUME Ownership, NEW p \in Procs, NEW c \in Clusters, NEW x \in Object,
           objects' = [objects EXCEPT ![c] = x], UNCHANGED containers,
           worker'[p].pc = worker[p].pc, Kept(worker'[p], worker[p]),
           objects[c].finalizer /\ Present(objects[c]) => Present(x) /\ x.finalizer,
           x.finalizer /\ Present(x) => Present(objects[c]) /\ objects[c].finalizer,
           objects[c].life \in {"deleting", "gone"} =>
               x.life \in {"deleting", "gone"} /\ (x.foreign => objects[c].foreign),
           objects[c].life = "gone" => x.life = "gone",
           x.subnet = objects[c].subnet \/ (x.life = "gone" /\ x.subnet = NoSubnet),
           Present(x) => Present(objects[c]) \/ x.subnet = NoSubnet
    PROVE  PassKnows(p)'
<1>1. /\ objects \in [Clusters -> Object]
      /\ worker[p].pc \notin {"idle", "commit"} => worker[p].cur \in Clusters
  BY DEF Ownership, TypeOK
<1>2. objects'[c] = x /\ \A d \in Clusters \ {c} : objects'[d] = objects[d]
  BY <1>1
<1>3. AssignedSubnets' \subseteq AssignedSubnets \cup {NoSubnet}
  <2> SUFFICES ASSUME NEW d \in Clusters, Present(objects'[d])
               PROVE  objects'[d].subnet \in AssignedSubnets \cup {NoSubnet}
    BY DEF AssignedSubnets, PresentClusters
  <2>1. CASE d = c
    BY <1>2, <2>1 DEF AssignedSubnets, PresentClusters
  <2>2. CASE d # c
    BY <1>2, <2>2 DEF AssignedSubnets, PresentClusters
  <2> QED
    BY <2>1, <2>2
<1>4. NoSubnet \notin Slices
  BY SliceAssumption DEF NoSubnet, Slices
<1>5. PassKnows(p)
  BY DEF Ownership
<1>6. SUFFICES ASSUME worker[p].pc \notin {"idle", "commit"} PROVE PassKnows(p)'
  BY DEF PassKnows
<1> DEFINE me == worker[p]
           you == worker'[p]
           o == objects[me.cur]
           x1 == objects'[me.cur]
<1>7. /\ me.cur \in Clusters /\ o \in Object /\ you.pc = me.pc /\ you.cur = me.cur
      /\ you.cluster.life = me.cluster.life
      /\ you.cluster.finalizer = me.cluster.finalizer
      /\ you.cluster.foreign = me.cluster.foreign
      /\ you.cluster.subnet = me.cluster.subnet
  BY <1>1, <1>6 DEF Kept
<1>8. x1 = o \/ (c = me.cur /\ x1 = x /\ o = objects[c])
  BY <1>2, <1>7
<1>9. /\ o.finalizer /\ Present(o) => Present(x1) /\ x1.finalizer
      /\ o.life \in {"deleting", "gone"} =>
             x1.life \in {"deleting", "gone"} /\ (x1.foreign => o.foreign)
      /\ o.life = "gone" => x1.life = "gone"
      /\ x1.subnet = o.subnet \/ (x1.life = "gone" /\ x1.subnet = NoSubnet)
  BY <1>8
<1> HIDE DEF me, you, o, x1
<1>10. me.cluster.finalizer => Present(x1) /\ x1.finalizer
  BY <1>5, <1>6, <1>9 DEF PassKnows, me, o
<1>11. me.cluster.finalizer /\ me.cluster.life = "deleting" => x1.life = "deleting"
  BY <1>5, <1>6, <1>9, <1>10 DEF PassKnows, me, o
<1>12. me.cluster.finalizer /\ me.cluster.life = "deleting" /\ ~me.cluster.foreign =>
           ~x1.foreign
  BY <1>5, <1>6, <1>9 DEF PassKnows, me, o
<1>13. me.pc # "assign" => me.cluster.subnet = x1.subnet \/ x1.life = "gone"
  BY <1>5, <1>6, <1>9 DEF PassKnows, me, o
<1>14. me.pc = "assign" => /\ x1.subnet = NoSubnet
                           /\ me.cluster.subnet \in Slices \ AssignedSubnets'
  <2>1. me.pc = "assign" => /\ o.subnet = NoSubnet
                            /\ me.cluster.subnet \in Slices
                            /\ me.cluster.subnet \notin AssignedSubnets
    BY <1>5, <1>6 DEF PassKnows, me, o
  <2> QED
    BY <1>3, <1>4, <1>9, <2>1
<1>15. /\ me.pc \in Owning => me.cluster.finalizer
       /\ me.cluster.subnet # NoSubnet => me.cluster.finalizer
       /\ me.pc = "pick" => me.cluster.subnet = NoSubnet
       /\ me.pc \in Building => me.cluster.subnet # NoSubnet
       /\ me.pc \in Removing => me.cluster.life = "deleting" /\ ~me.cluster.foreign
  BY <1>5, <1>6 DEF PassKnows, me, o
<1>16. me.pc = "removeFinalizer" => ~ClusterExists(K0sName(me.cur))
  BY <1>5, <1>6 DEF PassKnows, me
<1>17. \A n : ClusterExists(n)' <=> ClusterExists(n)
  BY DEF ClusterExists
<1>18. ASSUME me.pc = "operation", ~me.cluster.finalizer, NEW d \in Clusters,
              Present(objects'[d]), ObjectName[d] = ObjectName[me.cur]
       PROVE  ~objects'[d].finalizer
  <2>1. Present(objects[d]) => ~objects[d].finalizer
    BY <1>5, <1>6, <1>18 DEF PassKnows, Holders, PresentClusters, me
  <2>2. CASE d = c
    BY <1>2, <1>18, <2>1, <2>2
  <2>3. CASE d # c
    BY <1>2, <1>18, <2>1, <2>3
  <2> QED
    BY <2>2, <2>3
<1>19. \A d \in Holders(me.cur)' : /\ d \in Clusters /\ Present(objects'[d])
                                   /\ ObjectName[d] = ObjectName[you.cur]
  BY DEF Holders, PresentClusters, me, you
<1>20. me.pc = "operation" /\ ~me.cluster.finalizer =>
           \A d \in Holders(me.cur)' : ~objects'[d].finalizer
  BY <1>7, <1>18, <1>19
<1> DEFINE K(w, y) ==
        /\ w.cluster.finalizer => Present(y) /\ y.finalizer
        /\ w.cluster.finalizer /\ w.cluster.life = "deleting" =>
               y.life = "deleting" /\ (~w.cluster.foreign => ~y.foreign)
        /\ w.cluster.subnet # NoSubnet => w.cluster.finalizer
        /\ w.pc # "assign" => w.cluster.subnet = y.subnet \/ y.life = "gone"
        /\ w.pc = "pick" => w.cluster.subnet = NoSubnet
        /\ w.pc = "assign" => y.subnet = NoSubnet /\ w.cluster.subnet \in Slices \ AssignedSubnets'
        /\ w.pc \in Owning => w.cluster.finalizer
        /\ w.pc \in Building => w.cluster.subnet # NoSubnet
        /\ w.pc \in Removing => w.cluster.life = "deleting" /\ ~w.cluster.foreign
        /\ w.pc = "removeFinalizer" => containers'[K0sName(w.cur)].state = "absent"
<1>21. K(you, x1)
  BY <1>7, <1>10, <1>11, <1>12, <1>13, <1>14, <1>15, <1>16, <1>17 DEF ClusterExists
<1>22. you.pc = "operation" /\ ~you.cluster.finalizer =>
           \A d \in Holders(me.cur)' : ~objects'[d].finalizer
  BY <1>7, <1>20
<1> HIDE DEF K
<1> QED
  BY <1>7, <1>21, <1>22 DEF PassKnows, K, ClusterExists, me, you, x1

\* Nothing a pass knows about changes, except that docker is at work.
LEMMA NothingSeen ==
    ASSUME Ownership, NEW p \in Procs, UNCHANGED <<objects, worker>>,
           \A n \in Names : (containers'[n].state = "absent") <=> (containers[n].state = "absent")
    PROVE  PassKnows(p)'
<1>1. PassKnows(p) /\ (worker[p].pc \notin {"idle", "commit"} => worker[p].cur \in Clusters)
  BY DEF Ownership, TypeOK
<1>2. AssignedSubnets' = AssignedSubnets /\ \A c : Holders(c)' = Holders(c)
  BY DEF AssignedSubnets, Holders, PresentClusters
<1>3. \A c \in Clusters : ClusterExists(K0sName(c))' <=> ClusterExists(K0sName(c))
  BY NamesDiffer DEF ClusterExists
<1> QED
  BY <1>1, <1>2, <1>3 DEF PassKnows

----------------------------------------------------------------------------
(* The steps of a pass that leave the objects and the containers alone *)

\* Where run goes from what it reads.
LEMMA BeginFields ==
    ASSUME NEW w \in Worker
    PROVE  /\ Kept(Begin(w), w)
           /\ Begin(w).pc \in {"lookup", "commit", "addFinalizer", "pick", "exists"}
           /\ Begin(w).pc = "lookup" => /\ w.cluster.life = "deleting"
                                        /\ w.cluster.finalizer /\ ~w.cluster.foreign
           /\ Begin(w).pc = "pick" => w.cluster.finalizer /\ w.cluster.subnet = NoSubnet
           /\ Begin(w).pc = "exists" => w.cluster.finalizer /\ w.cluster.subnet # NoSubnet
<1>1. w.cluster \in Object
  BY DEF Worker
<1>2. \A l \in Labels, ag \in BOOLEAN :
         LET d == [w EXCEPT !.cluster.status.phase = "Terminating"]
             u == [d EXCEPT !.pc = l]
             v == [d EXCEPT !.pc = l, !.again = ag]
         IN  Kept(u, w) /\ u.pc = l /\ Kept(v, w) /\ v.pc = l
  BY <1>1, Zenon DEF Kept, Worker, Object
<1>3. \A l \in Labels : [w EXCEPT !.pc = l].pc = l /\ Kept([w EXCEPT !.pc = l], w)
  BY WorkerFields
<1>4. {"lookup", "commit", "addFinalizer", "pick", "exists"} \subseteq Labels
  BY DEF Labels
<1>5. w.cluster.finalizer \in BOOLEAN
  BY <1>1 DEF Object
<1> QED
  BY <1>2, <1>3, <1>4, <1>5 DEF Begin

Proved == Disjoint' /\ \A q \in Procs : PassKnows(q)'

\* A pass that goes on where it is, with the object as it has it in memory.
LEMMA PassGoesOn ==
    ASSUME Ownership, SingleProcess, NEW p \in Procs, UNCHANGED <<objects, containers>>,
           worker[p].pc \notin {"idle", "assign"},
           NEW v \in Worker, Step(p, v),
           \/ v.pc \in {"idle", "commit"}
           \/ /\ Kept(v, worker[p])
              /\ worker[p].pc # "commit"
              /\ \/ v.pc \in Building /\ worker[p].pc \in Building
                 \/ /\ v.pc \in {"remove", "removeFinalizer"}
                    /\ worker[p].pc \in {"lookup", "remove"}
                    /\ v.pc = "removeFinalizer" => ~ClusterExists(K0sName(worker[p].cur))
    PROVE  Proved
<1>1. Disjoint'
  BY NoChange, OwnershipParts
<1>2. \A q \in Procs : PassKnows(q)'
  <2>1. CASE v.pc \in {"idle", "commit"}
    BY <2>1, PassMoves
  <2>2. CASE v.pc \notin {"idle", "commit"}
    <3>1. v.pc # "removeFinalizer" \/ ~ClusterExists(K0sName(v.cur))'
      BY <2>2 DEF Building, Kept, ClusterExists
    <3> QED
      BY <2>2, <3>1, PassMoves DEF Building, Removing, Owning
  <2> QED
    BY <2>1, <2>2
<1> QED
  BY <1>1, <1>2 DEF Proved

\* run starts: what it concludes from the object in memory is so.
LEMMA ResponsibleStep ==
    ASSUME Ownership, SingleProcess, NEW p \in Procs, Responsible(p)
    PROVE  Proved
<1> DEFINE me == worker[p]
<1>1. me.pc = "profile" /\ me \in Worker /\ UNCHANGED <<objects, containers>>
  BY DEF Responsible, At, Ownership, TypeOK, dockerVars
<1>2. CASE Step(p, IdleWorker)
  BY <1>1, <1>2, ObjectTypes, PassGoesOn DEF IdleWorker
<1>3. CASE Step(p, Begin(me))
  <2>1. worker'[p] = Begin(me)
    BY <1>3 DEF Step, Ownership, TypeOK
  <2>2. PassKnows(p) /\ me.cur \in Clusters
    BY <1>1 DEF Ownership, TypeOK
  <2>3. \A n : ClusterExists(n)' <=> ClusterExists(n)
    BY <1>1 DEF ClusterExists
  <2>4. PassKnows(p)'
    BY <1>1, <2>1, <2>2, BeginFields
       DEF PassKnows, Kept, Owning, Building, Removing
  <2>5. \A q \in Procs : PassKnows(q)'
    BY <2>4 DEF SingleProcess
  <2> QED
    BY <1>1, <2>5, NoChange, OwnershipParts DEF Proved
<1> QED
  BY <1>2, <1>3 DEF Responsible, Abort

\* The slice that is picked is nobody's.
LEMMA PickStep ==
    ASSUME Ownership, SingleProcess, NEW p \in Procs, PickSubnet(p)
    PROVE  Proved
<1> DEFINE me == worker[p]
<1>1. me.pc = "pick" /\ me \in Worker /\ UNCHANGED <<objects, containers>>
  BY DEF PickSubnet, At, Ownership, TypeOK, dockerVars
<1>2. me.cur \in Clusters /\ me.cluster \in Object
  BY <1>1 DEF Ownership, TypeOK, Worker
<1>3. CASE Step(p, Fail(me))
  BY <1>1, <1>2, <1>3, WorkerFields, WorkerOperators, PassGoesOn DEF Sane
<1>4. ASSUME NEW s \in Slices, s \notin AssignedSubnets,
             Step(p, [me EXCEPT !.pc = "assign", !.cluster.subnet = s])
      PROVE  Proved
  <2> DEFINE v == [me EXCEPT !.pc = "assign", !.cluster.subnet = s]
  <2>1. worker'[p] = v
    BY <1>4 DEF Step, Ownership, TypeOK
  <2>2. /\ v.pc = "assign" /\ v.cur = me.cur /\ v.cluster.subnet = s
        /\ v.cluster.life = me.cluster.life
        /\ v.cluster.finalizer = me.cluster.finalizer
        /\ v.cluster.foreign = me.cluster.foreign
    BY <1>1, <1>2, Zenon DEF Worker, Object
  <2> HIDE DEF v
  <2>3. /\ me.cluster.finalizer /\ me.cluster.subnet = NoSubnet
        /\ me.cluster.subnet = objects[me.cur].subnet \/ objects[me.cur].life = "gone"
        /\ Present(objects[me.cur]) /\ objects[me.cur].finalizer
        /\ me.cluster.life = "deleting" =>
               /\ objects[me.cur].life = "deleting"
               /\ ~me.cluster.foreign => ~objects[me.cur].foreign
    BY <1>1 DEF Ownership, PassKnows, Owning
  <2>4. AssignedSubnets' = AssignedSubnets
    BY <1>1 DEF AssignedSubnets, PresentClusters
  <2>5. PassKnows(p)'
    BY <1>1, <1>4, <2>1, <2>2, <2>3, <2>4 DEF PassKnows, Building, Removing
  <2>6. \A q \in Procs : PassKnows(q)'
    BY <2>5 DEF SingleProcess
  <2> QED
    BY <1>1, <2>6, NoChange, OwnershipParts DEF Proved
<1> QED
  BY <1>3, <1>4 DEF PickSubnet, NextAvailableLBNetwork, FreeSlices

\* The other steps of a pass that ask docker or k0s without telling them anything.
LEMMA LocalSteps ==
    ASSUME Ownership, SingleProcess, NEW p \in Procs,
           \/ EnsureK0sCluster(p) \/ Prepare(p) \/ WaitReady(p)
           \/ TargetClient(p) \/ PodsReady(p) \/ PublishAccess(p) \/ LookupContainer(p)
    PROVE  Proved
<1> DEFINE me == worker[p]
           started == [me EXCEPT !.cluster.status.phase = "Progressing"]
           provided == [me EXCEPT !.cluster.status.provider = TRUE]
           published == [provided EXCEPT !.cluster.status.endpoints = TRUE]
<1>1. /\ me.pc \in {"exists", "prepare", "wait", "target", "podsReady", "publish", "lookup"}
      /\ UNCHANGED <<objects, containers>>
  BY DEF EnsureK0sCluster, Prepare, WaitReady, TargetClient, PodsReady, PublishAccess,
         LookupContainer, At, platformVars, dockerVars
<1>2. me \in Worker /\ me.cur \in Clusters /\ me.cluster \in Object
  BY <1>1 DEF Ownership, TypeOK, Worker
<1>3. /\ started \in Worker /\ started.cur \in Clusters /\ Kept(started, me)
      /\ provided \in Worker /\ provided.cur \in Clusters
      /\ published \in Worker /\ published.cur \in Clusters /\ Kept(published, me)
  BY <1>2, Zenon DEF Worker, Object, Status, Phases, Kept
<1> HIDE DEF started, provided, published
<1>4. ASSUME NEW w \in Worker, w.cur \in Clusters,
             \/ Step(p, Fail(w)) \/ Step(p, FailK0s(w)) \/ Step(p, FailMetalLB(w))
             \/ Step(p, MarkReady(w))
      PROVE  Proved
  BY <1>1, <1>4, WorkerFields, WorkerOperators, PassGoesOn DEF Sane
<1>5. ASSUME NEW w \in Worker, w.cur \in Clusters, Kept(w, me), me.pc \in Building,
             NEW l \in Building, Step(p, [w EXCEPT !.pc = l]) \/ (Step(p, K0sUp(w)) /\ l = "target")
      PROVE  Proved
  <2>1. l \in Labels
    BY DEF Building, Labels
  <2>2. \A v : Kept(v, w) => Kept(v, me)
    BY <1>5 DEF Kept
  <2>3. /\ [w EXCEPT !.pc = l].pc = l /\ Kept([w EXCEPT !.pc = l], w)
        /\ K0sUp(w).pc = "target" /\ Kept(K0sUp(w), w)
    BY <1>5, <2>1, WorkerFields
  <2>4. [w EXCEPT !.pc = l] \in Worker /\ K0sUp(w) \in Worker
    BY <1>5, <2>1, WorkerOperators DEF Sane
  <2>5. \E v \in Worker : Step(p, v) /\ v.pc = l /\ Kept(v, me)
    BY <1>5, <2>2, <2>3, <2>4
  <2> QED
    BY <1>1, <1>5, <2>5, PassGoesOn
<1>6. /\ Kept(me, me)
      /\ {"prepare", "create", "target", "install", "configure", "display"} \subseteq Building
  BY DEF Kept, Building
<1>7. CASE EnsureK0sCluster(p)
  BY <1>2, <1>3, <1>4, <1>5, <1>6, <1>7 DEF EnsureK0sCluster, At, Building, started
<1>8. CASE Prepare(p)
  BY <1>2, <1>4, <1>5, <1>6, <1>8 DEF Prepare, At, Building
<1>9. CASE WaitReady(p)
  BY <1>2, <1>4, <1>5, <1>6, <1>9 DEF WaitReady, At, Building
<1>10. CASE TargetClient(p)
  BY <1>2, <1>4, <1>5, <1>6, <1>10 DEF TargetClient, At, Building
<1>11. CASE PodsReady(p)
  BY <1>2, <1>4, <1>5, <1>6, <1>11 DEF PodsReady, At, Building
<1>12. CASE PublishAccess(p)
  <2>1. me.pc \in Building
    BY <1>12 DEF PublishAccess, At, Building
  <2>2. \/ Step(p, MarkReady(published)) \/ Step(p, [published EXCEPT !.pc = "display"])
        \/ Step(p, Fail(provided)) \/ Step(p, Fail(published))
    BY <1>12, Zenon DEF PublishAccess, provided, published
  <2> QED
    BY <1>3, <1>4, <1>5, <1>6, <2>1, <2>2
<1>13. CASE LookupContainer(p)
  <2>1. me.pc = "lookup"
    BY <1>13 DEF LookupContainer, At
  <2>2. CASE Step(p, Fail(me))
    BY <1>2, <1>4, <2>2
  <2>3. CASE ~Step(p, Fail(me))
    <3> DEFINE l == IF ClusterExists(K0sName(me.cur)) THEN "remove" ELSE "removeFinalizer"
               v == [me EXCEPT !.pc = l]
    <3>1. l \in Labels /\ (l = "removeFinalizer" => ~ClusterExists(K0sName(me.cur)))
          /\ l \in {"remove", "removeFinalizer"}
      BY DEF Labels
    <3>2. Step(p, v)
      BY <1>13, <2>3 DEF LookupContainer
    <3> HIDE DEF l
    <3>3. v \in Worker /\ v.pc = l /\ Kept(v, me)
      BY <1>2, <3>1, WorkerFields, WorkerOperators DEF Sane
    <3> QED
      BY <1>1, <2>1, <3>1, <3>2, <3>3, PassGoesOn
  <2> QED
    BY <2>2, <2>3
<1> QED
  BY <1>7, <1>8, <1>9, <1>10, <1>11, <1>12, <1>13

----------------------------------------------------------------------------
(* The steps of a pass that change a container *)

\* The docker and k0s calls of a pass that builds: the container is created,
\* started or configured for a Cluster that answers for it.
LEMMA BuildingSteps ==
    ASSUME Ownership, SingleProcess, NEW p \in Procs,
           CreateContainer(p) \/ StartContainer(p) \/ Install(p) \/ ConfigureMetalLB(p)
    PROVE  Proved
<1> DEFINE me == worker[p]
           c == me.cur
           n == K0sName(c)
           configured == [me EXCEPT !.pc = "publish", !.cluster.status.metallb = "True"]
<1>1. me.pc \in {"create", "start", "install", "configure"} /\ UNCHANGED objects
  BY DEF CreateContainer, StartContainer, Install, ConfigureMetalLB, At, platformVars
<1>2. /\ me \in Worker /\ c \in Clusters /\ n \in Names
      /\ containers \in [Names -> Container]
      /\ TypeOK /\ Disjoint
  BY <1>1, NamesDiffer, OwnershipParts DEF Ownership, TypeOK, ProviderTypeOK
<1>3. LET o == objects[c]
      IN  /\ Present(o) /\ o.finalizer /\ o.subnet # NoSubnet
          /\ me.cluster.subnet = o.subnet
  BY <1>1, Builds DEF Building
<1>4. configured \in Worker /\ configured.pc = "publish" /\ Kept(configured, me)
  <2>1. configured \in Worker
    BY <1>2, Zenon DEF Worker, Object, Status, ConditionStatus, Labels
  <2>2. configured.pc = "publish" /\ Kept(configured, me)
    BY <1>2, WorkerFields
  <2> QED
    BY <2>1, <2>2
<1> HIDE DEF configured
<1>5. \E v \in Worker : /\ Step(p, v)
                        /\ \/ v.pc = "commit"
                           \/ /\ v.pc \in {"start", "wait", "podsReady", "publish"}
                              /\ Kept(v, me)
  <2>1. /\ Fail(me) \in Worker /\ FailK0s(me) \in Worker /\ FailMetalLB(me) \in Worker
        /\ Fail(me).pc = "commit" /\ FailK0s(me).pc = "commit"
        /\ FailMetalLB(me).pc = "commit"
    BY <1>2, WorkerOperators, WorkerFields DEF Sane
  <2>2. \A l \in {"start", "wait", "podsReady"} :
            /\ [me EXCEPT !.pc = l] \in Worker /\ [me EXCEPT !.pc = l].pc = l
            /\ Kept([me EXCEPT !.pc = l], me)
    <3>1. {"start", "wait", "podsReady"} \subseteq Labels
      BY DEF Labels
    <3>2. /\ \A l \in Labels : Sane([me EXCEPT !.pc = l])
          /\ \A l \in Labels : [me EXCEPT !.pc = l].pc = l /\ Kept([me EXCEPT !.pc = l], me)
      BY <1>2, WorkerOperators, WorkerFields
    <3> QED
      BY <3>1, <3>2 DEF Sane
  <2>3. CASE CreateContainer(p)
    BY <2>1, <2>2, <2>3 DEF CreateContainer
  <2>4. CASE StartContainer(p)
    BY <2>1, <2>2, <2>4 DEF StartContainer
  <2>5. CASE Install(p)
    BY <2>1, <2>2, <2>5 DEF Install
  <2>6. CASE ConfigureMetalLB(p)
    BY <1>4, <2>1, <2>6 DEF ConfigureMetalLB, configured
  <2> QED
    BY <2>3, <2>4, <2>5, <2>6
<1>6. \A q \in Procs : PassKnows(q)'
  BY <1>1, <1>5, PassMoves DEF Building, Removing, Owning
<1>7. Disjoint'
  <2>1. CASE UNCHANGED containers
    BY <1>1, <1>2, <2>1, NoChange
  <2>2. CASE ContainerStart(n) \/ InstallMetalLB(n)
    BY <1>1, <1>2, <2>2, DockerChange
  <2>3. CASE ContainerCreate(n)
    <3> DEFINE x == [containers[n] EXCEPT !.state = "created"]
    <3>1. containers' = [containers EXCEPT ![n] = x] /\ containers[n].state = "absent"
      BY <2>3 DEF ContainerCreate, ClusterExists
    <3>2. x \in Container /\ x.state # "absent" /\ x.pool = containers[n].pool
      BY <1>2, Zenon DEF Container
    <3>3. containers[n].pool = NoSubnet
      BY <1>2, <3>1 DEF Disjoint, PoolsOwned
    <3> HIDE DEF x
    <3> QED
      BY <1>1, <1>2, <1>3, <3>1, <3>2, <3>3, ContainerChange
  <2>4. CASE ConfigureSubnet(n, me.cluster.subnet)
    <3> DEFINE x == [containers[n] EXCEPT !.pool = me.cluster.subnet]
    <3>1. containers' = [containers EXCEPT ![n] = x] /\ containers[n].state = "ready"
      BY <2>4 DEF ConfigureSubnet, Answers
    <3>2. x.state = containers[n].state /\ x.pool = objects[c].subnet
      BY <1>2, <1>3, Zenon DEF Container
    <3>3. me.cluster.subnet \in Slices \cup {NoSubnet}
      BY <1>2 DEF Worker, Object
    <3>4. x \in Container
      BY <1>2, <3>3, Zenon DEF Container
    <3> HIDE DEF x
    <3> QED
      BY <1>1, <1>2, <1>3, <3>1, <3>2, <3>4, ContainerChange
  <2> QED
    BY <2>1, <2>2, <2>3, <2>4
       DEF CreateContainer, StartContainer, Install, ConfigureMetalLB
<1> QED
  BY <1>6, <1>7 DEF Proved

\* A container that was removed has no pool, and only this worker creates one.
LEMMA RemovingStep ==
    ASSUME Ownership, SingleProcess, NEW p \in Procs, RemoveContainer(p)
    PROVE  Proved
<1> DEFINE me == worker[p]
           n == K0sName(me.cur)
           v == [me EXCEPT !.pc = "removeFinalizer"]
<1>1. me.pc = "remove" /\ UNCHANGED objects
  BY DEF RemoveContainer, At, platformVars
<1>2. /\ me \in Worker /\ me.cur \in Clusters /\ n \in Names
      /\ containers \in [Names -> Container]
      /\ TypeOK /\ Disjoint
  BY <1>1, NamesDiffer, OwnershipParts DEF Ownership, TypeOK, ProviderTypeOK
<1>3. NoContainer \in Container /\ NoContainer.state = "absent" /\ NoContainer.pool = NoSubnet
  BY Zenon DEF NoContainer, Container
<1>4. Disjoint'
  <2>1. CASE UNCHANGED containers
    BY <1>1, <1>2, <2>1, NoChange
  <2>2. CASE DeleteCluster(n)
    BY <1>1, <1>2, <1>3, <2>2, ContainerChange DEF DeleteCluster
  <2> QED
    BY <2>1, <2>2 DEF RemoveContainer
<1>5. Fail(me).pc = "commit"
  BY <1>2, WorkerFields
<1>6. v.pc = "removeFinalizer" /\ Kept(v, me)
  BY <1>2, WorkerFields DEF Labels
<1> HIDE DEF v
<1>7. CASE DeleteCluster(n) /\ Step(p, v)
  <2>1. containers'[n] = NoContainer
    BY <1>2, <1>7 DEF DeleteCluster
  <2>2. PICK w : w = v
    OBVIOUS
  <2>3. ~ClusterExists(K0sName(w.cur))'
    BY <1>3, <1>6, <2>1, <2>2 DEF ClusterExists, Kept
  <2>4. Step(p, w) /\ w.pc = "removeFinalizer" /\ Kept(w, me)
    BY <1>6, <1>7, <2>2
  <2>5. \A q \in Procs : PassKnows(q)'
    BY <1>1, <2>3, <2>4, PassMoves DEF Building, Removing, Owning
  <2> QED
    BY <1>4, <2>5 DEF Proved
<1>8. CASE Step(p, Fail(me))
  <2>1. \A q \in Procs : PassKnows(q)'
    BY <1>1, <1>5, <1>8, PassMoves
  <2> QED
    BY <1>4, <2>1 DEF Proved
<1> QED
  BY <1>7, <1>8 DEF RemoveContainer, v

----------------------------------------------------------------------------
(* The steps of a pass that write the object *)

\* A write of one object, and its collection with the last finalizer, keeps
\* slices disjoint and containers owned.
LEMMA ObjectWrite ==
    ASSUME Ownership, NEW c \in Clusters, NEW o \in Object, UNCHANGED containers,
           objects' = [objects EXCEPT ![c] = Collected(o)],
           Present(o), Present(objects[c]) \/ Holders(c) = {},
           o.finalizer \/ ~Holds(c),
           o.subnet # NoSubnet => o.finalizer \/ (o.life = "deleting" /\ ~o.foreign),
           \/ o.subnet = objects[c].subnet
           \/ o.subnet \notin AssignedSubnets /\ ~Holds(c)
    PROVE  Disjoint'
<1> DEFINE x == Collected(o)
<1>1. /\ TypeOK /\ Disjoint
      /\ ~Present(objects[c]) => objects[c].subnet = NoSubnet
      /\ Holds(c) => /\ Present(objects[c]) /\ objects[c].subnet # NoSubnet
                     /\ containers[K0sName(c)].pool \in {NoSubnet, objects[c].subnet}
  BY OwnershipParts DEF Ownership, Disjoint, PoolsOwned, ContainersOwned, Holds
<1>2. x \in Object
  BY ObjectOperators
<1>3. /\ o.finalizer => x = o
      /\ \/ x = o /\ (o.finalizer \/ o.foreign \/ o.life # "deleting")
         \/ x.life = "gone" /\ x.subnet = NoSubnet /\ ~x.finalizer /\ ~x.foreign
  BY CollectedFields, Zenon DEF Collected, GoneObject, NoObject
<1> HIDE DEF x
<1>4. Present(x) => \/ x.subnet = NoSubnet
                    \/ Present(objects[c]) /\ x.subnet = objects[c].subnet
                    \/ x.subnet \notin AssignedSubnets
  BY <1>1, <1>3
<1>5. Holds(c) => /\ Present(x) /\ x.finalizer /\ x.subnet # NoSubnet
                  /\ containers[K0sName(c)].pool \in {NoSubnet, x.subnet}
  BY <1>1, <1>3
<1>6. /\ ~Present(x) => ~x.finalizer /\ ~x.foreign
      /\ x.subnet # NoSubnet => x.finalizer
  BY <1>3
<1> QED
  BY <1>1, <1>2, <1>4, <1>5, <1>6, ObjectChange DEF x

\* What a write of the provider's leaves in the object and in the worker.
LEMMA Written ==
    ASSUME TypeOK, NEW p \in Procs, NEW c \in Clusters, NEW o, NEW w, Write(p, c, o, w)
    PROVE  objects' = [objects EXCEPT ![c] = Collected(o)] /\ worker'[p] = w
BY DEF Write, Stored, Overtaken

\* A pass that has ended, or is about to, knows nothing.
LEMMA PassEnds ==
    ASSUME SingleProcess, NEW p \in Procs, worker'[p].pc \in {"idle", "commit"}
    PROVE  \A q \in Procs : PassKnows(q)'
BY DEF SingleProcess, PassKnows

\* How client.Update can end.
LEMMA UpdateEnds ==
    ASSUME TypeOK, NEW p \in Procs, worker[p].cur \in Clusters, NEW m \in Object,
           NEW l \in Labels, Update(p, m, [worker[p] EXCEPT !.pc = l])
    PROVE  LET c == worker[p].cur
               v == worker'[p]
               o == Sent(p, m)
           IN  /\ o \in Object /\ o.life = objects[c].life /\ o.subnet = m.subnet
               /\ o.finalizer = m.finalizer /\ o.foreign = m.foreign /\ o.shown = m.shown
               /\ \/ /\ Present(objects[c]) /\ ~worker[p].stale
                     /\ objects' = [objects EXCEPT ![c] = Collected(o)]
                     /\ \/ v.pc = "commit"
                        \/ /\ v.pc = l /\ v.cur = c
                           /\ v.cluster.life = IF m.life = "deleting" THEN m.life ELSE o.life
                           /\ v.cluster.subnet = o.subnet
                           /\ v.cluster.finalizer = o.finalizer
                           /\ v.cluster.foreign = o.foreign
                  \/ UNCHANGED objects /\ v.pc = "commit"
<1> DEFINE me == worker[p]
           c == me.cur
           o == Sent(p, m)
           d == Decoded(m, o)
           u == Answered([me EXCEPT !.pc = l], m, o)
           lost == [Fail(me) EXCEPT !.stale = TRUE]
<1>1. me \in Worker /\ worker \in [Procs -> Worker] /\ objects[c] \in Object
  BY DEF TypeOK
<1>2. Fail(me).pc = "commit" /\ lost.pc = "commit"
  BY <1>1, Zenon DEF Fail, Worker
<1>3. /\ o \in Object /\ o.life = objects[c].life /\ o.subnet = m.subnet
      /\ o.finalizer = m.finalizer /\ o.foreign = m.foreign /\ o.shown = m.shown
  <2> DEFINE was == objects[c]
  <2> HIDE DEF was
  <2>1. was \in Object /\ o = [m EXCEPT !.life = was.life, !.status = was.status]
    BY <1>1 DEF Sent, was
  <2> HIDE DEF o
  <2>2. /\ o \in Object /\ o.life = was.life /\ o.subnet = m.subnet
        /\ o.finalizer = m.finalizer /\ o.foreign = m.foreign /\ o.shown = m.shown
    BY <2>1, Zenon DEF Object
  <2> QED
    BY <2>2 DEF was
<1> HIDE DEF o
<1>4. u.pc = l /\ u.cur = c /\ u.cluster = d
  BY <1>1, Zenon DEF Worker, Answered
<1>5. /\ d.life = IF m.life = "deleting" THEN m.life ELSE o.life
      /\ d.subnet = o.subnet /\ d.finalizer = o.finalizer /\ d.foreign = o.foreign
  <2> DEFINE k == IF o.finalizer \/ o.foreign THEN o ELSE m
             life == IF m.life = "deleting" THEN m.life ELSE o.life
             subnet == IF o.subnet = NoSubnet THEN m.subnet ELSE o.subnet
             st == DecodedStatus(m.status, o.status)
  <2>1. k.finalizer = o.finalizer /\ k.foreign = o.foreign /\ subnet = o.subnet
    BY <1>3
  <2> HIDE DEF k, life, subnet, st
  <2>2. d = [o EXCEPT !.life = life, !.finalizer = k.finalizer, !.foreign = k.foreign,
                      !.subnet = subnet, !.status = st]
    BY DEF Decoded, k, life, subnet, st
  <2> HIDE DEF d
  <2>3. /\ d.life = life /\ d.subnet = subnet
        /\ d.finalizer = k.finalizer /\ d.foreign = k.foreign
    BY <1>3, <2>2, Zenon DEF Object
  <2> QED
    BY <2>1, <2>3 DEF life
<1>6. \/ Present(objects[c]) /\ ~me.stale /\ Write(p, c, o, u)
      \/ Present(objects[c]) /\ ~me.stale /\ Write(p, c, o, lost)
      \/ UNCHANGED objects /\ Step(p, Fail(me))
  BY Zenon DEF Update, u, lost, o
<1> HIDE DEF u, lost, d
<1>7. CASE Present(objects[c]) /\ ~me.stale /\ Write(p, c, o, u)
  <2>1. objects' = [objects EXCEPT ![c] = Collected(o)] /\ worker'[p] = u
    BY <1>7, Written
  <2> QED
    BY <1>3, <1>4, <1>5, <1>7, <2>1 DEF o
<1>8. CASE Present(objects[c]) /\ ~me.stale /\ Write(p, c, o, lost)
  <2>1. objects' = [objects EXCEPT ![c] = Collected(o)] /\ worker'[p] = lost
    BY <1>8, Written
  <2> QED
    BY <1>2, <1>3, <1>8, <2>1 DEF o
<1>9. CASE UNCHANGED objects /\ Step(p, Fail(me))
  <2>1. worker'[p].pc = "commit"
    BY <1>1, <1>2, <1>9 DEF Step
  <2> QED
    BY <1>3, <1>9, <2>1 DEF o
<1> QED
  BY <1>6, <1>7, <1>8, <1>9

\* The finalizer comes before anything it answers for.
LEMMA FinalizerStep ==
    ASSUME Ownership, SingleProcess, NEW p \in Procs, EnsureFinalizer(p)
    PROVE  Proved
<1> DEFINE me == worker[p]
           c == me.cur
           m == [me.cluster EXCEPT !.finalizer = TRUE]
           o == Sent(p, m)
<1>1. /\ TypeOK /\ Disjoint /\ c \in Clusters /\ objects[c] \in Object
      /\ me.cluster \in Object /\ me.pc = "addFinalizer"
      /\ "commit" \in Labels /\ UNCHANGED containers
      /\ Update(p, m, [me EXCEPT !.pc = "commit"])
  BY InPass, OwnershipParts DEF Ownership, EnsureFinalizer, At, Labels, dockerVars
<1>2. m \in Object /\ m.finalizer /\ m.subnet = me.cluster.subnet
  BY <1>1, Zenon DEF Object
<1> HIDE DEF m
<1>3. /\ worker'[p].pc = "commit"
      /\ o \in Object /\ o.finalizer /\ o.life = objects[c].life
      /\ o.subnet = me.cluster.subnet
      /\ \/ Present(objects[c]) /\ objects' = [objects EXCEPT ![c] = Collected(o)]
         \/ UNCHANGED objects
  BY <1>1, <1>2, UpdateEnds
<1> HIDE DEF o
<1>4. Present(objects[c]) => o.subnet = objects[c].subnet
  BY <1>1, <1>3 DEF Ownership, PassKnows
<1>5. Disjoint'
  BY <1>1, <1>3, <1>4, ObjectWrite, NoChange
<1> QED
  BY <1>3, <1>5, PassEnds DEF Proved

\* The slice that is persisted is still nobody's, and the pass knows it from
\* then on.
LEMMA AssignStep ==
    ASSUME Ownership, SingleProcess, NEW p \in Procs, AssignSubnet(p)
    PROVE  Proved
<1> DEFINE me == worker[p]
           c == me.cur
           o == Sent(p, me.cluster)
<1>1. /\ TypeOK /\ Disjoint /\ c \in Clusters /\ objects[c] \in Object
      /\ me.cluster \in Object
      /\ "exists" \in Labels /\ UNCHANGED containers /\ me.pc = "assign"
      /\ Update(p, me.cluster, [me EXCEPT !.pc = "exists"])
  BY InPass, OwnershipParts DEF Ownership, AssignSubnet, At, Labels, dockerVars
<1>2. /\ me.cluster.subnet \in Slices \ AssignedSubnets /\ objects[c].subnet = NoSubnet
      /\ Present(objects[c]) /\ objects[c].finalizer
      /\ me.cluster.finalizer
      /\ me.cluster.life = "deleting" => objects[c].life = "deleting"
      /\ me.cluster.subnet # NoSubnet
  <2>1. NoSubnet \notin Slices
    BY SliceAssumption DEF Slices, NoSubnet
  <2> QED
    BY <1>1, <2>1 DEF Ownership, PassKnows, Owning
<1>3. LET v == worker'[p]
      IN  /\ o \in Object /\ o.finalizer /\ o.life = objects[c].life
          /\ o.subnet = me.cluster.subnet /\ o.foreign = me.cluster.foreign
          /\ \/ /\ objects' = [objects EXCEPT ![c] = Collected(o)]
                /\ \/ v.pc = "commit"
                   \/ /\ v.pc = "exists" /\ v.cur = c
                      /\ v.cluster.life = "deleting" => o.life = "deleting"
                      /\ v.cluster.subnet = o.subnet
                      /\ v.cluster.finalizer = o.finalizer
                      /\ v.cluster.foreign = o.foreign
             \/ UNCHANGED objects /\ v.pc = "commit"
  BY <1>1, <1>2, UpdateEnds
<1> HIDE DEF o
<1>4. ~Holds(c)
  BY <1>1, <1>2 DEF Disjoint, ContainersOwned, Holds
<1>5. Collected(o) = o
  BY <1>3, CollectedFields
<1>6. Disjoint'
  BY <1>1, <1>2, <1>3, <1>4, ObjectWrite, NoChange
<1>7. CASE worker'[p].pc = "exists" /\ objects' = [objects EXCEPT ![c] = Collected(o)]
  <2>1. objects'[c] = o
    BY <1>1, <1>5, <1>7 DEF TypeOK
  <2>2. PassKnows(p)'
    BY <1>2, <1>3, <1>7, <2>1 DEF PassKnows, Removing
  <2> QED
    BY <1>6, <2>2 DEF Proved, SingleProcess
<1>8. CASE worker'[p].pc = "commit"
  BY <1>6, <1>8, PassEnds DEF Proved
<1> QED
  BY <1>3, <1>7, <1>8

\* The finalizer goes when docker holds nothing any more.
LEMMA ReleaseStep ==
    ASSUME Ownership, SingleProcess, NEW p \in Procs, RemoveFinalizer(p)
    PROVE  Proved
<1> DEFINE me == worker[p]
           c == me.cur
           m == [me.cluster EXCEPT !.finalizer = FALSE]
           o == Sent(p, m)
<1>1. /\ TypeOK /\ Disjoint /\ c \in Clusters /\ objects[c] \in Object
      /\ me.cluster \in Object
      /\ "commit" \in Labels /\ UNCHANGED containers /\ me.pc = "removeFinalizer"
      /\ Update(p, m, [me EXCEPT !.pc = "commit"])
  BY InPass, OwnershipParts DEF Ownership, RemoveFinalizer, At, Labels, dockerVars
<1>2. /\ m \in Object /\ m.subnet = me.cluster.subnet /\ m.foreign = me.cluster.foreign
  BY <1>1, Zenon DEF Object
<1> HIDE DEF m
<1>3. ~Holds(c)
  <2>1. containers[K0sName(c)].state = "absent"
    BY <1>1 DEF Ownership, PassKnows, ClusterExists
  <2>2. containers[K0sName(c)].pool = NoSubnet
    BY <1>1, <2>1, NamesDiffer DEF Disjoint, PoolsOwned
  <2> QED
    BY <2>1, <2>2 DEF Holds
<1>4. /\ worker'[p].pc = "commit"
      /\ o \in Object /\ o.life = objects[c].life /\ o.subnet = me.cluster.subnet
      /\ o.foreign = me.cluster.foreign
      /\ \/ Present(objects[c]) /\ objects' = [objects EXCEPT ![c] = Collected(o)]
         \/ UNCHANGED objects
  BY <1>1, <1>2, UpdateEnds
<1> HIDE DEF o
<1>5. Present(objects[c]) => /\ o.subnet = objects[c].subnet
                             /\ o.life = "deleting" /\ ~o.foreign
  BY <1>1, <1>4 DEF Ownership, PassKnows, Owning, Removing
<1>6. Disjoint'
  BY <1>1, <1>3, <1>4, <1>5, ObjectWrite, NoChange
<1> QED
  BY <1>4, <1>6, PassEnds DEF Proved

\* A patch by name changes neither the life nor the finalizers nor the slice of
\* the object it lands on.
Untouched(o, d) ==
    /\ o \in Object
    /\ o.life = objects[d].life /\ o.subnet = objects[d].subnet
    /\ o.finalizer = objects[d].finalizer /\ o.foreign = objects[d].foreign

\* Patches of one of the fields of d that do not matter here.
LEMMA Patches ==
    ASSUME TypeOK, NEW d \in Clusters, NEW v \in BOOLEAN, NEW st \in Status
    PROVE  /\ Untouched([objects[d] EXCEPT !.op = ""], d)
           /\ Untouched([objects[d] EXCEPT !.shown = v], d)
           /\ Untouched([objects[d] EXCEPT !.status = st], d)
<1>1. objects[d] \in Object
  BY DEF TypeOK
<1> QED
  BY <1>1, Zenon DEF Untouched, Object, Operations

\* How the writes of the status and of the display metadata can end.
LEMMA StatusWrites ==
    ASSUME TypeOK, NEW p \in Procs, DisplayMetadata(p) \/ CommitStatus(p)
    PROVE  \/ /\ UNCHANGED objects
              /\ \E v : v.pc \in {"idle", "commit"} /\ Step(p, v)
           \/ \E d \in Holders(worker[p].cur) : \E o : \E v :
                  Untouched(o, d) /\ v.pc \in {"idle", "commit"} /\ Write(p, d, o, v)
<1> DEFINE me == worker[p]
           c == me.cur
<1>1. c \in Clusters /\ me \in Worker
  BY InPass DEF DisplayMetadata, CommitStatus, At
<1>2. CASE DisplayMetadata(p)
  <2> DEFINE O(d) == [objects[d] EXCEPT !.shown = (d = c)]
             Synced(d) == [me EXCEPT !.cur = d, !.cluster = Decoded(me.cluster, O(d)),
                                     !.wrote = TRUE, !.stale = FALSE]
             lost == [Fail(me) EXCEPT !.stale = TRUE]
  <2>1. \A d \in Clusters : Untouched(O(d), d)
    BY Patches, ObjectTypes
  <2> HIDE DEF O
  <2>2. /\ \A d : MarkReady(Synced(d)).pc = "commit"
        /\ lost.pc = "commit" /\ Fail(me).pc = "commit"
    BY <1>1, Zenon DEF MarkReady, Fail, Worker
  <2> HIDE DEF Synced, lost
  <2>3. \/ \E d \in Holders(c) : Write(p, d, O(d), MarkReady(Synced(d)))
        \/ \E d \in Holders(c) : Write(p, d, O(d), lost)
        \/ UNCHANGED objects /\ Step(p, Fail(me))
    BY <1>2, Zenon DEF DisplayMetadata, O, Synced, lost
  <2> QED
    BY <2>1, <2>2, <2>3, HolderIs
<1>3. CASE CommitStatus(p)
  <2> DEFINE St(d) == PatchedStatus(objects[d].status, me.old, me.cluster.status)
             O(d) == [objects[d] EXCEPT !.status = St(d)]
  <2>1. \A d \in Clusters : St(d) \in Status
    BY <1>1, StatusOperators DEF TypeOK, Object, Worker
  <2> HIDE DEF St
  <2>2. \A d \in Clusters : Untouched(O(d), d)
    BY <2>1, Patches
  <2>3. \/ \E d \in Holders(c) : Write(p, d, O(d), IdleWorker)
        \/ UNCHANGED objects /\ Step(p, IdleWorker)
    BY <1>3, Zenon DEF CommitStatus, O, St
  <2>4. IdleWorker.pc = "idle"
    BY DEF IdleWorker
  <2> HIDE DEF O
  <2> QED
    BY <2>2, <2>3, <2>4, HolderIs
<1> QED
  BY <1>2, <1>3

\* A patch by name keeps slices disjoint and containers owned.
LEMMA PatchKeeps ==
    ASSUME Ownership, NEW p \in Procs, NEW d \in Clusters, Present(objects[d]),
           NEW o, NEW v, Untouched(o, d), Write(p, d, o, v), UNCHANGED containers
    PROVE  Disjoint'
<1>1. TypeOK /\ Disjoint
  BY OwnershipParts
<1>2. Holds(d) => objects[d].finalizer
  BY <1>1 DEF Disjoint, ContainersOwned, Holds
<1>3. objects[d].subnet # NoSubnet => objects[d].finalizer
  BY <1>1 DEF Disjoint, PoolsOwned
<1>4. objects' = [objects EXCEPT ![d] = Collected(o)]
  BY <1>1, Written
<1> QED
  BY <1>2, <1>3, <1>4, ObjectWrite DEF Untouched

\* The status and the display metadata are nobody's concern here.
LEMMA StatusSteps ==
    ASSUME Ownership, SingleProcess, NEW p \in Procs, DisplayMetadata(p) \/ CommitStatus(p)
    PROVE  Proved
<1>1. TypeOK /\ Disjoint /\ UNCHANGED containers
  BY OwnershipParts DEF Ownership, DisplayMetadata, CommitStatus, dockerVars
<1>2. CASE UNCHANGED objects /\ \E v : v.pc \in {"idle", "commit"} /\ Step(p, v)
  <2>1. worker'[p].pc \in {"idle", "commit"}
    BY <1>1, <1>2 DEF Step, TypeOK
  <2> QED
    BY <1>1, <1>2, <2>1, NoChange, PassEnds DEF Proved
<1>3. ASSUME NEW d \in Holders(worker[p].cur), NEW o, NEW v,
             Untouched(o, d), v.pc \in {"idle", "commit"}, Write(p, d, o, v)
      PROVE  Proved
  <2>1. d \in Clusters /\ Present(objects[d])
    BY HolderIs
  <2>2. worker'[p] = v
    BY <1>1, <1>3, <2>1, Written
  <2>3. Disjoint'
    BY <1>1, <1>3, <2>1, PatchKeeps
  <2> QED
    BY <1>3, <2>2, <2>3, PassEnds DEF Proved
<1> QED
  BY <1>1, <1>2, <1>3, StatusWrites

----------------------------------------------------------------------------
(* A pass starts *)

\* A pass that has just read its object knows it.
LEMMA GetStep ==
    ASSUME Ownership, SingleProcess, NEW p \in Procs, NEW c \in Clusters, Get(p, c)
    PROVE  Proved
<1>1. /\ objects[c] \in Object /\ Present(objects[c])
      /\ UNCHANGED <<objects, containers>>
  BY DEF Get, Ownership, TypeOK, dockerVars
<1> DEFINE l == IF objects[c].op = "reconcile" THEN "operation" ELSE "profile"
           w == [IdleWorker EXCEPT !.pc = l, !.cur = c, !.cluster = objects[c],
                                   !.old = objects[c].status]
<1>2. w.pc = l /\ w.cur = c /\ w.cluster = objects[c]
  BY Zenon DEF IdleWorker
<1>3. worker'[p] = w /\ l \in {"operation", "profile"}
  BY DEF Get, Step, Ownership, TypeOK
<1> HIDE DEF l, w
<1>4. /\ objects[c].subnet # NoSubnet => objects[c].finalizer
      /\ \A d \in Holders(c) : d = c
  BY <1>1 DEF Ownership, PoolsOwned, OneHolder, Holders, PresentClusters
<1>5. \A d \in Holders(c)' : d = c
  BY <1>1, <1>4 DEF Holders, PresentClusters
<1>6. PassKnows(p)'
  BY <1>1, <1>2, <1>3, <1>4, <1>5 DEF PassKnows, Owning, Building, Removing
<1> QED
  BY <1>1, <1>6, NoChange, OwnershipParts DEF Proved, SingleProcess

\* What the response of a patch makes of the object in memory.
LEMMA DecodedFields ==
    ASSUME NEW m \in Object, NEW o \in Object
    PROVE  LET d == Decoded(m, o)
           IN  /\ d.life = IF m.life = "deleting" THEN m.life ELSE o.life
               /\ d.finalizer = IF o.finalizer \/ o.foreign THEN o.finalizer ELSE m.finalizer
               /\ d.foreign = IF o.finalizer \/ o.foreign THEN o.foreign ELSE m.foreign
               /\ d.subnet = IF o.subnet = NoSubnet THEN m.subnet ELSE o.subnet
               /\ d.shown = o.shown
               /\ d.status = DecodedStatus(m.status, o.status)
<1> DEFINE k == IF o.finalizer \/ o.foreign THEN o ELSE m
           life == IF m.life = "deleting" THEN m.life ELSE o.life
           subnet == IF o.subnet = NoSubnet THEN m.subnet ELSE o.subnet
           st == DecodedStatus(m.status, o.status)
           d == Decoded(m, o)
<1> HIDE DEF k, life, subnet, st
<1>1. d = [o EXCEPT !.life = life, !.finalizer = k.finalizer, !.foreign = k.foreign,
                    !.subnet = subnet, !.status = st]
  BY DEF Decoded, k, life, subnet, st
<1> HIDE DEF d
<1>2. /\ d.life = life /\ d.subnet = subnet /\ d.shown = o.shown /\ d.status = st
      /\ d.finalizer = k.finalizer /\ d.foreign = k.foreign
  BY <1>1, Zenon DEF Object
<1> QED
  BY <1>2 DEF k, life, subnet, st, d

\* The response of the operation patch is as good as a read, also when it is that
\* of a successor.
LEMMA OperationStep ==
    ASSUME Ownership, SingleProcess, NEW p \in Procs, RemoveOperation(p)
    PROVE  Proved
<1> DEFINE me == worker[p]
           c == me.cur
           O(d) == [objects[d] EXCEPT !.op = ""]
           W(d) == [me EXCEPT !.pc = "profile", !.cur = d,
                              !.cluster = Decoded(me.cluster, O(d)),
                              !.old = Decoded(me.cluster, O(d)).status, !.stale = FALSE]
<1>1. /\ TypeOK /\ Disjoint /\ c \in Clusters /\ me \in Worker /\ me.cluster \in Object
      /\ me.pc = "operation" /\ UNCHANGED containers
  BY InPass, OwnershipParts DEF Ownership, RemoveOperation, At, dockerVars
<1>2. \A d \in Clusters : Untouched(O(d), d)
  BY <1>1, Patches, ObjectTypes
<1>3. \A d : W(d).pc = "profile" /\ W(d).cur = d /\ W(d).cluster = Decoded(me.cluster, O(d))
  BY <1>1, Zenon DEF Worker
<1> HIDE DEF O, W
<1>4. \/ \E d \in Holders(c) : Write(p, d, O(d), W(d))
      \/ \E d \in Holders(c) : Write(p, d, O(d), IdleWorker)
      \/ UNCHANGED objects /\ Step(p, IdleWorker)
  BY Zenon DEF RemoveOperation, Abort, O, W
<1>5. IdleWorker.pc = "idle"
  BY DEF IdleWorker
<1>6. CASE UNCHANGED objects /\ Step(p, IdleWorker)
  <2>1. worker'[p] = IdleWorker
    BY <1>1, <1>6 DEF Step, TypeOK
  <2> QED
    BY <1>1, <1>5, <1>6, <2>1, NoChange, PassEnds DEF Proved
<1>7. ASSUME NEW d \in Holders(c), NEW v, Write(p, d, O(d), v), v \in {W(d), IdleWorker}
      PROVE  Proved
  <2>1. d \in Clusters /\ Present(objects[d]) /\ ObjectName[d] = ObjectName[c]
    BY HolderIs
  <2>2. objects' = [objects EXCEPT ![d] = Collected(O(d))] /\ worker'[p] = v
    BY <1>1, <1>7, <2>1, Written
  <2>3. Disjoint'
    BY <1>1, <1>2, <1>7, <2>1, PatchKeeps
  <2>4. CASE v = IdleWorker
    BY <1>5, <2>2, <2>3, <2>4, PassEnds DEF Proved
  <2>5. CASE v = W(d)
    <3> DEFINE o == O(d)
               x == Collected(o)
               m == Decoded(me.cluster, o)
    <3>1. /\ objects'[d] = x /\ Untouched(o, d) /\ objects[d] \in Object
      BY <1>1, <1>2, <2>1, <2>2 DEF TypeOK
    <3>2. /\ o \in Object /\ Present(o)
          /\ o.finalizer = objects[d].finalizer /\ o.subnet = objects[d].subnet
          /\ o.life = objects[d].life /\ o.foreign = objects[d].foreign
      BY <2>1, <3>1 DEF Untouched
    <3>3. objects[d].subnet # NoSubnet => objects[d].finalizer
      BY <1>1, <2>1 DEF Disjoint, PoolsOwned
    <3>4. /\ me.cluster.finalizer => d = c /\ objects[c].finalizer
          /\ me.cluster.finalizer /\ me.cluster.life = "deleting" =>
                 objects[c].life = "deleting" /\ (~me.cluster.foreign => ~objects[c].foreign)
          /\ me.cluster.subnet # NoSubnet =>
                 me.cluster.finalizer /\ me.cluster.subnet = objects[c].subnet
          /\ ~me.cluster.finalizer => ~objects[d].finalizer
      <4>1. PassKnows(p)
        BY DEF Ownership
      <4>2. me.cluster.finalizer => Present(objects[c]) /\ objects[c].finalizer
        BY <1>1, <4>1 DEF PassKnows
      <4>3. me.cluster.finalizer => d = c
        BY <1>1, <2>1, <4>2 DEF Disjoint, OneHolder, PresentClusters
      <4> QED
        BY <1>1, <1>7, <4>1, <4>2, <4>3 DEF PassKnows
    <3> HIDE DEF o
    <3>5. /\ m.life = IF me.cluster.life = "deleting" THEN me.cluster.life ELSE o.life
          /\ m.finalizer = IF o.finalizer \/ o.foreign THEN o.finalizer ELSE me.cluster.finalizer
          /\ m.foreign = IF o.finalizer \/ o.foreign THEN o.foreign ELSE me.cluster.foreign
          /\ m.subnet = IF o.subnet = NoSubnet THEN me.cluster.subnet ELSE o.subnet
      BY <1>1, <3>2, DecodedFields
    <3>6. /\ o.finalizer => x = o
          /\ x = o \/ x.life = "gone"
      BY <3>2, CollectedFields
    <3> HIDE DEF x, m
    <3>7. worker'[p].pc = "profile" /\ worker'[p].cur = d /\ worker'[p].cluster = m
      BY <1>3, <2>2, <2>5 DEF m, o
    <3>8. /\ m.finalizer => Present(x) /\ x.finalizer
          /\ m.finalizer /\ m.life = "deleting" =>
                 x.life = "deleting" /\ (~m.foreign => ~x.foreign)
          /\ m.subnet # NoSubnet => m.finalizer
          /\ m.subnet = x.subnet \/ x.life = "gone"
      BY <3>2, <3>3, <3>4, <3>5, <3>6
    <3>9. PassKnows(p)'
      BY <3>1, <3>7, <3>8 DEF PassKnows, Owning, Building, Removing
    <3> QED
      BY <2>3, <3>9 DEF Proved, SingleProcess
  <2> QED
    BY <1>7, <2>4, <2>5
<1> QED
  BY <1>4, <1>6, <1>7

----------------------------------------------------------------------------
(* Everybody else *)

\* What users and other controllers do to an object: they neither touch the
\* provider's finalizer nor its annotation.
LEMMA UserEdits ==
    ASSUME Ownership, NEW c \in Clusters, UserStep(c)
    PROVE  \E o \in Object :
               /\ Edit(c, o) /\ Present(o)
               /\ Present(objects[c]) \/ Holders(c) = {}
               /\ o.finalizer = objects[c].finalizer /\ o.subnet = objects[c].subnet
               /\ \/ o.life = objects[c].life
                  \/ objects[c].life = "none" /\ o.life = "live"
                  \/ objects[c].life = "live" /\ o.life = "deleting"
               /\ o.foreign => objects[c].foreign \/ objects[c].life = "live"
<1>1. TypeOK /\ Disjoint /\ objects[c] \in Object
  BY OwnershipParts DEF Ownership, TypeOK
<1>2. CASE CreateObject(c)
  <2> DEFINE o == [NoObject EXCEPT !.life = "live"]
  <2>1. /\ o \in Object /\ o.life = "live" /\ ~o.finalizer /\ ~o.foreign
        /\ o.subnet = NoSubnet
    BY ObjectTypes, Zenon DEF NoObject, Object
  <2>2. objects[c].life = "none" /\ Holders(c) = {} /\ Edit(c, o)
    BY <1>2 DEF CreateObject
  <2> HIDE DEF o
  <2>3. objects[c].subnet = NoSubnet /\ ~objects[c].finalizer
    BY <1>1, <2>2 DEF Disjoint, PoolsOwned
  <2>4. o.finalizer = objects[c].finalizer
    BY <1>1, <2>1, <2>3, Zenon DEF Object
  <2> QED
    BY <2>1, <2>2, <2>3, <2>4
<1>3. CASE DeleteObject(c)
  <2> DEFINE o == [objects[c] EXCEPT !.life = "deleting"]
  <2>1. /\ o \in Object /\ o.life = "deleting" /\ o.finalizer = objects[c].finalizer
        /\ o.foreign = objects[c].foreign /\ o.subnet = objects[c].subnet
    BY <1>1, Zenon DEF Object
  <2>2. objects[c].life = "live" /\ Edit(c, o)
    BY <1>3 DEF DeleteObject
  <2> HIDE DEF o
  <2> QED
    BY <2>1, <2>2
<1>4. ASSUME NEW v \in Operations, SetOperation(c, v)
      PROVE  \E o \in Object :
                /\ Edit(c, o) /\ Present(o) /\ Present(objects[c])
                /\ o.finalizer = objects[c].finalizer /\ o.subnet = objects[c].subnet
                /\ o.life = objects[c].life
                /\ o.foreign = objects[c].foreign
  <2> DEFINE o == [objects[c] EXCEPT !.op = v]
  <2>1. /\ o \in Object /\ o.life = objects[c].life
        /\ o.finalizer = objects[c].finalizer
        /\ o.foreign = objects[c].foreign /\ o.subnet = objects[c].subnet
    BY <1>1, Zenon DEF Object
  <2>2. Present(objects[c]) /\ Edit(c, o)
    BY <1>4 DEF SetOperation
  <2> HIDE DEF o
  <2> QED
    BY <2>1, <2>2
<1>5. ASSUME NEW f \in BOOLEAN, Edit(c, [objects[c] EXCEPT !.foreign = f]),
             Present(objects[c]), f => objects[c].life = "live"
      PROVE  \E o \in Object :
                /\ Edit(c, o) /\ Present(o) /\ Present(objects[c])
                /\ o.finalizer = objects[c].finalizer /\ o.subnet = objects[c].subnet
                /\ o.life = objects[c].life
                /\ o.foreign => objects[c].life = "live"
  <2> DEFINE o == [objects[c] EXCEPT !.foreign = f]
  <2>1. /\ o \in Object /\ o.life = objects[c].life
        /\ o.finalizer = objects[c].finalizer
        /\ o.foreign = f /\ o.subnet = objects[c].subnet
    BY <1>1, Zenon DEF Object
  <2>2. Edit(c, o)
    BY <1>5
  <2> HIDE DEF o
  <2> QED
    BY <1>5, <2>1, <2>2
<1>6. CASE AddForeignFinalizer(c)
  BY <1>5, <1>6 DEF AddForeignFinalizer
<1>7. CASE RemoveForeignFinalizer(c)
  BY <1>5, <1>7 DEF RemoveForeignFinalizer
<1>8. CASE \E v \in Operations : SetOperation(c, v)
  BY <1>4, <1>8
<1> QED
  BY <1>2, <1>3, <1>6, <1>7, <1>8 DEF UserStep

\* Users and other controllers: what a pass concluded survives their edits.
LEMMA UserSteps ==
    ASSUME Ownership, NEW c \in Clusters, UserStep(c)
    PROVE  Proved
<1>1. TypeOK /\ Disjoint /\ objects[c] \in Object
  BY OwnershipParts DEF Ownership, TypeOK
<1>2. PICK o \in Object :
          /\ Edit(c, o) /\ Present(o)
          /\ Present(objects[c]) \/ Holders(c) = {}
          /\ o.finalizer = objects[c].finalizer /\ o.subnet = objects[c].subnet
          /\ \/ o.life = objects[c].life
             \/ objects[c].life = "none"
             \/ objects[c].life = "live"
          /\ objects[c].life = "deleting" => o.life = "deleting"
          /\ o.foreign => objects[c].foreign \/ objects[c].life = "live"
  BY UserEdits
<1> DEFINE x == Collected(o)
<1>3. /\ UNCHANGED containers /\ objects' = [objects EXCEPT ![c] = x]
      /\ worker' = Overtaken(c)
  BY <1>2 DEF Edit, Stored, dockerVars
<1>4. x \in Object
  BY ObjectOperators
<1>5. /\ o.finalizer => x = o
      /\ \/ x = o
         \/ /\ o.life = "deleting" /\ ~o.finalizer /\ ~o.foreign
            /\ x.life = "gone" /\ x.subnet = NoSubnet /\ ~x.finalizer /\ ~x.foreign
  BY CollectedFields
<1>6. Disjoint'
  <2>1. Holds(c) => objects[c].finalizer
    BY <1>1 DEF Disjoint, ContainersOwned, Holds
  <2> QED
    <3>1. objects[c].subnet # NoSubnet => objects[c].finalizer
      BY <1>1 DEF Disjoint, PoolsOwned
    <3> QED
      BY <1>2, <1>3, <2>1, <3>1, ObjectWrite
<1> HIDE DEF x
<1>7. ASSUME NEW p \in Procs
      PROVE  PassKnows(p)'
  <2>1. worker'[p].pc = worker[p].pc /\ Kept(worker'[p], worker[p])
    <3>1. worker[p] \in Worker
      BY <1>1 DEF TypeOK
    <3>2. worker'[p] \in {worker[p], [worker[p] EXCEPT !.stale = TRUE]}
      BY <1>3 DEF Overtaken
    <3>3. LET w == [worker[p] EXCEPT !.stale = TRUE]
          IN  w.pc = worker[p].pc /\ Kept(w, worker[p])
      BY <3>1, Zenon DEF Kept, Worker
    <3>4. Kept(worker[p], worker[p])
      BY DEF Kept
    <3> QED
      BY <3>2, <3>3, <3>4
  <2>2. objects[c].finalizer /\ Present(objects[c]) => Present(x) /\ x.finalizer
    BY <1>2, <1>5
  <2>3. /\ objects[c].life # "gone"
        /\ x.finalizer /\ Present(x) => Present(objects[c]) /\ objects[c].finalizer
    BY <1>1, <1>2, <1>5 DEF Disjoint, PoolsOwned
  <2>4. objects[c].life \in {"deleting", "gone"} =>
            x.life \in {"deleting", "gone"} /\ (x.foreign => objects[c].foreign)
    BY <1>2, <1>5
  <2>5. x.subnet = objects[c].subnet \/ (x.life = "gone" /\ x.subnet = NoSubnet)
    BY <1>2, <1>5
  <2>6. Present(x) => Present(objects[c]) \/ x.subnet = NoSubnet
    BY <1>1, <1>2, <1>5 DEF Disjoint, PoolsOwned
  <2> QED
    BY <1>3, <1>4, <2>1, <2>2, <2>3, <2>4, <2>5, <2>6, PassSurvives
<1> QED
  BY <1>6, <1>7 DEF Proved

\* docker and k0s at work, and steps that touch neither objects nor containers.
LEMMA OtherSteps ==
    ASSUME Ownership, SingleProcess,
           \/ \E n \in Names : DockerStep(n)
           \/ \E v \in {"absent", "ours", "other"} : SetProfile(v)
           \/ \E p \in Procs, c \in Clusters : Skip(p, c)
           \/ \E p \in Procs : Crash(p)
           \/ UNCHANGED vars
    PROVE  Proved
<1>1. TypeOK /\ Disjoint
  BY OwnershipParts DEF Ownership
<1>2. ASSUME UNCHANGED <<objects, containers, worker>>
      PROVE  Proved
  BY <1>1, <1>2, NoChange, NothingSeen DEF Proved
<1>3. ASSUME NEW n \in Names, DockerStep(n)
      PROVE  Proved
  BY <1>1, <1>3, DockerChange, NothingSeen DEF Proved, DockerStep
<1>4. ASSUME NEW p \in Procs, Crash(p)
      PROVE  Proved
  <2>1. worker'[p].pc = "idle" /\ UNCHANGED <<objects, containers>>
    BY <1>1, <1>4 DEF Crash, Step, IdleWorker, TypeOK, dockerVars
  <2> QED
    BY <1>1, <2>1, NoChange, PassEnds DEF Proved
<1> QED
  BY <1>2, <1>3, <1>4 DEF SetProfile, Skip, vars, dockerVars

----------------------------------------------------------------------------
(* The theorems *)

\* Ownership holds initially.
LEMMA OwnershipInit == Init => Ownership
<1> SUFFICES ASSUME Init PROVE Ownership
  OBVIOUS
<1>1. TypeOK
  BY TypeInit
<1>2. \A c \in Clusters : objects[c] = NoObject
  BY DEF Init
<1>3. /\ NoObject.life = "none" /\ NoObject.subnet = NoSubnet
      /\ ~NoObject.finalizer /\ ~NoObject.foreign
  BY Zenon DEF NoObject
<1>4. \A n \in Names : /\ containers[n].pool = NoSubnet
                       /\ n \notin Adopted => containers[n].state = "absent"
  BY DEF Init, ProviderInit, NoContainer
<1>5. SubnetsDisjoint
  BY <1>2, <1>3 DEF SubnetsDisjoint, PresentClusters
<1>6. ContainersOwned
  <2> SUFFICES ASSUME NEW c \in Clusters
               PROVE  ~Holds(c)
    BY DEF ContainersOwned, Holds
  <2> QED
    BY <1>4, NamesDiffer DEF Holds
<1>7. PoolsOwned
  <2>1. \A c \in Clusters : /\ objects[c].subnet = NoSubnet
                            /\ ~objects[c].finalizer /\ ~objects[c].foreign
    BY <1>2, <1>3, Zenon
  <2> QED
    BY <1>4, <2>1 DEF PoolsOwned
<1>8. \A p \in Procs : PassKnows(p)
  BY DEF Init, IdleWorker, PassKnows
<1>9. OneHolder
  BY <1>2, <1>3 DEF OneHolder, PresentClusters
<1> QED
  BY <1>1, <1>5, <1>6, <1>7, <1>8, <1>9 DEF Ownership

\* Every action keeps Ownership.
LEMMA OwnershipStep ==
    ASSUME SingleProcess, Ownership, [Next]_vars
    PROVE  Ownership'
<1>1. TypeOK'
  BY TypeStep DEF Ownership
<1>2. Proved
  <2>1. ASSUME NEW p \in Procs, Pass(p) PROVE Proved
    BY <2>1, OperationStep, ResponsibleStep, FinalizerStep, PickStep, AssignStep,
       LocalSteps, BuildingSteps, StatusSteps, RemovingStep, ReleaseStep DEF Pass
  <2>2. ASSUME NEW p \in Procs, NEW c \in Clusters, Dequeue(p, c) PROVE Proved
    BY <2>2, GetStep, OtherSteps DEF Dequeue
  <2> QED
    BY <2>1, <2>2, UserSteps, OtherSteps DEF Next
<1> QED
  BY <1>1, <1>2 DEF Proved, Disjoint, Ownership

\* With one process, Ownership is an invariant: what every pass concludes from
\* the object in its memory stays true until the pass acts on it.
THEOREM OwnershipHolds == ASSUME SingleProcess PROVE Spec => []Ownership
<1>1. Init => Ownership
  BY OwnershipInit
<1>2. Ownership /\ [Next]_vars => Ownership'
  BY OwnershipStep
<1> QED
  BY <1>1, <1>2, PTL DEF Spec

\* Two Clusters never hold the same slice of the docker network.
THEOREM DistinctSlices == ASSUME SingleProcess PROVE Spec => []SubnetsDisjoint
<1>1. Ownership => SubnetsDisjoint
  BY DEF Ownership
<1> QED
  BY <1>1, OwnershipHolds, PTL

\* No container of the provider is orphaned, and its pool is its Cluster's slice.
THEOREM NoOrphans == ASSUME SingleProcess PROVE Spec => []ContainersOwned
<1>1. Ownership => ContainersOwned
  BY DEF Ownership
<1> QED
  BY <1>1, OwnershipHolds, PTL

\* Pools are cut from the slices of their Clusters, which are disjoint.
LEMMA PoolsApart == Ownership => PoolsDisjoint
<1> SUFFICES ASSUME Ownership, NEW m \in Names, NEW n \in Names,
                    containers[m].pool = containers[n].pool, containers[m].pool # NoSubnet
             PROVE  m = n
  BY DEF PoolsDisjoint
<1>1. PICK c \in Clusters, d \in Clusters : m = K0sName(c) /\ n = K0sName(d)
  BY DEF Ownership, PoolsOwned
<1>2. /\ Present(objects[c]) /\ containers[m].pool = objects[c].subnet
      /\ Present(objects[d]) /\ containers[n].pool = objects[d].subnet
  BY <1>1 DEF Ownership, ContainersOwned
<1> QED
  BY <1>1, <1>2 DEF Ownership, SubnetsDisjoint, PresentClusters

\* No two k0s clusters announce addresses of the same slice.
THEOREM DistinctPools == ASSUME SingleProcess PROVE Spec => []PoolsDisjoint
BY PoolsApart, OwnershipHolds, PTL

\* A container of c is only taken away from a Cluster that is to be deleted, is
\* held by nobody else and still holds the provider's finalizer.
Removed(c) ==
    LET n == K0sName(c)
    IN  containers[n].state # "absent" /\ containers'[n].state = "absent" =>
            /\ objects[c].life = "deleting"
            /\ objects[c].finalizer /\ ~objects[c].foreign

\* The pass that takes a container away has read that its Cluster is being
\* deleted and that nobody else holds it, and both still hold at that step.
LEMMA RemovedInOrder ==
    ASSUME Ownership, [Next]_vars, NEW c \in Clusters
    PROVE  Removed(c)
<1> USE DEF Removed
<1> DEFINE n == K0sName(c)
<1>1. n \in Names /\ containers \in [Names -> Container]
  BY NamesDiffer DEF Ownership, TypeOK, ProviderTypeOK
<1>2. CASE UNCHANGED containers
  BY <1>2
<1>3. ASSUME NEW m \in Names,
             \/ ContainerCreate(m) \/ ContainerStart(m) \/ InstallMetalLB(m)
             \/ \E s : ConfigureSubnet(m, s)
             \/ Boot(m) \/ MetalLBPodsReady(m)
      PROVE  Removed(c)
  <2>1. ASSUME NEW r \in Container
        PROVE  \A v : /\ [r EXCEPT !.state = v].state = v
                      /\ [r EXCEPT !.metallb = v].state = r.state
                      /\ [r EXCEPT !.pool = v].state = r.state
    BY Zenon DEF Container
  <2>2. containers'[n].state \in {containers[n].state, "created", "running", "ready"}
    <3>1. CASE ContainerCreate(m)
      BY <1>1, <2>1, <3>1 DEF ContainerCreate
    <3>2. CASE ContainerStart(m)
      BY <1>1, <2>1, <3>2 DEF ContainerStart
    <3>3. CASE InstallMetalLB(m)
      BY <1>1, <2>1, <3>3 DEF InstallMetalLB
    <3>4. CASE \E s : ConfigureSubnet(m, s)
      BY <1>1, <2>1, <3>4 DEF ConfigureSubnet
    <3>5. CASE Boot(m)
      BY <1>1, <2>1, <3>5 DEF Boot
    <3>6. CASE MetalLBPodsReady(m)
      BY <1>1, <2>1, <3>6 DEF MetalLBPodsReady
    <3> QED
      BY <1>3, <3>1, <3>2, <3>3, <3>4, <3>5, <3>6
  <2> QED
    BY <2>2
<1>4. ASSUME NEW p \in Procs, RemoveContainer(p)
      PROVE  Removed(c)
  <2> DEFINE me == worker[p]
  <2>1. me.cur \in Clusters /\ me.pc = "remove"
    BY <1>4 DEF Ownership, TypeOK, RemoveContainer, At
  <2>2. PassKnows(p)
    BY DEF Ownership
  <2>3. /\ objects[me.cur].life = "deleting"
        /\ objects[me.cur].finalizer /\ ~objects[me.cur].foreign
    BY <2>1, <2>2 DEF PassKnows, Owning, Building, Removing
  <2>4. CASE me.cur = c
    BY <2>3, <2>4
  <2>5. CASE me.cur # c
    <3>1. K0sName(me.cur) # n
      BY <2>1, <2>5, NamesDiffer
    <3>2. containers'[n] = containers[n]
      BY <1>1, <1>4, <3>1 DEF RemoveContainer, DeleteCluster
    <3> QED
      BY <3>2
  <2> QED
    BY <2>4, <2>5
<1>5. ASSUME NEW p \in Procs, Pass(p), ~RemoveContainer(p)
      PROVE  Removed(c)
  <2>1. CASE At(p, "idle")
    BY <1>5, <2>1 DEF Pass, At, RemoveOperation, Responsible, EnsureFinalizer,
       PickSubnet, AssignSubnet, EnsureK0sCluster, Prepare, CreateContainer,
       StartContainer, WaitReady, TargetClient, Install, PodsReady,
       ConfigureMetalLB, PublishAccess, DisplayMetadata, CommitStatus,
       LookupContainer, RemoveFinalizer
  <2>2. CASE worker[p].cur \in Clusters
    <3>1. K0sName(worker[p].cur) \in Names
      BY <2>2, NamesDiffer
    <3>2. CASE CreateContainer(p) \/ StartContainer(p) \/ Install(p) \/ ConfigureMetalLB(p)
      BY <1>2, <1>3, <3>1, <3>2
         DEF CreateContainer, StartContainer, Install, ConfigureMetalLB
    <3>3. CASE ~(CreateContainer(p) \/ StartContainer(p) \/ Install(p) \/ ConfigureMetalLB(p))
      BY <1>2, <1>5, <3>3 DEF Pass, RemoveOperation, Responsible, EnsureFinalizer,
         PickSubnet, AssignSubnet, EnsureK0sCluster, Prepare, WaitReady, TargetClient,
         PodsReady, PublishAccess, DisplayMetadata, CommitStatus, LookupContainer,
         RemoveFinalizer, dockerVars
    <3> QED
      BY <3>2, <3>3
  <2> QED
    BY <2>1, <2>2 DEF Ownership, TypeOK, At
<1>6. CASE \E m \in Names : DockerStep(m)
  BY <1>3, <1>6 DEF DockerStep
<1>7. CASE \/ \E p \in Procs, d \in Clusters : Dequeue(p, d)
           \/ \E p \in Procs : Crash(p)
           \/ \E d \in Clusters : UserStep(d)
           \/ \E v \in {"absent", "ours", "other"} : SetProfile(v)
           \/ UNCHANGED vars
  BY <1>2, <1>7 DEF Dequeue, Skip, Get, Crash, UserStep, CreateObject, DeleteObject,
     SetOperation, AddForeignFinalizer, RemoveForeignFinalizer, Edit, SetProfile,
     vars, dockerVars
<1> QED
  BY <1>4, <1>5, <1>6, <1>7 DEF Next

\* Foreign finalizers first (handleDeletion).
THEOREM ForeignFirst == ASSUME SingleProcess PROVE Spec => ForeignFinalizersFirst
<1>1. Ownership /\ [Next]_vars => [\A c \in Clusters : Removed(c)]_vars
  BY RemovedInOrder
<1> QED
  BY <1>1, OwnershipHolds, PTL DEF Spec, ForeignFinalizersFirst, Removed

\* Cluster c keeps its slice in this step, unless the object goes.
Keeps(c) ==
    objects[c].subnet # NoSubnet =>
        objects'[c].subnet = objects[c].subnet \/ objects'[c].life = "gone"

\* A Cluster keeps its slice until the object is gone: the only step that writes
\* one is that of a pass which knows that the Cluster has none.
LEMMA SliceStays ==
    ASSUME TypeOK, [Next]_vars,
           \A c \in Clusters : ~Present(objects[c]) => objects[c].subnet = NoSubnet,
           \A p \in Procs :
               LET o == objects[worker[p].cur]
               IN  worker[p].pc \in {"addFinalizer", "assign", "removeFinalizer"} =>
                       (~worker[p].stale /\ Present(o) =>
                            o.subnet \in {NoSubnet, worker[p].cluster.subnet})
    PROVE  \A c \in Clusters : Keeps(c)
<1> SUFFICES ASSUME NEW c \in Clusters PROVE Keeps(c)
  OBVIOUS
<1> USE DEF Keeps
<1>1. objects \in [Clusters -> Object]
  BY DEF TypeOK
<1>2. CASE UNCHANGED objects
  BY <1>2
<1>3. ASSUME NEW d \in Clusters, NEW o \in Object, Stored(d, o),
             o.subnet = objects[d].subnet \/ objects[d].subnet = NoSubnet
      PROVE  Keeps(c)
  <2>1. Collected(o) = o \/ Collected(o).life = "gone"
    BY CollectedFields
  <2>2. objects' = [objects EXCEPT ![d] = Collected(o)]
    BY <1>3 DEF Stored
  <2> QED
    BY <1>1, <1>3, <2>1, <2>2
<1>4. ASSUME NEW d \in Clusters
      PROVE  /\ objects[d] \in Object
             /\ \A v \in Operations : /\ [objects[d] EXCEPT !.op = v] \in Object
                                      /\ [objects[d] EXCEPT !.op = v].subnet = objects[d].subnet
             /\ \A v \in Status : /\ [objects[d] EXCEPT !.status = v] \in Object
                                  /\ [objects[d] EXCEPT !.status = v].subnet = objects[d].subnet
             /\ \A v \in {"live", "deleting"} :
                    /\ [objects[d] EXCEPT !.life = v] \in Object
                    /\ [objects[d] EXCEPT !.life = v].subnet = objects[d].subnet
             /\ \A v \in BOOLEAN :
                    /\ [objects[d] EXCEPT !.shown = v] \in Object
                    /\ [objects[d] EXCEPT !.shown = v].subnet = objects[d].subnet
                    /\ [objects[d] EXCEPT !.finalizer = v] \in Object
                    /\ [objects[d] EXCEPT !.finalizer = v].subnet = objects[d].subnet
                    /\ [objects[d] EXCEPT !.foreign = v] \in Object
                    /\ [objects[d] EXCEPT !.foreign = v].subnet = objects[d].subnet
  <2>1. objects[d] \in Object
    BY <1>1, <1>4
  <2> QED
    BY <2>1, Zenon DEF Object
<1>5. ASSUME NEW d \in Clusters, UserStep(d)
      PROVE  Keeps(c)
  <2>1. CASE CreateObject(d)
    <3>1. /\ [NoObject EXCEPT !.life = "live"] \in Object
          /\ Stored(d, [NoObject EXCEPT !.life = "live"])
      BY <2>1, ObjectTypes, Zenon DEF CreateObject, Edit, NoObject, Object
    <3>2. objects[d].subnet = NoSubnet
      BY <2>1 DEF CreateObject
    <3> QED
      BY <1>3, <3>1, <3>2
  <2>2. CASE ~CreateObject(d)
    BY <1>3, <1>4, <1>5, <2>2 DEF UserStep, DeleteObject, SetOperation,
       AddForeignFinalizer, RemoveForeignFinalizer, Edit
  <2> QED
    BY <2>1, <2>2
<1>6. ASSUME NEW p \in Procs, Pass(p)
      PROVE  Keeps(c)
  <2> DEFINE me == worker[p]
             d == me.cur
  <2>1. me \in Worker /\ (me.pc # "idle" => d \in Clusters)
    BY DEF TypeOK
  <2>2. CASE RemoveOperation(p)
    <3> DEFINE O(e) == [objects[e] EXCEPT !.op = ""]
    <3>1. UNCHANGED objects \/ \E e \in Holders(d) : Stored(e, O(e))
      BY <2>2, Zenon DEF RemoveOperation, Write
    <3>2. \A e \in Clusters : O(e) \in Object /\ O(e).subnet = objects[e].subnet
      BY Patches, ObjectTypes DEF Untouched
    <3> HIDE DEF O
    <3> QED
      BY <1>2, <1>3, <3>1, <3>2, HolderIs
  <2>3. CASE DisplayMetadata(p) \/ CommitStatus(p)
    <3>1. \/ UNCHANGED objects
          \/ \E e \in Holders(d) : \E o : Untouched(o, e) /\ Stored(e, o)
      BY <2>3, StatusWrites, Zenon DEF Write
    <3> QED
      BY <1>2, <1>3, <3>1, HolderIs DEF Untouched
  <2>4. CASE EnsureFinalizer(p) \/ AssignSubnet(p) \/ RemoveFinalizer(p)
    <3>1. /\ d \in Clusters /\ me.pc \in {"addFinalizer", "assign", "removeFinalizer"}
          /\ me.cluster \in Object
      BY <2>1, <2>4 DEF EnsureFinalizer, AssignSubnet, RemoveFinalizer, At, Worker
    <3>2. \E m \in Object, l \in Labels :
              m.subnet = me.cluster.subnet /\ Update(p, m, [me EXCEPT !.pc = l])
      <4>1. \A b \in BOOLEAN : /\ [me.cluster EXCEPT !.finalizer = b] \in Object
                               /\ [me.cluster EXCEPT !.finalizer = b].subnet = me.cluster.subnet
        BY <3>1, Zenon DEF Object
      <4>2. "commit" \in Labels /\ "exists" \in Labels
        BY DEF Labels
      <4> QED
        BY <2>4, <3>1, <4>1, <4>2 DEF EnsureFinalizer, AssignSubnet, RemoveFinalizer
    <3>3. \/ UNCHANGED objects
          \/ /\ Present(objects[d]) /\ ~me.stale
             /\ \E o \in Object : /\ objects' = [objects EXCEPT ![d] = Collected(o)]
                                  /\ o.subnet = me.cluster.subnet
      BY <3>1, <3>2, UpdateEnds
    <3>4. ASSUME NEW o \in Object, objects' = [objects EXCEPT ![d] = Collected(o)],
                 o.subnet = objects[d].subnet \/ objects[d].subnet = NoSubnet
          PROVE  Keeps(c)
      <4>1. Collected(o) = o \/ Collected(o).life = "gone"
        BY CollectedFields
      <4> QED
        BY <1>1, <3>1, <3>4, <4>1
    <3>5. Present(objects[d]) /\ ~me.stale => objects[d].subnet \in {NoSubnet, me.cluster.subnet}
      BY <3>1
    <3> QED
      BY <1>2, <3>3, <3>4, <3>5
  <2>5. CASE UNCHANGED objects
    BY <1>2, <2>5
  <2> QED
    BY <1>6, <2>2, <2>3, <2>4, <2>5 DEF Pass, Responsible, PickSubnet, EnsureK0sCluster,
       Prepare, CreateContainer, StartContainer, WaitReady, TargetClient, Install,
       PodsReady, ConfigureMetalLB, PublishAccess, LookupContainer, RemoveContainer,
       platformVars
<1>7. CASE \/ \E p \in Procs, d \in Clusters : Dequeue(p, d)
           \/ \E p \in Procs : Crash(p)
           \/ \E n \in Names : DockerStep(n)
           \/ \E v \in {"absent", "ours", "other"} : SetProfile(v)
           \/ UNCHANGED vars
  BY <1>2, <1>7 DEF Dequeue, Skip, Get, Crash, DockerStep, SetProfile, vars
<1> QED
  BY <1>5, <1>6, <1>7 DEF Next

\* With one process, that pass always knows.
THEOREM SliceKept == ASSUME SingleProcess PROVE Spec => SliceIsKept
<1> DEFINE A == \A c \in Clusters :
                    objects[c].subnet # NoSubnet =>
                        objects'[c].subnet = objects[c].subnet \/ objects'[c].life = "gone"
<1>1. ASSUME Ownership, [Next]_vars PROVE [A]_vars
  <2>1. ASSUME NEW p \in Procs,
               worker[p].pc \in {"addFinalizer", "assign", "removeFinalizer"},
               Present(objects[worker[p].cur])
        PROVE  objects[worker[p].cur].subnet \in {NoSubnet, worker[p].cluster.subnet}
    BY <1>1, <2>1 DEF Ownership, PassKnows, Present
  <2>2. \A c \in Clusters : ~Present(objects[c]) => objects[c].subnet = NoSubnet
    BY <1>1 DEF Ownership, PoolsOwned
  <2>3. TypeOK
    BY <1>1 DEF Ownership
  <2> QED
    BY <1>1, <2>1, <2>2, <2>3, SliceStays DEF Keeps
<1> QED
  BY <1>1, OwnershipHolds, PTL DEF Spec, SliceIsKept

=============================================================================

------------------------- MODULE ClusterController -------------------------
(***************************************************************************)
(* internal/controller/cluster: the controller that gives every Cluster    *)
(* whose ClusterProfile names this provider a k0s cluster in docker, a     *)
(* slice of the docker network as its metallb pool, and a published        *)
(* status, and that takes all of it away when the Cluster is deleted.      *)
(*                                                                         *)
(* A reconcile pass is a sequence of calls to the API server and to docker *)
(* (see K0sProvider); each call is one action here, because everybody else *)
(* (users, other controllers, docker, a second provider process while a    *)
(* rollout replaces the first) acts between two of them.  The pass keeps   *)
(* the object it read in memory and writes it back under optimistic        *)
(* locking, so it may act on what is no longer true.                       *)
(***************************************************************************)
EXTENDS K0sProvider, FiniteSets

CONSTANTS
    Clusters,        \* Cluster objects, by UID: a recreated one is another member
    ObjectName,      \* Cluster -> its name: a recreated one has its predecessor's
    Procs,           \* provider processes; each runs one reconcile worker
    NameAnnotation,  \* Cluster -> adopted name, for those that carry the annotation
    Faults,          \* kinds of fault that may happen
    MaxFaults,       \* how many of them may
    MaxEdits         \* how many edits of operators and other controllers may

FaultKinds == {"api", "docker", "start", "timeout", "target", "list", "crash"}

ASSUME ControllerAssumption ==
    /\ Clusters \subseteq Names \ Adopted
    /\ DOMAIN ObjectName = Clusters
    /\ DOMAIN NameAnnotation \subseteq Clusters
    /\ \A c \in DOMAIN NameAnnotation : NameAnnotation[c] \in Adopted
    /\ \A c, d \in DOMAIN NameAnnotation :
           NameAnnotation[c] = NameAnnotation[d] => c = d
    /\ \A c \in DOMAIN NameAnnotation, d \in Clusters :
           ObjectName[c] = ObjectName[d] => c = d
    /\ IsFiniteSet(Procs)
    /\ Faults \subseteq FaultKinds
    /\ MaxFaults \in Nat /\ MaxEdits \in Nat

VARIABLES
    objects,         \* the Clusters on the platform API server
    profile,         \* whom their ClusterProfile names
    queue,           \* each process's workqueue: names of Clusters
    worker,          \* each process's reconcile pass: pc, r.cluster, r.old, ...
    faults, edits    \* budgets spent

vars == <<objects, profile, queue, worker, faults, edits, containers, network>>

NoCluster == "no cluster"

Labels == {"idle", "operation", "profile", "addFinalizer", "pick", "assign",
           "exists", "prepare", "create", "start", "wait", "target", "install",
           "podsReady", "configure", "publish", "display", "lookup", "remove",
           "removeFinalizer", "commit"}

\* cur is the Cluster being reconciled, cluster and old are r.cluster and
\* r.old.Status.  wrote: the resourceVersion in memory differs from r.old's;
\* stale: somebody else wrote the object since the pass last synchronised with
\* it; again: the pass ends in an error or with RequeueAfter.
Worker == [pc: Labels, cur: Clusters \cup {NoCluster}, cluster: Object,
           old: Status, wrote: BOOLEAN, stale: BOOLEAN, again: BOOLEAN]

IdleWorker == [pc |-> "idle", cur |-> NoCluster, cluster |-> NoObject,
               old |-> EmptyStatus, wrote |-> FALSE, stale |-> FALSE,
               again |-> FALSE]

K0sName(c) == IF c \in DOMAIN NameAnnotation THEN NameAnnotation[c] ELSE c

ObjectNames == {ObjectName[c] : c \in Clusters}

PresentClusters == {c \in Clusters : Present(objects[c])}

\* The Cluster that now has the name of c, if there is one: c, or a successor.
Holders(c) == {d \in PresentClusters : ObjectName[d] = ObjectName[c]}

\* Mutant: a Cluster being deleted no longer counts as holding its slice.
AssignedToLive == {objects[c].subnet : c \in {d \in Clusters : objects[d].life = "live"}}

\* Every slice a listed Cluster is annotated with.
AssignedSubnets == {objects[c].subnet : c \in PresentClusters}

Init ==
    /\ objects = [c \in Clusters |-> NoObject]
    /\ profile = "absent"
    /\ queue = [p \in Procs |-> {}]
    /\ worker = [p \in Procs |-> IdleWorker]
    /\ faults = 0 /\ edits = 0
    /\ ProviderInit

----------------------------------------------------------------------------
(* Faults, writes and the ways a step of a pass can end. *)

Fault(kind) == kind \in Faults /\ faults < MaxFaults /\ faults' = faults + 1

Step(p, w) == worker' = [worker EXCEPT ![p] = w]

\* The workers in the middle of a pass over c have been overtaken.
Overtaken(c) ==
    [q \in Procs |-> IF worker[q].cur = c THEN [worker[q] EXCEPT !.stale = TRUE]
                                          ELSE worker[q]]

\* The Cluster watch has no predicate: every write of c queues its name everywhere.
Stored(c, o) ==
    /\ objects' = [objects EXCEPT ![c] = Collected(o)]
    /\ queue' = [q \in Procs |-> queue[q] \cup {ObjectName[c]}]

Write(p, c, o, w) == Stored(c, o) /\ worker' = [Overtaken(c) EXCEPT ![p] = w]

\* run returns an error or asks to be called again; the status is committed.
Fail(w) == [w EXCEPT !.pc = "commit", !.again = TRUE]

\* A failed prerequisite falsifies the aggregate.
FailK0s(w) == [Fail(w) EXCEPT !.cluster.status.k0s = "False",
                              !.cluster.status.ready = "False"]
\* Mutant: pods that are not ready yet end the pass for good.
FailMetalLBForGood(w) == [w EXCEPT !.pc = "commit", !.cluster.status.metallb = "False",
                                   !.cluster.status.ready = "False"]

FailMetalLB(w) == [Fail(w) EXCEPT !.cluster.status.metallb = "False",
                                  !.cluster.status.ready = "False"]

\* Reconcile returns an error before there is a status to commit.
Abort(p) ==
    /\ Step(p, IdleWorker)
    /\ queue' = [queue EXCEPT ![p] = @ \cup {ObjectName[worker[p].cur]}]

\* What client.Update of m stores: the API server takes neither the status nor
\* the deletion from it.
Sent(p, m) ==
    LET o == objects[worker[p].cur]
    IN  [m EXCEPT !.life = o.life, !.status = o.status]

\* w with the response of a write that stored o; its resourceVersion is new
\* unless the write took the last finalizer off.
Answered(w, m, o) == [w EXCEPT !.cluster = Decoded(m, o),
                               !.wrote = @ \/ Present(Collected(o))]

\* Mutant: the write carries no resourceVersion.
UpdateUnlocked(p, m, w) ==
    LET me == worker[p]
        o == Sent(p, m)
    IN  \/ /\ Present(objects[me.cur])
           /\ Write(p, me.cur, o, Answered(w, m, o))
           /\ UNCHANGED faults
        \/ /\ ~Present(objects[me.cur])
           /\ Step(p, Fail(me))
           /\ UNCHANGED <<objects, queue, faults>>

\* client.Update of r.cluster, which is m: refused when the object changed
\* meanwhile or is another one, and its response is decoded into r.cluster.  The
\* write may be applied and its response lost.
Update(p, m, w) ==
    LET me == worker[p]
        o == Sent(p, m)
    IN  \/ /\ ~me.stale /\ Present(objects[me.cur])
           /\ Write(p, me.cur, o, Answered(w, m, o))
           /\ UNCHANGED faults
        \/ /\ ~me.stale /\ Present(objects[me.cur])
           /\ Write(p, me.cur, o, [Fail(me) EXCEPT !.stale = TRUE])
           /\ Fault("api")
        \/ /\ me.stale \/ ~Present(objects[me.cur])
           /\ Step(p, Fail(me))
           /\ UNCHANGED <<objects, queue, faults>>
        \/ /\ Step(p, Fail(me))
           /\ Fault("api")
           /\ UNCHANGED <<objects, queue>>

At(p, label) == worker[p].pc = label

----------------------------------------------------------------------------
(* Reconcile: read the object, honour the operation annotation. *)

\* Nothing to do when the name is gone or its object is to be ignored.  (A
\* failed Get leaves the request queued, which is a stuttering step.)
Skip(p, c) ==
    /\ At(p, "idle") /\ ObjectName[c] \in queue[p]
    /\ \A d \in Holders(c) : objects[d].op = "ignore"
    /\ queue' = [queue EXCEPT ![p] = @ \ {ObjectName[c]}]
    /\ UNCHANGED <<objects, profile, worker, faults, edits, dockerVars>>

Get(p, c) ==
    /\ At(p, "idle") /\ ObjectName[c] \in queue[p]
    /\ Present(objects[c]) /\ objects[c].op # "ignore"
    /\ queue' = [queue EXCEPT ![p] = @ \ {ObjectName[c]}]
    /\ Step(p, [IdleWorker EXCEPT
                   !.pc = IF objects[c].op = "reconcile" THEN "operation" ELSE "profile",
                   !.cur = c, !.cluster = objects[c], !.old = objects[c].status])
    /\ UNCHANGED <<objects, profile, faults, edits, dockerVars>>

\* The annotation is patched away by name and without a lock; the pass works on
\* what the response makes of the object it read, which may be a successor.
RemoveOperation(p) ==
    LET me == worker[p]
        Unmarked(d) == [objects[d] EXCEPT !.op = ""]
        Read(d) == Decoded(me.cluster, Unmarked(d))
    IN  /\ At(p, "operation")
        /\ \/ /\ \E d \in Holders(me.cur) :
                     Write(p, d, Unmarked(d),
                           [me EXCEPT !.pc = "profile", !.cur = d, !.cluster = Read(d),
                                      !.old = Read(d).status, !.stale = FALSE])
              /\ UNCHANGED faults
           \/ /\ \E d \in Holders(me.cur) : Write(p, d, Unmarked(d), IdleWorker)
              /\ Fault("api")
           \/ /\ Abort(p)
              /\ IF Holders(me.cur) # {} THEN Fault("api") ELSE UNCHANGED faults
              /\ UNCHANGED objects
        /\ UNCHANGED <<profile, edits, dockerVars>>

\* Mutant: the slice is chosen again on every pass.
BeginPicksAgain(w) ==
    IF w.cluster.life = "deleting"
    THEN [w EXCEPT !.pc = "lookup"]
    ELSE [w EXCEPT !.pc = IF w.cluster.finalizer THEN "pick" ELSE "addFinalizer"]

\* Mutant: the foreign finalizers are not waited for.
BeginIgnoresForeign(w) ==
    IF w.cluster.life = "deleting"
    THEN [w EXCEPT !.cluster.status.phase = "Terminating", !.pc = "lookup"]
    ELSE [w EXCEPT !.pc = IF ~w.cluster.finalizer THEN "addFinalizer"
                          ELSE IF w.cluster.subnet = NoSubnet THEN "pick" ELSE "exists"]

\* Mutant: the slice comes before the finalizer.
BeginPicksFirst(w) ==
    IF w.cluster.life = "deleting"
    THEN [w EXCEPT !.pc = IF w.cluster.foreign THEN "commit" ELSE "lookup"]
    ELSE [w EXCEPT !.pc = IF w.cluster.subnet = NoSubnet THEN "pick"
                          ELSE IF ~w.cluster.finalizer THEN "addFinalizer" ELSE "exists"]

\* run: deletion first, then whatever of finalizer and subnet is missing.
Begin(w) ==
    LET o == w.cluster
        deletion == [w EXCEPT !.cluster.status.phase = "Terminating"]
    IN  CASE o.life = "deleting" /\ o.finalizer /\ ~o.foreign
                -> [deletion EXCEPT !.pc = "lookup"]
          [] o.life = "deleting" /\ ~(o.finalizer /\ ~o.foreign)
                -> [deletion EXCEPT !.pc = "commit", !.again = o.finalizer]
          [] o.life # "deleting" /\ ~o.finalizer -> [w EXCEPT !.pc = "addFinalizer"]
          [] o.life # "deleting" /\ o.finalizer /\ o.subnet = NoSubnet
                -> [w EXCEPT !.pc = "pick"]
          [] OTHER -> [w EXCEPT !.pc = "exists"]

Responsible(p) ==
    /\ At(p, "profile")
    /\ \/ /\ profile = "ours"
          /\ Step(p, Begin(worker[p]))
          /\ UNCHANGED <<queue, faults>>
       \/ /\ profile # "ours"
          /\ Step(p, IdleWorker)
          /\ UNCHANGED <<queue, faults>>
       \/ Abort(p) /\ Fault("api")
    /\ UNCHANGED <<objects, profile, edits, dockerVars>>

EnsureFinalizer(p) ==
    /\ At(p, "addFinalizer")
    /\ Update(p, [worker[p].cluster EXCEPT !.finalizer = TRUE],
                 [worker[p] EXCEPT !.pc = "commit"])
    /\ UNCHANGED <<profile, edits, dockerVars>>

----------------------------------------------------------------------------
(* ensureSubnet: choose a free slice, then persist it as an annotation. *)

\* Mutant: an exhausted network is not an error.
PickSubnetGivesUp(p) ==
    LET me == worker[p]
    IN  /\ At(p, "pick")
        /\ IF FreeSlices(AssignedSubnets) = {}
           THEN Step(p, [me EXCEPT !.pc = "commit"])
           ELSE \E s \in FreeSlices(AssignedSubnets) :
                    /\ NextAvailableLBNetwork(AssignedSubnets, s)
                    /\ Step(p, [me EXCEPT !.pc = "assign", !.cluster.subnet = s])
        /\ UNCHANGED <<objects, profile, queue, faults, edits, dockerVars>>

\* The network is inspected and the Clusters are listed under a mutex of this
\* process, which is released before the slice is persisted.
PickSubnet(p) ==
    LET me == worker[p]
    IN  /\ At(p, "pick")
        /\ \/ /\ network
              /\ \E s \in FreeSlices(AssignedSubnets) :
                     /\ NextAvailableLBNetwork(AssignedSubnets, s)
                     /\ Step(p, [me EXCEPT !.pc = "assign", !.cluster.subnet = s])
              /\ UNCHANGED faults
           \/ /\ ~network \/ FreeSlices(AssignedSubnets) = {}
              /\ Step(p, Fail(me))
              /\ UNCHANGED faults
           \/ Step(p, Fail(me)) /\ Fault("api")
        /\ UNCHANGED <<objects, profile, queue, edits, dockerVars>>

AssignSubnet(p) ==
    /\ At(p, "assign")
    /\ Update(p, worker[p].cluster, [worker[p] EXCEPT !.pc = "exists"])
    /\ UNCHANGED <<profile, edits, dockerVars>>

----------------------------------------------------------------------------
(* ensureK0sCluster and Provider.CreateCluster. *)

platformVars == <<objects, profile, queue, edits>>

K0sUp(w) == [w EXCEPT !.pc = "target", !.cluster.status.k0s = "True"]

EnsureK0sCluster(p) ==
    LET me == [worker[p] EXCEPT !.cluster.status.phase = "Progressing"]
        n == K0sName(me.cur)
    IN  /\ At(p, "exists")
        /\ \/ ClusterExists(n) /\ Step(p, K0sUp(me)) /\ UNCHANGED faults
           \/ ~ClusterExists(n) /\ Step(p, [me EXCEPT !.pc = "prepare"]) /\ UNCHANGED faults
           \/ Step(p, FailK0s(me)) /\ Fault("docker")
        /\ UNCHANGED <<platformVars, dockerVars>>

\* clusterOptions, ensureImage, ensureNetwork, freePort.
Prepare(p) ==
    /\ At(p, "prepare")
    /\ \/ /\ EnsureNetwork
          /\ Step(p, [worker[p] EXCEPT !.pc = "create"])
          /\ UNCHANGED faults
       \/ /\ network' \in {network, TRUE}
          /\ Step(p, FailK0s(worker[p]))
          /\ Fault("docker")
    /\ UNCHANGED <<platformVars, containers>>

CreateContainer(p) ==
    LET me == worker[p]
        n == K0sName(me.cur)
    IN  /\ At(p, "create")
        /\ \/ /\ ContainerCreate(n)
              /\ Step(p, [me EXCEPT !.pc = "start"])
              /\ UNCHANGED faults
           \/ /\ ContainerCreate(n) \/ UNCHANGED containers
              /\ Step(p, FailK0s(me))
              /\ Fault("docker")
           \/ /\ ClusterExists(n)
              /\ Step(p, FailK0s(me))
              /\ UNCHANGED <<containers, faults>>
        /\ UNCHANGED <<platformVars, network>>

\* "start": the host port freePort found is taken, docker cannot start the
\* container.
StartContainer(p) ==
    LET me == worker[p]
        n == K0sName(me.cur)
    IN  /\ At(p, "start")
        /\ \/ /\ ContainerStart(n)
              /\ Step(p, [me EXCEPT !.pc = "wait"])
              /\ UNCHANGED faults
           \/ /\ Step(p, FailK0s(me))
              /\ Fault("start")
              /\ UNCHANGED containers
           \/ /\ containers[n].state # "created"
              /\ Step(p, FailK0s(me))
              /\ UNCHANGED <<containers, faults>>
        /\ UNCHANGED <<platformVars, network>>

\* Blocks the worker until k0s answers or the timeout expires.
WaitReady(p) ==
    LET me == worker[p]
        n == K0sName(me.cur)
    IN  /\ At(p, "wait")
        /\ \/ Answers(n) /\ Step(p, K0sUp(me)) /\ UNCHANGED faults
           \/ ~Answers(n) /\ Step(p, FailK0s(me)) /\ Fault("timeout")
           \/ ~KubeconfigOK(n) /\ Step(p, FailK0s(me)) /\ UNCHANGED faults
        /\ UNCHANGED <<platformVars, dockerVars>>

----------------------------------------------------------------------------
(* ensureMetalLB *)

\* A failure to reach the k0s cluster changes no condition.
TargetClient(p) ==
    LET me == worker[p]
        n == K0sName(me.cur)
    IN  /\ At(p, "target")
        /\ \/ KubeconfigOK(n) /\ Step(p, [me EXCEPT !.pc = "install"]) /\ UNCHANGED faults
           \/ KubeconfigFails(n) /\ Step(p, Fail(me)) /\ UNCHANGED faults
           \/ Step(p, Fail(me)) /\ Fault("docker")
        /\ UNCHANGED <<platformVars, dockerVars>>

Install(p) ==
    LET me == worker[p]
        n == K0sName(me.cur)
    IN  /\ At(p, "install")
        /\ \/ /\ InstallMetalLB(n)
              /\ Step(p, [me EXCEPT !.pc = "podsReady"])
              /\ UNCHANGED faults
           \/ /\ ~Answers(n)
              /\ Step(p, FailMetalLB(me))
              /\ UNCHANGED <<containers, faults>>
           \/ /\ InstallMetalLB(n) \/ UNCHANGED containers
              /\ Step(p, FailMetalLB(me))
              /\ Fault("target")
        /\ UNCHANGED <<platformVars, network>>

\* Pods that are not ready are no error: the pass is requeued after a delay.
PodsReady(p) ==
    LET me == worker[p]
        c == containers[K0sName(me.cur)]
    IN  /\ At(p, "podsReady")
        /\ \/ /\ c.state = "ready" /\ c.metallb = "ready"
              /\ Step(p, [me EXCEPT !.pc = "configure"])
              /\ UNCHANGED faults
           \/ /\ c.state # "ready" \/ c.metallb # "ready"
              /\ Step(p, FailMetalLB(me))
              /\ UNCHANGED faults
           \/ Step(p, FailMetalLB(me)) /\ Fault("target")
        /\ UNCHANGED <<platformVars, dockerVars>>

\* Mutant: a failure to configure the address pool goes unnoticed.
ConfigureMetalLBUnchecked(p) ==
    LET me == worker[p]
    IN  /\ At(p, "configure")
        /\ ConfigureSubnet(K0sName(me.cur), me.cluster.subnet) \/ UNCHANGED containers
        /\ Step(p, [me EXCEPT !.pc = "publish", !.cluster.status.metallb = "True"])
        /\ UNCHANGED <<platformVars, faults, network>>

ConfigureMetalLB(p) ==
    LET me == worker[p]
        n == K0sName(me.cur)
    IN  /\ At(p, "configure")
        /\ \/ /\ ConfigureSubnet(n, me.cluster.subnet)
              /\ Step(p, [me EXCEPT !.pc = "publish", !.cluster.status.metallb = "True"])
              /\ UNCHANGED faults
           \/ /\ ~Answers(n)
              /\ Step(p, FailMetalLB(me))
              /\ UNCHANGED <<containers, faults>>
           \/ /\ ConfigureSubnet(n, me.cluster.subnet) \/ UNCHANGED containers
              /\ Step(p, FailMetalLB(me))
              /\ Fault("target")
        /\ UNCHANGED <<platformVars, network>>

----------------------------------------------------------------------------
(* publishAccess, ensureDisplayMetadata, commitStatus *)

MarkReady(w) == [w EXCEPT !.pc = "commit", !.cluster.status.phase = "Ready",
                          !.cluster.status.ready = "True"]

\* Mutant: Ready is published although an endpoint could not be determined.
PublishAccessUnchecked(p) ==
    LET me == [worker[p] EXCEPT !.cluster.status.provider = TRUE]
    IN  /\ At(p, "publish")
        /\ \E e \in BOOLEAN : Step(p, MarkReady([me EXCEPT !.cluster.status.endpoints = e]))
        /\ UNCHANGED <<platformVars, faults, dockerVars>>

\* Provider status, endpoints, and the server version behind the labels.
PublishAccess(p) ==
    LET me == [worker[p] EXCEPT !.cluster.status.provider = TRUE]
        n == K0sName(me.cur)
        published == [me EXCEPT !.cluster.status.endpoints = TRUE]
    IN  /\ At(p, "publish")
        /\ \/ /\ Answers(n)
              /\ Step(p, IF me.cluster.shown THEN MarkReady(published)
                                             ELSE [published EXCEPT !.pc = "display"])
              /\ UNCHANGED faults
           \/ /\ Step(p, Fail(me)) \/ (KubeconfigOK(n) /\ Step(p, Fail(published)))
              /\ IF Answers(n) THEN Fault("docker") ELSE UNCHANGED faults
        /\ UNCHANGED <<platformVars, dockerVars>>

\* A merge patch by name and without a lock; its response is decoded into
\* r.cluster, the status included.  On a successor it shows the wrong k0s cluster.
DisplayMetadata(p) ==
    LET me == worker[p]
        Shown(d) == [objects[d] EXCEPT !.shown = (d = me.cur)]
    IN  /\ At(p, "display")
        /\ \/ /\ \E d \in Holders(me.cur) :
                     Write(p, d, Shown(d),
                           MarkReady([me EXCEPT !.cur = d,
                                                !.cluster = Decoded(me.cluster, Shown(d)),
                                                !.wrote = TRUE, !.stale = FALSE]))
              /\ UNCHANGED faults
           \/ /\ \E d \in Holders(me.cur) :
                     Write(p, d, Shown(d), [Fail(me) EXCEPT !.stale = TRUE])
              /\ Fault("api")
           \/ /\ Step(p, Fail(me))
              /\ IF Holders(me.cur) # {} THEN Fault("api") ELSE UNCHANGED faults
              /\ UNCHANGED <<objects, queue>>
        /\ UNCHANGED <<profile, edits, dockerVars>>

\* The status is patched by name.  The patch carries r.cluster's
\* resourceVersion, and so can conflict, only when a write of this pass changed
\* it; otherwise it lands on whichever object has the name.
CommitStatus(p) ==
    LET me == worker[p]
        Patched(d) == [objects[d] EXCEPT
                          !.status = PatchedStatus(@, me.old, me.cluster.status)]
        Conflict(d) == me.wrote /\ (me.stale \/ d # me.cur)
        Return(again) == queue' = [queue EXCEPT ![p] =
                             IF again THEN @ \cup {ObjectName[me.cur]} ELSE @]
    IN  /\ At(p, "commit")
        /\ \/ /\ me.cluster.status = me.old \/ Holders(me.cur) = {}
              /\ Step(p, IdleWorker) /\ Return(me.again)
              /\ UNCHANGED <<objects, faults>>
           \/ /\ me.cluster.status # me.old
              /\ \E d \in Holders(me.cur) :
                     ~Conflict(d) /\ Write(p, d, Patched(d), IdleWorker)
              /\ UNCHANGED faults \/ Fault("api")
           \/ /\ me.cluster.status # me.old
              /\ \E d \in Holders(me.cur) :
                     IF Conflict(d) THEN UNCHANGED faults ELSE Fault("api")
              /\ Step(p, IdleWorker) /\ Return(TRUE)
              /\ UNCHANGED objects
        /\ UNCHANGED <<profile, edits, dockerVars>>

----------------------------------------------------------------------------
(* handleDeletion *)

\* Mutant: without a container there is nothing to do.
LookupContainerReturns(p) ==
    LET me == worker[p]
    IN  /\ At(p, "lookup")
        /\ Step(p, [me EXCEPT !.pc = IF ClusterExists(K0sName(me.cur))
                                     THEN "remove" ELSE "commit"])
        /\ UNCHANGED <<platformVars, faults, dockerVars>>

\* Mutant: the finalizer is taken off before the container is removed.
LookupContainerReleases(p) ==
    LET me == worker[p]
    IN  /\ At(p, "lookup")
        /\ Step(p, [me EXCEPT !.pc = "removeFinalizer"])
        /\ UNCHANGED <<platformVars, faults, dockerVars>>

LookupContainer(p) ==
    LET me == worker[p]
    IN  /\ At(p, "lookup")
        /\ \/ /\ Step(p, [me EXCEPT !.pc = IF ClusterExists(K0sName(me.cur))
                                           THEN "remove" ELSE "removeFinalizer"])
              /\ UNCHANGED faults
           \/ Step(p, Fail(me)) /\ Fault("docker")
        /\ UNCHANGED <<platformVars, dockerVars>>

\* Mutant: the error of DeleteCluster is dropped.
RemoveContainerUnchecked(p) ==
    LET me == worker[p]
    IN  /\ At(p, "remove")
        /\ DeleteCluster(K0sName(me.cur)) \/ UNCHANGED containers
        /\ Step(p, [me EXCEPT !.pc = "removeFinalizer"])
        /\ UNCHANGED <<platformVars, faults, network>>

RemoveContainer(p) ==
    LET me == worker[p]
        n == K0sName(me.cur)
    IN  /\ At(p, "remove")
        /\ \/ /\ DeleteCluster(n)
              /\ Step(p, [me EXCEPT !.pc = "removeFinalizer"])
              /\ UNCHANGED faults
           \/ /\ DeleteCluster(n) \/ UNCHANGED containers
              /\ Step(p, Fail(me))
              /\ Fault("docker")
        /\ UNCHANGED <<platformVars, network>>

RemoveFinalizer(p) ==
    /\ At(p, "removeFinalizer")
    /\ Update(p, [worker[p].cluster EXCEPT !.finalizer = FALSE],
                 [worker[p] EXCEPT !.pc = "commit"])
    /\ UNCHANGED <<profile, edits, dockerVars>>

----------------------------------------------------------------------------
(* Everybody else. *)

\* An edit of c that is not the provider's.
Edit(c, o) ==
    /\ Stored(c, o)
    /\ worker' = Overtaken(c)
    /\ UNCHANGED <<profile, faults, dockerVars>>

\* A name is free again once its last holder is gone.
CreateObject(c) ==
    /\ objects[c].life = "none" /\ Holders(c) = {}
    /\ Edit(c, [NoObject EXCEPT !.life = "live"])
    /\ UNCHANGED edits

DeleteObject(c) ==
    /\ objects[c].life = "live"
    /\ Edit(c, [objects[c] EXCEPT !.life = "deleting"])
    /\ UNCHANGED edits

SetOperation(c, v) ==
    /\ edits < MaxEdits /\ edits' = edits + 1
    /\ Present(objects[c]) /\ objects[c].op # v
    /\ Edit(c, [objects[c] EXCEPT !.op = v])

\* The API server refuses a new finalizer on an object being deleted.
AddForeignFinalizer(c) ==
    /\ edits < MaxEdits /\ edits' = edits + 1
    /\ objects[c].life = "live" /\ ~objects[c].foreign
    /\ Edit(c, [objects[c] EXCEPT !.foreign = TRUE])

RemoveForeignFinalizer(c) ==
    /\ Present(objects[c]) /\ objects[c].foreign
    /\ Edit(c, [objects[c] EXCEPT !.foreign = FALSE])
    /\ UNCHANGED edits

\* Each process's ClusterProfile watch queues the Clusters that use the
\* profile; a process that fails to list them drops the event.
SetProfile(v) ==
    /\ edits < MaxEdits /\ edits' = edits + 1
    /\ profile # v /\ profile' = v
    /\ \E missed \in SUBSET Procs :
           /\ missed # {} => "list" \in Faults
           /\ faults' = faults + Cardinality(missed) /\ faults' <= MaxFaults
           /\ queue' = [p \in Procs |-> IF p \in missed THEN queue[p]
                                        ELSE queue[p] \cup {ObjectName[c] : c \in PresentClusters}]
    /\ UNCHANGED <<objects, worker, dockerVars>>

\* A restarted process lists all Clusters and queues them.
Crash(p) ==
    /\ Fault("crash")
    /\ Step(p, IdleWorker)
    /\ queue' = [queue EXCEPT ![p] = {ObjectName[c] : c \in PresentClusters}]
    /\ UNCHANGED <<objects, profile, edits, dockerVars>>

----------------------------------------------------------------------------

Pass(p) ==
    \/ RemoveOperation(p) \/ Responsible(p) \/ EnsureFinalizer(p)
    \/ PickSubnet(p) \/ AssignSubnet(p)
    \/ EnsureK0sCluster(p) \/ Prepare(p) \/ CreateContainer(p)
    \/ StartContainer(p) \/ WaitReady(p)
    \/ TargetClient(p) \/ Install(p) \/ PodsReady(p) \/ ConfigureMetalLB(p)
    \/ PublishAccess(p) \/ DisplayMetadata(p) \/ CommitStatus(p)
    \/ LookupContainer(p) \/ RemoveContainer(p) \/ RemoveFinalizer(p)

Dequeue(p, c) == Skip(p, c) \/ Get(p, c)

UserStep(c) ==
    \/ CreateObject(c) \/ DeleteObject(c)
    \/ \E v \in Operations : SetOperation(c, v)
    \/ AddForeignFinalizer(c) \/ RemoveForeignFinalizer(c)

DockerStep(n) ==
    /\ Boot(n) \/ MetalLBPodsReady(n)
    /\ UNCHANGED <<objects, profile, queue, worker, faults, edits>>

Next ==
    \/ \E p \in Procs : Pass(p) \/ Crash(p) \/ \E c \in Clusters : Dequeue(p, c)
    \/ \E c \in Clusters : UserStep(c)
    \/ \E v \in {"absent", "ours", "other"} : SetProfile(v)
    \/ \E n \in Names : DockerStep(n)

Spec == Init /\ [][Next]_vars

\* A worker runs its pass to the end (waitReady gives up after a while, every
\* other call is answered or fails), the workqueue hands out every request it
\* holds, and docker, k0s and the kubelet bring up what was started.  Nothing
\* is promised of users, crashes and faults.
FairSpec ==
    /\ Spec
    /\ \A p \in Procs : WF_vars(Pass(p))
    /\ \A p \in Procs, c \in Clusters : SF_vars(Dequeue(p, c))
    /\ \A n \in Names : WF_vars(DockerStep(n))

----------------------------------------------------------------------------
(* Safety *)

\* Every variable keeps its type, and a worker in a pass knows its Cluster.
TypeOK ==
    /\ objects \in [Clusters -> Object]
    /\ profile \in {"absent", "ours", "other"}
    /\ queue \in [Procs -> SUBSET ObjectNames]
    /\ worker \in [Procs -> Worker]
    /\ \A p \in Procs : worker[p].pc = "idle" \/ worker[p].cur \in Clusters
    /\ faults \in Nat /\ edits \in Nat
    /\ ProviderTypeOK

\* No two Clusters on the API server are annotated with the same slice of the
\* docker network (lockListClusters: "cannot hand out the same slice").
SubnetsDisjoint ==
    \A c, d \in PresentClusters :
        objects[c].subnet = objects[d].subnet => c = d \/ objects[c].subnet = NoSubnet

\* No two k0s clusters that docker runs announce addresses from the same
\* slice, not even while one is being deleted and its slice reused: handleDeletion
\* must take the container away before the finalizer, and with it the
\* annotation, goes.
PoolsDisjoint ==
    \A m, n \in Names :
        containers[m].pool = containers[n].pool => m = n \/ containers[m].pool = NoSubnet

\* A container of the provider always has a Cluster that will clean it up: it
\* exists, holds the finalizer, and its slice was persisted first, so that a
\* restart between any two calls can neither orphan the container nor lose
\* the slice its metallb pool was cut from (ensureSubnet).
ContainersOwned ==
    \A c \in Clusters :
        LET n == K0sName(c)
        IN  (n \notin Adopted /\ containers[n].state # "absent")
              \/ containers[n].pool # NoSubnet =>
                  /\ Present(objects[c]) /\ objects[c].finalizer
                  /\ objects[c].subnet # NoSubnet
                  /\ containers[n].pool \in {NoSubnet, objects[c].subnet}

\* The k0s cluster in container n answers, with metallb up and serving the slice
\* of Cluster object o.
Serves(n, o) ==
    /\ n.state = "ready" /\ n.metallb = "ready" /\ n.pool = o.subnet
    /\ o.subnet # NoSubnet

\* What a Cluster in phase Ready promises its users: such a k0s cluster, and the
\* access data published.
Usable(c) ==
    LET o == objects[c]
    IN  /\ Serves(containers[K0sName(c)], o)
        /\ o.status.provider /\ o.status.endpoints /\ o.shown

UsableWhenReady(c) ==
    objects[c].life = "live" /\ objects[c].status.phase = "Ready" => Usable(c)

\* A live Cluster in phase Ready is usable: a pass that worked on stale data,
\* failed half way or had its status response lost never publishes Ready for
\* a k0s cluster that is not there (publishAccess, commitStatus).  With one
\* process only: the patches of a second one may land on a successor.
ReadyMeansUsable == \A c \in Clusters : UsableWhenReady(c)

\* No other Cluster has or had the name of c.
Unshared(c) ==
    \A d \in Clusters \ {c} : ObjectName[d] = ObjectName[c] => objects[d].life = "none"

\* As ReadyMeansUsable, with any number of processes, of a Cluster whose name no
\* other one had before it: the status patches are not locked, but what they
\* publish stays true of the object they were meant for.
UnsharedReadyMeansUsable == \A c \in Clusters : Unshared(c) => UsableWhenReady(c)

\* What a Cluster's conditions are to say in the end.
AllTrue(s) == Conditions(s) = <<"True", "True", "True">>

\* The object is as the controller wants it: Ready, or let go of.
Reached(o) ==
    IF o.life = "deleting"
    THEN ~o.finalizer
    ELSE o.status.phase = "Ready" /\ AllTrue(o.status)

\* No wakeup is lost: when the controller has nothing left to do, every Cluster
\* of the provider that is not to be ignored has reached its goal.  Whatever
\* made a pass stop early (an error, a conflict, pods that were not ready, a
\* foreign finalizer, a profile that was not there yet) queues it again.
QuiescentMeansSettled ==
    (profile = "ours" /\ \A p \in Procs : At(p, "idle") /\ queue[p] = {}) =>
        \A c \in PresentClusters : objects[c].op # "ignore" => Reached(objects[c])

\* Nor does a Cluster stay Ready without a usable k0s cluster when the controller
\* has nothing left to do: where a patch meant for a predecessor of its name has
\* landed on it, which two processes can bring about, its own pass puts that
\* right (ensureK0sCluster, ensureMetalLB, ensureDisplayMetadata look again).
QuiescentMeansUsable ==
    (profile = "ours" /\ \A p \in Procs : At(p, "idle") /\ queue[p] = {}) =>
        \A c \in Clusters :
            objects[c].life = "live" /\ objects[c].op # "ignore" => Usable(c)

----------------------------------------------------------------------------
(* Why the safety properties hold, with one process: what a pass may rely on *)

SingleProcess == \A p, q \in Procs : p = q

\* Steps taken by a pass that saw the provider's finalizer, the ones of them
\* that build the k0s cluster, and the ones that take it away.
Building == {"exists", "prepare", "create", "start", "wait", "target", "install",
             "podsReady", "configure", "publish", "display"}
Removing == {"lookup", "remove", "removeFinalizer"}
Owning == {"pick", "assign"} \cup Building \cup Removing

\* A name has one holder at a time.
OneHolder == \A c, d \in PresentClusters : ObjectName[c] = ObjectName[d] => c = d

\* The object in memory is old, but what a pass concludes from it is still so:
\* only this worker adds the provider's finalizer, takes it off or assigns a
\* slice, a deletion is final, and no finalizer is added to an object being
\* deleted.  A successor of the object the pass read has no finalizer to decode.
PassKnows(p) ==
    LET me == worker[p]
        o == objects[me.cur]
    IN  me.pc \notin {"idle", "commit"} =>
            /\ me.cluster.finalizer => Present(o) /\ o.finalizer
            /\ me.cluster.finalizer /\ me.cluster.life = "deleting" =>
                   o.life = "deleting" /\ (~me.cluster.foreign => ~o.foreign)
            /\ me.pc = "operation" /\ ~me.cluster.finalizer =>
                   \A d \in Holders(me.cur) : ~objects[d].finalizer
            /\ me.cluster.subnet # NoSubnet => me.cluster.finalizer
            /\ me.pc # "assign" => me.cluster.subnet = o.subnet \/ o.life = "gone"
            /\ me.pc = "pick" => me.cluster.subnet = NoSubnet
            /\ me.pc = "assign" => /\ o.subnet = NoSubnet
                                   /\ me.cluster.subnet \in Slices \ AssignedSubnets
            /\ me.pc \in Owning => me.cluster.finalizer
            /\ me.pc \in Building => me.cluster.subnet # NoSubnet
            /\ me.pc \in Removing => me.cluster.life = "deleting" /\ ~me.cluster.foreign
            /\ me.pc = "removeFinalizer" => ~ClusterExists(K0sName(me.cur))

\* A pool belongs to a Cluster, a slice to one with the finalizer, and an object
\* that is not there holds nothing.
PoolsOwned ==
    /\ \A n \in Names : containers[n].pool # NoSubnet => \E c \in Clusters : n = K0sName(c)
    /\ \A n \in Names : containers[n].state = "absent" => containers[n].pool = NoSubnet
    /\ \A c \in Clusters :
           /\ objects[c].subnet # NoSubnet => objects[c].finalizer
           /\ ~Present(objects[c]) => ~objects[c].finalizer /\ ~objects[c].foreign

\* The inductive invariant behind SubnetsDisjoint, ContainersOwned and
\* PoolsDisjoint, and behind ForeignFinalizersFirst: the disjointness and the
\* ownership are kept because every pass acts on what PassKnows says it knows.
Ownership ==
    /\ TypeOK
    /\ OneHolder
    /\ SubnetsDisjoint
    /\ ContainersOwned
    /\ PoolsOwned
    /\ \A p \in Procs : PassKnows(p)

----------------------------------------------------------------------------
(* Why Ready can be trusted, with any number of processes *)

\* The steps of a pass at which the k0s cluster serves the slice.
Publishing == {"publish", "display"}

\* What pass me has seen or written of an object o that is not deleted meanwhile
\* stays: the slice, once there; the published data; the display metadata; and the
\* k0s cluster in container n, which only a pass that saw the deletion removes.  A
\* slice still to be written is for an object without one, or the write will be
\* refused.
Sees(me, o, n) ==
    LET s == me.cluster.status
    IN  /\ Present(o) =>
            /\ me.old.provider => s.provider /\ o.status.provider
            /\ me.old.endpoints => s.endpoints /\ o.status.endpoints
            /\ me.pc = "operation" => s = me.old
            /\ me.cluster.shown => o.shown
            /\ me.pc # "commit" /\ ~me.stale => me.cluster.shown = o.shown
            /\ me.cluster.life = "deleting" => o.life = "deleting"
            /\ me.pc \notin {"assign", "commit"} =>
                   /\ me.cluster.subnet \in {NoSubnet, o.subnet}
                   /\ ~me.stale => me.cluster.subnet = o.subnet
            /\ me.pc = "pick" => me.cluster.subnet = NoSubnet
            /\ me.pc = "assign" => /\ me.cluster.subnet # NoSubnet
                                   /\ ~me.stale => o.subnet = NoSubnet
            /\ me.pc \in Building => me.cluster.subnet # NoSubnet
            /\ me.pc \in Removing => me.cluster.life = "deleting"
            /\ me.pc = "display" => s.provider /\ s.endpoints
        /\ o.life = "live" =>
            /\ me.pc = "configure" => n.state = "ready" /\ n.metallb = "ready"
            /\ me.pc \in Publishing => Serves(n, o)
            /\ s.phase = "Ready" => Serves(n, o) /\ s.provider /\ s.endpoints /\ o.shown

\* A pass knows what it saw of a Cluster whose name no other one had: a patch by
\* name then lands on it or on nothing.
PassSees(p) ==
    LET me == worker[p]
        o == objects[me.cur]
    IN  me.pc # "idle" =>
            /\ o.life # "none"
            /\ Unshared(me.cur) => Sees(me, o, containers[K0sName(me.cur)])

\* The inductive invariant behind UnsharedReadyMeansUsable.
Readiness ==
    /\ TypeOK
    /\ UnsharedReadyMeansUsable
    /\ \A c \in Clusters : ~Present(objects[c]) => objects[c].subnet = NoSubnet
    /\ \A p \in Procs : PassSees(p)

----------------------------------------------------------------------------
(* Why no wakeup is lost, with any number of processes *)

\* Pass me works on the object as it is, and whichever way it ends, the goal is
\* reached or the Cluster is queued again.
Conclusive(me, o) ==
    LET s == me.cluster.status
    IN  /\ me.pc # "idle" /\ ~me.stale /\ me.old = o.status
        /\ me.cluster.life = o.life /\ me.cluster.finalizer = o.finalizer
        /\ me.pc \in Building => o.life = "live"
        /\ me.pc \in {"target", "install", "podsReady", "configure"} \cup Publishing =>
               s.k0s = "True"
        /\ me.pc \in Publishing => s.metallb = "True"
        /\ me.pc = "commit" =>
               \/ me.again \/ Reached(o)
               \/ o.life = "live" /\ s.phase = "Ready" /\ AllTrue(s)

\* p has nothing to do for c, or will come to it.
Attended(p, c) ==
    LET o == objects[c]
    IN  Present(o) /\ o.op # "ignore" =>
            Reached(o) \/ ObjectName[c] \in queue[p] \/ (worker[p].cur = c /\ Conclusive(worker[p], o))

\* The inductive invariant behind QuiescentMeansSettled: of the processes, one at
\* least has seen all there is to see since the profile last came to name the
\* provider.
Attendance ==
    /\ TypeOK
    /\ OneHolder
    /\ profile = "ours" => \E p \in Procs : \A c \in Clusters : Attended(p, c)

----------------------------------------------------------------------------
(* Action properties *)

\* Once a Cluster has a slice it keeps it until the object is gone, whatever
\* passes restart, conflict or repeat (ensureSubnet returns early).
SliceIsKept ==
    [][\A c \in Clusters :
           objects[c].subnet # NoSubnet =>
               objects'[c].subnet = objects[c].subnet \/ objects'[c].life = "gone"]_vars

\* "Foreign finalizers first: other controllers still need the k0s cluster":
\* a container is taken away only from a Cluster that at that moment is being
\* deleted, is held by nobody else and still holds the provider's finalizer.
ForeignFinalizersFirst ==
    [][\A c \in Clusters :
           LET n == K0sName(c)
           IN  containers[n].state # "absent" /\ containers'[n].state = "absent" =>
                   /\ objects[c].life = "deleting"
                   /\ objects[c].finalizer /\ ~objects[c].foreign]_vars

----------------------------------------------------------------------------
(* Liveness, under FairSpec *)

\* The outside world lets c come up: it has a slice, or one is free.
Undisturbed(c) ==
    /\ profile = "ours" /\ objects[c].life = "live" /\ objects[c].op # "ignore"
    /\ objects[c].subnet # NoSubnet \/ FreeSlices(AssignedSubnets) # {}

\* A container that was created but never started.
NeverStarted(c) == containers[K0sName(c)].state = "created"

\* A live Cluster that is left alone becomes Ready, with the aggregate and both
\* prerequisites True, and stays so, unless its container was created and
\* never started; other Clusters that cannot come up do not hold it up.
EventuallyReady ==
    \A c \in Clusters :
        <>[](Undisturbed(c) /\ ~NeverStarted(c)) =>
            <>[](/\ Usable(c) /\ objects[c].status.phase = "Ready"
                 /\ AllTrue(objects[c].status))

\* A Cluster being deleted, once no other controller holds it, is not to be
\* ignored and its profile names the provider, goes away and frees its slice.
EventuallyGone ==
    \A c \in Clusters :
        <>[](profile = "ours" /\ objects[c].op # "ignore" /\ ~objects[c].foreign) =>
            (objects[c].life = "deleting" ~> objects[c].life = "gone")

----------------------------------------------------------------------------
(* What comments of the repository claim and the code does not do *)

\* provider.go on freePort: "If the host port isn't free the container fails
\* and is retried."
StartIsRetried == \A c \in Clusters : <>[]Undisturbed(c) => <>[]~NeverStarted(c)

\* networking.go on ensureNetwork: "creates the configured docker network if
\* it does not exist".
NetworkIsCreated ==
    \A c \in Clusters :
        <>[](profile = "ours" /\ objects[c].life = "live" /\ objects[c].op # "ignore")
            => <>network

\* conditions.go: "ConditionReady is the aggregate readiness of the Cluster";
\* "A failed prerequisite immediately falsifies the aggregate."
ReadyIsAggregate ==
    \A c \in Clusters :
        objects[c].status.ready = "True" =>
            objects[c].status.k0s = "True" /\ objects[c].status.metallb = "True"
=============================================================================

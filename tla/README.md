# A verification project for cluster-provider-k0s

`cluster-provider-k0s` is a Kubernetes operator. For every `Cluster` object on a platform API
server whose `ClusterProfile` names this provider it runs a single-node k0s cluster in a docker
container, gives it a slice of the docker network as the address pool of metallb, and publishes
how to reach it. It also grants access to those clusters on request, and publishes the
`ClusterProfile`s by which the scheduler finds it. This directory holds TLA+ modules of the three
controllers and of what they use, the TLC configurations that check them, and TLAPS proofs about
them.

Paths below are relative to `src/`.

## The system

| Part | State it keeps | Operations | Talks to |
|---|---|---|---|
| Cluster controller (`internal/controller/cluster`) | none of its own; the `Cluster` object (finalizer, annotations, labels, status) is its memory, a pass keeps a copy of it | `Reconcile`, the pass in `reconciler.go`, the profile watch | platform API server, k0s provider, the API server inside each k0s cluster |
| k0s provider (`pkg/k0s/provider.go`) | none; docker keeps containers and the network | `CreateCluster`, `DeleteCluster`, `ClusterExists`, `Kubeconfig` | docker; a command in the container |
| Subnet allocation (`pkg/k0s/networking.go`) | a mutex per process; the allocations are the annotations of the `Cluster`s | `NextAvailableLBNetwork`, `SubnetFromCluster`, `ensureNetwork` | docker, platform API server |
| AccessRequest controller (`internal/controller/accessrequest`) | none of its own; the `AccessRequest` (finalizer, phase, condition), its Secret, service account and roles in the k0s cluster | grant, renew, clean up, delete | platform API server, k0s provider, the API server inside each k0s cluster |
| ProviderConfig controller (`internal/controller/config`) | none of its own; the status of the `ProviderConfig`, the `ClusterProfile` it owns | create or update the profile | platform API server |
| Process (`cmd/cluster-provider-k0s`) | flags; the workqueues live and die with it | `init` installs CRDs, `run` starts the three controllers | |

What ties the parts together: the ProviderConfig controller writes the `ClusterProfile`, whose watch
queues the `Cluster`s that use it; the cluster controller calls the provider and the subnet
allocation; the AccessRequest controller reads the `Cluster` and finds the container by the same
name (`K0sName`), whatever the cluster controller is doing to it. Users and other controllers create,
edit and delete `Cluster`s, `AccessRequest`s and `ProviderConfig`s, put an operation annotation on
them, hold them with finalizers of their own, delete Secrets and write profiles. Names outlive objects:
a `Cluster` or a `ProviderConfig` may be another one under the same name from one call to the next.

What is hard here:

* a pass is up to a dozen remote calls with an object read at the beginning, and anybody writes
  that object, or docker changes, between two of them;
* every call can fail, be applied with its response lost, or be the last one before a crash; the
  next pass starts from what docker and the API server happen to hold;
* the choice of a slice and its persisting are two steps, and leader election is optional, so a
  rollout has two processes at work;
* what a status promises must be true of three other systems (docker, k0s, metallb);
* the order of teardown decides whether a container is orphaned or a slice given away while
  something still announces it;
* many passes stop early without an error and rely on somebody to queue the object again: a watch, or a
  timer that does not survive a restart.

What makes each part correct:

* cluster controller: no container without a `Cluster` that will remove it; `Ready` only for a
  usable cluster; foreign finalizers are waited for; no wakeup is lost; a Cluster left alone becomes
  Ready, a deleted one goes away;
* subnet allocation: two Clusters never hold the same slice, a Cluster keeps the one it has, and
  what is handed out overlaps nothing that is held;
* k0s provider: every operation can be repeated after it stopped half way;
* AccessRequest controller: what was granted stays usable while it is renewed; once settled, exactly
  the requested permissions are there; nothing is left in a k0s cluster that no request will clean up;
  a granted request has a fresh token for the Cluster there is, and a deleted one goes away;
* ProviderConfig controller: no race leaves a ProviderConfig without its profile, the ownership of it
  or its status; a profile another controller owns is left to it; a ProviderConfig is enough for
  Clusters to come up, and to go.

The hazards, each at its line, with the properties that watch it, are in `PROJECT.json`.

## The modules

`PlatformAPI` has no state. It says what the controllers see of a `Cluster` object and what the API
server and the client do to one: removal with the last finalizer (`Collected`), the decoding of a
response over the object in memory (`Decoded`), a merge patch of the status (`PatchedStatus`). Both
matter: the conditions are one list, so they travel and are overwritten together.

`K0sProvider` (extends it) is docker as the provider uses it: `containers` has for every k0s
cluster name the container's state, metallb inside it and its address pool; `network` is whether
the docker network exists. `CreateCluster` is not one operation: `ContainerCreate` and
`ContainerStart` are separate calls with a failure or a crash possible in between.

`ClusterController` (extends that) is the controller. `objects` are the Clusters on the API server,
`profile` is whom the `ClusterProfile` names, `queue` and `worker` are each process's workqueue and
reconcile pass, `faults` and `edits` count against `MaxFaults` and `MaxEdits`. A pass is a program
counter and what `reconciler.go` keeps in memory: `cluster` is `r.cluster`, `old` is
`r.old.Status`; `stale` stands for the comparison of resourceVersions the API server makes, `wrote`
for whether `r.old` and `r.cluster` have different ones, `again` for an error or a `RequeueAfter`.
There is one action per remote call, in the order of the code:

| Code | Actions |
|---|---|
| `Reconcile` | `Skip`, `Get`, `RemoveOperation`, `Responsible` (with `Begin`, the branches of `run`) |
| `ensureFinalizer`, `ensureSubnet` | `EnsureFinalizer`, `PickSubnet`, `AssignSubnet` |
| `ensureK0sCluster`, `CreateCluster` | `EnsureK0sCluster`, `Prepare`, `CreateContainer`, `StartContainer`, `WaitReady` |
| `ensureMetalLB` | `TargetClient`, `Install`, `PodsReady`, `ConfigureMetalLB` |
| `publishAccess`, `ensureDisplayMetadata`, `commitStatus` | `PublishAccess`, `DisplayMetadata`, `CommitStatus` |
| `handleDeletion` | `LookupContainer`, `RemoveContainer`, `RemoveFinalizer` |
| everybody else | `CreateObject`, `DeleteObject`, `SetOperation`, `AddForeignFinalizer`, `RemoveForeignFinalizer`, `SetProfile`, `Crash`, `DockerStep` |

Most of these actions have a disjunct for success, one for a failure the state explains (a conflict,
a container that is not running) and one for a fault: the call failed, or it was applied and the
response was lost. An action that needs more than one Go call has only one that can be observed
by others. A failed `Get` and a failed `List` of a watch that leave the request where it was are stuttering
steps.

`Subnets` is the arithmetic of `networking.go` that the other modules abstract into a number:
masks, `net.ParseCIDR`, the replaced third octet, annotations that do not parse. It is a small
state machine over a docker network and the Clusters' annotations. The list the code loops over is a
function on the Clusters there are, and a loop that ends at the first one that decides is a choice of
the least position (`Least`), so that no operator is recursive and all of them can be proved about. What docker
reports and what people write by hand are any IPv4 texts, IPv6 texts or texts that do not parse
(`TextAssumption`). It shares no state with the others: `K0sProvider.FreeSlices` is what it computes when the network is a /16 or a /8 and all
annotations were written by the provider.

`ClusterLifecycle` is the abstract specification of what the provider does to a Cluster: a slice is
leased to it, its k0s cluster is built within the lease, torn down only in a deletion, and the lease is
returned with the object. It has three variables, `life`, `slice` and `k0s`, and no passes, queues or
faults. It is used twice. `ClusterRefinement` maps it to `ClusterController` (the object's life,
the slice in its annotation, the state of its container) and states `ImplementsLifecycle`. And
`AccessRequestController` takes it for its environment, so that what is checked and proved about
access holds beside a cluster controller that implements it.

`AccessRequestController` (extends `ClusterLifecycle`) is the controller that grants access.
`requests` are the AccessRequests, `secrets` what each one's Secret leads to and how old its token
is, `contents` what each k0s cluster holds with a request's labels (its service account, and one
item for a permission or role reference with its binding), `timers` the requests a process calls
again because of a `RequeueAfter`. The members of `Clusters` have one name, one after the other:
that is how a Cluster created again under its name is met in the middle of a pass.

| Code | Actions |
|---|---|
| `Reconcile` | `Skip`, `Get`, `RemoveOperation`, `Responsible`, `GetCluster` |
| `handleCreateOrUpdate` | `AddFinalizer`, `TokenStillValid` |
| `reconcileAdminAccess`, `reconcileTokenAccess` | `TargetClient`, `EnsureServiceAccount`, `EnsurePermission`, `CreateToken`, `WriteSecret`, `CleanUp` |
| `handleDelete` | `ClusterExists`, `TargetClient`, `CleanUp`, `RemoveFinalizer` |
| `updateStatus` | `UpdateStatus` |
| everybody else | `CreateRequest`, `DeleteRequest`, `Assign`, `SetOperation`, `EditPermissions`, `DeleteSecret`, `GarbageCollect`, `TokenAges`, `TimerFires`, `Crash`, `ClusterStep` |

`ProviderConfigController` is the controller of one ProviderConfig name. `configs` are the
ProviderConfigs that have it one after the other, `profile` and `owner` the ClusterProfile and its
controlling owner reference. `CreateOrUpdate` is a read and a write with anything in between:

| Code | Actions |
|---|---|
| `Reconcile` | `Skip`, `Get`, `RemoveOperation` |
| `CreateOrUpdate`, `SetControllerReference` | `ReadProfile`, `CreateProfile`, `UpdateProfile` |
| `Status().Update` | `UpdateStatus` |
| everybody else | `CreateConfig`, `DeleteConfig`, `EditConfig`, `SetOperation`, `EditProfile`, `CollectProfile`, `Crash` |

`Provider` composes `ClusterController` with it, in the same processes: the variable `profile` is
shared, `SetProfile` is replaced by the steps of the other controller and of the people around it,
the watch (`ClustersForProfile`) queues the Clusters on every write, and `Restart` takes both
controllers down at once. The budget `MaxFaults` is one for the two of them.

`MCClusterController`, `MCAccessRequestController`, `MCProvider` and `MCSubnets` give the constants
values for TLC. `ClusterControllerProofs`, `OwnershipProofs`, `ClusterRefinementProofs`,
`ReadinessProofs`, `SubnetsProofs`, `AccessProofs`, `ConfigProofs` and `ProviderProofs` hold the proofs.

Operators marked *Mutant* next to a definition are faulty variants of it that a plausible bug
would produce. They are used by no specification; substituting one must break the property that
`PROJECT.json` names for it.

## What TLC checks

| Run | Instance | Shows |
|---|---|---|
| `cluster_safety` | 1 process, 2 Clusters (one adopts a hand-started container), 2 slices, one fault of any kind of call or a crash, 2 edits; 2.15 million states, 100 s | types; `SubnetsDisjoint`, `PoolsDisjoint`, `ContainersOwned`, `ReadyMeansUsable`, `QuiescentMeansSettled`, `LeasesInOrder` and `Ownership`, the invariants of the proofs, `SliceIsKept`, `ForeignFinalizersFirst` |
| `cluster_liveness` | 1 process, 2 Clusters, 1 slice, one API fault, failed start or timeout | `EventuallyReady`, `EventuallyGone`: who is left alone becomes Ready, also when it had to wait for the other's slice; `ImplementsLifecycle`: every step is one of `ClusterLifecycle` or stutters |
| `cluster_rollout` | 2 processes, 1 Cluster, one API or docker fault, lost watch event or crash; 602 thousand states | two processes in the middle of a pass over the same Cluster still agree on its slice (`SliceIsKept`), publish no false `Ready` and lose no wakeup; `Readiness` and `Attendance`, the inductive invariants behind `ReadyMeansUsable` and `QuiescentMeansSettled` |
| `access_edits` | 1 process, 1 Cluster that may be deleted, 1 request with any subset of 2 permissions or for an admin kubeconfig, 1 edit, one fault of any kind of call or a restart; 378 thousand states | `GrantsHold` while permissions change and renewals fail; `EventuallyExact`: the k0s cluster ends with the permissions asked for; `EventuallyReleased`: a deleted request goes away |
| `access_replaced` | 1 process, 2 Clusters one after the other of one name, 1 request, 1 permission, one fault or restart; 162 thousand states | `NothingLeftBehind` and its inductive invariant `Custody` with the Cluster replaced between any two calls; `EventuallyGranted`: the request ends with access to the Cluster there is |
| `provider` | 1 process with both controllers, 1 Cluster, a ProviderConfig and its successor of the same name, 1 edit (of the ProviderConfig, of the profile, or its recreation), one API fault of the ProviderConfig controller or a restart; 279 thousand states, 2 minutes | `RestingMeansSettled`, `NeverTakenOver`, `EventuallyServed`: a ProviderConfig in place for good brings the Cluster up, whichever came first; `EventuallyReleased`: one that lost its profile while being deleted goes when there is a profile again |
| `subnets` | 2 slices, 3 Clusters, 5 docker networks, 5 hand-written annotations; 6035 states | `Handed`, the inductive invariant behind `GivenDisjoint`; `GivenDisjoint`, `HandsOutFree`, `FailsExactlyWhen` |

The bounds. Every interaction the properties are about is between two parties: two Clusters over a
slice or over the worker, a pass and one outsider, two passes. Two slices make one Cluster take the
slice another has freed; one slice makes it wait. One fault is enough to get from any intermediate
state to the next pass; the passes after it are fault-free because what matters is what they make
of the remains. `MaxEdits` bounds edits by operators, foreign finalizers and changes of the
profile (the first of which is the creation of the profile); creating and deleting a Cluster is
free but happens once per object, a recreated one being another member of `Clusters` (of `Requests`).
Creating a ProviderConfig again counts as an edit. In `provider` the Clusters themselves are not
edited (`MaxEdits` 0) and their own calls do not fail: that is what the `cluster_` runs are for.
Two permissions are enough for an edit to take one away, add one, or both; two Clusters or ProviderConfigs
of one name are a predecessor and its successor. Labelling a request, the ageing of its token and the
deletion of objects are free. A Cluster
adopting a container is in `cluster_safety` only, because the properties it can break are there.
`CHECK_DEADLOCK FALSE` is set because the controller does stop: with all Clusters settled or gone
and the budgets spent nothing remains to be done.

The runs that end in a violation each state what a comment of the repository says and show a
behaviour of the code that contradicts it:

* `rollout_overlap` (`networking.go:33`): two processes pick a slice before either persists it.
* `start_failure` (`provider.go:361`): a container whose start failed is taken for a running one.
* `missing_network` (`networking.go:142`): the slice is computed from the network before the step
  that would create the network.
* `first_publish` (`conditions.go:15`): the response of the metadata patch overwrites the
  conditions in memory, so the first Ready is committed beside MetalLBReady=False.
* `access_wedged` (`access.go:78`): a request that is deleted after its Cluster has gone never gets
  as far as finding that there is nothing to clean up, because `Reconcile` fails to get the Cluster
  first.

When `List` fails in `clustersForProfile` the event is dropped and this process loses the wakeup; the
code logs it and promises nothing. Each process lists for itself, so any number of them may fail to, each
at the cost of a fault. For that reason `cluster_safety` and `provider` have no fault of kind "list", while
in `cluster_rollout`, which has it, one fault leaves the other process to get the event.

Properties are about what the code can promise. `EventuallyReady` leaves out a container that was
created but never started, which is what `start_failure` shows. With two processes and two Clusters
`PoolsDisjoint`, `ContainersOwned` and `ForeignFinalizersFirst` fail as well, as a consequence of
`rollout_overlap` and of decisions made on an object the other process has changed since; they are
promises of a single process. So is `NothingLeftBehind`: the old process of a rollout may still be
granting when the new one has cleaned up and let the request go. `EventuallyExact` and
`EventuallyGranted` ask for a Cluster whose k0s cluster is up for good, and `EventuallyReleased` of the
access controller for one that is up or gone while the Cluster object is there; a k0s cluster that
does not answer holds the request, as it must.

### Fairness

`FairSpec` assumes

* weak fairness of `Pass(p)`: a worker that is in a pass goes on. The only loop in a pass, that of
  `waitReady`, gives up after `Options.Timeout`; every other call is a single request to docker or to
  an API server, assumed to be answered or to fail;
* strong fairness of `Dequeue(p, c)`: controller-runtime's workqueue hands out every request it
  holds. It is strong because with `MaxConcurrentReconciles` 1 the action is disabled while the worker is
  busy with another Cluster;
* the same of the passes and dequeues of the other two controllers, each of which has a worker of its
  own; weak fairness is enough for `ConfigDequeue`, as there is one name for its worker;
* weak fairness of `TokenAges` (time passes), of `GarbageCollect`, and of `TimerFires` once the token it
  was set for is no longer fresh: a `RequeueAfter` fires at the renewal time, not before;
* weak fairness of `DockerStep(n)`: k0s comes up in a running container and the metallb pods start.

Users, other controllers, faults and crashes have none, nor have the steps of `ClusterLifecycle` where it
is the environment, nor the garbage collection of a profile. The liveness properties are conditional on
an environment that stops interfering (`<>[]` premises), never on the controller.

## What TLAPS proves

`ClusterControllerProofs.Typing`: `Spec => []TypeOK`, for every set of Clusters and processes, every
range of slices and every number of faults and edits. One lemma for each group of actions of a
pass, on top of lemmas that say what a write, a conflict and a decoded response leave.

`OwnershipProofs`, for every set of Clusters and slices, any number of faults, edits and crashes,
and one process (`SingleProcess`):

* `OwnershipHolds`: `Spec => []Ownership`, the inductive invariant;
* `DistinctSlices`, `NoOrphans`, `DistinctPools`: `SubnetsDisjoint`, `ContainersOwned` and
  `PoolsDisjoint` are always so;
* `ForeignFirst`: the action property `ForeignFinalizersFirst` (and `SliceKept`: `SliceIsKept`, which
  `ReadinessProofs` has for any number of processes).

The assumption `SingleProcess` is what the deployment gives outside of rollouts, or always with
`--leader-elect`; `rollout_overlap` shows that it is needed. Each process has one worker per
controller, the default of controller-runtime which `SetupWithManager` keeps.

Why a stronger invariant is needed: that two annotations are different says nothing about the pass
that is about to write a third. `PassKnows` records what a pass may rely on although the
object in its memory is old: the provider's finalizer is still on if it was read there, because
only this worker takes it off; a deletion is final and no finalizer is added to an object being
deleted, so a foreign finalizer that was not there then is not there now; the slice that was picked is
still free, because only this worker assigns one; and before the finalizer is taken off, docker
holds no container of that name. `PoolsOwned` says that a pool is always that of some Cluster's
container and that an object that is gone holds nothing. With these, `ContainersOwned` is kept by the
steps that write to docker since each is taken by a pass that knows the finalizer and the
slice are persisted, and by the steps that write objects since the only one that takes the finalizer
off comes after the removal. `PoolsDisjoint` then follows from `ContainersOwned` and
`SubnetsDisjoint`.

The module lays this out in layers: what one change to one object or one container may do to the
disjointness (`ObjectChange`, `ContainerChange`), what a change may do to what passes know
(`PassMoves`, `PassSurvives`), then one lemma per group of actions, then the theorems.

`ClusterRefinementProofs`, under the same assumption:

* `LeasesOrdered`: `LeasesInOrder` is always so. This is what the refinement needs beyond
  `Ownership`: that a slice is only ever held by an object that also holds the finalizer, so that a
  Cluster that `ClusterLifecycle` lets vanish at once holds none, and that a pass about to choose a
  slice knows whether the object is being deleted unless its Update will be refused;
* `Refinement`: `Spec => ImplementsLifecycle`. The initial states map to initial states; each action
  of `ClusterController` maps to a step of one Cluster or to a stutter, shown action by action with
  `Ownership` and `LeasesInOrder` before the step.

`ReadinessProofs`, for any number of processes, so also during a rollout, and any Clusters, slices, faults,
edits and crashes:

* `ReadinessHolds`: `Spec => []Readiness`, the first inductive invariant;
* `ReadyIsUsable`, `SliceKeptByAll`: `ReadyMeansUsable` and `SliceIsKept` follow;
* `AttendanceHolds`: `Spec => []Attendance`, the second one, under `SomeoneListens`;
* `NoWakeupLost`: `QuiescentMeansSettled` follows.

`ReadyMeansUsable` is not inductive: a pass may be about to commit a Ready it has only in memory.
`PassSees` says what a pass relies on there without being the only one at work. The slice in its copy is
that of the object, or was none and the pass's next Update will be refused; data it found published
in the status it read are still published; a deletion it saw is still going on; from `publish` on, the
container serves the slice of the object as long as that is live, because only a pass that saw the
deletion removes a container and a pool is only ever configured for the slice the object holds. This
needs none of `Ownership`, which two processes break: the disjointness of slices is not used,
only that `K0sName` tells two Clusters apart.

`QuiescentMeansSettled` says nothing before all rest. `Attendance` says that while the profile names this
provider there is a process that attends to every Cluster: the Cluster has reached its goal, or
the process has it queued, or is in a pass over it that is `Conclusive`, which is to say that the pass
works on the object as it is, and will queue it again or leave it at its goal whichever way it ends. A pass
overtaken by a write is not conclusive, but the write has queued the Cluster in every process; that
no pass ends in between without a status that says so is the reason for the conditions in
`Conclusive`. A process that fails to list the Clusters when the profile changes may never look
at them, so `SomeoneListens` says that there is a process, and that with faults of that kind
there are more processes than faults. The constants of all runs satisfy it. Without faults of
that kind it says no more than that the provider is deployed.

`SubnetsProofs`, for every docker network, every hand-written annotation, any number of Clusters and every
range of octets:

* `HandedHolds`: `Spec => []Handed`, the inductive invariant: what was handed out is a /24 whose
  text is that of its network, and no two are the same;
* `SlicesNeverOverlap`, `HandedOutFree`, `FailsOnlyThen`: `GivenDisjoint`, `HandsOutFree` and
  `FailsExactlyWhen`.

The lemmas say what the functions of `networking.go` return: `DockerNetwork` and `SliceOfNetwork` (the bytes
of a slice, and that two slices of one network are the same only for the same offset), `Verdict` (what
`IsIPNetTaken` decides in any list), `SearchResult` (the slice found is free, or every offset is
taken, or an annotation does not parse). `GivenDisjoint` is not inductive because the search compares
addresses without masks: that this is enough needs both to be /24 networks. `FailsOnlyThen` needs no invariant
but the types; it counts the held octets with `FiniteSetTheorems`.

`AccessProofs`:

* `AccessTyping`: `Spec => []TypeOK`, for any number of processes;
* `CustodyKept`: `Spec => []Custody`, for one process and no adopted containers (`NoneAdopted`), any
  Clusters, requests, permissions, faults and edits;
* `NothingIsLeft`, `GrantsAreKept`: `NothingLeftBehind` and `GrantsHold` follow.

`NothingLeftBehind` is not inductive: that what is in a k0s cluster has a request with the finalizer says
nothing of the pass about to remove it. `PassKnows` says that a pass past `AddFinalizer` works for a request
that still holds it, that one in a deletion pass really is being deleted, that no k0s cluster but the one it
looks at holds anything for it (the earlier ones of that name went with their Clusters, and a later one
gets nothing while the request is being deleted), and that this one is empty before the finalizer goes.
`PassGrants` does the same for `GrantsHold`: what the pass has ensured so far is still there, and
while it cleans up, the secret is the one it wrote. `ClustersHold` ties contents to k0s clusters
and those to Clusters, which is where `ClusterLifecycle` is used. `NoneAdopted` is needed because an
adopted container outlives the Cluster that adopted it.

`ConfigProofs`, for any number of processes, ProviderConfigs of the name, faults and edits:

* `ProgressHolds`: `Spec => []Progress`: a pass whose object was written or replaced since it was read
  has been queued again; any other has a live object, as it was read, an update that is not refused is of
  a profile no other controller owns, and a pass that has come to the status has published the profile or is
  queued again;
* `SettledWhenResting`, `ForeignProfilesKept`: `RestingMeansSettled` and `NeverTakenOver` follow.

These are of the controller by itself; what they assume of the constants, `ConfigAssumption`, is a
hypothesis of each. `ProviderProofs` carries them over to the composition, for any number of processes and
Clusters: `CompositionAssumption` of `Provider` says that its constants satisfy `ConfigAssumption` (TLC
evaluates it in the run `provider`), every step of the provider is one of the ProviderConfig controller or
leaves the profile and everything of that controller alone and only counts faults and edits
(`StepsOfProvider`), and such a step keeps `Progress`. Hence `ComposedProgress`, `SettledInProvider` and
`ForeignKeptInProvider`.

The other way round (`StepsOfClusters`), every step of the provider is one of the cluster controller, or
one that leaves objects, workers and docker alone and at most queues Clusters: all of them, in
every process, when it is a write of the profile (`Beside`). Such a step keeps the invariants of the cluster
controller, which gives

* `TypingInProvider`, `ReadinessInProvider`, `ReadyInProvider`, `SliceKeptInProvider`: `ConfigTypeOK`,
  `Readiness`, `ReadyMeansUsable` and `SliceIsKept`, for any number of processes;
* `NoWakeupLostInProvider`: `QuiescentMeansSettled`, whenever there is a process at all (the composition
  has no failing list);
* `OwnershipInProvider`, `DistinctPoolsInProvider`, `ForeignFirstInProvider`: `Ownership`, `PoolsDisjoint` and
  `ForeignFinalizersFirst`, under `SingleProcess`.

The cluster controller's properties
are not in the run `provider`: its instance has them in `cluster_safety` and `cluster_rollout`, and for the
composition they are proved.

Every invariant and every action property of the passing runs is stated by a theorem. Only model-checked
are the liveness properties (`EventuallyReady`, `EventuallyGone`, `EventuallyExact`,
`EventuallyReleased`, `EventuallyGranted`, `EventuallyServed`), as liveness under fairness and `ENABLED` are
out of the prover's reach. The counterexamples of the runs that end in a violation are TLC's.

## What is not modelled, and why

* In the runs of `ClusterController` alone `SetProfile` does to the `ClusterProfile` whatever the
  ProviderConfig controller or a user may do.
* Access: a request that changes between a token and an admin kubeconfig; foreign finalizers on a
  request; a request created again under its name (its secret and labels would be found); names of roles
  that collide with those of others or of a binding whose role cannot be changed, which the library
  handles; which of several calls in `EnsureRoleAndBinding` failed. The message and
  `observedGeneration` of the condition only decide whether there is a patch, which the model leaves
  open. `Ready` stays True with permissions edited since, until the renewal: that is what the
  code does, and `EventuallyExact` says what can be relied on.
* ProviderConfig: several names share nothing, so there is one; the foreground deletion of one is a
  finalizer of somebody else's.
* Two processes in `Provider`, and the access controller in it: it has no effect on Clusters, and all it
  sees of them is in `ClusterLifecycle`.
* `observedGeneration`, reasons, messages and times of conditions: nothing in the code reads them.
* The texts of names, kubeconfigs and endpoints. `K0sName` is injective here: two Clusters with the
  same name annotation would share a container by the user's own request. The annotation does
  not change during the life of a Cluster.
* A container that dies, or is removed, by other hands; the docker network being removed while
  containers use it. A Cluster's status is only as recent as its last pass.
* Time: `RequeueAfter` and the exponential backoff are "queued again"; a timeout is a fault that may
  happen whenever k0s has not come up. The periodic resync of the informers (ten hours) is left
  out, which makes `QuiescentMeansSettled` stronger.
* The API server's storage, garbage collection and controller-runtime's workqueue, timers and watches are
  modelled from how they are used; they are marked external in `PROJECT.json`.
* Reads are live. The controllers read through the client that `init` also uses before any cache
  runs; with a cached client `Get` and the `List` of `NextAvailableLBNetwork` could be old as well.
* Flag parsing, the CRD installation, generated code, scripts, end-to-end tests.

## Plan

Done: the three controllers, the k0s provider, the subnet arithmetic, the composition of the two
controllers that share a profile, `ClusterLifecycle` with its refinement, and the proofs above.

What is left, in this order:

1. An action that stops a container and one that edits the name annotation, and what statuses still
   promise then (`metallb.go:50`, `name.go:17`).
2. The refinement of `ClusterLifecycle` by `Provider`, from `OwnershipInProvider`.
3. That `K0sProvider.FreeSlices` is what `Subnets` computes for a /16 or a /8, as a lemma.
4. The liveness of `ProviderConfigController` by itself with several processes, and `Provider` with two.

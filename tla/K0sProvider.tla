---------------------------- MODULE K0sProvider ----------------------------
(***************************************************************************)
(* pkg/k0s: the docker daemon as the provider uses it.  One container      *)
(* backs one k0s cluster; docker keeps everything, the provider keeps no   *)
(* state of its own, so an operation that stops half way leaves whatever   *)
(* docker was told so far.                                                 *)
(***************************************************************************)
EXTENDS PlatformAPI

CONSTANTS
    Names,           \* k0s cluster names (docker label cluster-provider-k0s/cluster)
    Adopted,         \* names whose container was started by hand beforehand
    NetworkAtStart   \* whether the docker network was created beforehand

ASSUME ProviderAssumption == Adopted \subseteq Names /\ NetworkAtStart \in BOOLEAN

VARIABLES
    containers,      \* what docker holds under each name
    network          \* whether the docker network exists

dockerVars == <<containers, network>>

\* created: the container exists and was never started; running: k0s is
\* booting in it; ready: its API server answers /readyz.  metallb and pool
\* live inside the k0s cluster, so they vanish with the container.
Container == [state: {"absent", "created", "running", "ready"},
              metallb: {"absent", "installed", "ready"},
              pool: Slices \cup {NoSubnet}]

NoContainer == [state |-> "absent", metallb |-> "absent", pool |-> NoSubnet]

ProviderTypeOK ==
    /\ containers \in [Names -> Container]
    /\ network \in BOOLEAN

ProviderInit ==
    /\ containers = [n \in Names |->
           IF n \in Adopted THEN [NoContainer EXCEPT !.state = "ready"] ELSE NoContainer]
    /\ network = NetworkAtStart

----------------------------------------------------------------------------
(* Queries. *)

\* Mutant: the list asks docker for running containers only.
ClusterRuns(n) == containers[n].state \in {"running", "ready"}

\* The list asks docker for All containers: one that never started exists too.
ClusterExists(n) == containers[n].state # "absent"

\* waitReady's probe.
Answers(n) == containers[n].state = "ready"

\* Kubeconfig runs a command in the container.  It works once k0s is up and
\* may already work, or not yet, while k0s boots.
KubeconfigOK(n) == containers[n].state \in {"running", "ready"}
KubeconfigFails(n) == containers[n].state # "ready"

\* Mutant: the octets start one too late and end one too late.
FreeSlicesShifted(held) == (SubnetMin + 1 .. SubnetMax + 1) \ held

\* s is the lowest slice no listed Cluster holds; held is what the list returned.
FreeSlices(held) == Slices \ held
NextAvailableLBNetwork(held, s) ==
    s \in FreeSlices(held) /\ \A t \in FreeSlices(held) : s <= t

----------------------------------------------------------------------------
(* Operations. *)

EnsureNetwork == network' = TRUE

\* Docker refuses a second container of the same name.
ContainerCreate(n) ==
    /\ ~ClusterExists(n)
    /\ containers' = [containers EXCEPT ![n].state = "created"]

ContainerStart(n) ==
    /\ containers[n].state = "created"
    /\ containers' = [containers EXCEPT ![n].state = "running"]

\* The list that finds no container makes the removal a no-op.
DeleteCluster(n) == containers' = [containers EXCEPT ![n] = NoContainer]

InstallMetalLB(n) ==
    /\ Answers(n)
    /\ containers' = [containers EXCEPT ![n].metallb =
                          IF @ = "absent" THEN "installed" ELSE @]

ConfigureSubnet(n, s) ==
    /\ Answers(n)
    /\ containers' = [containers EXCEPT ![n].pool = s]

\* k0s comes up in a started container.
Boot(n) ==
    /\ containers[n].state = "running"
    /\ containers' = [containers EXCEPT ![n].state = "ready"]
    /\ UNCHANGED network

\* The metallb pods come up after the manifests were applied.
MetalLBPodsReady(n) ==
    /\ containers[n].metallb = "installed"
    /\ containers' = [containers EXCEPT ![n].metallb = "ready"]
    /\ UNCHANGED network
=============================================================================

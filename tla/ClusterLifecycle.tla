-------------------------- MODULE ClusterLifecycle --------------------------
(***************************************************************************)
(* What the provider promises of a Cluster, without how: the order in      *)
(* which a slice of the docker network is leased to it, its k0s cluster is *)
(* built, torn down, and the lease returned.  ClusterController implements *)
(* this specification (ClusterRefinement); AccessRequestController takes   *)
(* it for its environment, since all that controller sees of a Cluster is  *)
(* whether the object and the k0s cluster behind it exist.                 *)
(***************************************************************************)

CONSTANTS
    Clusters,   \* Cluster objects, by UID: a recreated one is another member
    Slices,     \* slices of the docker network
    NoSubnet,   \* stands for a Cluster without a slice
    Prebuilt    \* Clusters whose k0s cluster was started by hand beforehand

ASSUME LifecycleAssumption == NoSubnet \notin Slices /\ Prebuilt \subseteq Clusters

VARIABLES
    life,       \* the Cluster object on the platform API server
    slice,      \* the slice leased to it
    k0s         \* its k0s cluster in docker

lifecycleVars == <<life, slice, k0s>>

Lives == {"none", "live", "deleting", "gone"}
K0sStates == {"absent", "created", "running", "ready"}

LifecycleTypeOK ==
    /\ life \in [Clusters -> Lives]
    /\ slice \in [Clusters -> Slices \cup {NoSubnet}]
    /\ k0s \in [Clusters -> K0sStates]

LifecycleInit ==
    /\ life = [c \in Clusters |-> "none"]
    /\ slice = [c \in Clusters |-> NoSubnet]
    /\ k0s = [c \in Clusters |-> IF c \in Prebuilt THEN "ready" ELSE "absent"]

Exists(c) == life[c] \in {"live", "deleting"}

----------------------------------------------------------------------------

Create(c) ==
    /\ life[c] = "none"
    /\ life' = [life EXCEPT ![c] = "live"]
    /\ UNCHANGED <<slice, k0s>>

\* A Cluster nothing was done for yet disappears at once.
Delete(c) ==
    /\ life[c] = "live"
    /\ \E l \in {"deleting", "gone"} :
           /\ l = "gone" => slice[c] = NoSubnet
           /\ life' = [life EXCEPT ![c] = l]
    /\ UNCHANGED <<slice, k0s>>

\* A Cluster is leased one slice, and none that another one still holds.
Lease(c, s) ==
    /\ life[c] = "live" /\ slice[c] = NoSubnet
    /\ \A d \in Clusters : slice[d] # s
    /\ slice' = [slice EXCEPT ![c] = s]
    /\ UNCHANGED <<life, k0s>>

\* The lease comes first.  A Cluster that is deleted meanwhile may still be
\* built: it is torn down afterwards.
Build(c) ==
    /\ Exists(c) /\ slice[c] # NoSubnet /\ k0s[c] = "absent"
    /\ k0s' = [k0s EXCEPT ![c] = "created"]
    /\ UNCHANGED <<life, slice>>

Start(c) ==
    /\ k0s[c] = "created"
    /\ k0s' = [k0s EXCEPT ![c] = "running"]
    /\ UNCHANGED <<life, slice>>

Boot(c) ==
    /\ k0s[c] = "running"
    /\ k0s' = [k0s EXCEPT ![c] = "ready"]
    /\ UNCHANGED <<life, slice>>

TearDown(c) ==
    /\ life[c] = "deleting" /\ k0s[c] # "absent"
    /\ k0s' = [k0s EXCEPT ![c] = "absent"]
    /\ UNCHANGED <<life, slice>>

\* The lease is returned last, with the object.
Vanish(c) ==
    /\ life[c] = "deleting"
    /\ slice[c] # NoSubnet => k0s[c] = "absent"
    /\ life' = [life EXCEPT ![c] = "gone"]
    /\ slice' = [slice EXCEPT ![c] = NoSubnet]
    /\ UNCHANGED k0s

LifecycleStep(c) ==
    \/ Create(c) \/ Delete(c) \/ \E s \in Slices : Lease(c, s)
    \/ Build(c) \/ Start(c) \/ Boot(c) \/ TearDown(c) \/ Vanish(c)

LifecycleNext == \E c \in Clusters : LifecycleStep(c)

LifecycleSpec == LifecycleInit /\ [][LifecycleNext]_lifecycleVars

\* The k0s cluster of a Cluster that was not adopted is built and torn down
\* within the lease.
BuiltOnLease ==
    \A c \in Clusters \ Prebuilt : k0s[c] # "absent" => Exists(c) /\ slice[c] # NoSubnet
=============================================================================

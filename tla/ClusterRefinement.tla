------------------------- MODULE ClusterRefinement -------------------------
(***************************************************************************)
(* ClusterController implements ClusterLifecycle.  The objects, the slice  *)
(* in their annotation and docker's containers are the abstract state; the *)
(* queues, the passes and everything they know are implementation.         *)
(***************************************************************************)
EXTENDS ClusterController

\* The Clusters that adopt a container.
Adopting == {c \in Clusters : K0sName(c) \in Adopted}

Lifecycle == INSTANCE ClusterLifecycle WITH
    Prebuilt <- Adopting,
    life <- [c \in Clusters |-> objects[c].life],
    slice <- [c \in Clusters |-> objects[c].subnet],
    k0s <- [c \in Clusters |-> containers[K0sName(c)].state]

\* With one provider process every call of every pass, whatever else happens
\* between two of them, is a step of the life cycle or changes nothing in it:
\* slices are leased before anything is built, never to two Clusters, and are
\* only returned when what was built is gone.
ImplementsLifecycle == Lifecycle!LifecycleSpec

\* Between reading a Cluster and assigning it a slice, a pass that was not
\* overtaken and has not seen a deletion works on a live object, and only such
\* a pass chooses a slice.
PassCurrent(p) ==
    LET me == worker[p]
    IN  me.pc \in {"operation", "profile", "pick", "assign"} =>
            /\ me.cluster.life # "deleting" /\ ~me.stale => objects[me.cur].life = "live"
            /\ me.pc \in {"pick", "assign"} => me.cluster.life # "deleting"

\* Whoever holds a slice holds the finalizer, so that the object cannot vanish
\* without a deletion pass, and no Cluster is given a slice once its deletion
\* has begun, also when it begins while a pass is choosing one (the order of
\* ensureFinalizer and ensureSubnet in run, the lock of their Updates).
LeasesInOrder ==
    /\ \A c \in Clusters : objects[c].subnet # NoSubnet => objects[c].finalizer
    /\ \A p \in Procs : PassCurrent(p)
=============================================================================

------------------------ MODULE MCClusterController ------------------------
(***************************************************************************)
(* Instances of ClusterController for TLC.                                 *)
(***************************************************************************)
EXTENDS ClusterRefinement, TLC

CONSTANTS c1, c2, c3, platform

\* Names of the containers the provider derives, and one started by hand.
DerivedNames == Clusters
DerivedAndPlatform == Clusters \cup {platform}

\* Every Cluster has a name of its own, or all but c2 have one name, or all have.
DistinctNames == [c \in Clusters |-> c]
SecondApart == [c \in Clusters |-> IF c = c2 THEN "second" ELSE "first"]
OneName == [c \in Clusters |-> "first"]

\* Clusters of one name that adopt nothing are interchangeable, and so are
\* processes; either order of creation is checked as the other.
Namesakes == Permutations(Clusters \ {c2})
NamesakesAndProcs == Permutations(Clusters) \cup Permutations(Procs)

\* No Cluster carries the name annotation; c2 adopts the hand-made container.
NoAnnotations == [c \in {} |-> platform]
SecondAdopts == [c \in {c2} |-> platform]

=============================================================================

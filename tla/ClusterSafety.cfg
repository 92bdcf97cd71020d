\* One worker, two Clusters: one is recreated, the other adopts a hand-made container.
SPECIFICATION Spec
CONSTANTS
    c1 = c1
    c2 = c2
    c3 = c3
    platform = platform
    Clusters = {c1, c2, c3}
    Procs = {"p1"}
    Names <- DerivedAndPlatform
    Adopted = {platform}
    ObjectName <- SecondApart
    NameAnnotation <- SecondAdopts
    NetworkAtStart = TRUE
    SubnetMin = 200
    SubnetMax = 201
    Faults = {"api", "start", "target", "crash"}
    MaxFaults = 1
    MaxEdits = 2
INVARIANTS
    SubnetsDisjoint
    PoolsDisjoint
    ContainersOwned
    ReadyMeansUsable
    QuiescentMeansSettled
    Ownership
    LeasesInOrder
PROPERTIES
    SliceIsKept
    ForeignFinalizersFirst
SYMMETRY Namesakes
CHECK_DEADLOCK FALSE

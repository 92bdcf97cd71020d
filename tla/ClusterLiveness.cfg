\* Two Clusters compete for one slice.
SPECIFICATION FairSpec
CONSTANTS
    c1 = c1
    c2 = c2
    c3 = c3
    platform = platform
    Clusters = {c1, c2}
    Procs = {"p1"}
    Names <- DerivedNames
    Adopted = {}
    ObjectName <- DistinctNames
    NameAnnotation <- NoAnnotations
    NetworkAtStart = TRUE
    SubnetMin = 200
    SubnetMax = 200
    Faults = {"api", "docker", "start", "timeout"}
    MaxFaults = 1
    MaxEdits = 2
INVARIANTS
    TypeOK
    ContainersOwned
    ReadyMeansUsable
PROPERTIES
    EventuallyReady
    EventuallyGone
    ImplementsLifecycle
CHECK_DEADLOCK FALSE

\* Both controllers of one process, a Cluster, a ProviderConfig and its successor.
SPECIFICATION FairProviderSpec
CONSTANTS
    c1 = c1
    c2 = c2
    c3 = c3
    platform = platform
    Clusters = {c1}
    Configs = {1, 2}
    Procs = {"p1"}
    Names <- DerivedNames
    Adopted = {}
    ObjectName <- DistinctNames
    NameAnnotation <- NoAnnotations
    NetworkAtStart = TRUE
    SubnetMin = 200
    SubnetMax = 200
    Faults = {"crash"}
    ConfigFaults = {"api", "crash"}
    MaxFaults = 1
    MaxEdits = 0
    MaxConfigEdits = 1
INVARIANTS
    ConfigTypeOK
    RestingMeansSettled
PROPERTIES
    NeverTakenOver
    EventuallyServed
    EventuallyReleased
CHECK_DEADLOCK FALSE

\* The host port freePort found is taken when the container starts.
SPECIFICATION FairSpec
CONSTANTS
    c1 = c1
    c2 = c2
    c3 = c3
    platform = platform
    Clusters = {c1}
    Procs = {"p1"}
    Names <- DerivedNames
    Adopted = {}
    ObjectName <- DistinctNames
    NameAnnotation <- NoAnnotations
    NetworkAtStart = TRUE
    SubnetMin = 200
    SubnetMax = 201
    Faults = {"start"}
    MaxFaults = 1
    MaxEdits = 1
PROPERTIES
    StartIsRetried
CHECK_DEADLOCK FALSE

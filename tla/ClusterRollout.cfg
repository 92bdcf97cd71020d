\* A rollout: the old and the new process reconcile a Cluster and its successor of one
\* name at the same time.
SPECIFICATION Spec
CONSTANTS
    c1 = c1
    c2 = c2
    c3 = c3
    platform = platform
    Clusters = {c1, c2}
    Procs = {p1, p2}
    Names <- DerivedNames
    Adopted = {}
    ObjectName <- OneName
    NameAnnotation <- NoAnnotations
    NetworkAtStart = TRUE
    SubnetMin = 200
    SubnetMax = 201
    Faults = {"list"}
    MaxFaults = 1
    MaxEdits = 1
INVARIANTS
    UnsharedReadyMeansUsable
    QuiescentMeansSettled
    QuiescentMeansUsable
    Readiness
    Attendance
PROPERTIES
    SliceIsKept
SYMMETRY NamesakesAndProcs
CHECK_DEADLOCK FALSE

\* A rollout: the old and the new process reconcile at the same time.
SPECIFICATION Spec
CONSTANTS
    c1 = c1
    c2 = c2
    c3 = c3
    platform = platform
    Clusters = {c1, c2}
    Procs = {"p1", "p2"}
    Names <- DerivedNames
    Adopted = {}
    ObjectName <- DistinctNames
    NameAnnotation <- NoAnnotations
    NetworkAtStart = TRUE
    SubnetMin = 200
    SubnetMax = 201
    Faults = {}
    MaxFaults = 0
    MaxEdits = 1
INVARIANTS
    SubnetsDisjoint
CHECK_DEADLOCK FALSE

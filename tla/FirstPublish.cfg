\* The metallb pods come up between two passes.
SPECIFICATION Spec
CONSTANTS
    c1 = c1
    c2 = c2
    c3 = c3
    platform = platform
    Clusters = {c1}
    Procs = {"p1"}
    Names <- DerivedNames
    Adopted = {}
    ObjectName <- DistinctNames
    NameAnnotation <- NoAnnotations
    NetworkAtStart = TRUE
    SubnetMin = 200
    SubnetMax = 201
    Faults = {}
    MaxFaults = 0
    MaxEdits = 1
INVARIANTS
    ReadyIsAggregate
CHECK_DEADLOCK FALSE

\* The Cluster of a request is replaced by another one of the same name.
SPECIFICATION FairSpec
CONSTANTS
    c1 = c1
    c2 = c2
    r1 = r1
    Clusters = {c1, c2}
    Slices = {"s1"}
    NoSubnet = "none"
    Prebuilt = {}
    Requests = {r1}
    Permissions = {"view"}
    Roles = {"0"}
    Procs = {"p1"}
    Faults = {"api", "docker", "target", "crash"}
    MaxFaults = 1
    MaxEdits = 0
INVARIANTS
    NothingLeftBehind
    Custody
PROPERTIES
    EventuallyGranted
CHECK_DEADLOCK FALSE

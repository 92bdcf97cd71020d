\* The Cluster of a request is deleted before the request.
SPECIFICATION FairSpec
CONSTANTS
    c1 = c1
    c2 = c2
    r1 = r1
    Clusters = {c1}
    Slices = {"s1"}
    NoSubnet = "none"
    Prebuilt = {}
    Requests = {r1}
    Permissions = {"view"}
    Roles = {"0"}
    Procs = {"p1"}
    Faults = {}
    MaxFaults = 0
    MaxEdits = 0
PROPERTIES
    ReleasedWhenGone
CHECK_DEADLOCK FALSE

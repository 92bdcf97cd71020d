\* A request for a token whose permissions are edited, with one fault or restart.
SPECIFICATION FairSpec
CONSTANTS
    c1 = c1
    c2 = c2
    r1 = r1
    Clusters = {c1}
    Slices = {"s1"}
    NoSubnet = "none"
    Prebuilt = {}
    Requests = {r1}
    Permissions = {"view", "edit"}
    Roles = {"0"}
    Procs = {"p1"}
    Faults = {"api", "docker", "target", "crash"}
    MaxFaults = 1
    MaxEdits = 1
INVARIANTS
    TypeOK
    GrantsHold
PROPERTIES
    EventuallyExact
    EventuallyReleased
CHECK_DEADLOCK FALSE

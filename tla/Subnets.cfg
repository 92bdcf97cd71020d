SPECIFICATION Spec
CONSTANTS
    FirstOctet = 254
    LastOctet = 255
    NumSlots = 3
    Networks <- DockerNetworks
    Handwritten <- Annotations
INVARIANTS
    Handed
    GivenDisjoint
    FailsExactlyWhen
PROPERTIES
    HandsOutFree
CHECK_DEADLOCK FALSE

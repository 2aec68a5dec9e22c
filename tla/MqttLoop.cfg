CONSTANTS
    InitialDelay = 3
    MaxDelay = 2
    MaxEvents = 2
    Faults <- AnyFaults

SPECIFICATION FairSpec
CHECK_DEADLOCK FALSE

INVARIANTS
    ClientTypeOK
    DropWakes

PROPERTIES
    MaintainsConnection
    MaintainsSubscriptions
    StopEnds

CONSTANTS
    Timer = {t1, t2, t3}
    Worker = {w1}
    NoTimer = NoTimer
    Report <- AnyReport
    Contact <- AllContacts
    Caller = {c1}
    Setting <- OneSetting
    NoDoor = NoDoor
    NoOp = NoOp
    Fault = {"throw", "delete", "offline", "jam", "restart"}

SPECIFICATION FairSpec

INVARIANTS
    TypeOK
    MachineNeverStranded

PROPERTIES
    DoorSettles

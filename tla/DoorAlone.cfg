CONSTANTS
    Timer = {t1, t2, t3}
    Worker = {w1}
    NoTimer = NoTimer
    Report = {}
    Contact <- AllContacts
    Caller = {c1, c2}
    Setting <- TwoSettings
    NoDoor = NoDoor
    NoOp = NoOp
    Fault <- HonestFaults

SPECIFICATION Spec
SYMMETRY Symmetry

INVARIANTS
    UnlockedHasMachine

PROPERTIES
    AloneLeavesAgreement

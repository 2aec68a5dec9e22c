CONSTANTS
    Timer = {t1, t2, t3}
    Worker = {w1}
    NoTimer = NoTimer
    Report = {}
    Contact = {}
    Caller = {c1}
    Setting <- OneSetting
    NoDoor = NoDoor
    NoOp = NoOp
    Fault = {}

SPECIFICATION Spec

INVARIANT UnlockedBoltIsPursued

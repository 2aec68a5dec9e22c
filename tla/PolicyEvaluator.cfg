CONSTANTS
    Ticks = 4
    Week = 2
    Unset = Unset
    Policy = {p1}
    Worker = {w1, w2}
    Time <- TwoDays
    Saved <- Rows
    Free = Free

SPECIFICATION Spec

INVARIANTS
    TypeOK
    AdmissionsAreCounted
    ActiveInPeriod

PROPERTIES
    PassesRunOut

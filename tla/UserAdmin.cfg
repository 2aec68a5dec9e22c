CONSTANTS
    Request = {r1, r2}
    Fails = TRUE
    Nothing = Nothing
    User = {u1}
    Pin = {c1, c2}
    NoUser = NoUser
    Policy <- Policies
    ScheduleType = {"Always", "OneTime"}
    MaxUses = 2
    Unset = Unset

SPECIFICATION Spec
SYMMETRY Symmetry
CHECK_DEADLOCK FALSE

INVARIANTS
    TypeOK
    ShownIsThere
    PassesCountUses

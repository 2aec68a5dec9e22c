CONSTANTS
    front = front
    ring = ring
    more = more
    Request = {r1, r2}
    Fails = TRUE
    Nothing = Nothing
    Door = {d1}
    Setting <- Settings
    NoRow = NoRow
    NoState = NoState
    DaySeconds = 1
    Name = {front}
    Blank = Blank
    Keypad = {ring}
    DefaultKeypad = ring
    Rest = {Plain, more}
    Plain = Plain
    Null = Null
    None = None
    NoDoor = NoDoor

SPECIFICATION FairSpec
CHECK_DEADLOCK FALSE

PROPERTY SavingKeepsBadges

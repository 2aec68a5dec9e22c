CONSTANTS
    ann = ann
    bob = bob
    cid = cid
    a1 = a1
    a2 = a2
    b1 = b1
    c1 = c1
    UserOrder <- TwoUsers
    Cred <- TwoUserCreds
    Owner <- OwnerForTwo
    MaxSlot = 2
    Pass = {p1}
    Nobody = Nobody
    NoRow = NoRow
    NoCode = NoCode
    Faults <- CrashOrForget

SPECIFICATION Spec
CONSTRAINT OnePinEach

INVARIANTS
    NoForgottenCode
    OneSlotPerCredential

CONSTANTS
    ann = ann
    bob = bob
    cid = cid
    a1 = a1
    a2 = a2
    b1 = b1
    c1 = c1
    UserOrder <- ThreeUsers
    Cred <- ThreeCreds
    Owner <- OwnerOfThree
    MaxSlot = 2
    Pass = {p1}
    Nobody = Nobody
    NoRow = NoRow
    NoCode = NoCode
    Faults <- BrokenPasses

SPECIFICATION Spec

INVARIANTS
    TypeOK

PROPERTIES
    PassReconciles

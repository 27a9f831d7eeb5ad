SPECIFICATION Spec
CONSTANTS
    alice = alice
    bob = bob
    row = row
    other = other
    digits = digits
    p1 = p1
    p2 = p2
    p3 = p3
    Users = {alice, bob}
    Presses = {p1, p2, p3}
    Locks = {l1, l2}
    Nobody = nobody
    Actions = {row, other, digits}
    DbRoute = {row}
    NumericKey = {row, digits}
    Owner <- MCOwner
    By <- MCByBoth
    Faults = {"restart", "dbError"}
SYMMETRY SymmetryBoth
INVARIANTS
    TypeOK
    AtMostOnce
PROPERTY KeepsPromise

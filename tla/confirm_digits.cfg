SPECIFICATION Spec
CONSTANTS
    alice = alice
    bob = bob
    row = row
    other = other
    digits = digits
    p1 = p1
    p2 = p2
    p3 = p3
    Users = {alice}
    Presses = {p1, p2}
    Locks = {l1, l2}
    Nobody = nobody
    Actions = {row, digits}
    DbRoute = {row}
    NumericKey = {row, digits}
    Owner <- MCOwner
    By <- MCByAlice
    Faults = {}
INVARIANT CancelRevokes

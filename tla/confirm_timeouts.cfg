SPECIFICATION FairSpec
CONSTANTS
    alice = alice
    bob = bob
    row = row
    other = other
    digits = digits
    p1 = p1
    p2 = p2
    p3 = p3
    Users = {alice}
    Presses = {p1, p2}
    Locks = {l1, l2, l3}
    Nobody = nobody
    Actions = {row, digits}
    DbRoute = {row}
    NumericKey = {row, digits}
    Owner <- MCOwner
    By <- MCByAlice
    Faults = {"timeout", "restart", "dbError"}
INVARIANT OnlyDigitsSurvive
PROPERTY PressEnds

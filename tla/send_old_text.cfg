SPECIFICATION Spec
CONSTANTS
    Users = {owner}
    Owner = owner
    Presses = {p1, p2}
    Locks = {l1}
    l1 = l1
    Nobody = nobody
    Actions = {a1, a2}
    a1 = a1
    Faults = {"edit"}
    MaxDeliveries = 2
PROPERTIES
    SupersededNotSent

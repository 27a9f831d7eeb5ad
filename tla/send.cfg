SPECIFICATION MCSpec
CONSTANTS
    Users = {owner}
    Owner = owner
    Presses = {p1, p2, p3}
    Locks = {l1, l2, l3, l4}
    Nobody = nobody
    Actions = {a1, a2}
    a1 = a1
    l1 = l1
    Faults = {"timeout", "restart", "sendError", "edit"}
    MaxDeliveries = 2
INVARIANTS
    TypeOK
    DeliveredOnce
    Retryable
PROPERTIES
    CancelIsFinal
    PressEnds

SPECIFICATION Spec
CONSTANTS
    t1 = t1
    p1 = p1
    p2 = p2
    s1 = s1
    s2 = s2
    Tasks = {t1}
    Pods = {p1, p2}
    User = User
    Nobody = Nobody
    NoTask = NoTask
    Slots = {s1, s2}
    MaxRetries = 1
SYMMETRY Symmetry
INVARIANTS
    TypeOK
    DeliveredIsStored
PROPERTIES
    GatesHoldUntilOverlap

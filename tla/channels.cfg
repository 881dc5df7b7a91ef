SPECIFICATION Spec
CONSTANTS
    i1 = i1
    i2 = i2
    i3 = i3
    k1 = k1
    k2 = k2
    None = None
    Requests = {q1, q2}
    Ids = {i1, i2, i3}
    Keys = {k1, k2}
    Models = {m1}
    MaxSaves = 3
INVARIANTS MirrorsActive CallsAreWhole
CHECK_DEADLOCK FALSE

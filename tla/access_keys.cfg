SPECIFICATION Spec
CONSTANTS
    Keys = {k1, k2}
    Creations = {s1, s2, s3}
    MaxLimit = 2
    MaxUpdates = 1
    None = None
INVARIANTS ChargedOnce BoundToPayer
PROPERTIES ChargedWithinLimit
CHECK_DEADLOCK FALSE

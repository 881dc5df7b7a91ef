SPECIFICATION Spec
CONSTANTS
    s1 = s1
    s2 = s2
    None = None
    Archive = Archive
    Sessions = {s1, s2}
    Required <- MCRequired
    Core = {"ds160"}
    MinDocuments = 2
    MaxRetries = 1
    Attempts = 2
    MaxBundles = 3
INVARIANTS ViewsFollowDocuments ImportsAreWhole BundlesAreWhole
CHECK_DEADLOCK FALSE
SYMMETRY MCSymmetry

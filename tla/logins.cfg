SPECIFICATION LoginSpec
CONSTANTS
    Logins = {c1, c2, c3}
    Requests = {r1, r2}
    Attempts = 2
    Window = 2
    Idle = 4
    Touch = 2
    Ttl = 5
    MaxTime = 5
    NoCookie = NoCookie
INVARIANTS FailuresWithinRate
PROPERTIES LoggedOutForGood
SYMMETRY MCSymmetry
CHECK_DEADLOCK FALSE

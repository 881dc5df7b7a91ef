SPECIFICATION TicketSpec
CONSTANTS
    Uploads = {u1, u2, u3, u4}
    MaxFiles = 2
    RowLocks = TRUE
    MaxFaults = 1
    NoTicket = NoTicket
INVARIANTS CountIsExact ResultsComplete
SYMMETRY MCSymmetry
CHECK_DEADLOCK FALSE

SPECIFICATION Spec
CONSTANTS
    d1 = d1
    d2 = d2
    None = None
    Docs = {d1, d2}
    Workers = {w1}
    TicketDocs = {d2}
    Required = {"i20", "funding_proof"}
    FundingType = "funding_proof"
    TypeOf <- MCTypeOf
    Values = {"parents", "self"}
    ScanLimit = 2
    MaxRemovals = 1
    MaxCrashes = 1
INVARIANTS SerialProfile ReadyIsEarned
CHECK_DEADLOCK FALSE

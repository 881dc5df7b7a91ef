SPECIFICATION FairSpec
CONSTANTS
    d1 = d1
    d2 = d2
    None = None
    Docs = {d1, d2}
    Workers = {w1, w2}
    TicketDocs = {d2}
    Required = {}
    FundingType = "funding_proof"
    TypeOf <- MCTypeOf
    Values = {}
    ScanLimit = 2
    MaxRemovals = 1
    MaxCrashes = 1
INVARIANTS OutcomeRecorded SerialBoard
PROPERTIES RemovalUndoneOnlyByParse LiveJobSettles AtMostOnceQueue
CHECK_DEADLOCK FALSE

SPECIFICATION Spec
CONSTANTS
    None = None
    Documents = 2
    Results <- MCResults
    Replies <- MCReplies
    Outputs <- MCOutputs
    GateMessage <- MCGateMessage
    Recent = 1
    MaxTurns = 4
    MaxImports = 1
INVARIANTS SnapshotFresh PassedIsEarned FundingAsked ReplayedAsSent GraphIsWhole
PROPERTIES ResolvedForGood ConflictIsReviewed
CHECK_DEADLOCK FALSE

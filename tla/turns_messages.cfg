SPECIFICATION FairSpec
CONSTANTS
    r1 = r1
    r2 = r2
    r3 = r3
    None = None
    Requests = {r1, r2, r3}
    Refreshers = {f1}
    Generators = {g1}
    MsgOf <- MCMsgOf
    Answers = {"continue_interview", "simulated_refusal"}
    RowLocks = TRUE
    MaxAttempts = 1
    SessionLimit = 0
    MaxCrashes = 1
    MaxExpiries = 0
INVARIANTS TurnExclusive ReplayTruthful UnblockedByMessages
PROPERTIES MaterialNeverReopens RequestEnds
CHECK_DEADLOCK FALSE

SPECIFICATION Spec
CONSTANTS
    r1 = r1
    r2 = r2
    r3 = r3
    None = None
    Requests = {r1, r2}
    Refreshers = {}
    Generators = {g1}
    MsgOf <- MCMsgOf
    Answers = {"continue_interview", "simulated_refusal"}
    RowLocks = FALSE
    MaxAttempts = 2
    SessionLimit = 2
    MaxCrashes = 1
    MaxExpiries = 1
INVARIANTS AnsweredOnce
CHECK_DEADLOCK FALSE

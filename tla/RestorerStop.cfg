CONSTANTS
    Callers = {c1}
    NoOp = NoOp
    Ops = {o1, o2}
    InviteInserts = {o2}
    MaxOps = 1
    MaxStarts = 1
    Disciplined = TRUE
    LatchMayFail = FALSE
SPECIFICATION FairSpec
PROPERTY StopReturns
CHECK_DEADLOCK FALSE

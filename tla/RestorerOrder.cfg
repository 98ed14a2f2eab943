CONSTANTS
    Callers = {c1, c2}
    NoOp = NoOp
    Ops = {o1, o2}
    InviteInserts = {o2}
    MaxOps = 3
    MaxStarts = 2
    Disciplined = TRUE
    LatchMayFail = FALSE
SPECIFICATION FairSpec
PROPERTIES InOrderOnce AcceptedIsApplied
CHECK_DEADLOCK FALSE

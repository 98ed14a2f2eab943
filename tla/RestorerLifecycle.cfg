CONSTANTS
    Callers = {c1, c2}
    NoOp = NoOp
    Ops = {o1, o2}
    InviteInserts = {o2}
    MaxOps = 2
    MaxStarts = 2
    Disciplined = FALSE
    LatchMayFail = TRUE
SPECIFICATION Spec
INVARIANTS Inv SleepsOnlyWhenEmpty ManagersOutliveThreads
PROPERTY StopJoinsThreads
CHECK_DEADLOCK FALSE

SPECIFICATION Spec
CONSTANTS
    Threads = {"health"}
    Threshold = 1
    MaxOps = 2
    MaxCallbacks = 2
    MaxStarts = 1
INVARIANT AssertHolds

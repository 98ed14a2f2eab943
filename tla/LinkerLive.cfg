SPECIFICATION LiveSpec
CONSTANTS
    Parts = {"restorer", "client"}
    Threads = {"health"}
    Threshold = 0
    MaxOps = 1
    MaxCallbacks = 2
    MaxStarts = 1
    Nodes = {"a"}
    Known = {}
    MaxFaults = 1
PROPERTIES CallsEnd StatusRecovers
CHECK_DEADLOCK FALSE

SPECIFICATION LinkerSpec
CONSTANTS
    Parts = {"restorer", "keys", "client", "codec"}
    Threads = {"health", "check"}
    Threshold = 0
    MaxOps = 2
    MaxCallbacks = 2
    MaxStarts = 2
    Nodes = {"a", "b"}
    Known = {"b"}
    MaxFaults = 2
INVARIANTS    RoundTrip
 
CHECK_DEADLOCK FALSE

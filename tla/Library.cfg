CONSTANTS
    Threads = {1, 2, 3}
    MaxDepth = 2
    Waiters = {1, 2}
    Counters = {3, 4}
    Count = 2
    Unit = 2
    Secs = {0, 1, 2}
    MaxNow = 3
SPECIFICATION LibrarySpec
INVARIANTS GuardsRight LatchRight    MessagesKept 
CHECK_DEADLOCK FALSE

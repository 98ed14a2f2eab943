CONSTANTS
    Size = 3
    Limit = 3
    MaxMessages = 7
    Conns = {1, 2}
    Workers = {1, 2}
    MaxSends = 1
    MaxOpens = 3
    MaxFrames = 2
SPECIFICATION Spec
PROPERTIES EachWritten 
CHECK_DEADLOCK FALSE

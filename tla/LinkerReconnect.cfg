SPECIFICATION Spec
CONSTANTS
    Sentinels = {1}
    Nodes = {"a", "b"}
    First = "a"
    Known = {"b"}
    Quorum = 1
    MaxFaults = 2
    MaxCommands = 1
PROPERTY MasterReconnected

CONSTANT MaxCmd = 2
SPECIFICATION LiveSpec
INVARIANTS ConnectionInv 
PROPERTIES ImplementsRpc CallsReturn RefreshFollows MasterFollowed
CHECK_DEADLOCK FALSE

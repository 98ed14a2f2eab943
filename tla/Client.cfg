CONSTANTS
    Callers = {"c1", "c2"}
    Rounds = 2
    MaxDrops = 1
SPECIFICATION ClientSpec
INVARIANTS  CommandsRight SuccessIsReal AnswersUnderstood  ConnectionsHandedOn
CHECK_DEADLOCK FALSE

SPECIFICATION AllSpec
CONSTANTS
    MaxOpens = 1
    MaxCloses = 1
    Configs <- MCConfigs
    Callers = {"a", "b"}
    NConn = 2
CHECK_DEADLOCK FALSE
INVARIANTS WebSocketsInv
PROPERTIES WebSocketProgress

SPECIFICATION PacingSpec
CONSTANTS
    MaxSize = 2
    MaxBudget = 2
    MaxPaced = 4
    MaxPaceTasks = 3
CHECK_DEADLOCK FALSE
PROPERTIES PacketsSent

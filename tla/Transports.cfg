SPECIFICATION AllSpec
CONSTANTS
    Flights = 2
    MaxTries = 1
    NArrive = 3
    Limit = 1
    MaxChanges = 4
    Dscps = {0, 36}
    NMessages = 3
    IdSpace = 2
CHECK_DEADLOCK FALSE
INVARIANTS DtlsInv AgentInv QuicInv
 

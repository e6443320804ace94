SPECIFICATION AllSpec
CONSTANTS
    NAddr = 2
    NApp = 1
    NPing = 1
    Size = 2
    Room = 1
    Flights = 2
    NData = 2
    Limit = 2
    MaxMessageSize = 2
    MaxControl = 1
    MaxPings = 1
    Lengths = {3}
    NFrames = 3
    NIdle = 2
CHECK_DEADLOCK FALSE
INVARIANTS TcpInv  
PROPERTIES StreamsProgress

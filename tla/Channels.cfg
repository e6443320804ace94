SPECIFICATION AllSpec
CONSTANTS
    c1 = c1
    c2 = c2
    Chans = {c1, c2}
    Creator <- AllByA
    MaxStream = 1
    MayClose <- Closable
    MaySend <- Sendable
    NoEnd = NoEnd
    NoChan = NoChan
    p1 = p1
    p2 = p2
    a1 = a1
    a2 = a2
    a3 = a3
    b1 = b1
    Processors = {p1, p2}
    Jobs = {a1, a2, a3, b1}
    NoJob = NoJob
    Owner <- JobOwner
CHECK_DEADLOCK FALSE
INVARIANTS ChannelsInv ProcessorInv
PROPERTIES ChannelsProgress ImplementsSerialExecutor ProcessorProgress

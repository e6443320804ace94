SPECIFICATION AllSpec
CONSTANTS
    Streams = {"s1", "s2"}
    Ppids = {"Control", "String", "StringPartial", "StringEmpty", "Binary", "BinaryPartial", "BinaryEmpty"}
    MaxMessageSize = 2
    MaxPiece = 2
    MaxLength = 3
    MaxMessages = 2
    MaxPackets = 2
    MaxNals = 3
    MaxObus = 4
    ObuSizes = {4, 5, 11}
    HeaderSizes = {2, 3}
    Av1Fragment = 6
    IdLengths = {1, 3, 16}
    TextLengths = {0, 2, 5, 9}
    MaxChunks = 2
    MaxDescriptionOps = 3
    PayloadTypes = {1, 2}
    Ssrcs = {1, 12}
    CandidatePool <- MCPool
    ClientFrames = 2
    ServerFrames = 2
    MaxTurnServers = 2
    MaxServers = 2
CHECK_DEADLOCK FALSE
INVARIANTS IncomingInv  DescriptionInv HandshakeInv ServersInv
PROPERTIES GateProgress

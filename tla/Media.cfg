SPECIFICATION AllSpec
CONSTANTS
    TrackPackets <- MCTrackPackets
    TrackOps <- MCTrackOps
    RecvQueueLimit = 2
    SeqRange = 5
    BlpBits = 2
    StoreMax = 3
    MaxSent = 6
    MaxRepeats = 1
    MaxMissing = 2
    MantissaMax = 3
    Bitrates = {2, 13}
    MaxFeedback = 3
    MaxFragmentSize = 5
    NalSizes = {3, 8}
    TimestampRange = 8
    MaxFrames = 3
    MaxFaults = 1
    MaxSize = 2
    MaxBudget = 2
    MaxPaced = 4
    MaxPaceTasks = 3
CHECK_DEADLOCK FALSE
INVARIANTS TrackInv  
PROPERTIES  TrackSteps

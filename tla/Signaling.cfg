SPECIFICATION Spec
CONSTANTS
    Auto = {"A", "B"}
    TrackMids = {0}
    CandidatesA = 1
    CandidatesB = 0
    MaxCalls = 3
    MaxTracks = 2
    None = None
CHECK_DEADLOCK FALSE
INVARIANTS NegotiationInv
PROPERTIES NegotiationSettles

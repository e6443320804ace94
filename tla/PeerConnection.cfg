SPECIFICATION Spec
CONSTANTS
    Ices = {i1}
    Dtlss = {d1}
    Sctps = {s1, s2}
    Null = Null
    MaxDescriptions = 1
CHECK_DEADLOCK FALSE
INVARIANTS NoTransportLeft StoppedOnlyByClose
PROPERTIES ConnectionCloses

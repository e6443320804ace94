SPECIFICATION Spec
CONSTANTS
    Streams = {s1, s2}
    Upcallers = {u1, u2}
    Window = 1
    MaxMessages = 2
    LateSends = FALSE
CHECK_DEADLOCK FALSE
INVARIANTS SendInv
PROPERTIES SctpProgress

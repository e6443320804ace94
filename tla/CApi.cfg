SPECIFICATION AllSpec
CONSTANTS
    Objects = {o1, o2}
    Payloads = {p1, p2, p3}
    Settings = {s0, s1}
    DefaultSettings = s0
    NoPayload = NoPayload
    Apps = {a1, a2}
    Lib = lib
    MaxId = 2
    MaxMessages = 2
    MaxConfigs = 2
CHECK_DEADLOCK FALSE
INVARIANTS ResourcesInv ApiInv
PROPERTIES UnloadedOnRequest 

SPECIFICATION Spec
CONSTANTS
    Keys = {"lshift", "rshift"}
    Leds = {{"num"}}
    PortBound = 2
INVARIANTS
    HandlersReady
    BytesReachTheirDriver
    PacketsWhole
    EveryByteAnnounced
    NoStuckShift
PROPERTY RequestsServed

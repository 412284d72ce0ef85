SPECIFICATION Spec
CONSTANTS
    Peers = {p1}
    Noise = noise
    Closed = closed
    Broken = broken
    SigDepth = 1
    EventDepth = 1
    MaxSessions = 1
    MaxEvents = 1
    MaxEdits = 0
    MaxHups = 0
INVARIANT FarewellsAreSent

SPECIFICATION Spec
CONSTANTS
    Frames <- EveryFrame
    EventDepth = 1
    WireDepth = 1
    MaxFrames = 1
    MaxFails = 7
INVARIANT OnlyDirectMessages

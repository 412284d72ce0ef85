SPECIFICATION FairSpec
CONSTANTS
    Frames <- EveryFrame
    EventDepth = 1
    WireDepth = 2
    MaxFrames = 3
    MaxFails = 7
INVARIANTS TypeOK DeliveredInOrder ParsedAsMeant BackoffDoubles
PROPERTIES DeadLinkIsLeft KeepsAsking ShutdownIsSeen

SPECIFICATION FairSpec
CONSTANTS
    Senders = {s1, s2}
    PerPeerPeriod = 3
    PerPeerBurst = 2
    GlobalPeriod = 0
    GlobalBurst = 0
    ShortestPeriod = 1
    MaxWindow = 3
INVARIANTS TypeOK GlobalRate SenderRate
PROPERTY NoSenderStarves

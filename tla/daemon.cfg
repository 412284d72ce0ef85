SPECIFICATION FairSpec
CONSTANTS
    Peers = {p1}
    Noise = noise
    Closed = closed
    Broken = broken
    SigDepth = 1
    EventDepth = 1
    MaxSessions = 2
    MaxEvents = 2
    MaxEdits = 2
    MaxHups = 2
INVARIANTS TypeOK RegistryWhitelisted NoSessionForgotten
PROPERTIES OnlyWhitelistedDrive SessionsAreShellSessions ReloadTakesEffect TermEndsDaemon

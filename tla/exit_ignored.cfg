SPECIFICATION FairSpec
CONSTANTS
    PtyInDepth = 1
    PtyOutDepth = 1
    TtyInDepth = 1
    TtyOutDepth = 1
    MaxPrint = 0
    InDepth = 1
    OutDepth = 1
    MaxLines = 1
    MaxChunks = 1
    CtrlC <- NoCtrlC
    Kinds <- LinesOnly
PROPERTY ExitClosesSession

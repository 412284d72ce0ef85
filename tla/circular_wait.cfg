SPECIFICATION BusyShellSpec
CONSTANTS
    PtyInDepth = 1
    PtyOutDepth = 1
    TtyInDepth = 1
    TtyOutDepth = 1
    MaxPrint = 3
    InDepth = 1
    OutDepth = 1
    MaxLines = 5
    MaxChunks = 0
    CtrlC <- NoCtrlC
    Kinds <- LinesOnly
PROPERTY ShutdownEndsSession

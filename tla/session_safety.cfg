SPECIFICATION Spec
CONSTANTS
    PtyInDepth = 1
    PtyOutDepth = 1
    TtyInDepth = 1
    TtyOutDepth = 1
    MaxPrint = 0
    InDepth = 2
    OutDepth = 1
    MaxLines = 3
    MaxChunks = 2
    CtrlC <- SecondLine
    Kinds <- AllKinds
INVARIANTS TypeOK NoLineLost AtMostOneLateLine OutputInOrder NothingLeftBehind
PROPERTY ImplementsShellSession

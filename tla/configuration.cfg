SPECIFICATION MCSpec
CONSTANTS
    Peers = {p1, p2}
    Values = {v1}
    Ids = {i1, i2}
    None = None
    MaxEntries = 2
INVARIANTS TypeOK WholeFileInForce StaleChangeCounted NoOtherToken SpeaksForOneIdentity
SYMMETRY Symmetry

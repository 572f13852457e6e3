SPECIFICATION Spec
CONSTANTS
    c1 = c1
    c2 = c2
    Conns <- MCConns
    Peers <- MCConns
    CrossTalk = TRUE
    AtomicRefs = TRUE
    RefMod = 8
    MaxSends = 2
INVARIANTS ConfiguresConnected
\* Every connection may have come and gone.
CHECK_DEADLOCK FALSE

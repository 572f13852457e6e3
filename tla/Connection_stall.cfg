SPECIFICATION FairSpec
CONSTANTS
    c1 = c1
    c2 = c2
    Conns <- MCOneConn
    Peers = {}
    CrossTalk = FALSE
    AtomicRefs = TRUE
    RefMod = 8
    MaxSends = 2
PROPERTIES PendingWriteEnds
\* Every connection may have come and gone.
CHECK_DEADLOCK FALSE

SPECIFICATION FairSpec
CONSTANTS
    c1 = c1
    c2 = c2
    Conns <- MCConns
    Peers <- MCConns
    CrossTalk = FALSE
    AtomicRefs = TRUE
    RefMod = 8
    MaxSends = 0
PROPERTIES ClosedIsReleased
\* Every connection may have come and gone.
CHECK_DEADLOCK FALSE

SPECIFICATION Spec
CONSTANTS
    c1 = c1
    c2 = c2
    Conns <- MCOneConn
    Peers <- MCOneConn
    CrossTalk = FALSE
    AtomicRefs = FALSE
    RefMod = 8
    MaxSends = 2
INVARIANTS NoDanglingProtocol
\* Every connection may have come and gone.
CHECK_DEADLOCK FALSE

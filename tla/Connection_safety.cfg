SPECIFICATION Spec
CONSTANTS
    c1 = c1
    c2 = c2
    Conns <- MCConns
    Peers <- MCConns
    CrossTalk = FALSE
    AtomicRefs = TRUE
    RefMod = 8
    MaxSends = 2
INVARIANTS TypeOK RefsMatch NoDanglingProtocol ConnectionPresent CloseOnce NoPendingWrite
SYMMETRY MCSymmetry
\* Every connection may have come and gone.
CHECK_DEADLOCK FALSE

SPECIFICATION Spec
CONSTANTS
    c1 = c1
    c2 = c2
    ann = ann
    bob7 = bob7
    p1 = p1
    p2 = p2
    Conns <- MCConns
    Names <- MCNames
    BadLetters <- MCBadLetters
    Pwds <- MCPwds
    MaxAttempts = 2
    Conversions = {"throws", "converts"}
    MaxDbErrors = 1
    AttemptBound = 3
    Nothing = Nothing
INVARIANTS TypeOK PointersAgree OneAccount OneSession LimitCloses Authenticated OwnRowOrNone
SYMMETRY MCSymmetry
\* Every connection may have come and gone.
CHECK_DEADLOCK FALSE

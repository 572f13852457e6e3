---------------------------- MODULE MCConnection ----------------------------
(* Small instances of Connection.                                           *)
EXTENDS Connection, TLC

CONSTANTS c1, c2

MCConns == {c1, c2}
MCOneConn == {c1}
MCSymmetry == Permutations(MCConns)
=============================================================================

----------------------------- MODULE MCSession ------------------------------
(* Small instances of Session: one name of letters, one with a digit.       *)
EXTENDS Session, TLC

CONSTANTS c1, c2, ann, bob7, p1, p2

MCConns == {c1, c2}
MCNames == {ann, bob7}
MCBadLetters == ann :> 0 @@ bob7 :> 1
MCPwds == {p1, p2}
MCSymmetry == Permutations(MCConns) \cup Permutations(MCPwds)
=============================================================================

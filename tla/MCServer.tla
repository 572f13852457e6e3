------------------------------ MODULE MCServer ------------------------------
(* A small instance of Server: two attempts to open the port again.         *)
EXTENDS Server

CONSTANTS r1, r2

MCReopen == {r1, r2}
MCOneReopen == {r1}
=============================================================================

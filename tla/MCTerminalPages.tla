---------------------------- MODULE MCTerminalPages ----------------------------
(* A small instance of TerminalPages for TLC: two tabs of one member. *)
EXTENDS TerminalPages

CONSTANTS p1, p2, c1, c2, t1, t2
=============================================================================

---------------------------- MODULE MCWorkstations ----------------------------
(* Small instances of Workstations for TLC. *)
EXTENDS Workstations, TLC

CONSTANTS alice, bob, ws1, ws2, ws3

\* worker w has a pool of w slots
MCPoolSize == [w \in Workers |-> w]

MCSymmetry == Permutations(Members) \cup Permutations(WS)
=============================================================================

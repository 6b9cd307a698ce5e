---------------------------- MODULE MCProxySessions ----------------------------
(* Small instances of ProxySessions for TLC. *)
EXTENDS ProxySessions, TLC

CONSTANTS s1, s2, c1, c2, c3, w1, w2, v1

MCSymmetry == Permutations(Sessions) \cup Permutations(Conns)
=============================================================================

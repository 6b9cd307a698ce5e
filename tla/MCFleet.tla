-------------------------------- MODULE MCFleet --------------------------------
(* Small instances of Fleet for TLC. *)
EXTENDS Fleet, TLC

CONSTANTS alice, ws1, ws2

\* worker w has a pool of w slots
MCPoolSize == [w \in Workers |-> w]

MCSymmetry == Permutations(Members) \cup Permutations(WS)

MCReportStates == Power
=============================================================================

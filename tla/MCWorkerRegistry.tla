--------------------------- MODULE MCWorkerRegistry ---------------------------
(***************************************************************************)
(* Instances of WorkerRegistry for TLC.                                    *)
(***************************************************************************)
EXTENDS WorkerRegistry, TLC

CONSTANTS m1, m2, m3, r1, r2, r3

ThreeMachines == {m1, m2, m3}

ThreeRequests == {r1, r2, r3}

\* Machines and registrations are interchangeable.
Symmetry == Permutations(Machines) \cup Permutations(Requests)

=============================================================================

-------------------------- MODULE MCTerminalSession --------------------------
(***************************************************************************)
(* Instances of TerminalSession for TLC.                                   *)
(***************************************************************************)
EXTENDS TerminalSession, TLC

CONSTANTS c1, c2, stdout, stderr

TwoConns == {c1, c2}

BothStreams == {stdout, stderr}
OneStream == {stdout}

\* Connections are interchangeable, and so are the two streams (for the run
\* that checks invariants only).
Symmetry == Permutations(Conns) \cup Permutations(Streams)

=============================================================================

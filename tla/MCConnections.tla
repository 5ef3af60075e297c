--------------------------- MODULE MCConnections ---------------------------
(* Values of Connections' constants for TLC. *)
EXTENDS Connections, TLC

CONSTANTS b1, b2, c1, c2

\* Two ports, and a range of one of them.
MCPoolRanges == {1..2, {2}}

MCSymmetry == Permutations({b1, b2}) \cup Permutations({c1, c2})
=============================================================================

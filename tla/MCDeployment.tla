---------------------------- MODULE MCDeployment ----------------------------
(* Values of Deployment's constants for TLC. *)
EXTENDS Deployment

CONSTANTS c1, c2, n1, n2, api, bg, root, sub

\* c1 serves two paths; c2 serves one of them.
MCPathsOf == [c \in {c1, c2} |-> IF c = c1 THEN <<sub, root>> ELSE <<root>>]
MCPathsOfOne == [c \in {c1} |-> <<root>>]

MCNodeOf == [c \in {c1, c2} |-> n1]
MCNodeOfOne == [c \in {c1} |-> n1]

\* "/" is a prefix of "/sub".
MCCovers == {<<root, root>>, <<sub, sub>>, <<root, sub>>}
=============================================================================

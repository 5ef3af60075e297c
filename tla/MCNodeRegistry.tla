--------------------------- MODULE MCNodeRegistry ---------------------------
(* Values of NodeRegistry's constants for TLC. *)
EXTENDS NodeRegistry, TLC

CONSTANTS m1, m2, s1, s2, d1, d2, a1, a2, b1

\* One service on each of two machines, or both on one machine.
MCApart == [s \in {s1, s2} |-> IF s = s1 THEN m1 ELSE m2]
MCTogether == [s \in {s1, s2} |-> m1]

\* Two services that authenticate with one digest.
MCSharedDigest == [s \in {s1, s2} |-> d1]
\* Two services with digests of their own.
MCOwnDigest == [s \in {s1, s2} |-> IF s = s1 THEN d1 ELSE d2]

\* s1 connects twice, s2 once.
MCOwner == [c \in {a1, a2, b1} |-> IF c = b1 THEN s2 ELSE s1]
MCOwnerPair == [c \in {a1, b1} |-> IF c = b1 THEN s2 ELSE s1]

\* The two connections of s1 are interchangeable.
MCSymmetry == Permutations({a1, a2})
=============================================================================

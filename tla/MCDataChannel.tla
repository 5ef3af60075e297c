--------------------------- MODULE MCDataChannel ---------------------------
(* Finite instances of DataChannel for TLC: the configurations give the    *)
(* sets of control channels, loops and ports as model values.              *)
EXTENDS DataChannel
=============================================================================

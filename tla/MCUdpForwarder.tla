--------------------------- MODULE MCUdpForwarder ---------------------------
(* Either one peer with enough traffic to fill every queue of size 1 in    *)
(* both directions, or two whose forwarders compete for the lock and for   *)
(* the outbound queue.                                                     *)
EXTENDS UdpForwarder, TLC

CONSTANTS p1, p2

MCLoads ==
  {[up |-> (p1 :> 4) @@ (p2 :> 0), down |-> (p1 :> 4) @@ (p2 :> 0)],
   [up |-> (p1 :> 2) @@ (p2 :> 1), down |-> (p1 :> 1) @@ (p2 :> 1)]}
=============================================================================

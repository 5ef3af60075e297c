----------------------------- MODULE LossyLink -----------------------------
(***************************************************************************)
(* What a forwarding path promises to each of its senders: a message       *)
(* arrives at most once, in the order it was sent, and only if it was      *)
(* sent.  Messages may be lost.  The messages of a sender are numbered     *)
(* from 1 in the order they were sent.                                     *)
(***************************************************************************)
EXTENDS Naturals, Sequences

CONSTANT Senders

VARIABLES
  sent,   \* how many messages each sender has sent
  got     \* the messages of each sender that arrived, in the order they did

vars == <<sent, got>>

Init == sent = [p \in Senders |-> 0] /\ got = [p \in Senders |-> <<>>]

Send(p) == sent' = [sent EXCEPT ![p] = @ + 1] /\ UNCHANGED got

Deliver(p) ==
  /\ \E n \in 1..sent[p] :
       /\ \A i \in 1..Len(got[p]) : got[p][i] < n
       /\ got' = [got EXCEPT ![p] = Append(@, n)]
  /\ UNCHANGED sent

Next == \E p \in Senders : Send(p) \/ Deliver(p)

Spec == Init /\ [][Next]_vars
=============================================================================

---------------------------- MODULE UdpForwarder ----------------------------
(***************************************************************************)
(* UDP through one data channel, after StartForwardUdp.  The server's loop *)
(* of a UDP port frames each datagram with its peer's address and writes   *)
(* it to the data channel; the client's reader gives it to the forwarder   *)
(* of that peer, which it creates with a socket of its own when the peer   *)
(* is not in port_map; answers of the local service go back through one    *)
(* queue and one writer task.  A forwarder that has been idle for          *)
(* UDP_TIMEOUT, or whose socket fails, takes itself out of port_map.       *)
(*                                                                         *)
(* port_map is behind a tokio RwLock: requests are granted in the order    *)
(* they were made, so a reader waits behind a writer that waits.  A        *)
(* datagram is the number its peer's stream gives it.  A frame is one      *)
(* entry of a pipe: header and data are written and read by one call each. *)
(***************************************************************************)
EXTENDS Naturals, Sequences

CONSTANTS
  Peers,       \* visitors' addresses
  Reader,      \* the client's reader task, as a holder of the lock
  NoPacket,    \* no datagram in hand
  PipeSize,    \* frames one direction of the data channel's socket buffers
  QueueSize,   \* UDP_SENDQ_SIZE of a forwarder's inbound queue
  OutSize,     \* UDP_SENDQ_SIZE of the outbound queue
  Loads        \* bound: how many datagrams and answers, per peer, a behaviour has

ASSUME PeersAssumption == Reader \notin Peers
ASSUME SizesAssumption ==
  /\ PipeSize \in Nat \ {0} /\ QueueSize \in Nat \ {0} /\ OutSize \in Nat \ {0}
  /\ Loads \subseteq [up : [Peers -> Nat], down : [Peers -> Nat]]

Packets == [from : Peers, n : Nat \ {0}]
ASSUME PacketAssumption == NoPacket \notin Packets

VARIABLES
  open,       \* the data channel's connection is up
  stopping,   \* the loop's shutdown has been sent
  loop,       \* the server's loop: "select", "write", "ended"
  loopPkt,    \* the datagram it writes
  upPipe, downPipe,   \* frames on the connection, to and from the client
  reader,     \* the client's reader
  readerPkt,  \* the datagram it passes on
  portMap,    \* peers in port_map
  lock,       \* tasks that wait for the RwLock of port_map, in order
  fwd,        \* the forwarder of each peer
  inbound,    \* its queue
  fwdPkt,     \* the answer it puts on the outbound queue
  outbound,   \* the outbound queue
  writer,     \* the client's writer task: "recv", "write", "ended"
  writerPkt,  \* the answer it writes
  sent, got,  \* datagrams taken from the visitor, those given to the service
  answered, returned   \* answers taken from the service, sent to the visitor

serverVars == <<stopping, loop, loopPkt>>
wireVars == <<open, upPipe, downPipe>>
readerVars == <<reader, readerPkt>>
fwdVars == <<fwd, inbound, fwdPkt>>
lockVars == <<portMap, lock>>
writerVars == <<writer, writerPkt>>
countVars == <<sent, got, answered, returned>>
vars == <<serverVars, wireVars, readerVars, lockVars, fwdVars, outbound,
          writerVars, countVars>>

\* So many datagrams and answers are within the bound.
Within(s, a) ==
  \E l \in Loads : \A p \in Peers : s[p] <= l.up[p] /\ a[p] <= l.down[p]

Pkt(p, m) == [from |-> p, n |-> m]

\* Types of the tasks, the queues and the counters; no queue outgrows its bound.
TypeOK ==
  /\ open \in BOOLEAN /\ stopping \in BOOLEAN
  /\ loop \in {"select", "write", "ended"} /\ loopPkt \in Packets \cup {NoPacket}
  /\ upPipe \in Seq(Packets) /\ Len(upPipe) <= PipeSize
  /\ downPipe \in Seq(Packets) /\ Len(downPipe) <= PipeSize
  /\ reader \in {"read", "look", "create", "again", "fresh", "hand", "ended"}
  /\ readerPkt \in Packets \cup {NoPacket}
  /\ portMap \subseteq Peers /\ lock \in Seq(Peers \cup {Reader})
  /\ fwd \in [Peers -> {"none", "run", "answer", "removing", "dead"}]
  /\ inbound \in [Peers -> Seq(Nat \ {0})]
  /\ \A p \in Peers : Len(inbound[p]) <= QueueSize
  /\ fwdPkt \in [Peers -> Nat]
  /\ outbound \in Seq(Packets) /\ Len(outbound) <= OutSize
  /\ writer \in {"recv", "write", "ended"} /\ writerPkt \in Packets \cup {NoPacket}
  /\ sent \in [Peers -> Nat] /\ got \in [Peers -> Seq(Nat)]
  /\ answered \in [Peers -> Nat] /\ returned \in [Peers -> Seq(Nat)]

Init ==
  /\ open = TRUE /\ stopping = FALSE /\ loop = "select" /\ loopPkt = NoPacket
  /\ upPipe = <<>> /\ downPipe = <<>>
  /\ reader = "read" /\ readerPkt = NoPacket
  /\ portMap = {} /\ lock = <<>>
  /\ fwd = [p \in Peers |-> "none"]
  /\ inbound = [p \in Peers |-> <<>>] /\ fwdPkt = [p \in Peers |-> 0]
  /\ outbound = <<>> /\ writer = "recv" /\ writerPkt = NoPacket
  /\ sent = [p \in Peers |-> 0] /\ got = [p \in Peers |-> <<>>]
  /\ answered = [p \in Peers |-> 0] /\ returned = [p \in Peers |-> <<>>]

-----------------------------------------------------------------------------
(* The server's loop.  Inside an arm it selects nothing else: while it     *)
(* writes it reads no answers and sees no shutdown.                        *)

\* socket.recv_from
RecvFrom(p) ==
  /\ loop = "select"
  /\ sent' = [sent EXCEPT ![p] = @ + 1] /\ Within(sent', answered)
  /\ loop' = "write" /\ loopPkt' = Pkt(p, sent[p] + 1)
  /\ UNCHANGED <<stopping, wireVars, readerVars, lockVars, fwdVars, outbound,
                 writerVars, got, answered, returned>>

\* UdpTraffic::write_slice waits until the socket takes the frame.
WriteSlice ==
  /\ loop = "write" /\ open /\ Len(upPipe) < PipeSize
  /\ upPipe' = Append(upPipe, loopPkt)
  /\ loop' = "select" /\ loopPkt' = NoPacket
  /\ UNCHANGED <<stopping, open, downPipe, readerVars, lockVars, fwdVars,
                 outbound, writerVars, countVars>>

\* An answer is read whole and given to send_to, whose result is ignored.
ReadAnswer ==
  /\ loop = "select" /\ downPipe /= <<>>
  /\ downPipe' = Tail(downPipe)
  /\ LET t == Head(downPipe)
     IN returned' = [returned EXCEPT ![t.from] = Append(@, t.n)]
  /\ UNCHANGED <<serverVars, open, upPipe, readerVars, lockVars, fwdVars,
                 outbound, writerVars, sent, got, answered>>

\* The loop breaks and drops the connection: what it wrote can still be read.
LoopEnds ==
  /\ loop' = "ended" /\ loopPkt' = NoPacket
  /\ open' = FALSE /\ downPipe' = <<>>
  /\ UNCHANGED <<stopping, upPipe, readerVars, lockVars, fwdVars, outbound,
                 writerVars, countVars>>

LoopShutdown == loop = "select" /\ stopping /\ LoopEnds

\* A read or a write of the loop fails.
LoopFails == loop \in {"select", "write"} /\ ~open /\ LoopEnds

\* stop_connection sends the loop's shutdown.
SendShutdown ==
  /\ ~stopping /\ stopping' = TRUE
  /\ UNCHANGED <<loop, loopPkt, wireVars, readerVars, lockVars, fwdVars,
                 outbound, writerVars, countVars>>

\* The connection breaks, and with it the frames on their way.
Break ==
  /\ open /\ open' = FALSE
  /\ upPipe' = <<>> /\ downPipe' = <<>>
  /\ UNCHANGED <<serverVars, readerVars, lockVars, fwdVars, outbound, writerVars,
                 countVars>>

-----------------------------------------------------------------------------
(* The client's reader.  In "again" and "hand" it holds a read guard: the  *)
(* first guard lives to the end of the iteration when the peer is known.   *)

Guarded == reader \in {"again", "hand"}

\* A frame is read; the reader asks for the lock.
ReadPacket ==
  /\ reader = "read" /\ upPipe /= <<>>
  /\ readerPkt' = Head(upPipe) /\ upPipe' = Tail(upPipe)
  /\ reader' = "look" /\ lock' = Append(lock, Reader)
  /\ UNCHANGED <<serverVars, open, downPipe, portMap, fwdVars, outbound,
                 writerVars, countVars>>

\* The connection is at its end: run_data_channel_for_udp returns.
ReaderFails ==
  /\ reader = "read" /\ upPipe = <<>> /\ ~open
  /\ reader' = "ended"
  /\ UNCHANGED <<serverVars, wireVars, readerPkt, lockVars, fwdVars, outbound,
                 writerVars, countVars>>

LockGranted == lock /= <<>> /\ Head(lock) = Reader

\* First read lock.  A known peer: the guard is kept and a second read lock is
\* asked for.  An unknown one: the guard is dropped and the write lock asked for.
Look ==
  /\ reader = "look" /\ LockGranted
  /\ reader' = IF readerPkt.from \in portMap THEN "again" ELSE "create"
  /\ lock' = Append(Tail(lock), Reader)
  /\ UNCHANGED <<serverVars, wireVars, readerPkt, portMap, fwdVars, outbound,
                 writerVars, countVars>>

\* Write lock: udp_connect, and on success a forwarder with an empty queue.
Create ==
  /\ reader = "create" /\ LockGranted
  /\ LET p == readerPkt.from
     IN \/ /\ portMap' = portMap \cup {p}
           /\ fwd' = [fwd EXCEPT ![p] = "run"]
           /\ inbound' = [inbound EXCEPT ![p] = <<>>]
        \/ UNCHANGED <<portMap, fwd, inbound>>
  /\ reader' = "fresh" /\ lock' = Append(Tail(lock), Reader)
  /\ UNCHANGED <<serverVars, wireVars, readerPkt, fwdPkt, outbound, writerVars,
                 countVars>>

\* Second read lock: the peer is looked up again.
Again ==
  /\ reader \in {"again", "fresh"} /\ LockGranted
  /\ lock' = Tail(lock)
  /\ IF readerPkt.from \in portMap
     THEN reader' = "hand" /\ UNCHANGED readerPkt
     ELSE reader' = "read" /\ readerPkt' = NoPacket
  /\ UNCHANGED <<serverVars, wireVars, portMap, fwdVars, outbound, writerVars,
                 countVars>>

\* Bug: try_send, and the datagram is kept for the next turn.
HandKept ==
  /\ reader = "hand"
  /\ LET p == readerPkt.from
     IN /\ Len(inbound[p]) < QueueSize
        /\ inbound' = [inbound EXCEPT ![p] = Append(@, readerPkt.n)]
  /\ UNCHANGED <<serverVars, wireVars, readerVars, lockVars, fwd, fwdPkt, outbound,
                 writerVars, countVars>>

\* tx.send waits for room while the forwarder has its receiver, and fails
\* without a word once the forwarder is gone.
Hand ==
  /\ reader = "hand"
  /\ LET p == readerPkt.from
     IN IF fwd[p] = "dead" THEN UNCHANGED inbound
        ELSE /\ Len(inbound[p]) < QueueSize
             /\ inbound' = [inbound EXCEPT ![p] = Append(@, readerPkt.n)]
  /\ reader' = "read" /\ readerPkt' = NoPacket
  /\ UNCHANGED <<serverVars, wireVars, lockVars, fwd, fwdPkt, outbound, writerVars,
                 countVars>>

-----------------------------------------------------------------------------
(* The forwarder of a peer: run_udp_forwarder.                             *)

\* A failed s.send or outbount_tx.send returns at once: the queue is dropped
\* and the entry of port_map stays.
Dies(p) ==
  /\ fwd' = [fwd EXCEPT ![p] = "dead"]
  /\ inbound' = [inbound EXCEPT ![p] = <<>>]
  /\ fwdPkt' = [fwdPkt EXCEPT ![p] = 0]

\* inbound_rx.recv, then s.send to the local service.
FwdSend(p) ==
  /\ fwd[p] = "run" /\ inbound[p] /= <<>>
  /\ \/ /\ got' = [got EXCEPT ![p] = Append(@, Head(inbound[p]))]
        /\ inbound' = [inbound EXCEPT ![p] = Tail(@)]
        /\ UNCHANGED <<fwd, fwdPkt>>
     \/ Dies(p) /\ UNCHANGED got
  /\ UNCHANGED <<serverVars, wireVars, readerVars, lockVars, outbound, writerVars,
                 sent, answered, returned>>

\* s.recv takes an answer of the local service.
FwdRecv(p) ==
  /\ fwd[p] = "run"
  /\ answered' = [answered EXCEPT ![p] = @ + 1] /\ Within(sent, answered')
  /\ fwd' = [fwd EXCEPT ![p] = "answer"]
  /\ fwdPkt' = [fwdPkt EXCEPT ![p] = answered[p] + 1]
  /\ UNCHANGED <<serverVars, wireVars, readerVars, lockVars, inbound, outbound,
                 writerVars, sent, got, returned>>

\* outbount_tx.send waits for room, and fails once the writer task is gone.
FwdAnswer(p) ==
  /\ fwd[p] = "answer"
  /\ IF writer = "ended" THEN Dies(p) /\ UNCHANGED outbound
     ELSE /\ Len(outbound) < OutSize
          /\ outbound' = Append(outbound, Pkt(p, fwdPkt[p]))
          /\ fwd' = [fwd EXCEPT ![p] = "run"]
          /\ fwdPkt' = [fwdPkt EXCEPT ![p] = 0]
          /\ UNCHANGED inbound
  /\ UNCHANGED <<serverVars, wireVars, readerVars, lockVars, writerVars, countVars>>

\* Bug: the entry is removed as soon as the loop breaks, without the write lock.
QuitsUnlocked(p) ==
  /\ fwd[p] = "run"
  /\ fwd' = [fwd EXCEPT ![p] = "removing"] /\ lock' = Append(lock, p)
  /\ portMap' = portMap \ {p}
  /\ UNCHANGED <<serverVars, wireVars, readerVars, inbound, fwdPkt, outbound,
                 writerVars, countVars>>

\* The loop breaks; the forwarder asks for the write lock with its queue alive.
FwdQuits(p) ==
  /\ fwd[p] = "run"
  /\ fwd' = [fwd EXCEPT ![p] = "removing"] /\ lock' = Append(lock, p)
  /\ UNCHANGED <<serverVars, wireVars, readerVars, portMap, inbound, fwdPkt,
                 outbound, writerVars, countVars>>

\* Nothing to do for UDP_TIMEOUT.
FwdTimeout(p) == inbound[p] = <<>> /\ FwdQuits(p)

\* s.recv fails.
FwdRecvFails(p) == FwdQuits(p)

\* Bug: the guard is leaked, and nobody gets the lock any more.
RemoveAndKeepLock(p) ==
  /\ fwd[p] = "removing" /\ lock /= <<>> /\ Head(lock) = p /\ ~Guarded
  /\ portMap' = portMap \ {p}
  /\ fwd' = [fwd EXCEPT ![p] = "none"] /\ inbound' = [inbound EXCEPT ![p] = <<>>]
  /\ UNCHANGED <<serverVars, wireVars, readerVars, lock, fwdPkt, outbound,
                 writerVars, countVars>>

\* The write lock is granted: the entry goes, and the forwarder with its queue.
FwdRemove(p) ==
  /\ fwd[p] = "removing" /\ lock /= <<>> /\ Head(lock) = p /\ ~Guarded
  /\ lock' = Tail(lock) /\ portMap' = portMap \ {p}
  /\ fwd' = [fwd EXCEPT ![p] = "none"] /\ inbound' = [inbound EXCEPT ![p] = <<>>]
  /\ UNCHANGED <<serverVars, wireVars, readerVars, fwdPkt, outbound, writerVars,
                 countVars>>

-----------------------------------------------------------------------------
(* The client's writer task.                                               *)

\* Bug: the receiver is peeked, and the answer is written again.
WriterPeeks ==
  /\ writer = "recv" /\ outbound /= <<>>
  /\ writer' = "write" /\ writerPkt' = Head(outbound)
  /\ UNCHANGED <<serverVars, wireVars, readerVars, lockVars, fwdVars, outbound,
                 countVars>>

WriterRecv ==
  /\ writer = "recv" /\ outbound /= <<>>
  /\ writer' = "write" /\ writerPkt' = Head(outbound) /\ outbound' = Tail(outbound)
  /\ UNCHANGED <<serverVars, wireVars, readerVars, lockVars, fwdVars, countVars>>

\* UdpTraffic::write
WriterWrite ==
  /\ writer = "write" /\ open /\ Len(downPipe) < PipeSize
  /\ downPipe' = Append(downPipe, writerPkt)
  /\ writer' = "recv" /\ writerPkt' = NoPacket
  /\ UNCHANGED <<serverVars, open, upPipe, readerVars, lockVars, fwdVars, outbound,
                 countVars>>

\* Bug: a failed write is logged and the task goes on.
WriterGoesOn ==
  /\ writer = "write" /\ ~open
  /\ writer' = "write" /\ UNCHANGED writerPkt
  /\ UNCHANGED <<serverVars, wireVars, readerVars, lockVars, fwdVars, outbound,
                 countVars>>

\* The write fails: the task ends and drops the receiver with what it holds.
WriterFails ==
  /\ writer = "write" /\ ~open
  /\ writer' = "ended" /\ writerPkt' = NoPacket /\ outbound' = <<>>
  /\ UNCHANGED <<serverVars, wireVars, readerVars, lockVars, fwdVars, countVars>>

\* Every sender of the outbound queue is gone.
WriterDone ==
  /\ writer = "recv" /\ outbound = <<>> /\ reader = "ended"
  /\ \A p \in Peers : fwd[p] \in {"none", "dead"}
  /\ writer' = "ended"
  /\ UNCHANGED <<serverVars, wireVars, readerVars, lockVars, fwdVars, outbound,
                 writerPkt, countVars>>

-----------------------------------------------------------------------------
Next ==
  \/ WriteSlice \/ ReadAnswer \/ LoopShutdown \/ LoopFails \/ SendShutdown \/ Break
  \/ ReadPacket \/ ReaderFails \/ Look \/ Create \/ Again \/ Hand
  \/ WriterRecv \/ WriterWrite \/ WriterFails \/ WriterDone
  \/ \E p \in Peers :
       \/ RecvFrom(p) \/ FwdSend(p) \/ FwdRecv(p) \/ FwdAnswer(p)
       \/ FwdTimeout(p) \/ FwdRecvFails(p) \/ FwdRemove(p)

Spec == Init /\ [][Next]_vars

\* Tasks run; visitors, answers, failures and shutdowns need not happen.  A
\* forwarder whose service is silent reaches its timeout.
Fairness ==
  /\ WF_vars(WriteSlice) /\ WF_vars(LoopShutdown) /\ WF_vars(LoopFails)
  /\ WF_vars(ReadAnswer)
  /\ WF_vars(ReadPacket) /\ WF_vars(ReaderFails) /\ WF_vars(Look)
  /\ WF_vars(Create) /\ WF_vars(Again) /\ WF_vars(Hand)
  /\ WF_vars(WriterRecv) /\ WF_vars(WriterWrite) /\ WF_vars(WriterFails)
  /\ WF_vars(WriterDone)
  /\ \A p \in Peers :
       /\ WF_vars(FwdSend(p)) /\ WF_vars(FwdAnswer(p))
       /\ WF_vars(FwdTimeout(p)) /\ WF_vars(FwdRemove(p))

FairSpec == Spec /\ Fairness

-----------------------------------------------------------------------------
(* Properties.                                                             *)

Up == INSTANCE LossyLink WITH Senders <- Peers, sent <- sent, got <- got
Down == INSTANCE LossyLink WITH Senders <- Peers, sent <- answered, got <- returned

\* The datagrams of a visitor reach the service at most once and in order,
\* whatever forwarders come and go for it (client.rs:334-362).
UpInOrder == Up!Spec

\* The answers reach the visitor at most once and in order.
DownInOrder == Down!Spec

\* port_map is exact: a forwarder that has not returned is the one its peer's
\* datagrams are given to, so no peer has two sockets at the service; an entry
\* without a forwarder is one whose send failed (client.rs:382, 399).
MapIsExact == portMap = {p \in Peers : fwd[p] /= "none"}

\* The reader holds its guard and waits behind a forwarder that waits for it to
\* drop the guard (client.rs:334, 359, 408), or holds it and waits for room in
\* the queue of one that will read no more (client.rs:361).
LockedOut ==
  \/ reader = "again" /\ Head(lock) /= Reader
  \/ /\ reader = "hand" /\ fwd[readerPkt.from] = "removing"
     /\ Len(inbound[readerPkt.from]) = QueueSize

\* Everyone waits for room that the next one makes: the server's loop in its
\* write, the reader, a forwarder with an answer, the writer (server.rs:1011).
Jammed ==
  /\ loop = "write" /\ Len(upPipe) = PipeSize
  /\ reader = "hand" /\ fwd[readerPkt.from] = "answer"
  /\ Len(inbound[readerPkt.from]) = QueueSize
  /\ Len(outbound) = OutSize
  /\ writer = "write" /\ Len(downPipe) = PipeSize

\* The reader always comes back for the next frame, but for the two ways in
\* which it is known to get stuck.
ReaderReturns == reader /= "read" ~> reader \in {"read", "ended"} \/ LockedOut \/ Jammed

\* A shutdown is seen, and then nothing of the data channel is left on the
\* client: the reader, the writer and every forwarder end.
ChannelCleansUp ==
  stopping ~> \/ LockedOut \/ Jammed
              \/ /\ loop = "ended" /\ reader = "ended" /\ writer = "ended"
                 /\ \A p \in Peers : fwd[p] \in {"none", "dead"}
=============================================================================

------------------------ MODULE UdpForwarder_proofs ------------------------
(***************************************************************************)
(* Types of the UDP relay, the bounds of its queues, that port_map is      *)
(* exact, and that both directions implement LossyLink, for any number of  *)
(* peers, any sizes and any traffic.  Each part of the state is only       *)
(* touched by a few actions (the frame lemmas), and each part keeps its    *)
(* own type.  The refinements rest on the order of the numbers of a peer   *)
(* along the places it passes.                                             *)
(***************************************************************************)
EXTENDS UdpForwarder, SequenceTheorems, TLAPS

\* A task that is past its read holds the datagram it read.
ServerType ==
  /\ stopping \in BOOLEAN
  /\ loop \in {"select", "write", "ended"} /\ loopPkt \in Packets \cup {NoPacket}
  /\ loop = "write" => loopPkt \in Packets

WireType ==
  /\ open \in BOOLEAN
  /\ upPipe \in Seq(Packets) /\ Len(upPipe) <= PipeSize
  /\ downPipe \in Seq(Packets) /\ Len(downPipe) <= PipeSize

ReaderType ==
  /\ reader \in {"read", "look", "create", "again", "fresh", "hand", "ended"}
  /\ readerPkt \in Packets \cup {NoPacket}
  /\ reader \notin {"read", "ended"} => readerPkt \in Packets

LockType == portMap \subseteq Peers /\ lock \in Seq(Peers \cup {Reader})

FwdType ==
  /\ fwd \in [Peers -> {"none", "run", "answer", "removing", "dead"}]
  /\ inbound \in [Peers -> Seq(Nat \ {0})]
  /\ \A p \in Peers : Len(inbound[p]) <= QueueSize
  /\ fwdPkt \in [Peers -> Nat]
  /\ \A p \in Peers : fwd[p] = "answer" => fwdPkt[p] # 0

WriterType ==
  /\ outbound \in Seq(Packets) /\ Len(outbound) <= OutSize
  /\ writer \in {"recv", "write", "ended"} /\ writerPkt \in Packets \cup {NoPacket}
  /\ writer = "write" => writerPkt \in Packets

CountType ==
  /\ sent \in [Peers -> Nat] /\ got \in [Peers -> Seq(Nat)]
  /\ answered \in [Peers -> Nat] /\ returned \in [Peers -> Seq(Nat)]

IInv ==
  /\ ServerType /\ WireType /\ ReaderType /\ LockType /\ FwdType /\ WriterType
  /\ CountType
  /\ MapIsExact

-----------------------------------------------------------------------------
(* Sequences.                                                              *)

LEMMA TailType ==
  ASSUME NEW S, NEW s \in Seq(S), s # <<>>
  PROVE  Head(s) \in S /\ Tail(s) \in Seq(S) /\ Len(Tail(s)) = Len(s) - 1
         /\ Len(s) \in Nat /\ Len(s) >= 1
  BY HeadTailProperties, EmptySeq, LenProperties

LEMMA AppendType ==
  ASSUME NEW S, NEW s \in Seq(S), NEW x \in S
  PROVE  Append(s, x) \in Seq(S) /\ Len(Append(s, x)) = Len(s) + 1 /\ Len(s) \in Nat
  BY AppendProperties, LenProperties

LEMMA EmptyType ==
  ASSUME NEW S
  PROVE  << >> \in Seq(S) /\ Len(<< >>) = 0
  OBVIOUS

LEMMA PktType == \A p \in Peers, m \in Nat \ {0} : Pkt(p, m) \in Packets
  BY DEF Pkt, Packets

LEMMA FieldTypes == \A t \in Packets : t.from \in Peers /\ t.n \in Nat \ {0}
  BY DEF Packets

-----------------------------------------------------------------------------
(* Frames: which actions touch a part of the state.                        *)

LEMMA ServerFrame ==
  [Next]_vars =>
    \/ UNCHANGED serverVars
    \/ \E p \in Peers : RecvFrom(p)
    \/ WriteSlice \/ LoopShutdown \/ LoopFails \/ SendShutdown
  BY DEF Next, vars, serverVars, ReadAnswer, Break, ReadPacket, ReaderFails, Look,
         Create, Again, Hand, WriterRecv, WriterWrite, WriterFails, WriterDone, FwdSend,
         FwdRecv, FwdAnswer, FwdTimeout, FwdRecvFails, FwdQuits, FwdRemove

LEMMA WireFrame ==
  [Next]_vars =>
    \/ UNCHANGED wireVars
    \/ WriteSlice \/ ReadAnswer \/ LoopShutdown \/ LoopFails \/ Break \/ ReadPacket
    \/ WriterWrite
  BY DEF Next, vars, wireVars, RecvFrom, SendShutdown, ReaderFails, Look,
         Create, Again, Hand, WriterRecv, WriterFails, WriterDone, FwdSend,
         FwdRecv, FwdAnswer, FwdTimeout, FwdRecvFails, FwdQuits, FwdRemove

LEMMA ReaderFrame ==
  [Next]_vars =>
    \/ UNCHANGED readerVars
    \/ ReadPacket \/ ReaderFails \/ Look \/ Create \/ Again \/ Hand
  BY DEF Next, vars, readerVars, RecvFrom, WriteSlice, ReadAnswer, LoopShutdown,
         LoopFails, LoopEnds, SendShutdown, Break, WriterRecv, WriterWrite, WriterFails,
         WriterDone, FwdSend, FwdRecv, FwdAnswer, FwdTimeout, FwdRecvFails, FwdQuits,
         FwdRemove

LEMMA LockFrame ==
  [Next]_vars =>
    \/ UNCHANGED lockVars
    \/ ReadPacket \/ Look \/ Create \/ Again
    \/ \E p \in Peers : FwdQuits(p) \/ FwdRemove(p)
  BY DEF Next, vars, lockVars, RecvFrom, WriteSlice, ReadAnswer, LoopShutdown,
         LoopFails, LoopEnds, SendShutdown, Break, ReaderFails, Hand, WriterRecv,
         WriterWrite, WriterFails, WriterDone, FwdSend, FwdRecv, FwdAnswer, FwdTimeout,
         FwdRecvFails

LEMMA FwdFrame ==
  [Next]_vars =>
    \/ UNCHANGED fwdVars
    \/ Create \/ Hand
    \/ \E p \in Peers :
         FwdSend(p) \/ FwdRecv(p) \/ FwdAnswer(p) \/ FwdQuits(p) \/ FwdRemove(p)
  BY DEF Next, vars, fwdVars, RecvFrom, WriteSlice, ReadAnswer, LoopShutdown,
         LoopFails, LoopEnds, SendShutdown, Break, ReadPacket, ReaderFails, Look, Again,
         WriterRecv, WriterWrite, WriterFails, WriterDone, FwdTimeout, FwdRecvFails

LEMMA WriterFrame ==
  [Next]_vars =>
    \/ UNCHANGED <<outbound, writerVars>>
    \/ \E p \in Peers : FwdAnswer(p)
    \/ WriterRecv \/ WriterWrite \/ WriterFails \/ WriterDone
  BY DEF Next, vars, RecvFrom, WriteSlice, ReadAnswer, LoopShutdown,
         LoopFails, LoopEnds, SendShutdown, Break, ReadPacket, ReaderFails, Look, Again,
         Create, Hand, FwdSend, FwdRecv, FwdTimeout, FwdRecvFails, FwdQuits, FwdRemove

LEMMA CountFrame ==
  [Next]_vars =>
    \/ UNCHANGED countVars
    \/ ReadAnswer
    \/ \E p \in Peers : RecvFrom(p) \/ FwdSend(p) \/ FwdRecv(p)
  BY DEF Next, vars, countVars, WriteSlice, LoopShutdown, LoopFails, LoopEnds,
         SendShutdown, Break, ReadPacket, ReaderFails, Look, Again, Create, Hand,
         WriterRecv, WriterWrite, WriterFails, WriterDone, FwdAnswer, FwdTimeout,
         FwdRecvFails, FwdQuits, FwdRemove

-----------------------------------------------------------------------------
(* Each part keeps its type.                                               *)

LEMMA InitInv ==
  ASSUME Init
  PROVE  IInv
  <1>0. PipeSize \in Nat /\ QueueSize \in Nat /\ OutSize \in Nat  BY SizesAssumption
  <1>1. ServerType /\ ReaderType  BY DEF Init, ServerType, ReaderType
  <1>7. LockType  BY EmptyType DEF Init, LockType
  <1>2. WireType /\ WriterType  BY <1>0, EmptyType DEF Init, WireType, WriterType
  <1>3. FwdType
    <2>1. << >> \in Seq(Nat \ {0}) /\ Len(<< >>) = 0  BY EmptyType
    <2>2. QED  BY <1>0, <2>1 DEF Init, FwdType
  <1>4. CountType
    <2>1. << >> \in Seq(Nat)  BY EmptyType
    <2>2. QED  BY <2>1 DEF Init, CountType
  <1>5. MapIsExact  BY DEF Init, MapIsExact
  <1>6. QED  BY <1>1, <1>2, <1>3, <1>4, <1>5, <1>7 DEF IInv

LEMMA ServerStep ==
  ASSUME ServerType, CountType, [Next]_vars
  PROVE  ServerType'
  <1>1. CASE UNCHANGED serverVars  BY <1>1 DEF ServerType, serverVars
  <1>2. ASSUME NEW p \in Peers, RecvFrom(p) PROVE ServerType'
    <2>1. sent[p] + 1 \in Nat \ {0}  BY DEF CountType
    <2>2. Pkt(p, sent[p] + 1) \in Packets  BY <2>1, PktType
    <2>3. QED  BY <1>2, <2>2 DEF RecvFrom, ServerType
  <1>3. CASE WriteSlice \/ LoopShutdown \/ LoopFails \/ SendShutdown
    BY <1>3, PacketAssumption
    DEF WriteSlice, LoopShutdown, LoopFails, LoopEnds, SendShutdown, ServerType
  <1>4. QED  BY <1>1, <1>2, <1>3, ServerFrame

LEMMA WireStep ==
  ASSUME WireType, ServerType, WriterType, [Next]_vars
  PROVE  WireType'
  <1>0. PipeSize \in Nat  BY SizesAssumption
  <1>1. CASE UNCHANGED wireVars  BY <1>1 DEF WireType, wireVars
  <1>2. CASE WriteSlice
    <2>1. loopPkt \in Packets  BY <1>2 DEF WriteSlice, ServerType
    <2>2. Append(upPipe, loopPkt) \in Seq(Packets)
          /\ Len(Append(upPipe, loopPkt)) = Len(upPipe) + 1 /\ Len(upPipe) \in Nat
      BY <2>1, AppendType DEF WireType
    <2>3. QED  BY <1>0, <1>2, <2>2 DEF WriteSlice, WireType
  <1>3. CASE ReadAnswer
    <2>1. Tail(downPipe) \in Seq(Packets) /\ Len(Tail(downPipe)) = Len(downPipe) - 1
          /\ Len(downPipe) \in Nat
      BY <1>3, TailType DEF ReadAnswer, WireType
    <2>2. QED  BY <1>0, <1>3, <2>1 DEF ReadAnswer, WireType
  <1>4. CASE ReadPacket
    <2>1. Tail(upPipe) \in Seq(Packets) /\ Len(Tail(upPipe)) = Len(upPipe) - 1
          /\ Len(upPipe) \in Nat
      BY <1>4, TailType DEF ReadPacket, WireType
    <2>2. QED  BY <1>0, <1>4, <2>1 DEF ReadPacket, WireType
  <1>5. CASE LoopShutdown \/ LoopFails \/ Break
    <2>1. << >> \in Seq(Packets) /\ Len(<< >>) = 0  BY EmptyType
    <2>2. open' = FALSE /\ downPipe' = << >>
      BY <1>5 DEF LoopShutdown, LoopFails, LoopEnds, Break
    <2>3. upPipe' = upPipe \/ upPipe' = << >>
      BY <1>5 DEF LoopShutdown, LoopFails, LoopEnds, Break
    <2>4. Len(upPipe') <= PipeSize /\ upPipe' \in Seq(Packets)
      <3>1. CASE upPipe' = upPipe  BY <3>1 DEF WireType
      <3>2. CASE upPipe' = << >>  BY <1>0, <2>1, <3>2
      <3>3. QED  BY <2>3, <3>1, <3>2
    <2>5. Len(downPipe') <= PipeSize /\ downPipe' \in Seq(Packets)
      BY <1>0, <2>1, <2>2
    <2>6. QED  BY <2>2, <2>4, <2>5 DEF WireType
  <1>6. CASE WriterWrite
    <2>1. writerPkt \in Packets  BY <1>6 DEF WriterWrite, WriterType
    <2>2. Append(downPipe, writerPkt) \in Seq(Packets)
          /\ Len(Append(downPipe, writerPkt)) = Len(downPipe) + 1
          /\ Len(downPipe) \in Nat
      BY <2>1, AppendType DEF WireType
    <2>3. QED  BY <1>0, <1>6, <2>2 DEF WriterWrite, WireType
  <1>7. QED  BY <1>1, <1>2, <1>3, <1>4, <1>5, <1>6, WireFrame

LEMMA ReaderStep ==
  ASSUME ReaderType, WireType, [Next]_vars
  PROVE  ReaderType'
  <1>1. CASE UNCHANGED readerVars  BY <1>1 DEF ReaderType, readerVars
  <1>2. CASE ReadPacket
    <2>1. Head(upPipe) \in Packets  BY <1>2, TailType DEF ReadPacket, WireType
    <2>2. QED  BY <1>2, <2>1 DEF ReadPacket, ReaderType
  <1>3. CASE ReaderFails \/ Look \/ Create \/ Again \/ Hand
    BY <1>3 DEF ReaderFails, Look, Create, Again, Hand, ReaderType
  <1>4. QED  BY <1>1, <1>2, <1>3, ReaderFrame

LEMMA LockStep ==
  ASSUME LockType, ReaderType, [Next]_vars
  PROVE  LockType'
  <1>1. CASE UNCHANGED lockVars  BY <1>1 DEF LockType, lockVars
  <1>2. CASE ReadPacket
    <2>1. Append(lock, Reader) \in Seq(Peers \cup {Reader})
      BY AppendType DEF LockType
    <2>2. QED  BY <1>2, <2>1 DEF ReadPacket, LockType
  <1>3. CASE Look
    <2>1. Append(Tail(lock), Reader) \in Seq(Peers \cup {Reader})
      BY <1>3, TailType, AppendType DEF Look, LockGranted, LockType
    <2>2. QED  BY <1>3, <2>1 DEF Look, LockType
  <1>4. CASE Create
    <2>1. Append(Tail(lock), Reader) \in Seq(Peers \cup {Reader})
      BY <1>4, TailType, AppendType DEF Create, LockGranted, LockType
    <2>2. readerPkt.from \in Peers  BY <1>4, FieldTypes DEF Create, ReaderType
    <2>3. QED  BY <1>4, <2>1, <2>2 DEF Create, LockType
  <1>5. CASE Again
    BY <1>5, TailType DEF Again, LockGranted, LockType
  <1>6. ASSUME NEW p \in Peers, FwdQuits(p) PROVE LockType'
    <2>1. Append(lock, p) \in Seq(Peers \cup {Reader})  BY AppendType DEF LockType
    <2>2. QED  BY <1>6, <2>1 DEF FwdQuits, LockType
  <1>7. ASSUME NEW p \in Peers, FwdRemove(p) PROVE LockType'
    BY <1>7, TailType DEF FwdRemove, LockType
  <1>8. QED  BY <1>1, <1>2, <1>3, <1>4, <1>5, <1>6, <1>7, LockFrame

\* A forwarder that returns leaves nothing of an answer and an empty queue.
LEMMA DiesType ==
  ASSUME FwdType, NEW p \in Peers, Dies(p)
  PROVE  FwdType'
  BY SizesAssumption, EmptyType DEF Dies, FwdType

LEMMA FwdStep ==
  ASSUME FwdType, ReaderType, CountType, [Next]_vars
  PROVE  FwdType'
  <1>0. QueueSize \in Nat  BY SizesAssumption
  <1>1. CASE UNCHANGED fwdVars  BY <1>1 DEF FwdType, fwdVars
  <1>2. CASE Create
    <2>1. readerPkt.from \in Peers  BY <1>2, FieldTypes DEF Create, ReaderType
    <2>2. << >> \in Seq(Nat \ {0}) /\ Len(<< >>) = 0  BY EmptyType
    <2>3. CASE UNCHANGED fwdVars  BY <2>3 DEF fwdVars, FwdType
    <2>4. CASE /\ fwd' = [fwd EXCEPT ![readerPkt.from] = "run"]
               /\ inbound' = [inbound EXCEPT ![readerPkt.from] = << >>]
               /\ UNCHANGED fwdPkt
      BY <1>0, <2>1, <2>2, <2>4 DEF FwdType
    <2>5. QED  BY <1>2, <2>3, <2>4 DEF Create, fwdVars
  <1>3. CASE Hand
    <2>1. PICK p \in Peers : p = readerPkt.from
      BY <1>3, FieldTypes DEF Hand, ReaderType
    <2>2. readerPkt.n \in Nat \ {0}  BY <1>3, FieldTypes DEF Hand, ReaderType
    <2>3. Append(inbound[p], readerPkt.n) \in Seq(Nat \ {0})
          /\ Len(Append(inbound[p], readerPkt.n)) = Len(inbound[p]) + 1
          /\ Len(inbound[p]) \in Nat
      BY <2>2, AppendType DEF FwdType
    <2>4. UNCHANGED <<fwd, fwdPkt>>  BY <1>3 DEF Hand
    <2>5. CASE UNCHANGED inbound  BY <2>4, <2>5 DEF FwdType
    <2>6. CASE /\ Len(inbound[p]) < QueueSize
               /\ inbound' = [inbound EXCEPT ![p] = Append(inbound[p], readerPkt.n)]
      BY <1>0, <2>3, <2>4, <2>6 DEF FwdType
    <2>7. QED  BY <1>3, <2>1, <2>5, <2>6 DEF Hand
  <1>4. ASSUME NEW p \in Peers, FwdSend(p) PROVE FwdType'
    <2>1. CASE Dies(p)  BY <2>1, DiesType
    <2>2. CASE inbound' = [inbound EXCEPT ![p] = Tail(@)] /\ UNCHANGED <<fwd, fwdPkt>>
      <3>1. Tail(inbound[p]) \in Seq(Nat \ {0})
            /\ Len(Tail(inbound[p])) = Len(inbound[p]) - 1 /\ Len(inbound[p]) \in Nat
        BY <1>4, TailType DEF FwdSend, FwdType
      <3>2. QED  BY <1>0, <2>2, <3>1 DEF FwdType
    <2>3. QED  BY <1>4, <2>1, <2>2 DEF FwdSend
  <1>5. ASSUME NEW p \in Peers, FwdRecv(p) PROVE FwdType'
    <2>1. answered[p] + 1 \in Nat \ {0}  BY DEF CountType
    <2>2. QED  BY <1>5, <2>1 DEF FwdRecv, FwdType
  <1>6. ASSUME NEW p \in Peers, FwdAnswer(p) PROVE FwdType'
    <2>1. CASE Dies(p)  BY <2>1, DiesType
    <2>2. CASE /\ fwd' = [fwd EXCEPT ![p] = "run"] /\ fwdPkt' = [fwdPkt EXCEPT ![p] = 0]
               /\ UNCHANGED inbound
      BY <2>2 DEF FwdType
    <2>3. QED  BY <1>6, <2>1, <2>2 DEF FwdAnswer
  <1>7. ASSUME NEW p \in Peers, FwdQuits(p) PROVE FwdType'
    BY <1>7 DEF FwdQuits, FwdType
  <1>8. ASSUME NEW p \in Peers, FwdRemove(p) PROVE FwdType'
    BY <1>0, <1>8, EmptyType DEF FwdRemove, FwdType
  <1>9. QED  BY <1>1, <1>2, <1>3, <1>4, <1>5, <1>6, <1>7, <1>8, FwdFrame

LEMMA WriterStep ==
  ASSUME WriterType, FwdType, [Next]_vars
  PROVE  WriterType'
  <1>0. OutSize \in Nat  BY SizesAssumption
  <1>1. CASE UNCHANGED <<outbound, writerVars>>  BY <1>1 DEF WriterType, writerVars
  <1>2. ASSUME NEW p \in Peers, FwdAnswer(p) PROVE WriterType'
    <2>1. fwdPkt[p] \in Nat \ {0}  BY <1>2 DEF FwdAnswer, FwdType
    <2>2. Pkt(p, fwdPkt[p]) \in Packets  BY <2>1, PktType
    <2>3. Append(outbound, Pkt(p, fwdPkt[p])) \in Seq(Packets)
          /\ Len(Append(outbound, Pkt(p, fwdPkt[p]))) = Len(outbound) + 1
          /\ Len(outbound) \in Nat
      BY <2>2, AppendType DEF WriterType
    <2>4. QED  BY <1>0, <1>2, <2>3 DEF FwdAnswer, WriterType, writerVars
  <1>3. CASE WriterRecv
    <2>1. Head(outbound) \in Packets /\ Tail(outbound) \in Seq(Packets)
          /\ Len(Tail(outbound)) = Len(outbound) - 1 /\ Len(outbound) \in Nat
      BY <1>3, TailType DEF WriterRecv, WriterType
    <2>2. QED  BY <1>0, <1>3, <2>1 DEF WriterRecv, WriterType
  <1>4. CASE WriterWrite \/ WriterFails \/ WriterDone
    <2>1. << >> \in Seq(Packets) /\ Len(<< >>) = 0  BY EmptyType
    <2>2. outbound' = outbound \/ outbound' = << >>
      BY <1>4 DEF WriterWrite, WriterFails, WriterDone
    <2>3. Len(outbound') <= OutSize /\ outbound' \in Seq(Packets)
      <3>1. CASE outbound' = outbound  BY <3>1 DEF WriterType
      <3>2. CASE outbound' = << >>  BY <1>0, <2>1, <3>2
      <3>3. QED  BY <2>2, <3>1, <3>2
    <2>4. writer' \in {"recv", "ended"} /\ writerPkt' \in Packets \cup {NoPacket}
      BY <1>4 DEF WriterWrite, WriterFails, WriterDone, WriterType
    <2>5. QED  BY <2>3, <2>4 DEF WriterType
  <1>5. QED  BY <1>1, <1>2, <1>3, <1>4, WriterFrame

LEMMA CountStep ==
  ASSUME CountType, WireType, FwdType, [Next]_vars
  PROVE  CountType'
  <1>1. CASE UNCHANGED countVars  BY <1>1 DEF CountType, countVars
  <1>2. CASE ReadAnswer
    <2>1. PICK t \in Packets : t = Head(downPipe)
      BY <1>2, TailType DEF ReadAnswer, WireType
    <2>2. t.from \in Peers /\ t.n \in Nat  BY FieldTypes
    <2>3. Append(returned[t.from], t.n) \in Seq(Nat)
      BY <2>2, AppendType DEF CountType
    <2>4. QED  BY <1>2, <2>1, <2>2, <2>3 DEF ReadAnswer, CountType
  <1>3. ASSUME NEW p \in Peers, RecvFrom(p) PROVE CountType'
    <2>1. sent[p] + 1 \in Nat  BY DEF CountType
    <2>2. QED  BY <1>3, <2>1 DEF RecvFrom, CountType
  <1>4. ASSUME NEW p \in Peers, FwdSend(p) PROVE CountType'
    <2>1. Head(inbound[p]) \in Nat  BY <1>4, TailType DEF FwdSend, FwdType
    <2>2. Append(got[p], Head(inbound[p])) \in Seq(Nat)
      BY <2>1, AppendType DEF CountType
    <2>3. QED  BY <1>4, <2>2 DEF FwdSend, CountType
  <1>5. ASSUME NEW p \in Peers, FwdRecv(p) PROVE CountType'
    <2>1. answered[p] + 1 \in Nat  BY DEF CountType
    <2>2. QED  BY <1>5, <2>1 DEF FwdRecv, CountType
  <1>6. QED  BY <1>1, <1>2, <1>3, <1>4, <1>5, CountFrame

\* The entry and the forwarder come and go in one step each: Create under the
\* reader's write lock, FwdRemove under the forwarder's own.
LEMMA MapStep ==
  ASSUME MapIsExact, FwdType, ReaderType, [Next]_vars
  PROVE  MapIsExact'
  <1>1. CASE Create
    <2>1. readerPkt.from \in Peers  BY <1>1, FieldTypes DEF Create, ReaderType
    <2>2. QED  BY <1>1, <2>1 DEF Create, MapIsExact, FwdType
  <1>2. ASSUME NEW p \in Peers, FwdRemove(p) PROVE MapIsExact'
    BY <1>2 DEF FwdRemove, MapIsExact, FwdType
  <1>3. ASSUME NEW p \in Peers, FwdQuits(p) PROVE MapIsExact'
    BY <1>3 DEF FwdQuits, MapIsExact, FwdType
  <1>4. ASSUME NEW p \in Peers, FwdSend(p) \/ FwdRecv(p) \/ FwdAnswer(p)
        PROVE  MapIsExact'
    BY <1>4 DEF FwdSend, FwdRecv, FwdAnswer, Dies, lockVars, MapIsExact, FwdType
  <1>5. CASE UNCHANGED fwd /\ UNCHANGED portMap  BY <1>5 DEF MapIsExact
  <1>6. UNCHANGED portMap \/ Create \/ \E p \in Peers : FwdRemove(p)
    BY LockFrame DEF lockVars, ReadPacket, Look, Again, FwdQuits
  <1>7. \/ UNCHANGED fwd \/ Create
        \/ \E p \in Peers :
             FwdSend(p) \/ FwdRecv(p) \/ FwdAnswer(p) \/ FwdQuits(p) \/ FwdRemove(p)
    BY FwdFrame DEF fwdVars, Hand
  <1>8. QED  BY <1>1, <1>2, <1>3, <1>4, <1>5, <1>6, <1>7

-----------------------------------------------------------------------------
(* The specification.                                                      *)

\* The parts are inductive together.
THEOREM Invariance == Spec => []IInv
  <1>1. ASSUME IInv, [Next]_vars PROVE IInv'
    <2>1. ServerType' /\ WireType' /\ ReaderType'
      BY <1>1, ServerStep, WireStep, ReaderStep DEF IInv
    <2>2. LockType' /\ FwdType' /\ WriterType' /\ CountType'
      BY <1>1, LockStep, FwdStep, WriterStep, CountStep DEF IInv
    <2>3. MapIsExact'  BY <1>1, MapStep DEF IInv
    <2>4. QED  BY <2>1, <2>2, <2>3 DEF IInv
  <1>2. QED  BY InitInv, <1>1, PTL DEF Spec

\* Tasks, queues and counters keep their types, and no queue or pipe outgrows
\* its bound, whatever the number of peers and the traffic (client.rs:317-415).
THEOREM TypeCorrect == Spec => []TypeOK
  <1>1. IInv => TypeOK
    BY DEF IInv, ServerType, WireType, ReaderType, LockType, FwdType, WriterType,
           CountType, TypeOK
  <1>2. QED  BY Invariance, <1>1, PTL

\* An entry of port_map has a forwarder that has not returned, or one whose
\* send failed, and a forwarder has an entry (client.rs:334-362, 408).
THEOREM MapExact == Spec => []MapIsExact
  <1>1. IInv => MapIsExact  BY DEF IInv
  <1>2. QED  BY Invariance, <1>1, PTL

-----------------------------------------------------------------------------
(***************************************************************************)
(* Order.  The datagrams of one peer stand in five places on their way, in *)
(* either direction.  What is further on has the smaller numbers (Chain),  *)
(* and within a queue they ascend; so a step that takes the head of one    *)
(* place into the next, or drops something, keeps the chain.               *)
(***************************************************************************)

Before(S, T) == \A m \in S, n \in T : m < n

Chain(A, B, C, D, E) ==
  /\ Before(A, B) /\ Before(A, C) /\ Before(A, D) /\ Before(A, E)
  /\ Before(B, C) /\ Before(B, D) /\ Before(B, E)
  /\ Before(C, D) /\ Before(C, E)
  /\ Before(D, E)

Least(n, S) == n \in S /\ \A m \in S : m # n => n < m

Values(s) == {s[i] : i \in 1..Len(s)}
Ascending(s) == \A i, j \in 1..Len(s) : i < j => s[i] < s[j]

\* The numbers of p's datagrams in a queue of all peers, and in a hand.
Nums(s, p) == {s[i].n : i \in {j \in 1..Len(s) : s[j].from = p}}
Hands(t, p) == IF t \in Packets /\ t.from = p THEN {t.n} ELSE {}
PeersAscend(s) ==
  \A i, j \in 1..Len(s) : i < j /\ s[i].from = s[j].from => s[i].n < s[j].n

\* From the visitor to the service.
UpAll(p) ==
  (Values(got[p]) \cup Values(inbound[p])) \cup
  ((Hands(readerPkt, p) \cup Nums(upPipe, p)) \cup Hands(loopPkt, p))

UpPeer(p) ==
  /\ Chain(Values(got[p]), Values(inbound[p]), Hands(readerPkt, p), Nums(upPipe, p),
           Hands(loopPkt, p))
  /\ \A m \in UpAll(p) : m <= sent[p]
  /\ Ascending(inbound[p])

UpOrder == (\A p \in Peers : UpPeer(p)) /\ PeersAscend(upPipe)

\* From the service to the visitor; fwdPkt is 0 when the forwarder has no answer.
Answer(p) == {fwdPkt[p]} \ {0}

DownAll(p) ==
  (Values(returned[p]) \cup Nums(downPipe, p)) \cup
  ((Hands(writerPkt, p) \cup Nums(outbound, p)) \cup {fwdPkt[p]})

DownPeer(p) ==
  /\ Chain(Values(returned[p]), Nums(downPipe, p), Hands(writerPkt, p),
           Nums(outbound, p), Answer(p))
  /\ \A m \in DownAll(p) : m <= answered[p]

DownOrder ==
  /\ \A p \in Peers : DownPeer(p)
  /\ PeersAscend(downPipe) /\ PeersAscend(outbound)

LEMMA ChainShrink ==
  ASSUME NEW A, NEW B, NEW C, NEW D, NEW E, Chain(A, B, C, D, E),
         NEW P, NEW Q, NEW R, NEW S, NEW T,
         P \subseteq A, Q \subseteq B, R \subseteq C, S \subseteq D, T \subseteq E
  PROVE  Chain(P, Q, R, S, T)
  BY DEF Chain, Before

\* The head of the second place goes on to the first; likewise the others.
LEMMA ChainMove1 ==
  ASSUME NEW A, NEW B, NEW C, NEW D, NEW E, Chain(A, B, C, D, E),
         NEW n, Least(n, B), NEW P, NEW Q, P \subseteq A \cup {n}, Q \subseteq B \ {n}
  PROVE  Chain(P, Q, C, D, E)
  BY DEF Chain, Before, Least

LEMMA ChainMove2 ==
  ASSUME NEW A, NEW B, NEW C, NEW D, NEW E, Chain(A, B, C, D, E),
         NEW n, Least(n, C), NEW P, NEW Q, P \subseteq B \cup {n}, Q \subseteq C \ {n}
  PROVE  Chain(A, P, Q, D, E)
  BY DEF Chain, Before, Least

LEMMA ChainMove3 ==
  ASSUME NEW A, NEW B, NEW C, NEW D, NEW E, Chain(A, B, C, D, E),
         NEW n, Least(n, D), NEW P, NEW Q, P \subseteq C \cup {n}, Q \subseteq D \ {n}
  PROVE  Chain(A, B, P, Q, E)
  BY DEF Chain, Before, Least

LEMMA ChainMove4 ==
  ASSUME NEW A, NEW B, NEW C, NEW D, NEW E, Chain(A, B, C, D, E),
         NEW n, Least(n, E), NEW P, NEW Q, P \subseteq D \cup {n}, Q \subseteq E \ {n}
  PROVE  Chain(A, B, C, P, Q)
  BY DEF Chain, Before, Least

\* A new number is greater than all that are on their way.
LEMMA ChainEnter ==
  ASSUME NEW A, NEW B, NEW C, NEW D, NEW E, Chain(A, B, C, D, E),
         NEW n, Before((A \cup B) \cup (C \cup D), {n}), NEW T, T \subseteq {n}
  PROVE  Chain(A, B, C, D, T)
  BY DEF Chain, Before

LEMMA ValuesType ==
  ASSUME NEW S, NEW s \in Seq(S)
  PROVE  Values(s) \subseteq S
  BY ElementOfSeq DEF Values

LEMMA NumsType ==
  ASSUME NEW s \in Seq(Packets), NEW p
  PROVE  Nums(s, p) \subseteq Nat \ {0}
  BY ElementOfSeq, FieldTypes DEF Nums

LEMMA HandsType ==
  ASSUME NEW t, NEW p
  PROVE  Hands(t, p) \subseteq Nat \ {0}
  BY FieldTypes DEF Hands

LEMMA ValuesTail ==
  ASSUME NEW s \in Seq(Nat), s # <<>>, Ascending(s)
  PROVE  /\ Ascending(Tail(s)) /\ Least(Head(s), Values(s))
         /\ Values(Tail(s)) \subseteq Values(s) \ {Head(s)}
  <1>1. Len(s) \in Nat /\ Len(s) >= 1  BY TailType
  <1>2. Len(Tail(s)) = Len(s) - 1 /\ \A i \in 1..Len(Tail(s)) : Tail(s)[i] = s[i + 1]
    BY HeadTailProperties
  <1>3. Head(s) = s[1]  BY <1>1
  <1>4. \A i \in 1..Len(s) : s[i] \in Nat  BY ElementOfSeq
  <1>5. Least(Head(s), Values(s))  BY <1>1, <1>3 DEF Least, Values, Ascending
  <1>6. \A i \in 1..Len(Tail(s)) : i + 1 \in 1..Len(s) /\ 1 < i + 1 /\ 1 \in 1..Len(s)
    BY <1>1, <1>2
  <1>7. \A i \in 1..Len(Tail(s)) : Tail(s)[i] \in Values(s) /\ s[1] < Tail(s)[i]
    BY <1>2, <1>6 DEF Values, Ascending
  <1>8. Values(Tail(s)) \subseteq Values(s) \ {Head(s)}
    BY <1>1, <1>3, <1>4, <1>7 DEF Values
  <1>9. Ascending(Tail(s))  BY <1>1, <1>2, <1>6 DEF Ascending
  <1>10. QED  BY <1>5, <1>8, <1>9

LEMMA ValuesAppend ==
  ASSUME NEW s \in Seq(Nat), NEW x \in Nat
  PROVE  /\ Values(Append(s, x)) \subseteq Values(s) \cup {x}
         /\ Ascending(s) /\ Before(Values(s), {x}) => Ascending(Append(s, x))
  <1>1. Len(s) \in Nat /\ Len(Append(s, x)) = Len(s) + 1
    BY AppendProperties, LenProperties
  <1>2. \A i \in 1..Len(s) : Append(s, x)[i] = s[i] /\ s[i] \in Values(s)
    BY AppendProperties DEF Values
  <1>3. Append(s, x)[Len(s) + 1] = x  BY AppendProperties
  <1>4. \A i \in 1..Len(Append(s, x)) : i \in 1..Len(s) \/ i = Len(s) + 1  BY <1>1
  <1>5. Values(Append(s, x)) \subseteq Values(s) \cup {x}
    BY <1>2, <1>3, <1>4 DEF Values
  <1>6. ASSUME Ascending(s), Before(Values(s), {x}) PROVE Ascending(Append(s, x))
    BY <1>1, <1>2, <1>3, <1>4, <1>6 DEF Ascending, Before
  <1>7. QED  BY <1>5, <1>6

LEMMA NumsTail ==
  ASSUME NEW s \in Seq(Packets), s # <<>>, PeersAscend(s)
  PROVE  /\ PeersAscend(Tail(s))
         /\ Least(Head(s).n, Nums(s, Head(s).from))
         /\ Nums(Tail(s), Head(s).from) \subseteq Nums(s, Head(s).from) \ {Head(s).n}
         /\ \A p : Nums(Tail(s), p) \subseteq Nums(s, p)
  <1>1. Len(s) \in Nat /\ Len(s) >= 1  BY TailType
  <1>2. Len(Tail(s)) = Len(s) - 1 /\ \A i \in 1..Len(Tail(s)) : Tail(s)[i] = s[i + 1]
    BY HeadTailProperties
  <1>3. Head(s) = s[1]  BY <1>1
  <1>4. \A i \in 1..Len(s) : s[i].n \in Nat  BY ElementOfSeq, FieldTypes
  <1>5. Least(Head(s).n, Nums(s, Head(s).from))
    BY <1>1, <1>3 DEF Least, Nums, PeersAscend
  <1>6. \A i \in 1..Len(Tail(s)) : i + 1 \in 1..Len(s) /\ 1 < i + 1 /\ 1 \in 1..Len(s)
    BY <1>1, <1>2
  <1>7. \A p : Nums(Tail(s), p) \subseteq Nums(s, p)  BY <1>2, <1>6 DEF Nums
  <1>8. ASSUME NEW i \in 1..Len(Tail(s)), Tail(s)[i].from = Head(s).from
        PROVE  Tail(s)[i].n # Head(s).n
    <2>1. s[1].n < s[i + 1].n  BY <1>2, <1>3, <1>6, <1>8 DEF PeersAscend
    <2>2. s[1].n \in Nat /\ s[i + 1].n \in Nat  BY <1>4, <1>6
    <2>3. QED  BY <1>2, <1>3, <2>1, <2>2
  <1>9. Head(s).n \notin Nums(Tail(s), Head(s).from)  BY <1>8 DEF Nums
  <1>10. PeersAscend(Tail(s))  BY <1>1, <1>2, <1>6 DEF PeersAscend
  <1>11. QED  BY <1>5, <1>7, <1>9, <1>10

LEMMA NumsAppend ==
  ASSUME NEW s \in Seq(Packets), NEW t \in Packets
  PROVE  /\ \A p : Nums(Append(s, t), p) \subseteq Nums(s, p) \cup Hands(t, p)
         /\ PeersAscend(s) /\ Before(Nums(s, t.from), {t.n}) => PeersAscend(Append(s, t))
  <1>1. Len(s) \in Nat /\ Len(Append(s, t)) = Len(s) + 1
    BY AppendProperties, LenProperties
  <1>2. \A i \in 1..Len(s) : Append(s, t)[i] = s[i] /\ s[i].n \in Nums(s, s[i].from)
    BY AppendProperties DEF Nums
  <1>3. Append(s, t)[Len(s) + 1] = t  BY AppendProperties
  <1>4. \A i \in 1..Len(Append(s, t)) : i \in 1..Len(s) \/ i = Len(s) + 1  BY <1>1
  <1>5. \A p : Nums(Append(s, t), p) \subseteq Nums(s, p) \cup Hands(t, p)
    BY <1>2, <1>3, <1>4 DEF Nums, Hands
  <1>6. ASSUME PeersAscend(s), Before(Nums(s, t.from), {t.n})
        PROVE  PeersAscend(Append(s, t))
    BY <1>1, <1>2, <1>3, <1>4, <1>6 DEF PeersAscend, Before
  <1>7. QED  BY <1>5, <1>6

LEMMA Empties ==
  /\ Values(<<>>) = {} /\ Ascending(<<>>) /\ PeersAscend(<<>>)
  /\ \A p : Nums(<<>>, p) = {} /\ Hands(NoPacket, p) = {}
  BY PacketAssumption DEF Values, Ascending, PeersAscend, Nums, Hands

-----------------------------------------------------------------------------
(* The way up: five steps hand a datagram on, the others leave it or drop  *)
(* what stands in one place.                                               *)

LEMMA UpFrame ==
  [Next]_vars =>
    \/ UNCHANGED <<got, inbound, readerPkt, upPipe, loopPkt, sent>>
    \/ \E p \in Peers : RecvFrom(p) \/ FwdSend(p) \/ FwdAnswer(p) \/ FwdRemove(p)
    \/ WriteSlice \/ LoopShutdown \/ LoopFails \/ Break \/ ReadPacket \/ Create \/ Again
    \/ Hand
  BY DEF Next, vars, serverVars, wireVars, readerVars, fwdVars, countVars, ReadAnswer,
         SendShutdown, ReaderFails, Look, WriterRecv, WriterWrite, WriterFails,
         WriterDone, FwdRecv, FwdTimeout, FwdRecvFails, FwdQuits

LEMMA UpDrops ==
  ASSUME UpOrder, UNCHANGED <<got, sent>>,
         \A p \in Peers : inbound'[p] = inbound[p] \/ inbound'[p] = <<>>,
         readerPkt' = readerPkt \/ readerPkt' = NoPacket,
         upPipe' = upPipe \/ upPipe' = <<>>,
         loopPkt' = loopPkt \/ loopPkt' = NoPacket
  PROVE  UpOrder'
  <1>1. ASSUME NEW p \in Peers PROVE UpPeer(p)'
    <2>1. /\ Values(got[p])' = Values(got[p])
          /\ Values(inbound[p])' \subseteq Values(inbound[p])
          /\ Hands(readerPkt, p)' \subseteq Hands(readerPkt, p)
          /\ Nums(upPipe, p)' \subseteq Nums(upPipe, p)
          /\ Hands(loopPkt, p)' \subseteq Hands(loopPkt, p)
      BY Empties
    <2>2. Chain(Values(got[p]), Values(inbound[p]), Hands(readerPkt, p), Nums(upPipe, p),
                Hands(loopPkt, p))'
      BY <2>1, ChainShrink DEF UpOrder, UpPeer
    <2>3. UpAll(p)' \subseteq UpAll(p)  BY <2>1 DEF UpAll
    <2>4. Ascending(inbound[p])'  BY Empties DEF UpOrder, UpPeer
    <2>5. QED  BY <2>2, <2>3, <2>4 DEF UpOrder, UpPeer
  <1>2. PeersAscend(upPipe)'  BY Empties DEF UpOrder
  <1>3. QED  BY <1>1, <1>2 DEF UpOrder

LEMMA UpRecvFrom ==
  ASSUME IInv, UpOrder, NEW q \in Peers, RecvFrom(q)
  PROVE  UpOrder'
  <1>1. PICK n \in Nat : n = sent[q] + 1  BY DEF IInv, CountType
  <1>2. /\ loopPkt' = Pkt(q, n) /\ sent' = [sent EXCEPT ![q] = n]
        /\ UNCHANGED <<got, inbound, readerPkt, upPipe>>
    BY <1>1 DEF RecvFrom, wireVars, readerVars, fwdVars, IInv, CountType
  <1>3. ASSUME NEW p \in Peers PROVE UpPeer(p)'
    <2>1. sent[p] \in Nat /\ sent'[p] \in Nat /\ sent[p] <= sent'[p]
      BY <1>1, <1>2 DEF IInv, CountType
    <2>2. UpAll(p) \subseteq Nat
      <3>1. Values(got[p]) \subseteq Nat  BY ValuesType DEF IInv, CountType
      <3>2. Values(inbound[p]) \subseteq Nat \ {0}  BY ValuesType DEF IInv, FwdType
      <3>3. Nums(upPipe, p) \subseteq Nat \ {0}  BY NumsType DEF IInv, WireType
      <3>4. QED  BY <3>1, <3>2, <3>3, HandsType DEF UpAll
    <2>3. Hands(loopPkt, p)' \subseteq (IF p = q THEN {n} ELSE {})
      BY <1>2 DEF Hands, Pkt
    <2>4. Before((Values(got[p]) \cup Values(inbound[p])) \cup
                 (Hands(readerPkt, p) \cup Nums(upPipe, p)), Hands(loopPkt, p)')
      BY <1>1, <2>2, <2>3 DEF UpOrder, UpPeer, UpAll, Before, IInv, CountType
    <2>5. Chain(Values(got[p]), Values(inbound[p]), Hands(readerPkt, p), Nums(upPipe, p),
                Hands(loopPkt, p)')
      BY <2>4 DEF UpOrder, UpPeer, Chain, Before
    <2>6. \A m \in UpAll(p)' : m \in UpAll(p) \/ (p = q /\ m = n)
      BY <1>2, <2>3 DEF UpAll
    <2>7. ASSUME NEW m \in UpAll(p)' PROVE m <= sent'[p]
      <3>1. CASE m \in UpAll(p)
        <4>1. m \in Nat /\ m <= sent[p]  BY <2>2, <3>1 DEF UpOrder, UpPeer
        <4>2. QED  BY <2>1, <4>1
      <3>2. CASE p = q /\ m = n  BY <1>2, <2>1, <3>2 DEF IInv, CountType
      <3>3. QED  BY <2>6, <3>1, <3>2
    <2>8. QED  BY <1>2, <2>5, <2>7 DEF UpOrder, UpPeer
  <1>4. QED  BY <1>2, <1>3 DEF UpOrder

LEMMA UpWriteSlice ==
  ASSUME IInv, UpOrder, WriteSlice
  PROVE  UpOrder'
  <1>1. PICK t \in Packets : t = loopPkt  BY DEF WriteSlice, IInv, ServerType
  <1>2. /\ upPipe' = Append(upPipe, t) /\ loopPkt' = NoPacket
        /\ UNCHANGED <<got, inbound, readerPkt, sent>>
    BY <1>1 DEF WriteSlice, readerVars, fwdVars, countVars
  <1>3. upPipe \in Seq(Packets)  BY DEF IInv, WireType
  <1>4. t.from \in Peers /\ t.n \in Hands(t, t.from)  BY FieldTypes DEF Hands
  <1>5. ASSUME NEW p \in Peers PROVE UpPeer(p)'
    <2>1. Nums(upPipe, p)' \subseteq Nums(upPipe, p) \cup Hands(t, p)
      BY <1>2, <1>3, NumsAppend
    <2>2. Hands(loopPkt, p)' = {}  BY <1>2, Empties
    <2>3. Chain(Values(got[p]), Values(inbound[p]), Hands(readerPkt, p),
                Nums(upPipe, p)', {})
      <3>1. CASE t.from = p
        <4>1. Hands(loopPkt, p) = {t.n}  BY <1>1, <3>1 DEF Hands
        <4>2. Least(t.n, Hands(loopPkt, p))  BY <4>1 DEF Least
        <4>3. QED  BY <1>1, <2>1, <4>1, <4>2, ChainMove4 DEF UpOrder, UpPeer
      <3>2. CASE t.from # p
        <4>1. Nums(upPipe, p)' \subseteq Nums(upPipe, p)  BY <2>1, <3>2 DEF Hands
        <4>2. QED  BY <4>1, ChainShrink DEF UpOrder, UpPeer
      <3>3. QED  BY <3>1, <3>2
    <2>4. UpAll(p)' \subseteq UpAll(p)  BY <1>1, <1>2, <2>1, <2>2 DEF UpAll
    <2>5. QED  BY <1>2, <2>2, <2>3, <2>4 DEF UpOrder, UpPeer
  <1>6. PeersAscend(upPipe)'
    <2>1. Before(Nums(upPipe, t.from), {t.n})
      BY <1>1, <1>4 DEF UpOrder, UpPeer, Chain, Before
    <2>2. QED  BY <1>2, <1>3, <2>1, NumsAppend DEF UpOrder
  <1>7. QED  BY <1>5, <1>6 DEF UpOrder

LEMMA UpReadPacket ==
  ASSUME IInv, UpOrder, ReadPacket
  PROVE  UpOrder'
  <1>1. upPipe \in Seq(Packets) /\ upPipe # <<>>  BY DEF ReadPacket, IInv, WireType
  <1>2. PICK t \in Packets : t = Head(upPipe)  BY <1>1, TailType
  <1>3. /\ readerPkt' = t /\ upPipe' = Tail(upPipe)
        /\ UNCHANGED <<got, inbound, loopPkt, sent>>
    BY <1>2 DEF ReadPacket, serverVars, fwdVars, countVars
  <1>4. ASSUME NEW p \in Peers PROVE UpPeer(p)'
    <2>1. Hands(readerPkt, p)' = Hands(t, p)  BY <1>3
    <2>2. Nums(upPipe, p)' \subseteq Nums(upPipe, p)
      BY <1>1, <1>3, NumsTail DEF UpOrder
    <2>3. Chain(Values(got[p]), Values(inbound[p]), Hands(t, p), Nums(upPipe, p)',
                Hands(loopPkt, p))
      <3>1. CASE t.from = p
        <4>1. Hands(t, p) = {t.n}  BY <3>1 DEF Hands
        <4>2. Least(t.n, Nums(upPipe, p)) /\ Nums(upPipe, p)' \subseteq Nums(upPipe, p) \ {t.n}
          BY <1>1, <1>2, <1>3, <3>1, NumsTail DEF UpOrder
        <4>3. QED  BY <4>1, <4>2, ChainMove3 DEF UpOrder, UpPeer
      <3>2. CASE t.from # p
        <4>1. Hands(t, p) = {}  BY <3>2 DEF Hands
        <4>2. QED  BY <2>2, <4>1, ChainShrink DEF UpOrder, UpPeer
      <3>3. QED  BY <3>1, <3>2
    <2>4. Hands(t, p) \subseteq Nums(upPipe, p)
      BY <1>1, <1>2, NumsTail DEF UpOrder, Hands, Least
    <2>5. UpAll(p)' \subseteq UpAll(p)  BY <1>3, <2>1, <2>2, <2>4 DEF UpAll
    <2>6. QED  BY <1>3, <2>1, <2>3, <2>5 DEF UpOrder, UpPeer
  <1>5. PeersAscend(upPipe)'  BY <1>1, <1>3, NumsTail DEF UpOrder
  <1>6. QED  BY <1>4, <1>5 DEF UpOrder

LEMMA UpHand ==
  ASSUME IInv, UpOrder, Hand
  PROVE  UpOrder'
  <1>1. PICK t \in Packets : t = readerPkt  BY DEF Hand, IInv, ReaderType
  <1>2. t.from \in Peers /\ t.n \in Nat \ {0}  BY FieldTypes
  <1>3. /\ readerPkt' = NoPacket /\ UNCHANGED <<got, upPipe, loopPkt, sent>>
        /\ UNCHANGED inbound
           \/ inbound' = [inbound EXCEPT ![t.from] = Append(inbound[t.from], t.n)]
    BY <1>1 DEF Hand, serverVars, wireVars, countVars
  <1>4. CASE UNCHANGED inbound  BY <1>3, <1>4, UpDrops
  <1>5. CASE inbound' = [inbound EXCEPT ![t.from] = Append(inbound[t.from], t.n)]
    <2>1. ASSUME NEW p \in Peers PROVE UpPeer(p)'
      <3>1. CASE p = t.from
        <4>1. inbound[p] \in Seq(Nat) /\ inbound[p]' = Append(inbound[p], t.n)
          BY <1>5, <3>1, SeqMonotonic DEF IInv, FwdType
        <4>2. Hands(readerPkt, p) = {t.n}  BY <1>1, <3>1 DEF Hands
        <4>3. Least(t.n, Hands(readerPkt, p))  BY <4>2 DEF Least
        <4>4. Values(inbound[p])' \subseteq Values(inbound[p]) \cup {t.n}
          BY <1>2, <4>1, ValuesAppend
        <4>5. Hands(readerPkt, p)' = {}  BY <1>3, Empties
        <4>6. Chain(Values(got[p]), Values(inbound[p])', {}, Nums(upPipe, p),
                    Hands(loopPkt, p))
          BY <4>2, <4>3, <4>4, ChainMove2 DEF UpOrder, UpPeer
        <4>7. Before(Values(inbound[p]), {t.n})
          BY <4>2 DEF UpOrder, UpPeer, Chain
        <4>8. Ascending(inbound[p])'
          BY <1>2, <4>1, <4>7, ValuesAppend DEF UpOrder, UpPeer
        <4>9. UpAll(p)' \subseteq UpAll(p)  BY <1>3, <4>2, <4>4, <4>5 DEF UpAll
        <4>10. QED  BY <1>3, <4>5, <4>6, <4>8, <4>9 DEF UpOrder, UpPeer
      <3>2. CASE p # t.from
        <4>1. inbound[p]' = inbound[p]  BY <1>5, <3>2 DEF IInv, FwdType
        <4>2. Hands(readerPkt, p) = {} /\ Hands(readerPkt, p)' = {}
          BY <1>1, <1>3, <3>2, Empties DEF Hands
        <4>3. QED  BY <1>3, <4>1, <4>2 DEF UpOrder, UpPeer, UpAll
      <3>3. QED  BY <3>1, <3>2
    <2>2. QED  BY <1>3, <2>1 DEF UpOrder
  <1>6. QED  BY <1>3, <1>4, <1>5

\* What FwdSend gives to the service is greater than all it has been given.
LEMMA UpNext ==
  ASSUME IInv, UpOrder, NEW q \in Peers, inbound[q] # <<>>
  PROVE  /\ inbound[q] \in Seq(Nat) /\ Head(inbound[q]) \in 1..sent[q]
         /\ Least(Head(inbound[q]), Values(inbound[q]))
         /\ \A i \in 1..Len(got[q]) : got[q][i] < Head(inbound[q])
  <1>1. inbound[q] \in Seq(Nat) /\ Head(inbound[q]) \in Nat \ {0}
    BY TailType, SeqMonotonic DEF IInv, FwdType
  <1>2. Least(Head(inbound[q]), Values(inbound[q]))
    BY <1>1, ValuesTail DEF UpOrder, UpPeer
  <1>3. Head(inbound[q]) <= sent[q]  BY <1>2 DEF Least, UpOrder, UpPeer, UpAll
  <1>4. sent[q] \in Nat  BY DEF IInv, CountType
  <1>5. Before(Values(got[q]), Values(inbound[q]))  BY DEF UpOrder, UpPeer, Chain
  <1>6. \A i \in 1..Len(got[q]) : got[q][i] < Head(inbound[q])
    BY <1>2, <1>5 DEF Before, Values, Least
  <1>7. QED  BY <1>1, <1>2, <1>3, <1>4, <1>6

LEMMA UpFwdSend ==
  ASSUME IInv, UpOrder, NEW q \in Peers, FwdSend(q)
  PROVE  UpOrder'
  <1>1. UNCHANGED <<readerPkt, upPipe, loopPkt, sent>>
    BY DEF FwdSend, serverVars, wireVars, readerVars
  <1>2. CASE Dies(q) /\ UNCHANGED got
    <2>1. \A p \in Peers : inbound'[p] = inbound[p] \/ inbound'[p] = <<>>
      BY <1>2 DEF Dies, IInv, FwdType
    <2>2. QED  BY <1>1, <1>2, <2>1, UpDrops
  <1>3. CASE /\ got' = [got EXCEPT ![q] = Append(got[q], Head(inbound[q]))]
             /\ inbound' = [inbound EXCEPT ![q] = Tail(inbound[q])]
    <2>1. inbound[q] # <<>>  BY DEF FwdSend
    <2>2. PICK n \in Nat : n = Head(inbound[q])  BY <2>1, UpNext
    <2>3. inbound[q] \in Seq(Nat) /\ got[q] \in Seq(Nat) /\ Least(n, Values(inbound[q]))
      BY <2>1, <2>2, UpNext DEF IInv, CountType
    <2>4. ASSUME NEW p \in Peers PROVE UpPeer(p)'
      <3>1. CASE p = q
        <4>1. got[p]' = Append(got[p], n) /\ inbound[p]' = Tail(inbound[p])
          BY <1>3, <2>2, <3>1 DEF IInv, CountType, FwdType
        <4>6. Values(got[p])' \subseteq Values(got[p]) \cup {n}
          BY <2>3, <3>1, <4>1, ValuesAppend
        <4>7. Ascending(inbound[p])  BY DEF UpOrder, UpPeer
        <4>2. /\ Values(got[p])' \subseteq Values(got[p]) \cup {n}
              /\ Values(inbound[p])' \subseteq Values(inbound[p]) \ {n}
              /\ Ascending(inbound[p])'
          BY <2>1, <2>2, <2>3, <3>1, <4>1, <4>6, <4>7, ValuesTail
        <4>3. Chain(Values(got[p])', Values(inbound[p])', Hands(readerPkt, p),
                    Nums(upPipe, p), Hands(loopPkt, p))
          BY <2>3, <3>1, <4>2, ChainMove1 DEF UpOrder, UpPeer
        <4>4. UpAll(p)' \subseteq UpAll(p)
          BY <1>1, <2>3, <3>1, <4>2 DEF UpAll, Least
        <4>5. QED  BY <1>1, <4>2, <4>3, <4>4 DEF UpOrder, UpPeer
      <3>2. CASE p # q
        <4>1. got[p]' = got[p] /\ inbound[p]' = inbound[p]
          BY <1>3, <3>2 DEF IInv, CountType, FwdType
        <4>2. QED  BY <1>1, <4>1 DEF UpOrder, UpPeer, UpAll
      <3>3. QED  BY <3>1, <3>2
    <2>5. QED  BY <1>1, <2>4 DEF UpOrder
  <1>4. QED  BY <1>2, <1>3 DEF FwdSend

LEMMA UpStep ==
  ASSUME IInv, UpOrder, [Next]_vars
  PROVE  UpOrder'
  <1>1. CASE UNCHANGED <<got, inbound, readerPkt, upPipe, loopPkt, sent>>
    BY <1>1, UpDrops
  <1>2. ASSUME NEW p \in Peers, FwdAnswer(p) \/ FwdRemove(p) PROVE UpOrder'
    <2>1. UNCHANGED <<got, readerPkt, upPipe, loopPkt, sent>>
      BY <1>2 DEF FwdAnswer, FwdRemove, serverVars, wireVars, readerVars, countVars
    <2>2. \A q \in Peers : inbound'[q] = inbound[q] \/ inbound'[q] = <<>>
      BY <1>2 DEF FwdAnswer, FwdRemove, Dies, IInv, FwdType
    <2>3. QED  BY <2>1, <2>2, UpDrops
  <1>3. CASE LoopShutdown \/ LoopFails \/ Break \/ Again
    <2>1. /\ UNCHANGED <<got, inbound, sent>>
          /\ readerPkt' = readerPkt \/ readerPkt' = NoPacket
          /\ upPipe' = upPipe \/ upPipe' = <<>>
          /\ loopPkt' = loopPkt \/ loopPkt' = NoPacket
      BY <1>3 DEF LoopShutdown, LoopFails, LoopEnds, Break, Again, serverVars, wireVars,
                  readerVars, fwdVars, countVars
    <2>2. QED  BY <2>1, UpDrops
  <1>4. CASE Create
    <2>1. UNCHANGED <<got, readerPkt, upPipe, loopPkt, sent>>
      BY <1>4 DEF Create, serverVars, wireVars, countVars
    <2>2. \A q \in Peers : inbound'[q] = inbound[q] \/ inbound'[q] = <<>>
      BY <1>4 DEF Create, IInv, FwdType
    <2>3. QED  BY <2>1, <2>2, UpDrops
  <1>5. QED
    BY <1>1, <1>2, <1>3, <1>4, UpFrame, UpRecvFrom, UpWriteSlice, UpReadPacket, UpHand,
       UpFwdSend

-----------------------------------------------------------------------------
(* The way down.                                                           *)

LEMMA DownFrame ==
  [Next]_vars =>
    \/ UNCHANGED <<returned, downPipe, writerPkt, outbound, fwdPkt, answered>>
    \/ \E p \in Peers : FwdRecv(p) \/ FwdSend(p) \/ FwdAnswer(p)
    \/ ReadAnswer \/ LoopShutdown \/ LoopFails \/ Break \/ WriterRecv \/ WriterWrite
    \/ WriterFails
  BY DEF Next, vars, serverVars, wireVars, readerVars, fwdVars, writerVars, countVars,
         RecvFrom, WriteSlice, SendShutdown, ReadPacket, ReaderFails, Look, Create, Again,
         Hand, WriterDone, FwdTimeout, FwdRecvFails, FwdQuits, FwdRemove

LEMMA DownDrops ==
  ASSUME IInv, DownOrder, UNCHANGED <<returned, answered>>,
         \A p \in Peers : fwdPkt'[p] = fwdPkt[p] \/ fwdPkt'[p] = 0,
         writerPkt' = writerPkt \/ writerPkt' = NoPacket,
         downPipe' = downPipe \/ downPipe' = <<>>,
         outbound' = outbound \/ outbound' = <<>>
  PROVE  DownOrder'
  <1>1. ASSUME NEW p \in Peers PROVE DownPeer(p)'
    <2>1. /\ Values(returned[p])' = Values(returned[p])
          /\ Nums(downPipe, p)' \subseteq Nums(downPipe, p)
          /\ Hands(writerPkt, p)' \subseteq Hands(writerPkt, p)
          /\ Nums(outbound, p)' \subseteq Nums(outbound, p)
          /\ Answer(p)' \subseteq Answer(p)
      BY Empties DEF Answer
    <2>2. Chain(Values(returned[p]), Nums(downPipe, p), Hands(writerPkt, p),
                Nums(outbound, p), Answer(p))'
      BY <2>1, ChainShrink DEF DownOrder, DownPeer
    <2>3. DownAll(p)' \subseteq DownAll(p) \cup {0}  BY <2>1 DEF DownAll
    <2>4. answered[p] \in Nat  BY DEF IInv, CountType
    <2>5. QED  BY <2>2, <2>3, <2>4 DEF DownOrder, DownPeer
  <1>2. PeersAscend(downPipe)' /\ PeersAscend(outbound)'  BY Empties DEF DownOrder
  <1>3. QED  BY <1>1, <1>2 DEF DownOrder

LEMMA DownFwdRecv ==
  ASSUME IInv, DownOrder, NEW q \in Peers, FwdRecv(q)
  PROVE  DownOrder'
  <1>1. PICK n \in Nat : n = answered[q] + 1  BY DEF IInv, CountType
  <1>2. /\ fwdPkt' = [fwdPkt EXCEPT ![q] = n] /\ answered' = [answered EXCEPT ![q] = n]
        /\ UNCHANGED <<returned, downPipe, writerPkt, outbound>>
    BY <1>1 DEF FwdRecv, wireVars, writerVars, IInv, CountType
  <1>3. ASSUME NEW p \in Peers PROVE DownPeer(p)'
    <2>1. CASE p # q
      <3>1. fwdPkt'[p] = fwdPkt[p] /\ answered'[p] = answered[p]
        BY <1>2, <2>1 DEF IInv, CountType, FwdType
      <3>2. QED  BY <1>2, <3>1 DEF DownOrder, DownPeer, DownAll, Answer
    <2>2. CASE p = q
      <3>1. fwdPkt'[p] = n /\ answered'[p] = n /\ answered[p] \in Nat /\ n = answered[p] + 1
        BY <1>1, <1>2, <2>2 DEF IInv, CountType, FwdType
      <3>2. DownAll(p) \subseteq Nat
        <4>1. Values(returned[p]) \subseteq Nat  BY ValuesType DEF IInv, CountType
        <4>2. Nums(downPipe, p) \subseteq Nat \ {0}  BY NumsType DEF IInv, WireType
        <4>3. Nums(outbound, p) \subseteq Nat \ {0}  BY NumsType DEF IInv, WriterType
        <4>4. fwdPkt[p] \in Nat  BY DEF IInv, FwdType
        <4>5. QED  BY <4>1, <4>2, <4>3, <4>4, HandsType DEF DownAll
      <3>3. \A m \in DownAll(p) : m <= answered[p]  BY DEF DownOrder, DownPeer
      <3>4. Before((Values(returned[p]) \cup Nums(downPipe, p)) \cup
                   (Hands(writerPkt, p) \cup Nums(outbound, p)), {n})
        BY <3>1, <3>2, <3>3 DEF DownAll, Before
      <3>5. Chain(Values(returned[p]), Nums(downPipe, p), Hands(writerPkt, p),
                  Nums(outbound, p), Answer(p)')
        BY <3>1, <3>4, ChainEnter DEF DownOrder, DownPeer, Answer
      <3>6. DownAll(p)' \subseteq DownAll(p) \cup {n}  BY <1>2, <3>1 DEF DownAll
      <3>7. \A m \in DownAll(p)' : m <= answered'[p]  BY <3>1, <3>2, <3>3, <3>6
      <3>8. QED  BY <1>2, <3>5, <3>7 DEF DownPeer
    <2>3. QED  BY <2>1, <2>2
  <1>4. QED  BY <1>2, <1>3 DEF DownOrder

LEMMA DownFwdAnswer ==
  ASSUME IInv, DownOrder, NEW q \in Peers, FwdAnswer(q)
  PROVE  DownOrder'
  <1>1. UNCHANGED <<returned, downPipe, writerPkt, answered>>
    BY DEF FwdAnswer, wireVars, writerVars, countVars
  <1>2. fwdPkt' = [fwdPkt EXCEPT ![q] = 0]  BY DEF FwdAnswer, Dies
  <1>3. CASE UNCHANGED outbound
    <2>1. \A p \in Peers : fwdPkt'[p] = fwdPkt[p] \/ fwdPkt'[p] = 0
      BY <1>2 DEF IInv, FwdType
    <2>2. QED  BY <1>1, <1>3, <2>1, DownDrops
  <1>4. CASE outbound' = Append(outbound, Pkt(q, fwdPkt[q]))
    <2>1. PICK n \in Nat \ {0} : n = fwdPkt[q]  BY DEF FwdAnswer, IInv, FwdType
    <2>2. PICK t \in Packets : t = Pkt(q, n)  BY PktType
    <2>3. t.from = q /\ t.n = n  BY <2>2 DEF Pkt
    <2>4. outbound \in Seq(Packets)  BY DEF IInv, WriterType
    <2>5. ASSUME NEW p \in Peers PROVE DownPeer(p)'
      <3>1. Nums(outbound, p)' \subseteq Nums(outbound, p) \cup Hands(t, p)
        BY <1>4, <2>1, <2>2, <2>4, NumsAppend
      <3>2. CASE p = q
        <4>1. Answer(p) = {n} /\ Answer(p)' = {}
          BY <1>2, <2>1, <3>2 DEF IInv, FwdType, Answer
        <4>2. Least(n, Answer(p))  BY <4>1 DEF Least
        <4>3. Nums(outbound, p)' \subseteq Nums(outbound, p) \cup {n}
          BY <2>3, <3>1, <3>2 DEF Hands
        <4>4. Chain(Values(returned[p]), Nums(downPipe, p), Hands(writerPkt, p),
                    Nums(outbound, p)', {})
          BY <4>1, <4>2, <4>3, ChainMove4 DEF DownOrder, DownPeer
        <4>5. fwdPkt'[p] = 0 /\ fwdPkt[p] = n  BY <1>2, <2>1, <3>2 DEF IInv, FwdType
        <4>6. DownAll(p)' \subseteq DownAll(p) \cup {0}
          BY <1>1, <4>3, <4>5 DEF DownAll
        <4>7. answered[p] \in Nat  BY DEF IInv, CountType
        <4>8. QED  BY <1>1, <4>1, <4>4, <4>6, <4>7 DEF DownOrder, DownPeer
      <3>3. CASE p # q
        <4>1. fwdPkt'[p] = fwdPkt[p]  BY <1>2, <3>3 DEF IInv, FwdType
        <4>2. Nums(outbound, p)' \subseteq Nums(outbound, p)
          BY <2>3, <3>1, <3>3 DEF Hands
        <4>3. Chain(Values(returned[p]), Nums(downPipe, p), Hands(writerPkt, p),
                    Nums(outbound, p)', Answer(p))
          BY <4>2, ChainShrink DEF DownOrder, DownPeer
        <4>4. DownAll(p)' \subseteq DownAll(p)  BY <1>1, <4>1, <4>2 DEF DownAll
        <4>5. QED  BY <1>1, <4>1, <4>3, <4>4 DEF DownOrder, DownPeer, Answer
      <3>4. QED  BY <3>2, <3>3
    <2>6. PeersAscend(outbound)'
      <3>1. Before(Nums(outbound, q), {n})
        BY <2>1 DEF DownOrder, DownPeer, Chain, Before, Answer
      <3>2. QED  BY <1>4, <2>1, <2>2, <2>3, <2>4, <3>1, NumsAppend DEF DownOrder
    <2>7. QED  BY <1>1, <2>5, <2>6 DEF DownOrder
  <1>5. QED  BY <1>3, <1>4 DEF FwdAnswer

LEMMA DownWriterRecv ==
  ASSUME IInv, DownOrder, WriterRecv
  PROVE  DownOrder'
  <1>1. outbound \in Seq(Packets) /\ outbound # <<>>  BY DEF WriterRecv, IInv, WriterType
  <1>2. PICK t \in Packets : t = Head(outbound)  BY <1>1, TailType
  <1>3. /\ writerPkt' = t /\ outbound' = Tail(outbound)
        /\ UNCHANGED <<returned, downPipe, fwdPkt, answered>>
    BY <1>2 DEF WriterRecv, wireVars, fwdVars, countVars
  <1>4. ASSUME NEW p \in Peers PROVE DownPeer(p)'
    <2>1. Hands(writerPkt, p)' = Hands(t, p)  BY <1>3
    <2>2. Nums(outbound, p)' \subseteq Nums(outbound, p)
      BY <1>1, <1>3, NumsTail DEF DownOrder
    <2>3. Chain(Values(returned[p]), Nums(downPipe, p), Hands(t, p), Nums(outbound, p)',
                Answer(p))
      <3>1. CASE t.from = p
        <4>1. Hands(t, p) = {t.n}  BY <3>1 DEF Hands
        <4>2. Least(t.n, Nums(outbound, p))
              /\ Nums(outbound, p)' \subseteq Nums(outbound, p) \ {t.n}
          BY <1>1, <1>2, <1>3, <3>1, NumsTail DEF DownOrder
        <4>3. QED  BY <4>1, <4>2, ChainMove3 DEF DownOrder, DownPeer
      <3>2. CASE t.from # p
        <4>1. Hands(t, p) = {}  BY <3>2 DEF Hands
        <4>2. QED  BY <2>2, <4>1, ChainShrink DEF DownOrder, DownPeer
      <3>3. QED  BY <3>1, <3>2
    <2>4. Hands(t, p) \subseteq Nums(outbound, p)
      BY <1>1, <1>2, NumsTail DEF DownOrder, Hands, Least
    <2>5. DownAll(p)' \subseteq DownAll(p)  BY <1>3, <2>1, <2>2, <2>4 DEF DownAll
    <2>6. QED  BY <1>3, <2>1, <2>3, <2>5 DEF DownOrder, DownPeer, Answer
  <1>5. PeersAscend(outbound)'  BY <1>1, <1>3, NumsTail DEF DownOrder
  <1>6. QED  BY <1>3, <1>4, <1>5 DEF DownOrder

LEMMA DownWriterWrite ==
  ASSUME IInv, DownOrder, WriterWrite
  PROVE  DownOrder'
  <1>1. PICK t \in Packets : t = writerPkt  BY DEF WriterWrite, IInv, WriterType
  <1>2. /\ downPipe' = Append(downPipe, t) /\ writerPkt' = NoPacket
        /\ UNCHANGED <<returned, outbound, fwdPkt, answered>>
    BY <1>1 DEF WriterWrite, fwdVars, countVars
  <1>3. downPipe \in Seq(Packets)  BY DEF IInv, WireType
  <1>4. t.from \in Peers /\ t.n \in Hands(t, t.from)  BY FieldTypes DEF Hands
  <1>5. ASSUME NEW p \in Peers PROVE DownPeer(p)'
    <2>1. Nums(downPipe, p)' \subseteq Nums(downPipe, p) \cup Hands(t, p)
      BY <1>2, <1>3, NumsAppend
    <2>2. Hands(writerPkt, p)' = {}  BY <1>2, Empties
    <2>3. Chain(Values(returned[p]), Nums(downPipe, p)', {}, Nums(outbound, p),
                Answer(p))
      <3>1. CASE t.from = p
        <4>1. Hands(writerPkt, p) = {t.n}  BY <1>1, <3>1 DEF Hands
        <4>2. Least(t.n, Hands(writerPkt, p))  BY <4>1 DEF Least
        <4>3. QED  BY <1>1, <2>1, <4>1, <4>2, ChainMove2 DEF DownOrder, DownPeer
      <3>2. CASE t.from # p
        <4>1. Nums(downPipe, p)' \subseteq Nums(downPipe, p)  BY <2>1, <3>2 DEF Hands
        <4>2. QED  BY <4>1, ChainShrink DEF DownOrder, DownPeer
      <3>3. QED  BY <3>1, <3>2
    <2>4. DownAll(p)' \subseteq DownAll(p)  BY <1>1, <1>2, <2>1, <2>2 DEF DownAll
    <2>5. QED  BY <1>2, <2>2, <2>3, <2>4 DEF DownOrder, DownPeer, Answer
  <1>6. PeersAscend(downPipe)'
    <2>1. Before(Nums(downPipe, t.from), {t.n})
      BY <1>1, <1>4 DEF DownOrder, DownPeer, Chain, Before
    <2>2. QED  BY <1>2, <1>3, <2>1, NumsAppend DEF DownOrder
  <1>7. QED  BY <1>2, <1>5, <1>6 DEF DownOrder

\* What ReadAnswer gives to the visitor is greater than all it has been given.
LEMMA DownNext ==
  ASSUME IInv, DownOrder, NEW t \in Packets, downPipe # <<>>, t = Head(downPipe)
  PROVE  /\ t.from \in Peers /\ t.n \in 1..answered[t.from]
         /\ Least(t.n, Nums(downPipe, t.from))
         /\ \A i \in 1..Len(returned[t.from]) : returned[t.from][i] < t.n
  <1>1. t.from \in Peers /\ t.n \in Nat \ {0}  BY FieldTypes
  <1>2. Least(t.n, Nums(downPipe, t.from))
    BY NumsTail DEF DownOrder, IInv, WireType
  <1>3. t.n <= answered[t.from]  BY <1>1, <1>2 DEF Least, DownOrder, DownPeer, DownAll
  <1>4. answered[t.from] \in Nat  BY <1>1 DEF IInv, CountType
  <1>5. Before(Values(returned[t.from]), Nums(downPipe, t.from))
    BY <1>1 DEF DownOrder, DownPeer, Chain
  <1>6. \A i \in 1..Len(returned[t.from]) : returned[t.from][i] < t.n
    BY <1>2, <1>5 DEF Before, Values, Least
  <1>7. QED  BY <1>1, <1>2, <1>3, <1>4, <1>6

LEMMA DownReadAnswer ==
  ASSUME IInv, DownOrder, ReadAnswer
  PROVE  DownOrder'
  <1>1. downPipe \in Seq(Packets) /\ downPipe # <<>>  BY DEF ReadAnswer, IInv, WireType
  <1>2. PICK t \in Packets : t = Head(downPipe)  BY <1>1, TailType
  <1>3. /\ downPipe' = Tail(downPipe)
        /\ returned' = [returned EXCEPT ![t.from] = Append(returned[t.from], t.n)]
        /\ UNCHANGED <<writerPkt, outbound, fwdPkt, answered>>
    BY <1>2 DEF ReadAnswer, writerVars, fwdVars
  <1>4. t.from \in Peers /\ t.n \in Nat /\ Least(t.n, Nums(downPipe, t.from))
    BY <1>1, <1>2, DownNext, FieldTypes
  <1>5. ASSUME NEW p \in Peers PROVE DownPeer(p)'
    <2>1. CASE p = t.from
      <3>1. returned[p]' = Append(returned[p], t.n) /\ returned[p] \in Seq(Nat)
        BY <1>3, <2>1 DEF IInv, CountType
      <3>2. Values(returned[p])' \subseteq Values(returned[p]) \cup {t.n}
        BY <1>4, <3>1, ValuesAppend
      <3>3. Nums(downPipe, p)' \subseteq Nums(downPipe, p) \ {t.n}
        BY <1>1, <1>2, <1>3, <2>1, NumsTail DEF DownOrder
      <3>4. Chain(Values(returned[p])', Nums(downPipe, p)', Hands(writerPkt, p),
                  Nums(outbound, p), Answer(p))
        BY <1>4, <2>1, <3>2, <3>3, ChainMove1 DEF DownOrder, DownPeer
      <3>5. DownAll(p)' \subseteq DownAll(p)
        BY <1>3, <1>4, <2>1, <3>2, <3>3 DEF DownAll, Least
      <3>6. QED  BY <1>3, <3>4, <3>5 DEF DownOrder, DownPeer, Answer
    <2>2. CASE p # t.from
      <3>1. returned'[p] = returned[p]  BY <1>3, <2>2 DEF IInv, CountType
      <3>2. Nums(downPipe, p)' \subseteq Nums(downPipe, p)
        BY <1>1, <1>3, NumsTail DEF DownOrder
      <3>3. Chain(Values(returned[p])', Nums(downPipe, p)', Hands(writerPkt, p),
                  Nums(outbound, p), Answer(p))
        BY <3>1, <3>2, ChainShrink DEF DownOrder, DownPeer
      <3>4. DownAll(p)' \subseteq DownAll(p)  BY <1>3, <3>1, <3>2 DEF DownAll
      <3>5. QED  BY <1>3, <3>3, <3>4 DEF DownOrder, DownPeer, Answer
    <2>3. QED  BY <2>1, <2>2
  <1>6. PeersAscend(downPipe)'  BY <1>1, <1>3, NumsTail DEF DownOrder
  <1>7. QED  BY <1>3, <1>5, <1>6 DEF DownOrder

LEMMA DownStep ==
  ASSUME IInv, DownOrder, [Next]_vars
  PROVE  DownOrder'
  <1>1. CASE UNCHANGED <<returned, downPipe, writerPkt, outbound, fwdPkt, answered>>
    BY <1>1, DownDrops
  <1>2. ASSUME NEW p \in Peers, FwdSend(p) PROVE DownOrder'
    <2>1. UNCHANGED <<returned, downPipe, writerPkt, outbound, answered>>
      BY <1>2 DEF FwdSend, wireVars, writerVars
    <2>2. \A q \in Peers : fwdPkt'[q] = fwdPkt[q] \/ fwdPkt'[q] = 0
      BY <1>2 DEF FwdSend, Dies, IInv, FwdType
    <2>3. QED  BY <2>1, <2>2, DownDrops
  <1>3. CASE LoopShutdown \/ LoopFails \/ Break \/ WriterFails
    <2>1. /\ UNCHANGED <<returned, fwdPkt, answered>>
          /\ writerPkt' = writerPkt \/ writerPkt' = NoPacket
          /\ downPipe' = downPipe \/ downPipe' = <<>>
          /\ outbound' = outbound \/ outbound' = <<>>
      BY <1>3 DEF LoopShutdown, LoopFails, LoopEnds, Break, WriterFails, wireVars,
                  writerVars, fwdVars, countVars
    <2>2. QED  BY <2>1, DownDrops
  <1>4. QED
    BY <1>1, <1>2, <1>3, DownFrame, DownFwdRecv, DownFwdAnswer, DownWriterRecv,
       DownWriterWrite, DownReadAnswer

-----------------------------------------------------------------------------
\* The datagrams of a visitor reach the service at most once and in order: the
\* relay implements the lossy link, whatever forwarders come and go, whatever
\* breaks, for any number of peers and any sizes (client.rs:334-362).
THEOREM UpImplements == Spec => UpInOrder
  <1>1. Init => Up!Init  BY DEF Init, Up!Init
  <1>2. Init => UpOrder
    BY Empties DEF Init, UpOrder, UpPeer, UpAll, Chain, Before
  <1>3. ASSUME IInv, UpOrder, [Next]_vars PROVE [Up!Next]_Up!vars
    <2>1. ASSUME NEW p \in Peers, RecvFrom(p) PROVE Up!Send(p)
      BY <2>1 DEF RecvFrom, Up!Send
    <2>2. ASSUME NEW p \in Peers, FwdSend(p), got' # got PROVE Up!Deliver(p)
      <3>1. inbound[p] # <<>> /\ UNCHANGED sent
            /\ got' = [got EXCEPT ![p] = Append(got[p], Head(inbound[p]))]
        BY <2>2 DEF FwdSend
      <3>2. Head(inbound[p]) \in 1..sent[p]
            /\ \A i \in 1..Len(got[p]) : got[p][i] < Head(inbound[p])
        BY <1>3, <3>1, UpNext
      <3>3. QED  BY <3>1, <3>2 DEF Up!Deliver
    <2>3. ASSUME NEW p \in Peers, FwdSend(p), got' = got PROVE UNCHANGED Up!vars
      BY <2>3 DEF FwdSend, Up!vars
    <2>4. UNCHANGED <<sent, got>> \/ \E p \in Peers : RecvFrom(p) \/ FwdSend(p)
      BY <1>3, CountFrame DEF countVars, ReadAnswer, FwdRecv
    <2>5. QED  BY <2>1, <2>2, <2>3, <2>4 DEF Up!Next, Up!vars
  <1>4. ASSUME IInv, UpOrder, [Next]_vars PROVE UpOrder'
    BY <1>4, UpStep
  <1>5. QED  BY <1>1, <1>2, <1>3, <1>4, Invariance, PTL DEF Spec, UpInOrder, Up!Spec

\* The answers reach the visitor at most once and in order (client.rs:366-415,
\* server.rs:1011).
THEOREM DownImplements == Spec => DownInOrder
  <1>1. Init => Down!Init  BY DEF Init, Down!Init
  <1>2. ASSUME Init PROVE DownOrder
    <2>1. \A p \in Peers : {fwdPkt[p]} = {0} /\ answered[p] = 0  BY <1>2 DEF Init
    <2>2. QED
      BY <1>2, <2>1, Empties
      DEF Init, DownOrder, DownPeer, DownAll, Chain, Before, Answer
  <1>3. ASSUME IInv, DownOrder, [Next]_vars PROVE [Down!Next]_Down!vars
    <2>1. ASSUME NEW p \in Peers, FwdRecv(p) PROVE Down!Send(p)
      BY <2>1 DEF FwdRecv, Down!Send
    <2>2. ASSUME ReadAnswer PROVE \E p \in Peers : Down!Deliver(p)
      <3>1. downPipe # <<>>  BY <2>2 DEF ReadAnswer
      <3>2. PICK t \in Packets : t = Head(downPipe)
        BY <1>3, <3>1, TailType DEF IInv, WireType
      <3>3. /\ UNCHANGED answered
            /\ returned' = [returned EXCEPT ![t.from] = Append(returned[t.from], t.n)]
        BY <2>2, <3>2 DEF ReadAnswer
      <3>4. /\ t.from \in Peers /\ t.n \in 1..answered[t.from]
            /\ \A i \in 1..Len(returned[t.from]) : returned[t.from][i] < t.n
        BY <1>3, <3>1, <3>2, DownNext
      <3>5. Down!Deliver(t.from)  BY <3>3, <3>4 DEF Down!Deliver
      <3>6. QED  BY <3>4, <3>5
    <2>3. UNCHANGED <<answered, returned>> \/ ReadAnswer \/ \E p \in Peers : FwdRecv(p)
      BY <1>3, CountFrame DEF countVars, RecvFrom, FwdSend
    <2>4. QED  BY <2>1, <2>2, <2>3 DEF Down!Next, Down!vars
  <1>4. ASSUME IInv, DownOrder, [Next]_vars PROVE DownOrder'
    BY <1>4, DownStep
  <1>5. QED
    BY <1>1, <1>2, <1>3, <1>4, Invariance, PTL DEF Spec, DownInOrder, Down!Spec
=============================================================================

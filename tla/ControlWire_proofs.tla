------------------------- MODULE ControlWire_proofs -------------------------
(***************************************************************************)
(* The control connection for every set of writers, payload length and     *)
(* buffer size: types, NothingMadeUp and the refinement of LossyLink.      *)
(*                                                                         *)
(* All of it rests on the bytes under way: those the read has taken and    *)
(* those on the connection, in one sequence.  The mutex makes it a         *)
(* sequence of whole commands that may only lack the front of the first    *)
(* and the end of the last.                                                *)
(***************************************************************************)
EXTENDS ControlWire, SequenceTheorems, TLAPS

Stream == buf \o pipe

\* b comes after a: bytes of one writer are sent in the order of its commands, and
\* in a command in their places.
Follows(a, b) ==
  a.from = b.from =>
    \/ a.n < b.n
    \/ a.n = b.n /\ a.len = b.len /\ a.i < b.i

\* b is the next byte after a.
Adjoins(a, b) ==
  \/ a.i < Header + a.len /\ b = [a EXCEPT !.i = a.i + 1]
  \/ a.i = Header + a.len /\ b.i = 1

Ordered(s) == \A j, k \in 1..Len(s) : j < k => Follows(s[j], s[k])
Contiguous(s) == \A j, k \in 1..Len(s) : k = j + 1 => Adjoins(s[j], s[k])

\* The byte at place i of the command under way.
Byte(i) == [from |-> lock, n |-> sent[lock], len |-> size, i |-> i]

Writing ==
  lock # Nobody => sent[lock] \in Nat \ {0} /\ size \in Sizes /\ written < Header + size

Order ==
  /\ \A k \in 1..Len(Stream) :
       Stream[k].n <= sent[Stream[k].from] /\ Stream[k].i <= Header + Stream[k].len
  /\ Ordered(Stream)
  /\ lock # Nobody => \A k \in 1..Len(Stream) : Follows(Stream[k], Byte(written + 1))

\* Commands that were handled are older than every byte under way or to come.
Handled ==
  \A w \in Writers : \A k \in 1..Len(got[w]) :
    /\ got[w][k] \in 1..sent[w]
    /\ lock = w => got[w][k] < sent[w]
    /\ \A j \in 1..Len(got[w]) : j < k => got[w][j] < got[w][k]
    /\ \A j \in 1..Len(Stream) : Stream[j].from = w => got[w][k] < Stream[j].n

\* The command under way is written half way.
Halfway == lock # Nobody /\ written > 0

Frames ==
  /\ Contiguous(Stream)
  /\ Stream # <<>> =>
       LET b == Stream[Len(Stream)]
       IN  IF Halfway THEN b = Byte(written) ELSE b.i = Header + b.len

\* Until a read is torn or a length does not fit, reads begin where commands do.
Reading ==
  ~torn /\ ~oversized =>
    /\ size < LenMod /\ \A k \in 1..Len(Stream) : Stream[k].len < LenMod
    /\ Stream = <<>> => ~Halfway
    /\ Stream # <<>> => \A k \in 1..Len(buf) : buf[k] = [Stream[1] EXCEPT !.i = k]
    /\ buf = <<>> /\ Stream # <<>> => Stream[1].i = 1
    /\ need = IF Len(buf) < Header THEN 0 ELSE buf[1].len

WInv == TypeOK /\ Writing /\ Order /\ Handled /\ Frames /\ Reading /\ NothingMadeUp
-----------------------------------------------------------------------------
\* A length that fits is read as it was written.
LEMMA SmallMod ==
  ASSUME NEW l \in Nat, NEW m \in Nat \ {0}, l < m
  PROVE  l % m = l
  BY SMTT(30)

-----------------------------------------------------------------------------
(* Sequences.                                                              *)

\* Reading a byte moves it within the stream.
LEMMA ReadStream ==
  ASSUME NEW S, NEW s \in Seq(S), NEW t \in Seq(S), t # <<>>
  PROVE  Append(s, Head(t)) \o Tail(t) = s \o t
  <1>1. /\ Head(t) \in S /\ Tail(t) \in Seq(S) /\ Len(Tail(t)) = Len(t) - 1
        /\ \A k \in 1..Len(t) - 1 : Tail(t)[k] = t[k + 1]
        /\ Head(t) = t[1] /\ Len(t) \in Nat \ {0} /\ Len(s) \in Nat
    BY HeadTailProperties, EmptySeq, LenProperties
  <1> DEFINE a == Append(s, Head(t)) \o Tail(t)  b == s \o t
  <1>2. /\ Append(s, Head(t)) \in Seq(S) /\ Len(Append(s, Head(t))) = Len(s) + 1
        /\ \A k \in 1..Len(s) : Append(s, Head(t))[k] = s[k]
        /\ Append(s, Head(t))[Len(s) + 1] = t[1]
    BY <1>1, AppendProperties
  <1>3. /\ a \in Seq(S) /\ Len(a) = Len(s) + Len(t)
        /\ b \in Seq(S) /\ Len(b) = Len(s) + Len(t)
    BY <1>1, <1>2, ConcatProperties
  <1>4. ASSUME NEW k \in 1..Len(a) PROVE a[k] = b[k]
    BY <1>1, <1>2, <1>3, <1>4, ConcatProperties
  <1>5. QED  BY <1>3, <1>4, SeqEqual

\* A byte that is written is the last of the stream.
LEMMA WriteStream ==
  ASSUME NEW S, NEW s \in Seq(S), NEW t \in Seq(S), NEW x \in S
  PROVE  s \o Append(t, x) = Append(s \o t, x)
  <1> DEFINE a == s \o Append(t, x)  b == Append(s \o t, x)
  <1>1. /\ Append(t, x) \in Seq(S) /\ Len(Append(t, x)) = Len(t) + 1
        /\ Len(s) \in Nat /\ Len(t) \in Nat
        /\ s \o t \in Seq(S) /\ Len(s \o t) = Len(s) + Len(t)
    BY AppendProperties, ConcatProperties, LenProperties
  <1>2. /\ a \in Seq(S) /\ b \in Seq(S)
        /\ Len(a) = Len(s) + Len(t) + 1 /\ Len(b) = Len(a)
    BY <1>1, AppendProperties, ConcatProperties
  <1>3. ASSUME NEW k \in 1..Len(a) PROVE a[k] = b[k]
    BY <1>1, <1>2, <1>3, AppendProperties, ConcatProperties
  <1>4. QED  BY <1>2, <1>3, SeqEqual
\* What follows in the stream once the read is dropped.
LEMMA DropStream ==
  ASSUME NEW S, NEW s \in Seq(S), NEW t \in Seq(S)
  PROVE  /\ s \o t \in Seq(S) /\ Len(s) \in Nat /\ Len(t) \in Nat
         /\ Len(s \o t) = Len(s) + Len(t)
         /\ \A k \in 1..Len(s) : (s \o t)[k] = s[k]
         /\ \A k \in 1..Len(t) : (s \o t)[Len(s) + k] = t[k]
         /\ \A k \in 1..Len(s \o t) : (s \o t)[k] \in S
  <1>1. /\ s \o t \in Seq(S) /\ Len(s) \in Nat /\ Len(t) \in Nat
        /\ Len(s \o t) = Len(s) + Len(t)
    BY ConcatProperties, LenProperties
  <1>2. \A k \in 1..Len(s) + Len(t) :
          (s \o t)[k] = IF k <= Len(s) THEN s[k] ELSE t[k - Len(s)]
    BY ConcatProperties
  <1>3. \A k \in 1..Len(s) : (s \o t)[k] = s[k]  BY <1>1, <1>2
  <1>4. ASSUME NEW k \in 1..Len(t) PROVE (s \o t)[Len(s) + k] = t[k]
    <2>1. Len(s) + k \in 1..Len(s) + Len(t) /\ ~(Len(s) + k <= Len(s))
          /\ (Len(s) + k) - Len(s) = k
      BY <1>1
    <2>2. QED  BY <1>2, <2>1
  <1>5. \A k \in 1..Len(s \o t) : (s \o t)[k] \in S
    BY <1>1, LenProperties
  <1>6. QED  BY <1>1, <1>3, <1>4, <1>5

-----------------------------------------------------------------------------
(* Types.                                                                  *)

\* The byte that is written next is a byte of a command.
LEMMA ByteType ==
  ASSUME TypeOK, Writing, lock # Nobody, NEW i \in Nat \ {0}
  PROVE  Byte(i) \in Bytes /\ lock \in Writers
  BY DEF TypeOK, Writing, Byte, Bytes

\* What a length can read as.
LEMMA LengthsType ==
  ASSUME NEW b \in Seq(Bytes), Len(b) = Header
  PROVE  Lengths(b) \subseteq Nat
  <1>1. b[1] \in Bytes /\ LenMod \in Nat \ {0}
    BY SizesAssumption, LenProperties DEF Header
  <1>2. b[1].len \in Nat  BY <1>1, SizesAssumption DEF Bytes
  <1>3. b[1].len % LenMod \in Nat  BY <1>1, <1>2
  <1>4. QED  BY <1>1, <1>3 DEF Lengths

LEMMA ReadType ==
  ASSUME TypeOK, ReadByte
  PROVE  /\ buf' = Append(buf, Head(pipe)) /\ pipe' = Tail(pipe) /\ pipe # <<>>
         /\ buf' \in Seq(Bytes) /\ pipe' \in Seq(Bytes) /\ Head(pipe) \in Bytes
         /\ Len(buf') = Len(buf) + 1 /\ Len(pipe') = Len(pipe) - 1
         /\ need' \in Nat /\ Len(buf') <= Header + need'
         /\ Len(buf) \in Nat /\ Len(pipe) \in Nat
  <1>1. /\ buf' = Append(buf, Head(pipe)) /\ pipe' = Tail(pipe) /\ pipe # <<>>
        /\ Len(buf) < Header + need
        /\ Len(buf) + 1 = Header => need' \in Lengths(buf')
        /\ Len(buf) + 1 # Header => need' = need
    BY DEF ReadByte
  <1>2. buf \in Seq(Bytes) /\ pipe \in Seq(Bytes) /\ need \in Nat
    BY DEF TypeOK
  <1>3. /\ buf' \in Seq(Bytes) /\ pipe' \in Seq(Bytes) /\ Head(pipe) \in Bytes
        /\ Len(buf') = Len(buf) + 1 /\ Len(pipe') = Len(pipe) - 1
        /\ Len(buf) \in Nat /\ Len(pipe) \in Nat
    BY <1>1, <1>2, HeadTailProperties, AppendProperties, LenProperties
  <1>4. CASE Len(buf) + 1 = Header
    <2>1. need' \in Nat  BY <1>1, <1>3, <1>4, LengthsType
    <2>2. QED  BY <1>1, <1>3, <1>4, <2>1 DEF Header
  <1>5. CASE Len(buf) + 1 # Header
    BY <1>1, <1>2, <1>3, <1>5 DEF Header
  <1>6. QED  BY <1>4, <1>5

LEMMA WriteType ==
  ASSUME TypeOK, Writing, NEW w \in Writers, WriteByte(w)
  PROVE  /\ lock = w /\ lock # Nobody /\ pipe' = Append(pipe, Byte(written + 1))
         /\ Byte(written + 1) \in Bytes
         /\ pipe' \in Seq(Bytes) /\ Len(pipe') <= PipeSize
         /\ written' = written + 1 /\ written' \in 1..(Header + size)
         /\ lock' = IF written' = Header + size THEN Nobody ELSE w
  <1>1. /\ lock = w /\ lock # Nobody /\ pipe' = Append(pipe, Byte(written + 1))
        /\ written' = written + 1 /\ Len(pipe) < PipeSize
        /\ lock' = IF written' = Header + size THEN Nobody ELSE w
    BY WritersAssumption DEF WriteByte, Byte
  <1>2. /\ written \in Nat /\ size \in Nat /\ written < Header + size
        /\ pipe \in Seq(Bytes) /\ PipeSize \in Nat
    BY <1>1, SizesAssumption DEF TypeOK, Writing
  <1>3. Byte(written + 1) \in Bytes  BY <1>1, <1>2, ByteType
  <1>4. pipe' \in Seq(Bytes) /\ Len(pipe') = Len(pipe) + 1 /\ Len(pipe) \in Nat
    BY <1>1, <1>2, <1>3, AppendProperties, LenProperties
  <1>5. QED  BY <1>1, <1>2, <1>3, <1>4 DEF Header

LEMMA TypeStep ==
  ASSUME TypeOK, Writing, [Next]_vars
  PROVE  TypeOK' /\ Writing'
  <1> USE SizesAssumption, WritersAssumption
  <1>1. CASE ReadByte
    <2>1. UNCHANGED <<open, lock, sent, size, written, got, garbage, torn, oversized>>
      BY <1>1 DEF ReadByte, writeVars, historyVars
    <2>2. Len(pipe') <= PipeSize  BY <1>1, ReadType DEF TypeOK
    <2>3. QED  BY <1>1, <2>1, <2>2, ReadType DEF TypeOK, Writing
  <1>2. CASE Decode
    <2>1. /\ UNCHANGED <<open, lock, sent, size, written, pipe, garbage, torn, oversized>>
          /\ buf' = <<>> /\ need' = 0 /\ Complete /\ IsWhole(buf)
          /\ got' = [got EXCEPT ![buf[1].from] = Append(@, buf[1].n)]
      BY <1>2 DEF Decode, writeVars, historyVars
    <2>2. buf \in Seq(Bytes) /\ 1 \in 1..Len(buf)
      BY <2>1, LenProperties DEF TypeOK, Complete, Header
    <2>3. buf[1] \in Bytes  BY <2>2, LenProperties
    <2>4. buf[1].from \in Writers /\ buf[1].n \in Nat  BY <2>3 DEF Bytes
    <2>5. got' \in [Writers -> Seq(Nat)]
      <3>1. got \in [Writers -> Seq(Nat)]  BY DEF TypeOK
      <3>2. Append(got[buf[1].from], buf[1].n) \in Seq(Nat)
        BY <2>4, <3>1, AppendProperties
      <3>3. QED  BY <2>1, <2>4, <3>1, <3>2
    <2>6. QED  BY <2>1, <2>5, EmptySeq DEF TypeOK, Writing, Header
  <1>3. CASE DecodeGarbage \/ Interrupt
    <2>1. /\ UNCHANGED <<open, lock, sent, size, written, pipe, got, oversized>>
          /\ buf' = <<>> /\ need' = 0 /\ garbage' \in BOOLEAN /\ torn' \in BOOLEAN
      BY <1>3 DEF DecodeGarbage, Interrupt, writeVars, historyVars, TypeOK
    <2>2. QED  BY <2>1, EmptySeq DEF TypeOK, Writing, Header
  <1>4. CASE DecodeFails \/ Break
    <2>1. open' \in BOOLEAN /\ UNCHANGED <<lock, sent, size, written, pipe, buf, need,
                                          got, garbage, torn, oversized>>
      BY <1>4 DEF DecodeFails, Break, writeVars, readVars, historyVars
    <2>2. QED  BY <2>1 DEF TypeOK, Writing
  <1>5. ASSUME NEW w \in Writers, BeginWrite(w) PROVE TypeOK' /\ Writing'
    <2>1. PICK s \in Sizes : size' = s /\ oversized' = (oversized \/ s >= LenMod)
      BY <1>5 DEF BeginWrite
    <2>2. /\ lock' = w /\ sent' = [sent EXCEPT ![w] = @ + 1] /\ written' = 0
          /\ sent[w] < MaxSent
          /\ UNCHANGED <<open, pipe, buf, need, got, garbage, torn>>
      BY <1>5 DEF BeginWrite, readVars
    <2>3. sent[w] \in 0..MaxSent /\ sent[w] + 1 \in 1..MaxSent
      BY <2>2 DEF TypeOK
    <2>4. sent' \in [Writers -> 0..MaxSent] /\ sent'[w] \in Nat \ {0}
      BY <2>2, <2>3 DEF TypeOK
    <2>5. oversized' \in BOOLEAN  BY <2>1
    <2>6. size' \in Nat \ {0} /\ written' \in 0..(Header + size') /\ written' < Header + size'
      BY <2>1, <2>2 DEF Header
    <2>7. TypeOK'  BY <2>2, <2>4, <2>5, <2>6 DEF TypeOK
    <2>8. Writing'  BY <2>1, <2>2, <2>4, <2>6 DEF Writing
    <2>9. QED  BY <2>7, <2>8
  <1>6. ASSUME NEW w \in Writers, WriteByte(w) PROVE TypeOK' /\ Writing'
    <2>1. UNCHANGED <<open, sent, size, buf, need, got, garbage, torn, oversized>>
      BY <1>6 DEF WriteByte, readVars, historyVars
    <2>2. lock' \in Writers \cup {Nobody}  BY <1>6, WriteType
    <2>3. written' \in 0..(Header + size')
      <3>1. written' \in 1..(Header + size)  BY <1>6, WriteType
      <3>2. QED  BY <2>1, <3>1
    <2>4. TypeOK'  BY <1>6, <2>1, <2>2, <2>3, WriteType DEF TypeOK
    <2>5. lock' # Nobody => lock' = lock /\ lock # Nobody /\ written' # Header + size
      BY <1>6, WriteType
    <2>6. written' < Header + size \/ written' = Header + size
      <3>1. written' \in 1..(Header + size) /\ size \in Nat  BY <1>6, WriteType DEF TypeOK
      <3>2. QED  BY <3>1 DEF Header
    <2>7. Writing'  BY <2>1, <2>5, <2>6 DEF Writing
    <2>8. QED  BY <2>4, <2>7
  <1>7. CASE UNCHANGED vars
    BY <1>7 DEF vars, writeVars, readVars, historyVars, TypeOK, Writing
  <1>8. QED
    BY <1>1, <1>2, <1>3, <1>4, <1>5, <1>6, <1>7 DEF Next
-----------------------------------------------------------------------------
(* What the actions do to the stream.                                      *)

LEMMA StreamType ==
  ASSUME TypeOK
  PROVE  /\ Stream \in Seq(Bytes) /\ Len(Stream) = Len(buf) + Len(pipe)
         /\ Len(buf) \in Nat /\ Len(pipe) \in Nat /\ Len(Stream) \in Nat
         /\ \A k \in 1..Len(Stream) : Stream[k] \in Bytes
         /\ \A k \in 1..Len(buf) : Stream[k] = buf[k]
         /\ \A k \in 1..Len(pipe) : Stream[Len(buf) + k] = pipe[k]
  <1>1. buf \in Seq(Bytes) /\ pipe \in Seq(Bytes)  BY DEF TypeOK
  <1>2. QED  BY <1>1, DropStream DEF Stream

LEMMA ReadKeeps ==
  ASSUME TypeOK, ReadByte
  PROVE  Stream' = Stream
         /\ UNCHANGED <<lock, sent, size, written, got, garbage, torn, oversized>>
  <1>1. UNCHANGED <<lock, sent, size, written, got, garbage, torn, oversized>>
    BY DEF ReadByte, writeVars, historyVars
  <1>2. buf \in Seq(Bytes) /\ pipe \in Seq(Bytes)  BY DEF TypeOK
  <1>3. Append(buf, Head(pipe)) \o Tail(pipe) = buf \o pipe
    BY <1>2, ReadType, ReadStream
  <1>4. buf' = Append(buf, Head(pipe)) /\ pipe' = Tail(pipe)  BY ReadType
  <1>5. QED  BY <1>1, <1>3, <1>4 DEF Stream

LEMMA WriteAdds ==
  ASSUME TypeOK, Writing, NEW w \in Writers, WriteByte(w)
  PROVE  /\ Stream' = Append(Stream, Byte(written + 1))
         /\ Len(Stream') = Len(Stream) + 1
         /\ \A k \in 1..Len(Stream) : Stream'[k] = Stream[k]
         /\ Stream'[Len(Stream) + 1] = Byte(written + 1)
         /\ UNCHANGED <<sent, size, buf, need, got, garbage, torn, oversized>>
  <1>1. UNCHANGED <<sent, size, buf, need, got, garbage, torn, oversized>>
    BY DEF WriteByte, readVars, historyVars
  <1>2. buf \in Seq(Bytes) /\ pipe \in Seq(Bytes)  BY DEF TypeOK
  <1>3. pipe' = Append(pipe, Byte(written + 1)) /\ Byte(written + 1) \in Bytes
    BY WriteType
  <1>4. buf \o Append(pipe, Byte(written + 1)) = Append(buf \o pipe, Byte(written + 1))
    BY <1>2, <1>3, WriteStream
  <1>5. Stream' = Append(Stream, Byte(written + 1))  BY <1>1, <1>3, <1>4 DEF Stream
  <1>6. QED  BY <1>1, <1>3, <1>5, StreamType, AppendProperties

LEMMA Drops ==
  ASSUME TypeOK, Decode \/ DecodeGarbage \/ Interrupt
  PROVE  /\ Stream' = pipe /\ buf' = <<>> /\ need' = 0
         /\ Len(Stream') = Len(pipe) /\ Len(Stream) = Len(buf) + Len(pipe)
         /\ \A k \in 1..Len(pipe) : Stream'[k] = Stream[Len(buf) + k]
         /\ UNCHANGED <<lock, sent, size, written, oversized>>
  <1>1. /\ buf' = <<>> /\ need' = 0 /\ pipe' = pipe
        /\ UNCHANGED <<lock, sent, size, written, oversized>>
    BY DEF Decode, DecodeGarbage, Interrupt, writeVars, historyVars
  <1>2. pipe \in Seq(Bytes)  BY DEF TypeOK
  <1>3. <<>> \o pipe = pipe  BY <1>2, ConcatEmptySeq
  <1>4. Stream' = pipe  BY <1>1, <1>3 DEF Stream
  <1>5. QED  BY <1>1, <1>4, StreamType

LEMMA BeginKeeps ==
  ASSUME TypeOK, NEW w \in Writers, BeginWrite(w)
  PROVE  /\ Stream' = Stream /\ UNCHANGED <<buf, need, got, garbage, torn>>
         /\ lock = Nobody /\ lock' = w /\ written' = 0 /\ size' \in Sizes
         /\ sent[w] \in Nat /\ sent' = [sent EXCEPT ![w] = @ + 1]
         /\ sent'[w] = sent[w] + 1
         /\ oversized \/ size' >= LenMod => oversized'
  <1>1. /\ UNCHANGED <<buf, pipe, need, got, garbage, torn>>
        /\ lock = Nobody /\ lock' = w /\ written' = 0 /\ size' \in Sizes
        /\ sent' = [sent EXCEPT ![w] = @ + 1]
        /\ oversized \/ size' >= LenMod => oversized'
    BY DEF BeginWrite, readVars
  <1>2. sent[w] \in Nat /\ sent'[w] = sent[w] + 1  BY <1>1 DEF TypeOK
  <1>3. Stream' = Stream  BY <1>1 DEF Stream
  <1>4. QED  BY <1>1, <1>2, <1>3

LEMMA EndKeeps ==
  ASSUME DecodeFails \/ Break \/ UNCHANGED vars
  PROVE  Stream' = Stream /\ UNCHANGED <<lock, sent, size, written, buf, need, got,
                                         garbage, torn, oversized>>
  <1>1. UNCHANGED <<lock, sent, size, written, pipe, buf, need, got, garbage, torn,
                    oversized>>
    BY DEF DecodeFails, Break, vars, writeVars, readVars, historyVars
  <1>2. QED  BY <1>1 DEF Stream

-----------------------------------------------------------------------------
(* The order of the bytes.                                                 *)

\* Counts of the next bytes only grow.
LEMMA FollowsNext ==
  ASSUME NEW a \in Bytes, NEW b \in Bytes, Follows(a, b)
  PROVE  Follows(a, [b EXCEPT !.i = b.i + 1])
  <1>1. a.i \in Nat /\ b.i \in Nat  BY DEF Bytes
  <1>2. QED  BY <1>1 DEF Follows, Bytes

LEMMA OrderStep ==
  ASSUME TypeOK, Writing, Order, [Next]_vars
  PROVE  Order'
  <1> USE StreamType
  <1>0. /\ \A k \in 1..Len(Stream) : /\ Stream[k] \in Bytes
                                     /\ Stream[k].from \in Writers
                                     /\ Stream[k].n \in Nat /\ Stream[k].i \in Nat
        /\ \A w \in Writers : sent[w] \in Nat
        /\ written \in Nat /\ size \in Nat
    <2>1. \A b \in Bytes : b.from \in Writers /\ b.n \in Nat /\ b.i \in Nat
      BY DEF Bytes
    <2>2. QED  BY <2>1, SizesAssumption DEF TypeOK, Header
  <1>1. CASE ReadByte \/ DecodeFails \/ Break \/ UNCHANGED vars
    <2>1. Stream' = Stream /\ UNCHANGED <<lock, sent, size, written>>
      BY <1>1, ReadKeeps, EndKeeps
    <2>2. QED  BY <2>1 DEF Order, Byte
  <1>2. CASE Decode \/ DecodeGarbage \/ Interrupt
    <2>1. /\ Len(Stream') = Len(pipe) /\ Len(Stream) = Len(buf) + Len(pipe)
          /\ \A k \in 1..Len(pipe) : Stream'[k] = Stream[Len(buf) + k]
          /\ UNCHANGED <<lock, sent, size, written>>
      BY <1>2, Drops
    <2>2. \A k \in 1..Len(pipe) : Len(buf) + k \in 1..Len(Stream)
      OBVIOUS
    <2>3. \A k \in 1..Len(Stream') :
            Stream'[k].n <= sent'[Stream'[k].from] /\ Stream'[k].i <= Header + Stream'[k].len
      BY <2>1, <2>2 DEF Order
    <2>4. Ordered(Stream)'
      <3>1. ASSUME NEW j \in 1..Len(pipe), NEW k \in 1..Len(pipe), j < k
            PROVE  Follows(Stream'[j], Stream'[k])
        <4>1. Len(buf) + j < Len(buf) + k  BY <3>1
        <4>2. QED  BY <2>1, <2>2, <3>1, <4>1 DEF Order, Ordered
      <3>2. QED  BY <2>1, <3>1 DEF Ordered
    <2>5. lock' # Nobody =>
            \A k \in 1..Len(Stream') : Follows(Stream'[k], Byte(written + 1)')
      BY <2>1, <2>2 DEF Order, Byte
    <2>6. QED  BY <2>3, <2>4, <2>5 DEF Order
  <1>3. ASSUME NEW w \in Writers, BeginWrite(w) PROVE Order'
    <2>1. /\ Stream' = Stream /\ lock' = w /\ written' = 0
          /\ sent' = [sent EXCEPT ![w] = @ + 1] /\ sent'[w] = sent[w] + 1
      BY <1>3, BeginKeeps
    <2>2. ASSUME NEW v \in Writers PROVE sent'[v] \in Nat /\ sent[v] <= sent'[v]
      <3>1. CASE v = w  BY <1>0, <2>1, <3>1
      <3>2. CASE v # w  BY <1>0, <2>1, <3>2 DEF TypeOK
      <3>3. QED  BY <3>1, <3>2
    <2>3. ASSUME NEW k \in 1..Len(Stream) PROVE Stream[k].n <= sent'[Stream[k].from]
      <3>1. PICK v \in Writers : v = Stream[k].from  BY <1>0
      <3>2. Stream[k].n <= sent[v] /\ Stream[k].n \in Nat  BY <1>0, <3>1 DEF Order
      <3>3. QED  BY <1>0, <2>2, <3>1, <3>2
    <2>4. ASSUME NEW k \in 1..Len(Stream) PROVE Follows(Stream[k], Byte(written + 1)')
      <3>1. CASE Stream[k].from = w
        <4>1. Stream[k].n < sent'[w]  BY <1>0, <2>1, <3>1 DEF Order
        <4>2. Byte(written + 1)'.n = sent'[w] /\ Byte(written + 1)'.from = w
          BY <2>1 DEF Byte
        <4>3. QED  BY <4>1, <4>2 DEF Follows
      <3>2. CASE Stream[k].from # w
        <4>1. Byte(written + 1)'.from = w  BY <2>1 DEF Byte
        <4>2. QED  BY <3>2, <4>1 DEF Follows
      <3>3. QED  BY <3>1, <3>2
    <2>5. QED  BY <2>1, <2>3, <2>4 DEF Order
  <1>4. ASSUME NEW w \in Writers, WriteByte(w) PROVE Order'
    <2>1. /\ Len(Stream') = Len(Stream) + 1
          /\ \A k \in 1..Len(Stream) : Stream'[k] = Stream[k]
          /\ Stream'[Len(Stream) + 1] = Byte(written + 1)
          /\ UNCHANGED <<sent, size>>
      BY <1>4, WriteAdds
    <2>2. /\ lock = w /\ lock # Nobody /\ written' = written + 1
          /\ written' <= Header + size
          /\ lock' # Nobody => lock' = w
          /\ Byte(written + 1) \in Bytes
      <3>1. /\ lock = w /\ lock # Nobody /\ written' = written + 1
            /\ lock' = IF written' = Header + size THEN Nobody ELSE w
            /\ written' \in 1..(Header + size) /\ Byte(written + 1) \in Bytes
        BY <1>4, WriteType
      <3>2. QED  BY <1>0, <3>1 DEF Header
    <2>3. /\ Byte(written + 1).n = sent[w] /\ Byte(written + 1).from = w
          /\ Byte(written + 1).i = written + 1 /\ Byte(written + 1).len = size
      BY <2>2 DEF Byte
    <2>4. \A k \in 1..Len(Stream') : k \in 1..Len(Stream) \/ k = Len(Stream) + 1
      BY <2>1
    <2>5. \A k \in 1..Len(Stream') :
            Stream'[k].n <= sent'[Stream'[k].from] /\ Stream'[k].i <= Header + Stream'[k].len
      <3>1. ASSUME NEW k \in 1..Len(Stream) PROVE
              Stream'[k].n <= sent'[Stream'[k].from] /\ Stream'[k].i <= Header + Stream'[k].len
        BY <2>1, <3>1 DEF Order
      <3>2. ASSUME NEW k, k = Len(Stream) + 1 PROVE
              Stream'[k].n <= sent'[Stream'[k].from] /\ Stream'[k].i <= Header + Stream'[k].len
        <4>1. /\ Stream'[k].n = sent[w] /\ Stream'[k].from = w
              /\ Stream'[k].i = written' /\ Stream'[k].len = size
          BY <2>1, <2>2, <2>3, <3>2
        <4>2. sent'[w] = sent[w] /\ sent[w] \in Nat  BY <1>0, <2>1
        <4>3. QED  BY <2>2, <4>1, <4>2
      <3>3. QED  BY <2>4, <3>1, <3>2
    <2>6. Ordered(Stream)'
      <3>1. ASSUME NEW j \in 1..Len(Stream), NEW k \in 1..Len(Stream'), j < k
            PROVE  Follows(Stream'[j], Stream'[k])
        <4>1. CASE k \in 1..Len(Stream)  BY <2>1, <3>1, <4>1 DEF Order, Ordered
        <4>2. CASE k = Len(Stream) + 1  BY <2>1, <2>2, <4>2 DEF Order
        <4>3. QED  BY <2>4, <4>1, <4>2
      <3>2. ASSUME NEW j \in 1..Len(Stream'), NEW k \in 1..Len(Stream'), j < k
            PROVE  j \in 1..Len(Stream)
        BY <2>1, <3>2
      <3>3. QED  BY <3>1, <3>2 DEF Ordered
    <2>7. ASSUME lock' # Nobody, NEW k \in 1..Len(Stream')
          PROVE  Follows(Stream'[k], Byte(written + 1)')
      <3>1. lock' = lock  BY <2>2, <2>7
      <3>2. Byte(written + 1)' = [Byte(written + 1) EXCEPT !.i = Byte(written + 1).i + 1]
        <4>1. Byte(written + 1)' = [from |-> lock, n |-> sent[lock], len |-> size,
                                    i |-> (written + 1) + 1]
          BY <2>1, <2>2, <3>1 DEF Byte
        <4>2. QED  BY <4>1 DEF Byte
      <3>3. CASE k \in 1..Len(Stream)
        <4>1. Follows(Stream[k], Byte(written + 1))  BY <2>2, <3>3 DEF Order
        <4>2. QED  BY <1>0, <2>1, <2>2, <3>2, <3>3, <4>1, FollowsNext
      <3>4. CASE k = Len(Stream) + 1
        <4>1. Stream'[k] = Byte(written + 1)  BY <2>1, <3>4
        <4>2. QED  BY <1>0, <2>3, <3>2, <4>1 DEF Follows, Byte
      <3>5. QED  BY <2>4, <3>3, <3>4
    <2>8. QED  BY <2>5, <2>6, <2>7 DEF Order
  <1>5. QED
    BY <1>1, <1>2, <1>3, <1>4 DEF Next
-----------------------------------------------------------------------------
(* What is handled.                                                        *)

\* A command that is decoded is newer than those handled before, and every byte
\* after it belongs to a newer one.
LEMMA DecodeNewest ==
  ASSUME TypeOK, Writing, Order, Handled, Decode
  PROVE  \E w \in Writers, n \in Nat :
             /\ n \in 1..sent[w]
             /\ lock = w => n < sent[w]
             /\ got' = [got EXCEPT ![w] = Append(got[w], n)]
             /\ \A k \in 1..Len(got[w]) : got[w][k] < n
             /\ \A k \in 1..Len(pipe) : pipe[k].from = w => n < pipe[k].n
  <1> DEFINE w == buf[1].from  n == buf[1].n
  <1>1. /\ Len(buf) = Header + buf[1].len /\ Len(buf) >= Header
        /\ \A k \in 1..Len(buf) : buf[k] = [buf[1] EXCEPT !.i = k]
        /\ got' = [got EXCEPT ![w] = Append(got[w], n)]
    BY DEF Decode, Complete, IsWhole
  <1>2. Len(buf) \in 1..Len(buf) /\ 1 \in 1..Len(buf)
    BY <1>1, StreamType DEF Header
  <1> DEFINE L == Len(buf)
  <1>3. L \in 1..Len(Stream) /\ 1 \in 1..Len(Stream) /\ L \in Nat
    BY <1>2, StreamType
  <1>4. Stream[L] = [buf[1] EXCEPT !.i = L] /\ Stream[1] = buf[1] /\ buf[1] \in Bytes
    BY <1>1, <1>2, <1>3, StreamType
  <1>5. /\ w \in Writers /\ n \in Nat \ {0} /\ buf[1].len \in Nat
        /\ Stream[L].from = w /\ Stream[L].n = n /\ Stream[L].i = L
        /\ Stream[L].len = buf[1].len
    BY <1>4, SizesAssumption DEF Bytes
  <1>6. n \in 1..sent[w]
    <2>1. n <= sent[w]  BY <1>3, <1>5 DEF Order
    <2>2. QED  BY <1>5, <2>1 DEF TypeOK
  <1>7. ASSUME lock = w PROVE n < sent[w]
    <2>1. lock # Nobody  BY <1>5, <1>7, WritersAssumption
    <2>2. Follows(Stream[L], Byte(written + 1))  BY <1>3, <2>1 DEF Order
    <2>3. n < sent[w] \/ (buf[1].len = size /\ L < written + 1)
      BY <1>5, <1>7, <2>2 DEF Follows, Byte
    <2>4. written \in Nat /\ size \in Nat /\ written < Header + size
      BY <2>1, SizesAssumption DEF TypeOK, Writing, Header
    <2>5. QED  BY <1>1, <2>3, <2>4 DEF Header
  <1>8. \A k \in 1..Len(got[w]) : got[w][k] < n
    BY <1>3, <1>4, <1>5 DEF Handled
  <1>9. ASSUME NEW k \in 1..Len(pipe), pipe[k].from = w PROVE n < pipe[k].n
    <2>1. /\ L + k \in 1..Len(Stream) /\ L < L + k
          /\ Stream[L + k] = pipe[k] /\ pipe[k] \in Bytes
      BY <1>3, StreamType
    <2>2. Follows(Stream[L], pipe[k])  BY <1>3, <2>1 DEF Order, Ordered
    <2>3. n < pipe[k].n \/ (buf[1].len = pipe[k].len /\ L < pipe[k].i)
      BY <1>5, <1>9, <2>2 DEF Follows
    <2>4. pipe[k].i <= Header + pipe[k].len /\ pipe[k].i \in Nat /\ pipe[k].len \in Nat
      BY <2>1, SizesAssumption DEF Order, Bytes
    <2>5. QED  BY <1>1, <1>3, <2>3, <2>4 DEF Header
  <1>10. QED  BY <1>1, <1>5, <1>6, <1>7, <1>8, <1>9

\* What was handled is older than the bytes behind those that are dropped.
LEMMA DroppedLater ==
  ASSUME TypeOK, Handled,
         \A k \in 1..Len(pipe) : Stream'[k] = Stream[Len(buf) + k]
  PROVE  /\ \A j \in 1..Len(pipe) : Stream'[j] = pipe[j]
         /\ \A w \in Writers, k \in Nat, j \in 1..Len(pipe) :
              k \in 1..Len(got[w]) /\ Stream'[j].from = w => got[w][k] < Stream'[j].n
  <1>1. \A j \in 1..Len(pipe) : Len(buf) + j \in 1..Len(Stream)
    BY StreamType
  <1>2. \A j \in 1..Len(pipe) : Stream'[j] = pipe[j]
    BY StreamType
  <1>3. ASSUME NEW w \in Writers, NEW k \in 1..Len(got[w]), NEW j \in 1..Len(pipe),
               Stream'[j].from = w
        PROVE  got[w][k] < Stream'[j].n
    <2>1. PICK m \in 1..Len(Stream) : m = Len(buf) + j  BY <1>1
    <2>2. Stream'[j] = Stream[m]  BY <2>1
    <2>3. \A i \in 1..Len(Stream) : Stream[i].from = w => got[w][k] < Stream[i].n
      BY DEF Handled
    <2>4. QED  BY <1>3, <2>2, <2>3
  <1>4. QED  BY <1>2, <1>3

LEMMA HandledStep ==
  ASSUME TypeOK, Writing, Order, Handled, [Next]_vars
  PROVE  Handled'
  <1> USE StreamType
  <1>0. \A w \in Writers : /\ sent[w] \in Nat /\ got[w] \in Seq(Nat) /\ Len(got[w]) \in Nat
                            /\ \A k \in 1..Len(got[w]) : got[w][k] \in Nat
    <2>1. \A w \in Writers : sent[w] \in Nat /\ got[w] \in Seq(Nat)
      BY SizesAssumption DEF TypeOK
    <2>2. QED  BY <2>1, LenProperties
  <1>1. CASE ReadByte \/ DecodeFails \/ Break \/ UNCHANGED vars
    <2>1. Stream' = Stream /\ UNCHANGED <<lock, sent, got>>
      BY <1>1, ReadKeeps, EndKeeps
    <2>2. QED  BY <2>1 DEF Handled
  <1>2. CASE DecodeGarbage \/ Interrupt
    <2>1. /\ Len(Stream') = Len(pipe) /\ Len(Stream) = Len(buf) + Len(pipe)
          /\ \A k \in 1..Len(pipe) : Stream'[k] = Stream[Len(buf) + k]
          /\ UNCHANGED <<lock, sent, got>>
      BY <1>2, Drops DEF DecodeGarbage, Interrupt
    <2>2. \A w \in Writers, k \in Nat, j \in 1..Len(pipe) :
            k \in 1..Len(got[w]) /\ Stream'[j].from = w => got[w][k] < Stream'[j].n
      BY <2>1, DroppedLater
    <2>3. QED  BY <2>1, <2>2 DEF Handled
  <1>3. CASE Decode
    <2>1. /\ Len(Stream') = Len(pipe) /\ Len(Stream) = Len(buf) + Len(pipe)
          /\ \A k \in 1..Len(pipe) : Stream'[k] = Stream[Len(buf) + k]
          /\ UNCHANGED <<lock, sent>>
      BY <1>3, Drops
    <2>2. PICK w \in Writers, n \in Nat :
            /\ n \in 1..sent[w]
            /\ lock = w => n < sent[w]
            /\ got' = [got EXCEPT ![w] = Append(got[w], n)]
            /\ \A k \in 1..Len(got[w]) : got[w][k] < n
            /\ \A k \in 1..Len(pipe) : pipe[k].from = w => n < pipe[k].n
      BY <1>3, DecodeNewest
    <2>3. /\ Len(got'[w]) = Len(got[w]) + 1
          /\ \A k \in 1..Len(got[w]) : got'[w][k] = got[w][k]
          /\ got'[w][Len(got[w]) + 1] = n
      <3>1. got'[w] = Append(got[w], n) /\ n \in Nat  BY <1>0, <2>2 DEF TypeOK
      <3>2. QED  BY <1>0, <3>1, AppendProperties
    <2>4. \A v \in Writers : v # w => got'[v] = got[v]  BY <2>2 DEF TypeOK
    <2>5. /\ \A v \in Writers, k \in Nat, j \in 1..Len(pipe) :
               k \in 1..Len(got[v]) /\ Stream'[j].from = v => got[v][k] < Stream'[j].n
          /\ \A j \in 1..Len(pipe) : Stream'[j].from = w => n < Stream'[j].n
      BY <2>1, <2>2, DroppedLater
    <2>6. ASSUME NEW v \in Writers, v # w, NEW k \in 1..Len(got'[v])
          PROVE  /\ got'[v][k] \in 1..sent'[v]
                 /\ lock' = v => got'[v][k] < sent'[v]
                 /\ \A j \in 1..Len(got'[v]) : j < k => got'[v][j] < got'[v][k]
                 /\ \A j \in 1..Len(Stream') : Stream'[j].from = v => got'[v][k] < Stream'[j].n
      <3>1. got'[v] = got[v] /\ k \in 1..Len(got[v]) /\ k \in Nat  BY <2>4, <2>6
      <3>2. /\ got[v][k] \in 1..sent[v]
            /\ lock = v => got[v][k] < sent[v]
            /\ \A j \in 1..Len(got[v]) : j < k => got[v][j] < got[v][k]
        BY <3>1 DEF Handled
      <3>3. \A j \in 1..Len(pipe) : Stream'[j].from = v => got[v][k] < Stream'[j].n
        BY <2>5, <3>1
      <3>4. sent' = sent /\ lock' = lock /\ Len(Stream') = Len(pipe)  BY <2>1
      <3>5. QED  BY <3>1, <3>2, <3>3, <3>4
    <2>7. ASSUME NEW k \in 1..Len(got'[w])
          PROVE  /\ got'[w][k] \in 1..sent'[w]
                 /\ lock' = w => got'[w][k] < sent'[w]
                 /\ \A j \in 1..Len(got'[w]) : j < k => got'[w][j] < got'[w][k]
                 /\ \A j \in 1..Len(Stream') : Stream'[j].from = w => got'[w][k] < Stream'[j].n
      <3>1. CASE k \in 1..Len(got[w])
        <4>1. \A j \in 1..Len(got'[w]) : j < k => j \in 1..Len(got[w])
          BY <1>0, <3>1
        <4>2. got'[w][k] = got[w][k] /\ k \in Nat  BY <2>3, <3>1
        <4>3. /\ got[w][k] \in 1..sent[w]
              /\ lock = w => got[w][k] < sent[w]
              /\ \A j \in 1..Len(got[w]) : j < k => got[w][j] < got[w][k]
          BY <3>1 DEF Handled
        <4>4. \A j \in 1..Len(got'[w]) : j < k => got'[w][j] < got'[w][k]
          BY <2>3, <4>1, <4>2, <4>3
        <4>5. \A j \in 1..Len(Stream') : Stream'[j].from = w => got'[w][k] < Stream'[j].n
          BY <2>1, <2>5, <3>1, <4>2
        <4>6. QED  BY <2>1, <4>2, <4>3, <4>4, <4>5
      <3>2. CASE k = Len(got[w]) + 1
        <4>1. \A j \in 1..Len(got'[w]) : j < k => j \in 1..Len(got[w])
          BY <1>0, <2>3, <3>2
        <4>2. got'[w][k] = n  BY <2>3, <3>2
        <4>3. \A j \in 1..Len(Stream') : Stream'[j].from = w => n < Stream'[j].n
          BY <2>1, <2>2, <2>5
        <4>4. QED  BY <2>1, <2>2, <2>3, <4>1, <4>2, <4>3
      <3>3. k \in 1..Len(got[w]) \/ k = Len(got[w]) + 1  BY <1>0, <2>3
      <3>4. QED  BY <3>1, <3>2, <3>3
    <2>8. QED  BY <2>6, <2>7 DEF Handled
  <1>4. ASSUME NEW w \in Writers, BeginWrite(w) PROVE Handled'
    <2>1. /\ Stream' = Stream /\ lock' = w /\ UNCHANGED got
          /\ sent' = [sent EXCEPT ![w] = @ + 1] /\ sent'[w] = sent[w] + 1
      BY <1>4, BeginKeeps
    <2>2. ASSUME NEW v \in Writers PROVE sent'[v] \in Nat /\ sent[v] <= sent'[v]
                                           /\ (v = w => sent[v] < sent'[v])
      <3>1. CASE v = w  BY <1>0, <2>1, <3>1
      <3>2. CASE v # w  BY <1>0, <2>1, <3>2 DEF TypeOK
      <3>3. QED  BY <3>1, <3>2
    <2>3. ASSUME NEW v \in Writers, NEW k \in 1..Len(got[v])
          PROVE  /\ got[v][k] \in 1..sent'[v]
                 /\ lock' = v => got[v][k] < sent'[v]
      <3>1. got[v][k] \in 1..sent[v] /\ got[v][k] \in Nat /\ sent[v] \in Nat
        BY <1>0 DEF Handled
      <3>2. sent'[v] \in Nat /\ sent[v] <= sent'[v] /\ (v = w => sent[v] < sent'[v])
        BY <2>2
      <3>3. QED  BY <2>1, <3>1, <3>2
    <2>4. QED  BY <2>1, <2>3 DEF Handled
  <1>5. ASSUME NEW w \in Writers, WriteByte(w) PROVE Handled'
    <2>1. /\ Len(Stream') = Len(Stream) + 1
          /\ \A k \in 1..Len(Stream) : Stream'[k] = Stream[k]
          /\ Stream'[Len(Stream) + 1] = Byte(written + 1)
          /\ UNCHANGED <<sent, got>>
      BY <1>5, WriteAdds
    <2>2. lock = w /\ lock' \in {w, Nobody}  BY <1>5, WriteType
    <2>3. \A k \in 1..Len(Stream') : k \in 1..Len(Stream) \/ k = Len(Stream) + 1
      BY <2>1
    <2>4. ASSUME NEW v \in Writers, NEW k \in 1..Len(got[v]), NEW j \in 1..Len(Stream'),
                 Stream'[j].from = v
          PROVE  got[v][k] < Stream'[j].n
      <3>1. CASE j \in 1..Len(Stream)  BY <2>1, <2>4, <3>1 DEF Handled
      <3>2. CASE j = Len(Stream) + 1
        <4>1. v = w /\ Stream'[j].n = sent[w]  BY <2>1, <2>2, <2>4, <3>2 DEF Byte
        <4>2. QED  BY <2>2, <4>1 DEF Handled
      <3>3. QED  BY <2>3, <3>1, <3>2
    <2>5. \A v \in Writers : lock' = v => lock = v  BY <2>2, WritersAssumption
    <2>6. QED  BY <2>1, <2>4, <2>5 DEF Handled
  <1>6. QED
    BY <1>1, <1>2, <1>3, <1>4, <1>5 DEF Next
-----------------------------------------------------------------------------
(* Commands follow one another whole.                                      *)

LEMMA FramesStep ==
  ASSUME TypeOK, Writing, Frames, [Next]_vars
  PROVE  Frames'
  <1> USE StreamType
  <1>0. /\ Stream # <<>> <=> Len(Stream) > 0
        /\ \A k \in 1..Len(Stream) : Stream[k] \in Bytes
    BY EmptySeq
  <1>1. CASE ReadByte \/ DecodeFails \/ Break \/ UNCHANGED vars
    <2>1. Stream' = Stream /\ UNCHANGED <<lock, sent, size, written>>
      BY <1>1, ReadKeeps, EndKeeps
    <2>2. QED  BY <2>1 DEF Frames, Halfway, Byte
  <1>2. CASE Decode \/ DecodeGarbage \/ Interrupt
    <2>1. /\ Stream' = pipe /\ Len(Stream') = Len(pipe)
          /\ Len(Stream) = Len(buf) + Len(pipe)
          /\ \A k \in 1..Len(pipe) : Stream'[k] = Stream[Len(buf) + k]
          /\ UNCHANGED <<lock, sent, size, written>>
      BY <1>2, Drops
    <2>2. Contiguous(Stream)'
      <3>1. ASSUME NEW j \in 1..Len(pipe), NEW k \in 1..Len(pipe), k = j + 1
            PROVE  Adjoins(Stream'[j], Stream'[k])
        <4>1. PICK a \in 1..Len(Stream) : a = Len(buf) + j  OBVIOUS
        <4>2. PICK b \in 1..Len(Stream) : b = Len(buf) + k  OBVIOUS
        <4>3. b = a + 1  BY <3>1, <4>1, <4>2
        <4>4. Adjoins(Stream[a], Stream[b])  BY <4>3 DEF Frames, Contiguous
        <4>5. QED  BY <2>1, <4>1, <4>2, <4>4
      <3>2. QED  BY <2>1, <3>1 DEF Contiguous
    <2>3. ASSUME Stream' # <<>>
          PROVE  Stream'[Len(Stream')] = Stream[Len(Stream)] /\ Stream # <<>>
      <3>1. Len(pipe) > 0  BY <2>1, <2>3, EmptySeq DEF TypeOK
      <3>2. Stream'[Len(pipe)] = Stream[Len(buf) + Len(pipe)]  BY <2>1, <3>1
      <3>3. QED  BY <1>0, <2>1, <3>1, <3>2
    <2>4. QED  BY <2>1, <2>2, <2>3 DEF Frames, Halfway, Byte
  <1>3. ASSUME NEW w \in Writers, BeginWrite(w) PROVE Frames'
    <2>1. Stream' = Stream /\ written' = 0 /\ lock = Nobody
      BY <1>3, BeginKeeps
    <2>2. ~Halfway /\ ~Halfway'  BY <2>1 DEF Halfway
    <2>3. QED  BY <2>1, <2>2 DEF Frames
  <1>4. ASSUME NEW w \in Writers, WriteByte(w) PROVE Frames'
    <2>1. /\ Len(Stream') = Len(Stream) + 1
          /\ \A k \in 1..Len(Stream) : Stream'[k] = Stream[k]
          /\ Stream'[Len(Stream) + 1] = Byte(written + 1)
          /\ UNCHANGED <<sent, size>>
      BY <1>4, WriteAdds
    <2>2. /\ lock = w /\ lock # Nobody /\ written' = written + 1
          /\ lock' = IF written' = Header + size THEN Nobody ELSE w
          /\ written \in Nat /\ size \in Nat /\ written < Header + size
      BY <1>4, WriteType, SizesAssumption DEF TypeOK, Writing, Header
    <2>3. \A i : /\ Byte(i).i = i /\ Byte(i).len = size
                 /\ [Byte(i) EXCEPT !.i = i + 1] = Byte(i + 1)
      BY DEF Byte
    <2>4. ASSUME Len(Stream) > 0 PROVE Adjoins(Stream[Len(Stream)], Byte(written + 1))
      <3>1. CASE written > 0
        <4>1. Stream[Len(Stream)] = Byte(written)
          BY <1>0, <2>2, <2>4, <3>1 DEF Frames, Halfway
        <4>2. QED  BY <2>2, <2>3, <4>1 DEF Adjoins
      <3>2. CASE written = 0
        <4>1. Stream[Len(Stream)].i = Header + Stream[Len(Stream)].len
          BY <1>0, <2>4, <3>2 DEF Frames, Halfway
        <4>2. Byte(written + 1).i = 1  BY <2>3, <3>2
        <4>3. QED  BY <4>1, <4>2 DEF Adjoins
      <3>3. QED  BY <2>2, <3>1, <3>2
    <2>5. Contiguous(Stream)'
      <3>1. ASSUME NEW j \in 1..Len(Stream'), NEW k \in 1..Len(Stream'), k = j + 1
            PROVE  Adjoins(Stream'[j], Stream'[k])
        <4>1. CASE k \in 1..Len(Stream)
          BY <2>1, <3>1, <4>1 DEF Frames, Contiguous
        <4>2. CASE k = Len(Stream) + 1
          <5>1. j = Len(Stream) /\ Len(Stream) > 0  BY <3>1, <4>2
          <5>2. QED  BY <2>1, <2>4, <4>2, <5>1
        <4>3. QED  BY <2>1, <4>1, <4>2
      <3>2. QED  BY <3>1 DEF Contiguous
    <2>6. Stream'[Len(Stream')] = Byte(written + 1)  BY <2>1
    <2>7. CASE lock' = w
      <3>1. Byte(written)' = Byte(written + 1)  BY <2>1, <2>2, <2>7 DEF Byte
      <3>2. Halfway'  BY <2>2, <2>7 DEF Halfway
      <3>3. QED  BY <2>5, <2>6, <3>1, <3>2 DEF Frames
    <2>8. CASE lock' = Nobody /\ written' = Header + size
      <3>1. ~Halfway'  BY <2>8 DEF Halfway
      <3>2. Byte(written + 1).i = Header + Byte(written + 1).len  BY <2>2, <2>3, <2>8
      <3>3. QED  BY <2>5, <2>6, <3>1, <3>2 DEF Frames
    <2>9. QED  BY <2>2, <2>7, <2>8
  <1>5. QED
    BY <1>1, <1>2, <1>3, <1>4 DEF Next

\* A read that began where a command does ends where it ends.
LEMMA CleanWhole ==
  ASSUME TypeOK, Reading, Complete, ~torn, ~oversized
  PROVE  IsWhole(buf) /\ Len(buf) = Header + buf[1].len
  <1>1. Len(buf) >= Header /\ Len(buf) = Header + need  BY DEF Complete
  <1>2. /\ 1 \in 1..Len(buf) /\ 2 \in 1..Len(buf) /\ Stream # <<>>
        /\ Stream[1] = buf[1] /\ buf[1] \in Bytes
    BY <1>1, StreamType, EmptySeq DEF Header
  <1>3. \A k \in 1..Len(buf) : buf[k] = [buf[1] EXCEPT !.i = k]
    BY <1>2 DEF Reading
  <1>4. need = buf[1].len  BY <1>1, StreamType DEF Reading, Header
  <1>5. buf[1].i = 1 /\ buf[2] = [buf[1] EXCEPT !.i = 2]
    <2>1. buf[1] = [buf[1] EXCEPT !.i = 1]  BY <1>2, <1>3
    <2>2. [buf[1] EXCEPT !.i = 1].i = 1  BY <1>2 DEF Bytes
    <2>3. QED  BY <1>2, <1>3, <2>1, <2>2
  <1>6. QED  BY <1>1, <1>3, <1>4, <1>5 DEF IsWhole, IsHeader
\* The byte that is read belongs where the read is.
LEMMA ReadInPlace ==
  ASSUME TypeOK, Frames, Reading, ReadByte, ~torn, ~oversized
  PROVE  /\ \A k \in 1..Len(buf') : buf'[k] = [Stream[1] EXCEPT !.i = k]
         /\ need' = IF Len(buf') < Header THEN 0 ELSE buf'[1].len
         /\ Stream # <<>>
  <1> USE StreamType
  <1>1. /\ buf' = Append(buf, Head(pipe)) /\ pipe # <<>> /\ Head(pipe) \in Bytes
        /\ Len(buf') = Len(buf) + 1 /\ buf' \in Seq(Bytes)
    BY ReadType
  <1>2. /\ Len(pipe) > 0 /\ Head(pipe) = pipe[1] /\ Stream # <<>> /\ Len(Stream) > 0
        /\ Len(buf) < Header + need
        /\ Len(buf) + 1 = Header => need' \in Lengths(buf')
        /\ Len(buf) + 1 # Header => need' = need
    BY <1>1, EmptySeq DEF ReadByte, TypeOK
  <1>3. /\ \A k \in 1..Len(buf) : buf'[k] = buf[k]
        /\ buf'[Len(buf) + 1] = pipe[1] /\ pipe[1] = Stream[Len(buf) + 1]
    BY <1>1, <1>2, AppendProperties DEF TypeOK
  <1>4. \A k \in 1..Len(buf) : buf[k] = [Stream[1] EXCEPT !.i = k]
    BY <1>2 DEF Reading
  <1>5. Stream[1] \in Bytes /\ Stream[1].len \in Nat /\ Stream[1].len < LenMod
    <2>1. 1 \in 1..Len(Stream)  BY <1>2
    <2>2. Stream[1] \in Bytes  BY <2>1
    <2>3. \A k \in 1..Len(Stream) : Stream[k].len < LenMod  BY DEF Reading
    <2>4. QED  BY <2>1, <2>2, <2>3, SizesAssumption DEF Bytes
  <1>6. pipe[1] = [Stream[1] EXCEPT !.i = Len(buf) + 1]
    <2>1. CASE Len(buf) = 0
      <3>1. buf = <<>>  BY <2>1, EmptySeq DEF TypeOK
      <3>2. Stream[1].i = 1 /\ pipe[1] = Stream[1]
        BY <1>2, <1>3, <2>1, <3>1 DEF Reading
      <3>3. QED  BY <1>5, <2>1, <3>2 DEF Bytes
    <2>2. CASE Len(buf) > 0
      <3>1. /\ Len(buf) \in 1..Len(Stream) /\ Len(buf) + 1 \in 1..Len(Stream)
            /\ Len(buf) \in 1..Len(buf)
        BY <1>2, <2>2
      <3>2. Stream[Len(buf)] = [Stream[1] EXCEPT !.i = Len(buf)]
        BY <1>4, <3>1
      <3>3. Adjoins(Stream[Len(buf)], pipe[1])
        BY <1>3, <3>1 DEF Frames, Contiguous
      <3>4. Stream[Len(buf)].i = Len(buf) /\ Stream[Len(buf)].len = Stream[1].len
        BY <1>5, <3>2 DEF Bytes
      <3>5. Len(buf) < Header + Stream[1].len
        <4>1. CASE Len(buf) < Header  BY <1>5, <4>1 DEF Header
        <4>2. CASE ~(Len(buf) < Header)
          <5>1. need = buf[1].len  BY <4>2 DEF Reading
          <5>2. buf[1] = Stream[1]  BY <2>2
          <5>3. QED  BY <1>2, <5>1, <5>2
        <4>3. QED  BY <4>1, <4>2
      <3>6. pipe[1] = [Stream[Len(buf)] EXCEPT !.i = Len(buf) + 1]
        BY <1>5, <3>3, <3>4, <3>5 DEF Adjoins, Header
      <3>7. QED  BY <1>5, <3>2, <3>6 DEF Bytes
    <2>3. QED  BY <2>1, <2>2
  <1>7. \A k \in 1..Len(buf') : buf'[k] = [Stream[1] EXCEPT !.i = k]
    <2>1. \A k \in 1..Len(buf') : k \in 1..Len(buf) \/ k = Len(buf) + 1
      BY <1>1
    <2>2. QED  BY <1>3, <1>4, <1>6, <2>1
  <1>8. need' = IF Len(buf') < Header THEN 0 ELSE buf'[1].len
    <2>1. buf'[1] = [Stream[1] EXCEPT !.i = 1]
      <3>1. 1 \in 1..Len(buf')  BY <1>1
      <3>2. QED  BY <1>7, <3>1
    <2>2. buf'[1].len = Stream[1].len /\ buf'[1].i = 1  BY <1>5, <2>1 DEF Bytes
    <2>3. CASE Len(buf) + 1 = Header
      <3>1. buf'[2] = [Stream[1] EXCEPT !.i = 2]  BY <1>1, <1>7, <2>3 DEF Header
      <3>2. buf'[2] = [buf'[1] EXCEPT !.i = 2]  BY <1>5, <2>1, <3>1 DEF Bytes
      <3>3. IsHeader(buf')  BY <2>2, <3>2 DEF IsHeader
      <3>4. need' = buf'[1].len % LenMod  BY <1>2, <2>3, <3>3 DEF Lengths
      <3>5. buf'[1].len % LenMod = buf'[1].len
        BY <1>5, <2>2, SmallMod, SizesAssumption
      <3>6. QED  BY <1>1, <2>3, <3>4, <3>5
    <2>4. CASE Len(buf) + 1 # Header
      <3>1. need' = need /\ need = IF Len(buf) < Header THEN 0 ELSE buf[1].len
        BY <1>2, <2>4 DEF Reading
      <3>2. CASE Len(buf) < Header
        BY <1>1, <2>4, <3>1, <3>2 DEF Header
      <3>3. CASE ~(Len(buf) < Header)
        <4>1. buf[1] = buf'[1]  BY <1>3, <3>3 DEF Header
        <4>2. QED  BY <1>1, <3>1, <3>3, <4>1 DEF Header
      <3>4. QED  BY <3>2, <3>3
    <2>5. QED  BY <2>3, <2>4
  <1>9. QED  BY <1>2, <1>7, <1>8

LEMMA ReadingStep ==
  ASSUME TypeOK, Writing, Frames, Reading, [Next]_vars
  PROVE  Reading'
  <1> USE StreamType
  <1>0. Stream # <<>> <=> Len(Stream) > 0
    BY EmptySeq
  <1>1. CASE DecodeFails \/ Break \/ UNCHANGED vars
    <2>1. Stream' = Stream /\ UNCHANGED <<lock, size, written, buf, need, torn, oversized>>
      BY <1>1, EndKeeps
    <2>2. QED  BY <2>1 DEF Reading, Halfway
  <1>2. CASE ReadByte
    <2>1. Stream' = Stream /\ UNCHANGED <<lock, size, written, torn, oversized>>
      BY <1>2, ReadKeeps
    <2>2. buf' # <<>>  BY <1>2, ReadType, EmptySeq
    <2>3. QED  BY <1>2, <2>1, <2>2, ReadInPlace DEF Reading, Halfway
  <1>3. CASE DecodeGarbage \/ Interrupt
    <2>1. ~torn' /\ ~oversized' => ~torn /\ ~oversized /\ Complete /\ ~IsWhole(buf)
      BY <1>3 DEF DecodeGarbage, Interrupt
    <2>2. torn' \/ oversized'  BY <2>1, CleanWhole
    <2>3. QED  BY <2>2 DEF Reading
  <1>4. CASE Decode
    <2>1. /\ Stream' = pipe /\ buf' = <<>> /\ need' = 0
          /\ Len(Stream') = Len(pipe)
          /\ \A k \in 1..Len(pipe) : Stream'[k] = Stream[Len(buf) + k]
          /\ UNCHANGED <<lock, size, written, oversized, torn>>
      BY <1>4, Drops DEF Decode, historyVars
    <2>2. SUFFICES ASSUME ~torn, ~oversized PROVE Reading'
      BY <2>1 DEF Reading
    <2>3. Complete /\ Len(buf) = Header + buf[1].len
          /\ \A k \in 1..Len(buf) : buf[k] = [buf[1] EXCEPT !.i = k]
      BY <1>4, <2>2, CleanWhole DEF Decode, IsWhole
    <2>4. /\ Len(buf) \in 1..Len(buf) /\ 1 \in 1..Len(buf) /\ buf[1] \in Bytes
          /\ Len(buf) \in 1..Len(Stream)
      BY <2>3 DEF Complete, Header
    <2>5. buf[Len(buf)].i = Header + buf[Len(buf)].len
      <3>1. buf[Len(buf)] = [buf[1] EXCEPT !.i = Len(buf)]  BY <2>3, <2>4
      <3>2. buf[Len(buf)].i = Len(buf) /\ buf[Len(buf)].len = buf[1].len
        BY <2>4, <3>1 DEF Bytes
      <3>3. QED  BY <2>3, <3>2
    <2>6. ASSUME pipe # <<>> PROVE pipe[1].i = 1 /\ Len(pipe) > 0
      <3>1. Len(pipe) > 0  BY <2>6, EmptySeq DEF TypeOK
      <3>2. PICK j \in 1..Len(Stream) : j = Len(buf)  BY <2>4
      <3>3. PICK k \in 1..Len(Stream) : k = Len(buf) + 1  BY <3>1
      <3>4. Adjoins(Stream[j], Stream[k])  BY <3>2, <3>3 DEF Frames, Contiguous
      <3>5. Stream[j] = buf[Len(buf)] /\ Stream[k] = pipe[1]  BY <2>4, <3>1, <3>2, <3>3
      <3>6. pipe[1].i = 1
        <4>1. PICK x \in Nat : x = buf[Len(buf)].i
          BY <2>4 DEF Bytes
        <4>2. ~(buf[Len(buf)].i < Header + buf[Len(buf)].len)  BY <2>5, <4>1
        <4>3. QED  BY <3>4, <3>5, <4>2 DEF Adjoins
      <3>7. QED  BY <3>1, <3>6
    <2>7. ASSUME pipe = <<>> PROVE ~Halfway
      <3>1. Len(pipe) = 0  BY <2>7
      <3>2. Stream[Len(Stream)] = buf[Len(buf)] /\ Stream # <<>>
        BY <1>0, <2>4, <3>1
      <3>3. SUFFICES ASSUME Halfway PROVE FALSE
        OBVIOUS
      <3>4. buf[Len(buf)] = Byte(written)  BY <3>2, <3>3 DEF Frames
      <3>5. written = Header + size  BY <2>5, <3>4 DEF Byte
      <3>6. written < Header + size /\ written \in Nat /\ size \in Nat
        BY <3>3, SizesAssumption DEF Writing, Halfway, TypeOK, Header
      <3>7. QED  BY <3>5, <3>6
    <2>8. size < LenMod /\ \A k \in 1..Len(pipe) : pipe[k].len < LenMod
      BY <2>2 DEF Reading
    <2>9. Len(buf') = 0  BY <2>1
    <2>10. QED
      BY <2>1, <2>6, <2>7, <2>8, <2>9 DEF Reading, Halfway, Header
  <1>5. ASSUME NEW w \in Writers, BeginWrite(w) PROVE Reading'
    <2>1. /\ Stream' = Stream /\ UNCHANGED <<buf, need, torn>>
          /\ written' = 0 /\ size' \in Nat
          /\ ~oversized' => ~oversized /\ ~(size' >= LenMod)
      BY <1>5, BeginKeeps, SizesAssumption
    <2>2. ~Halfway'  BY <2>1 DEF Halfway
    <2>3. ~oversized' => size' < LenMod  BY <2>1, SizesAssumption
    <2>4. QED  BY <2>1, <2>2, <2>3 DEF Reading
  <1>6. ASSUME NEW w \in Writers, WriteByte(w) PROVE Reading'
    <2>1. /\ Len(Stream') = Len(Stream) + 1
          /\ \A k \in 1..Len(Stream) : Stream'[k] = Stream[k]
          /\ Stream'[Len(Stream) + 1] = Byte(written + 1)
          /\ UNCHANGED <<size, buf, need, torn, oversized>>
      BY <1>6, WriteAdds
    <2>2. lock # Nobody /\ written \in Nat  BY <1>6, WriteType DEF TypeOK
    <2>3. SUFFICES ASSUME ~torn, ~oversized PROVE Reading'
      BY <2>1 DEF Reading
    <2>4. Stream' # <<>>  BY <2>1
    <2>5. \A k \in 1..Len(Stream') : Stream'[k].len < LenMod
      <3>1. Byte(written + 1).len = size /\ size < LenMod  BY <2>3 DEF Byte, Reading
      <3>2. \A k \in 1..Len(Stream') : k \in 1..Len(Stream) \/ k = Len(Stream) + 1
        BY <2>1
      <3>3. QED  BY <2>1, <2>3, <3>1, <3>2 DEF Reading
    <2>6. CASE Stream # <<>>
      <3>1. Stream'[1] = Stream[1]  BY <1>0, <2>1, <2>6
      <3>2. QED  BY <2>1, <2>3, <2>4, <2>5, <2>6, <3>1 DEF Reading
    <2>7. CASE Stream = <<>>
      <3>1. Len(Stream) = 0 /\ Len(buf) = 0  BY <1>0, <2>7
      <3>2. ~Halfway  BY <2>3, <2>7 DEF Reading
      <3>3. written = 0  BY <2>2, <3>2 DEF Halfway
      <3>4. Stream'[1].i = 1  BY <2>1, <3>1, <3>3 DEF Byte
      <3>5. QED  BY <2>1, <2>3, <2>4, <2>5, <3>1, <3>4 DEF Reading
    <2>8. QED  BY <2>6, <2>7
  <1>7. QED
    BY <1>1, <1>2, <1>3, <1>4, <1>5, <1>6 DEF Next

-----------------------------------------------------------------------------
(* Theorems.                                                               *)

LEMMA InitInv == Init => WInv
  <1> SUFFICES ASSUME Init PROVE WInv
    OBVIOUS
  <1>1. /\ buf = <<>> /\ pipe = <<>> /\ need = 0 /\ Len(buf) = 0 /\ Len(pipe) = 0
        /\ lock = Nobody /\ size = 0 /\ written = 0 /\ ~garbage
        /\ sent = [w \in Writers |-> 0] /\ got = [w \in Writers |-> <<>>]
    BY DEF Init
  <1>2. TypeOK
    <2>1. sent \in [Writers -> 0..MaxSent]  BY <1>1, SizesAssumption
    <2>2. got \in [Writers -> Seq(Nat)]  BY <1>1, EmptySeq
    <2>3. 0 \in 0..(Header + 0)  BY DEF Header
    <2>4. open \in BOOLEAN /\ garbage \in BOOLEAN /\ torn \in BOOLEAN /\ oversized \in BOOLEAN
      BY Zenon DEF Init
    <2>5. QED
      BY <1>1, <2>1, <2>2, <2>3, <2>4, EmptySeq, SizesAssumption DEF TypeOK, Header
  <1>3. Len(Stream) = 0 /\ Stream = <<>>  BY <1>1, <1>2, StreamType, EmptySeq
  <1>4. \A w \in Writers : Len(got[w]) = 0  BY <1>1
  <1>5. Writing /\ Order /\ Frames /\ NothingMadeUp
    BY <1>1, <1>3 DEF Writing, Order, Ordered, Frames, Contiguous, NothingMadeUp
  <1>6. Handled  BY <1>4 DEF Handled
  <1>7. Reading
    BY <1>1, <1>3, SizesAssumption DEF Reading, Halfway, Header
  <1>8. QED  BY <1>2, <1>5, <1>6, <1>7 DEF WInv

LEMMA MadeUpStep ==
  ASSUME TypeOK, Reading, NothingMadeUp, [Next]_vars
  PROVE  NothingMadeUp'
  <1>1. CASE DecodeGarbage
    <2>1. Complete /\ ~IsWhole(buf) /\ UNCHANGED <<torn, oversized>>
      BY <1>1 DEF DecodeGarbage
    <2>2. torn \/ oversized  BY <2>1, CleanWhole
    <2>3. QED  BY <2>1, <2>2 DEF NothingMadeUp
  <1>2. CASE ~DecodeGarbage
    <2>1. ASSUME NEW w \in Writers, BeginWrite(w)
          PROVE  UNCHANGED <<garbage, torn>> /\ (oversized => oversized')
      BY <2>1 DEF BeginWrite
    <2>2. CASE Interrupt
      BY <2>2 DEF Interrupt, NothingMadeUp
    <2>3. ASSUME ~Interrupt, \A w \in Writers : ~BeginWrite(w)
          PROVE  UNCHANGED <<garbage, torn, oversized>>
      BY <1>2, <2>3 DEF Next, vars, historyVars, ReadByte, Decode, DecodeFails, Break,
                        WriteByte
    <2>4. QED  BY <2>1, <2>2, <2>3 DEF NothingMadeUp
  <1>3. QED  BY <1>1, <1>2

LEMMA StepInv == WInv /\ [Next]_vars => WInv'
  BY TypeStep, OrderStep, HandledStep, FramesStep, ReadingStep, MadeUpStep DEF WInv

THEOREM Invariance == Spec => []WInv
  <1>1. QED  BY InitInv, StepInv, PTL DEF Spec

\* The read never takes more bytes than the length it read asks for.
THEOREM TypeCorrect == Spec => []TypeOK
  <1>1. WInv => TypeOK  BY DEF WInv
  <1>2. QED  BY <1>1, Invariance, PTL

\* As long as no read was dropped half way and no payload was too long for its
\* length, only commands that were sent are handled (protocol.rs:221-312).
THEOREM SentOnly == Spec => []NothingMadeUp
  <1>1. WInv => NothingMadeUp  BY DEF WInv
  <1>2. QED  BY <1>1, Invariance, PTL

\* Each task's commands are handled at most once and in its order, torn reads and
\* bytes that mean nothing included: the connection implements the lossy link
\* (protocol.rs:221-312).
THEOREM LinkImplements == Spec => InOrder
  <1>1. Init => Link!Init  BY DEF Init, Link!Init
  <1>2. ASSUME WInv, [Next]_vars PROVE [Link!Next]_Link!vars
    <2>1. CASE Decode
      <3>1. PICK w \in Writers, n \in Nat :
              /\ n \in 1..sent[w]
              /\ got' = [got EXCEPT ![w] = Append(got[w], n)]
              /\ \A k \in 1..Len(got[w]) : got[w][k] < n
        BY <1>2, <2>1, DecodeNewest DEF WInv
      <3>2. UNCHANGED sent  BY <2>1 DEF Decode, writeVars
      <3>3. Link!Deliver(w)  BY <3>1, <3>2 DEF Link!Deliver
      <3>4. QED  BY <3>3 DEF Link!Next
    <2>2. ASSUME NEW w \in Writers, BeginWrite(w) PROVE Link!Next
      BY <2>2 DEF BeginWrite, Link!Next, Link!Send
    <2>3. ASSUME ~Decode, \A w \in Writers : ~BeginWrite(w) PROVE UNCHANGED <<sent, got>>
      BY <1>2, <2>3 DEF Next, vars, writeVars, ReadByte, DecodeGarbage, DecodeFails,
                        Interrupt, Break, WriteByte
    <2>4. QED  BY <2>1, <2>2, <2>3 DEF Link!vars
  <1>3. QED  BY <1>1, <1>2, Invariance, PTL DEF Spec, InOrder, Link!Spec
=============================================================================

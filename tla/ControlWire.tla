---------------------------- MODULE ControlWire ----------------------------
(***************************************************************************)
(* One direction of a control connection, byte by byte.  A command is a    *)
(* two-byte length and a payload.  Writers (the select loop of run and the *)
(* docker jobs it spawned) share the write half behind a mutex.  The other *)
(* side reads commands in an arm of tokio::select!: when another arm wins, *)
(* the read is dropped, and the bytes it had taken are gone.               *)
(*                                                                         *)
(* Every byte carries its command and its place in it.  What the bytes     *)
(* of a read that starts inside a command decode to depends on data that   *)
(* is not modelled: any length, and a failure or a command nobody sent.    *)
(***************************************************************************)
EXTENDS Naturals, Sequences

CONSTANTS
  Writers,    \* tasks that write commands
  Nobody,     \* the mutex is free
  Sizes,      \* payload lengths
  LenMod,     \* 2^16: the length is cast to u16
  PipeSize,   \* bytes the connection buffers
  MaxSent     \* bound: commands of a writer

ASSUME WritersAssumption == Nobody \notin Writers
ASSUME SizesAssumption ==
  /\ LenMod \in Nat \ {0} /\ PipeSize \in Nat \ {0} /\ MaxSent \in Nat
  /\ Sizes \subseteq Nat \ {0}

Header == 2
Bytes == [from : Writers, n : Nat \ {0}, len : Sizes, i : Nat \ {0}]

VARIABLES
  open,       \* the connection is up and its reader runs
  lock,       \* who holds the write half's mutex
  sent,       \* commands each writer has begun to write
  size,       \* payload length of the command under way
  written,    \* its bytes written so far, header included
  pipe,       \* bytes on the connection
  buf,        \* bytes the read under way has taken
  need,       \* payload bytes it waits for
  got,        \* commands decoded, per writer
  garbage,    \* history: a command was decoded that nobody sent
  torn,       \* history: a read was dropped with bytes in its buffer
  oversized   \* history: a payload did not fit its length

writeVars == <<lock, sent, size, written>>
readVars == <<buf, need>>
historyVars == <<garbage, torn, oversized>>
vars == <<open, writeVars, pipe, readVars, got, historyVars>>

\* Types; the buffer never holds more than the read asked for.
TypeOK ==
  /\ open \in BOOLEAN /\ lock \in Writers \cup {Nobody}
  /\ sent \in [Writers -> 0..MaxSent]
  /\ size \in Nat /\ written \in 0..(Header + size)
  /\ pipe \in Seq(Bytes) /\ Len(pipe) <= PipeSize
  /\ buf \in Seq(Bytes) /\ need \in Nat /\ Len(buf) <= Header + need
  /\ got \in [Writers -> Seq(Nat)]
  /\ garbage \in BOOLEAN /\ torn \in BOOLEAN /\ oversized \in BOOLEAN

Init ==
  /\ open = TRUE /\ lock = Nobody
  /\ sent = [w \in Writers |-> 0] /\ size = 0 /\ written = 0
  /\ pipe = <<>> /\ buf = <<>> /\ need = 0
  /\ got = [w \in Writers |-> <<>>]
  /\ garbage = FALSE /\ torn = FALSE /\ oversized = FALSE

-----------------------------------------------------------------------------
(* Writing: wr.lock(), then write_len_prefixed.                            *)

\* The mutex is taken and a payload serialized.
BeginWrite(w) ==
  /\ open /\ lock = Nobody /\ sent[w] < MaxSent
  /\ \E s \in Sizes : size' = s /\ oversized' = (oversized \/ s >= LenMod)
  /\ lock' = w /\ sent' = [sent EXCEPT ![w] = @ + 1] /\ written' = 0
  /\ UNCHANGED <<open, pipe, readVars, got, garbage, torn>>

\* Bug: the mutex is given back between the length and the payload.
WriteUnlocking(w) ==
  /\ open /\ lock = w /\ Len(pipe) < PipeSize
  /\ pipe' = Append(pipe, [from |-> w, n |-> sent[w], len |-> size, i |-> written + 1])
  /\ written' = written + 1
  /\ lock' = IF written' \in {Header, Header + size} THEN Nobody ELSE lock
  /\ UNCHANGED <<open, sent, size, readVars, got, historyVars>>

\* Bug: write for write_all: the last byte may stay behind.
WriteShort(w) ==
  /\ open /\ lock = w /\ Len(pipe) < PipeSize
  /\ pipe' = Append(pipe, [from |-> w, n |-> sent[w], len |-> size, i |-> written + 1])
  /\ written' = written + 1
  /\ lock' = IF written' = Header + size - 1 THEN Nobody ELSE w
  /\ UNCHANGED <<open, sent, size, readVars, got, historyVars>>

\* One byte goes out; with the last the mutex is given back.
WriteByte(w) ==
  /\ open /\ lock = w /\ Len(pipe) < PipeSize
  /\ pipe' = Append(pipe, [from |-> w, n |-> sent[w], len |-> size, i |-> written + 1])
  /\ written' = written + 1
  /\ lock' = IF written' = Header + size THEN Nobody ELSE w
  /\ UNCHANGED <<open, sent, size, readVars, got, historyVars>>

-----------------------------------------------------------------------------
(* Reading: read_len_prefixed, then the command is deserialized.           *)

\* The two bytes are the length of a command, not bytes from inside one.
IsHeader(b) == b[1].i = 1 /\ b[2] = [b[1] EXCEPT !.i = 2]

\* The lengths read_u16 can find in the two bytes.
Lengths(b) == IF IsHeader(b) THEN {b[1].len % LenMod} ELSE 0..(LenMod - 1)

\* The payload is the whole payload of the command whose length was read.
IsWhole(b) ==
  /\ IsHeader(b) /\ Len(b) = Header + b[1].len
  /\ \A k \in 1..Len(b) : b[k] = [b[1] EXCEPT !.i = k]

\* A byte is read; the second byte of the length says how many follow.
ReadByte ==
  /\ open /\ pipe /= <<>> /\ Len(buf) < Header + need
  /\ buf' = Append(buf, Head(pipe)) /\ pipe' = Tail(pipe)
  /\ IF Len(buf) + 1 = Header THEN need' \in Lengths(buf') ELSE UNCHANGED need
  /\ UNCHANGED <<open, writeVars, got, historyVars>>

Complete == Len(buf) >= Header /\ Len(buf) = Header + need

\* Bug: the buffer is decoded and not cleared.
DecodeTwice ==
  /\ open /\ Complete /\ IsWhole(buf)
  /\ got' = [got EXCEPT ![buf[1].from] = Append(@, buf[1].n)]
  /\ UNCHANGED <<open, writeVars, pipe, readVars, historyVars>>

\* The payload is deserialized and the command handled; the next read begins.
Decode ==
  /\ open /\ Complete /\ IsWhole(buf)
  /\ got' = [got EXCEPT ![buf[1].from] = Append(@, buf[1].n)]
  /\ buf' = <<>> /\ need' = 0
  /\ UNCHANGED <<open, writeVars, pipe, historyVars>>

\* The bytes are no payload: they may still decode to some command, ...
DecodeGarbage ==
  /\ open /\ Complete /\ ~IsWhole(buf)
  /\ garbage' = TRUE
  /\ buf' = <<>> /\ need' = 0
  /\ UNCHANGED <<open, writeVars, pipe, got, torn, oversized>>

\* ... and usually fail, which ends run and with it the connection.
DecodeFails ==
  /\ open /\ Complete /\ ~IsWhole(buf)
  /\ open' = FALSE /\ UNCHANGED <<writeVars, pipe, readVars, got, historyVars>>

\* Another arm of select! wins: the read is dropped with what it has taken.
Interrupt ==
  /\ open /\ buf /= <<>> /\ ~Complete
  /\ buf' = <<>> /\ need' = 0 /\ torn' = TRUE
  /\ UNCHANGED <<open, writeVars, pipe, got, garbage, oversized>>

\* The connection breaks.
Break ==
  /\ open /\ open' = FALSE
  /\ UNCHANGED <<writeVars, pipe, readVars, got, historyVars>>

-----------------------------------------------------------------------------
Next ==
  \/ ReadByte \/ Decode \/ DecodeGarbage \/ DecodeFails \/ Interrupt \/ Break
  \/ \E w \in Writers : BeginWrite(w) \/ WriteByte(w)

Spec == Init /\ [][Next]_vars

\* Both sides run; the other arms of select! and failures need not happen.
Fairness ==
  /\ WF_vars(ReadByte) /\ WF_vars(Decode \/ DecodeGarbage \/ DecodeFails)
  /\ \A w \in Writers : WF_vars(WriteByte(w))

FairSpec == Spec /\ Fairness

-----------------------------------------------------------------------------
(* Properties.                                                             *)

Link == INSTANCE LossyLink WITH Senders <- Writers

\* The commands of each task are handled at most once and in the order it wrote
\* them, whatever is torn in between (protocol.rs:221-312).
InOrder == Link!Spec

\* A command nobody sent is only handled after a read was dropped half way
\* (client.rs:508, server.rs:589) or a payload was longer than a u16 says
\* (protocol.rs:276): the mutex keeps commands of different tasks apart.
NothingMadeUp == garbage => torn \/ oversized

\* Without those two and without a broken connection every command arrives.
EveryCommandArrives ==
  \A w \in Writers : \A n \in 1..MaxSent :
    sent[w] = n ~> \/ \E k \in DOMAIN got[w] : got[w][k] = n
                   \/ torn \/ oversized \/ ~open
=============================================================================

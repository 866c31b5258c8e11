--------------------------- MODULE FeedbackPacket ---------------------------
(***************************************************************************)
(* rtp_rtcp/source/rtcp_packet/transport_feedback.cc: the RTCP message     *)
(* that says which packets of a range were received, and when.             *)
(*                                                                         *)
(* Arrival times are whole milliseconds and so are the deltas, which makes *)
(* the roundings to ticks of 250 us exact.  The message has the time of    *)
(* its first received packet, rounded down to a multiple of BaseScale and  *)
(* wrapped, and the delta of each received packet to the one before.  A    *)
(* packet's symbol is 0 when it is missing, 1 when its delta fits in one   *)
(* byte and 2 otherwise; the symbols are packed into chunks.  The limits   *)
(* on the size of a message (65535 packets, 2^18 bytes) and the test that  *)
(* a packet is newer than the one before are left out: the numbers come in *)
(* order from a map that holds at most half as many packets.               *)
(***************************************************************************)
EXTENDS Integers, FiniteSets, Sequences, SequencesExt

CONSTANTS BaseScale,    \* kBaseScaleFactor, in ms
          TimeWrap,     \* the values of the 24 bits of the reference time
          MaxDelta,     \* the largest int16_t
          MaxSmall,     \* the largest delta of one byte
          OneBitCapacity,     \* kMaxOneBitCapacity
          RunLengthCapacity   \* kMaxRunLengthCapacity

ASSUME PacketAssumption ==
  /\ BaseScale \in Nat \ {0} /\ TimeWrap \in Nat \ {0}
  /\ MaxDelta \in Nat /\ BaseScale <= MaxDelta + 1 /\ MaxSmall \in 0..MaxDelta
  /\ OneBitCapacity \in Nat \ {0} /\ OneBitCapacity % 2 = 0
  /\ RunLengthCapacity \in Nat /\ RunLengthCapacity >= OneBitCapacity

TwoBitCapacity == OneBitCapacity \div 2   \* kMaxTwoBitCapacity

-----------------------------------------------------------------------------
(* LastChunk: the symbols that are not in a finished chunk yet.  all_same_ *)
(* and has_large_delta_ are always what these two operators say of them.   *)

AllSame(last) == \A i \in 1..Len(last) : last[i] = last[1]
HasLargeDelta(last) == 2 \in Range(last)

(* Mutant: a large delta goes into a chunk of single bits. *)
MutCanAdd(last, size) ==
  \/ Len(last) < OneBitCapacity
  \/ Len(last) < RunLengthCapacity /\ AllSame(last) /\ last[1] = size

CanAdd(last, size) ==
  \/ Len(last) < TwoBitCapacity
  \/ Len(last) < OneBitCapacity /\ ~HasLargeDelta(last) /\ size # 2
  \/ Len(last) < RunLengthCapacity /\ AllSame(last) /\ last[1] = size

Pad(symbols, n) == [i \in 1..n |-> IF i <= Len(symbols) THEN symbols[i] ELSE 0]
EncodeRunLength(last) == [kind |-> "run", symbol |-> last[1], length |-> Len(last)]
EncodeOneBit(last) ==
  [kind |-> "one", symbols |-> Pad([i \in DOMAIN last |-> last[i] % 2], OneBitCapacity)]
EncodeTwoBit(last) == [kind |-> "two", symbols |-> Pad(last, TwoBitCapacity)]

(* Emit: a finished chunk, and the symbols that did not fit into it. *)
Emit(last) ==
  IF AllSame(last) THEN [chunk |-> EncodeRunLength(last), rest |-> <<>>]
  ELSE IF Len(last) = OneBitCapacity
    THEN [chunk |-> EncodeOneBit(last), rest |-> <<>>]
  ELSE [chunk |-> EncodeTwoBit(SubSeq(last, 1, TwoBitCapacity)),
        rest  |-> SubSeq(last, TwoBitCapacity + 1, Len(last))]

EncodeLast(last) ==
  IF AllSame(last) THEN EncodeRunLength(last)
  ELSE IF Len(last) <= TwoBitCapacity THEN EncodeTwoBit(last)
  ELSE EncodeOneBit(last)

AddDeltaSize(p, size) ==
  IF CanAdd(p.last, size) THEN [p EXCEPT !.last = Append(@, size)]
  ELSE LET e == Emit(p.last)
       IN  [chunks |-> Append(p.chunks, e.chunk), last |-> Append(e.rest, size)]

(* The chunks of a message, from all its symbols. *)
Chunks(sizes) ==
  LET add[n \in 0..Len(sizes)] ==
        IF n = 0 THEN [chunks |-> <<>>, last |-> <<>>]
                 ELSE AddDeltaSize(add[n - 1], sizes[n])
      p == add[Len(sizes)]
  IN  Append(p.chunks, EncodeLast(p.last))

(* Decode and AppendTo; max is the number of symbols still expected. *)
Symbols(chunk, max) ==
  IF chunk.kind = "run"
    THEN [i \in 1..(IF chunk.length < max THEN chunk.length ELSE max) |-> chunk.symbol]
    ELSE SubSeq(chunk.symbols, 1, IF Len(chunk.symbols) < max THEN Len(chunk.symbols)
                                                              ELSE max)

DeltaSizes(chunks, count) ==
  LET read[n \in 0..Len(chunks)] ==
        IF n = 0 THEN <<>>
        ELSE LET before == read[n - 1]
             IN  before \o Symbols(chunks[n], count - Len(before))
  IN  read[Len(chunks)]

-----------------------------------------------------------------------------
(* Building a message.  at is the sequence of the received packets, each   *)
(* with its unwrapped number and its arrival time.                         *)

WrapPeriod == TimeWrap * BaseScale

(* The remainder of C++, which has the sign of the dividend. *)
Rem(a, b) == IF a >= 0 THEN a % b ELSE -((-a) % b)

(* SetBase *)
BaseTime(time) == (time % WrapPeriod) \div BaseScale

Delta(time, last) ==
  LET full == Rem(time - last, WrapPeriod)
  IN  IF full > WrapPeriod \div 2 THEN full - WrapPeriod ELSE full

Fits(delta) == delta \in -MaxDelta - 1..MaxDelta
SizeOf(delta) == IF delta \in 0..MaxSmall THEN 1 ELSE 2

(* AddReceivedPacket until the first packet whose delta does not fit: the  *)
(* deltas of the packets that were added, all 0 without timestamps.        *)
Deltas(at, timestamps) ==
  LET add[n \in 0..Len(at)] ==
        IF n = 0 THEN [deltas |-> <<>>, last |-> BaseTime(at[1].time) * BaseScale,
                       full |-> FALSE]
        ELSE LET p == add[n - 1]
                 d == IF timestamps THEN Delta(at[n].time, p.last) ELSE 0
             IN  IF p.full \/ ~Fits(d) THEN [p EXCEPT !.full = TRUE]
                 ELSE [p EXCEPT !.deltas = Append(@, d), !.last = @ + d]
  IN  add[Len(at)].deltas

(* A message about the packets from `from` on.  built is what it is made   *)
(* from, for the properties: the packets that were added to it.            *)
Message(from, at, timestamps, span) ==
  LET deltas == Deltas(at, timestamps)
      added  == SubSeq(at, 1, Len(deltas))
      Got(s) == {i \in DOMAIN added : added[i].seq = s}
      sizes  == [i \in 1..added[Len(added)].seq - from + 1 |->
                   IF Got(from + i - 1) = {} THEN 0
                   ELSE SizeOf(deltas[CHOOSE j \in Got(from + i - 1) : TRUE])]
  IN  [base |-> from % span, time |-> BaseTime(at[1].time), count |-> Len(sizes),
       chunks |-> Chunks(sizes), deltas |-> deltas, timestamps |-> timestamps,
       built |-> added]

(* Parse: a packet of the range each, with its delta when it was received. *)
Parse(f, span) ==
  LET sizes == DeltaSizes(f.chunks, f.count)
      Before(i) == Cardinality({j \in 1..i : sizes[j] > 0})
  IN  [i \in 1..Len(sizes) |->
         [seq |-> (f.base + (i - 1)) % span, received |-> sizes[i] > 0,
          delta |-> IF sizes[i] > 0 THEN f.deltas[Before(i)] ELSE 0]]

(* GetBaseTime of a parsed message, whose 24 bits are read as a signed     *)
(* number, and GetBaseDelta, which undoes the wrap.                        *)
ParsedTime(f) ==
  BaseScale * (IF 2 * f.time >= TimeWrap THEN f.time - TimeWrap ELSE f.time)

(* Mutant: the wrap is not undone. *)
MutBaseDelta(f, prev) == ParsedTime(f) - prev

BaseDelta(f, prev) ==
  LET delta == ParsedTime(f) - prev
      Abs(x) == IF x < 0 THEN -x ELSE x
  IN  IF Abs(delta - WrapPeriod) < Abs(delta) THEN delta - WrapPeriod
      ELSE IF Abs(delta + WrapPeriod) < Abs(delta) THEN delta + WrapPeriod
      ELSE delta
=============================================================================

------------------------ MODULE PacketArrivalTimeMap ------------------------
(***************************************************************************)
(* remote_bitrate_estimator/packet_arrival_map.cc: the arrival times of    *)
(* the packets from begin_sequence_number_ on, 0 for a packet that has not *)
(* arrived, never more than kMaxNumberOfPackets.  A map is a record.       *)
(***************************************************************************)
EXTENDS Integers, Sequences, SequencesExt

CONSTANT kMaxNumberOfPackets

ASSUME MapAssumption == kMaxNumberOfPackets \in Nat \ {0}

EmptyMap == [seen |-> FALSE, begin |-> 0, times |-> <<>>]

End(m) == m.begin + Len(m.times)
At(m, s) == m.times[s - m.begin + 1]
Holds(m, s) == m.begin <= s /\ s < End(m)

has_received(m, s) == Holds(m, s) /\ At(m, s) # 0

clamp(m, s) == IF s < m.begin THEN m.begin ELSE IF s > End(m) THEN End(m) ELSE s

Drop(m, n) == [m EXCEPT !.begin = @ + n, !.times = SubSeq(@, n + 1, Len(@))]
Zeros(n) == [i \in 1..n |-> 0]

(* Room for a packet that goes n places behind the start of a full map:    *)
(* the oldest packets go, and the missing ones that are then in front.     *)
Trimmed(m, s) ==
  LET n == s - m.begin - kMaxNumberOfPackets + 1
      kept == {i \in n + 1..Len(m.times) : m.times[i] # 0}
  IN  IF n <= 0 THEN m
      ELSE IF n >= Len(m.times) THEN [m EXCEPT !.begin = s, !.times = <<>>]
      ELSE IF kept = {} THEN Drop(m, Len(m.times))
      ELSE Drop(m, (CHOOSE i \in kept : \A j \in kept : i <= j) - 1)

AddPacket(m, s, time) ==
  IF ~m.seen THEN [seen |-> TRUE, begin |-> s, times |-> <<time>>]
  ELSE IF Holds(m, s) THEN [m EXCEPT !.times[s - m.begin + 1] = time]
  ELSE IF s < m.begin THEN
    IF End(m) - s > kMaxNumberOfPackets THEN m
    ELSE [m EXCEPT !.begin = s, !.times = <<time>> \o Zeros(m.begin - s - 1) \o @]
  ELSE LET t == Trimmed(m, s)
       IN  [t EXCEPT !.times = @ \o Zeros(s - End(t)) \o <<time>>]

(* Packets in front of s that arrived no later than limit. *)
RemoveOldPackets(m, s, limit) ==
  LET young == {i \in 1..Len(m.times) : m.begin + i - 1 >= s \/ m.times[i] > limit}
  IN  IF young = {} THEN Drop(m, Len(m.times))
      ELSE Drop(m, (CHOOSE i \in young : \A j \in young : i <= j) - 1)

EraseTo(m, s) ==
  IF s <= m.begin THEN m
  ELSE Drop(m, IF s - m.begin < Len(m.times) THEN s - m.begin ELSE Len(m.times))
=============================================================================

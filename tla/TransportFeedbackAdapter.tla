---------------------- MODULE TransportFeedbackAdapter ----------------------
(***************************************************************************)
(* congestion_controller/rtp/transport_feedback_adapter.cc: the sender's   *)
(* history of packets, the bytes in flight on each network route, and the  *)
(* results it makes from feedback messages for the congestion controller.  *)
(* Its methods run one at a time on the task queue of the transport        *)
(* controller.  Bytes of packets without feedback (untracked) are left out. *)
(***************************************************************************)
EXTENDS SequenceNumbers, FeedbackPacket, FiniteSetsExt

CONSTANTS Route,        \* network routes
          MaxPackets,   \* packets are 1..MaxPackets
          Size,         \* the size of each packet with its overhead
          SendWindow    \* kSendTimeHistoryWindow

ASSUME AdapterAssumption ==
  /\ Route # {} /\ MaxPackets \in Nat /\ Size \in [1..MaxPackets -> Nat]
  /\ SendWindow \in Nat

VARIABLES history,    \* history_: unwrapped number -> packet
          last_ack,   \* last_ack_seq_num_
          ulast,      \* seq_num_unwrapper_
          in_flight,  \* in_flight_
          route,      \* network_route_
          offset,     \* current_offset_; None while last_timestamp_ is infinite
          last_timestamp,
          told,       \* history: what the controller was told of each packet
          skews,      \* history: receive time told minus arrival time, since
                      \* the offset was last set to the clock
          allSkews    \* history: the same, with the times skews leaves out

adapterVars == <<history, last_ack, ulast, in_flight, route, offset, last_timestamp,
                 told, skews, allSkews>>

AdapterInit(r) ==
  /\ history = <<>> /\ last_ack = -1 /\ ulast = None
  /\ in_flight = [x \in Route |-> 0] /\ route = r
  /\ offset = None /\ last_timestamp = 0
  /\ told = [n \in 1..MaxPackets |-> "nothing"] /\ skews = {} /\ allSkews = {}

-----------------------------------------------------------------------------
Bytes(h, seqs) == MapThenSumSet(LAMBDA s : Size[h[s].n], seqs)
Sent(h) == {s \in DOMAIN h : h[s].sent}
Unacked(h, ack) == {s \in Sent(h) : s > ack}

(* RemoveInFlightPacketBytes of every packet in seqs. *)
Without(flight, h, seqs) ==
  [x \in Route |-> flight[x] - Bytes(h, {s \in seqs \cap Sent(h) : h[s].route = x})]

(* The oldest packets of h, up to the first that is young enough. *)
Expired(h, time) ==
  {s \in DOMAIN h : \A t \in DOMAIN h : t <= s => time - h[t].created > SendWindow}

AdapterAddPacket(n, seq, time) ==
  LET s == Unwrap(ulast, seq)
      old == Expired(history, time)
      kept == Restrict(history, DOMAIN history \ old)
  IN  /\ ulast' = s
      /\ in_flight' = Without(in_flight, history, old \cap Unacked(history, last_ack))
      /\ history' = Inserted(kept, s,
           [n |-> n, route |-> route, created |-> time, sent |-> FALSE])
      /\ UNCHANGED <<last_ack, route, offset, last_timestamp, told, skews, allSkews>>

(* Mutant: a packet that feedback has already passed is counted. *)
MutProcessSentPacket(seq) ==
  LET s == Unwrap(ulast, seq)
  IN  /\ ulast' = s
      /\ \/ /\ s \in DOMAIN history \ Sent(history)
            /\ history' = [history EXCEPT ![s].sent = TRUE]
            /\ in_flight' = [in_flight EXCEPT ![history[s].route] = @ + Size[history[s].n]]
         \/ /\ s \notin DOMAIN history \ Sent(history)
            /\ UNCHANGED <<history, in_flight>>
      /\ UNCHANGED <<last_ack, route, offset, last_timestamp, told, skews, allSkews>>

ProcessSentPacket(seq) ==
  LET s == Unwrap(ulast, seq)
  IN  /\ ulast' = s
      /\ \/ /\ s \in DOMAIN history \ Sent(history)
            /\ history' = [history EXCEPT ![s].sent = TRUE]
            /\ in_flight' = IF s > last_ack
                 THEN [in_flight EXCEPT ![history[s].route] = @ + Size[history[s].n]]
                 ELSE in_flight
         \/ /\ s \notin DOMAIN history \ Sent(history)
            /\ UNCHANGED <<history, in_flight>>
      /\ UNCHANGED <<last_ack, route, offset, last_timestamp, told, skews, allSkews>>

SetNetworkRoute(r) ==
  /\ route' = r
  /\ UNCHANGED <<history, last_ack, ulast, in_flight, offset, last_timestamp, told,
                 skews, allSkews>>

-----------------------------------------------------------------------------
(* The offset after a message that comes at `time`. *)
(* The offset is set to the clock: at the first message, and when an older *)
(* one would take it below zero.                                           *)
Rebased(f) == offset = None \/ BaseDelta(f, last_timestamp) < -offset

NewOffset(f, time) ==
  IF Rebased(f) THEN time ELSE offset + BaseDelta(f, last_timestamp)

(* Mutant: a packet that was received stays in the history. *)
MutForget(h, s, received) == h

Forget(h, s, received) ==
  IF received THEN Restrict(h, DOMAIN h \ {s}) ELSE h

(* What has been said of a packet; "again" is a report after "received". *)
Said(before, received) ==
  IF before \in {"received", "again"} THEN "again"
  ELSE IF received THEN "received" ELSE "lost"

(* One packet of a message; a is the state of the adapter.  For the        *)
(* histories only: times are the packets' arrival times, and missed tells  *)
(* that a received packet before this one was not added to the offset.     *)
OnePacket(a, packet, base, times, stamped) ==
  LET s == Unwrap(a.ulast, packet.seq)
      passed == {t \in DOMAIN a.history : a.ack < t /\ t <= s}
      found == s \in Sent(a.history)
      here == found /\ a.history[s].route = route
      sum == a.offset + packet.delta
      skew == IF here /\ packet.received /\ stamped
                THEN {base + sum - times[packet.seq]} ELSE {}
  IN  [history |-> IF found THEN Forget(a.history, s, packet.received) ELSE a.history,
       ack |-> IF s > a.ack THEN s ELSE a.ack,
       ulast |-> s,
       flight |-> Without(a.flight, a.history, passed),
       offset |-> IF found /\ packet.received THEN sum ELSE a.offset,
       missed |-> a.missed \/ (packet.received /\ ~found),
       told |-> IF here
                  THEN [a.told EXCEPT ![a.history[s].n] = Said(@, packet.received)]
                  ELSE a.told,
       skews |-> a.skews \cup (IF a.missed THEN {} ELSE skew),
       allSkews |-> a.allSkews \cup skew]

ProcessTransportFeedback(f, time) ==
  LET packets == Parse(f, SeqSpan)
      times == [q \in {f.built[i].seq % SeqSpan : i \in DOMAIN f.built} |->
                  (CHOOSE p \in Range(f.built) : p.seq % SeqSpan = q).time]
      base == NewOffset(f, time)
      after[i \in 0..Len(packets)] ==
        IF i = 0
          THEN [history |-> history, ack |-> last_ack, ulast |-> ulast,
                flight |-> in_flight, offset |-> 0, missed |-> FALSE,
                told |-> told, skews |-> {}, allSkews |-> {}]
          ELSE LET before == after[i - 1]
               IN  OnePacket(before, packets[i], base, times, f.timestamps)
  IN  \E a \in {after[Len(packets)]} :
        /\ offset' = base /\ last_timestamp' = ParsedTime(f)
        /\ history' = a.history /\ last_ack' = a.ack /\ ulast' = a.ulast
        /\ in_flight' = a.flight /\ told' = a.told
        /\ skews' = a.skews \cup (IF Rebased(f) THEN {} ELSE skews)
        /\ allSkews' = a.allSkews \cup (IF Rebased(f) THEN {} ELSE allSkews)
        /\ UNCHANGED route

-----------------------------------------------------------------------------
(* The bytes in flight of every route are those of the packets that were   *)
(* sent on it and that no feedback has passed yet, whatever the order of   *)
(* sent notices, feedback, route changes and expiry: nothing is counted    *)
(* twice, left behind or taken off twice (in_flight_data_, guarded by the  *)
(* RTC_DCHECK_GE of transport_feedback_adapter.cc:48).                     *)
InFlightIsExact ==
  \A x \in Route :
    in_flight[x] = Bytes(history, {s \in Unacked(history, last_ack) : history[s].route = x})

(* A packet is reported to the congestion controller as received at most   *)
(* once, and never as lost after that, although feedback messages overlap, *)
(* are duplicated and come out of order (transport_feedback_adapter.cc:249). *)
ReceivedIsToldOnce == \A n \in 1..MaxPackets : told[n] # "again"

(* The receive times that are told with one time base differ from the      *)
(* arrival times by one constant, over wraps of the reference time and     *)
(* messages out of order, as long as the received packets of the message   *)
(* are found in the history.  The base is chosen with the first message,   *)
(* and anew when an older message would make the offset negative           *)
(* (transport_feedback_adapter.cc:202).                                    *)
TimesAgree == Cardinality(skews) <= 1

(* The same for all packets: "the difference must be the same for all x"   *)
(* (transport_feedback_adapter_unittest.cc:49).                            *)
AllTimesAgree == Cardinality(allSkews) <= 1
=============================================================================

------------------------ MODULE RemoteEstimatorProxy ------------------------
(***************************************************************************)
(* remote_bitrate_estimator/remote_estimator_proxy.cc: the receiver's side *)
(* of transport feedback.  Every method holds lock_ from start to end.     *)
(* The network state estimator and the length of the interval between two  *)
(* calls of Process are left out; Process may be called at any time.       *)
(***************************************************************************)
EXTENDS SequenceNumbers, FeedbackPacket, PacketArrivalTimeMap

CONSTANT BackWindow   \* send_config_.back_window

(* 1 << 15 packets of the map have numbers of 16 bits. *)
ASSUME ProxyAssumption == kMaxNumberOfPackets <= SeqSpan

VARIABLES rmap,       \* packet_arrival_times_
          rlast,      \* unwrapper_
          wstart,     \* periodic_window_start_seq_
          periodic,   \* send_periodic_feedback_
          feedback,   \* the messages given to feedback_sender_
          halted,     \* a null message was given to feedback_sender_
          owed        \* history: packets that arrived while send_periodic_feedback_
                      \* was set and that are in no message yet

proxyVars == <<rmap, rlast, wstart, periodic, feedback, halted, owed>>

ProxyInit ==
  /\ rmap = EmptyMap /\ rlast = None /\ wstart = None /\ periodic = TRUE
  /\ feedback = {} /\ halted = FALSE /\ owed = {}

-----------------------------------------------------------------------------
(* SeqNumUnwrapper, a class of rtc_base: the nearest number, negative too. *)
SeqNumUnwrap(last, value) ==
  IF last = None THEN value
  ELSE IF IsNewer(value, last % SeqSpan) THEN last + ((value - last) % SeqSpan)
  ELSE last - ((last - value) % SeqSpan)

(* The packets of m from `from` up to `to`, in order. *)
Received(m, from, to) ==
  LET start == clamp(m, from)
      count == clamp(m, to) - start
      got[n \in 0..count] ==
        IF n = 0 THEN <<>>
        ELSE LET s == start + n - 1
             IN  IF At(m, s) = 0 THEN got[n - 1]
                 ELSE Append(got[n - 1], [seq |-> s, time |-> At(m, s)])
  IN  got[count]

(* MaybeBuildFeedbackPacket: at most one message, and the number that      *)
(* follows the last packet in it.                                          *)
MaybeBuildFeedbackPacket(m, timestamps, from, to) ==
  LET at == Received(m, from, to)
  IN  IF at = <<>> THEN [messages |-> {}, next |-> from]
      ELSE LET f == Message(from, at, timestamps, SeqSpan)
           IN  [messages |-> {f}, next |-> f.built[Len(f.built)].seq + 1]

(* SendPeriodicFeedbacks: messages until the end of the map is reached or  *)
(* no packet is left.                                                      *)
Periodic(m, start) ==
  LET loop[n \in 0..Len(m.times)] ==
        IF n = 0 THEN [messages |-> {}, next |-> start]
        ELSE LET sent == loop[n - 1]
                 b == MaybeBuildFeedbackPacket(m, TRUE, sent.next, End(m))
             IN  IF sent.next >= End(m) THEN sent
                 ELSE [messages |-> sent.messages \cup b.messages, next |-> b.next]
  IN  loop[Len(m.times)]

(* Packets that no message of fs is about and that m still has. *)
StillOwed(packets, fs, m) ==
  {s \in packets : /\ has_received(m, s)
                   /\ \A f \in fs : \A i \in DOMAIN f.built : f.built[i].seq # s}

SendFeedbackOnRequest(m, s, request) ==
  IF request.count = 0
    THEN /\ rmap' = m
         /\ UNCHANGED <<feedback, halted>>
    ELSE LET first == s - request.count + 1
             b == MaybeBuildFeedbackPacket(m, request.timestamps, first, s + 1)
         IN  /\ rmap' = EraseTo(m, first)
             /\ feedback' = feedback \cup b.messages
             /\ halted' = (b.messages = {})

(* MaybeCullOldPackets *)
Culled(s, time) ==
  IF periodic /\ wstart # None /\ wstart >= End(rmap)
    THEN RemoveOldPackets(rmap, s, time - BackWindow)
    ELSE rmap

(* Mutant: a late packet does not move the start of the window back. *)
MutMovedBack(s) == IF periodic /\ wstart = None THEN s ELSE wstart

MovedBack(s) == IF periodic /\ (wstart = None \/ s < wstart) THEN s ELSE wstart

IncomingPacket(seq, time, request) ==
  /\ ~halted
  /\ \E s \in {SeqNumUnwrap(rlast, seq)} : \E m \in {Culled(s, time)} :
       /\ rlast' = s
       /\ \/ /\ has_received(m, s)
             /\ rmap' = m /\ wstart' = MovedBack(s)
             /\ UNCHANGED <<feedback, halted>>
             /\ owed' = StillOwed(owed, {}, m)
          \/ /\ ~has_received(m, s)
             /\ \E added \in {AddPacket(m, s, time)} :
                  /\ wstart' = IF MovedBack(s) = None \/ MovedBack(s) < added.begin
                                 THEN added.begin ELSE MovedBack(s)
                  /\ SendFeedbackOnRequest(added, s, request)
             /\ owed' = StillOwed(owed \cup (IF periodic THEN {s} ELSE {}),
                                  feedback' \ feedback, rmap')
  /\ UNCHANGED periodic

Process ==
  /\ ~halted /\ periodic /\ wstart # None
  /\ \E p \in {Periodic(rmap, wstart)} :
       /\ wstart' = p.next
       /\ feedback' = feedback \cup p.messages
       /\ owed' = StillOwed(owed, p.messages, rmap)
  /\ UNCHANGED <<rmap, rlast, periodic, halted>>

SetSendPeriodicFeedback(b) ==
  /\ periodic' = b
  /\ UNCHANGED <<rmap, rlast, wstart, feedback, halted, owed>>

-----------------------------------------------------------------------------
(* A packet that arrived while periodic feedback was on and is in no       *)
(* message yet is still in front of the window: no order of arrivals,      *)
(* duplicates, requests and switches of the mode makes SendPeriodicFeedbacks *)
(* pass over it as long as the map has it (remote_estimator_proxy.cc:83).  *)
OwedIsInWindow == \A s \in owed : wstart # None /\ wstart <= s
=============================================================================

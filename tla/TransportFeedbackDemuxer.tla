---------------------- MODULE TransportFeedbackDemuxer ----------------------
(***************************************************************************)
(* congestion_controller/rtp/transport_feedback_demuxer.cc: tells the      *)
(* streams which of their packets a feedback message is about.  One        *)
(* observer for the packets of all streams stands for observers_.          *)
(***************************************************************************)
EXTENDS SequenceNumbers, FeedbackPacket, FiniteSetsExt

CONSTANTS kMaxPacketsInHistory,
          StreamPackets        \* the packets there are, 1..StreamPackets

ASSUME DemuxerAssumption ==
  kMaxPacketsInHistory \in 1..Half - 1 /\ StreamPackets \in Nat

VARIABLES dhistory,   \* history_: unwrapped number -> packet
          dlast,      \* seq_num_unwrapper_
          heard       \* history: the reports each packet's stream was given

demuxerVars == <<dhistory, dlast, heard>>

DemuxerInit ==
  dhistory = <<>> /\ dlast = None /\ heard = [n \in 1..StreamPackets |-> {}]

DemuxerAddPacket(n, seq) ==
  LET s == Unwrap(dlast, seq)
      h == Inserted(dhistory, s, n)
  IN  /\ dlast' = s
      /\ dhistory' = IF Cardinality(DOMAIN h) > kMaxPacketsInHistory
                       THEN Restrict(h, DOMAIN h \ {Min(DOMAIN h)}) ELSE h
      /\ UNCHANGED heard

(* Mutant: a packet that is reported lost is forgotten too. *)
MutReported(packets, known) == known

(* The packets of a message that leave the history. *)
Reported(packets, known) == {i \in known : packets[i].received}

(* OnTransportFeedback; the unwrapper is not updated. *)
OnTransportFeedback(f) ==
  LET packets == Parse(f, SeqSpan)
      Number(i) == Unwrap(dlast, packets[i].seq)
      known == {i \in DOMAIN packets : Number(i) \in DOMAIN dhistory}
      About(n) == {i \in known : dhistory[Number(i)] = n}
  IN  /\ dhistory' = Restrict(dhistory,
                       DOMAIN dhistory \ {Number(i) : i \in Reported(packets, known)})
      /\ heard' = [n \in 1..StreamPackets |->
                     heard[n] \cup {packets[i].received : i \in About(n)}]
      /\ UNCHANGED dlast
=============================================================================

-------------------------- MODULE TransportFeedback --------------------------
(***************************************************************************)
(* Transport feedback from end to end: a sender with the demuxer and the   *)
(* adapter, a receiver with the proxy, and a network that loses,           *)
(* duplicates, delays and reorders both the packets and the feedback.  The *)
(* transport controller that calls the two sender parts is not in this     *)
(* repository; a packet is added to both before it goes out, the notice    *)
(* that it was sent comes later, in any order, if bound.late even after    *)
(* the packet has arrived, and a feedback message is given to the demuxer  *)
(* and then to the adapter.                                                *)
(***************************************************************************)
EXTENDS RemoteEstimatorProxy, TransportFeedbackAdapter, TransportFeedbackDemuxer

CONSTANTS StartSeq,      \* start_transport_seq of PacketRouter
          StartTime,     \* the clock of the receiver at the start
          SenderStart,   \* the clock of the sender at the start
          Request,       \* the feedback request in the header of each packet, when
                         \* the sender uses them (bound.requests)
          Bounds         \* bounds on a behaviour, one of which holds for all of it

ASSUME FeedbackAssumption ==
  /\ StartSeq \in Nat /\ StartTime \in Nat \ {0} /\ SenderStart \in Nat
  /\ StreamPackets = MaxPackets
  /\ Request \in [1..MaxPackets -> [count : Nat, timestamps : BOOLEAN]]
  /\ Bounds \subseteq [packets : 0..MaxPackets, ticks : Nat, arrivals : Nat,
                       reports : Nat, switches : Nat, requests : BOOLEAN,
                       late : BOOLEAN]

VARIABLES now,        \* the clock of the receiver, in ms
          created,    \* packets sent so far
          unnoticed,  \* packets whose sent notice has not come yet
          arrivals,   \* packets delivered to the receiver so far
          reports,    \* messages delivered to the sender so far
          switches,   \* changes of the route and of the feedback mode so far
          bound       \* the bounds of this behaviour

netVars == <<now, created, unnoticed, arrivals, reports, switches, bound>>
vars == <<proxyVars, adapterVars, demuxerVars, netVars>>

(* The header of a packet that asks for no feedback. *)
NoRequest == [count |-> 0, timestamps |-> FALSE]

(* The transport sequence number of packet n. *)
Wire(n) == (StartSeq + n) % SeqSpan

(* The clock of the sender, which has another origin and the same pace. *)
SenderTime == SenderStart + (now - StartTime)

Init ==
  /\ ProxyInit /\ DemuxerInit
  /\ AdapterInit(CHOOSE r \in Route : TRUE)
  /\ now = StartTime /\ created = 0 /\ unnoticed = {}
  /\ arrivals = 0 /\ reports = 0 /\ switches = 0
  /\ bound \in Bounds

SendPacket ==
  /\ created < bound.packets
  /\ created' = created + 1 /\ unnoticed' = unnoticed \cup {created'}
  /\ DemuxerAddPacket(created', Wire(created'))
  /\ AdapterAddPacket(created', Wire(created'), SenderTime)
  /\ UNCHANGED <<proxyVars, now, arrivals, reports, switches, bound>>

OnSentPacket(n) ==
  /\ n \in unnoticed
  /\ unnoticed' = unnoticed \ {n}
  /\ ProcessSentPacket(Wire(n))
  /\ UNCHANGED <<proxyVars, demuxerVars, now, created, arrivals, reports, switches,
                 bound>>

Deliver(n) ==
  /\ n <= created /\ arrivals < bound.arrivals
  /\ n \in unnoticed => bound.late
  /\ arrivals' = arrivals + 1
  /\ IncomingPacket(Wire(n), now, IF bound.requests THEN Request[n] ELSE NoRequest)
  /\ UNCHANGED <<adapterVars, demuxerVars, now, created, unnoticed, reports,
                 switches, bound>>

SendFeedback ==
  /\ Process
  /\ UNCHANGED <<adapterVars, demuxerVars, netVars>>

DeliverFeedback(f) ==
  /\ reports < bound.reports
  /\ reports' = reports + 1
  /\ OnTransportFeedback(f)
  /\ ProcessTransportFeedback(f, SenderTime)
  /\ UNCHANGED <<proxyVars, now, created, unnoticed, arrivals, switches, bound>>

ChangeRoute ==
  /\ switches < bound.switches
  /\ switches' = switches + 1
  /\ \E r \in Route \ {route} : SetNetworkRoute(r)
  /\ UNCHANGED <<proxyVars, demuxerVars, now, created, unnoticed, arrivals, reports,
                 bound>>

ChangeMode ==
  /\ switches < bound.switches
  /\ switches' = switches + 1
  /\ SetSendPeriodicFeedback(~periodic)
  /\ UNCHANGED <<adapterVars, demuxerVars, now, created, unnoticed, arrivals,
                 reports, bound>>

Tick ==
  /\ now < StartTime + bound.ticks
  /\ now' = now + 1
  /\ UNCHANGED <<proxyVars, adapterVars, demuxerVars, created, unnoticed, arrivals,
                 reports, switches, bound>>

Next ==
  \/ SendPacket \/ SendFeedback \/ ChangeRoute \/ ChangeMode \/ Tick
  \/ \E n \in 1..MaxPackets : OnSentPacket(n) \/ Deliver(n)
  \/ \E f \in feedback : DeliverFeedback(f)

Spec == Init /\ [][Next]_vars

-----------------------------------------------------------------------------
(* The unwrapped numbers of the packets sent so far. *)
Sequence == {StartSeq + n : n \in 1..created}

(* The map stays within its limit, and the unwrapped numbers of both ends  *)
(* are those of packets that were sent, up to the wrap the receiver missed. *)
TypeOK ==
  /\ rmap \in [seen : BOOLEAN, begin : Int, times : Seq(0..now)]
  /\ Len(rmap.times) <= kMaxNumberOfPackets
  /\ {dlast, ulast, last_ack} \subseteq {None, -1} \cup Sequence
  /\ rlast = None \/ \E s \in Sequence : rlast \in {s, s - SeqSpan}
  /\ DOMAIN history \subseteq Sequence /\ DOMAIN dhistory \subseteq Sequence
  /\ Cardinality(DOMAIN dhistory) <= kMaxPacketsInHistory
  /\ in_flight \in [Route -> Nat] /\ route \in Route
  /\ periodic \in BOOLEAN /\ halted \in BOOLEAN

(* What Parse reads from a message are the packets it was built from, each *)
(* in its place and with its delta, and the gaps between them: no choice   *)
(* of chunks, padding of the last one or wrap of the numbers loses or      *)
(* moves a packet (transport_feedback.cc:120, 149, 433).                   *)
ParsedIsBuilt ==
  \A f \in feedback :
    LET packets == Parse(f, SeqSpan)
        Number(i) == f.built[Len(f.built)].seq - f.count + i
    IN  /\ Len(packets) = f.count
        /\ \A i \in 1..f.count :
             /\ packets[i].seq = Number(i) % SeqSpan
             /\ packets[i].received => \E j \in DOMAIN f.built : f.built[j].seq = Number(i)
        /\ \A j \in DOMAIN f.built :
             \E i \in 1..f.count :
               /\ f.built[j].seq = Number(i)
               /\ packets[i].received /\ packets[i].delta = f.deltas[j]

(* Every session is shorter than half of the time after which the          *)
(* reference time of a message wraps.                                      *)
ShortSessions == \A b \in Bounds : 2 * (b.ticks + BaseScale - 1) < WrapPeriod

(* A packet that the controller was told is received is told to its stream *)
(* as received too, unless kMaxPacketsInHistory later ones pushed it out;  *)
(* a message that reports it lost first does not take that away            *)
(* (transport_feedback_demuxer.cc:76, transport_feedback_adapter.cc:249).  *)
AcksReachTheStreams ==
  \A n \in 1..MaxPackets :
    told[n] = "received" => TRUE \in heard[n] \/ n <= created - kMaxPacketsInHistory
=============================================================================

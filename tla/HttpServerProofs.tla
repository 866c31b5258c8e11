-------------------------- MODULE HttpServerProofs --------------------------
(***************************************************************************)
(* Proofs about HttpServer for any set of connections, any part of them    *)
(* that reads, and any number of chunks.                                   *)
(***************************************************************************)
EXTENDS HttpServer, TLAPS

(* An accept is pending only while the acceptor is open, and it holds a    *)
(* socket exactly when it has succeeded; that socket is open and idle.     *)
AcceptInv ==
    /\ accept = "pending" => acceptor
    /\ accepted # None <=> accept = "ok"
    /\ \A c \in Conn : accepted = c => socket[c] = "open" /\ op[c] = "none"

(* A connection nobody has opened has no socket and no operation. *)
AbsentInv ==
    \A c \in Conn : peer[c] = "absent" => socket[c] = "none" /\ op[c] = "none"

(* Only closing a socket aborts its operation. *)
AbortInv == \A c \in Conn : done[c] = "aborted" => socket[c] = "closed"

(* The inductive invariant. *)
IInv ==
    /\ TypeOK
    /\ AlwaysAccepting /\ ManagedIsOpen /\ StoppedStaysStopped
    /\ AcceptInv /\ AbsentInv /\ AbortInv

-----------------------------------------------------------------------------
LEMMA InitInv == Init => IInv
<1> HAVE Init
<1>1. TypeOK
  BY DEF Init, TypeOK, AcceptState, Op, Completion
<1>2. AlwaysAccepting /\ ManagedIsOpen /\ StoppedStaysStopped
  BY DEF Init, AlwaysAccepting, ManagedIsOpen, StoppedStaysStopped
<1>3. AcceptInv /\ AbsentInv /\ AbortInv
  BY HttpAssumption DEF Init, AcceptInv, AbsentInv, AbortInv
<1> QED
  BY <1>1, <1>2, <1>3 DEF IInv

(* What a step of one connection's handlers must keep to keep IInv. *)
LEMMA ConnectionStep ==
    ASSUME IInv, NEW c \in Conn, op[c] # "none",
           NEW o \in Op, NEW d \in Completion \ {"aborted"},
           op' = [op EXCEPT ![c] = o], done' = [done EXCEPT ![c] = d],
           UNCHANGED <<acceptor, accept, accepted, signal, net>>,
           \/ o # "none" /\ UNCHANGED <<connections, socket>>
           \/ socket[c] = "closed" /\ UNCHANGED <<connections, socket>>
           \/ connections' = connections \ {c} /\ socket' = [socket EXCEPT ![c] = "closed"]
    PROVE  IInv'
<1> USE DEF IInv
<1>1. TypeOK'
  BY DEF TypeOK, net
<1>2. AlwaysAccepting'
  BY DEF AlwaysAccepting
<1>3. c # accepted /\ peer[c] # "absent"
  BY DEF AcceptInv, AbsentInv
<1>4. /\ \A e \in Conn \ {c} : /\ socket'[e] = socket[e] /\ op'[e] = op[e]
                               /\ done'[e] = done[e]
                               /\ e \in connections' <=> e \in connections
      /\ op'[c] = o /\ done'[c] = d
      /\ \/ o # "none" /\ UNCHANGED <<connections, socket>>
         \/ socket[c] = "closed" /\ socket'[c] = "closed" /\ UNCHANGED connections
         \/ c \notin connections' /\ socket'[c] = "closed"
  BY DEF TypeOK
<1>5. ManagedIsOpen'
  BY <1>3, <1>4 DEF ManagedIsOpen
<1>6. StoppedStaysStopped'
  BY <1>3, <1>4 DEF StoppedStaysStopped, TypeOK
<1>7. AcceptInv'
  BY <1>3, <1>4 DEF AcceptInv
<1>8. AbsentInv'
  BY <1>3, <1>4 DEF AbsentInv, net
<1>9. AbortInv'
  BY <1>4 DEF AbortInv
<1> QED
  BY <1>1, <1>2, <1>5, <1>6, <1>7, <1>8, <1>9

LEMMA OnReadOkInv ==
    ASSUME IInv, NEW c \in Conn, OnReadOk(c)
    PROVE  IInv'
<1>1. PICK o \in {"read", "write"} : Start(c, o)
  BY DEF OnReadOk
<1> DEFINE d == IF socket[c] = "open" THEN "none" ELSE "error"
<1>2. d \in Completion \ {"aborted"} /\ done' = [done EXCEPT ![c] = d]
  BY <1>1 DEF Start, Completion
<1> HIDE DEF d
<1>3. /\ op[c] # "none" /\ op' = [op EXCEPT ![c] = o] /\ o \in Op /\ o # "none"
      /\ UNCHANGED <<acceptor, accept, accepted, signal, net, connections, socket>>
  BY <1>1 DEF OnReadOk, Start, core, Op
<1> QED
  BY <1>2, <1>3, ConnectionStep

(* stop, or the silent end of a handler whose operation was aborted. *)
LEMMA HandlerEndsInv ==
    ASSUME IInv, NEW c \in Conn, op[c] # "none",
           UNCHANGED <<acceptor, accept, accepted, signal, net>>,
           \/ stop(c)
           \/ /\ done[c] = "aborted" /\ Ended(c) /\ done' = [done EXCEPT ![c] = "none"]
              /\ UNCHANGED <<connections, socket>>
    PROVE  IInv'
<1>1. "none" \in Op /\ "none" \in Completion \ {"aborted"}
  BY DEF Op, Completion
<1>2. op' = [op EXCEPT ![c] = "none"] /\ done' = [done EXCEPT ![c] = "none"]
  BY DEF stop, Ended
<1>3. \/ socket[c] = "closed" /\ UNCHANGED <<connections, socket>>
      \/ connections' = connections \ {c} /\ socket' = [socket EXCEPT ![c] = "closed"]
  BY DEF stop, erase, IInv, AbortInv
<1> QED
  BY <1>1, <1>2, <1>3, ConnectionStep

LEMMA OnErrorInv ==
    ASSUME IInv, NEW c \in Conn, OnReadError(c) \/ OnWrite(c)
    PROVE  IInv'
<1>1. /\ op[c] # "none"
      /\ UNCHANGED <<acceptor, accept, accepted, signal, net>>
  BY DEF OnReadError, OnWrite
<1>2. \/ stop(c)
      \/ /\ done[c] = "aborted" /\ Ended(c) /\ done' = [done EXCEPT ![c] = "none"]
         /\ UNCHANGED <<connections, socket>>
  BY DEF OnReadError, OnWrite, IsAbort, StopAfterWrite
<1> QED
  BY <1>1, <1>2, HandlerEndsInv

LEMMA OnAcceptInv ==
    ASSUME IInv, OnAccept
    PROVE  IInv'
<1> USE DEF IInv
<1>1. CASE Stopped
  <2>1. /\ ~acceptor /\ accepted' = None /\ accept' = "none"
        /\ socket' = [c \in Conn |-> IF c = accepted THEN "closed" ELSE socket[c]]
        /\ UNCHANGED <<acceptor, signal, connections, op, done, net>>
    BY <1>1 DEF OnAccept, Stopped
  <2>2. TypeOK'
    BY <2>1 DEF TypeOK, AcceptState, net
  <2>3. AlwaysAccepting' /\ AcceptInv'
    BY <2>1, HttpAssumption DEF AlwaysAccepting, AcceptInv
  <2>4. ManagedIsOpen' /\ StoppedStaysStopped'
    BY <2>1, HttpAssumption DEF ManagedIsOpen, StoppedStaysStopped
  <2>5. AbsentInv' /\ AbortInv'
    BY <2>1 DEF AbsentInv, AbortInv, AcceptInv, net
  <2> QED
    BY <2>2, <2>3, <2>4, <2>5
<1>2. CASE ~Stopped /\ accept = "ok"
  <2>1. accepted \in Conn /\ socket[accepted] = "open" /\ op[accepted] = "none"
    BY <1>2 DEF AcceptInv, TypeOK
  <2>2. /\ acceptor /\ accepted' = None /\ accept' = "pending"
        /\ connections' = connections \union {accepted}
        /\ op' = [op EXCEPT ![accepted] = "read"]
        /\ done' = [done EXCEPT ![accepted] = "none"]
        /\ UNCHANGED <<acceptor, signal, socket, net>>
    BY <1>2, <2>1 DEF OnAccept, Stopped, Start, do_accept
  <2>3. TypeOK'
    BY <2>1, <2>2 DEF TypeOK, AcceptState, Op, Completion, net
  <2>4. AlwaysAccepting' /\ AcceptInv' /\ StoppedStaysStopped'
    BY <2>2, HttpAssumption DEF AlwaysAccepting, AcceptInv, StoppedStaysStopped
  <2>5. ManagedIsOpen'
    BY <2>1, <2>2, HttpAssumption DEF ManagedIsOpen, TypeOK
  <2>6. AbsentInv' /\ AbortInv'
    BY <2>1, <2>2 DEF AbsentInv, AbortInv, TypeOK, net
  <2> QED
    BY <2>3, <2>4, <2>5, <2>6
<1>3. CASE ~Stopped /\ accept # "ok"
  <2>1. /\ accepted = None /\ accepted' = None /\ accept' = "pending" /\ acceptor
        /\ UNCHANGED <<acceptor, signal, connections, socket, op, done, net>>
    BY <1>3 DEF OnAccept, OnAcceptError, do_accept, Stopped, AcceptInv
  <2>2. TypeOK'
    BY <2>1 DEF TypeOK, AcceptState, net
  <2> QED
    BY <2>1, <2>2, HttpAssumption DEF AlwaysAccepting, ManagedIsOpen,
       StoppedStaysStopped, AcceptInv, AbsentInv, AbortInv, net
<1> QED
  BY <1>1, <1>2, <1>3

LEMMA OnSignalInv ==
    ASSUME IInv, OnSignal
    PROVE  IInv'
<1> USE DEF IInv
<1>1. /\ signal' = "handled" /\ acceptor' = FALSE /\ connections' = {}
      /\ accept' = IF accept = "pending" THEN "aborted" ELSE accept
      /\ socket' = [c \in Conn |-> IF c \in connections THEN "closed" ELSE socket[c]]
      /\ done' = [c \in Conn |-> IF c \in connections /\ op[c] # "none" /\ done[c] = "none"
                                 THEN "aborted" ELSE done[c]]
      /\ UNCHANGED <<accepted, op, net>>
  BY DEF OnSignal, stop_all, Close
<1>2. TypeOK'
  BY <1>1 DEF TypeOK, AcceptState, Completion, net
<1>3. AlwaysAccepting'
  BY <1>1 DEF AlwaysAccepting
<1>4. ManagedIsOpen' /\ StoppedStaysStopped'
  BY <1>1 DEF ManagedIsOpen, StoppedStaysStopped
<1>5. AcceptInv'
  BY <1>1, HttpAssumption DEF AcceptInv, ManagedIsOpen
<1>6. AbsentInv' /\ AbortInv'
  BY <1>1 DEF AbsentInv, AbortInv, ManagedIsOpen, net
<1> QED
  BY <1>2, <1>3, <1>4, <1>5, <1>6

LEMMA ConnectInv ==
    ASSUME IInv, NEW c \in Conn, Connect(c)
    PROVE  IInv'
<1> USE DEF IInv
<1>1. /\ accepted = None /\ acceptor /\ socket[c] = "none" /\ op[c] = "none"
  BY DEF Connect, AcceptInv, AbsentInv
<1>2. /\ accept' = "ok" /\ accepted' = c /\ socket' = [socket EXCEPT ![c] = "open"]
      /\ peer' = [peer EXCEPT ![c] = "up"]
      /\ UNCHANGED <<acceptor, signal, connections, op, done, inbox, sentChunks>>
  BY DEF Connect
<1>3. TypeOK'
  BY <1>2 DEF TypeOK, AcceptState
<1>4. AlwaysAccepting' /\ StoppedStaysStopped'
  BY <1>1, <1>2 DEF AlwaysAccepting, StoppedStaysStopped
<1>5. ManagedIsOpen'
  BY <1>1, <1>2, HttpAssumption DEF ManagedIsOpen, TypeOK
<1>6. AcceptInv'
  BY <1>1, <1>2, HttpAssumption DEF AcceptInv, TypeOK
<1>7. AbsentInv' /\ AbortInv'
  BY <1>1, <1>2 DEF AbsentInv, AbortInv, TypeOK
<1> QED
  BY <1>3, <1>4, <1>5, <1>6, <1>7

(* Steps of the network that change no socket. *)
LEMMA NetworkInv ==
    ASSUME IInv,
           \/ AcceptFails \/ RaiseSignal
           \/ \E c \in Conn : PeerSends(c) \/ PeerLeaves(c, "closed") \/ PeerLeaves(c, "reset")
    PROVE  IInv'
<1> USE DEF IInv
<1>1. TypeOK'
  BY DEF TypeOK, AcceptFails, RaiseSignal, PeerSends, PeerLeaves, AcceptState, core, net
<1>2. AlwaysAccepting' /\ ManagedIsOpen' /\ StoppedStaysStopped'
  BY DEF AlwaysAccepting, ManagedIsOpen, StoppedStaysStopped, AcceptFails,
     RaiseSignal, PeerSends, PeerLeaves, core, net
<1>3. AcceptInv' /\ AbortInv'
  BY DEF AcceptInv, AbortInv, AcceptFails, RaiseSignal, PeerSends, PeerLeaves, core
<1>4. AbsentInv'
  BY DEF AbsentInv, TypeOK, AcceptFails, RaiseSignal, PeerSends, PeerLeaves, core, net
<1> QED
  BY <1>1, <1>2, <1>3, <1>4

LEMMA CompletesInv ==
    ASSUME IInv, NEW c \in Conn, ReadCompletes(c) \/ WriteCompletes(c)
    PROVE  IInv'
<1> USE DEF IInv
<1>1. PICK d \in {"ok", "error"} : done' = [done EXCEPT ![c] = d]
  BY DEF ReadCompletes, WriteCompletes
<1>2. /\ inbox' \in [Conn -> Nat]
      /\ UNCHANGED <<acceptor, accept, accepted, signal, connections, socket, op,
                     peer, sentChunks>>
  BY DEF TypeOK, ReadCompletes, WriteCompletes, core, net
<1>3. TypeOK'
  BY <1>1, <1>2 DEF TypeOK, Completion
<1>4. AbortInv'
  BY <1>1, <1>2 DEF AbortInv, TypeOK
<1> QED
  BY <1>2, <1>3, <1>4 DEF AlwaysAccepting, ManagedIsOpen, StoppedStaysStopped,
     AcceptInv, AbsentInv

-----------------------------------------------------------------------------
LEMMA NextInv ==
    ASSUME IInv, [Next]_vars
    PROVE  IInv'
<1>1. CASE Handlers
  BY <1>1, OnAcceptInv, OnSignalInv, OnReadOkInv, OnErrorInv DEF Handlers
<1>2. CASE Network
  BY <1>2, NetworkInv, ConnectInv, CompletesInv DEF Network
<1>3. CASE UNCHANGED vars
  BY <1>3 DEF vars, core, net, IInv, TypeOK, AlwaysAccepting, ManagedIsOpen,
     StoppedStaysStopped, AcceptInv, AbsentInv, AbortInv
<1> QED
  BY <1>1, <1>2, <1>3 DEF Next

(* IInv holds in every state of the server. *)
THEOREM Invariance == Spec => []IInv
<1> QED
  BY InitInv, NextInv, PTL DEF Spec

(* The state is well typed for any set of connections: a failed accept     *)
(* leaves no connection behind (server::do_accept).                        *)
THEOREM TypeCorrect == Spec => []TypeOK
<1>1. IInv => TypeOK
  BY DEF IInv
<1> QED
  BY <1>1, Invariance, PTL

(* While the server runs an accept is outstanding (server::do_accept).     *)
THEOREM AcceptsAlways == Spec => []AlwaysAccepting
<1>1. IInv => AlwaysAccepting
  BY DEF IInv
<1> QED
  BY <1>1, Invariance, PTL

(* connection_manager knows exactly the open connections, so that stop_all *)
(* reaches every one of them.                                              *)
THEOREM ManagerIsExact == Spec => []ManagedIsOpen
<1>1. IInv => ManagedIsOpen
  BY DEF IInv
<1> QED
  BY <1>1, Invariance, PTL

(* After the handler of do_await_stop no connection is open or started,    *)
(* whatever had completed before the signal.                               *)
THEOREM StopIsFinal == Spec => []StoppedStaysStopped
<1>1. IInv => StoppedStaysStopped
  BY DEF IInv
<1> QED
  BY <1>1, Invariance, PTL
=============================================================================

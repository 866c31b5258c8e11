----------------------------- MODULE HttpServer -----------------------------
(***************************************************************************)
(* signal_server/server.cpp, connection_manager.cpp and connection.cpp:    *)
(* an HTTP server on one io_context thread.  Completion handlers run one   *)
(* at a time; a handler whose operation has completed waits in the queue   *)
(* of the io_context while other handlers run, the one that stops the      *)
(* server included.  What closing a socket does to the operations started  *)
(* on it, before or after, is Boost.Asio's contract and marked external.   *)
(*                                                                         *)
(* A connection serves one request; what its parser says of a chunk is     *)
(* arbitrary here (see RequestParser).                                     *)
(***************************************************************************)
EXTENDS Integers, FiniteSets

CONSTANTS Conn,        \* connections peers may open
          Readers,     \* those whose peers read what is sent to them
          MaxChunks,   \* bound: chunks a peer sends
          None         \* no connection

ASSUME HttpAssumption ==
    /\ Readers \subseteq Conn
    /\ MaxChunks \in Nat
    /\ None \notin Conn

VARIABLES
    acceptor,    \* acceptor_.is_open()
    accept,      \* the outstanding async_accept: see AcceptState
    accepted,    \* the connection whose socket the completed accept holds
    signal,      \* "awaited", "raised" (the handler is queued), "handled"
    connections, \* connection_manager::connections_
    socket,      \* per connection: "none", "open", "closed"
    op,          \* per connection, its asynchronous operation
    done,        \* per connection, the result its queued handler will get
    peer,        \* per connection, the far end: "absent", "up", "closed", "reset"
    inbox,       \* per connection, chunks sent and not yet read
    sentChunks   \* per connection, how many chunks its peer has sent

net  == <<peer, inbox, sentChunks>>
core == <<acceptor, accept, accepted, signal, connections>>
vars == <<core, socket, op, done, net>>

AcceptState == {"none", "pending", "ok", "error", "aborted"}
Op == {"none", "read", "write"}
Completion == {"none", "ok", "error", "aborted"}

(* The constructor waits for a signal and for the first connection. *)
Init ==
    /\ acceptor = TRUE
    /\ accept = "pending"
    /\ accepted = None
    /\ signal = "awaited"
    /\ connections = {}
    /\ socket = [c \in Conn |-> "none"]
    /\ op = [c \in Conn |-> "none"]
    /\ done = [c \in Conn |-> "none"]
    /\ peer = [c \in Conn |-> "absent"]
    /\ inbox = [c \in Conn |-> 0]
    /\ sentChunks = [c \in Conn |-> 0]

-----------------------------------------------------------------------------
(* Boost.Asio *)

(* An operation is started; on a closed socket it fails at once (with      *)
(* bad_descriptor, which is not operation_aborted).                        *)
Start(c, o) ==
    /\ op' = [op EXCEPT ![c] = o]
    /\ done' = [done EXCEPT ![c] = IF socket[c] = "open" THEN "none" ELSE "error"]

(* Sockets in C are closed: what is still pending on them is aborted,      *)
(* what has completed keeps its result.                                    *)
Close(C) ==
    /\ socket' = [c \in Conn |-> IF c \in C THEN "closed" ELSE socket[c]]
    /\ done' = [c \in Conn |->
                  IF c \in C /\ op[c] # "none" /\ done[c] = "none"
                  THEN "aborted" ELSE done[c]]

(* The handler of c's operation is over and has started no other one. *)
Ended(c) == op' = [op EXCEPT ![c] = "none"]

-----------------------------------------------------------------------------
(* connection_manager *)

(* Mutant: the connection stays in the set. *)
MutErase(c) == UNCHANGED connections

erase(c) == connections' = connections \ {c}

(* stop(c), called from the handler of c's only operation. *)
stop(c) ==
    /\ erase(c)
    /\ Ended(c)
    /\ socket' = [socket EXCEPT ![c] = "closed"]
    /\ done' = [done EXCEPT ![c] = "none"]

(* Mutant: the sockets are left to the destructors. *)
MutStopAll == connections' = {} /\ UNCHANGED <<op, socket, done>>

stop_all ==
    /\ connections' = {}
    /\ UNCHANGED op
    /\ Close(connections)

-----------------------------------------------------------------------------
(* server *)

(* Mutant: a failed accept ends the loop. *)
MutDoAccept == accept' = IF accept = "ok" THEN "pending" ELSE "none"

do_accept == accept' = "pending"

(* Mutant: the handler does not look at the acceptor. *)
MutStopped == FALSE

Stopped == ~acceptor

OnAcceptError == UNCHANGED <<connections, socket, op, done>> /\ do_accept

(* The accept handler; when the server has been stopped in the meantime    *)
(* the accepted socket is destroyed.                                       *)
OnAccept ==
    /\ accept \in {"ok", "error", "aborted"}
    /\ accepted' = None
    /\ \/ /\ Stopped
          /\ accept' = "none"
          /\ socket' = [c \in Conn |-> IF c = accepted THEN "closed" ELSE socket[c]]
          /\ UNCHANGED <<connections, op, done>>
       \/ /\ ~Stopped /\ accept = "ok"
          /\ connections' = connections \union {accepted}
          /\ UNCHANGED socket
          /\ Start(accepted, "read")
          /\ do_accept
       \/ /\ ~Stopped /\ accept # "ok"
          /\ OnAcceptError
    /\ UNCHANGED <<acceptor, signal, net>>

(* The handler of do_await_stop. *)
OnSignal ==
    /\ signal = "raised"
    /\ signal' = "handled"
    /\ acceptor' = FALSE
    /\ accept' = IF accept = "pending" THEN "aborted" ELSE accept
    /\ stop_all
    /\ UNCHANGED <<accepted, net>>

-----------------------------------------------------------------------------
(* connection *)

(* A chunk was read: the request is complete or refused, and a reply is    *)
(* written, or more is read.                                               *)
OnReadOk(c) ==
    /\ op[c] = "read" /\ done[c] = "ok"
    /\ \E result \in {"good", "bad", "indeterminate"} :
           Start(c, IF result = "indeterminate" THEN "read" ELSE "write")
    /\ UNCHANGED <<core, socket, net>>

(* Mutant: every error ends the handler silently. *)
MutIsAbort(e) == e \in {"aborted", "error"}

IsAbort(e) == e = "aborted"

OnReadError(c) ==
    /\ op[c] = "read" /\ done[c] \in {"error", "aborted"}
    /\ \/ /\ ~IsAbort(done[c])
          /\ stop(c)
       \/ /\ IsAbort(done[c])
          /\ Ended(c)
          /\ done' = [done EXCEPT ![c] = "none"]
          /\ UNCHANGED <<connections, socket>>
    /\ UNCHANGED <<acceptor, accept, accepted, signal, net>>

(* Mutant: after a reply that was sent only the shutdown is left. *)
MutStopAfterWrite(e) == e = "error"

StopAfterWrite(e) == ~IsAbort(e)

(* The reply has been sent (and the connection shut down), or not; unless  *)
(* the server is stopping, the connection is stopped.                      *)
OnWrite(c) ==
    /\ op[c] = "write" /\ done[c] # "none"
    /\ \/ /\ StopAfterWrite(done[c])
          /\ stop(c)
       \/ /\ ~StopAfterWrite(done[c])
          /\ Ended(c)
          /\ done' = [done EXCEPT ![c] = "none"]
          /\ UNCHANGED <<connections, socket>>
    /\ UNCHANGED <<acceptor, accept, accepted, signal, net>>

-----------------------------------------------------------------------------
(* The network and the operating system *)

(* A peer connects and the pending accept completes. *)
Connect(c) ==
    /\ peer[c] = "absent" /\ accept = "pending"
    /\ peer' = [peer EXCEPT ![c] = "up"]
    /\ accept' = "ok" /\ accepted' = c
    /\ socket' = [socket EXCEPT ![c] = "open"]
    /\ UNCHANGED <<acceptor, signal, connections, op, done, inbox, sentChunks>>

(* The accept fails: no descriptor is left, the peer is gone already. *)
AcceptFails ==
    /\ accept = "pending"
    /\ accept' = "error"
    /\ UNCHANGED <<acceptor, accepted, signal, connections, socket, op, done, net>>

RaiseSignal ==
    /\ signal = "awaited"
    /\ signal' = "raised"
    /\ UNCHANGED <<acceptor, accept, accepted, connections, socket, op, done, net>>

PeerSends(c) ==
    /\ peer[c] = "up" /\ sentChunks[c] < MaxChunks
    /\ inbox' = [inbox EXCEPT ![c] = @ + 1]
    /\ sentChunks' = [sentChunks EXCEPT ![c] = @ + 1]
    /\ UNCHANGED <<core, socket, op, done, peer>>

PeerLeaves(c, how) ==
    /\ peer[c] = "up"
    /\ peer' = [peer EXCEPT ![c] = how]
    /\ UNCHANGED <<core, socket, op, done, inbox, sentChunks>>

(* A pending read or write completes. *)
ReadCompletes(c) ==
    /\ op[c] = "read" /\ done[c] = "none"
    /\ \/ /\ inbox[c] > 0 /\ peer[c] # "reset"
          /\ inbox' = [inbox EXCEPT ![c] = @ - 1]
          /\ done' = [done EXCEPT ![c] = "ok"]
       \/ /\ peer[c] = "reset" \/ (peer[c] = "closed" /\ inbox[c] = 0)
          /\ done' = [done EXCEPT ![c] = "error"]
          /\ UNCHANGED inbox
    /\ UNCHANGED <<core, socket, op, peer, sentChunks>>

WriteCompletes(c) ==
    /\ op[c] = "write" /\ done[c] = "none"
    /\ \/ /\ c \in Readers /\ peer[c] # "reset"
          /\ done' = [done EXCEPT ![c] = "ok"]
       \/ /\ peer[c] = "reset"
          /\ done' = [done EXCEPT ![c] = "error"]
    /\ UNCHANGED <<core, socket, op, net>>

-----------------------------------------------------------------------------
Handlers ==
    \/ OnAccept \/ OnSignal
    \/ \E c \in Conn : OnReadOk(c) \/ OnReadError(c) \/ OnWrite(c)

Network ==
    \/ AcceptFails \/ RaiseSignal
    \/ \E c \in Conn :
          \/ Connect(c) \/ PeerSends(c) \/ PeerLeaves(c, "closed")
          \/ PeerLeaves(c, "reset") \/ ReadCompletes(c) \/ WriteCompletes(c)

Next == Handlers \/ Network

Spec == Init /\ [][Next]_vars

(* io_context::run takes every queued handler in its turn, and the kernel  *)
(* completes what can be completed.  Nothing is assumed of peers.          *)
Fairness ==
    /\ WF_vars(OnAccept) /\ WF_vars(OnSignal)
    /\ \A c \in Conn :
          /\ WF_vars(OnReadOk(c)) /\ WF_vars(OnReadError(c)) /\ WF_vars(OnWrite(c))
          /\ WF_vars(ReadCompletes(c)) /\ WF_vars(WriteCompletes(c))

FairSpec == Spec /\ Fairness

-----------------------------------------------------------------------------
(* Properties *)

(* Types: in particular an accept that failed leaves no connection behind. *)
TypeOK ==
    /\ acceptor \in BOOLEAN
    /\ accept \in AcceptState
    /\ accepted \in Conn \union {None}
    /\ signal \in {"awaited", "raised", "handled"}
    /\ connections \in SUBSET Conn
    /\ socket \in [Conn -> {"none", "open", "closed"}]
    /\ op \in [Conn -> Op]
    /\ done \in [Conn -> Completion]
    /\ peer \in [Conn -> {"absent", "up", "closed", "reset"}]
    /\ inbox \in [Conn -> Nat]
    /\ sentChunks \in [Conn -> Nat]

(* The work that keeps io_context::run from returning. *)
Outstanding ==
    accept # "none" \/ signal # "handled" \/ \E c \in Conn : op[c] # "none"

(* server.cpp: "While the server is running, there is always at least one  *)
(* asynchronous operation outstanding: the asynchronous accept call".      *)
AlwaysAccepting == acceptor => accept # "none"

(* The manager knows exactly the connections whose sockets are open and    *)
(* have been handed over, so that stop_all reaches every one of them; each *)
(* of them has an operation under way that will end it or move it on.      *)
ManagedIsOpen ==
    \A c \in Conn :
        /\ c \in connections <=> socket[c] = "open" /\ accepted # c
        /\ c \in connections => op[c] # "none"

(* Once the stop handler has run no connection is managed or open, but for *)
(* one the accept handler is about to drop: an accept that completed       *)
(* before the signal does not start a connection after it.                 *)
StoppedStaysStopped ==
    ~acceptor => connections = {} /\ \A c \in Conn : socket[c] = "open" => accepted = c

(* server.cpp: "Once all operations have finished the io_context::run()    *)
(* call will exit", whatever was in the queue at the signal and even with  *)
(* peers that never read.                                                  *)
StopEnds == signal = "raised" ~> ~Outstanding

(* A connection object lives on in the manager or in a handler. *)
Alive(c) == c \in connections \/ op[c] # "none"

(* connection::do_write: a connection that has begun to reply to a peer    *)
(* that reads ends and is released.                                        *)
ReplyEnds == \A c \in Readers : op[c] = "write" ~> ~Alive(c)

(* connection::do_read, do_write: a connection whose peer has gone is      *)
(* taken out of the manager and released.                                  *)
GoneIsReleased == \A c \in Conn : peer[c] = "reset" /\ Alive(c) ~> ~Alive(c)
=============================================================================

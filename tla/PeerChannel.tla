----------------------------- MODULE PeerChannel -----------------------------
(***************************************************************************)
(* The peer connection server: the select loop of server/main.cc, the      *)
(* request socket of data_socket.cc and the channel of peer_channel.cc.    *)
(*                                                                         *)
(* A peer keeps one GET /wait open (its "hanging get"); what the server    *)
(* has for it is sent on that socket when there is one and queued when     *)
(* there is none.  Every pass of the loop takes a snapshot of the sockets  *)
(* that can be read, serves them in the order of the vector, drops the     *)
(* members that timed out and accepts at most one connection.              *)
(*                                                                         *)
(* Bytes are abstracted: a request is a record that arrives in `left`      *)
(* segments, a response is a record.  time_t is abstracted to the age of   *)
(* timestamp_, counted in ticks and saturated once it exceeds the limit.   *)
(***************************************************************************)
EXTENDS PeerNet, SequencesExt

CONSTANTS kMaxConnections,  \* sockets the loop accepts at most
          TimeoutTicks      \* ticks that make the 30 seconds of TimedOut

ASSUME ServerAssumption ==
  /\ kMaxConnections \in Nat \ {0}
  /\ TimeoutTicks \in Nat

VARIABLES
  members,      \* members_: a sequence of ChannelMember records
  s_member_id,  \* s_member_id_
  sockets,      \* the vector of accepted sockets
  quit,         \* the flag of main()
  running       \* the process exists

serverVars == <<members, s_member_id, sockets, quit, running>>

NoSocket == <<"none", 0>>

ServerInit ==
  /\ members = <<>>
  /\ s_member_id = 0
  /\ sockets = <<>>
  /\ quit = FALSE
  /\ running = TRUE

-----------------------------------------------------------------------------
(* Responses.  pragma is the Pragma header: the sender of a message, or    *)
(* the receiver itself in a notification; -1 when the header is absent.    *)

Response(status, pragma, entries, text) ==
  [status |-> status, pragma |-> pragma, entries |-> entries, text |-> text]
Plain(status) == Response(status, -1, <<>>, "")
Entry(m) == <<m.id, m.connected>>

-----------------------------------------------------------------------------
(* ChannelMember.  `log` is a history of what QueueResponse was given.     *)

ChannelMember(id) ==
  [id |-> id, waiting |-> NoSocket, queue |-> <<>>, connected |-> TRUE,
   age |-> 0, log |-> <<>>]

Queued(m, r) ==
  [id |-> m.id, connected |-> m.connected, waiting |-> NoSocket,
   queue |-> IF m.waiting = NoSocket THEN Append(m.queue, r) ELSE m.queue,
   age |-> IF m.waiting = NoSocket THEN m.age ELSE 0,
   log |-> Append(m.log, r)]

(* QueueResponse of the members at the positions `to`; w is the pair of    *)
(* the members and the connections, r[i] the response for the i-th member. *)
QueueResponse(w, to, r) ==
  LET ms == w.members
      Waits(k) == {i \in to : ms[i].waiting = k}
  IN  [members |-> [i \in DOMAIN ms |-> IF i \in to THEN Queued(ms[i], r[i]) ELSE ms[i]],
       conn    |-> [k \in DOMAIN w.conn |->
                      IF Waits(k) = {} \/ ~w.conn[k].open THEN w.conn[k]
                      ELSE Given(w.conn[k], r[CHOOSE i \in Waits(k) : TRUE])]]

Awaits(m, k) == [m EXCEPT !.waiting = k, !.age = 0]

(* Mutant: the socket waits although a response is queued. *)
MutSetWaitingSocket(w, i, k) ==
  [members |-> [w.members EXCEPT ![i] = Awaits(@, k)], conn |-> w.conn]

(* timestamp_ stays as it is; it is not looked at while a socket waits and *)
(* set when that goes, so the age is kept at 0 meanwhile.                  *)
SetWaitingSocket(w, i, k) ==
  LET m == w.members[i]
  IN  IF m.queue # <<>>
        THEN [members |-> [w.members EXCEPT ![i] = [m EXCEPT !.queue = Tail(m.queue)]],
              conn    |-> Send(w.conn, k, Head(m.queue))]
        ELSE [members |-> [w.members EXCEPT ![i] = Awaits(m, k)], conn |-> w.conn]

TimedOut(m) == m.waiting = NoSocket /\ m.age > TimeoutTicks

-----------------------------------------------------------------------------
(* PeerChannel.  NotifyOfOtherMember always succeeds, so the failures that *)
(* HandleDeliveryFailures works off are always empty.                      *)

BroadcastChangedState(w, about) ==
  QueueResponse(w, {i \in DOMAIN w.members : w.members[i].id # about.id},
                [i \in DOMAIN w.members |->
                   Response(200, w.members[i].id, <<Entry(about)>>, "")])

(* Mutant: the others are not told that a member is gone. *)
MutErase(w, i) == [members |-> RemoveAt(w.members, i), conn |-> w.conn]

(* The i-th member, which is not connected, is erased and the others told. *)
Erase(w, i) ==
  BroadcastChangedState([members |-> RemoveAt(w.members, i), conn |-> w.conn],
                        [w.members[i] EXCEPT !.connected = FALSE])

(* A loop over a vector of n elements whose body may erase the element     *)
(* under the iterator.  erase moves the next element there and the ++ of   *)
(* the loop then steps over it: turn i always looks at position i.         *)
Loop(Body(_, _), start, n) ==
  LET after[i \in 0..n] == IF i = 0 THEN start ELSE Body(after[i - 1], i)
  IN  after[n]

(* ChannelMember::OnClosing of the i-th member. *)
Released(w, i, k) ==
  IF w.members[i].waiting = k
    THEN [members |-> [w.members EXCEPT ![i] = Awaits(w.members[i], NoSocket)],
          conn |-> w.conn]
    ELSE w

(* Mutant: the closed socket goes on waiting. *)
MutClosingTurn(w, i, k) ==
  IF i > Len(w.members) \/ w.members[i].connected THEN w ELSE Erase(w, i)

(* One turn of the loop of OnClosing: a member that signed out is dropped. *)
ClosingTurn(w, i, k) ==
  IF i > Len(w.members) THEN w
  ELSE IF w.members[i].connected THEN Released(w, i, k)
  ELSE Erase(Released(w, i, k), i)

OnClosing(w, k) ==
  Loop(LAMBDA acc, i : ClosingTurn(acc, i, k), w, Len(w.members))

TimeoutTurn(w, i) ==
  IF i <= Len(w.members) /\ TimedOut(w.members[i]) THEN Erase(w, i) ELSE w

CheckForTimeout(w) == Loop(TimeoutTurn, w, Len(w.members))

AddMember(w, id, k) ==
  LET new  == ChannelMember(id)
      told == BroadcastChangedState(w, new)
      all  == <<Entry(new)>>
                \o [i \in DOMAIN w.members |-> Entry(w.members[i])]
  IN  [members |-> Append(told.members, new),
       conn    |-> Send(told.conn, k, Response(200, id, all, ""))]

ForwardRequestToPeer(w, from, to, k) ==
  LET r   == Response(200, from, <<>>, w.conn[k].req.text)
      out == QueueResponse(w, {i \in DOMAIN w.members : w.members[i].id = to},
                           [i \in DOMAIN w.members |-> r])
  IN  IF to = from
        THEN [members |-> w.members, conn |-> Send(w.conn, k, r)]
        ELSE [members |-> out.members, conn |-> Send(out.conn, k, Plain(200))]

CloseAll(w) ==
  LET r   == Response(200, -1, <<>>, "Server shutting down")
      out == QueueResponse(w, DOMAIN w.members, [i \in DOMAIN w.members |-> r])
  IN  [members |-> <<>>, conn |-> out.conn]

-----------------------------------------------------------------------------
(* main().  One pass of the loop is one step: it is single-threaded, which *)
(* sockets it serves is fixed by select, and whatever a client does during *)
(* the pass reaches the server in a later one.  s is the server's state.   *)

Lookup(s, id) == {i \in DOMAIN s.members : s.members[i].id = id}

Pair(s) == [members |-> s.members, conn |-> s.conn]
With(s, w) == [s EXCEPT !.members = w.members, !.conn = w.conn]
Reply(s, k, status) == [s EXCEPT !.conn = Send(s.conn, k, Plain(status))]

(* Lookup has found no member, and this is no peer connection: the request *)
(* goes to HandleBrowserRequest, which assigns quit each time.             *)
HandleBrowserRequest(s, k) ==
  LET path == s.conn[k].req.path
      sent == Reply(s, k, IF path \in {"/quit", "OPTIONS"} THEN 200 ELSE 500)
      w    == CloseAll(Pair(sent))
  IN  IF path # "/quit" THEN [sent EXCEPT !.quit = FALSE]
      ELSE [sent EXCEPT !.quit = TRUE, !.members = w.members,
                        !.conn = Shut(w.conn, Range(s.backlog)),
                        !.listening = FALSE, !.backlog = <<>>]

(* A complete request.  Lookup itself hands a /wait to its member and      *)
(* marks the member of a /sign_out.                                        *)
HandleRequest(s, k) ==
  LET req == s.conn[k].req
      at  == IF req.path \in {"/wait", "/sign_out", "/message"}
               THEN Lookup(s, req.peer_id) ELSE {}
      i   == CHOOSE j \in at : TRUE
      out == [s EXCEPT !.members = [s.members EXCEPT ![i] =
                                      [s.members[i] EXCEPT !.connected = FALSE]]]
  IN  IF at = {}
        THEN CASE req.path = "/sign_in" ->
                    [With(s, AddMember(Pair(s), s.id + 1, k)) EXCEPT !.id = s.id + 1]
               [] req.path = "/message" -> Reply(s, k, 500)
               [] OTHER -> HandleBrowserRequest(s, k)
        ELSE CASE req.path = "/wait" -> With(s, SetWaitingSocket(Pair(s), i, k))
               [] req.path = "/sign_out" -> Reply(out, k, 200)
               [] OTHER -> IF Lookup(s, req.to) # {}
                    THEN With(s, ForwardRequestToPeer(Pair(s), req.peer_id, req.to, k))
                    ELSE Reply(s, k, 500)

(* Mutant: the deleted socket stays in the vector. *)
MutCloseSocket(s, i) ==
  LET w == OnClosing(Pair(s), s.sockets[i])
  IN  [s EXCEPT !.members = w.members, !.conn = Shut(w.conn, {s.sockets[i]})]

(* recv returned 0: the i-th socket is deleted and erased.                 *)
CloseSocket(s, i) ==
  LET w == OnClosing(Pair(s), s.sockets[i])
  IN  [s EXCEPT !.members = w.members, !.conn = Shut(w.conn, {s.sockets[i]}),
                !.sockets = RemoveAt(s.sockets, i)]

(* OnDataAvailable of the i-th socket reads everything there is or, for    *)
(* the sockets in part, only the first segment.                            *)
Received(link, some) == [link EXCEPT !.left = IF some THEN link.left - 1 ELSE 0]

ServeSocket(s, i, part) ==
  LET k   == s.sockets[i]
      got == [s EXCEPT !.conn = [s.conn EXCEPT ![k] = Received(s.conn[k], k \in part)]]
  IN  IF s.conn[k].left = 0 THEN CloseSocket(s, i)
      ELSE IF k \in part THEN got
      ELSE HandleRequest(got, k)

Readable(k) == conn[k].left > 0 \/ ~conn[k].open

(* One turn of the loop over the sockets, of which `ready` can be read.    *)
ServeTurn(s, i, ready, part) ==
  IF i <= Len(s.sockets) /\ s.sockets[i] \in ready THEN ServeSocket(s, i, part) ELSE s

Server ==
  [members |-> members, conn |-> conn, sockets |-> sockets, backlog |-> backlog,
   id |-> s_member_id, quit |-> quit, listening |-> listening]

ServeSockets(part) ==
  LET ready == {k \in Range(sockets) : Readable(k)}
  IN  Loop(LAMBDA s, i : ServeTurn(s, i, ready, part), Server, Len(sockets))

(* At most one accept, of a connection that was there at the select; over  *)
(* the limit it is closed at once.                                         *)
Accept(s) ==
  LET k  == Head(s.backlog)
      in == [s.conn[k] EXCEPT !.end = "accepted"]
  IN  IF backlog = <<>> \/ ~s.listening THEN s
      ELSE IF Len(s.sockets) >= kMaxConnections
        THEN [s EXCEPT !.backlog = Tail(s.backlog), !.conn = Shut(s.conn, {k})]
        ELSE [s EXCEPT !.backlog = Tail(s.backlog), !.conn = [s.conn EXCEPT ![k] = in],
                       !.sockets = Append(s.sockets, k)]

(* A pass in which nothing is ready, nobody connects and nobody timed out  *)
(* changes nothing and is left out.                                        *)
Work ==
  \/ \E k \in Range(sockets) : Readable(k)
  \/ listening /\ backlog # <<>>
  \/ \E m \in Range(members) : TimedOut(m)

(* What a pass has done before it comes to the listener.                   *)
AllServed(part) ==
  LET s == ServeSockets(part)
  IN  With(s, CheckForTimeout(Pair(s)))

Outcome(part) == Accept(AllServed(part))

(* The sockets whose request may arrive in pieces. *)
Cut == SUBSET {k \in Range(sockets) : conn[k].left > 1}

Goes(e) ==
  /\ s_member_id' = e.id /\ quit' = e.quit
  /\ members' = e.members /\ conn' = e.conn /\ sockets' = e.sockets
  /\ listening' = e.listening /\ backlog' = e.backlog
  /\ running' = TRUE

(* A process that ends, in whatever way, closes its sockets. *)
Stops(e) ==
  /\ s_member_id' = e.id /\ quit' = e.quit
  /\ members' = <<>> /\ sockets' = <<>>
  /\ conn' = Shut(e.conn, Range(e.sockets) \union Range(e.backlog))
  /\ listening' = FALSE /\ backlog' = <<>>
  /\ running' = FALSE

(* With the listener closed FD_ISSET is asked about descriptor -1, which   *)
(* says no or aborts the process.                                          *)
Pass ==
  /\ running /\ Work
  /\ \E e \in {Outcome(part) : part \in Cut} :
       \/ ~e.quit /\ Goes(e)
       \/ ~e.listening /\ Stops(e)

(* A pass in which accept() fails, so that ListeningSocket::Accept returns *)
(* NULL.  Over the limit the NULL is deleted, and the connection is still  *)
(* in the backlog.  Below it the NULL is pushed into the vector; the loop  *)
(* goes on to fill its fd_set, which dereferences it, and the process dies *)
(* before it waits again.                                                  *)
AcceptFails ==
  /\ running /\ backlog # <<>>
  /\ \E s \in {AllServed(part) : part \in Cut} :
       /\ s.listening
       /\ IF Len(s.sockets) < kMaxConnections THEN Stops(s) ELSE Goes(s)

(* The loop is left when select fails.                                     *)
SelectFails == running /\ Stops(Server)

(* Time passes.                                                            *)
Ages(m) == m.waiting = NoSocket /\ m.age <= TimeoutTicks

Tick ==
  /\ running
  /\ \E m \in Range(members) : Ages(m)
  /\ members' = [i \in DOMAIN members |->
                   IF Ages(members[i]) THEN [members[i] EXCEPT !.age = @ + 1]
                                       ELSE members[i]]
  /\ UNCHANGED <<conn, s_member_id, sockets, backlog, listening, quit, running>>
=============================================================================

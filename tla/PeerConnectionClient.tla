------------------------- MODULE PeerConnectionClient -------------------------
(***************************************************************************)
(* The clients of the peer connection server                               *)
(* (client/peer_connection_client.cc), with the calls the conductor makes: *)
(* log in, send a message, hang up, sign out.                              *)
(*                                                                         *)
(* A client has two sockets.  The control socket carries one request at a  *)
(* time and is closed with its answer; the hanging get is connected again  *)
(* as soon as it is answered.  Every handler runs on the client's thread.  *)
(***************************************************************************)
EXTENDS PeerNet

CONSTANTS Client,    \* the client processes
          MaxAct,    \* bound on logins, messages, hang-ups, crashes, browser
                     \* requests, long delays and failures of the server together
          MaxRetry   \* bound on the posted retries with which a user logs out

ASSUME ClientAssumption == MaxAct \in Nat /\ MaxRetry \in Nat

VARIABLES
  cl,      \* the state of each client
  acts     \* how many of the MaxAct there have been

clientVars == <<cl, acts>>

Closed == <<"closed", 0>>  \* CS_CLOSED
Null == <<"null", 0>>      \* the socket object does not exist yet

Start(c) ==
  [name |-> c, state |-> "NOT_CONNECTED", my_id |-> -1, peers |-> {}, control |-> Null,
   hanging |-> Null, onconnect |-> "", to |-> -1, text |-> "",
   resolving |-> FALSE, retry |-> 0, got |-> <<>>]

ClientInit ==
  /\ cl = [c \in Client |-> Start(c)]
  /\ acts = 0

-----------------------------------------------------------------------------
(* PeerConnectionClient::Close; p is the pair of the connections and the   *)
(* client.                                                                 *)
CloseBoth(p) ==
  [net |-> Hang(p.net, {p.c.control, p.c.hanging}),
   c   |-> [p.c EXCEPT !.control = Closed, !.hanging = Closed, !.onconnect = "",
                       !.to = -1, !.text = "",
                       !.peers = {}, !.my_id = -1, !.state = "NOT_CONNECTED",
                       !.resolving = FALSE, !.got = <<>>]]

DialHanging(p) ==
  LET k == Fresh(p.net, p.c.name)
  IN  [net |-> Dial(p.net, k), c |-> [p.c EXCEPT !.hanging = k]]

(* ConnectControlSocket: a socket that is not closed refuses to connect,   *)
(* and then the client closes everything.                                  *)
ConnectControlSocket(p) ==
  IF p.c.control = Closed
    THEN LET k == Fresh(p.net, p.c.name)
         IN  [net |-> Dial(p.net, k), c |-> [p.c EXCEPT !.control = k]]
    ELSE CloseBoth(p)

DoConnect(p) ==
  LET q == ConnectControlSocket(
             [net |-> Hang(p.net, {p.c.control, p.c.hanging}),
              c   |-> [p.c EXCEPT !.control = Closed, !.hanging = Closed,
                                  !.onconnect = "/sign_in", !.to = -1, !.text = ""]])
  IN  [q EXCEPT !.c.state = "SIGNING_IN"]

SendToPeer(p, to, text) ==
  ConnectControlSocket(
    [p EXCEPT !.c.onconnect = "/message", !.c.to = to, !.c.text = text])

SignOut(p) ==
  LET q == [net |-> Hang(p.net, {p.c.hanging}), c |-> [p.c EXCEPT !.hanging = Closed]]
      out == [q EXCEPT !.c.state = "SIGNING_OUT"]
  IN  IF q.c.control # Closed THEN [q EXCEPT !.c.state = "SIGNING_OUT_WAITING"]
      ELSE IF q.c.my_id = -1 THEN out
      ELSE ConnectControlSocket([out EXCEPT !.c.onconnect = "/sign_out"])

Become(c, p) == conn' = p.net /\ cl' = [cl EXCEPT ![c] = p.c]
Now(c) == [net |-> conn, c |-> cl[c]]

-----------------------------------------------------------------------------
(* Calls of the conductor.                                                 *)

(* StartLogin and Connect, with an address or with a name to resolve.      *)
Login(c) ==
  /\ acts < MaxAct
  /\ cl[c].my_id = -1 /\ cl[c].state = "NOT_CONNECTED"
  /\ \/ Become(c, DoConnect(Now(c)))
     \/ Become(c, [Now(c) EXCEPT !.c.state = "RESOLVING", !.c.resolving = TRUE])
  /\ acts' = acts + 1
  /\ UNCHANGED <<backlog, listening>>

(* SEND_MESSAGE_TO_PEER: only when no message is being sent.               *)
SendMessage(c) ==
  /\ acts < MaxAct
  /\ cl[c].state = "CONNECTED" /\ cl[c].my_id # -1 /\ cl[c].control = Closed
  /\ \E to \in cl[c].peers : Become(c, SendToPeer(Now(c), to, "message"))
  /\ acts' = acts + 1
  /\ UNCHANGED <<backlog, listening>>

(* DisconnectFromCurrentPeer: SendHangUp does not ask whether a message is *)
(* being sent.  When one is, the call ends the session instead and needs   *)
(* no bound.                                                               *)
HangUp(c) ==
  /\ cl[c].state = "CONNECTED" /\ cl[c].my_id # -1
  /\ \E to \in cl[c].peers : Become(c, SendToPeer(Now(c), to, "message"))
  /\ IF cl[c].control = Closed THEN acts < MaxAct /\ acts' = acts + 1
                               ELSE acts' = acts
  /\ UNCHANGED <<backlog, listening>>

(* DisconnectFromServer and Conductor::Close.  While the name is resolved  *)
(* for the first time there are no sockets, and the call is a crash.  With *)
(* the server gone each sign-out may post another retry.                   *)
LogOut(c) ==
  /\ cl[c].retry < MaxRetry
  /\ cl[c].state \notin {"NOT_CONNECTED", "SIGNING_OUT"}
  /\ IF cl[c].control = Null THEN Become(c, [net |-> conn, c |-> Start(c)])
                             ELSE Become(c, SignOut(Now(c)))
  /\ UNCHANGED <<backlog, listening, acts>>

(* The process of a client dies, and is started again.                     *)
Crash(c) ==
  /\ acts < MaxAct
  /\ cl[c] # Start(c)
  /\ Become(c, [net |-> Hang(conn, {cl[c].control, cl[c].hanging}), c |-> Start(c)])
  /\ acts' = acts + 1
  /\ UNCHANGED <<backlog, listening>>

-----------------------------------------------------------------------------
(* Events of the client's thread.                                          *)

(* The name is resolved, or is not; the handler does not ask which state   *)
(* the client has come to meanwhile.  Only Close takes the resolver away.  *)
OnResolveResult(c) ==
  LET p == [Now(c) EXCEPT !.c.resolving = FALSE]
  IN  /\ cl[c].resolving
      /\ \/ Become(c, DoConnect(p))
         \/ Become(c, [p EXCEPT !.c.state = "NOT_CONNECTED"])
      /\ UNCHANGED <<backlog, listening, acts>>

OnConnect(c) ==
  LET k == cl[c].control
  IN  /\ Connecting(k) /\ listening
      /\ Become(c, [net |-> Sent(conn, k, cl[c].onconnect, cl[c].my_id, cl[c].to,
                                 cl[c].text),
                    c |-> [cl[c] EXCEPT !.onconnect = "", !.to = -1, !.text = ""]])
      /\ backlog' = Append(backlog, k)
      /\ UNCHANGED <<listening, acts>>

OnHangingGetConnect(c) ==
  LET k == cl[c].hanging
  IN  /\ Connecting(k) /\ listening
      /\ conn' = Sent(conn, k, "/wait", cl[c].my_id, -1, "")
      /\ backlog' = Append(backlog, k)
      /\ UNCHANGED <<cl, listening, acts>>

(* OnClose with ECONNREFUSED.                                              *)
OnRefused(c) ==
  /\ ~listening
  /\ \/ /\ Connecting(cl[c].control)
        /\ Become(c, [net |-> Hang(conn, {cl[c].control}),
                      c   |-> [cl[c] EXCEPT !.control = Closed, !.retry = @ + 1]])
     \/ /\ Connecting(cl[c].hanging)
        /\ Become(c, CloseBoth(Now(c)))
  /\ UNCHANGED <<backlog, listening, acts>>

(* OnMessage: a delayed retry, whatever has happened since it was posted.  *)
Retry(c) ==
  /\ cl[c].retry > 0
  /\ Become(c, DoConnect([Now(c) EXCEPT !.c.retry = @ - 1]))
  /\ UNCHANGED <<backlog, listening, acts>>

(* Mutant: the answered hanging get is not connected again. *)
MutReconnected(p) ==
  [net |-> Hang(p.net, {p.c.hanging}), c |-> [p.c EXCEPT !.hanging = Closed]]

(* OnClose of the hanging get: a client that is still connected reconnects.*)
Reconnected(p) ==
  LET q == [net |-> Hang(p.net, {p.c.hanging}), c |-> [p.c EXCEPT !.hanging = Closed]]
  IN  IF p.c.state = "CONNECTED" THEN DialHanging(q) ELSE q

OnClose(c) ==
  /\ \/ /\ ClosedByServer(cl[c].control)
        /\ Become(c, [net |-> Hang(conn, {cl[c].control}),
                      c   |-> [cl[c] EXCEPT !.control = Closed]])
     \/ /\ ClosedByServer(cl[c].hanging)
        /\ Become(c, Reconnected(Now(c)))
  /\ UNCHANGED <<backlog, listening, acts>>

(* The answer on the control socket.  ReadIntoBuffer has closed the socket *)
(* before the answer is looked at.                                         *)
Ids(r) == {r.entries[i][1] : i \in DOMAIN r.entries}

OnRead(c) ==
  LET r == Head(conn[cl[c].control].resp)
      p == [net |-> Hang(conn, {cl[c].control}),
            c   |-> [cl[c] EXCEPT !.control = Closed]]
      q == CASE r.status # 200 -> CloseBoth(p)
             [] r.status = 200 /\ p.c.my_id = -1 ->
                  [p EXCEPT !.c.my_id = r.pragma, !.c.peers = Ids(r) \ {r.pragma}]
             [] r.status = 200 /\ p.c.my_id # -1 /\ p.c.state = "SIGNING_OUT" ->
                  CloseBoth(p)
             [] r.status = 200 /\ p.c.my_id # -1
                               /\ p.c.state = "SIGNING_OUT_WAITING" -> SignOut(p)
             [] OTHER -> p
  IN  /\ Answered(cl[c].control)
      /\ Become(c, IF q.c.state = "SIGNING_IN"
                     THEN DialHanging([q EXCEPT !.c.state = "CONNECTED"]) ELSE q)
      /\ UNCHANGED <<backlog, listening, acts>>

(* The answer on the hanging get: a notification when it carries our own   *)
(* id, and a message otherwise.                                            *)
OnHangingGetRead(c) ==
  LET r == Head(conn[cl[c].hanging].resp)
      p == Reconnected(Now(c))
      q == [p EXCEPT !.c.got = Append(@, r)]
      e == r.entries[1]
  IN  /\ Answered(cl[c].hanging)
      /\ Become(c, CASE r.status # 200 -> CloseBoth(p)
                     [] r.status = 200 /\ r.pragma = cl[c].my_id ->
                          [q EXCEPT !.c.peers = IF e[2] THEN @ \cup {e[1]}
                                                        ELSE @ \ {e[1]}]
                     [] OTHER -> q)
      /\ UNCHANGED <<backlog, listening, acts>>

(* A web browser asks for a page or for /quit and goes away without        *)
(* waiting for the answer.                                                 *)
Browse ==
  /\ acts < MaxAct
  /\ listening
  /\ \E path \in {"/", "/quit"} :
       LET k == Fresh(conn, "browser")
           net == Dial(conn, k)
       IN  /\ conn' = Hang(Sent(net, k, path, -1, -1, ""), {k})
           /\ backlog' = Append(backlog, k)
  /\ acts' = acts + 1
  /\ UNCHANGED <<cl, listening>>

User(c) == Login(c) \/ SendMessage(c) \/ HangUp(c) \/ LogOut(c) \/ Crash(c)
Thread(c) == \/ OnResolveResult(c) \/ OnConnect(c) \/ OnHangingGetConnect(c)
             \/ OnRefused(c) \/ Retry(c) \/ OnClose(c) \/ OnRead(c)
             \/ OnHangingGetRead(c)
=============================================================================

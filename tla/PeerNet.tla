------------------------------ MODULE PeerNet ------------------------------
(***************************************************************************)
(* The TCP connections between the clients and the peer connection server, *)
(* as both ends use them.  A connection is known by its socket number,     *)
(* which is used again once both ends have closed it (as a descriptor, or  *)
(* the address of a DataSocket, is).                                       *)
(*                                                                         *)
(*   open   the client's end is open                                       *)
(*   end    the server's end: "syn" (handshake under way), "backlog",      *)
(*          "accepted" or "closed"                                         *)
(*   req    the request, of which `left` segments wait to be received      *)
(*   resp   responses that wait to be read by the client                   *)
(***************************************************************************)
EXTENDS Integers, Sequences, FiniteSets

VARIABLES conn,      \* the connections alive at either end
          backlog,   \* those the kernel has completed and nobody accepted
          listening  \* listener.valid()

NoRequest == [path |-> "", peer_id |-> -1, to |-> -1, text |-> ""]

NetInit ==
  /\ conn = <<>>
  /\ backlog = <<>>
  /\ listening = TRUE

Fresh(net, owner) ==
  LET taken == {k[2] : k \in {j \in DOMAIN net : j[1] = owner}}
  IN  <<owner, CHOOSE n \in 1..Cardinality(taken) + 1 :
                 n \notin taken /\ \A i \in 1..n - 1 : i \in taken>>

(* rtc::Socket::Connect: the handshake is under way.                       *)
Dial(net, k) ==
  [j \in DOMAIN net \cup {k} |->
     IF j = k THEN [open |-> TRUE, end |-> "syn", left |-> 0, resp |-> <<>>,
                    req |-> NoRequest]
              ELSE net[j]]

(* rtc::Socket::Close at the client's end; what was not read is lost.      *)
Hang(net, ks) ==
  LET left == {k \in DOMAIN net :
                 k \notin ks \/ net[k].end \in {"backlog", "accepted"}}
  IN  [k \in left |-> IF k \in ks THEN [net[k] EXCEPT !.open = FALSE, !.resp = <<>>]
                                  ELSE net[k]]

(* The handshake is over and the handler sends its request.  The short GET *)
(* of a client is one segment; a POST, with its headers and its body, and  *)
(* the long headers of a browser may arrive in two.                        *)
Sent(net, k, path, id, to, text) ==
  [net EXCEPT ![k] =
     [open |-> net[k].open, end |-> "backlog", resp |-> net[k].resp,
      left |-> IF path \in {"/sign_in", "/wait", "/sign_out"} THEN 1 ELSE 2,
      req |-> [path |-> path, peer_id |-> id, to |-> to, text |-> text]]]

IsOpen(k) == k \in DOMAIN conn
Connecting(k) == IsOpen(k) /\ conn[k].end = "syn"
Answered(k) == IsOpen(k) /\ conn[k].resp # <<>>
ClosedByServer(k) == IsOpen(k) /\ conn[k].end = "closed" /\ conn[k].resp = <<>>

(* DataSocket::Send.  The kernel takes the bytes whether or not the peer   *)
(* still reads; a peer that closed its end never sees them.                *)
Given(link, r) == [link EXCEPT !.resp = Append(link.resp, r)]

Send(net, k, r) ==
  IF net[k].open THEN [net EXCEPT ![k] = Given(net[k], r)] ELSE net

(* closesocket: a connection both ends have closed is gone.                *)
Shut(net, ks) ==
  LET left == {k \in DOMAIN net : k \notin ks \/ net[k].open}
  IN  [k \in left |-> IF k \in ks THEN [net[k] EXCEPT !.end = "closed"]
                                  ELSE net[k]]
=============================================================================

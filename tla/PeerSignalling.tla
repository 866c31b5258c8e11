---------------------------- MODULE PeerSignalling ----------------------------
(***************************************************************************)
(* The peer connection server and its clients together.                    *)
(***************************************************************************)
EXTENDS PeerChannel, PeerConnectionClient

vars == <<conn, backlog, listening, serverVars, clientVars>>

(* The clients are interchangeable. *)
Sym == Permutations(Client)

Init == NetInit /\ ServerInit /\ ClientInit

Next ==
  \/ Pass /\ UNCHANGED clientVars
  \/ (Tick \/ AcceptFails \/ SelectFails)
       /\ acts < MaxAct /\ acts' = acts + 1 /\ UNCHANGED cl
  \/ \E c \in Client : (User(c) \/ Thread(c)) /\ UNCHANGED serverVars
  \/ Browse /\ UNCHANGED serverVars

Spec == Init /\ [][Next]_vars

-----------------------------------------------------------------------------
(* Properties *)

Member == Range(members)
Mine(c) == {m \in Member : m.id = cl[c].my_id}
Signed(c) == cl[c].state = "CONNECTED"

(* What was sent to the client's hanging get and not read yet.             *)
InFlight(c) == IF IsOpen(cl[c].hanging) THEN conn[cl[c].hanging].resp ELSE <<>>

(* Types: every socket the loop waits on, and every one the kernel or a    *)
(* client holds, exists, and ids come from the counter.  The NULL that a   *)
(* failed accept() leaves in the vector ends the process before it waits   *)
(* again (AcceptFails).                                                    *)
TypeOK ==
  /\ Range(sockets) \union Range(backlog) \subseteq DOMAIN conn
  /\ \A c \in Client :
       /\ {cl[c].control, cl[c].hanging} \subseteq {Null, Closed} \union DOMAIN conn
       /\ cl[c].state \in {"NOT_CONNECTED", "RESOLVING", "SIGNING_IN", "CONNECTED",
                           "SIGNING_OUT_WAITING", "SIGNING_OUT"}
  /\ \A m \in Member : m.id \in 1..s_member_id

(* waiting_socket_ is a raw pointer: it never points to a DataSocket that  *)
(* main() has deleted, nor to one on which another member waits, although  *)
(* OnClosing steps over members while it erases others.                    *)
WaitingIsOpen ==
  \A m \in Member : m.waiting # NoSocket =>
    /\ m.waiting \in Range(sockets)
    /\ conn[m.waiting].req.path = "/wait" /\ conn[m.waiting].req.peer_id = m.id

(* QueueResponse and SetWaitingSocket lose, repeat and reorder nothing     *)
(* while the hanging get of the client comes and goes: what was queued for *)
(* a member is what its client has read, then what is on the way, then     *)
(* what still waits in queue_.                                             *)
DeliveredInOrder ==
  \A c \in Client : Signed(c) =>
    \A m \in Mine(c) : m.log = cl[c].got \o InFlight(c) \o m.queue

(* What the notification r of the client with this id does to its list.    *)
Notified(peers, r, id) ==
  IF r.pragma # id THEN peers
  ELSE IF r.entries[1][2] THEN peers \union {r.entries[1][1]}
  ELSE peers \ {r.entries[1][1]}

Applied(peers, rs, id) ==
  Loop(LAMBDA acc, i : Notified(acc, rs[i], id), peers, Len(rs))

(* Once it has read the notifications that are on their way, the list of a *)
(* client is members_ without the client itself: nobody is missed between  *)
(* the answer to its sign-in and its first hanging get, and nobody that    *)
(* OnClosing or CheckForTimeout has dropped stays.  A member that signed   *)
(* out is in members_, and counts here, until some socket closes.          *)
RosterIsMembers ==
  \A c \in Client : Signed(c) =>
    \A m \in Mine(c) :
      Applied(cl[c].peers, InFlight(c) \o m.queue, m.id)
        = {x.id : x \in Member} \ {m.id}

(* No wake-up is lost: a connected client always has a hanging get, and    *)
(* one the server has read and not answered is the waiting socket of the   *)
(* client's member, so the next response reaches it.                       *)
HangingGetIsKept ==
  \A c \in Client : Signed(c) =>
    LET k == cl[c].hanging
    IN  /\ IsOpen(k)
        /\ conn[k].end = "accepted" /\ conn[k].left = 0 /\ conn[k].resp = <<>>
             => \E m \in Mine(c) : m.waiting = k

(* The assertion in BuildResponseForNewMember: the members listed to a     *)
(* peer that signs in are connected.                                       *)
ListedAreConnected ==
  \A c \in Client :
    cl[c].state = "SIGNING_IN" /\ Answered(cl[c].control) =>
      LET listed == Head(conn[cl[c].control].resp).entries
      IN  \A i \in DOMAIN listed : listed[i][2]
=============================================================================

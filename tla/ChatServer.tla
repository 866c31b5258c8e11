----------------------------- MODULE ChatServer -----------------------------
(***************************************************************************)
(* text_chat/chat_server.cpp: one chat_server, its chat_room and its       *)
(* chat_sessions, run by the single thread of io_context.run().            *)
(*                                                                         *)
(* An asynchronous operation has two steps: the operating system completes *)
(* it (CompleteRead, CompleteWrite), with or without an error, and later   *)
(* io_context runs its handler (OnHeader, OnBody, OnWrite).  Between the   *)
(* two, any other handler may run.  A handler is one atomic action, because*)
(* only one thread runs handlers.                                          *)
(*                                                                         *)
(* A message is abstracted to its author and its body length.              *)
(***************************************************************************)
EXTENDS Integers, Sequences, FiniteSets

CONSTANTS Session,          \* the connections that may be accepted
          HeaderValue,      \* what atoi makes of the four header bytes
          SizeModulus,      \* 2^w for the w bits of std::size_t
          max_body_length,  \* chat_message::max_body_length
          max_recent_msgs,  \* chat_room::max_recent_msgs
          MaxLog,           \* bound: messages posted to the room
          Stalled           \* the peers that never read what is sent to them

ASSUME ChatAssumption ==
    /\ SizeModulus \in Nat \ {0}
    /\ max_body_length \in Nat
    /\ max_body_length < SizeModulus
    /\ max_recent_msgs \in Nat \ {0}
    /\ MaxLog \in Nat
    /\ HeaderValue \subseteq Int
    /\ Stalled \subseteq Session

VARIABLES
    participants,   \* chat_room::participants_
    recent_msgs,    \* chat_room::recent_msgs_
    socket,         \* per session: "new", "open", "eof" (the peer shut down
                    \*   its side) or "reset"
    reading,        \* per session, the outstanding async_read
    read_len,       \* per session, read_msg_.body_length_
    writing,        \* per session, the outstanding async_write
    write_msgs,     \* per session, write_msgs_
    log, first, last, sent   \* history: see below

server == <<participants, recent_msgs>>
net    == <<socket, reading, writing>>
hist   == <<log, first, last, sent>>
vars   == <<server, net, read_len, write_msgs, hist>>

-----------------------------------------------------------------------------
(* State *)

Message == [author : Session, len : 0..max_body_length]

None == [op |-> "none", res |-> "pending"]
Start(operation) == [op |-> operation, res |-> "pending"]
Done(o, result) == [o EXCEPT !.res = result]

Result == {"pending", "ok", "error"}

(* History variables: log is every message posted to the room; first is    *)
(* how much of it preceded the replay given to a session at its join, last *)
(* how long it was when the session left the room, sent what was written.  *)
Init ==
    /\ participants = {}
    /\ recent_msgs = <<>>
    /\ socket = [s \in Session |-> "new"]
    /\ reading = [s \in Session |-> None]
    /\ read_len = [s \in Session |-> 0]
    /\ writing = [s \in Session |-> None]
    /\ write_msgs = [s \in Session |-> <<>>]
    /\ log = <<>>
    /\ first = [s \in Session |-> 0]
    /\ last = [s \in Session |-> 0]
    /\ sent = [s \in Session |-> <<>>]

-----------------------------------------------------------------------------
(* chat_room *)

(* Mutant: the participant is not erased. *)
MutLeaveKeeps(s) == UNCHANGED <<participants, last>>

(* leave: erasing a participant that is not there any more is no error. *)
leave(s) ==
    /\ participants' = participants \ {s}
    /\ last' = IF s \in participants THEN [last EXCEPT ![s] = Len(log)] ELSE last

(* Mutants: a full history refuses the new message, or is never trimmed. *)
MutPushDropsNew(q, m) == IF Len(q) < max_recent_msgs THEN Append(q, m) ELSE q
MutPushUnbounded(q, m) == Append(q, m)

(* deliver keeps the newest max_recent_msgs messages: one was added, so    *)
(* the while loop pops at most one.                                        *)
PushRecent(q, m) ==
    LET r == Append(q, m) IN
    IF Len(r) > max_recent_msgs THEN Tail(r) ELSE r

(* Mutant: whoever ever joined is given the message. *)
MutDeliverToAll(S, m) ==
    LET joined == {s \in Session : socket[s] # "new"} IN
    /\ write_msgs' = [s \in Session |->
          IF s \in joined THEN Append(write_msgs[s], m) ELSE write_msgs[s]]
    /\ writing' = [s \in Session |->
          IF s \in joined /\ write_msgs[s] = <<>> THEN Start("write") ELSE writing[s]]

(* chat_session::deliver for every participant: queue the message, and     *)
(* start a write where none was in progress.                               *)
SessionDeliver(S, m) ==
    /\ write_msgs' = [s \in Session |->
          IF s \in S THEN Append(write_msgs[s], m) ELSE write_msgs[s]]
    /\ writing' = [s \in Session |->
          IF s \in S /\ write_msgs[s] = <<>> THEN Start("write") ELSE writing[s]]

(* Mutants: the queue's emptiness is not looked at, or not acted upon. *)
MutWriteAnyway(q) == Start("write")
MutWriteStops(q) == None

(* do_write is called while there is something to write. *)
NextWrite(q) == IF q = <<>> THEN None ELSE Start("write")

-----------------------------------------------------------------------------
(* chat_server and chat_session: the handlers *)

(* do_accept: a new session joins, is sent the recent messages (the first  *)
(* one starts the write, the others queue behind it), and reads a header.  *)
Accept(s) ==
    /\ socket[s] = "new"
    /\ socket' = [socket EXCEPT ![s] = "open"]
    /\ participants' = participants \union {s}
    /\ write_msgs' = [write_msgs EXCEPT ![s] = recent_msgs]
    /\ writing' = [writing EXCEPT ![s] = NextWrite(recent_msgs)]
    /\ reading' = [reading EXCEPT ![s] = Start("header")]
    /\ first' = [first EXCEPT ![s] = Len(log) - Len(recent_msgs)]
    /\ UNCHANGED <<recent_msgs, read_len, log, last, sent>>

(* decode_header: the int becomes a size_t, so a negative one is huge. *)
BodyLength(v) == v % SizeModulus

(* Mutant: the limit is compared with the int. *)
MutDecodeSigned(v) == v <= max_body_length

decode_header(v) == BodyLength(v) <= max_body_length

(* do_read_header's handler, the header being what atoi makes it. *)
OnHeader(s, v) ==
    /\ reading[s].op = "header" /\ reading[s].res # "pending"
    /\ \/ /\ reading[s].res = "ok" /\ decode_header(v)
          /\ read_len' = [read_len EXCEPT ![s] = BodyLength(v)]
          /\ reading' = [reading EXCEPT ![s] = Start("body")]
          /\ UNCHANGED <<participants, last>>
       \/ /\ reading[s].res = "ok" /\ ~decode_header(v)
          /\ read_len' = [read_len EXCEPT ![s] = 0]
          /\ reading' = [reading EXCEPT ![s] = None]
          /\ leave(s)
       \/ /\ reading[s].res = "error"
          /\ reading' = [reading EXCEPT ![s] = None]
          /\ leave(s)
          /\ UNCHANGED read_len
    /\ UNCHANGED <<recent_msgs, socket, writing, write_msgs, log, first, sent>>

(* do_read_body's handler: the room delivers the message to everybody in   *)
(* it, whether or not its author still is.                                 *)
OnBody(s) ==
    /\ reading[s].op = "body" /\ reading[s].res # "pending"
    /\ \/ LET msg == [author |-> s, len |-> read_len[s]] IN
          /\ reading[s].res = "ok"
          /\ recent_msgs' = PushRecent(recent_msgs, msg)
          /\ SessionDeliver(participants, msg)
          /\ reading' = [reading EXCEPT ![s] = Start("header")]
          /\ log' = Append(log, msg)
          /\ UNCHANGED <<participants, last>>
       \/ /\ reading[s].res = "error"
          /\ reading' = [reading EXCEPT ![s] = None]
          /\ leave(s)
          /\ UNCHANGED <<recent_msgs, write_msgs, writing, log>>
    /\ UNCHANGED <<socket, read_len, first, sent>>

(* do_write's handler: the queue's front is popped only once it is written *)
(* and the next write started; after an error the queue stays as it is.    *)
OnWrite(s) ==
    /\ writing[s].op = "write" /\ writing[s].res # "pending"
    /\ \/ /\ writing[s].res = "ok"
          /\ write_msgs' = [write_msgs EXCEPT ![s] = Tail(@)]
          /\ writing' = [writing EXCEPT ![s] = NextWrite(Tail(write_msgs[s]))]
          /\ sent' = [sent EXCEPT ![s] = Append(@, Head(write_msgs[s]))]
          /\ UNCHANGED <<participants, last>>
       \/ /\ writing[s].res = "error"
          /\ writing' = [writing EXCEPT ![s] = None]
          /\ leave(s)
          /\ UNCHANGED <<write_msgs, sent>>
    /\ UNCHANGED <<recent_msgs, socket, reading, read_len, log, first>>

-----------------------------------------------------------------------------
(* The operating system and the peer *)

(* The peers send no more than MaxLog bodies between them. *)
BodiesArrived == {s \in Session : reading[s] = Done(Start("body"), "ok")}
MayArrive(s) ==
    reading[s].op = "body" => Len(log) + Cardinality(BodiesArrived) < MaxLog

(* Bytes arrive, or the end of the stream or a reset is reported. *)
CompleteRead(s) ==
    /\ reading[s].op # "none" /\ reading[s].res = "pending"
    /\ socket[s] = "open" => MayArrive(s)
    /\ reading' = [reading EXCEPT ![s] =
                     Done(@, IF socket[s] = "open" THEN "ok" ELSE "error")]
    /\ UNCHANGED <<server, socket, writing, read_len, write_msgs, hist>>

(* The kernel takes the bytes once the peer makes room for them. *)
CompleteWrite(s) ==
    /\ writing[s].op # "none" /\ writing[s].res = "pending"
    /\ s \notin Stalled \/ socket[s] = "reset"
    /\ writing' = [writing EXCEPT ![s] =
                     Done(@, IF socket[s] = "reset" THEN "error" ELSE "ok")]
    /\ UNCHANGED <<server, socket, reading, read_len, write_msgs, hist>>

PeerShutsDown(s) ==
    /\ socket[s] = "open"
    /\ socket' = [socket EXCEPT ![s] = "eof"]
    /\ UNCHANGED <<server, reading, writing, read_len, write_msgs, hist>>

PeerResets(s) ==
    /\ socket[s] \in {"open", "eof"}
    /\ socket' = [socket EXCEPT ![s] = "reset"]
    /\ UNCHANGED <<server, reading, writing, read_len, write_msgs, hist>>

-----------------------------------------------------------------------------
Handler(s) ==
    \/ \E v \in HeaderValue : OnHeader(s, v)
    \/ OnBody(s)
    \/ OnWrite(s)

Environment(s) ==
    CompleteRead(s) \/ CompleteWrite(s) \/ PeerShutsDown(s) \/ PeerResets(s)

Next == \E s \in Session : Accept(s) \/ Handler(s) \/ Environment(s)

(* io_context.run() runs every handler that is ready; the kernel reports a *)
(* broken connection, and takes the bytes for a peer that reads them.      *)
Fairness ==
    \A s \in Session :
        /\ WF_vars(Handler(s))
        /\ WF_vars(socket[s] # "open" /\ CompleteRead(s))
        /\ WF_vars(CompleteWrite(s))

Spec == Init /\ [][Next]_vars
FairSpec == Spec /\ Fairness

-----------------------------------------------------------------------------
(* Properties *)

Operation(ops) == [op : ops \union {"none"}, res : Result]

(* Every variable keeps its type; read_len never exceeds the buffer that   *)
(* do_read_body reads into.                                                *)
TypeOK ==
    /\ participants \subseteq Session
    /\ recent_msgs \in Seq(Message)
    /\ socket \in [Session -> {"new", "open", "eof", "reset"}]
    /\ reading \in [Session -> Operation({"header", "body"})]
    /\ read_len \in [Session -> 0..max_body_length]
    /\ writing \in [Session -> Operation({"write"})]
    /\ write_msgs \in [Session -> Seq(Message)]
    /\ log \in Seq(Message)
    /\ first \in [Session -> Nat]
    /\ last \in [Session -> Nat]
    /\ sent \in [Session -> Seq(Message)]

Joined(s) == socket[s] # "new"

Limit(s) == IF s \in participants THEN Len(log) ELSE last[s]

(* A write is outstanding exactly while a participant's queue is not       *)
(* empty: its front() is always there to be written (do_write), no second  *)
(* async_write overlaps the first on one socket, and no queued message is  *)
(* forgotten because deliver believed a write was in progress.             *)
WriteMatchesQueue ==
    \A s \in Session :
        /\ writing[s].op = "write" => write_msgs[s] # <<>>
        /\ s \in participants /\ write_msgs[s] # <<>> => writing[s].op = "write"

(* What a session has written, followed by what it still has queued, is a  *)
(* contiguous part of the room's log: from the replayed history up to now, *)
(* or up to the moment it left.  No gap, no repetition, no reordering,     *)
(* whatever joins, leaves and failures interleave.                         *)
StreamIsWindow ==
    \A s \in Session : Joined(s) =>
        sent[s] \o write_msgs[s] = SubSeq(log, first[s] + 1, Limit(s))

(* A session that is out of the room for good is never given work again:   *)
(* its queue only shrinks, and it never comes back.                        *)
StaysLeft(s) ==
    Joined(s) /\ s \notin participants =>
        /\ s \notin participants'
        /\ \/ write_msgs'[s] = write_msgs[s]
           \/ write_msgs[s] # <<>> /\ write_msgs'[s] = Tail(write_msgs[s])

LeftIsFinal == [][\A s \in Session : StaysLeft(s)]_vars

(* The shared_ptr count of a session has dropped to zero. *)
Released(s) ==
    /\ Joined(s)
    /\ s \notin participants
    /\ reading[s].op = "none"
    /\ writing[s].op = "none"

(* A message posted to the room is written to every participant that reads *)
(* its socket, or the participant leaves: neither a peer that never reads  *)
(* nor one that fails holds back the others.                               *)
Delivered ==
    \A s \in Session \ Stalled : \A n \in 1..MaxLog :
        (s \in participants /\ first[s] < n /\ n <= Len(log))
            ~> (first[s] + Len(sent[s]) >= n \/ s \notin participants)

(* A connection the peer has reset costs nothing for ever: both pending    *)
(* operations end and the session object is released.                      *)
ResetIsReleased ==
    \A s \in Session : socket[s] = "reset" ~> Released(s)

(* A session as a reader of the abstract log. *)
Status == [s \in Session |-> IF ~Joined(s) THEN "out"
                             ELSE IF s \in participants THEN "in" ELSE "left"]

Broadcast == INSTANCE OrderedBroadcast WITH
    Reader  <- Session,
    History <- max_recent_msgs,
    status  <- Status,
    got     <- sent

(* The server implements the ordered broadcast of a log: every handler and *)
(* every failure is a join, a post, a delivery in order, a leave, or       *)
(* invisible to the room.                                                  *)
ImplementsBroadcast == Broadcast!Spec
=============================================================================

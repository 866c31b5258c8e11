-------------------------- MODULE OrderedBroadcast --------------------------
(***************************************************************************)
(* What the chat room of text_chat/ promises its participants, without     *)
(* sockets, queues or handlers: the room is a log, and whoever joins it    *)
(* reads one contiguous window of that log, in order.  The window starts   *)
(* at most History messages before the moment of joining and ends where    *)
(* the log stood when the reader left the room.                            *)
(***************************************************************************)
EXTENDS Naturals, Sequences

CONSTANTS Reader,    \* whoever may join the room
          Message,   \* what may be posted
          History    \* how many old messages a newcomer is shown

VARIABLES log,       \* every message ever posted to the room
          status,    \* per reader: "out" (never joined), "in" or "left"
          first,     \* per reader, how many messages precede its window
          last,      \* per reader that left, the length of the log then
          got        \* per reader, what it has been given

vars == <<log, status, first, last, got>>

Init ==
    /\ log = <<>>
    /\ status = [r \in Reader |-> "out"]
    /\ first = [r \in Reader |-> 0]
    /\ last = [r \in Reader |-> 0]
    /\ got = [r \in Reader |-> <<>>]

(* A newcomer's window may reach back over the last History messages. *)
Join(r) ==
    /\ status[r] = "out"
    /\ status' = [status EXCEPT ![r] = "in"]
    /\ \E n \in 0..Len(log) :
          /\ Len(log) - n <= History
          /\ first' = [first EXCEPT ![r] = n]
    /\ UNCHANGED <<log, last, got>>

Post(m) ==
    /\ log' = Append(log, m)
    /\ UNCHANGED <<status, first, last, got>>

(* Where the reader's window ends now. *)
Limit(r) == IF status[r] = "left" THEN last[r] ELSE Len(log)

(* The next message of the window, and no other, reaches the reader. *)
Give(r) ==
    /\ status[r] # "out"
    /\ first[r] + Len(got[r]) < Limit(r)
    /\ got' = [got EXCEPT ![r] = Append(@, log[first[r] + Len(@) + 1])]
    /\ UNCHANGED <<log, status, first, last>>

Leave(r) ==
    /\ status[r] = "in"
    /\ status' = [status EXCEPT ![r] = "left"]
    /\ last' = [last EXCEPT ![r] = Len(log)]
    /\ UNCHANGED <<log, first, got>>

Next ==
    \/ \E r \in Reader : Join(r) \/ Give(r) \/ Leave(r)
    \/ \E m \in Message : Post(m)

Spec == Init /\ [][Next]_vars
=============================================================================

-------------------------- MODULE ChatServerProofs --------------------------
(***************************************************************************)
(* Proofs about ChatServer for any set of connections, any history length  *)
(* and any message limit.                                                  *)
(***************************************************************************)
EXTENDS ChatServer, SequenceTheorems, TLAPS

(* A connection that was never accepted has left no trace. *)
NewIsEmpty ==
    \A s \in Session : ~Joined(s) =>
        /\ s \notin participants
        /\ reading[s].op = "none" /\ writing[s].op = "none"
        /\ write_msgs[s] = <<>> /\ sent[s] = <<>>

(* recent_msgs is the newest part of the log. *)
RecentIsSuffix ==
    /\ Len(recent_msgs) <= max_recent_msgs
    /\ Len(recent_msgs) <= Len(log)
    /\ \A i \in 1..Len(recent_msgs) :
          recent_msgs[i] = log[(Len(log) - Len(recent_msgs)) + i]

(* StreamIsWindow said index by index, which is what the provers can use. *)
Window(s) ==
    /\ (first[s] + Len(sent[s])) + Len(write_msgs[s]) = Limit(s)
    /\ Limit(s) <= Len(log)
    /\ \A i \in 1..Len(sent[s]) : sent[s][i] = log[first[s] + i]
    /\ \A i \in 1..Len(write_msgs[s]) :
          write_msgs[s][i] = log[(first[s] + Len(sent[s])) + i]

Windows == \A s \in Session : Joined(s) => Window(s)

-----------------------------------------------------------------------------
(* The inductive invariant. *)
IInv ==
    /\ TypeOK
    /\ WriteMatchesQueue
    /\ NewIsEmpty
    /\ RecentIsSuffix
    /\ Windows

-----------------------------------------------------------------------------
(* Facts about the operations the handlers are built from. *)

(* A history that is not full grows by the message; a full one moves on by *)
(* one position.                                                           *)
LEMMA PushRecentFacts ==
    ASSUME NEW q \in Seq(Message), NEW x \in Message,
           Len(q) <= max_recent_msgs
    PROVE  /\ PushRecent(q, x) \in Seq(Message)
           /\ Len(q) < max_recent_msgs => PushRecent(q, x) = Append(q, x)
           /\ Len(q) = max_recent_msgs =>
                 /\ Len(PushRecent(q, x)) = Len(q)
                 /\ \A i \in 1..Len(q) : PushRecent(q, x)[i] = Append(q, x)[i + 1]
<1>1. PICK r \in Seq(Message) :
        r = Append(q, x) /\ r # <<>> /\ Len(r) = Len(q) + 1 /\ Len(q) \in Nat
  BY AppendProperties, LenProperties, Zenon
<1>2. CASE Len(q) = max_recent_msgs
  <2>1. PushRecent(q, x) = Tail(r)
    BY <1>1, <1>2, ChatAssumption DEF PushRecent
  <2>2. /\ Tail(r) \in Seq(Message)
        /\ Len(Tail(r)) = Len(r) - 1
        /\ \A i \in 1..Len(Tail(r)) : Tail(r)[i] = r[i + 1]
    BY <1>1, HeadTailProperties
  <2>3. Len(Tail(r)) = Len(q)
    BY <1>1, <2>2
  <2>4. ~(Len(q) < max_recent_msgs)
    BY <1>1, <1>2
  <2> QED
    BY <1>1, <2>1, <2>2, <2>3, <2>4, Zenon
<1>3. CASE Len(q) < max_recent_msgs
  <2>1. PushRecent(q, x) = r
    BY <1>1, <1>3, ChatAssumption DEF PushRecent
  <2> QED
    BY <1>1, <1>3, <2>1, ChatAssumption
<1> QED
  BY <1>1, <1>2, <1>3, ChatAssumption

(* decode_header accepts only lengths the message buffer can hold, even    *)
(* when the header was negative.                                           *)
LEMMA DecodedFits ==
    ASSUME NEW v \in HeaderValue, decode_header(v)
    PROVE  BodyLength(v) \in 0..max_body_length
  BY ChatAssumption DEF decode_header, BodyLength

(* Completing an operation changes only its result. *)
LEMMA DoneFacts ==
    ASSUME NEW ops, NEW o \in Operation(ops), NEW result \in Result
    PROVE  Done(o, result) \in Operation(ops) /\ Done(o, result).op = o.op
  BY DEF Done, Operation

(* leave keeps the types and fixes the end of the session's window. *)
LEMMA LeaveFacts ==
    ASSUME TypeOK, NEW s \in Session, leave(s), UNCHANGED log
    PROVE  /\ participants' \subseteq Session
           /\ participants' = participants \ {s}
           /\ last' \in [Session -> Nat]
           /\ \A t \in Session : Limit(t)' = Limit(t)
<1>1. Len(log) \in Nat
  BY DEF TypeOK
<1> QED
  BY <1>1 DEF TypeOK, leave, Limit

-----------------------------------------------------------------------------
(* The invariant holds initially and every action keeps it. *)

LEMMA InitInv == Init => IInv
<1> SUFFICES ASSUME Init PROVE IInv
  OBVIOUS
<1>1. <<>> \in Seq(Message) /\ Len(<<>>) = 0
  BY EmptySeq
<1>2. TypeOK
  BY <1>1, ChatAssumption DEF Init, TypeOK, Operation, Result, None
<1>3. WriteMatchesQueue /\ NewIsEmpty
  BY DEF Init, WriteMatchesQueue, NewIsEmpty, Joined, None
<1>4. RecentIsSuffix
  BY <1>1, ChatAssumption DEF Init, RecentIsSuffix
<1>5. Windows
  BY DEF Init, Windows, Joined
<1> QED
  BY <1>2, <1>3, <1>4, <1>5 DEF IInv

LEMMA AcceptInv ==
    ASSUME IInv, NEW s \in Session, Accept(s)
    PROVE  IInv'
<1> USE DEF IInv
<1>1. Len(recent_msgs) \in Nat /\ Len(log) \in Nat /\ Len(recent_msgs) <= Len(log)
  BY DEF TypeOK, RecentIsSuffix
<1>2. TypeOK'
  BY <1>1 DEF TypeOK, Accept, Operation, Result, None, Start, NextWrite
<1>3. WriteMatchesQueue'
  BY DEF TypeOK, WriteMatchesQueue, Accept, None, Start, NextWrite
<1>4. NewIsEmpty'
  BY DEF TypeOK, NewIsEmpty, Accept, Joined
<1>5. RecentIsSuffix'
  BY DEF RecentIsSuffix, Accept
<1>6. Windows'
  <2> SUFFICES ASSUME NEW t \in Session, Joined(t)' PROVE Window(t)'
    BY DEF Windows
  <2>1. CASE t = s
    <3>1. ~Joined(s) /\ sent[s] = <<>>
      BY DEF Accept, Joined, NewIsEmpty
    <3>2. /\ sent'[s] = <<>> /\ write_msgs'[s] = recent_msgs /\ log' = log
          /\ first'[s] = Len(log) - Len(recent_msgs) /\ s \in participants'
      BY <3>1 DEF Accept, TypeOK
    <3>3. Len(sent'[s]) = 0 /\ Limit(s)' = Len(log)
      BY <3>2, EmptySeq DEF Limit
    <3> QED
      BY <1>1, <2>1, <3>2, <3>3 DEF Window, RecentIsSuffix
  <2>2. CASE t # s
    <3>1. Joined(t) /\ Limit(t)' = Limit(t)
      BY <2>2 DEF Accept, Joined, Limit, TypeOK
    <3> QED
      BY <2>2, <3>1 DEF Accept, Windows, Window, TypeOK
  <2> QED
    BY <2>1, <2>2
<1> QED
  BY <1>2, <1>3, <1>4, <1>5, <1>6

LEMMA OnHeaderInv ==
    ASSUME IInv, NEW s \in Session, NEW v \in HeaderValue, OnHeader(s, v)
    PROVE  IInv'
<1> USE DEF IInv
<1>1. UNCHANGED <<recent_msgs, socket, writing, write_msgs, log, first, sent>>
  BY DEF OnHeader
<1>2. \/ UNCHANGED <<participants, last>>
      \/ leave(s)
  BY DEF OnHeader
<1>3. /\ participants' \subseteq participants
      /\ last' \in [Session -> Nat]
      /\ \A t \in Session : Limit(t)' = Limit(t)
  <2>1. CASE UNCHANGED <<participants, last>>
    BY <1>1, <2>1 DEF TypeOK, Limit
  <2>2. CASE leave(s)
    BY <1>1, <2>2, LeaveFacts
  <2> QED
    BY <1>2, <2>1, <2>2
<1>4. read_len' \in [Session -> 0..max_body_length]
  <2>1. \/ read_len' = read_len
        \/ \E n \in 0..max_body_length : read_len' = [read_len EXCEPT ![s] = n]
    BY DecodedFits, ChatAssumption DEF OnHeader
  <2> QED
    BY <2>1 DEF TypeOK
<1>5. reading' \in [Session -> Operation({"header", "body"})]
  <2>1. \E o \in Operation({"header", "body"}) : reading' = [reading EXCEPT ![s] = o]
    <3>1. None \in Operation({"header", "body"}) /\ Start("body") \in Operation({"header", "body"})
      BY DEF Operation, Result, Start, None
    <3> QED
      BY <3>1 DEF OnHeader
  <2> QED
    BY <2>1 DEF TypeOK
<1>6. TypeOK'
  BY <1>1, <1>3, <1>4, <1>5 DEF TypeOK
<1>7. WriteMatchesQueue' /\ RecentIsSuffix'
  BY <1>1, <1>3 DEF WriteMatchesQueue, RecentIsSuffix
<1>8. NewIsEmpty'
  BY <1>1, <1>3 DEF NewIsEmpty, Joined, OnHeader, TypeOK
<1>9. Windows'
  BY <1>1, <1>3 DEF Windows, Window, Joined
<1> QED
  BY <1>6, <1>7, <1>8, <1>9

(* A message is posted: the log, the history and every participant's queue *)
(* grow by the same message.                                               *)
LEMMA PostInv ==
    ASSUME IInv, NEW s \in Session, OnBody(s), reading[s].res = "ok"
    PROVE  IInv'
<1> USE DEF IInv
<1> DEFINE msg == [author |-> s, len |-> read_len[s]]
           p == recent_msgs'
<1>1. msg \in Message
  BY DEF TypeOK, Message
<1>2. /\ recent_msgs' = PushRecent(recent_msgs, msg)
      /\ SessionDeliver(participants, msg)
      /\ reading' = [reading EXCEPT ![s] = Start("header")]
      /\ log' = Append(log, msg)
      /\ UNCHANGED <<participants, last, socket, read_len, first, sent>>
  BY DEF OnBody
<1> HIDE DEF msg
<1>3. /\ log' \in Seq(Message) /\ Len(log) \in Nat /\ Len(log') = Len(log) + 1
      /\ \A i \in 1..Len(log) : log'[i] = log[i]
      /\ log'[Len(log) + 1] = msg
  BY <1>1, <1>2, AppendProperties, LenProperties DEF TypeOK
<1>4. \A t \in participants :
        /\ write_msgs'[t] \in Seq(Message) /\ write_msgs'[t] # <<>>
        /\ Len(write_msgs[t]) \in Nat
        /\ Len(write_msgs'[t]) = Len(write_msgs[t]) + 1
        /\ \A i \in 1..Len(write_msgs[t]) : write_msgs'[t][i] = write_msgs[t][i]
        /\ write_msgs'[t][Len(write_msgs[t]) + 1] = msg
  <2> SUFFICES ASSUME NEW t \in participants
               PROVE  /\ write_msgs'[t] \in Seq(Message) /\ write_msgs'[t] # <<>>
                      /\ Len(write_msgs[t]) \in Nat
                      /\ Len(write_msgs'[t]) = Len(write_msgs[t]) + 1
                      /\ \A i \in 1..Len(write_msgs[t]) :
                            write_msgs'[t][i] = write_msgs[t][i]
                      /\ write_msgs'[t][Len(write_msgs[t]) + 1] = msg
    OBVIOUS
  <2>1. t \in Session /\ write_msgs[t] \in Seq(Message)
    BY DEF TypeOK
  <2>2. write_msgs'[t] = Append(write_msgs[t], msg)
    BY <1>2, <2>1 DEF SessionDeliver
  <2> QED
    BY <1>1, <2>1, <2>2, AppendProperties, LenProperties
<1>5. \A t \in Session \ participants :
        write_msgs'[t] = write_msgs[t] /\ writing'[t] = writing[t]
  BY <1>2 DEF SessionDeliver
<1>6. p \in Seq(Message) /\ RecentIsSuffix'
  <2> DEFINE r == Append(recent_msgs, msg)
  <2>1. /\ r \in Seq(Message) /\ Len(r) = Len(recent_msgs) + 1
        /\ p \in Seq(Message)
        /\ Len(recent_msgs) < max_recent_msgs => p = r
        /\ Len(recent_msgs) = max_recent_msgs =>
              /\ Len(p) = Len(recent_msgs)
              /\ \A i \in 1..Len(recent_msgs) : p[i] = r[i + 1]
    <3>1. recent_msgs \in Seq(Message) /\ Len(recent_msgs) <= max_recent_msgs
      BY DEF TypeOK, RecentIsSuffix
    <3>2. r \in Seq(Message) /\ Len(r) = Len(recent_msgs) + 1
      BY <1>1, <3>1, AppendProperties
    <3> QED
      BY <1>1, <1>2, <3>1, <3>2, PushRecentFacts, Zenon
  <2>2. /\ Len(recent_msgs) \in Nat
        /\ \A i \in 1..Len(recent_msgs) : r[i] = recent_msgs[i]
        /\ r[Len(recent_msgs) + 1] = msg
    BY <1>1, AppendProperties, LenProperties DEF TypeOK
  <2> HIDE DEF r
  <2>3. \A i \in 1..Len(r) : r[i] = log'[(Len(log) - Len(recent_msgs)) + i]
    <3> SUFFICES ASSUME NEW i \in 1..Len(r)
                 PROVE  r[i] = log'[(Len(log) - Len(recent_msgs)) + i]
      OBVIOUS
    <3>1. CASE i \in 1..Len(recent_msgs)
      <4>1. (Len(log) - Len(recent_msgs)) + i \in 1..Len(log)
        BY <1>3, <2>2, <3>1 DEF RecentIsSuffix
      <4> QED
        BY <1>3, <2>2, <3>1, <4>1 DEF RecentIsSuffix
    <3>2. CASE i = Len(recent_msgs) + 1
      <4>1. (Len(log) - Len(recent_msgs)) + i = Len(log) + 1
        BY <1>3, <2>2, <3>2
      <4> QED
        BY <1>3, <2>2, <3>2, <4>1
    <3> QED
      BY <2>1, <2>2, <3>1, <3>2
  <2>4. CASE Len(recent_msgs) < max_recent_msgs
    <3>1. Len(log') - Len(p) = Len(log) - Len(recent_msgs)
      BY <1>3, <2>1, <2>2, <2>4
    <3>2. \A i \in 1..Len(p) : p[i] = log'[(Len(log') - Len(p)) + i]
      BY <2>1, <2>3, <2>4, <3>1
    <3>3. Len(p) <= max_recent_msgs /\ Len(p) <= Len(log')
      BY <1>3, <2>1, <2>2, <2>4, ChatAssumption DEF RecentIsSuffix
    <3> QED
      BY <2>1, <3>2, <3>3 DEF RecentIsSuffix
  <2>5. CASE Len(recent_msgs) = max_recent_msgs
    <3>1. \A i \in 1..Len(p) : p[i] = log'[(Len(log') - Len(p)) + i]
      <4> SUFFICES ASSUME NEW i \in 1..Len(p)
                   PROVE  p[i] = log'[(Len(log') - Len(p)) + i]
        OBVIOUS
      <4>1. /\ p[i] = r[i + 1] /\ i + 1 \in 1..Len(r)
            /\ (Len(log) - Len(recent_msgs)) + (i + 1) = (Len(log') - Len(p)) + i
        BY <1>3, <2>1, <2>2, <2>5
      <4> QED
        BY <2>3, <4>1
    <3> QED
      BY <1>3, <2>1, <2>2, <2>5, <3>1, ChatAssumption DEF RecentIsSuffix
  <2> QED
    BY <2>1, <2>2, <2>4, <2>5, ChatAssumption DEF RecentIsSuffix
<1>7. TypeOK'
  <2>1. write_msgs' \in [Session -> Seq(Message)]
    BY <1>2, <1>4, <1>5 DEF TypeOK, SessionDeliver
  <2>2. writing' \in [Session -> Operation({"write"})]
    <3>1. Start("write") \in Operation({"write"})
      BY DEF Start, Operation, Result
    <3> QED
      BY <1>2, <3>1 DEF TypeOK, SessionDeliver
  <2>3. reading' \in [Session -> Operation({"header", "body"})]
    <3>1. Start("header") \in Operation({"header", "body"})
      BY DEF Start, Operation, Result
    <3> QED
      BY <1>2, <3>1 DEF TypeOK
  <2> QED
    BY <1>2, <1>3, <1>6, <2>1, <2>2, <2>3 DEF TypeOK
<1>8. WriteMatchesQueue'
  <2> SUFFICES ASSUME NEW t \in Session
               PROVE  /\ writing'[t].op = "write" => write_msgs'[t] # <<>>
                      /\ t \in participants /\ write_msgs'[t] # <<>>
                            => writing'[t].op = "write"
    BY <1>2 DEF WriteMatchesQueue
  <2>1. CASE t \in participants
    <3>1. writing'[t] = IF write_msgs[t] = <<>> THEN Start("write") ELSE writing[t]
      BY <1>2, <2>1 DEF SessionDeliver
    <3> QED
      BY <1>4, <2>1, <3>1 DEF WriteMatchesQueue, Start
  <2>2. CASE t \notin participants
    BY <1>5, <2>2 DEF WriteMatchesQueue
  <2> QED
    BY <2>1, <2>2
<1>9. NewIsEmpty'
  BY <1>2, <1>5 DEF NewIsEmpty, Joined, OnBody, TypeOK
<1>10. Windows'
  <2> SUFFICES ASSUME NEW t \in Session, Joined(t) PROVE Window(t)'
    BY <1>2 DEF Windows, Joined
  <2>1. /\ Window(t) /\ first'[t] = first[t] /\ sent'[t] = sent[t]
        /\ first[t] \in Nat /\ Len(sent[t]) \in Nat /\ Len(write_msgs[t]) \in Nat
    BY <1>2, LenProperties DEF Windows, TypeOK
  <2>2. \A i \in 1..Len(sent[t]) : first[t] + i \in 1..Len(log)
    BY <1>3, <2>1 DEF Window
  <2>3. \A i \in 1..Len(write_msgs[t]) :
           (first[t] + Len(sent[t])) + i \in 1..Len(log)
    BY <1>3, <2>1 DEF Window
  <2>4. \A i \in 1..Len(sent'[t]) : sent'[t][i] = log'[first'[t] + i]
    BY <1>3, <2>1, <2>2 DEF Window
  <2>5. CASE t \in participants
    <3>1. Limit(t) = Len(log) /\ Limit(t)' = Len(log) + 1
      BY <1>2, <1>3, <2>5 DEF Limit
    <3>2. \A i \in 1..Len(write_msgs'[t]) :
             write_msgs'[t][i] = log'[(first'[t] + Len(sent'[t])) + i]
      <4> SUFFICES ASSUME NEW i \in 1..Len(write_msgs'[t])
                   PROVE  write_msgs'[t][i] = log'[(first[t] + Len(sent[t])) + i]
        BY <2>1
      <4>1. CASE i \in 1..Len(write_msgs[t])
        BY <1>3, <1>4, <2>1, <2>3, <2>5, <4>1 DEF Window
      <4>2. CASE i = Len(write_msgs[t]) + 1
        <5>1. (first[t] + Len(sent[t])) + i = Len(log) + 1
          BY <2>1, <3>1, <4>2 DEF Window
        <5> QED
          BY <1>3, <1>4, <2>5, <4>2, <5>1
      <4> QED
        BY <1>4, <2>1, <2>5, <4>1, <4>2
    <3>3. (first'[t] + Len(sent'[t])) + Len(write_msgs'[t]) = Limit(t)'
      <4>1. (first[t] + Len(sent[t])) + Len(write_msgs[t]) = Len(log)
        BY <2>1, <3>1 DEF Window
      <4>2. first[t] \in Nat /\ Len(sent[t]) \in Nat /\ Len(write_msgs[t]) \in Nat
        BY <2>1
      <4>3. (first[t] + Len(sent[t])) + (Len(write_msgs[t]) + 1) = Len(log) + 1
        BY <4>1, <4>2
      <4> QED
        BY <1>4, <2>1, <2>5, <3>1, <4>3
    <3>4. Limit(t)' <= Len(log')
      BY <1>3, <3>1
    <3> QED
      BY <2>4, <3>2, <3>3, <3>4 DEF Window
  <2>6. CASE t \notin participants
    <3>1. Limit(t)' = Limit(t) /\ write_msgs'[t] = write_msgs[t]
      BY <1>2, <1>5, <2>6 DEF Limit
    <3>2. last[t] \in Nat /\ Limit(t) = last[t]
      BY <2>6 DEF Limit, TypeOK
    <3>3. \A i \in 1..Len(write_msgs'[t]) :
             write_msgs'[t][i] = log'[(first'[t] + Len(sent'[t])) + i]
      BY <1>3, <2>1, <2>3, <3>1 DEF Window
    <3>4. (first'[t] + Len(sent'[t])) + Len(write_msgs'[t]) = Limit(t)'
      BY <2>1, <3>1 DEF Window
    <3>5. Limit(t)' <= Len(log')
      BY <1>3, <2>1, <3>1, <3>2 DEF Window
    <3> QED
      BY <2>4, <3>3, <3>4, <3>5 DEF Window
  <2> QED
    BY <2>5, <2>6
<1> QED
  BY <1>6, <1>7, <1>8, <1>9, <1>10

(* A body that cannot be read takes its session out of the room. *)
LEMMA OnBodyFailsInv ==
    ASSUME IInv, NEW s \in Session, OnBody(s), reading[s].res = "error"
    PROVE  IInv'
<1> USE DEF IInv
<1>1. /\ leave(s)
      /\ reading' = [reading EXCEPT ![s] = None]
      /\ UNCHANGED <<recent_msgs, socket, writing, write_msgs, read_len, log, first, sent>>
  BY DEF OnBody
<1>2. /\ participants' \subseteq participants
      /\ last' \in [Session -> Nat]
      /\ \A t \in Session : Limit(t)' = Limit(t)
  BY <1>1, LeaveFacts
<1>3. reading' \in [Session -> Operation({"header", "body"})]
  <2>1. None \in Operation({"header", "body"})
    BY DEF Operation, Result, None
  <2> QED
    BY <1>1, <2>1 DEF TypeOK
<1>4. TypeOK'
  BY <1>1, <1>2, <1>3 DEF TypeOK
<1>5. WriteMatchesQueue' /\ RecentIsSuffix'
  BY <1>1, <1>2 DEF WriteMatchesQueue, RecentIsSuffix
<1>6. NewIsEmpty'
  BY <1>1, <1>2 DEF NewIsEmpty, Joined, None, TypeOK
<1>7. Windows'
  BY <1>1, <1>2 DEF Windows, Window, Joined
<1> QED
  BY <1>4, <1>5, <1>6, <1>7

(* A write succeeded: the front of the queue moves to what was sent. *)
LEMMA WrittenInv ==
    ASSUME IInv, NEW s \in Session, OnWrite(s), writing[s].res = "ok"
    PROVE  IInv'
<1> USE DEF IInv
<1> DEFINE q == write_msgs[s]
<1>1. /\ write_msgs' = [write_msgs EXCEPT ![s] = Tail(q)]
      /\ writing' = [writing EXCEPT ![s] = NextWrite(Tail(q))]
      /\ sent' = [sent EXCEPT ![s] = Append(sent[s], Head(q))]
      /\ UNCHANGED <<participants, last, recent_msgs, socket, reading,
                     read_len, log, first>>
  BY DEF OnWrite
<1>2. q \in Seq(Message) /\ q # <<>> /\ sent[s] \in Seq(Message) /\ Joined(s)
  BY DEF OnWrite, TypeOK, WriteMatchesQueue, NewIsEmpty
<1>3. /\ Head(q) \in Message /\ Head(q) = q[1]
      /\ Tail(q) \in Seq(Message)
      /\ Len(q) \in Nat \ {0} /\ Len(Tail(q)) = Len(q) - 1
      /\ \A i \in 1..Len(Tail(q)) : Tail(q)[i] = q[i + 1]
  BY <1>2, HeadTailProperties, EmptySeq
<1>4. /\ sent'[s] \in Seq(Message) /\ Len(sent[s]) \in Nat
      /\ Len(sent'[s]) = Len(sent[s]) + 1
      /\ \A i \in 1..Len(sent[s]) : sent'[s][i] = sent[s][i]
      /\ sent'[s][Len(sent[s]) + 1] = q[1]
  <2>1. sent'[s] = Append(sent[s], Head(q))
    BY <1>1 DEF TypeOK
  <2> QED
    BY <1>2, <1>3, <2>1, AppendProperties, LenProperties
<1>5. write_msgs'[s] = Tail(q)
  BY <1>1 DEF TypeOK
<1>6. TypeOK'
  <2>1. NextWrite(Tail(q)) \in Operation({"write"})
    BY DEF NextWrite, Start, None, Operation, Result
  <2>2. sent' \in [Session -> Seq(Message)]
    BY <1>1, <1>4 DEF TypeOK
  <2> QED
    BY <1>1, <1>3, <2>1, <2>2 DEF TypeOK
<1>7. WriteMatchesQueue'
  <2>1. writing'[s] = NextWrite(Tail(q))
    BY <1>1 DEF TypeOK
  <2> QED
    BY <1>1, <1>5, <2>1 DEF WriteMatchesQueue, NextWrite, Start, None, TypeOK
<1>8. NewIsEmpty' /\ RecentIsSuffix'
  BY <1>1, <1>2 DEF NewIsEmpty, RecentIsSuffix, Joined, TypeOK
<1>9. Windows'
  <2> SUFFICES ASSUME NEW t \in Session, Joined(t) PROVE Window(t)'
    BY <1>1 DEF Windows, Joined
  <2>1. Window(t) /\ Limit(t)' = Limit(t)
    BY <1>1 DEF Windows, Limit
  <2>2. CASE t # s
    BY <1>1, <2>1, <2>2 DEF Window, TypeOK
  <2>3. CASE t = s
    <3>1. Window(s) /\ first' = first /\ log' = log
      BY <1>1, <2>1, <2>3
    <3>6. first[s] \in Nat /\ Len(sent[s]) \in Nat
      BY <1>4 DEF TypeOK
    <3>2. (first'[s] + Len(sent'[s])) + Len(write_msgs'[s]) = Limit(s)'
      <4>1. /\ (first[s] + Len(sent[s])) + Len(q) = Limit(s)
            /\ Limit(s)' = Limit(s)
        BY <2>1, <2>3 DEF Window
      <4>2. (first[s] + (Len(sent[s]) + 1)) + (Len(q) - 1) = Limit(s)
        <5>1. \A a, b \in Nat, c \in Nat \ {0} :
                (a + (b + 1)) + (c - 1) = (a + b) + c
          OBVIOUS
        <5>2. Len(q) \in Nat \ {0}
          BY <1>3
        <5> QED
          BY <3>6, <4>1, <5>1, <5>2, Zenon
      <4> QED
        BY <1>3, <1>4, <1>5, <3>1, <4>1, <4>2
    <3>3. Limit(s)' <= Len(log')
      BY <2>1, <2>3, <3>1 DEF Window
    <3>4. \A i \in 1..Len(sent'[s]) : sent'[s][i] = log'[first'[s] + i]
      <4> SUFFICES ASSUME NEW i \in 1..Len(sent'[s])
                   PROVE  sent'[s][i] = log[first[s] + i]
        BY <3>1
      <4>1. CASE i \in 1..Len(sent[s])
        BY <1>4, <3>1, <4>1 DEF Window
      <4>2. CASE i = Len(sent[s]) + 1
        <5>1. q[1] = log[(first[s] + Len(sent[s])) + 1]
          BY <1>3, <3>1 DEF Window
        <5>2. (first[s] + Len(sent[s])) + 1 = first[s] + i
          BY <3>6, <4>2
        <5> QED
          BY <1>4, <4>2, <5>1, <5>2
      <4> QED
        BY <1>4, <4>1, <4>2
    <3>5. \A i \in 1..Len(write_msgs'[s]) :
             write_msgs'[s][i] = log'[(first'[s] + Len(sent'[s])) + i]
      <4> SUFFICES ASSUME NEW i \in 1..Len(Tail(q))
                   PROVE  Tail(q)[i] = log[(first[s] + (Len(sent[s]) + 1)) + i]
        BY <1>4, <1>5, <3>1
      <4>1. Tail(q)[i] = q[i + 1] /\ i + 1 \in 1..Len(q)
        BY <1>3
      <4>2. q[i + 1] = log[(first[s] + Len(sent[s])) + (i + 1)]
        BY <3>1, <4>1 DEF Window
      <4>3. (first[s] + Len(sent[s])) + (i + 1) = (first[s] + (Len(sent[s]) + 1)) + i
        BY <3>6
      <4> QED
        BY <4>1, <4>2, <4>3
    <3> QED
      BY <2>3, <3>2, <3>3, <3>4, <3>5 DEF Window
  <2> QED
    BY <2>2, <2>3
<1> QED
  BY <1>6, <1>7, <1>8, <1>9

(* A write failed: its session leaves, and nothing restarts its queue. *)
LEMMA WriteFailsInv ==
    ASSUME IInv, NEW s \in Session, OnWrite(s), writing[s].res = "error"
    PROVE  IInv'
<1> USE DEF IInv
<1>1. /\ leave(s)
      /\ writing' = [writing EXCEPT ![s] = None]
      /\ UNCHANGED <<recent_msgs, socket, reading, write_msgs, read_len, log, first, sent>>
  BY DEF OnWrite
<1>2. /\ participants' \subseteq participants
      /\ participants' = participants \ {s}
      /\ last' \in [Session -> Nat]
      /\ \A t \in Session : Limit(t)' = Limit(t)
  BY <1>1, LeaveFacts
<1>3. writing' \in [Session -> Operation({"write"})]
  <2>1. None \in Operation({"write"})
    BY DEF Operation, Result, None
  <2> QED
    BY <1>1, <2>1 DEF TypeOK
<1>4. TypeOK'
  BY <1>1, <1>2, <1>3 DEF TypeOK
<1>5. WriteMatchesQueue' /\ RecentIsSuffix'
  BY <1>1, <1>2 DEF WriteMatchesQueue, RecentIsSuffix, None, TypeOK
<1>6. NewIsEmpty'
  BY <1>1, <1>2 DEF NewIsEmpty, Joined, None, TypeOK
<1>7. Windows'
  BY <1>1, <1>2 DEF Windows, Window, Joined
<1> QED
  BY <1>4, <1>5, <1>6, <1>7

(* The environment ends operations and connections, and touches no queue. *)
LEMMA EnvironmentInv ==
    ASSUME IInv, NEW s \in Session, Environment(s)
    PROVE  IInv'
<1> USE DEF IInv
<1>1. /\ UNCHANGED <<participants, recent_msgs, read_len, write_msgs,
                     log, first, last, sent>>
      /\ \A t \in Session : Joined(t)' = Joined(t)
      /\ \A t \in Session : Limit(t)' = Limit(t)
  BY DEF Environment, CompleteRead, CompleteWrite, PeerShutsDown, PeerResets,
         server, hist, Joined, Limit, TypeOK
<1>2. /\ reading' \in [Session -> Operation({"header", "body"})]
      /\ \A t \in Session : reading'[t].op = reading[t].op
  <2>1. \/ UNCHANGED reading
        \/ \E r \in Result : reading' = [reading EXCEPT ![s] = Done(reading[s], r)]
    BY DEF Environment, CompleteRead, CompleteWrite, PeerShutsDown, PeerResets, Result
  <2>2. reading[s] \in Operation({"header", "body"})
    BY DEF TypeOK
  <2>3. ASSUME NEW r \in Result, reading' = [reading EXCEPT ![s] = Done(reading[s], r)]
        PROVE  /\ reading' \in [Session -> Operation({"header", "body"})]
               /\ \A t \in Session : reading'[t].op = reading[t].op
    <3>1. Done(reading[s], r) \in Operation({"header", "body"}) /\ Done(reading[s], r).op = reading[s].op
      BY <2>2, DoneFacts
    <3> QED
      BY <2>3, <3>1 DEF TypeOK
  <2> QED
    BY <2>1, <2>3 DEF TypeOK
<1>3. /\ writing' \in [Session -> Operation({"write"})]
      /\ \A t \in Session : writing'[t].op = writing[t].op
  <2>1. \/ UNCHANGED writing
        \/ \E r \in Result : writing' = [writing EXCEPT ![s] = Done(writing[s], r)]
    BY DEF Environment, CompleteRead, CompleteWrite, PeerShutsDown, PeerResets, Result
  <2>2. writing[s] \in Operation({"write"})
    BY DEF TypeOK
  <2>3. ASSUME NEW r \in Result, writing' = [writing EXCEPT ![s] = Done(writing[s], r)]
        PROVE  /\ writing' \in [Session -> Operation({"write"})]
               /\ \A t \in Session : writing'[t].op = writing[t].op
    <3>1. Done(writing[s], r) \in Operation({"write"}) /\ Done(writing[s], r).op = writing[s].op
      BY <2>2, DoneFacts
    <3> QED
      BY <2>3, <3>1 DEF TypeOK
  <2> QED
    BY <2>1, <2>3 DEF TypeOK
<1>4. socket' \in [Session -> {"new", "open", "eof", "reset"}]
  BY DEF Environment, CompleteRead, CompleteWrite, PeerShutsDown, PeerResets, TypeOK
<1>5. TypeOK'
  BY <1>1, <1>2, <1>3, <1>4 DEF TypeOK
<1>6. WriteMatchesQueue' /\ RecentIsSuffix' /\ NewIsEmpty'
  BY <1>1, <1>2, <1>3 DEF WriteMatchesQueue, RecentIsSuffix, NewIsEmpty
<1>7. Windows'
  BY <1>1 DEF Windows, Window
<1> QED
  BY <1>5, <1>6, <1>7

LEMMA NextInv == IInv /\ [Next]_vars => IInv'
<1> SUFFICES ASSUME IInv, [Next]_vars PROVE IInv'
  OBVIOUS
<1>1. CASE UNCHANGED vars
  BY <1>1 DEF vars, server, net, hist, IInv, TypeOK, WriteMatchesQueue,
     NewIsEmpty, RecentIsSuffix, Windows, Window, Joined, Limit
<1>2. ASSUME NEW s \in Session, Accept(s) PROVE IInv'
  BY <1>2, AcceptInv
<1>3. ASSUME NEW s \in Session, Environment(s) PROVE IInv'
  BY <1>3, EnvironmentInv
<1>4. ASSUME NEW s \in Session, NEW v \in HeaderValue, OnHeader(s, v) PROVE IInv'
  BY <1>4, OnHeaderInv
<1>5. ASSUME NEW s \in Session, OnBody(s) PROVE IInv'
  <2>1. reading[s].res = "ok" \/ reading[s].res = "error"
    BY <1>5 DEF OnBody
  <2> QED
    BY <1>5, <2>1, PostInv, OnBodyFailsInv
<1>6. ASSUME NEW s \in Session, OnWrite(s) PROVE IInv'
  <2>1. writing[s].res = "ok" \/ writing[s].res = "error"
    BY <1>6 DEF OnWrite
  <2> QED
    BY <1>6, <2>1, WrittenInv, WriteFailsInv
<1> QED
  BY <1>1, <1>2, <1>3, <1>4, <1>5, <1>6 DEF Next, Handler

(* The inductive invariant holds in every state of every behaviour. *)
THEOREM Invariance == Spec => []IInv
<1> QED
  BY InitInv, NextInv, PTL DEF Spec

(* Type correctness of ChatServer; in particular read_len, the length      *)
(* do_read_body hands to async_read, never exceeds the message buffer.     *)
THEOREM TypeCorrect == Spec => []TypeOK
<1>1. IInv => TypeOK
  BY DEF IInv
<1> QED
  BY <1>1, Invariance, PTL

(* A participant's queue is non-empty exactly while one write of it is     *)
(* outstanding.                                                            *)
THEOREM OneWriteAtATime == Spec => []WriteMatchesQueue
<1>1. IInv => WriteMatchesQueue
  BY DEF IInv
<1> QED
  BY <1>1, Invariance, PTL

-----------------------------------------------------------------------------
(* The stream every session sees is a window of the log. *)

LEMMA WindowIsStream == IInv => StreamIsWindow
<1> SUFFICES ASSUME IInv, NEW s \in Session, Joined(s)
             PROVE  sent[s] \o write_msgs[s] = SubSeq(log, first[s] + 1, Limit(s))
  BY DEF StreamIsWindow
<1> DEFINE f == first[s]
           n == Len(sent[s])
           k == Len(write_msgs[s])
           u == sent[s] \o write_msgs[s]
           w == SubSeq(log, f + 1, Limit(s))
<1>1. /\ sent[s] \in Seq(Message) /\ write_msgs[s] \in Seq(Message) /\ log \in Seq(Message)
      /\ f \in Nat /\ n \in Nat /\ k \in Nat /\ Len(log) \in Nat
  BY LenProperties DEF IInv, TypeOK
<1>2. /\ (f + n) + k = Limit(s) /\ Limit(s) <= Len(log) /\ Limit(s) \in Nat
      /\ \A i \in 1..n : sent[s][i] = log[f + i]
      /\ \A i \in 1..k : write_msgs[s][i] = log[(f + n) + i]
  <2>1. Limit(s) \in Nat
    BY <1>1 DEF IInv, TypeOK, Limit
  <2> QED
    BY <2>1 DEF IInv, Windows, Window
<1>3. /\ u \in Seq(Message) /\ Len(u) = n + k
      /\ \A i \in 1..(n + k) :
            u[i] = IF i <= n THEN sent[s][i] ELSE write_msgs[s][i - n]
  BY <1>1, ConcatProperties
<1>4. /\ w \in Seq(Message)
      /\ Len(w) = IF f + 1 <= Limit(s) THEN (Limit(s) - (f + 1)) + 1 ELSE 0
      /\ \A i \in 1..((Limit(s) - (f + 1)) + 1) : w[i] = log[((f + 1) + i) - 1]
  <2>1. f + 1 \in Int /\ Limit(s) \in Int
    BY <1>1, <1>2
  <2>2. \A i \in (f + 1)..Limit(s) : log[i] \in Message
    <3> SUFFICES ASSUME NEW i \in (f + 1)..Limit(s) PROVE log[i] \in Message
      OBVIOUS
    <3>1. i \in 1..Len(log)
      BY <1>1, <1>2
    <3> QED
      BY <1>1, <3>1, ElementOfSeq
  <2> QED
    BY <2>1, <2>2, SubSeqProperties
<1> HIDE DEF u, w
<1>5. Len(w) = n + k /\ (Limit(s) - (f + 1)) + 1 = n + k
  <2> HIDE DEF f, n, k
  <2> QED
    BY <1>1, <1>2, <1>4
<1>6. \A i \in 1..Len(u) : u[i] = w[i]
  <2> SUFFICES ASSUME NEW i \in 1..(n + k) PROVE u[i] = w[i]
    BY <1>3
  <2>1. w[i] = log[f + i]
    <3>1. ((f + 1) + i) - 1 = f + i
      BY <1>1
    <3> QED
      BY <1>4, <1>5, <3>1
  <2>2. CASE i <= n
    <3>1. i \in 1..n
      BY <1>1, <2>2
    <3> QED
      BY <1>2, <1>3, <2>1, <2>2, <3>1
  <2>3. CASE ~(i <= n)
    <3>1. i - n \in 1..k /\ (f + n) + (i - n) = f + i
      <4> HIDE DEF f, n, k
      <4> QED
        BY <1>1, <2>3
    <3> QED
      BY <1>2, <1>3, <2>1, <2>3, <3>1
  <2> QED
    BY <2>2, <2>3
<1> QED
  BY <1>3, <1>4, <1>5, <1>6, SeqEqual DEF u, w

(* Whatever joins, leaves and fails, what a session has written and still  *)
(* has queued is one contiguous part of the room's log.                    *)
THEOREM StreamsAreWindows == Spec => []StreamIsWindow
<1> QED
  BY Invariance, WindowIsStream, PTL

-----------------------------------------------------------------------------
(* A session that has left is out of the room for good. *)

LEMMA NextStaysLeft ==
    ASSUME IInv, Next, NEW t \in Session
    PROVE  StaysLeft(t)
<1> SUFFICES ASSUME Joined(t), t \notin participants
             PROVE  /\ t \notin participants'
                    /\ \/ write_msgs'[t] = write_msgs[t]
                       \/ write_msgs[t] # <<>> /\ write_msgs'[t] = Tail(write_msgs[t])
  BY DEF StaysLeft
<1>1. ASSUME NEW s \in Session, Accept(s)
      PROVE  t # s /\ t \notin participants' /\ write_msgs'[t] = write_msgs[t]
  BY <1>1 DEF Accept, Joined, IInv, TypeOK
<1>2. ASSUME NEW s \in Session, Environment(s)
      PROVE  UNCHANGED <<participants, write_msgs>>
  BY <1>2 DEF Environment, CompleteRead, CompleteWrite, PeerShutsDown, PeerResets, server
<1>3. ASSUME NEW s \in Session, NEW v \in HeaderValue, OnHeader(s, v)
      PROVE  participants' \subseteq participants /\ UNCHANGED write_msgs
  BY <1>3 DEF OnHeader, leave
<1>4. ASSUME NEW s \in Session, OnBody(s)
      PROVE  participants' \subseteq participants /\ write_msgs'[t] = write_msgs[t]
  BY <1>4 DEF OnBody, leave, SessionDeliver
<1>5. ASSUME NEW s \in Session, OnWrite(s)
      PROVE  /\ participants' \subseteq participants
             /\ \/ write_msgs'[t] = write_msgs[t]
                \/ write_msgs[t] # <<>> /\ write_msgs'[t] = Tail(write_msgs[t])
  BY <1>5 DEF OnWrite, leave, IInv, TypeOK, WriteMatchesQueue
<1> QED
  BY <1>1, <1>2, <1>3, <1>4, <1>5 DEF Next, Handler

(* No later step, however delayed its handler, brings a session that left  *)
(* back into the room or queues a message for it.                          *)
THEOREM LeavingIsFinal == Spec => LeftIsFinal
<1>1. IInv /\ [Next]_vars => [\A s \in Session : StaysLeft(s)]_vars
  BY NextStaysLeft
<1> QED
  BY <1>1, Invariance, PTL DEF Spec, LeftIsFinal

-----------------------------------------------------------------------------
(* The server implements the ordered broadcast. *)

LEMMA InitRefines == Init => Broadcast!Init
<1> SUFFICES ASSUME Init PROVE Broadcast!Init
  OBVIOUS
<1>1. Status = [s \in Session |-> "out"]
  BY DEF Init, Status, Joined
<1> QED
  BY <1>1 DEF Init, Broadcast!Init

(* Taking a session out of the room is the abstract Leave, or nothing when *)
(* another handler has done it before.                                     *)
LEMMA LeaveRefines ==
    ASSUME IInv, NEW s \in Session, leave(s), Joined(s),
           UNCHANGED <<socket, log, first, sent>>
    PROVE  Broadcast!Leave(s) \/ UNCHANGED Broadcast!vars
<1>1. CASE s \in participants
  <2>1. Status' = [Status EXCEPT ![s] = "left"]
    BY <1>1 DEF Status, Joined, leave
  <2>2. Status[s] = "in"
    BY <1>1 DEF Status
  <2> QED
    BY <1>1, <2>1, <2>2 DEF leave, Broadcast!Leave
<1>2. CASE s \notin participants
  <2>1. participants' = participants /\ last' = last
    BY <1>2 DEF leave
  <2>2. Status' = Status
    BY <2>1 DEF Status, Joined
  <2> QED
    BY <2>1, <2>2 DEF Broadcast!vars
<1> QED
  BY <1>1, <1>2

LEMMA NextRefines == IInv /\ [Next]_vars => [Broadcast!Next]_(Broadcast!vars)
<1> SUFFICES ASSUME IInv, [Next]_vars
             PROVE  Broadcast!Next \/ UNCHANGED Broadcast!vars
  OBVIOUS
<1>1. CASE UNCHANGED vars
  BY <1>1 DEF vars, server, net, hist, Broadcast!vars, Status, Joined
<1>2. ASSUME NEW s \in Session, Accept(s) PROVE Broadcast!Join(s)
  <2>1. Status[s] = "out" /\ Status' = [Status EXCEPT ![s] = "in"]
    BY <1>2 DEF Accept, Status, Joined, IInv, TypeOK
  <2>2. /\ Len(log) - Len(recent_msgs) \in 0..Len(log)
        /\ Len(log) - (Len(log) - Len(recent_msgs)) <= max_recent_msgs
    <3>1. Len(log) \in Nat /\ Len(recent_msgs) \in Nat
      BY LenProperties DEF IInv, TypeOK
    <3> QED
      BY <3>1, ChatAssumption DEF IInv, RecentIsSuffix
  <2> QED
    BY <1>2, <2>1, <2>2 DEF Accept, Broadcast!Join
<1>3. ASSUME NEW s \in Session, Environment(s) PROVE UNCHANGED Broadcast!vars
  <2>1. UNCHANGED <<participants, log, first, last, sent>>
    BY <1>3 DEF Environment, CompleteRead, CompleteWrite, PeerShutsDown,
                PeerResets, server, hist
  <2>2. \A t \in Session : Joined(t)' = Joined(t)
    BY <1>3 DEF Environment, CompleteRead, CompleteWrite, PeerShutsDown,
                PeerResets, Joined, IInv, TypeOK
  <2> QED
    BY <2>1, <2>2 DEF Broadcast!vars, Status
<1>4. ASSUME NEW s \in Session, NEW v \in HeaderValue, OnHeader(s, v)
      PROVE  Broadcast!Leave(s) \/ UNCHANGED Broadcast!vars
  <2>1. Joined(s) /\ UNCHANGED <<socket, log, first, sent>>
    BY <1>4 DEF OnHeader, IInv, NewIsEmpty
  <2>2. CASE leave(s)
    BY <2>1, <2>2, LeaveRefines
  <2>3. CASE UNCHANGED <<participants, last>>
    BY <2>1, <2>3 DEF Broadcast!vars, Status, Joined
  <2> QED
    BY <1>4, <2>2, <2>3 DEF OnHeader
<1>5. ASSUME NEW s \in Session, OnBody(s)
      PROVE  \/ Broadcast!Leave(s)
             \/ \E x \in Message : Broadcast!Post(x)
             \/ UNCHANGED Broadcast!vars
  <2>1. Joined(s) /\ UNCHANGED <<socket, first, sent>>
    BY <1>5 DEF OnBody, IInv, NewIsEmpty
  <2>2. CASE reading[s].res = "error"
    <3>1. leave(s) /\ UNCHANGED log
      BY <1>5, <2>2 DEF OnBody
    <3> QED
      BY <2>1, <3>1, LeaveRefines
  <2>3. CASE reading[s].res = "ok"
    <3>1. [author |-> s, len |-> read_len[s]] \in Message
      BY DEF IInv, TypeOK, Message
    <3>2. /\ log' = Append(log, [author |-> s, len |-> read_len[s]])
          /\ UNCHANGED <<participants, last>>
      BY <1>5, <2>3 DEF OnBody
    <3>3. UNCHANGED Status
      BY <2>1, <3>2 DEF Status, Joined
    <3> QED
      BY <2>1, <3>1, <3>2, <3>3 DEF Broadcast!Post
  <2> QED
    BY <1>5, <2>2, <2>3 DEF OnBody
<1>6. ASSUME NEW s \in Session, OnWrite(s)
      PROVE  Broadcast!Leave(s) \/ Broadcast!Give(s) \/ UNCHANGED Broadcast!vars
  <2>1. Joined(s) /\ UNCHANGED <<socket, log, first>>
    BY <1>6 DEF OnWrite, IInv, NewIsEmpty
  <2>2. CASE writing[s].res = "error"
    <3>1. leave(s) /\ UNCHANGED sent
      BY <1>6, <2>2 DEF OnWrite
    <3> QED
      BY <2>1, <3>1, LeaveRefines
  <2>3. CASE writing[s].res = "ok"
    <3>1. /\ sent' = [sent EXCEPT ![s] = Append(sent[s], Head(write_msgs[s]))]
          /\ UNCHANGED <<participants, last>>
      BY <1>6, <2>3 DEF OnWrite
    <3>2. UNCHANGED Status
      BY <2>1, <3>1 DEF Status, Joined
    <3>3. Status[s] # "out" /\ Broadcast!Limit(s) = Limit(s)
      BY <2>1 DEF Status, Broadcast!Limit, Limit
    <3>4. /\ write_msgs[s] \in Seq(Message) /\ write_msgs[s] # <<>>
          /\ first[s] \in Nat /\ Len(sent[s]) \in Nat
      BY <1>6, LenProperties DEF OnWrite, IInv, TypeOK, WriteMatchesQueue
    <3>5. /\ Len(write_msgs[s]) \in Nat \ {0}
          /\ Head(write_msgs[s]) = write_msgs[s][1]
      BY <3>4, EmptySeq
    <3>6. /\ (first[s] + Len(sent[s])) + Len(write_msgs[s]) = Limit(s)
          /\ write_msgs[s][1] = log[(first[s] + Len(sent[s])) + 1]
      BY <2>1, <3>5 DEF IInv, Windows, Window
    <3>7. first[s] + Len(sent[s]) < Limit(s)
      <4>1. \A a, b \in Nat, c \in Nat \ {0} : a + b < (a + b) + c
        OBVIOUS
      <4> QED
        BY <3>4, <3>5, <3>6, <4>1
    <3> QED
      BY <2>1, <3>1, <3>2, <3>3, <3>5, <3>6, <3>7 DEF Broadcast!Give
  <2> QED
    BY <1>6, <2>2, <2>3 DEF OnWrite
<1> QED
  BY <1>1, <1>2, <1>3, <1>4, <1>5, <1>6 DEF Next, Handler, Broadcast!Next

(* Every behaviour of the server, with its queues, handlers and failures,  *)
(* is one of the ordered broadcast of a log.                               *)
THEOREM Refinement == Spec => ImplementsBroadcast
<1> QED
  BY InitRefines, NextRefines, Invariance, PTL DEF Spec, ImplementsBroadcast, Broadcast!Spec
=============================================================================

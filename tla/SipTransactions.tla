--------------------------- MODULE SipTransactions --------------------------
(***************************************************************************)
(* basic/exercises/03_sip_transaction/starter.cpp: find_transactions       *)
(* groups the messages of a trace into transactions, in one pass.  A       *)
(* message is reduced to what the grouping reads of it: whether it is a    *)
(* request, the Via branch and sent-by, the CSeq number and method and the *)
(* class of its status; "usable" is false when parse_via or parse_cseq     *)
(* finds nothing.                                                          *)
(***************************************************************************)
EXTENDS Integers, Sequences, FiniteSets

CONSTANTS Branch, SentBy,  \* what a Via says
          Number,          \* CSeq numbers
          Other,           \* a method other than the three below
          Status,          \* classes of status codes that occur
          MaxMessages      \* bound: length of the trace

Method == {"INVITE", "ACK", "CANCEL", Other}

ASSUME SipAssumption ==
    /\ Other \notin {"INVITE", "ACK", "CANCEL"}
    /\ Status \subseteq {"1xx", "2xx", "fail"}     \* fail: 300 to 699
    /\ MaxMessages \in Nat

VARIABLES trace,   \* the messages the loop has passed
          groups,  \* per key, the indices of its messages; none: no group
          order    \* first_seen_order

vars == <<trace, groups, order>>

Key == [branch : Branch, sent_by : SentBy, method : Method]

Message ==
    [usable : {TRUE}, kind : {"request"}, branch : Branch, sent_by : SentBy,
     number : Number, method : Method, status : {"none"}]
    \union
    [usable : {TRUE}, kind : {"response"}, branch : Branch, sent_by : SentBy,
     number : Number, method : Method, status : Status]
    \union
    [usable : {FALSE}, kind : {"request"}]

Init ==
    /\ trace = <<>>
    /\ groups = [k \in Key |-> <<>>]
    /\ order = <<>>

-----------------------------------------------------------------------------
KeyOf(m, method) == [branch |-> m.branch, sent_by |-> m.sent_by, method |-> method]
InviteKey(m) == KeyOf(m, "INVITE")

Index == Len(trace) + 1

(* Mutant: a group is noted every time a message joins it. *)
MutFirstSeen(k) == order' = Append(order, k)

FirstSeen(k) == order' = IF groups[k] = <<>> THEN Append(order, k) ELSE order

add_to_group(k) ==
    /\ FirstSeen(k)
    /\ groups' = [groups EXCEPT ![k] = Append(@, Index)]

(* Mutant: any final response is enough. *)
MutHasFailure(is) == \E i \in 1..Len(is) : trace[is[i]].status \in {"2xx", "fail"}

has_failure_response(is) ==
    \E i \in 1..Len(is) :
        trace[is[i]].kind = "response" /\ trace[is[i]].status = "fail"

has_matching_invite(is, number) ==
    \E i \in 1..Len(is) :
        trace[is[i]].number = number /\ trace[is[i]].method = "INVITE"

Skip == UNCHANGED <<groups, order>>

Unusable(m) == ~m.usable /\ Skip

(* An ACK joins the INVITE transaction after a failure, or is dropped. *)
Ack(m) ==
    /\ m.usable /\ m.kind = "request" /\ m.method = "ACK"
    /\ \/ /\ has_failure_response(groups[InviteKey(m)])
          /\ groups' = [groups EXCEPT ![InviteKey(m)] = Append(@, Index)]
          /\ UNCHANGED order
       \/ /\ ~has_failure_response(groups[InviteKey(m)])
          /\ Skip

(* A CANCEL is a transaction of its own if there is something to cancel. *)
Cancel(m) ==
    /\ m.usable /\ m.kind = "request" /\ m.method = "CANCEL"
    /\ \/ /\ has_matching_invite(groups[InviteKey(m)], m.number)
          /\ add_to_group(KeyOf(m, "CANCEL"))
       \/ /\ ~has_matching_invite(groups[InviteKey(m)], m.number)
          /\ Skip

Ordinary(m) ==
    /\ m.usable
    /\ m.kind = "response" \/ m.method \notin {"ACK", "CANCEL"}
    /\ add_to_group(KeyOf(m, m.method))

(* One turn of the loop of find_transactions. *)
Step(m) ==
    /\ Len(trace) < MaxMessages
    /\ Unusable(m) \/ Ack(m) \/ Cancel(m) \/ Ordinary(m)
    /\ trace' = Append(trace, m)

Next == \E m \in Message : Step(m)

Spec == Init /\ [][Next]_vars

-----------------------------------------------------------------------------
(* Properties *)

(* What the transactions of a trace are, said of the trace alone: j is an  *)
(* earlier message of the INVITE transaction m's Via belongs to.           *)
Earlier(i, j) ==
    /\ j < i /\ trace[j].usable
    /\ trace[j].method = "INVITE" /\ InviteKey(trace[j]) = InviteKey(trace[i])

Belongs(i, k) ==
    LET m == trace[i] IN
    /\ m.usable
    /\ \/ /\ m.kind = "request" /\ m.method = "ACK"
          /\ k = InviteKey(m)
          /\ \E j \in 1..Len(trace) : Earlier(i, j) /\ trace[j].status = "fail"
       \/ /\ m.kind = "request" /\ m.method = "CANCEL"
          /\ k = KeyOf(m, "CANCEL")
          /\ \E j \in 1..Len(trace) : Earlier(i, j) /\ trace[j].number = m.number
       \/ /\ m.kind = "response" \/ m.method \notin {"ACK", "CANCEL"}
          /\ k = KeyOf(m, m.method)

(* One pass that looks only at the groups made so far finds exactly those  *)
(* transactions, each with its messages in the order of the trace.         *)
GroupsAreTransactions ==
    \A k \in Key :
        LET g == groups[k] IN
        /\ \A p, q \in 1..Len(g) : p < q => g[p] < g[q]
        /\ {g[p] : p \in 1..Len(g)} = {i \in 1..Len(trace) : Belongs(i, k)}

(* The result lists every group once, in the order of their first message. *)
OrderIsFirstSeen ==
    /\ \A k \in Key : groups[k] # <<>> <=> \E p \in 1..Len(order) : order[p] = k
    /\ \A p, q \in 1..Len(order) :
          p < q => groups[order[p]][1] < groups[order[q]][1]
=============================================================================

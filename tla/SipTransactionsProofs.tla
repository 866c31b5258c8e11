------------------------ MODULE SipTransactionsProofs -----------------------
(***************************************************************************)
(* Proofs about SipTransactions for traces of any length and any numbers   *)
(* of branches, hosts and CSeq numbers.                                    *)
(***************************************************************************)
EXTENDS SipTransactions, SequenceTheorems, TLAPS

(* Types. *)
SipType ==
    /\ trace \in Seq(Message)
    /\ groups \in [Key -> Seq(Nat)]
    /\ order \in Seq(Key)

IInv == SipType /\ GroupsAreTransactions /\ OrderIsFirstSeen

-----------------------------------------------------------------------------
(* What the loop relies on in a message. *)
LEMMA UsableFields ==
    ASSUME NEW m \in Message, m.usable
    PROVE  /\ m.branch \in Branch /\ m.sent_by \in SentBy /\ m.method \in Method
           /\ m.kind \in {"request", "response"}
           /\ m.status = "fail" => m.kind = "response"
           /\ \A x \in Method : KeyOf(m, x) \in Key
  BY DEF Message, Key, KeyOf

LEMMA UsableIsBoolean == \A m \in Message : m.usable \in BOOLEAN
  BY DEF Message

LEMMA InviteIsMethod == {"INVITE", "ACK", "CANCEL"} \subseteq Method
  BY DEF Method

(* Keys are compared field by field. *)
LEMMA KeysEqual ==
    ASSUME NEW m, NEW n, NEW x, NEW y
    PROVE  KeyOf(m, x) = KeyOf(n, y)
             <=> m.branch = n.branch /\ m.sent_by = n.sent_by /\ x = y
  BY DEF KeyOf

(* A longer trace does not change to which transaction a message belongs.  *)
LEMMA BelongsIsStable ==
    ASSUME NEW m \in Message, trace \in Seq(Message), trace' = Append(trace, m),
           NEW i \in 1..Len(trace), NEW k \in Key
    PROVE  Belongs(i, k)' <=> Belongs(i, k)
<1>1. /\ Len(trace') = Len(trace) + 1 /\ Len(trace) \in Nat
      /\ \A j \in 1..Len(trace) : trace'[j] = trace[j]
  BY AppendProperties
<1>2. \A j \in 1..Len(trace) : Earlier(i, j)' <=> Earlier(i, j)
  BY <1>1 DEF Earlier
<1>3. \A j \in 1..Len(trace') : Earlier(i, j)' => j \in 1..Len(trace)
  BY <1>1 DEF Earlier
<1> QED
  BY <1>1, <1>2, <1>3 DEF Belongs

(* has_failure_response and has_matching_invite look only at the INVITE    *)
(* group; they find what the whole trace has to say.                       *)
LEMMA GroupTellsTrace ==
    ASSUME SipType, GroupsAreTransactions, NEW m \in Message, m.usable
    PROVE  /\ has_failure_response(groups[InviteKey(m)])
                <=> \E j \in 1..Len(trace) :
                       /\ trace[j].usable /\ trace[j].method = "INVITE"
                       /\ InviteKey(trace[j]) = InviteKey(m)
                       /\ trace[j].status = "fail"
           /\ has_matching_invite(groups[InviteKey(m)], m.number)
                <=> \E j \in 1..Len(trace) :
                       /\ trace[j].usable /\ trace[j].method = "INVITE"
                       /\ InviteKey(trace[j]) = InviteKey(m)
                       /\ trace[j].number = m.number
<1> DEFINE k == InviteKey(m)
           g == groups[k]
<1>1. k \in Key
  BY UsableFields, InviteIsMethod DEF InviteKey
<1>2. /\ \A p \in 1..Len(g) : g[p] \in 1..Len(trace) /\ Belongs(g[p], k)
      /\ \A j \in 1..Len(trace) : Belongs(j, k) => \E p \in 1..Len(g) : g[p] = j
  <2>1. {g[p] : p \in 1..Len(g)} = {i \in 1..Len(trace) : Belongs(i, k)}
    BY <1>1 DEF GroupsAreTransactions
  <2> HIDE DEF k, g
  <2> QED
    BY <2>1
<1>3. \A j \in 1..Len(trace) :
         trace[j] \in Message /\ (trace[j].usable =>
           /\ trace[j].kind \in {"request", "response"}
           /\ trace[j].status = "fail" => trace[j].kind = "response")
  BY UsableFields, ElementOfSeq DEF SipType
<1>4. \A j \in 1..Len(trace) :
         (Belongs(j, k) /\ trace[j].method = "INVITE")
           <=> (trace[j].usable /\ trace[j].method = "INVITE"
                  /\ InviteKey(trace[j]) = k)
  BY <1>3, KeysEqual DEF Belongs, InviteKey
<1>5. \A j \in 1..Len(trace) :
         Belongs(j, k) /\ trace[j].kind = "response" => trace[j].method = "INVITE"
  BY <1>3, KeysEqual DEF Belongs, InviteKey
<1> HIDE DEF k, g
<1>6. has_failure_response(g)
        <=> \E j \in 1..Len(trace) : /\ Belongs(j, k)
                                     /\ trace[j].kind = "response"
                                     /\ trace[j].status = "fail"
  BY <1>2 DEF has_failure_response
<1>7. has_matching_invite(g, m.number)
        <=> \E j \in 1..Len(trace) : /\ Belongs(j, k)
                                     /\ trace[j].number = m.number
                                     /\ trace[j].method = "INVITE"
  BY <1>2 DEF has_matching_invite
<1>8. has_failure_response(g)
        <=> \E j \in 1..Len(trace) : /\ trace[j].usable /\ trace[j].method = "INVITE"
                                     /\ InviteKey(trace[j]) = k
                                     /\ trace[j].status = "fail"
  BY <1>3, <1>4, <1>5, <1>6
<1>9. has_matching_invite(g, m.number)
        <=> \E j \in 1..Len(trace) : /\ trace[j].usable /\ trace[j].method = "INVITE"
                                     /\ InviteKey(trace[j]) = k
                                     /\ trace[j].number = m.number
  BY <1>4, <1>7
<1> QED
  BY <1>8, <1>9 DEF k, g

-----------------------------------------------------------------------------
(* One turn of the loop, said of the trace: the new message goes to the    *)
(* end of the groups it belongs to, and a group that was empty goes to the *)
(* end of the order.                                                       *)
Turn(n) ==
    /\ \A k \in Key :
          groups'[k] = IF Belongs(n, k)' THEN Append(groups[k], n)
                                              ELSE groups[k]
    /\ \/ /\ \A k \in Key : Belongs(n, k)' => groups[k] # <<>>
          /\ order' = order
       \/ \E k \in Key : /\ groups[k] = <<>>
                         /\ \A x \in Key : Belongs(n, x)' <=> x = k
                         /\ order' = Append(order, k)

(* What the new message belongs to, in terms of the groups made so far. *)
LEMMA NewBelongs ==
    ASSUME SipType, GroupsAreTransactions, NEW m \in Message,
           trace' = Append(trace, m), NEW k \in Key, NEW n, n = Index
    PROVE  Belongs(n, k)' <=>
             /\ m.usable
             /\ \/ /\ m.kind = "request" /\ m.method = "ACK" /\ k = InviteKey(m)
                   /\ has_failure_response(groups[InviteKey(m)])
                \/ /\ m.kind = "request" /\ m.method = "CANCEL"
                   /\ k = KeyOf(m, "CANCEL")
                   /\ has_matching_invite(groups[InviteKey(m)], m.number)
                \/ /\ m.kind = "response" \/ m.method \notin {"ACK", "CANCEL"}
                   /\ k = KeyOf(m, m.method)
<1>1. /\ Len(trace') = n /\ Len(trace) \in Nat /\ n = Len(trace) + 1 /\ trace'[n] = m
      /\ \A j \in 1..Len(trace) : trace'[j] = trace[j]
  BY AppendProperties DEF SipType, Index
<1>2. \A j \in 1..Len(trace) :
         Earlier(n, j)' <=> /\ trace[j].usable /\ trace[j].method = "INVITE"
                            /\ InviteKey(trace[j]) = InviteKey(m)
  BY <1>1 DEF Earlier
<1>3. ~Earlier(n, n)'
  BY <1>1 DEF Earlier
<1>4. \A j \in 1..Len(trace') : Earlier(n, j)' => j \in 1..Len(trace)
  BY <1>1, <1>3
<1>5. 1..Len(trace) \subseteq 1..Len(trace')
  BY <1>1
<1>6. m.usable =>
        /\ has_failure_response(groups[InviteKey(m)])
             <=> \E j \in 1..Len(trace') : Earlier(n, j)' /\ trace'[j].status = "fail"
        /\ has_matching_invite(groups[InviteKey(m)], m.number)
             <=> \E j \in 1..Len(trace') : Earlier(n, j)' /\ trace'[j].number = m.number
  <2> HAVE m.usable
  <2> QED
    BY <1>1, <1>2, <1>4, <1>5, GroupTellsTrace
<1>7. Belongs(n, k)' <=>
        /\ m.usable
        /\ \/ /\ m.kind = "request" /\ m.method = "ACK" /\ k = InviteKey(m)
              /\ \E j \in 1..Len(trace') : Earlier(n, j)' /\ trace'[j].status = "fail"
           \/ /\ m.kind = "request" /\ m.method = "CANCEL" /\ k = KeyOf(m, "CANCEL")
              /\ \E j \in 1..Len(trace') : Earlier(n, j)' /\ trace'[j].number = m.number
           \/ /\ m.kind = "response" \/ m.method \notin {"ACK", "CANCEL"}
              /\ k = KeyOf(m, m.method)
  BY <1>1 DEF Belongs
<1> QED
  BY <1>6, <1>7

LEMMA StepIsTurn ==
    ASSUME SipType, GroupsAreTransactions, NEW m \in Message, Step(m),
           NEW n, n = Index
    PROVE  SipType' /\ Turn(n)
<1>1. n \in Nat /\ trace' = Append(trace, m) /\ trace' \in Seq(Message)
  BY AppendProperties DEF SipType, Step, Index
<1> DEFINE Joins(x) == /\ groups' = [groups EXCEPT ![x] = Append(groups[x], n)]
                       /\ \A k \in Key : Belongs(n, k)' <=> k = x
<1>2. CASE UNCHANGED <<groups, order>> /\ \A k \in Key : ~Belongs(n, k)'
  BY <1>1, <1>2 DEF SipType, Turn
<1>3. ASSUME NEW x \in Key, Joins(x),
             FirstSeen(x) \/ (order' = order /\ groups[x] # <<>>)
      PROVE  SipType' /\ Turn(n)
  <2>1. groups[x] \in Seq(Nat) /\ Append(groups[x], n) \in Seq(Nat)
    BY <1>1, AppendProperties DEF SipType
  <2>2. Append(order, x) \in Seq(Key) /\ order \in Seq(Key)
    BY AppendProperties DEF SipType
  <2>3. SipType'
    BY <1>1, <1>3, <2>1, <2>2 DEF SipType, FirstSeen
  <2>4. \A k \in Key : groups'[k] = IF Belongs(n, k)' THEN Append(groups[k], n)
                                                      ELSE groups[k]
    BY <1>3 DEF SipType
  <2>5. \/ groups[x] # <<>> /\ order' = order
        \/ groups[x] = <<>> /\ order' = Append(order, x)
    BY <1>3 DEF FirstSeen
  <2> QED
    BY <1>3, <2>3, <2>4, <2>5 DEF Turn
<1>4. CASE Unusable(m)
  BY <1>1, <1>2, <1>4, NewBelongs DEF Unusable, Skip
<1>5. CASE Ack(m)
  <2>1. m.usable /\ InviteKey(m) \in Key
    BY <1>5, UsableFields, InviteIsMethod DEF Ack, InviteKey
  <2>2. m.kind = "request" /\ m.method = "ACK"
    BY <1>5 DEF Ack
  <2>3. CASE ~has_failure_response(groups[InviteKey(m)]) /\ Skip
    BY <1>1, <1>2, <2>1, <2>2, <2>3, NewBelongs DEF Skip
  <2>4. CASE /\ has_failure_response(groups[InviteKey(m)])
             /\ groups' = [groups EXCEPT ![InviteKey(m)] = Append(@, Index)]
             /\ UNCHANGED order
    <3>1. groups[InviteKey(m)] # <<>>
      BY <2>4, EmptySeq DEF has_failure_response
    <3>2. Joins(InviteKey(m))
      BY <1>1, <2>1, <2>2, <2>4, NewBelongs
    <3> QED
      BY <1>3, <2>1, <2>4, <3>1, <3>2
  <2> QED
    BY <1>5, <2>3, <2>4 DEF Ack
<1>6. CASE Cancel(m)
  <2>1. m.usable /\ KeyOf(m, "CANCEL") \in Key
    BY <1>6, UsableFields, InviteIsMethod DEF Cancel
  <2>2. m.kind = "request" /\ m.method = "CANCEL"
    BY <1>6 DEF Cancel
  <2>3. CASE ~has_matching_invite(groups[InviteKey(m)], m.number) /\ Skip
    BY <1>1, <1>2, <2>1, <2>2, <2>3, NewBelongs DEF Skip
  <2>4. CASE /\ has_matching_invite(groups[InviteKey(m)], m.number)
             /\ add_to_group(KeyOf(m, "CANCEL"))
    <3>1. Joins(KeyOf(m, "CANCEL"))
      BY <1>1, <2>1, <2>2, <2>4, NewBelongs DEF add_to_group
    <3> QED
      BY <1>3, <2>1, <2>4, <3>1 DEF add_to_group
  <2> QED
    BY <1>6, <2>3, <2>4 DEF Cancel
<1>7. CASE Ordinary(m)
  <2>1. m.usable /\ KeyOf(m, m.method) \in Key
    BY <1>7, UsableFields DEF Ordinary
  <2>2. /\ m.kind = "response" \/ m.method \notin {"ACK", "CANCEL"}
        /\ m.kind = "response" => m.kind # "request"
    BY <1>7 DEF Ordinary
  <2>3. Joins(KeyOf(m, m.method))
    BY <1>1, <1>7, <2>1, <2>2, NewBelongs DEF Ordinary, add_to_group
  <2> QED
    BY <1>3, <1>7, <2>1, <2>3 DEF Ordinary, add_to_group
<1> QED
  BY <1>4, <1>5, <1>6, <1>7 DEF Step

(* The groups stay the transactions of the trace. *)
LEMMA TurnKeepsGroups ==
    ASSUME SipType, GroupsAreTransactions, NEW m \in Message,
           trace' = Append(trace, m), NEW n, n = Index, Turn(n)
    PROVE  GroupsAreTransactions'
<1>1. /\ Len(trace') = n /\ Len(trace) \in Nat /\ n = Len(trace) + 1
  BY AppendProperties DEF SipType, Index
<1> SUFFICES ASSUME NEW k \in Key
             PROVE  /\ \A p, q \in 1..Len(groups'[k]) :
                          p < q => groups'[k][p] < groups'[k][q]
                    /\ {groups'[k][p] : p \in 1..Len(groups'[k])}
                         = {i \in 1..Len(trace') : Belongs(i, k)'}
  BY DEF GroupsAreTransactions
<1> DEFINE g == groups[k]
           h == groups'[k]
<1>2. /\ g \in Seq(Nat)
      /\ \A p, q \in 1..Len(g) : p < q => g[p] < g[q]
      /\ {g[p] : p \in 1..Len(g)} = {i \in 1..Len(trace) : Belongs(i, k)}
  BY DEF SipType, GroupsAreTransactions
<1>3. \A i \in 1..Len(trace) : Belongs(i, k)' <=> Belongs(i, k)
  BY BelongsIsStable DEF SipType
<1>4. h = IF Belongs(n, k)' THEN Append(g, n) ELSE g
  BY DEF Turn
<1> HIDE DEF g, h
<1>5. \A p \in 1..Len(g) : g[p] \in 1..Len(trace)
  BY <1>2
<1>6. {i \in 1..Len(trace') : Belongs(i, k)'}
        = {i \in 1..Len(trace) : Belongs(i, k)} \union
          (IF Belongs(n, k)' THEN {n} ELSE {})
  BY <1>1, <1>3
<1>7. CASE ~Belongs(n, k)'
  BY <1>2, <1>4, <1>6, <1>7 DEF h
<1>8. CASE Belongs(n, k)'
  <2>1. /\ h = Append(g, n) /\ Len(g) \in Nat /\ Len(h) = Len(g) + 1 /\ h[Len(g) + 1] = n
        /\ \A p \in 1..Len(g) : h[p] = g[p]
    BY <1>1, <1>2, <1>4, <1>8, AppendProperties
  <2>2. \A p, q \in 1..Len(h) : p < q => h[p] < h[q]
    BY <1>1, <1>2, <1>5, <2>1
  <2>3. {h[p] : p \in 1..Len(h)} = {g[p] : p \in 1..Len(g)} \union {n}
    BY <2>1
  <2> QED
    BY <1>2, <1>6, <1>8, <2>2, <2>3 DEF h
<1> QED
  BY <1>7, <1>8

(* The order stays that of the first messages. *)
LEMMA TurnKeepsOrder ==
    ASSUME SipType, SipType', GroupsAreTransactions, OrderIsFirstSeen, NEW n, n = Index,
           Turn(n)
    PROVE  OrderIsFirstSeen'
<1>1. n \in Nat /\ \A k \in Key : groups[k] \in Seq(Nat)
  BY DEF SipType, Index
<1>2. \A k \in Key : groups[k] # <<>> =>
         groups'[k] # <<>> /\ groups'[k][1] = groups[k][1] /\ groups[k][1] < n
  <2> TAKE k \in Key
  <2> HAVE groups[k] # <<>>
  <2> DEFINE g == groups[k]
  <2>1. g \in Seq(Nat) /\ Len(g) \in Nat \ {0} /\ 1 \in 1..Len(g)
    BY <1>1, EmptySeq
  <2>2. {g[p] : p \in 1..Len(g)} \subseteq 1..Len(trace)
    BY DEF GroupsAreTransactions
  <2>3. g[1] < n
    <3> HIDE DEF g
    <3>1. g[1] \in 1..Len(trace) /\ Len(trace) \in Nat
      BY <2>1, <2>2 DEF SipType
    <3> QED
      BY <3>1 DEF Index
  <2>4. Append(g, n)[1] = g[1] /\ Append(g, n) # <<>>
    BY <1>1, <2>1, AppendProperties
  <2> QED
    BY <2>3, <2>4 DEF Turn
<1>3. \A k \in Key : groups[k] = <<>> =>
         groups'[k] = IF Belongs(n, k)' THEN <<n>> ELSE <<>>
  <2>1. Append(<<>>, n) = <<n>>
    OBVIOUS
  <2> QED
    BY <2>1 DEF Turn
<1>4. \A p \in 1..Len(order) : order[p] \in Key /\ groups[order[p]] # <<>>
  <2>1. \A p \in 1..Len(order) : order[p] \in Key
    BY ElementOfSeq DEF SipType
  <2> QED
    BY <2>1 DEF OrderIsFirstSeen
<1>5. CASE order' = order /\ \A k \in Key : Belongs(n, k)' => groups[k] # <<>>
  <2>1. \A k \in Key : groups'[k] # <<>> <=> groups[k] # <<>>
    BY <1>2, <1>3, <1>5
  <2> QED
    BY <1>2, <1>4, <1>5, <2>1 DEF OrderIsFirstSeen
<1>6. ASSUME NEW k \in Key, groups[k] = <<>>, order' = Append(order, k),
             \A x \in Key : Belongs(n, x)' <=> x = k
      PROVE  OrderIsFirstSeen'
  <2> DEFINE l == Len(order)
  <2>1. /\ l \in Nat /\ Len(order') = l + 1 /\ order'[l + 1] = k
        /\ \A p \in 1..l : order'[p] = order[p]
    BY <1>6, AppendProperties DEF SipType
  <2>2. groups'[k] = <<n>> /\ groups'[k] # <<>> /\ groups'[k][1] = n
    BY <1>3, <1>6
  <2>3. \A x \in Key : x # k => (groups'[x] # <<>> <=> groups[x] # <<>>)
    BY <1>2, <1>3, <1>6
  <2>4. \A p \in 1..l : /\ order[p] \in Key /\ order[p] # k
                        /\ groups'[order[p]][1] = groups[order[p]][1]
                        /\ groups[order[p]][1] < n
    BY <1>2, <1>4, <1>6
  <2> HIDE DEF l
  <2>5. \A x \in Key : groups'[x] # <<>> <=> \E p \in 1..l + 1 : order'[p] = x
    <3> TAKE x \in Key
    <3>1. groups[x] # <<>> <=> \E p \in 1..l : order[p] = x
      BY DEF OrderIsFirstSeen, l
    <3>2. (\E p \in 1..l + 1 : order'[p] = x)
            <=> (\E p \in 1..l : order[p] = x) \/ x = k
      <4>1. \A p \in 1..l + 1 : p \in 1..l \/ p = l + 1
        BY <2>1
      <4>2. 1..l \subseteq 1..l + 1 /\ l + 1 \in 1..l + 1
        BY <2>1
      <4> QED
        BY <2>1, <4>1, <4>2
    <3> QED
      BY <2>2, <2>3, <3>1, <3>2
  <2>6. \A p, q \in 1..l + 1 :
           p < q => groups'[order'[p]][1] < groups'[order'[q]][1]
    <3> TAKE p, q \in 1..l + 1
    <3> HAVE p < q
    <3>1. p \in 1..l /\ (q \in 1..l \/ q = l + 1)
      BY <2>1
    <3>2. CASE q \in 1..l
      BY <2>1, <2>4, <3>1, <3>2 DEF OrderIsFirstSeen, l
    <3>3. CASE q = l + 1
      BY <2>1, <2>2, <2>4, <3>1, <3>3
    <3> QED
      BY <3>1, <3>2, <3>3
  <2> QED
    BY <2>1, <2>5, <2>6 DEF OrderIsFirstSeen
<1> QED
  BY <1>5, <1>6 DEF Turn

LEMMA InitInv == Init => IInv
<1> SUFFICES ASSUME Init PROVE IInv
  OBVIOUS
<1>1. SipType
  BY EmptySeq DEF Init, SipType
<1>2. trace = <<>> /\ order = <<>> /\ \A k \in Key : groups[k] = <<>>
  BY DEF Init
<1>3. Len(<<>>) = 0 /\ 1..0 = {}
  OBVIOUS
<1> QED
  BY <1>1, <1>2, <1>3 DEF IInv, GroupsAreTransactions, OrderIsFirstSeen

LEMMA NextInv ==
    ASSUME IInv, [Next]_vars
    PROVE  IInv'
<1>1. CASE UNCHANGED vars
  BY <1>1 DEF vars, IInv, SipType, GroupsAreTransactions, OrderIsFirstSeen,
     Belongs, Earlier
<1>2. CASE Next
  <2>1. PICK m \in Message : Step(m)
    BY <1>2 DEF Next
  <2>2. PICK n : n = Index
    OBVIOUS
  <2>3. trace' = Append(trace, m)
    BY <2>1 DEF Step
  <2>4. SipType' /\ Turn(n)
    BY <2>1, <2>2, StepIsTurn DEF IInv
  <2> QED
    BY <2>2, <2>3, <2>4, TurnKeepsGroups, TurnKeepsOrder DEF IInv
<1> QED
  BY <1>1, <1>2

(* The inductive invariant holds in every reachable state. *)
THEOREM Invariance == Spec => []IInv
  BY InitInv, NextInv, PTL DEF Spec

(* find_transactions makes exactly the transactions of the trace although  *)
(* it decides about an ACK or a CANCEL from the groups made so far: what   *)
(* it looks up there is all that the trace has to say about it.            *)
THEOREM GroupsAreExact == Spec => []GroupsAreTransactions
<1>1. IInv => GroupsAreTransactions
  BY DEF IInv
<1> QED
  BY <1>1, Invariance, PTL

(* first_seen_order has every group once, in the order of first messages.  *)
THEOREM OrderIsExact == Spec => []OrderIsFirstSeen
<1>1. IInv => OrderIsFirstSeen
  BY DEF IInv
<1> QED
  BY <1>1, Invariance, PTL
=============================================================================

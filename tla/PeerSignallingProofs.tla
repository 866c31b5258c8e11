------------------------ MODULE PeerSignallingProofs ------------------------
(***************************************************************************)
(* Proofs about PeerSignalling for any number of clients, of connections   *)
(* the server takes and of things the clients do.                          *)
(***************************************************************************)
EXTENDS PeerSignalling, SequenceTheorems, FiniteSetTheorems, TLAPS

Owner == Client \cup {"browser"}
Key == Owner \X (Nat \ {0})
Text == {"", "message", "Server shutting down"}
Path == {"", "/sign_in", "/wait", "/sign_out", "/message", "/", "/quit"}
Answer == [status : Nat, pragma : Int, entries : Seq(Int \X BOOLEAN), text : Text]
Ends == {"syn", "backlog", "accepted", "closed"}

IsRequest(x) == x \in [path : Path, peer_id : Int, to : {x.to}, text : Text]

IsLink(x) ==
  /\ x \in [open : BOOLEAN, end : Ends, left : Int, resp : Seq(Answer), req : {x.req}]
  /\ IsRequest(x.req)

(* The connections: finitely many, each with its record. *)
Net(net) ==
  /\ IsFiniteSet(DOMAIN net) /\ DOMAIN net \subseteq Key
  /\ net = [k \in DOMAIN net |-> net[k]]
  /\ \A k \in DOMAIN net : IsLink(net[k])

Peer == [id : Nat, waiting : Key \cup {NoSocket}, queue : Seq(Answer),
         connected : BOOLEAN, age : Nat, log : Seq(Answer)]

-----------------------------------------------------------------------------
(* Induction over an interval, by a set of numbers *)

LEMMA Least ==
  ASSUME NEW T \in SUBSET Nat, T # {}
  PROVE  \E n \in T : \A m \in T : n <= m
<1> DEFINE R == {ss \in Nat \X Nat : ss[1] < ss[2]}
<1>1. IsWellFoundedOn(R, Nat)
  BY NatLessThanWellFounded, Zenon DEF OpToRel
<1>2. \A x, y \in Nat : y < x => <<y, x>> \in R
  OBVIOUS
<1> HIDE DEF R
<1>3. PICK x \in T : \A y \in T : <<y, x>> \notin R
  BY <1>1, WFMin
<1>4. \A y \in T : ~(y < x)
  BY <1>2, <1>3
<1> QED
  BY <1>4

LEMMA IntervalInduction ==
  ASSUME NEW N \in Nat, NEW S, 0 \in S, \A n \in 1..N : n - 1 \in S => n \in S
  PROVE  \A n \in 0..N : n \in S
<1> DEFINE T == 0..N \ S
<1>1. SUFFICES ASSUME T # {} PROVE FALSE
  OBVIOUS
<1>2. PICK n \in T : \A m \in T : n <= m
  <2>1. T \in SUBSET Nat
    OBVIOUS
  <2> HIDE DEF T
  <2> QED
    BY <1>1, <2>1, Least
<1>3. n \in 1..N /\ n - 1 \in 0..N /\ n - 1 \notin T
  BY <1>2
<1> QED
  BY <1>2, <1>3

-----------------------------------------------------------------------------
(* Vectors and socket numbers *)

LEMMA RemoveAtFacts ==
  ASSUME NEW S, NEW s \in Seq(S), NEW i \in 1..Len(s)
  PROVE  /\ RemoveAt(s, i) \in Seq(S) /\ Len(RemoveAt(s, i)) = Len(s) - 1
         /\ \A j \in 1..Len(s) - 1 :
              RemoveAt(s, i)[j] = IF j < i THEN s[j] ELSE s[j + 1]
<1>1. Len(s) \in Nat
  OBVIOUS
<1>2. PICK a : a = SubSeq(s, 1, i - 1)
  OBVIOUS
<1>3. PICK b : b = SubSeq(s, i + 1, Len(s))
  OBVIOUS
<1>4. a \in Seq(S) /\ Len(a) = i - 1 /\ \A j \in 1..i - 1 : a[j] = s[j]
  BY <1>1, <1>2, SubSeqProperties
<1>5. b \in Seq(S) /\ Len(b) = Len(s) - i /\ \A j \in 1..Len(s) - i : b[j] = s[i + j]
  BY <1>1, <1>3, SubSeqProperties
<1>6. PICK c : c = a \o b
  OBVIOUS
<1>7. /\ c \in Seq(S) /\ Len(c) = Len(a) + Len(b)
      /\ \A j \in 1..Len(a) + Len(b) : c[j] = IF j <= Len(a) THEN a[j] ELSE b[j - Len(a)]
  BY <1>4, <1>5, <1>6, ConcatProperties
<1>8. PICK n \in Nat : n = Len(s) /\ i \in 1..n
  BY <1>1
<1>9. Len(a) + Len(b) = n - 1
  <2>1. Len(a) = i - 1 /\ Len(b) = n - i
    BY <1>4, <1>5, <1>8
  <2>2. (i - 1) + (n - i) = n - 1
    BY <1>8
  <2> QED
    BY <2>1, <2>2
<1>10. \A j \in 1..n - 1 : c[j] = IF j <= i - 1 THEN a[j] ELSE b[j - (i - 1)]
  BY <1>4, <1>7, <1>9
<1>11. RemoveAt(s, i) = c
  BY <1>2, <1>3, <1>6 DEF RemoveAt
<1>12. ASSUME NEW j \in 1..Len(s) - 1, j < i
      PROVE  c[j] = s[j]
  <2>1. j <= i - 1 /\ j \in 1..i - 1 /\ j \in 1..n - 1
    BY <1>12, <1>8
  <2> QED
    BY <1>4, <1>10, <2>1
<1>13. ASSUME NEW j \in 1..Len(s) - 1, ~(j < i)
       PROVE  c[j] = s[j + 1]
  <2>1. c[j] = b[j - (i - 1)] /\ j - (i - 1) \in 1..Len(s) - i
    <3>1. ~(j <= i - 1) /\ j \in 1..n - 1 /\ j - (i - 1) \in 1..n - i
      BY <1>13, <1>8
    <3> QED
      BY <1>8, <1>10, <3>1
  <2>2. b[j - (i - 1)] = s[i + (j - (i - 1))]
    BY <1>5, <2>1
  <2>3. i + (j - (i - 1)) = j + 1
    BY <1>1
  <2> QED
    BY <2>1, <2>2, <2>3
<1>14. c \in Seq(S) /\ Len(c) = Len(s) - 1
  BY <1>1, <1>4, <1>5, <1>7
<1> QED
  BY <1>11, <1>12, <1>13, <1>14

(* A new socket gets a number that its owner does not use. *)
LEMMA FreshFacts ==
  ASSUME NEW net, Net(net), NEW o \in Owner
  PROVE  Fresh(net, o) \in Key /\ Fresh(net, o) \notin DOMAIN net /\ Fresh(net, o)[1] = o
<1> DEFINE D == {j \in DOMAIN net : j[1] = o}
           taken == {k[2] : k \in D}
           C == Cardinality(taken)
<1>1. IsFiniteSet(taken) /\ C \in Nat
  <2>1. IsFiniteSet(D)
    BY FS_Subset DEF Net
  <2> DEFINE f == [k \in D |-> k[2]]
  <2>2. f \in Surjection(D, taken)
    BY DEF Surjection
  <2> HIDE DEF D, taken, f
  <2>3. IsFiniteSet(taken)
    BY <2>1, <2>2, FS_Surjection
  <2> QED
    BY <2>3, FS_CardinalityType
<1>2. \E n \in 1..C + 1 : n \notin taken
  <2> HIDE DEF taken
  <2>1. SUFFICES ASSUME 1..C + 1 \in SUBSET taken PROVE FALSE
    OBVIOUS
  <2>2. Cardinality(1..C + 1) <= C
    BY <1>1, <2>1, FS_Subset
  <2>3. Cardinality(1..C + 1) = C + 1
    BY <1>1, FS_Interval
  <2> QED
    BY <1>1, <2>2, <2>3
<1> DEFINE T == {n \in 1..C + 1 : n \notin taken}
<1> HIDE DEF C, taken
<1>3. PICK n \in T : \A m \in T : n <= m
  <2>1. T \in SUBSET Nat /\ T # {}
    BY <1>1, <1>2
  <2> HIDE DEF T
  <2> QED
    BY <2>1, Least
<1>4. n \in 1..C + 1 /\ n \notin taken /\ \A i \in 1..n - 1 : i \in taken
  <2>1. ASSUME NEW i \in 1..n - 1 PROVE i \in taken
    <3>1. i \in 1..C + 1 /\ ~(n <= i)
      BY <1>1, <1>3
    <3> QED
      BY <1>3, <3>1
  <2> QED
    BY <1>3, <2>1
<1> DEFINE x == CHOOSE n2 \in 1..C + 1 : n2 \notin taken /\ \A i \in 1..n2 - 1 : i \in taken
<1>5. x \in 1..C + 1 /\ x \notin taken
  BY <1>4
<1>6. Fresh(net, o) = <<o, x>>
  BY DEF Fresh, C, taken
<1> HIDE DEF x
<1>7. x \in Nat \ {0}
  BY <1>1, <1>5
<1>8. <<o, x>> \notin DOMAIN net
  BY <1>5 DEF taken
<1> QED
  BY <1>6, <1>7, <1>8 DEF Key

-----------------------------------------------------------------------------
(* Responses *)

(* The server's ends of the connections and the requests stay as they are. *)
SameLinks(a, b) ==
  /\ DOMAIN b = DOMAIN a
  /\ \A k \in DOMAIN a : b[k].open = a[k].open /\ b[k].end = a[k].end /\ b[k].req = a[k].req

LEMMA SameLinksTransitive ==
  ASSUME NEW a, NEW b, NEW c, SameLinks(a, b), SameLinks(b, c)
  PROVE  SameLinks(a, c)
BY DEF SameLinks

LEMMA SameLinksReflexive == \A a : SameLinks(a, a)
BY DEF SameLinks

LEMMA ResponseFacts ==
  ASSUME NEW status \in Nat, NEW pragma \in Int, NEW entries \in Seq(Int \X BOOLEAN),
         NEW text \in Text
  PROVE  Response(status, pragma, entries, text) \in Answer
BY DEF Response, Answer

LEMMA GivenFacts ==
  ASSUME NEW x, IsLink(x), NEW r \in Answer
  PROVE  /\ IsLink(Given(x, r)) /\ Given(x, r).open = x.open
         /\ Given(x, r).end = x.end /\ Given(x, r).req = x.req
BY DEF IsLink, Given

LEMMA SendFacts ==
  ASSUME NEW net, Net(net), NEW k \in DOMAIN net, NEW r \in Answer
  PROVE  Net(Send(net, k, r)) /\ SameLinks(net, Send(net, k, r))
<1>1. CASE ~net[k].open
  BY <1>1, SameLinksReflexive DEF Send
<1>2. CASE net[k].open
  <2>1. PICK y : y = Given(net[k], r)
    OBVIOUS
  <2>2. PICK b : b = Send(net, k, r)
    OBVIOUS
  <2>3. b = [net EXCEPT ![k] = y]
    BY <1>2, <2>1, <2>2 DEF Send
  <2>4. /\ IsLink(y) /\ y.open = net[k].open /\ y.end = net[k].end /\ y.req = net[k].req
    BY <2>1, GivenFacts DEF Net
  <2>5. DOMAIN b = DOMAIN net /\ \A j \in DOMAIN net : b[j] = IF j = k THEN y ELSE net[j]
    BY <2>3
  <2>6. SameLinks(net, b)
    BY <2>4, <2>5 DEF SameLinks
  <2>7. b = [j \in DOMAIN b |-> b[j]]
    BY <2>3, <2>5
  <2>8. Net(b)
    BY <2>4, <2>5, <2>7 DEF Net
  <2> QED
    BY <2>2, <2>6, <2>8
<1> QED
  BY <1>1, <1>2 DEF Net, IsLink

LEMMA QueuedFacts ==
  ASSUME NEW m \in Peer, NEW r \in Answer
  PROVE  /\ Queued(m, r) \in Peer /\ Queued(m, r).id = m.id
         /\ Queued(m, r).connected = m.connected /\ Queued(m, r).waiting = NoSocket
BY DEF Queued, Peer

(* What QueueResponse of the members at the positions `to` leaves. *)
Told(w, to, out) ==
  /\ out.members \in Seq(Peer) /\ Len(out.members) = Len(w.members)
  /\ \A i \in 1..Len(w.members) :
       /\ out.members[i].id = w.members[i].id
       /\ out.members[i].connected = w.members[i].connected
       /\ out.members[i].waiting = IF i \in to THEN NoSocket ELSE w.members[i].waiting
  /\ Net(out.conn) /\ SameLinks(w.conn, out.conn)

LEMMA QueueResponseFacts ==
  ASSUME NEW w, w.members \in Seq(Peer), Net(w.conn), NEW to \in SUBSET DOMAIN w.members,
         NEW r, \A i \in DOMAIN w.members : r[i] \in Answer
  PROVE  Told(w, to, QueueResponse(w, to, r))
<1> DEFINE Waits(k) == {i \in to : w.members[i].waiting = k}
           y(k) == Given(w.conn[k], r[CHOOSE i \in Waits(k) : TRUE])
<1>1. PICK out : out = QueueResponse(w, to, r)
  OBVIOUS
<1>2. PICK ms : ms = w.members
  OBVIOUS
<1>3. /\ out.members = [i \in DOMAIN ms |->
                          IF i \in to THEN Queued(ms[i], r[i]) ELSE ms[i]]
      /\ out.conn = [k \in DOMAIN w.conn |->
                       IF Waits(k) = {} \/ ~w.conn[k].open THEN w.conn[k] ELSE y(k)]
  BY <1>1, <1>2 DEF QueueResponse
<1>4. Len(ms) \in Nat /\ DOMAIN ms = 1..Len(ms) /\ \A i \in 1..Len(ms) : ms[i] \in Peer
  BY <1>2, LenProperties, ElementOfSeq
<1>5. \A i \in 1..Len(ms) :
        LET m == out.members[i]
        IN  /\ m \in Peer /\ m.id = ms[i].id /\ m.connected = ms[i].connected
            /\ m.waiting = IF i \in to THEN NoSocket ELSE ms[i].waiting
  BY <1>2, <1>3, <1>4, QueuedFacts
<1>6. out.members \in Seq(Peer) /\ Len(out.members) = Len(ms)
  <2>1. out.members = [i \in 1..Len(ms) |-> out.members[i]]
    BY <1>3, <1>4
  <2> QED
    BY <1>4, <1>5, <2>1, IsASeq, LenProperties
<1>7. ASSUME NEW k \in DOMAIN w.conn, Waits(k) # {}
      PROVE  /\ IsLink(y(k)) /\ y(k).open = w.conn[k].open
             /\ y(k).end = w.conn[k].end /\ y(k).req = w.conn[k].req
  <2>1. PICK i : i = CHOOSE j \in Waits(k) : TRUE
    OBVIOUS
  <2>2. i \in to
    BY <1>7, <2>1
  <2>3. r[i] \in Answer /\ IsLink(w.conn[k])
    BY <2>2 DEF Net
  <2>4. y(k) = Given(w.conn[k], r[i])
    BY <2>1
  <2> HIDE DEF y
  <2> QED
    BY <2>3, <2>4, GivenFacts
<1> HIDE DEF y, Waits
<1>8. \A k \in DOMAIN w.conn :
        /\ IsLink(out.conn[k]) /\ out.conn[k].open = w.conn[k].open
        /\ out.conn[k].end = w.conn[k].end /\ out.conn[k].req = w.conn[k].req
  BY <1>3, <1>7 DEF Net
<1>9. DOMAIN out.conn = DOMAIN w.conn /\ out.conn = [k \in DOMAIN out.conn |-> out.conn[k]]
  BY <1>3
<1>10. Net(out.conn) /\ SameLinks(w.conn, out.conn)
  BY <1>8, <1>9 DEF Net, SameLinks
<1> QED
  BY <1>1, <1>2, <1>5, <1>6, <1>10 DEF Told

-----------------------------------------------------------------------------
(* The channel *)

(* The members are typed, their ids are from the counter and distinct, and *)
(* each one that waits does so on a socket of ks that asked for it.        *)
WaitsOn(m, net, ks) ==
  m.waiting # NoSocket =>
    /\ m.waiting \in ks
    /\ net[m.waiting].req.path = "/wait" /\ net[m.waiting].req.peer_id = m.id

Channel(w, id, ks) ==
  /\ w.members \in Seq(Peer) /\ Net(w.conn) /\ ks \subseteq DOMAIN w.conn
  /\ \A i \in 1..Len(w.members) : w.members[i].id \in 1..id
  /\ \A i, j \in 1..Len(w.members) : w.members[i].id = w.members[j].id => i = j
  /\ \A i \in 1..Len(w.members) : WaitsOn(w.members[i], w.conn, ks)

LEMMA MembersFacts ==
  ASSUME NEW ms \in Seq(Peer)
  PROVE  /\ Len(ms) \in Nat /\ DOMAIN ms = 1..Len(ms)
         /\ \A i \in 1..Len(ms) :
              /\ ms[i] \in Peer /\ ms[i].id \in Nat /\ ms[i].connected \in BOOLEAN
              /\ ms[i].waiting \in Key \cup {NoSocket}
<1>1. Len(ms) \in Nat /\ DOMAIN ms = 1..Len(ms) /\ \A i \in 1..Len(ms) : ms[i] \in Peer
  BY LenProperties, ElementOfSeq
<1> QED
  BY <1>1 DEF Peer

LEMMA ToldChannel ==
  ASSUME NEW w, NEW id, NEW ks, Channel(w, id, ks), NEW to, NEW out, Told(w, to, out)
  PROVE  Channel(out, id, ks)
<1>1. out.members \in Seq(Peer) /\ Net(out.conn) /\ ks \subseteq DOMAIN out.conn
  BY DEF Channel, Told, SameLinks
<1>2. PICK n : n = Len(w.members) /\ n = Len(out.members)
  BY DEF Told
<1>3. \A i \in 1..n : out.members[i].id = w.members[i].id
  BY <1>2 DEF Told
<1>4. ASSUME NEW i \in 1..n PROVE WaitsOn(out.members[i], out.conn, ks)
  <2>1. WaitsOn(w.members[i], w.conn, ks)
    BY <1>2 DEF Channel
  <2>2. /\ out.members[i].waiting = NoSocket \/ out.members[i].waiting = w.members[i].waiting
    BY <1>2 DEF Told
  <2>3. \A k \in ks : out.conn[k].req = w.conn[k].req
    BY DEF Channel, Told, SameLinks
  <2> QED
    BY <1>3, <2>1, <2>2, <2>3 DEF WaitsOn
<1> QED
  BY <1>1, <1>2, <1>3, <1>4 DEF Channel

LEMMA BroadcastFacts ==
  ASSUME NEW w, w.members \in Seq(Peer), Net(w.conn), NEW about, about.id \in Int,
         about.connected \in BOOLEAN
  PROVE  Told(w, {i \in DOMAIN w.members : w.members[i].id # about.id},
              BroadcastChangedState(w, about))
<1> DEFINE to == {i \in DOMAIN w.members : w.members[i].id # about.id}
           r == [i \in DOMAIN w.members |->
                   Response(200, w.members[i].id, <<Entry(about)>>, "")]
<1>1. <<Entry(about)>> \in Seq(Int \X BOOLEAN)
  <2>1. Entry(about) \in Int \X BOOLEAN
    BY DEF Entry
  <2> QED
    BY <2>1
<1>2. \A i \in DOMAIN w.members : r[i] \in Answer
  <2>1. PICK e \in Seq(Int \X BOOLEAN) : e = <<Entry(about)>>
    BY <1>1
  <2>2. ASSUME NEW i \in DOMAIN w.members PROVE r[i] \in Answer
    <3>1. w.members[i].id \in Int
      BY MembersFacts
    <3>2. PICK p \in Int : p = w.members[i].id
      BY <3>1
    <3>3. Response(200, p, e, "") \in Answer
      BY DEF Response, Answer, Text
    <3> QED
      BY <2>1, <3>2, <3>3
  <2> QED
    BY <2>2
<1>3. BroadcastChangedState(w, about) = QueueResponse(w, to, r)
  BY DEF BroadcastChangedState
<1>4. to \in SUBSET DOMAIN w.members
  OBVIOUS
<1> HIDE DEF to, r
<1>5. Told(w, to, QueueResponse(w, to, r))
  BY <1>2, <1>4, QueueResponseFacts
<1> QED
  BY <1>3, <1>5 DEF to

(* Whoever is left after a member was erased has been told, and nobody     *)
(* waits any more.                                                         *)
LEMMA EraseFacts ==
  ASSUME NEW w, NEW id, NEW ks, Channel(w, id, ks), NEW i \in 1..Len(w.members)
  PROVE  /\ Channel(Erase(w, i), id, ks) /\ SameLinks(w.conn, Erase(w, i).conn)
         /\ Len(Erase(w, i).members) = Len(w.members) - 1
         /\ \A j \in 1..Len(w.members) - 1 : Erase(w, i).members[j].waiting = NoSocket
<1>1. PICK ms : ms = w.members /\ ms \in Seq(Peer)
  BY DEF Channel
<1>2. PICK n \in Nat : n = Len(ms) /\ i \in 1..n
  BY <1>1, MembersFacts
<1>3. PICK rest : rest = RemoveAt(ms, i)
  OBVIOUS
<1>4. /\ rest \in Seq(Peer) /\ Len(rest) = n - 1
      /\ \A j \in 1..n - 1 : rest[j] = IF j < i THEN ms[j] ELSE ms[j + 1]
  BY <1>1, <1>2, <1>3, RemoveAtFacts
<1> DEFINE w2 == [members |-> rest, conn |-> w.conn]
           about == [ms[i] EXCEPT !.connected = FALSE]
<1>5. about.id = ms[i].id /\ about.connected \in BOOLEAN /\ about.id \in Int
  <2>1. ms[i] \in Peer /\ ms[i].id \in Nat
    BY <1>1, <1>2, MembersFacts
  <2> QED
    BY <2>1 DEF Peer
<1>6. /\ \A j \in 1..n : ms[j].id \in 1..id /\ WaitsOn(ms[j], w.conn, ks)
      /\ \A j, l \in 1..n : ms[j].id = ms[l].id => j = l
  BY <1>1, <1>2 DEF Channel
<1>7. \A j \in 1..n - 1 : \E l \in 1..n : /\ rest[j] = ms[l] /\ l # i
                                         /\ l = IF j < i THEN j ELSE j + 1
  <2>1. ASSUME NEW j \in 1..n - 1
        PROVE  \E l \in 1..n : rest[j] = ms[l] /\ l # i /\ l = IF j < i THEN j ELSE j + 1
    <3> DEFINE l == IF j < i THEN j ELSE j + 1
    <3>1. l \in 1..n /\ l # i
      BY <1>2
    <3>2. rest[j] = ms[l]
      BY <1>4
    <3> QED
      BY <3>1, <3>2
  <2> QED
    BY <2>1
<1>8. Channel(w2, id, ks)
  <2>1. Net(w.conn) /\ ks \subseteq DOMAIN w.conn
    BY DEF Channel
  <2>2. \A j \in 1..n - 1 : rest[j].id \in 1..id /\ WaitsOn(rest[j], w.conn, ks)
    BY <1>6, <1>7
  <2>3. ASSUME NEW j \in 1..n - 1, NEW l \in 1..n - 1, rest[j].id = rest[l].id
        PROVE  j = l
    <3>1. PICK j2 \in 1..n : rest[j] = ms[j2] /\ j2 = IF j < i THEN j ELSE j + 1
      BY <1>7
    <3>2. PICK l2 \in 1..n : rest[l] = ms[l2] /\ l2 = IF l < i THEN l ELSE l + 1
      BY <1>7
    <3>3. j2 = l2
      BY <1>6, <2>3, <3>1, <3>2
    <3> QED
      BY <1>2, <3>1, <3>2, <3>3
  <2> QED
    BY <1>4, <2>1, <2>2, <2>3 DEF Channel
<1>9. Erase(w, i) = BroadcastChangedState(w2, about)
  BY <1>1, <1>3 DEF Erase
<1>10. PICK out : out = Erase(w, i)
  OBVIOUS
<1> DEFINE to == {j \in DOMAIN rest : rest[j].id # about.id}
<1>11. Told(w2, to, out)
  <2>1. /\ w2.members = rest /\ w2.members \in Seq(Peer) /\ Net(w2.conn)
    BY <1>4, <1>8 DEF Channel
  <2> HIDE DEF w2, about
  <2> QED
    BY <1>5, <1>9, <1>10, <2>1, BroadcastFacts
<1>12. \A j \in 1..n - 1 : j \in to
  <2>1. DOMAIN rest = 1..n - 1
    BY <1>4, MembersFacts
  <2> HIDE DEF about
  <2> QED
    BY <1>2, <1>5, <1>6, <1>7, <2>1
<1>13. Channel(out, id, ks)
  <2> HIDE DEF w2, to
  <2> QED
    BY <1>8, <1>11, ToldChannel
<1>14. /\ Len(out.members) = n - 1 /\ SameLinks(w.conn, out.conn)
       /\ \A j \in 1..n - 1 : out.members[j].waiting = NoSocket
  <2>1. w2.members = rest /\ w2.conn = w.conn
    OBVIOUS
  <2> HIDE DEF w2, to
  <2> QED
    BY <1>4, <1>11, <1>12, <2>1 DEF Told
<1> QED
  BY <1>1, <1>2, <1>10, <1>13, <1>14

-----------------------------------------------------------------------------
(* The loops over the members and over the sockets *)

Turn(loop, w, i, x) ==
  CASE loop = "closing" -> ClosingTurn(w, i, x)
    [] loop = "timeout" -> TimeoutTurn(w, i)
    [] loop = "notified" -> Notified(w, x[1][i], x[2])
    [] OTHER -> ServeTurn(w, i, x[1], x[2])

IsLoop(loop, start, n, x, g) ==
  g = [i \in 0..n |-> IF i = 0 THEN start ELSE Turn(loop, g[i - 1], i, x)]

LEMMA LoopExists ==
  ASSUME NEW loop, NEW start, NEW N \in Nat, NEW x
  PROVE  \E g : IsLoop(loop, start, N, x, g)
<1> DEFINE One(w, i) == Turn(loop, w, i, x)
           E(g, k) == g = [n \in 0..k |-> IF n = 0 THEN start ELSE One(g[n - 1], n)]
           S == {k \in 0..N : \E g : E(g, k)}
<1> HIDE DEF One
<1>1. 0 \in S
  <2>1. E([n \in 0..0 |-> start], 0)
    OBVIOUS
  <2> HIDE DEF E
  <2> QED
    BY <2>1
<1>2. ASSUME NEW k \in 1..N, k - 1 \in S PROVE k \in S
  <2>1. PICK g : E(g, k - 1)
    BY <1>2
  <2> DEFINE h == [n \in 0..k |-> IF n = k THEN One(g[k - 1], k) ELSE g[n]]
  <2>2. E(h, k)
    BY <2>1
  <2> HIDE DEF E, h
  <2> QED
    BY <2>2
<1>3. \E g : E(g, N)
  <2> HIDE DEF S
  <2>1. N \in S
    BY <1>1, <1>2, IntervalInduction
  <2> QED
    BY <2>1 DEF S
<1> QED
  BY <1>3 DEF One, IsLoop

(* The values a loop goes through. *)
IsRun(loop, start, n, x, g) ==
  g[0] = start /\ \A i \in 1..n : g[i] = Turn(loop, g[i - 1], i, x)

LEMMA ClosingLoop ==
  ASSUME NEW w, NEW k, NEW n \in Nat, n = Len(w.members)
  PROVE  \E g : IsRun("closing", w, n, k, g) /\ OnClosing(w, k) = g[n]
<1> DEFINE P(g) == g = [i \in 0..n |-> IF i = 0 THEN w ELSE ClosingTurn(g[i - 1], i, k)]
           f == CHOOSE g : P(g)
<1>1. \E g : P(g)
  <2>1. \E g : IsLoop("closing", w, n, k, g)
    BY LoopExists
  <2> QED
    BY <2>1 DEF IsLoop, Turn
<1>2. P(f)
  BY <1>1
<1>3. OnClosing(w, k) = f[n]
  BY DEF OnClosing, Loop
<1> HIDE DEF f
<1>4. f[0] = w /\ \A i \in 1..n : f[i] = ClosingTurn(f[i - 1], i, k)
  BY <1>2, SMTT(30)
<1>5. IsRun("closing", w, n, k, f)
  BY <1>4 DEF IsRun, Turn
<1> QED
  BY <1>3, <1>5

LEMMA TimeoutLoop ==
  ASSUME NEW w, NEW n \in Nat, n = Len(w.members)
  PROVE  \E g : IsRun("timeout", w, n, 0, g) /\ CheckForTimeout(w) = g[n]
<1> DEFINE P(g) == g = [i \in 0..n |-> IF i = 0 THEN w ELSE TimeoutTurn(g[i - 1], i)]
           f == CHOOSE g : P(g)
<1>1. \E g : P(g)
  <2>1. \E g : IsLoop("timeout", w, n, 0, g)
    BY LoopExists
  <2> QED
    BY <2>1 DEF IsLoop, Turn
<1>2. P(f)
  BY <1>1
<1>3. CheckForTimeout(w) = f[n]
  BY DEF CheckForTimeout, Loop
<1> HIDE DEF f
<1>4. f[0] = w /\ \A i \in 1..n : f[i] = TimeoutTurn(f[i - 1], i)
  BY <1>2, SMTT(30)
<1>5. IsRun("timeout", w, n, 0, f)
  BY <1>4 DEF IsRun, Turn
<1> QED
  BY <1>3, <1>5

LEMMA ServeLoop ==
  ASSUME NEW part, NEW n \in Nat, n = Len(sockets)
  PROVE  \E g, ready : /\ ready = {k \in Range(sockets) : Readable(k)}
                       /\ IsRun("serve", Server, n, <<ready, part>>, g)
                       /\ ServeSockets(part) = g[n]
<1> DEFINE ready == {k \in Range(sockets) : Readable(k)}
           P(g) == g = [i \in 0..n |-> IF i = 0 THEN Server
                                       ELSE ServeTurn(g[i - 1], i, ready, part)]
           f == CHOOSE g : P(g)
<1>1. \E g : P(g)
  <2> HIDE DEF ready
  <2>1. \E g : IsLoop("serve", Server, n, <<ready, part>>, g)
    BY LoopExists
  <2> QED
    BY <2>1 DEF IsLoop, Turn
<1>2. P(f)
  BY <1>1
<1>3. ServeSockets(part) = f[n]
  BY DEF ServeSockets, Loop
<1> HIDE DEF f, ready
<1>4. f[0] = Server /\ \A i \in 1..n : f[i] = ServeTurn(f[i - 1], i, ready, part)
  BY <1>2
<1>5. IsRun("serve", Server, n, <<ready, part>>, f)
  BY <1>4 DEF IsRun, Turn
<1> QED
  BY <1>3, <1>5 DEF ready

-----------------------------------------------------------------------------
(* Closing a socket, and members that timed out *)

(* None of the first n members waits on k. *)
ReleasedTo(w, n, k) ==
  \A j \in 1..Len(w.members) : j <= n => w.members[j].waiting # k

LEMMA ReleasedFacts ==
  ASSUME NEW w, NEW id, NEW ks, Channel(w, id, ks), NEW i \in 1..Len(w.members),
         NEW k \in Key
  PROVE  /\ Channel(Released(w, i, k), id, ks)
         /\ Released(w, i, k).conn = w.conn
         /\ Len(Released(w, i, k).members) = Len(w.members)
         /\ Released(w, i, k).members[i].waiting # k
         /\ \A j \in 1..Len(w.members) :
              j # i => Released(w, i, k).members[j] = w.members[j]
<1>1. CASE w.members[i].waiting # k
  BY <1>1 DEF Released
<1>2. CASE w.members[i].waiting = k
  <2>1. PICK ms : ms = w.members /\ ms \in Seq(Peer)
    BY DEF Channel
  <2>2. PICK n \in Nat : n = Len(ms) /\ i \in 1..n
    BY <2>1, MembersFacts
  <2>3. PICK m : m = Awaits(ms[i], NoSocket)
    OBVIOUS
  <2>4. ms[i] \in Peer
    BY <2>1, <2>2, MembersFacts
  <2>5. m \in Peer /\ m.id = ms[i].id /\ m.waiting = NoSocket
    BY <2>3, <2>4 DEF Peer, Awaits
  <2>6. PICK out : out = Released(w, i, k)
    OBVIOUS
  <2>7. out.members = [ms EXCEPT ![i] = m] /\ out.conn = w.conn
    BY <1>2, <2>1, <2>3, <2>6 DEF Released
  <2>8. /\ out.members \in Seq(Peer) /\ Len(out.members) = n
        /\ \A j \in 1..n : out.members[j] = IF j = i THEN m ELSE ms[j]
    BY <2>1, <2>2, <2>5, <2>7, ExceptSeq
  <2>9. NoSocket # k
    BY DEF NoSocket, Key
  <2>10. \A j \in 1..n : out.members[j].id = ms[j].id
    BY <2>5, <2>8
  <2>11. \A j \in 1..n : WaitsOn(out.members[j], out.conn, ks)
    BY <2>1, <2>2, <2>5, <2>7, <2>8 DEF WaitsOn, Channel
  <2>12. /\ \A j \in 1..n : ms[j].id \in 1..id
         /\ \A j, l \in 1..n : ms[j].id = ms[l].id => j = l
         /\ Net(w.conn) /\ ks \subseteq DOMAIN w.conn
    BY <2>1, <2>2 DEF Channel
  <2>13. Channel(out, id, ks)
    BY <2>7, <2>8, <2>10, <2>11, <2>12 DEF Channel
  <2> QED
    BY <2>1, <2>2, <2>5, <2>6, <2>7, <2>8, <2>9, <2>13
<1> QED
  BY <1>1, <1>2

LEMMA ClosingTurnFacts ==
  ASSUME NEW w, NEW id, NEW ks, Channel(w, id, ks), NEW i \in Nat \ {0}, NEW k \in Key,
         ReleasedTo(w, i - 1, k)
  PROVE  /\ Channel(ClosingTurn(w, i, k), id, ks)
         /\ ReleasedTo(ClosingTurn(w, i, k), i, k)
         /\ SameLinks(w.conn, ClosingTurn(w, i, k).conn)
         /\ Len(ClosingTurn(w, i, k).members) <= Len(w.members)
<1>1. PICK n \in Nat : n = Len(w.members)
  BY MembersFacts DEF Channel
<1>2. CASE i > n
  BY <1>1, <1>2, SameLinksReflexive DEF ClosingTurn, ReleasedTo
<1>3. CASE i <= n
  <2>0. i \in 1..n
    BY <1>3
  <2>1. PICK v : v = Released(w, i, k)
    OBVIOUS
  <2>2. /\ Channel(v, id, ks) /\ v.conn = w.conn /\ Len(v.members) = n
        /\ v.members[i].waiting # k
        /\ \A j \in 1..n : j # i => v.members[j] = w.members[j]
    BY <1>1, <2>0, <2>1, ReleasedFacts
  <2>3. CASE w.members[i].connected
    <3>1. ClosingTurn(w, i, k) = v
      BY <1>1, <1>3, <2>1, <2>3 DEF ClosingTurn
    <3>2. ReleasedTo(v, i, k)
      <4>1. ASSUME NEW j \in 1..n, j <= i PROVE v.members[j].waiting # k
        <5>1. j # i => j <= i - 1
          BY <4>1
        <5> QED
          BY <1>1, <2>2, <5>1 DEF ReleasedTo
      <4> QED
        BY <2>2, <4>1 DEF ReleasedTo
    <3> QED
      BY <1>1, <2>2, <3>1, <3>2, SameLinksReflexive
  <2>4. CASE ~w.members[i].connected
    <3>1. PICK out : out = Erase(v, i)
      OBVIOUS
    <3>2. ClosingTurn(w, i, k) = out
      BY <1>1, <1>3, <2>1, <2>4, <3>1 DEF ClosingTurn
    <3>3. /\ Channel(out, id, ks) /\ SameLinks(w.conn, out.conn)
          /\ Len(out.members) = n - 1
          /\ \A j \in 1..n - 1 : out.members[j].waiting = NoSocket
      BY <2>0, <2>2, <3>1, EraseFacts
    <3>4. NoSocket # k
      BY DEF NoSocket, Key
    <3>5. ReleasedTo(out, i, k)
      BY <3>3, <3>4 DEF ReleasedTo
    <3> QED
      BY <1>1, <3>2, <3>3, <3>5
  <2> QED
    BY <2>3, <2>4
<1> QED
  BY <1>1, <1>2, <1>3

(* After OnClosing nobody waits on the socket, although the loop steps     *)
(* over the member after an erased one.                                    *)
LEMMA OnClosingFacts ==
  ASSUME NEW w, NEW id, NEW ks, Channel(w, id, ks), NEW k \in Key
  PROVE  /\ Channel(OnClosing(w, k), id, ks \ {k})
         /\ SameLinks(w.conn, OnClosing(w, k).conn)
<1>1. PICK n \in Nat : n = Len(w.members)
  BY MembersFacts DEF Channel
<1>2. PICK g : IsRun("closing", w, n, k, g) /\ OnClosing(w, k) = g[n]
  BY <1>1, ClosingLoop
<1>3. g[0] = w /\ \A i \in 1..n : g[i] = ClosingTurn(g[i - 1], i, k)
  BY <1>2 DEF IsRun, Turn
<1> DEFINE OK(v, i) == /\ Channel(v, id, ks) /\ ReleasedTo(v, i, k)
                       /\ SameLinks(w.conn, v.conn) /\ Len(v.members) <= n
           S == {i \in 0..n : OK(g[i], i)}
<1>4. OK(g[0], 0)
  BY <1>1, <1>3, SameLinksReflexive DEF ReleasedTo
<1>5. ASSUME NEW i \in 1..n, OK(g[i - 1], i - 1) PROVE OK(g[i], i)
  <2>1. PICK a : a = g[i - 1]
    OBVIOUS
  <2>2. PICK b : b = ClosingTurn(a, i, k) /\ b = g[i]
    BY <1>3, <2>1
  <2>3. /\ Channel(b, id, ks) /\ ReleasedTo(b, i, k) /\ SameLinks(a.conn, b.conn)
        /\ Len(b.members) <= Len(a.members)
    <3>1. Channel(a, id, ks) /\ ReleasedTo(a, i - 1, k) /\ i \in Nat \ {0}
      BY <1>5, <2>1
    <3> HIDE DEF OK
    <3> QED
      BY <2>2, <3>1, ClosingTurnFacts
  <2>4. SameLinks(w.conn, b.conn)
    BY <1>5, <2>1, <2>3, SameLinksTransitive
  <2>5. Len(a.members) \in Nat /\ Len(b.members) \in Nat
    BY <1>5, <2>1, <2>3, MembersFacts DEF Channel
  <2> QED
    BY <1>5, <2>1, <2>2, <2>3, <2>4, <2>5
<1>6. OK(g[n], n)
  <2> HIDE DEF OK
  <2>1. 0 \in S /\ \A i \in 1..n : i - 1 \in S => i \in S
    BY <1>4, <1>5
  <2> HIDE DEF S
  <2>2. n \in S
    BY <2>1, IntervalInduction
  <2> QED
    BY <2>2 DEF S
<1>7. PICK out : out = g[n]
  OBVIOUS
<1>8. /\ Channel(out, id, ks) /\ SameLinks(w.conn, out.conn)
      /\ \A j \in 1..Len(out.members) : out.members[j].waiting # k
  <2>1. Len(out.members) \in Nat /\ Len(out.members) <= n
    BY <1>6, <1>7, MembersFacts DEF Channel
  <2> QED
    BY <1>6, <1>7, <2>1 DEF ReleasedTo
<1>9. Channel(out, id, ks \ {k})
  BY <1>8 DEF Channel, WaitsOn
<1> QED
  BY <1>2, <1>7, <1>8, <1>9

LEMMA CheckForTimeoutFacts ==
  ASSUME NEW w, NEW id, NEW ks, Channel(w, id, ks)
  PROVE  /\ Channel(CheckForTimeout(w), id, ks)
         /\ SameLinks(w.conn, CheckForTimeout(w).conn)
<1>1. PICK n \in Nat : n = Len(w.members)
  BY MembersFacts DEF Channel
<1>2. PICK g : IsRun("timeout", w, n, 0, g) /\ CheckForTimeout(w) = g[n]
  BY <1>1, TimeoutLoop
<1>3. g[0] = w /\ \A i \in 1..n : g[i] = TimeoutTurn(g[i - 1], i)
  BY <1>2 DEF IsRun, Turn
<1> DEFINE OK(v) == Channel(v, id, ks) /\ SameLinks(w.conn, v.conn)
           S == {i \in 0..n : OK(g[i])}
<1>4. OK(g[0])
  BY <1>3, SameLinksReflexive
<1>5. ASSUME NEW i \in 1..n, OK(g[i - 1]) PROVE OK(g[i])
  <2>1. PICK a : a = g[i - 1]
    OBVIOUS
  <2>2. PICK b : b = TimeoutTurn(a, i) /\ b = g[i]
    BY <1>3, <2>1
  <2>3. Len(a.members) \in Nat
    BY <1>5, <2>1, MembersFacts DEF Channel
  <2>4. b = a \/ (i \in 1..Len(a.members) /\ b = Erase(a, i))
    BY <2>2, <2>3 DEF TimeoutTurn
  <2>5. Channel(b, id, ks) /\ SameLinks(a.conn, b.conn)
    BY <1>5, <2>1, <2>4, EraseFacts, SameLinksReflexive
  <2>6. SameLinks(w.conn, b.conn)
    BY <1>5, <2>1, <2>5, SameLinksTransitive
  <2> QED
    BY <2>2, <2>5, <2>6
<1>6. OK(g[n])
  <2> HIDE DEF OK
  <2>1. 0 \in S /\ \A i \in 1..n : i - 1 \in S => i \in S
    BY <1>4, <1>5
  <2> HIDE DEF S
  <2>2. n \in S
    BY <2>1, IntervalInduction
  <2> QED
    BY <2>2 DEF S
<1> QED
  BY <1>2, <1>6

-----------------------------------------------------------------------------
(* Requests of the peers *)

LEMMA LinkFacts ==
  ASSUME NEW net, Net(net), NEW k \in DOMAIN net
  PROVE  /\ net[k].open \in BOOLEAN /\ net[k].end \in Ends /\ net[k].left \in Int
         /\ net[k].resp \in Seq(Answer) /\ k \in Key
         /\ net[k].req.path \in Path /\ net[k].req.peer_id \in Int
         /\ net[k].req.text \in Text
<1>1. IsLink(net[k]) /\ k \in Key
  BY DEF Net
<1>2. PICK x : x = net[k]
  OBVIOUS
<1>3. PICK q : q = x.req
  OBVIOUS
<1>4. /\ x \in [open : BOOLEAN, end : Ends, left : Int, resp : Seq(Answer), req : {q}]
      /\ q \in [path : Path, peer_id : Int, to : {q.to}, text : Text]
  BY <1>1, <1>2, <1>3 DEF IsLink, IsRequest
<1> QED
  BY <1>1, <1>2, <1>3, <1>4

(* One member is replaced by one with its id. *)
LEMMA ReplaceMember ==
  ASSUME NEW w, NEW id, NEW ks, Channel(w, id, ks), NEW i \in 1..Len(w.members),
         NEW m \in Peer, m.id = w.members[i].id, NEW net, Net(net),
         SameLinks(w.conn, net), WaitsOn(m, net, ks)
  PROVE  Channel([members |-> [w.members EXCEPT ![i] = m], conn |-> net], id, ks)
<1>1. PICK ms : ms = w.members /\ ms \in Seq(Peer)
  BY DEF Channel
<1>2. PICK n \in Nat : n = Len(ms) /\ i \in 1..n
  BY <1>1, MembersFacts
<1>3. PICK v : v = [ms EXCEPT ![i] = m]
  OBVIOUS
<1>4. /\ v \in Seq(Peer) /\ Len(v) = n
      /\ \A j \in 1..n : v[j] = IF j = i THEN m ELSE ms[j]
  BY <1>1, <1>2, <1>3, ExceptSeq
<1>5. \A j \in 1..n : v[j].id = ms[j].id
  BY <1>1, <1>4
<1>6. /\ \A j \in 1..n : ms[j].id \in 1..id /\ WaitsOn(ms[j], w.conn, ks)
      /\ \A j, l \in 1..n : ms[j].id = ms[l].id => j = l
      /\ ks \subseteq DOMAIN w.conn
  BY <1>1, <1>2 DEF Channel
<1>7. ks \subseteq DOMAIN net /\ \A k \in ks : net[k].req = w.conn[k].req
  BY <1>6 DEF SameLinks
<1>8. \A j \in 1..n : WaitsOn(v[j], net, ks)
  BY <1>4, <1>6, <1>7 DEF WaitsOn
<1> QED
  BY <1>1, <1>3, <1>4, <1>5, <1>6, <1>7, <1>8 DEF Channel

LEMMA SetWaitingSocketFacts ==
  ASSUME NEW w, NEW id, NEW ks, Channel(w, id, ks), NEW i \in 1..Len(w.members),
         NEW k \in ks, w.conn[k].req.path = "/wait",
         w.conn[k].req.peer_id = w.members[i].id
  PROVE  /\ Channel(SetWaitingSocket(w, i, k), id, ks)
         /\ SameLinks(w.conn, SetWaitingSocket(w, i, k).conn)
<1>1. PICK m : m = w.members[i]
  OBVIOUS
<1>2. m \in Peer /\ Net(w.conn) /\ k \in DOMAIN w.conn /\ k \in Key
  BY <1>1, MembersFacts, LinkFacts DEF Channel
<1>3. PICK out : out = SetWaitingSocket(w, i, k)
  OBVIOUS
<1>4. CASE m.queue # <<>>
  <2>1. m.queue \in Seq(Answer)
    BY <1>2 DEF Peer
  <2>2. Head(m.queue) \in Answer /\ Tail(m.queue) \in Seq(Answer)
    BY <1>4, <2>1, HeadTailProperties
  <2>3. PICK n : n = [m EXCEPT !.queue = Tail(m.queue)]
    OBVIOUS
  <2>4. n \in Peer /\ n.id = m.id /\ n.waiting = m.waiting
    BY <1>2, <2>2, <2>3 DEF Peer
  <2>5. PICK net : net = Send(w.conn, k, Head(m.queue))
    OBVIOUS
  <2>6. Net(net) /\ SameLinks(w.conn, net)
    BY <1>2, <2>2, <2>5, SendFacts
  <2>7. out = [members |-> [w.members EXCEPT ![i] = n], conn |-> net]
    BY <1>1, <1>3, <1>4, <2>3, <2>5 DEF SetWaitingSocket
  <2>8. WaitsOn(m, w.conn, ks) /\ ks \subseteq DOMAIN w.conn
    BY <1>1 DEF Channel
  <2>9. WaitsOn(n, net, ks)
    BY <2>4, <2>6, <2>8 DEF WaitsOn, SameLinks
  <2>10. Channel(out, id, ks)
    BY <1>1, <2>4, <2>6, <2>7, <2>9, ReplaceMember
  <2> QED
    BY <1>3, <2>6, <2>7, <2>10
<1>5. CASE m.queue = <<>>
  <2>1. PICK n : n = Awaits(m, k)
    OBVIOUS
  <2>2. n \in Peer /\ n.id = m.id /\ n.waiting = k
    BY <1>2, <2>1 DEF Peer, Awaits
  <2>3. WaitsOn(n, w.conn, ks)
    BY <1>1, <2>2 DEF WaitsOn
  <2>4. out = [members |-> [w.members EXCEPT ![i] = n], conn |-> w.conn]
    BY <1>1, <1>3, <1>5, <2>1 DEF SetWaitingSocket
  <2>5. SameLinks(w.conn, w.conn)
    BY SameLinksReflexive
  <2>6. Channel(out, id, ks)
    BY <1>1, <1>2, <2>2, <2>3, <2>4, <2>5, ReplaceMember
  <2> QED
    BY <1>3, <2>4, <2>5, <2>6
<1> QED
  BY <1>4, <1>5

LEMMA SendChannel ==
  ASSUME NEW w, NEW id, NEW ks, Channel(w, id, ks), NEW k \in DOMAIN w.conn, NEW r \in Answer
  PROVE  /\ Channel([members |-> w.members, conn |-> Send(w.conn, k, r)], id, ks)
         /\ SameLinks(w.conn, Send(w.conn, k, r))
<1>1. PICK net : net = Send(w.conn, k, r)
  OBVIOUS
<1>2. Net(net) /\ SameLinks(w.conn, net)
  BY <1>1, SendFacts DEF Channel
<1>3. Channel([members |-> w.members, conn |-> net], id, ks)
  BY <1>2 DEF Channel, SameLinks, WaitsOn
<1> QED
  BY <1>1, <1>2, <1>3

LEMMA AddMemberFacts ==
  ASSUME NEW w, NEW id \in Nat, NEW ks, Channel(w, id, ks), NEW k \in DOMAIN w.conn
  PROVE  /\ Channel(AddMember(w, id + 1, k), id + 1, ks)
         /\ SameLinks(w.conn, AddMember(w, id + 1, k).conn)
<1> DEFINE entries == [i \in DOMAIN w.members |-> Entry(w.members[i])]
<1>1. PICK new : new = ChannelMember(id + 1)
  OBVIOUS
<1>2. /\ new \in Peer /\ new.id = id + 1 /\ new.waiting = NoSocket /\ new.connected = TRUE
  BY <1>1 DEF ChannelMember, Peer
<1>3. PICK told : told = BroadcastChangedState(w, new)
  OBVIOUS
<1>4. PICK to : Told(w, to, told)
  <2>1. w.members \in Seq(Peer) /\ Net(w.conn)
    BY DEF Channel
  <2>2. new.id \in Int /\ new.connected \in BOOLEAN
    BY <1>2 DEF Peer
  <2>3. Told(w, {i \in DOMAIN w.members : w.members[i].id # new.id},
             BroadcastChangedState(w, new))
    BY <2>1, <2>2, BroadcastFacts
  <2> QED
    BY <1>3, <2>3
<1>5. Channel(told, id, ks)
  BY <1>4, ToldChannel
<1>6. PICK n \in Nat : /\ n = Len(told.members) /\ told.members \in Seq(Peer)
                       /\ \A i \in 1..n : told.members[i].id \in 1..id
                       /\ \A i, j \in 1..n :
                            told.members[i].id = told.members[j].id => i = j
                       /\ \A i \in 1..n : WaitsOn(told.members[i], told.conn, ks)
  BY <1>5, MembersFacts DEF Channel
<1>7. PICK ms : ms = Append(told.members, new)
  OBVIOUS
<1>8. /\ ms \in Seq(Peer) /\ Len(ms) = n + 1
      /\ \A i \in 1..n : ms[i] = told.members[i] /\ ms[n + 1] = new
  BY <1>2, <1>6, <1>7, AppendProperties
<1>9. ms[n + 1] = new
  BY <1>2, <1>6, <1>7, AppendProperties
<1>10. Channel([members |-> ms, conn |-> told.conn], id + 1, ks)
  <2>1. Net(told.conn) /\ ks \subseteq DOMAIN told.conn
    BY <1>5 DEF Channel
  <2>2. \A i \in 1..n + 1 : i \in 1..n \/ i = n + 1
    OBVIOUS
  <2>3. \A i \in 1..n : ms[i].id \in 1..id
    BY <1>6, <1>8
  <2>4. ms[n + 1].id = id + 1
    BY <1>2, <1>9
  <2>5. \A i \in 1..n + 1 : ms[i].id \in 1..id + 1
    BY <2>2, <2>3, <2>4
  <2>6. \A i \in 1..n : ms[i].id # id + 1
    BY <2>3
  <2>7. ASSUME NEW i \in 1..n + 1, NEW j \in 1..n + 1, ms[i].id = ms[j].id
        PROVE  i = j
    <3>1. i = n + 1 <=> j = n + 1
      BY <2>2, <2>4, <2>6, <2>7
    <3>2. CASE i \in 1..n /\ j \in 1..n
      <4>1. \A a, b \in 1..n : ms[a].id = ms[b].id => a = b
        BY <1>6, <1>8
      <4> QED
        BY <2>7, <3>2, <4>1
    <3> QED
      BY <2>2, <3>1, <3>2
  <2>8. \A i \in 1..n + 1 : WaitsOn(ms[i], told.conn, ks)
    <3>1. WaitsOn(new, told.conn, ks)
      BY <1>2 DEF WaitsOn
    <3> QED
      BY <1>6, <1>8, <1>9, <2>2, <3>1
  <2> QED
    BY <1>8, <2>1, <2>5, <2>7, <2>8 DEF Channel
<1>11. PICK all : all = <<Entry(new)>> \o entries
  OBVIOUS
<1>12. all \in Seq(Int \X BOOLEAN)
  <2>1. entries \in Seq(Int \X BOOLEAN)
    <3>1. PICK m : m = w.members /\ m \in Seq(Peer)
      BY DEF Channel
    <3>2. /\ Len(m) \in Nat /\ DOMAIN m = 1..Len(m)
          /\ \A i \in 1..Len(m) : m[i].id \in Int /\ m[i].connected \in BOOLEAN
      BY <3>1, MembersFacts
    <3>3. \A i \in 1..Len(m) : Entry(m[i]) \in Int \X BOOLEAN
      BY <3>2 DEF Entry
    <3>4. entries = [i \in 1..Len(m) |-> Entry(m[i])]
      BY <3>1, <3>2, SMTT(30)
    <3>5. PICK L \in Nat : L = Len(m)
      BY <3>2
    <3>6. entries \in [1..L -> Int \X BOOLEAN]
      BY <3>3, <3>4, <3>5
    <3> HIDE DEF entries
    <3> QED
      BY <3>5, <3>6, SeqDef
  <2>2. <<Entry(new)>> \in Seq(Int \X BOOLEAN)
    <3>1. new.id \in Int /\ new.connected \in BOOLEAN
      BY <1>2 DEF Peer
    <3>2. Entry(new) \in Int \X BOOLEAN
      BY <3>1 DEF Entry
    <3> QED
      BY <3>2
  <2> HIDE DEF entries
  <2> QED
    BY <1>11, <2>1, <2>2, ConcatProperties
<1>13. PICK r : r = Response(200, id + 1, all, "")
  OBVIOUS
<1>14. r \in Answer
  <2>1. PICK pragma \in Int : pragma = id + 1
    OBVIOUS
  <2>2. PICK text \in Text : text = ""
    BY DEF Text
  <2>3. r = Response(200, pragma, all, text)
    BY <1>13, <2>1, <2>2
  <2> QED
    BY <1>12, <2>3, ResponseFacts
<1>15. k \in DOMAIN told.conn
  BY <1>4 DEF Told, SameLinks
<1>16. AddMember(w, id + 1, k) = [members |-> ms, conn |-> Send(told.conn, k, r)]
  BY <1>1, <1>3, <1>7, <1>11, <1>13 DEF AddMember
<1>17. PICK w2 : w2 = [members |-> ms, conn |-> told.conn]
  OBVIOUS
<1>18. /\ Channel([members |-> w2.members, conn |-> Send(w2.conn, k, r)], id + 1, ks)
       /\ SameLinks(w2.conn, Send(w2.conn, k, r))
  BY <1>10, <1>14, <1>15, <1>17, SendChannel
<1>19. SameLinks(w.conn, Send(told.conn, k, r))
  BY <1>4, <1>17, <1>18, SameLinksTransitive DEF Told
<1> QED
  BY <1>16, <1>17, <1>18, <1>19

LEMMA ForwardFacts ==
  ASSUME NEW w, NEW id, NEW ks, Channel(w, id, ks), NEW k \in DOMAIN w.conn,
         NEW from \in Int, NEW to
  PROVE  /\ Channel(ForwardRequestToPeer(w, from, to, k), id, ks)
         /\ SameLinks(w.conn, ForwardRequestToPeer(w, from, to, k).conn)
<1> DEFINE at == {i \in DOMAIN w.members : w.members[i].id = to}
           rs(x) == [i \in DOMAIN w.members |-> x]
<1>0. w.members \in Seq(Peer) /\ Net(w.conn)
  BY DEF Channel
<1>1. PICK r : r = Response(200, from, <<>>, w.conn[k].req.text)
  OBVIOUS
<1>2. r \in Answer
  <2>1. w.conn[k].req.text \in Text
    BY <1>0, LinkFacts
  <2> QED
    BY <1>1, <2>1 DEF Response, Answer
<1>3. PICK out : out = QueueResponse(w, at, rs(r))
  OBVIOUS
<1>4. Told(w, at, out)
  <2>1. at \in SUBSET DOMAIN w.members /\ \A i \in DOMAIN w.members : rs(r)[i] \in Answer
    BY <1>2
  <2> HIDE DEF at, rs
  <2> QED
    BY <1>0, <1>3, <2>1, QueueResponseFacts
<1>5. Channel(out, id, ks) /\ SameLinks(w.conn, out.conn)
  <2> HIDE DEF at
  <2> QED
    BY <1>4, ToldChannel DEF Told
<1>6. Plain(200) \in Answer
  BY DEF Plain, Response, Answer, Text
<1>7. CASE to = from
  <2>1. ForwardRequestToPeer(w, from, to, k) =
          [members |-> w.members, conn |-> Send(w.conn, k, r)]
    BY <1>1, <1>7 DEF ForwardRequestToPeer
  <2> QED
    BY <1>2, <2>1, SendChannel
<1>8. CASE to # from
  <2>1. ForwardRequestToPeer(w, from, to, k) =
          [members |-> out.members, conn |-> Send(out.conn, k, Plain(200))]
    BY <1>1, <1>3, <1>8 DEF ForwardRequestToPeer
  <2>2. k \in DOMAIN out.conn
    BY <1>5 DEF SameLinks
  <2>3. /\ Channel([members |-> out.members, conn |-> Send(out.conn, k, Plain(200))], id, ks)
        /\ SameLinks(out.conn, Send(out.conn, k, Plain(200)))
    BY <1>5, <1>6, <2>2, SendChannel
  <2>4. SameLinks(w.conn, Send(out.conn, k, Plain(200)))
    BY <1>5, <2>3, SameLinksTransitive
  <2> QED
    BY <2>1, <2>3, <2>4
<1> QED
  BY <1>7, <1>8

LEMMA CloseAllFacts ==
  ASSUME NEW w, NEW id, NEW ks, Channel(w, id, ks)
  PROVE  CloseAll(w).members = <<>> /\ Net(CloseAll(w).conn) /\ SameLinks(w.conn, CloseAll(w).conn)
<1> DEFINE rs(x) == [i \in DOMAIN w.members |-> x]
<1>0. w.members \in Seq(Peer) /\ Net(w.conn)
  BY DEF Channel
<1>1. PICK r : r = Response(200, -1, <<>>, "Server shutting down")
  OBVIOUS
<1>2. r \in Answer
  <2>1. PICK p \in Int : p = -1
    OBVIOUS
  <2>2. Response(200, p, <<>>, "Server shutting down") \in Answer
    BY DEF Response, Answer, Text
  <2> QED
    BY <1>1, <2>1, <2>2
<1>3. PICK out : out = QueueResponse(w, DOMAIN w.members, rs(r))
  OBVIOUS
<1>4. Told(w, DOMAIN w.members, out)
  <2>1. \A i \in DOMAIN w.members : rs(r)[i] \in Answer
    BY <1>2
  <2> HIDE DEF rs
  <2> QED
    BY <1>0, <1>3, <2>1, QueueResponseFacts
<1>5. CloseAll(w) = [members |-> <<>>, conn |-> out.conn]
  BY <1>1, <1>3 DEF CloseAll
<1> QED
  BY <1>4, <1>5 DEF Told

-----------------------------------------------------------------------------
(* The state of the server *)

(* A vector of different sockets whose server's ends are all in one state. *)
Held(v, net, end) ==
  /\ v \in Seq(Key)
  /\ \A i, j \in 1..Len(v) : v[i] = v[j] => i = j
  /\ \A i \in 1..Len(v) : v[i] \in DOMAIN net /\ net[v[i]].end = end

IsServer(s) ==
  s \in [members : {s.members}, conn : {s.conn}, sockets : {s.sockets},
         backlog : {s.backlog}, id : Nat, quit : BOOLEAN, listening : BOOLEAN]

Serving(s) ==
  /\ IsServer(s)
  /\ Held(s.sockets, s.conn, "accepted") /\ Held(s.backlog, s.conn, "backlog")
  /\ Channel(s, s.id, Range(s.sockets))

(* What the server does to the connections: it opens none and leaves the   *)
(* clients' ends alone.                                                    *)
ServerNet(a, b) ==
  /\ DOMAIN b \subseteq DOMAIN a
  /\ \A k \in DOMAIN a : a[k].open => k \in DOMAIN b /\ b[k].open

LEMMA ServerNetTransitive ==
  ASSUME NEW a, NEW b, NEW c, ServerNet(a, b), ServerNet(b, c)
  PROVE  ServerNet(a, c)
BY DEF ServerNet

LEMMA SameIsServerNet ==
  ASSUME NEW a, NEW b, SameLinks(a, b)
  PROVE  ServerNet(a, b)
BY DEF ServerNet, SameLinks

LEMMA HeldSame ==
  ASSUME NEW v, NEW a, NEW b, NEW end, Held(v, a, end), SameLinks(a, b)
  PROVE  Held(v, b, end)
BY DEF Held, SameLinks

LEMMA HeldRange ==
  ASSUME NEW v, NEW net, NEW end, Held(v, net, end)
  PROVE  /\ Len(v) \in Nat /\ DOMAIN v = 1..Len(v) /\ Range(v) = {v[i] : i \in 1..Len(v)}
         /\ \A k \in Range(v) : k \in DOMAIN net /\ k \in Key /\ net[k].end = end
<1>1. Len(v) \in Nat /\ DOMAIN v = 1..Len(v) /\ \A i \in 1..Len(v) : v[i] \in Key
  BY LenProperties, ElementOfSeq DEF Held
<1>2. Range(v) = {v[i] : i \in 1..Len(v)}
  BY <1>1 DEF Range
<1> QED
  BY <1>1, <1>2 DEF Held

LEMMA ShutFacts ==
  ASSUME NEW net, Net(net), NEW ks
  PROVE  /\ Net(Shut(net, ks)) /\ ServerNet(net, Shut(net, ks))
         /\ \A k \in DOMAIN net \ ks : k \in DOMAIN Shut(net, ks) /\ Shut(net, ks)[k] = net[k]
<1> DEFINE left == {k \in DOMAIN net : k \notin ks \/ net[k].open}
           y(k) == [net[k] EXCEPT !.end = "closed"]
<1>1. PICK b : b = Shut(net, ks)
  OBVIOUS
<1>2. b = [k \in left |-> IF k \in ks THEN y(k) ELSE net[k]]
  BY <1>1 DEF Shut
<1>3. \A k \in DOMAIN net : IsLink(net[k]) /\ IsLink(y(k)) /\ y(k).open = net[k].open
  <2>1. ASSUME NEW x, IsLink(x)
        PROVE  /\ IsLink([x EXCEPT !.end = "closed"])
               /\ [x EXCEPT !.end = "closed"].open = x.open
    BY <2>1 DEF IsLink, Ends
  <2> QED
    BY <2>1 DEF Net
<1> HIDE DEF y
<1>4. DOMAIN b = left /\ b = [k \in DOMAIN b |-> b[k]]
  BY <1>2
<1>5. \A k \in left : IsLink(b[k]) /\ b[k].open = net[k].open
  BY <1>2, <1>3
<1>6. IsFiniteSet(left) /\ left \subseteq Key
  BY FS_Subset DEF Net
<1>7. Net(b)
  BY <1>4, <1>5, <1>6 DEF Net
<1>8. ServerNet(net, b)
  BY <1>4, <1>5 DEF ServerNet
<1>9. \A k \in DOMAIN net \ ks : k \in DOMAIN b /\ b[k] = net[k]
  BY <1>2, <1>4
<1> QED
  BY <1>1, <1>7, <1>8, <1>9

LEMMA HeldShut ==
  ASSUME NEW net, Net(net), NEW ks, NEW v, NEW end, Held(v, net, end), Range(v) \cap ks = {}
  PROVE  Held(v, Shut(net, ks), end)
<1>1. PICK b : b = Shut(net, ks)
  OBVIOUS
<1>2. \A k \in DOMAIN net \ ks : k \in DOMAIN b /\ b[k] = net[k]
  BY <1>1, ShutFacts
<1>3. \A i \in 1..Len(v) : v[i] \in Range(v)
  BY HeldRange
<1>4. \A i \in 1..Len(v) : v[i] \in DOMAIN b /\ b[v[i]].end = end
  BY <1>2, <1>3 DEF Held
<1> QED
  BY <1>1, <1>4 DEF Held

(* The members and the connections are replaced. *)
LEMMA WithFacts ==
  ASSUME NEW s, IsServer(s), NEW w
  PROVE  /\ IsServer(With(s, w)) /\ With(s, w).members = w.members
         /\ With(s, w).conn = w.conn /\ With(s, w).sockets = s.sockets
         /\ With(s, w).backlog = s.backlog /\ With(s, w).id = s.id
         /\ With(s, w).listening = s.listening
BY DEF IsServer, With

LEMMA ServingWith ==
  ASSUME NEW s, Serving(s), NEW w, Channel(w, s.id, Range(s.sockets)),
         SameLinks(s.conn, w.conn)
  PROVE  /\ Serving(With(s, w)) /\ With(s, w).sockets = s.sockets
         /\ ServerNet(s.conn, With(s, w).conn)
         /\ With(s, w).listening = s.listening /\ With(s, w).backlog = s.backlog
<1>1. PICK t : t = With(s, w)
  OBVIOUS
<1>2. /\ IsServer(t) /\ t.members = w.members /\ t.conn = w.conn
      /\ t.sockets = s.sockets /\ t.backlog = s.backlog /\ t.id = s.id
      /\ t.listening = s.listening
  BY <1>1, WithFacts DEF Serving
<1>3. Held(t.sockets, t.conn, "accepted") /\ Held(t.backlog, t.conn, "backlog")
  BY <1>2, HeldSame DEF Serving
<1>4. Channel(t, t.id, Range(t.sockets))
  BY <1>2 DEF Channel
<1>5. ServerNet(s.conn, t.conn)
  BY <1>2, SameIsServerNet
<1> QED
  BY <1>1, <1>2, <1>3, <1>4, <1>5 DEF Serving

LEMMA PlainFacts == \A status \in Nat : Plain(status) \in Answer
<1>1. PICK p \in Int : p = -1
  OBVIOUS
<1>2. \A status \in Nat : Response(status, p, <<>>, "") \in Answer
  BY DEF Response, Answer, Text
<1> QED
  BY <1>1, <1>2 DEF Plain

(* What a step inside a pass keeps. *)
Listens(s, t) == t.listening => s.listening /\ t.backlog = s.backlog

Keeps(s, t) ==
  Serving(t) /\ t.sockets = s.sockets /\ ServerNet(s.conn, t.conn) /\ Listens(s, t)

LEMMA ReplyFacts ==
  ASSUME NEW s, Serving(s), NEW k \in DOMAIN s.conn, NEW status \in Nat
  PROVE  Keeps(s, Reply(s, k, status)) /\ SameLinks(s.conn, Reply(s, k, status).conn)
<1>1. PICK net : net = Send(s.conn, k, Plain(status))
  OBVIOUS
<1>2. PICK w : w = [members |-> s.members, conn |-> net]
  OBVIOUS
<1>3. Channel(w, s.id, Range(s.sockets)) /\ SameLinks(s.conn, net)
  BY <1>1, <1>2, PlainFacts, SendChannel DEF Serving
<1>4. Reply(s, k, status) = With(s, w)
  <2>1. Reply(s, k, status) = [s EXCEPT !.conn = net]
    BY <1>1 DEF Reply
  <2>2. With(s, w) = [s EXCEPT !.members = s.members, !.conn = net]
    BY <1>2 DEF With
  <2> QED
    BY <2>1, <2>2 DEF Serving, IsServer
<1>5. Keeps(s, With(s, w))
  BY <1>2, <1>3, ServingWith DEF Keeps, Listens
<1>6. With(s, w).conn = net
  BY <1>2, WithFacts DEF Serving
<1> QED
  BY <1>3, <1>4, <1>5, <1>6

LEMMA BrowserFacts ==
  ASSUME NEW s, Serving(s), NEW k \in DOMAIN s.conn
  PROVE  Keeps(s, HandleBrowserRequest(s, k))
<1> DEFINE status == IF s.conn[k].req.path \in {"/quit", "OPTIONS"} THEN 200 ELSE 500
<1>1. PICK sent : sent = Reply(s, k, status)
  OBVIOUS
<1>2. Keeps(s, sent) /\ SameLinks(s.conn, sent.conn)
  <2>1. status \in Nat
    OBVIOUS
  <2> HIDE DEF status
  <2> QED
    BY <1>1, <2>1, ReplyFacts
<1>3. IsServer(sent) /\ sent.sockets = s.sockets
  BY <1>2 DEF Keeps, Serving
<1>4. CASE s.conn[k].req.path # "/quit"
  <2>1. PICK t : t = [sent EXCEPT !.quit = FALSE]
    OBVIOUS
  <2>2. HandleBrowserRequest(s, k) = t
    BY <1>1, <1>4, <2>1 DEF HandleBrowserRequest
  <2>3. /\ IsServer(t) /\ t.members = sent.members /\ t.conn = sent.conn
        /\ t.sockets = sent.sockets /\ t.backlog = sent.backlog /\ t.id = sent.id
        /\ t.listening = sent.listening
    BY <1>3, <2>1 DEF IsServer
  <2>4. Serving(t)
    BY <1>2, <2>3 DEF Keeps, Serving, Channel
  <2> QED
    BY <1>2, <2>2, <2>3, <2>4 DEF Keeps, Listens
<1>5. CASE s.conn[k].req.path = "/quit"
  <2>1. PICK w : w = CloseAll(Pair(sent))
    OBVIOUS
  <2>2. Channel(Pair(sent), sent.id, Range(sent.sockets)) /\ Pair(sent).conn = sent.conn
    BY <1>2 DEF Keeps, Serving, Channel, Pair
  <2>3. w.members = <<>> /\ Net(w.conn) /\ SameLinks(sent.conn, w.conn)
    BY <2>1, <2>2, CloseAllFacts
  <2>4. PICK net : net = Shut(w.conn, Range(s.backlog))
    OBVIOUS
  <2>5. Net(net) /\ ServerNet(w.conn, net)
    BY <2>3, <2>4, ShutFacts
  <2>6. PICK t : t = [sent EXCEPT !.quit = TRUE, !.members = w.members, !.conn = net,
                                  !.listening = FALSE, !.backlog = <<>>]
    OBVIOUS
  <2>7. HandleBrowserRequest(s, k) = t
    <3>1. t = [sent EXCEPT !.quit = TRUE, !.members = CloseAll(Pair(sent)).members,
                           !.conn = Shut(CloseAll(Pair(sent)).conn, Range(s.backlog)),
                           !.listening = FALSE, !.backlog = <<>>]
      BY <2>1, <2>4, <2>6
    <3>2. PICK path : path = s.conn[k].req.path /\ ~(path # "/quit")
      BY <1>5
    <3>3. sent = Reply(s, k, IF path \in {"/quit", "OPTIONS"} THEN 200 ELSE 500)
      BY <1>1, <3>2
    <3> HIDE DEF status
    <3> QED
      BY <3>1, <3>2, <3>3, ZenonT(60) DEF HandleBrowserRequest
  <2>8. /\ IsServer(t) /\ t.members = <<>> /\ t.conn = net
        /\ t.sockets = sent.sockets /\ t.backlog = <<>> /\ t.id = sent.id
        /\ t.listening = FALSE
    BY <1>3, <2>3, <2>6 DEF IsServer
  <2>9. SameLinks(s.conn, w.conn)
    BY <1>2, <2>3, SameLinksTransitive
  <2>10. Held(s.sockets, w.conn, "accepted") /\ Held(s.backlog, w.conn, "backlog")
    BY <2>9, HeldSame DEF Serving
  <2>11. Range(s.sockets) \cap Range(s.backlog) = {}
    <3>1. \A j \in Range(s.sockets) : w.conn[j].end = "accepted"
      BY <2>10, HeldRange
    <3>2. \A j \in Range(s.backlog) : w.conn[j].end = "backlog"
      BY <2>10, HeldRange
    <3> QED
      BY <3>1, <3>2
  <2>12. Held(s.sockets, net, "accepted")
    BY <2>3, <2>4, <2>10, <2>11, HeldShut
  <2>13. Held(<<>>, net, "backlog")
    BY DEF Held
  <2>14. Channel(t, t.id, Range(t.sockets))
    <3>1. Range(t.sockets) \subseteq DOMAIN net
      BY <1>3, <2>8, <2>12, HeldRange
    <3>2. t.members \in Seq(Peer) /\ Len(t.members) = 0
      BY <2>8
    <3> QED
      BY <2>5, <2>8, <3>1, <3>2 DEF Channel
  <2>15. Serving(t)
    BY <1>3, <2>8, <2>12, <2>13, <2>14 DEF Serving
  <2>16. ServerNet(s.conn, net)
    BY <2>5, <2>9, SameIsServerNet, ServerNetTransitive
  <2> QED
    BY <1>3, <2>7, <2>8, <2>15, <2>16 DEF Keeps, Listens
<1> QED
  BY <1>4, <1>5

LEMMA SignInFacts ==
  ASSUME NEW s, Serving(s), NEW k \in DOMAIN s.conn
  PROVE  Keeps(s, [With(s, AddMember(Pair(s), s.id + 1, k)) EXCEPT !.id = s.id + 1])
<1>0. s.id \in Nat /\ IsServer(s)
  BY DEF Serving, IsServer
<1>1. PICK w : w = AddMember(Pair(s), s.id + 1, k)
  OBVIOUS
<1>2. /\ Channel(Pair(s), s.id, Range(s.sockets)) /\ Pair(s).conn = s.conn
  BY DEF Serving, Channel, Pair
<1>3. Channel(w, s.id + 1, Range(s.sockets)) /\ SameLinks(s.conn, w.conn)
  BY <1>0, <1>1, <1>2, AddMemberFacts
<1>4. PICK v : v = With(s, w)
  OBVIOUS
<1>5. PICK t : t = [v EXCEPT !.id = s.id + 1]
  OBVIOUS
<1>6. /\ IsServer(v) /\ v.members = w.members /\ v.conn = w.conn
      /\ v.sockets = s.sockets /\ v.backlog = s.backlog /\ v.listening = s.listening
  BY <1>0, <1>4, WithFacts
<1>7. /\ IsServer(t) /\ t.members = w.members /\ t.conn = w.conn
      /\ t.sockets = s.sockets /\ t.backlog = s.backlog /\ t.id = s.id + 1
      /\ t.listening = s.listening
  BY <1>0, <1>5, <1>6 DEF IsServer
<1>8. Held(t.sockets, t.conn, "accepted") /\ Held(t.backlog, t.conn, "backlog")
  BY <1>3, <1>7, HeldSame DEF Serving
<1>9. Channel(t, t.id, Range(t.sockets))
  BY <1>3, <1>7 DEF Channel
<1>10. ServerNet(s.conn, t.conn)
  BY <1>3, <1>7, SameIsServerNet
<1> QED
  BY <1>1, <1>4, <1>5, <1>7, <1>8, <1>9, <1>10 DEF Keeps, Serving, Listens

(* The i-th member is marked as gone. *)
SignedOut(s, i) ==
  [s EXCEPT !.members = [s.members EXCEPT ![i] =
                           [s.members[i] EXCEPT !.connected = FALSE]]]

LEMMA SignOutFacts ==
  ASSUME NEW s, Serving(s), NEW k \in DOMAIN s.conn, NEW i \in 1..Len(s.members)
  PROVE  Keeps(s, Reply(SignedOut(s, i), k, 200))
<1>1. PICK m : m = [s.members[i] EXCEPT !.connected = FALSE]
  OBVIOUS
<1>2. s.members[i] \in Peer /\ WaitsOn(s.members[i], s.conn, Range(s.sockets)) /\ Net(s.conn)
  BY MembersFacts DEF Serving, Channel
<1>3. m \in Peer /\ m.id = s.members[i].id /\ m.waiting = s.members[i].waiting
  BY <1>1, <1>2 DEF Peer
<1>4. WaitsOn(m, s.conn, Range(s.sockets))
  BY <1>2, <1>3 DEF WaitsOn
<1>5. PICK w : w = [members |-> [s.members EXCEPT ![i] = m], conn |-> s.conn]
  OBVIOUS
<1>6. SameLinks(s.conn, s.conn)
  BY SameLinksReflexive
<1>7. Channel(w, s.id, Range(s.sockets))
  BY <1>2, <1>3, <1>4, <1>5, <1>6, ReplaceMember DEF Serving
<1>8. PICK out : out = [s EXCEPT !.members = [s.members EXCEPT ![i] = m]]
  OBVIOUS
<1>9. out = With(s, w)
  <2>1. With(s, w) = [s EXCEPT !.members = [s.members EXCEPT ![i] = m], !.conn = s.conn]
    BY <1>5 DEF With
  <2> QED
    BY <1>8, <2>1 DEF Serving, IsServer
<1>10. Keeps(s, out) /\ out.conn = s.conn
  <2>1. w.conn = s.conn
    BY <1>5
  <2>2. With(s, w).conn = w.conn
    BY WithFacts DEF Serving
  <2> QED
    BY <1>6, <1>7, <1>9, <2>1, <2>2, ServingWith DEF Keeps, Listens
<1>11. Keeps(out, Reply(out, k, 200))
  BY <1>10, ReplyFacts DEF Keeps
<1>12. Keeps(s, Reply(out, k, 200))
  BY <1>10, <1>11, ServerNetTransitive DEF Keeps, Listens
<1> QED
  BY <1>1, <1>8, <1>12 DEF SignedOut

LEMMA HandleRequestFacts ==
  ASSUME NEW s, Serving(s), NEW k \in Range(s.sockets)
  PROVE  Keeps(s, HandleRequest(s, k))
<1>0. /\ k \in DOMAIN s.conn /\ Net(s.conn) /\ s.conn[k].req.peer_id \in Int
      /\ s.members \in Seq(Peer) /\ DOMAIN s.members = 1..Len(s.members)
  BY HeldRange, LinkFacts, MembersFacts DEF Serving, Channel
<1>1. PICK q : q = s.conn[k].req
  OBVIOUS
<1>2. PICK at : at = IF q.path \in {"/wait", "/sign_out", "/message"}
                       THEN Lookup(s, q.peer_id) ELSE {}
  OBVIOUS
<1>3. PICK i : i = CHOOSE j \in at : TRUE
  OBVIOUS
<1>4. PICK w : w = Pair(s)
  OBVIOUS
<1>5. /\ w.members = s.members /\ w.conn = s.conn
      /\ Channel(w, s.id, Range(s.sockets))
  BY <1>4 DEF Pair, Serving, Channel
<1>6. PICK h : h = HandleRequest(s, k)
  OBVIOUS
<1>7. CASE at = {}
  <2>1. CASE q.path = "/sign_in"
    <3>1. h = [With(s, AddMember(Pair(s), s.id + 1, k)) EXCEPT !.id = s.id + 1]
      BY <1>1, <1>2, <1>6, <1>7, <2>1 DEF HandleRequest
    <3> QED
      BY <1>0, <1>6, <3>1, SignInFacts
  <2>2. CASE q.path = "/message"
    <3>1. h = Reply(s, k, 500)
      BY <1>1, <1>2, <1>6, <1>7, <2>2 DEF HandleRequest
    <3> QED
      BY <1>0, <1>6, <3>1, ReplyFacts
  <2>3. CASE q.path # "/sign_in" /\ q.path # "/message"
    <3>1. h = HandleBrowserRequest(s, k)
      BY <1>1, <1>2, <1>6, <1>7, <2>3, Zenon DEF HandleRequest
    <3> QED
      BY <1>0, <1>6, <3>1, BrowserFacts, SMTT(30)
  <2> QED
    BY <2>1, <2>2, <2>3
<1>8. CASE at # {}
  <2>1. i \in 1..Len(s.members) /\ s.members[i].id = q.peer_id
    BY <1>0, <1>2, <1>3, <1>8 DEF Lookup
  <2>2. CASE q.path = "/wait"
    <3>1. PICK v : v = SetWaitingSocket(w, i, k)
      OBVIOUS
    <3>2. h = With(s, v)
      BY <1>1, <1>2, <1>3, <1>4, <1>6, <1>8, <2>2, <3>1 DEF HandleRequest
    <3>3. /\ Channel(v, s.id, Range(s.sockets)) /\ SameLinks(s.conn, v.conn)
      BY <1>1, <1>5, <2>1, <2>2, <3>1, SetWaitingSocketFacts
    <3> QED
      BY <1>6, <3>2, <3>3, ServingWith DEF Keeps, Listens
  <2>3. CASE q.path = "/sign_out"
    <3>1. h = Reply(SignedOut(s, i), k, 200)
      BY <1>1, <1>2, <1>3, <1>6, <1>8, <2>3 DEF HandleRequest, SignedOut
    <3> QED
      BY <1>0, <1>6, <2>1, <3>1, SignOutFacts
  <2>4. CASE q.path # "/wait" /\ q.path # "/sign_out" /\ Lookup(s, q.to) = {}
    <3>1. h = Reply(s, k, 500)
      BY <1>1, <1>2, <1>6, <1>8, <2>4 DEF HandleRequest
    <3> QED
      BY <1>0, <1>6, <3>1, ReplyFacts
  <2>5. CASE q.path # "/wait" /\ q.path # "/sign_out" /\ Lookup(s, q.to) # {}
    <3>1. PICK v : v = ForwardRequestToPeer(w, q.peer_id, q.to, k)
      OBVIOUS
    <3>2. h = With(s, v)
      BY <1>1, <1>2, <1>4, <1>6, <1>8, <2>5, <3>1 DEF HandleRequest
    <3>3. q.peer_id \in Int
      BY <1>0, <1>1
    <3>4. /\ Channel(v, s.id, Range(s.sockets)) /\ SameLinks(s.conn, v.conn)
      BY <1>0, <1>5, <3>1, <3>3, ForwardFacts
    <3> QED
      BY <1>6, <3>2, <3>4, ServingWith DEF Keeps, Listens
  <2> QED
    BY <2>2, <2>3, <2>4, <2>5
<1> QED
  BY <1>7, <1>8

(* The i-th socket is deleted, and no member waits on it. *)
LEMMA CloseSocketFacts ==
  ASSUME NEW s, Serving(s), NEW i \in 1..Len(s.sockets)
  PROVE  /\ Serving(CloseSocket(s, i)) /\ ServerNet(s.conn, CloseSocket(s, i).conn)
         /\ Listens(s, CloseSocket(s, i))
<1>1. PICK v : v = s.sockets /\ Held(v, s.conn, "accepted")
  BY DEF Serving
<1>2. PICK n \in Nat : n = Len(v) /\ i \in 1..n /\ v \in Seq(Key)
  BY <1>1, HeldRange DEF Held
<1>3. PICK k : k = v[i]
  OBVIOUS
<1>4. k \in Range(v) /\ k \in Key /\ k \in DOMAIN s.conn
  BY <1>1, <1>2, <1>3, HeldRange
<1>5. PICK u : u = RemoveAt(v, i)
  OBVIOUS
<1>6. /\ u \in Seq(Key) /\ Len(u) = n - 1
      /\ \A j \in 1..n - 1 : u[j] = IF j < i THEN v[j] ELSE v[j + 1]
  BY <1>2, <1>5, RemoveAtFacts
<1>7. \A j, l \in 1..n : v[j] = v[l] => j = l
  BY <1>1, <1>2 DEF Held
<1>8. \A j \in 1..n - 1 : \E l \in 1..n : /\ u[j] = v[l] /\ l # i
                                         /\ l = IF j < i THEN j ELSE j + 1
  <2>1. ASSUME NEW j \in 1..n - 1
        PROVE  \E l \in 1..n : u[j] = v[l] /\ l # i /\ l = IF j < i THEN j ELSE j + 1
    <3> DEFINE l == IF j < i THEN j ELSE j + 1
    <3>1. l \in 1..n /\ l # i
      BY <1>2
    <3>2. u[j] = v[l]
      BY <1>6
    <3> QED
      BY <3>1, <3>2
  <2> QED
    BY <2>1
<1>9. Held(u, s.conn, "accepted")
  <2>1. \A j \in 1..n - 1 : u[j] \in DOMAIN s.conn /\ s.conn[u[j]].end = "accepted"
    BY <1>1, <1>2, <1>8 DEF Held
  <2>2. ASSUME NEW j \in 1..n - 1, NEW l \in 1..n - 1, u[j] = u[l] PROVE j = l
    <3>1. PICK j2 \in 1..n : u[j] = v[j2] /\ j2 = IF j < i THEN j ELSE j + 1
      BY <1>8
    <3>2. PICK l2 \in 1..n : u[l] = v[l2] /\ l2 = IF l < i THEN l ELSE l + 1
      BY <1>8
    <3>3. j2 = l2
      BY <1>7, <2>2, <3>1, <3>2
    <3> QED
      BY <1>2, <3>1, <3>2, <3>3
  <2> QED
    BY <1>6, <2>1, <2>2 DEF Held
<1>10. Range(u) = Range(v) \ {k}
  <2>1. Range(u) = {u[j] : j \in 1..n - 1} /\ Range(v) = {v[j] : j \in 1..n}
    BY <1>1, <1>2, <1>6, <1>9, HeldRange
  <2>2. \A x \in Range(u) : x \in Range(v) \ {k}
    BY <1>2, <1>3, <1>7, <1>8, <2>1
  <2>3. ASSUME NEW l \in 1..n, v[l] # k PROVE v[l] \in Range(u)
    <3>1. CASE l < i
      <4>1. l \in 1..n - 1
        BY <1>2, <3>1
      <4>2. u[l] = v[l]
        BY <1>6, <3>1, <4>1
      <4> QED
        BY <2>1, <4>1, <4>2
    <3>2. CASE l > i
      <4>1. l - 1 \in 1..n - 1 /\ ~(l - 1 < i) /\ (l - 1) + 1 = l
        BY <1>2, <3>2
      <4>2. u[l - 1] = v[l]
        BY <1>6, <4>1
      <4> QED
        BY <2>1, <4>1, <4>2
    <3>3. l # i
      BY <1>3, <2>3
    <3> QED
      BY <1>2, <3>1, <3>2, <3>3
  <2> QED
    BY <2>1, <2>2, <2>3
<1>11. PICK w : w = OnClosing(Pair(s), k)
  OBVIOUS
<1>12. Channel(w, s.id, Range(u)) /\ SameLinks(s.conn, w.conn)
  <2>1. PICK p : p = Pair(s)
    OBVIOUS
  <2>2. Channel(p, s.id, Range(v)) /\ p.conn = s.conn
    BY <1>1, <2>1 DEF Serving, Channel, Pair
  <2>3. Channel(w, s.id, Range(v) \ {k}) /\ SameLinks(p.conn, w.conn)
    BY <1>4, <1>11, <2>1, <2>2, OnClosingFacts
  <2> QED
    BY <1>10, <2>2, <2>3
<1>13. PICK net : net = Shut(w.conn, {k})
  OBVIOUS
<1>14. /\ Net(w.conn) /\ Net(net) /\ ServerNet(w.conn, net)
       /\ \A j \in DOMAIN w.conn \ {k} : j \in DOMAIN net /\ net[j] = w.conn[j]
  BY <1>12, <1>13, ShutFacts DEF Channel
<1>15. PICK t : t = CloseSocket(s, i)
  OBVIOUS
<1>16. /\ IsServer(t) /\ t.members = w.members /\ t.conn = net /\ t.sockets = u
       /\ t.backlog = s.backlog /\ t.id = s.id /\ t.listening = s.listening
  <2>1. t = [s EXCEPT !.members = w.members, !.conn = net, !.sockets = u]
    BY <1>1, <1>3, <1>5, <1>11, <1>13, <1>15 DEF CloseSocket
  <2> QED
    BY <2>1 DEF Serving, IsServer
<1>17. Held(u, net, "accepted")
  <2>1. Held(u, w.conn, "accepted")
    BY <1>9, <1>12, HeldSame
  <2> QED
    BY <1>10, <1>13, <1>14, <2>1, HeldShut
<1>18. Held(s.backlog, net, "backlog")
  <2>1. Held(s.backlog, w.conn, "backlog") /\ w.conn[k].end = "accepted"
    <3>1. Held(s.backlog, s.conn, "backlog")
      BY DEF Serving
    <3>2. Held(s.backlog, w.conn, "backlog")
      BY <1>12, <3>1, HeldSame
    <3>3. s.conn[k].end = "accepted"
      BY <1>1, <1>4, HeldRange
    <3>4. w.conn[k].end = s.conn[k].end
      BY <1>4, <1>12 DEF SameLinks
    <3> QED
      BY <3>2, <3>3, <3>4
  <2>2. k \notin Range(s.backlog)
    BY <2>1, HeldRange
  <2>3. Range(s.backlog) \cap {k} = {}
    BY <2>2
  <2> QED
    BY <1>13, <1>14, <2>1, <2>3, HeldShut
<1>19. Channel(t, t.id, Range(t.sockets))
  <2>1. Range(u) \subseteq DOMAIN w.conn \ {k}
    BY <1>10, <1>12 DEF Channel
  <2> QED
    BY <1>12, <1>14, <1>16, <2>1 DEF Channel, WaitsOn
<1>20. ServerNet(s.conn, net)
  BY <1>12, <1>14, SameIsServerNet, ServerNetTransitive
<1> QED
  BY <1>15, <1>16, <1>17, <1>18, <1>19, <1>20 DEF Serving, Listens

LEMMA ServeSocketFacts ==
  ASSUME NEW s, Serving(s), NEW i \in 1..Len(s.sockets), NEW part
  PROVE  /\ Serving(ServeSocket(s, i, part)) /\ ServerNet(s.conn, ServeSocket(s, i, part).conn)
         /\ Listens(s, ServeSocket(s, i, part))
<1>1. PICK k : k = s.sockets[i]
  OBVIOUS
<1>2. k \in Range(s.sockets) /\ k \in DOMAIN s.conn /\ Net(s.conn)
  BY <1>1, HeldRange DEF Serving, Channel
<1>3. CASE s.conn[k].left = 0
  <2>1. ServeSocket(s, i, part) = CloseSocket(s, i)
    BY <1>1, <1>3 DEF ServeSocket
  <2> QED
    BY <2>1, CloseSocketFacts
<1>4. CASE s.conn[k].left # 0
  <2>1. PICK y : y = Received(s.conn[k], k \in part)
    OBVIOUS
  <2>2. /\ IsLink(y) /\ y.open = s.conn[k].open /\ y.end = s.conn[k].end
        /\ y.req = s.conn[k].req
    <3>1. IsLink(s.conn[k])
      BY <1>2 DEF Net
    <3>2. PICK x : x = s.conn[k]
      OBVIOUS
    <3>3. PICK l : l = IF k \in part THEN x.left - 1 ELSE 0
      OBVIOUS
    <3>4. l \in Int /\ y = [x EXCEPT !.left = l]
      <4>1. x.left \in Int
        BY <1>2, <3>2, LinkFacts
      <4>2. l \in Int
        BY <3>3, <4>1
      <4> QED
        BY <2>1, <3>2, <3>3, <4>2 DEF Received
    <3> QED
      BY <3>1, <3>2, <3>4 DEF IsLink
  <2>3. PICK net : net = [s.conn EXCEPT ![k] = y]
    OBVIOUS
  <2>4. /\ DOMAIN net = DOMAIN s.conn
        /\ \A j \in DOMAIN net : net[j] = IF j = k THEN y ELSE s.conn[j]
        /\ net = [j \in DOMAIN net |-> net[j]]
    BY <2>3
  <2>5. Net(net) /\ SameLinks(s.conn, net)
    BY <1>2, <2>2, <2>4 DEF Net, SameLinks
  <2>6. PICK w : w = [members |-> s.members, conn |-> net]
    OBVIOUS
  <2>7. Channel(w, s.id, Range(s.sockets))
    BY <2>5, <2>6 DEF Serving, Channel, SameLinks, WaitsOn
  <2>8. PICK got : got = [s EXCEPT !.conn = net]
    OBVIOUS
  <2>9. got = With(s, w)
    <3>1. With(s, w) = [s EXCEPT !.members = s.members, !.conn = net]
      BY <2>6 DEF With
    <3> QED
      BY <2>8, <3>1 DEF Serving, IsServer
  <2>10. Keeps(s, got)
    BY <2>5, <2>6, <2>7, <2>9, ServingWith DEF Keeps, Listens
  <2>11. ServeSocket(s, i, part) = IF k \in part THEN got ELSE HandleRequest(got, k)
    BY <1>1, <1>4, <2>1, <2>3, <2>8 DEF ServeSocket
  <2>12. Keeps(got, HandleRequest(got, k))
    BY <1>2, <2>10, HandleRequestFacts DEF Keeps
  <2>13. Keeps(s, HandleRequest(got, k))
    BY <2>10, <2>12, ServerNetTransitive DEF Keeps, Listens
  <2> QED
    BY <2>10, <2>11, <2>13 DEF Keeps
<1> QED
  BY <1>3, <1>4

LEMMA ServeSocketsFacts ==
  ASSUME Serving(Server), NEW part
  PROVE  /\ Serving(ServeSockets(part)) /\ ServerNet(conn, ServeSockets(part).conn)
         /\ ServeSockets(part).listening =>
              listening /\ ServeSockets(part).backlog = backlog
<1>1. /\ Server.sockets = sockets /\ Server.conn = conn /\ Server.listening = listening
      /\ Server.backlog = backlog
  BY DEF Server
<1>2. PICK n \in Nat : n = Len(sockets)
  BY <1>1, HeldRange DEF Serving
<1>3. PICK g, ready : /\ IsRun("serve", Server, n, <<ready, part>>, g)
                      /\ ServeSockets(part) = g[n]
  BY <1>2, ServeLoop
<1>4. g[0] = Server /\ \A i \in 1..n : g[i] = ServeTurn(g[i - 1], i, ready, part)
  BY <1>3 DEF IsRun, Turn
<1>5. PICK s0 : s0 = Server
  OBVIOUS
<1> DEFINE OK(t) == Serving(t) /\ ServerNet(s0.conn, t.conn) /\ Listens(s0, t)
           S == {i \in 0..n : OK(g[i])}
<1>6. OK(g[0])
  BY <1>4, <1>5 DEF Listens, ServerNet
<1>7. ASSUME NEW i \in 1..n, OK(g[i - 1]) PROVE OK(g[i])
  <2>1. PICK a : a = g[i - 1]
    OBVIOUS
  <2>2. PICK b : b = g[i] /\ b = ServeTurn(a, i, ready, part)
    BY <1>4, <2>1
  <2>3. Len(a.sockets) \in Nat
    BY <1>7, <2>1, HeldRange DEF Serving
  <2>4. b = a \/ (i \in 1..Len(a.sockets) /\ b = ServeSocket(a, i, part))
    BY <2>2, <2>3 DEF ServeTurn
  <2>5. Serving(b) /\ ServerNet(a.conn, b.conn) /\ Listens(a, b)
    <3>1. CASE b = a
      BY <1>7, <2>1, <3>1 DEF Listens, ServerNet
    <3>2. CASE i \in 1..Len(a.sockets) /\ b = ServeSocket(a, i, part)
      BY <1>7, <2>1, <3>2, ServeSocketFacts
    <3> QED
      BY <2>4, <3>1, <3>2
  <2>6. ServerNet(s0.conn, b.conn) /\ Listens(s0, b)
    BY <1>7, <2>1, <2>5, ServerNetTransitive DEF Listens
  <2> QED
    BY <2>2, <2>5, <2>6
<1>8. OK(g[n])
  <2> HIDE DEF OK
  <2>1. 0 \in S /\ \A i \in 1..n : i - 1 \in S => i \in S
    BY <1>6, <1>7
  <2> HIDE DEF S
  <2>2. n \in S
    BY <2>1, IntervalInduction
  <2> QED
    BY <2>2 DEF S
<1> QED
  BY <1>1, <1>3, <1>5, <1>8 DEF Listens

LEMMA AcceptFacts ==
  ASSUME NEW s, Serving(s), s.listening => s.backlog = backlog
  PROVE  Serving(Accept(s)) /\ ServerNet(s.conn, Accept(s).conn)
<1>0. s.conn = s.conn /\ Net(s.conn) /\ IsServer(s)
  BY DEF Serving, Channel
<1>1. CASE backlog = <<>> \/ ~s.listening
  <2>1. Accept(s) = s
    BY <1>1 DEF Accept
  <2> QED
    BY <2>1 DEF ServerNet
<1>2. CASE backlog # <<>> /\ s.listening
  <2>1. PICK v : v = s.backlog /\ v # <<>> /\ Held(v, s.conn, "backlog")
    BY <1>2 DEF Serving
  <2>2. PICK n \in Nat : n = Len(v)
    BY <2>1, HeldRange
  <2>3. v \in Seq(Key)
    BY <2>1 DEF Held
  <2>4. PICK u : u = Tail(v)
    OBVIOUS
  <2>5. PICK k : k = Head(v)
    OBVIOUS
  <2>6. /\ u \in Seq(Key) /\ Len(u) = n - 1 /\ n > 0 /\ k = v[1]
        /\ \A j \in 1..n - 1 : u[j] = v[j + 1]
    BY <2>1, <2>2, <2>3, <2>4, <2>5, HeadTailProperties
  <2>7. /\ \A j, l \in 1..n : v[j] = v[l] => j = l
        /\ \A j \in 1..n : v[j] \in DOMAIN s.conn /\ s.conn[v[j]].end = "backlog"
    BY <2>1, <2>2 DEF Held
  <2>8. \A j \in 1..n - 1 : j + 1 \in 1..n /\ j + 1 # 1
    OBVIOUS
  <2>9. Held(u, s.conn, "backlog") /\ \A j \in 1..n - 1 : u[j] # k
    <3>1. 1 \in 1..n
      BY <2>6
    <3>2. \A j \in 1..n - 1 : u[j] # k
      BY <2>6, <2>7, <2>8, <3>1
    <3>3. \A j, l \in 1..n - 1 : u[j] = u[l] => j = l
      BY <2>6, <2>7, <2>8
    <3>4. \A j \in 1..n - 1 : u[j] \in DOMAIN s.conn /\ s.conn[u[j]].end = "backlog"
      BY <2>6, <2>7, <2>8
    <3> QED
      BY <2>6, <3>2, <3>3, <3>4 DEF Held
  <2>10. k \notin Range(u)
    BY <2>6, <2>9, HeldRange
  <2>11. k \in DOMAIN s.conn /\ s.conn[k].end = "backlog"
    BY <2>6, <2>7
  <2>12. Held(s.sockets, s.conn, "accepted") /\ k \notin Range(s.sockets)
    BY <2>11, HeldRange DEF Serving
  <2>13. CASE Len(s.sockets) >= kMaxConnections
    <3>1. PICK net : net = Shut(s.conn, {k})
      OBVIOUS
    <3>2. PICK t : t = Accept(s)
      OBVIOUS
    <3>3. t = [s EXCEPT !.backlog = u, !.conn = net]
      BY <1>2, <2>1, <2>4, <2>5, <2>13, <3>1, <3>2 DEF Accept
    <3>4. /\ IsServer(t) /\ t.members = s.members /\ t.conn = net
          /\ t.sockets = s.sockets /\ t.backlog = u /\ t.id = s.id
      BY <1>0, <3>3 DEF IsServer
    <3>5. /\ Net(net) /\ ServerNet(s.conn, net)
          /\ \A j \in DOMAIN s.conn \ {k} : j \in DOMAIN net /\ net[j] = s.conn[j]
      BY <1>0, <3>1, ShutFacts
    <3>6. Held(s.sockets, net, "accepted") /\ Held(u, net, "backlog")
      <4>1. Range(s.sockets) \cap {k} = {} /\ Range(u) \cap {k} = {}
        BY <2>10, <2>12
      <4> QED
        BY <1>0, <2>9, <2>12, <3>1, <4>1, HeldShut
    <3>7. Channel(t, t.id, Range(t.sockets))
      <4>1. Range(s.sockets) \subseteq DOMAIN s.conn \ {k}
        BY <2>12, HeldRange
      <4> QED
        BY <3>4, <3>5, <4>1 DEF Serving, Channel, WaitsOn
    <3> QED
      BY <3>2, <3>4, <3>5, <3>6, <3>7 DEF Serving
  <2>14. CASE ~(Len(s.sockets) >= kMaxConnections)
    <3>1. PICK y : y = [s.conn[k] EXCEPT !.end = "accepted"]
      OBVIOUS
    <3>2. PICK net : net = [s.conn EXCEPT ![k] = y]
      OBVIOUS
    <3>3. PICK ks : ks = Append(s.sockets, k)
      OBVIOUS
    <3>4. PICK t : t = Accept(s)
      OBVIOUS
    <3>5. t = [s EXCEPT !.backlog = u, !.conn = net, !.sockets = ks]
      BY <1>2, <2>1, <2>4, <2>5, <2>14, <3>1, <3>2, <3>3, <3>4 DEF Accept
    <3>6. /\ IsServer(t) /\ t.members = s.members /\ t.conn = net
          /\ t.sockets = ks /\ t.backlog = u /\ t.id = s.id
      BY <1>0, <3>5 DEF IsServer
    <3>7. /\ IsLink(y) /\ y.open = s.conn[k].open /\ y.end = "accepted"
          /\ y.req = s.conn[k].req
      <4>1. IsLink(s.conn[k])
        BY <1>0, <2>11 DEF Net
      <4> QED
        BY <3>1, <4>1 DEF IsLink, Ends
    <3>8. /\ DOMAIN net = DOMAIN s.conn
          /\ \A j \in DOMAIN net : net[j] = IF j = k THEN y ELSE s.conn[j]
          /\ net = [j \in DOMAIN net |-> net[j]]
      BY <3>2
    <3>9. Net(net) /\ ServerNet(s.conn, net)
      BY <1>0, <2>11, <3>7, <3>8 DEF Net, ServerNet
    <3>10. PICK m \in Nat : m = Len(s.sockets) /\ s.sockets \in Seq(Key)
      BY <2>12, HeldRange DEF Held
    <3>11. /\ ks \in Seq(Key) /\ Len(ks) = m + 1 /\ ks[m + 1] = k
           /\ \A j \in 1..m : ks[j] = s.sockets[j]
      <4>1. k \in Key
        BY <1>0, <2>11, LinkFacts
      <4> QED
        BY <3>3, <3>10, <4>1, AppendProperties
    <3>12. \A j \in 1..m + 1 : j \in 1..m \/ j = m + 1
      OBVIOUS
    <3>13. \A j \in 1..m : /\ s.sockets[j] \in DOMAIN s.conn /\ s.sockets[j] # k
                           /\ s.conn[s.sockets[j]].end = "accepted"
      <4>1. \A j \in 1..m : s.sockets[j] \in Range(s.sockets)
        BY <2>12, <3>10, HeldRange
      <4> QED
        BY <2>12, <3>10, <4>1 DEF Held
    <3>14. Held(ks, net, "accepted")
      <4>1. \A j \in 1..m + 1 : ks[j] \in DOMAIN net /\ net[ks[j]].end = "accepted"
        BY <2>11, <3>7, <3>8, <3>11, <3>12, <3>13
      <4>2. \A j, l \in 1..m : s.sockets[j] = s.sockets[l] => j = l
        BY <2>12, <3>10 DEF Held
      <4>3. \A j, l \in 1..m + 1 : ks[j] = ks[l] => j = l
        BY <3>11, <3>12, <3>13, <4>2
      <4> QED
        BY <3>11, <4>1, <4>3 DEF Held
    <3>15. Held(u, net, "backlog")
      BY <2>6, <2>9, <3>8 DEF Held
    <3>16. Range(s.sockets) \subseteq Range(ks)
      <4>1. /\ Range(ks) = {ks[j] : j \in 1..m + 1}
            /\ Range(s.sockets) = {s.sockets[j] : j \in 1..m}
        BY <2>12, <3>10, <3>11, <3>14, HeldRange
      <4> QED
        BY <3>11, <4>1
    <3>17. Channel(t, t.id, Range(t.sockets))
      <4>1. Range(ks) \subseteq DOMAIN net
        BY <3>14, HeldRange
      <4>2. \A j \in Range(s.sockets) : net[j] = s.conn[j]
        BY <2>12, <3>8, HeldRange
      <4> QED
        BY <3>6, <3>9, <3>16, <4>1, <4>2 DEF Serving, Channel, WaitsOn
    <3> QED
      BY <3>4, <3>6, <3>9, <3>14, <3>15, <3>17 DEF Serving
  <2> QED
    BY <2>13, <2>14
<1> QED
  BY <1>1, <1>2

LEMMA AllServedFacts ==
  ASSUME Serving(Server), NEW part
  PROVE  LET t == AllServed(part)
         IN  /\ Serving(t) /\ ServerNet(conn, t.conn)
             /\ t.listening => listening /\ t.backlog = backlog
<1>1. PICK s : s = ServeSockets(part)
  OBVIOUS
<1>2. /\ Serving(s) /\ ServerNet(conn, s.conn)
      /\ s.listening => listening /\ s.backlog = backlog
  BY <1>1, ServeSocketsFacts
<1>3. PICK w : w = CheckForTimeout(Pair(s))
  OBVIOUS
<1>4. Channel(w, s.id, Range(s.sockets)) /\ SameLinks(s.conn, w.conn)
  <2>1. PICK p : p = Pair(s)
    OBVIOUS
  <2>2. Channel(p, s.id, Range(s.sockets)) /\ p.conn = s.conn
    BY <1>2, <2>1 DEF Serving, Channel, Pair
  <2> QED
    BY <1>3, <2>1, <2>2, CheckForTimeoutFacts
<1>5. PICK t : t = With(s, w)
  OBVIOUS
<1>6. Keeps(s, t)
  BY <1>2, <1>4, <1>5, ServingWith DEF Keeps, Listens
<1>7. AllServed(part) = t
  BY <1>1, <1>3, <1>5 DEF AllServed
<1>8. ServerNet(conn, t.conn)
  BY <1>2, <1>6, ServerNetTransitive DEF Keeps
<1> QED
  BY <1>2, <1>6, <1>7, <1>8 DEF Keeps, Listens

LEMMA OutcomeFacts ==
  ASSUME Serving(Server), NEW part
  PROVE  Serving(Outcome(part)) /\ ServerNet(conn, Outcome(part).conn)
<1>1. PICK t : t = AllServed(part)
  OBVIOUS
<1>2. /\ Serving(t) /\ ServerNet(conn, t.conn)
      /\ t.listening => listening /\ t.backlog = backlog
  BY <1>1, AllServedFacts
<1>3. Serving(Accept(t)) /\ ServerNet(t.conn, Accept(t).conn)
  BY <1>2, AcceptFacts
<1> QED
  BY <1>1, <1>2, <1>3, ServerNetTransitive DEF Outcome

(* The loop goes on in the state e. *)
LEMMA GoesFacts ==
  ASSUME NEW e, Serving(e), ServerNet(conn, e.conn), Goes(e)
  PROVE  Serving(Server)' /\ ServerNet(conn, conn')
<1>1. PICK t : t = Server'
  OBVIOUS
<1>2. /\ t.members = e.members /\ t.conn = e.conn /\ t.sockets = e.sockets
      /\ t.backlog = e.backlog /\ t.id = e.id /\ t.listening = e.listening
      /\ t.quit = e.quit /\ conn' = e.conn
  BY <1>1 DEF Server, Goes
<1>3. IsServer(t)
  <2>1. e.id \in Nat /\ e.quit \in BOOLEAN /\ e.listening \in BOOLEAN
    BY DEF Serving, IsServer
  <2> QED
    BY <1>1, <1>2, <2>1 DEF IsServer, Server
<1>4. Serving(t)
  BY <1>2, <1>3 DEF Serving, Channel
<1> QED
  BY <1>1, <1>2, <1>4

(* The process ends in the state e. *)
LEMMA StopsFacts ==
  ASSUME NEW e, Serving(e), ServerNet(conn, e.conn), Stops(e)
  PROVE  Serving(Server)' /\ ServerNet(conn, conn')
<1>1. PICK t : t = Server'
  OBVIOUS
<1>2. PICK ks : ks = Range(e.sockets) \union Range(e.backlog)
  OBVIOUS
<1>3. /\ t.members = <<>> /\ t.conn = conn' /\ t.sockets = <<>>
      /\ t.backlog = <<>> /\ t.id = e.id /\ t.listening = FALSE
      /\ t.quit = e.quit /\ conn' = Shut(e.conn, ks)
  BY <1>1, <1>2 DEF Server, Stops
<1>4. IsServer(t)
  <2>1. e.id \in Nat /\ e.quit \in BOOLEAN
    BY DEF Serving, IsServer
  <2> QED
    BY <1>1, <1>3, <2>1 DEF IsServer, Server
<1>5. Net(e.conn)
  BY DEF Serving, Channel
<1>6. Net(conn') /\ ServerNet(e.conn, conn')
  BY <1>3, <1>5, ShutFacts
<1>7. Held(t.sockets, conn', "accepted") /\ Held(t.backlog, conn', "backlog")
  BY <1>3 DEF Held
<1>8. Channel(t, t.id, Range(t.sockets))
  <2>1. t.members \in Seq(Peer) /\ Len(t.members) = 0 /\ Range(t.sockets) = {}
    BY <1>3 DEF Range
  <2> QED
    BY <1>3, <1>6, <2>1 DEF Channel
<1>9. Serving(t)
  BY <1>3, <1>4, <1>7, <1>8 DEF Serving
<1> QED
  BY <1>1, <1>6, <1>9, ServerNetTransitive

(* A pass of the select loop, whatever it serves. *)
LEMMA PassFacts ==
  ASSUME Serving(Server), Pass
  PROVE  Serving(Server)' /\ ServerNet(conn, conn')
<1>1. PICK part : Goes(Outcome(part)) \/ Stops(Outcome(part))
  BY DEF Pass
<1>2. PICK e : e = Outcome(part)
  OBVIOUS
<1>3. Serving(e) /\ ServerNet(conn, e.conn)
  BY <1>2, OutcomeFacts
<1> QED
  BY <1>1, <1>2, <1>3, GoesFacts, StopsFacts

(* Nor does a failing accept() or select() leave anything behind. *)
LEMMA FailureFacts ==
  ASSUME Serving(Server), AcceptFails \/ SelectFails
  PROVE  Serving(Server)' /\ ServerNet(conn, conn')
<1>1. CASE AcceptFails
  <2>1. PICK part : Goes(AllServed(part)) \/ Stops(AllServed(part))
    BY <1>1 DEF AcceptFails
  <2>2. PICK e : e = AllServed(part)
    OBVIOUS
  <2>3. Serving(e) /\ ServerNet(conn, e.conn)
    BY <2>2, AllServedFacts
  <2> QED
    BY <2>1, <2>2, <2>3, GoesFacts, StopsFacts
<1>2. CASE SelectFails
  <2>1. PICK e : e = Server /\ e.conn = conn
    BY DEF Server
  <2>2. Serving(e) /\ ServerNet(conn, e.conn) /\ Stops(e)
    BY <1>2, <2>1 DEF SelectFails, ServerNet
  <2> QED
    BY <2>2, StopsFacts
<1> QED
  BY <1>1, <1>2

LEMMA TickFacts ==
  ASSUME Serving(Server), Tick
  PROVE  Serving(Server)' /\ ServerNet(conn, conn')
<1>1. PICK s : s = Server
  OBVIOUS
<1>2. /\ s.members = members /\ s.conn = conn /\ s.sockets = sockets
      /\ s.backlog = backlog /\ s.id = s_member_id /\ s.quit = quit
      /\ s.listening = listening
  BY <1>1 DEF Server
<1>3. PICK t : t = Server'
  OBVIOUS
<1>4. /\ t.members = members' /\ t.conn = conn /\ t.sockets = sockets
      /\ t.backlog = backlog /\ t.id = s_member_id /\ t.quit = quit
      /\ t.listening = listening
  BY <1>3 DEF Server, Tick
<1>5. IsServer(t)
  BY <1>1, <1>2, <1>3, <1>4 DEF Serving, IsServer, Server
<1>6. PICK n \in Nat : n = Len(members) /\ members \in Seq(Peer) /\ DOMAIN members = 1..n
  BY <1>1, <1>2, MembersFacts DEF Serving, Channel
<1>7. \A i \in 1..n : /\ members'[i] \in Peer /\ members'[i].id = members[i].id
                      /\ members'[i].waiting = members[i].waiting
  <2>1. \A m \in Peer : LET a == [m EXCEPT !.age = m.age + 1]
                        IN  a \in Peer /\ a.id = m.id /\ a.waiting = m.waiting
    BY DEF Peer
  <2>2. \A i \in 1..n : members[i] \in Peer
    BY <1>6, MembersFacts
  <2>3. \A i \in 1..n : members'[i] = IF Ages(members[i])
                                        THEN [members[i] EXCEPT !.age = members[i].age + 1]
                                        ELSE members[i]
    BY <1>6 DEF Tick
  <2> QED
    BY <2>1, <2>2, <2>3
<1>8. members' \in Seq(Peer) /\ Len(members') = n
  <2>1. members' = [i \in 1..n |-> members'[i]]
    BY <1>6 DEF Tick
  <2>2. members' \in [1..n -> Peer]
    BY <1>7, <2>1
  <2> QED
    BY <2>2, SeqDef, LenProperties
<1>9. Channel(t, t.id, Range(t.sockets))
  <2>1. Channel(s, s.id, Range(s.sockets))
    BY <1>1 DEF Serving
  <2>2. \A i \in 1..n : WaitsOn(members'[i], conn, Range(sockets))
    BY <1>2, <1>6, <1>7, <2>1 DEF Channel, WaitsOn
  <2>3. /\ \A i \in 1..n : members'[i].id \in 1..s_member_id
        /\ \A i, j \in 1..n : members'[i].id = members'[j].id => i = j
    BY <1>2, <1>6, <1>7, <2>1 DEF Channel
  <2> QED
    BY <1>2, <1>4, <1>8, <2>1, <2>2, <2>3 DEF Channel
<1>10. Serving(t)
  BY <1>1, <1>2, <1>4, <1>5, <1>9 DEF Serving
<1> QED
  BY <1>3, <1>10 DEF Tick, ServerNet

-----------------------------------------------------------------------------
(* The clients *)

State == {"NOT_CONNECTED", "RESOLVING", "SIGNING_IN", "CONNECTED",
          "SIGNING_OUT_WAITING", "SIGNING_OUT"}

IsClientRecord(x, c) ==
  x \in [name : {c}, state : State, my_id : Int, peers : {x.peers},
         control : {x.control}, hanging : {x.hanging}, onconnect : Path,
         to : {x.to}, text : Text, resolving : BOOLEAN, retry : Nat,
         got : {x.got}]

(* A socket of client c: closed, or open at the client's end. *)
Socket(k, c, net) ==
  \/ k \in {Null, Closed}
  \/ k \in DOMAIN net /\ net[k].open /\ k[1] = c

Sockets(x, c, net) ==
  /\ Socket(x.control, c, net) /\ Socket(x.hanging, c, net)
  /\ x.control = x.hanging => x.control \in {Null, Closed}

(* The client together with the connections. *)
Sane(p, c) ==
  /\ p \in [net : {p.net}, c : {p.c}]
  /\ Net(p.net) /\ IsClientRecord(p.c, c) /\ Sockets(p.c, c, p.net)

(* What client c does to the connections: those the server holds stay at   *)
(* its end as they are, and so do the open ends of the others.             *)
ClientNet(a, b, c) ==
  /\ \A k \in DOMAIN a : a[k].end \in {"backlog", "accepted"} =>
       k \in DOMAIN b /\ b[k].end = a[k].end /\ b[k].req = a[k].req
  /\ \A k \in DOMAIN a : a[k].open /\ k[1] # c => k \in DOMAIN b /\ b[k].open

LEMMA ClientNetTransitive ==
  ASSUME NEW a, NEW b, NEW d, NEW c, ClientNet(a, b, c), ClientNet(b, d, c)
  PROVE  ClientNet(a, d, c)
BY DEF ClientNet

LEMMA ClientNetReflexive == \A a, c : ClientNet(a, a, c)
BY DEF ClientNet

LEMMA NoKey == Null \notin Key /\ Closed \notin Key /\ NoSocket \notin Key
BY DEF Null, Closed, NoSocket, Key

LEMMA HangFacts ==
  ASSUME NEW net, Net(net), NEW c, NEW ks, \A k \in ks \cap DOMAIN net : k[1] = c
  PROVE  /\ Net(Hang(net, ks)) /\ ClientNet(net, Hang(net, ks), c)
         /\ \A k \in DOMAIN net \ ks : k \in DOMAIN Hang(net, ks) /\ Hang(net, ks)[k] = net[k]
<1> DEFINE left == {k \in DOMAIN net : k \notin ks \/ net[k].end \in {"backlog", "accepted"}}
           y(k) == [net[k] EXCEPT !.open = FALSE, !.resp = <<>>]
<1>1. PICK b : b = Hang(net, ks)
  OBVIOUS
<1>2. b = [k \in left |-> IF k \in ks THEN y(k) ELSE net[k]]
  BY <1>1 DEF Hang
<1>3. \A k \in DOMAIN net : /\ IsLink(net[k]) /\ IsLink(y(k))
                            /\ y(k).end = net[k].end /\ y(k).req = net[k].req
  <2>1. ASSUME NEW x, IsLink(x)
        PROVE  LET z == [x EXCEPT !.open = FALSE, !.resp = <<>>]
               IN  IsLink(z) /\ z.end = x.end /\ z.req = x.req
    <3>1. PICK e \in Seq(Answer) : e = <<>>
      BY EmptySeq, Zenon
    <3>2. PICK z : z = [x EXCEPT !.open = FALSE, !.resp = e]
      OBVIOUS
    <3>3. z \in [open : BOOLEAN, end : Ends, left : Int, resp : Seq(Answer), req : {x.req}]
      BY <2>1, <3>2 DEF IsLink
    <3>4. z.end = x.end /\ z.req = x.req
      BY <2>1, <3>2 DEF IsLink
    <3> QED
      BY <2>1, <3>1, <3>2, <3>3, <3>4 DEF IsLink
  <2> QED
    BY <2>1 DEF Net
<1> HIDE DEF y
<1>4. DOMAIN b = left /\ b = [k \in DOMAIN b |-> b[k]]
  BY <1>2
<1>5. \A k \in left : IsLink(b[k]) /\ b[k].end = net[k].end /\ b[k].req = net[k].req
  BY <1>2, <1>3
<1>6. IsFiniteSet(left) /\ left \subseteq Key
  BY FS_Subset DEF Net
<1>7. Net(b)
  BY <1>4, <1>5, <1>6 DEF Net
<1>8. \A k \in DOMAIN net \ ks : k \in DOMAIN b /\ b[k] = net[k]
  BY <1>2, <1>4
<1>9. ClientNet(net, b, c)
  BY <1>4, <1>5, <1>8 DEF ClientNet
<1> QED
  BY <1>1, <1>7, <1>8, <1>9

LEMMA DialFacts ==
  ASSUME NEW net, Net(net), NEW k \in Key, k \notin DOMAIN net, NEW c
  PROVE  /\ Net(Dial(net, k)) /\ ClientNet(net, Dial(net, k), c)
         /\ k \in DOMAIN Dial(net, k) /\ Dial(net, k)[k].open /\ Dial(net, k)[k].end = "syn"
         /\ \A j \in DOMAIN net : j \in DOMAIN Dial(net, k) /\ Dial(net, k)[j] = net[j]
<1>1. PICK b : b = Dial(net, k)
  OBVIOUS
<1>2. PICK y : y = [open |-> TRUE, end |-> "syn", left |-> 0, resp |-> <<>>,
                    req |-> NoRequest]
  OBVIOUS
<1>3. IsLink(y) /\ y.open /\ y.end = "syn"
  <2>1. IsRequest(NoRequest)
    BY DEF NoRequest, IsRequest, Path, Text
  <2>2. PICK q : q = NoRequest
    OBVIOUS
  <2> QED
    BY <1>2, <2>1, <2>2 DEF IsLink, Ends
<1>4. b = [j \in DOMAIN net \cup {k} |-> IF j = k THEN y ELSE net[j]]
  BY <1>1, <1>2 DEF Dial
<1>5. /\ DOMAIN b = DOMAIN net \cup {k} /\ b = [j \in DOMAIN b |-> b[j]]
      /\ b[k] = y /\ \A j \in DOMAIN net : b[j] = net[j]
  BY <1>4
<1>6. IsFiniteSet(DOMAIN b) /\ DOMAIN b \subseteq Key
  BY <1>5, FS_AddElement DEF Net
<1>7. Net(b)
  BY <1>3, <1>5, <1>6 DEF Net
<1> QED
  BY <1>1, <1>3, <1>5, <1>7 DEF ClientNet

LEMMA SentFacts ==
  ASSUME NEW net, Net(net), NEW k \in DOMAIN net, net[k].end = "syn", NEW c,
         NEW path \in Path, NEW id \in Int, NEW to, NEW text \in Text
  PROVE  LET b == Sent(net, k, path, id, to, text)
         IN  /\ Net(b) /\ ClientNet(net, b, c) /\ DOMAIN b = DOMAIN net
             /\ b[k].open = net[k].open /\ b[k].end = "backlog"
             /\ \A j \in DOMAIN net \ {k} : b[j] = net[j]
<1>1. PICK b : b = Sent(net, k, path, id, to, text)
  OBVIOUS
<1>2. PICK q : q = [path |-> path, peer_id |-> id, to |-> to, text |-> text]
  OBVIOUS
<1>3. IsRequest(q)
  BY <1>2 DEF IsRequest
<1>4. PICK l \in Int : l = IF path \in {"/sign_in", "/wait", "/sign_out"} THEN 1 ELSE 2
  OBVIOUS
<1>5. PICK x : x = net[k] /\ IsLink(x)
  BY DEF Net
<1>6. PICK y : y = [open |-> x.open, end |-> "backlog", resp |-> x.resp, left |-> l,
                    req |-> q]
  OBVIOUS
<1>7. IsLink(y) /\ y.open = x.open /\ y.end = "backlog"
  BY <1>3, <1>5, <1>6 DEF IsLink, Ends
<1>8. b = [net EXCEPT ![k] = y]
  BY <1>1, <1>2, <1>4, <1>5, <1>6 DEF Sent
<1>9. /\ DOMAIN b = DOMAIN net /\ b = [j \in DOMAIN b |-> b[j]]
      /\ b[k] = y /\ \A j \in DOMAIN net \ {k} : b[j] = net[j]
  <2>1. net = [j \in DOMAIN net |-> net[j]]
    BY DEF Net
  <2> QED
    BY <1>8, <2>1
<1>10. Net(b)
  BY <1>7, <1>9 DEF Net
<1>11. ClientNet(net, b, c)
  BY <1>5, <1>7, <1>9 DEF ClientNet
<1> QED
  BY <1>1, <1>5, <1>7, <1>9, <1>10, <1>11

(* The client's sockets are its own, and keep being so when others close. *)
LEMMA SocketsFacts ==
  ASSUME NEW x, NEW c, NEW net, Net(net), Sockets(x, c, net)
  PROVE  \A k \in {x.control, x.hanging} \cap DOMAIN net : k[1] = c
BY NoKey DEF Sockets, Socket, Net

LEMMA SocketStays ==
  ASSUME NEW k, NEW c, NEW a, NEW b, Socket(k, c, a),
         k \in DOMAIN a => k \in DOMAIN b /\ b[k] = a[k]
  PROVE  Socket(k, c, b)
BY DEF Socket

LEMMA SaneIs ==
  ASSUME NEW net, NEW x, NEW c, Net(net), IsClientRecord(x, c), Sockets(x, c, net)
  PROVE  LET p == [net |-> net, c |-> x] IN Sane(p, c) /\ p.net = net /\ p.c = x
BY DEF Sane

LEMMA CloseBothFacts ==
  ASSUME NEW c, NEW p, Sane(p, c)
  PROVE  Sane(CloseBoth(p), c) /\ ClientNet(p.net, CloseBoth(p).net, c)
<1>1. PICK x : x = p.c /\ IsClientRecord(x, c) /\ Sockets(x, c, p.net) /\ Net(p.net)
  BY DEF Sane
<1>2. PICK b : b = Hang(p.net, {x.control, x.hanging})
  OBVIOUS
<1>3. Net(b) /\ ClientNet(p.net, b, c)
  BY <1>1, <1>2, SocketsFacts, HangFacts
<1>4. PICK y : y = [x EXCEPT !.control = Closed, !.hanging = Closed, !.onconnect = "",
                             !.to = -1, !.text = "", !.peers = {}, !.my_id = -1,
                             !.state = "NOT_CONNECTED", !.resolving = FALSE, !.got = <<>>]
  OBVIOUS
<1>5. IsClientRecord(y, c) /\ y.control = Closed /\ y.hanging = Closed
  <2>1. PICK v \in Int : v = -1
    OBVIOUS
  <2>2. PICK got : got = <<>>
    OBVIOUS
  <2>3. PICK peers : peers = {}
    OBVIOUS
  <2>4. PICK closed : closed = Closed
    OBVIOUS
  <2>5. y = [x EXCEPT !.control = closed, !.hanging = closed, !.onconnect = "", !.to = v,
                      !.text = "", !.peers = peers, !.my_id = v,
                      !.state = "NOT_CONNECTED", !.resolving = FALSE, !.got = got]
    BY <1>4, <2>1, <2>2, <2>3, <2>4
  <2>6. PICK state \in State : state = "NOT_CONNECTED"
    BY DEF State
  <2>7. PICK path \in Path : path = ""
    BY DEF Path
  <2>8. PICK text \in Text : text = ""
    BY DEF Text
  <2>9. y = [x EXCEPT !.control = closed, !.hanging = closed, !.onconnect = path, !.to = v,
                      !.text = text, !.peers = peers, !.my_id = v, !.state = state,
                      !.resolving = FALSE, !.got = got]
    BY <2>5, <2>6, <2>7, <2>8
  <2>10. y.control = closed /\ y.hanging = closed
    BY <1>1, <2>9 DEF IsClientRecord
  <2>11. IsClientRecord(y, c)
    BY <1>1, <2>9 DEF IsClientRecord
  <2> QED
    BY <2>4, <2>10, <2>11
<1>6. Sockets(y, c, b)
  BY <1>5 DEF Sockets, Socket
<1>7. CloseBoth(p) = [net |-> b, c |-> y]
  BY <1>1, <1>2, <1>4 DEF CloseBoth
<1> QED
  BY <1>3, <1>5, <1>6, <1>7, SaneIs

LEMMA DialControl ==
  ASSUME NEW c \in Client, NEW p, Sane(p, c)
  PROVE  LET k == Fresh(p.net, p.c.name)
             q == [net |-> Dial(p.net, k), c |-> [p.c EXCEPT !.control = k]]
         IN  Sane(q, c) /\ ClientNet(p.net, q.net, c)
<1>1. PICK x : x = p.c /\ IsClientRecord(x, c) /\ Sockets(x, c, p.net) /\ Net(p.net)
  BY DEF Sane
<1>2. PICK k : k = Fresh(p.net, c)
  OBVIOUS
<1>3. k \in Key /\ k \notin DOMAIN p.net /\ k[1] = c
  BY <1>1, <1>2, FreshFacts DEF Owner
<1>4. PICK b : b = Dial(p.net, k)
  OBVIOUS
<1>5. /\ Net(b) /\ ClientNet(p.net, b, c) /\ k \in DOMAIN b /\ b[k].open
      /\ \A j \in DOMAIN p.net : j \in DOMAIN b /\ b[j] = p.net[j]
  BY <1>1, <1>3, <1>4, DialFacts
<1>6. PICK y : y = [x EXCEPT !.control = k]
  OBVIOUS
<1>7. IsClientRecord(y, c) /\ y.control = k /\ y.hanging = x.hanging
  BY <1>1, <1>6 DEF IsClientRecord
<1>8. Socket(k, c, b) /\ Socket(x.hanging, c, b) /\ x.hanging # k
  BY <1>1, <1>3, <1>5, NoKey, SocketStays DEF Sockets, Socket
<1>9. Sockets(y, c, b)
  BY <1>7, <1>8 DEF Sockets
<1>10. x.name = c
  BY <1>1 DEF IsClientRecord
<1> QED
  BY <1>1, <1>2, <1>4, <1>5, <1>6, <1>7, <1>9, <1>10, SaneIs

LEMMA DialHangingFacts ==
  ASSUME NEW c \in Client, NEW p, Sane(p, c)
  PROVE  Sane(DialHanging(p), c) /\ ClientNet(p.net, DialHanging(p).net, c)
<1>1. PICK x : x = p.c /\ IsClientRecord(x, c) /\ Sockets(x, c, p.net) /\ Net(p.net)
  BY DEF Sane
<1>2. PICK k : k = Fresh(p.net, c)
  OBVIOUS
<1>3. k \in Key /\ k \notin DOMAIN p.net /\ k[1] = c
  BY <1>1, <1>2, FreshFacts DEF Owner
<1>4. PICK b : b = Dial(p.net, k)
  OBVIOUS
<1>5. /\ Net(b) /\ ClientNet(p.net, b, c) /\ k \in DOMAIN b /\ b[k].open
      /\ \A j \in DOMAIN p.net : j \in DOMAIN b /\ b[j] = p.net[j]
  BY <1>1, <1>3, <1>4, DialFacts
<1>6. PICK y : y = [x EXCEPT !.hanging = k]
  OBVIOUS
<1>7. IsClientRecord(y, c) /\ y.hanging = k /\ y.control = x.control
  BY <1>1, <1>6 DEF IsClientRecord
<1>8. Socket(k, c, b) /\ Socket(x.control, c, b) /\ x.control # k
  BY <1>1, <1>3, <1>5, NoKey, SocketStays DEF Sockets, Socket
<1>9. Sockets(y, c, b)
  BY <1>7, <1>8 DEF Sockets
<1>10. x.name = c
  BY <1>1 DEF IsClientRecord
<1>11. DialHanging(p) = [net |-> b, c |-> y]
  BY <1>1, <1>2, <1>4, <1>6, <1>10 DEF DialHanging
<1> QED
  BY <1>5, <1>7, <1>9, <1>11, SaneIs

LEMMA ConnectControlSocketFacts ==
  ASSUME NEW c \in Client, NEW p, Sane(p, c)
  PROVE  /\ Sane(ConnectControlSocket(p), c)
         /\ ClientNet(p.net, ConnectControlSocket(p).net, c)
BY DialControl, CloseBothFacts DEF ConnectControlSocket

(* The control socket is closed, and the other one stays. *)
ControlClosed(p) ==
  [net |-> Hang(p.net, {p.c.control}), c |-> [p.c EXCEPT !.control = Closed]]

LEMMA ControlClosedFacts ==
  ASSUME NEW c, NEW p, Sane(p, c)
  PROVE  Sane(ControlClosed(p), c) /\ ClientNet(p.net, ControlClosed(p).net, c)
<1>1. PICK x : x = p.c /\ IsClientRecord(x, c) /\ Sockets(x, c, p.net) /\ Net(p.net)
  BY DEF Sane
<1>2. PICK b : b = Hang(p.net, {x.control})
  OBVIOUS
<1>3. /\ Net(b) /\ ClientNet(p.net, b, c)
      /\ \A k \in DOMAIN p.net \ {x.control} : k \in DOMAIN b /\ b[k] = p.net[k]
  <2>1. PICK ks : ks = {x.control}
    OBVIOUS
  <2>2. \A k \in ks \cap DOMAIN p.net : k[1] = c
    BY <1>1, <2>1, SocketsFacts
  <2>3. /\ Net(Hang(p.net, ks)) /\ ClientNet(p.net, Hang(p.net, ks), c)
        /\ \A k \in DOMAIN p.net \ ks : k \in DOMAIN Hang(p.net, ks)
                                       /\ Hang(p.net, ks)[k] = p.net[k]
    BY <1>1, <2>2, HangFacts
  <2> QED
    BY <1>2, <2>1, <2>3
<1>4. PICK y : y = [x EXCEPT !.control = Closed]
  OBVIOUS
<1>5. IsClientRecord(y, c) /\ y.control = Closed /\ y.hanging = x.hanging
  BY <1>1, <1>4 DEF IsClientRecord
<1>6. Sockets(y, c, b)
  <2>1. Socket(x.hanging, c, b)
    <3>1. x.hanging \in DOMAIN p.net => x.hanging # x.control
      BY <1>1, NoKey DEF Sockets, Net
    <3> QED
      BY <1>1, <1>3, <3>1, SocketStays DEF Sockets
  <2> QED
    BY <1>5, <2>1 DEF Sockets, Socket
<1>7. ControlClosed(p) = [net |-> b, c |-> y]
  BY <1>1, <1>2, <1>4 DEF ControlClosed
<1> QED
  BY <1>3, <1>5, <1>6, <1>7, SaneIs

HangingClosed(p) ==
  [net |-> Hang(p.net, {p.c.hanging}), c |-> [p.c EXCEPT !.hanging = Closed]]

LEMMA HangingClosedFacts ==
  ASSUME NEW c, NEW p, Sane(p, c)
  PROVE  Sane(HangingClosed(p), c) /\ ClientNet(p.net, HangingClosed(p).net, c)
<1>1. PICK x : x = p.c /\ IsClientRecord(x, c) /\ Sockets(x, c, p.net) /\ Net(p.net)
  BY DEF Sane
<1>2. PICK b : b = Hang(p.net, {x.hanging})
  OBVIOUS
<1>3. /\ Net(b) /\ ClientNet(p.net, b, c)
      /\ \A k \in DOMAIN p.net \ {x.hanging} : k \in DOMAIN b /\ b[k] = p.net[k]
  <2>1. PICK ks : ks = {x.hanging}
    OBVIOUS
  <2>2. \A k \in ks \cap DOMAIN p.net : k[1] = c
    BY <1>1, <2>1, SocketsFacts
  <2>3. /\ Net(Hang(p.net, ks)) /\ ClientNet(p.net, Hang(p.net, ks), c)
        /\ \A k \in DOMAIN p.net \ ks : k \in DOMAIN Hang(p.net, ks)
                                       /\ Hang(p.net, ks)[k] = p.net[k]
    BY <1>1, <2>2, HangFacts
  <2> QED
    BY <1>2, <2>1, <2>3
<1>4. PICK y : y = [x EXCEPT !.hanging = Closed]
  OBVIOUS
<1>5. IsClientRecord(y, c) /\ y.hanging = Closed /\ y.control = x.control
  BY <1>1, <1>4 DEF IsClientRecord
<1>6. Sockets(y, c, b)
  <2>1. Socket(x.control, c, b)
    <3>1. x.control \in DOMAIN p.net => x.hanging # x.control
      BY <1>1, NoKey DEF Sockets, Net
    <3> QED
      BY <1>1, <1>3, <3>1, SocketStays DEF Sockets
  <2> QED
    BY <1>5, <2>1 DEF Sockets, Socket
<1>7. HangingClosed(p) = [net |-> b, c |-> y]
  BY <1>1, <1>2, <1>4 DEF HangingClosed
<1> QED
  BY <1>3, <1>5, <1>6, <1>7, SaneIs

(* The client changes and its sockets stay. *)
LEMMA SaneChanged ==
  ASSUME NEW c, NEW p, Sane(p, c), NEW y, IsClientRecord(y, c),
         y.control = p.c.control, y.hanging = p.c.hanging
  PROVE  LET q == [net |-> p.net, c |-> y] IN Sane(q, c) /\ q.net = p.net /\ q.c = y
BY DEF Sane, Sockets

LEMMA StateChanged ==
  ASSUME NEW c, NEW p, Sane(p, c), NEW state \in State
  PROVE  LET q == [p EXCEPT !.c.state = state]
         IN  Sane(q, c) /\ q.net = p.net /\ q.c = [p.c EXCEPT !.state = state]
<1>1. PICK x : x = p.c /\ IsClientRecord(x, c)
  BY DEF Sane
<1>2. PICK y : y = [x EXCEPT !.state = state]
  OBVIOUS
<1>3. IsClientRecord(y, c) /\ y.control = x.control /\ y.hanging = x.hanging
  BY <1>1, <1>2 DEF IsClientRecord
<1>4. PICK q : q = [p EXCEPT !.c.state = state]
  OBVIOUS
<1>5. q = [net |-> p.net, c |-> y]
  BY <1>1, <1>2, <1>4 DEF Sane
<1>6. Sane(q, c) /\ q.net = p.net /\ q.c = y
  BY <1>1, <1>3, <1>5, SaneChanged
<1> QED
  BY <1>1, <1>2, <1>4, <1>6

LEMMA ResolvingChanged ==
  ASSUME NEW c, NEW p, Sane(p, c), NEW v \in BOOLEAN
  PROVE  LET q == [p EXCEPT !.c.resolving = v]
         IN  Sane(q, c) /\ q.net = p.net /\ q.c = [p.c EXCEPT !.resolving = v]
<1>1. PICK x : x = p.c /\ IsClientRecord(x, c)
  BY DEF Sane
<1>2. PICK y : y = [x EXCEPT !.resolving = v]
  OBVIOUS
<1>3. IsClientRecord(y, c) /\ y.control = x.control /\ y.hanging = x.hanging
  BY <1>1, <1>2 DEF IsClientRecord
<1>4. PICK q : q = [p EXCEPT !.c.resolving = v]
  OBVIOUS
<1>5. q = [net |-> p.net, c |-> y]
  BY <1>1, <1>2, <1>4 DEF Sane
<1>6. Sane(q, c) /\ q.net = p.net /\ q.c = y
  BY <1>1, <1>3, <1>5, SaneChanged
<1> QED
  BY <1>1, <1>2, <1>4, <1>6

LEMMA DoConnectFacts ==
  ASSUME NEW c \in Client, NEW p, Sane(p, c)
  PROVE  Sane(DoConnect(p), c) /\ ClientNet(p.net, DoConnect(p).net, c)
<1>1. PICK x : x = p.c /\ IsClientRecord(x, c) /\ Sockets(x, c, p.net) /\ Net(p.net)
  BY DEF Sane
<1>2. PICK b : b = Hang(p.net, {x.control, x.hanging})
  OBVIOUS
<1>3. Net(b) /\ ClientNet(p.net, b, c)
  BY <1>1, <1>2, SocketsFacts, HangFacts
<1>4. PICK v : v = -1
  OBVIOUS
<1>5. PICK closed : closed = Closed
  OBVIOUS
<1>6. PICK y : y = [x EXCEPT !.control = closed, !.hanging = closed,
                             !.onconnect = "/sign_in", !.to = v, !.text = ""]
  OBVIOUS
<1>7. IsClientRecord(y, c) /\ y.control = closed /\ y.hanging = closed
  BY <1>1, <1>6 DEF IsClientRecord, Path, Text
<1>8. Sockets(y, c, b)
  BY <1>5, <1>7 DEF Sockets, Socket
<1>9. PICK r : r = [net |-> b, c |-> y]
  OBVIOUS
<1>10. Sane(r, c) /\ r.net = b
  BY <1>3, <1>7, <1>8, <1>9, SaneIs
<1>11. PICK q : q = ConnectControlSocket(r)
  OBVIOUS
<1>12. Sane(q, c) /\ ClientNet(p.net, q.net, c)
  BY <1>3, <1>10, <1>11, ConnectControlSocketFacts, ClientNetTransitive
<1>13. DoConnect(p) = [q EXCEPT !.c.state = "SIGNING_IN"]
  BY <1>1, <1>2, <1>4, <1>5, <1>6, <1>9, <1>11 DEF DoConnect
<1>14. PICK state \in State : state = "SIGNING_IN"
  BY DEF State
<1> QED
  BY <1>12, <1>13, <1>14, StateChanged

LEMMA SendToPeerFacts ==
  ASSUME NEW c \in Client, NEW p, Sane(p, c), NEW to, NEW text \in Text
  PROVE  Sane(SendToPeer(p, to, text), c) /\ ClientNet(p.net, SendToPeer(p, to, text).net, c)
<1>1. PICK x : x = p.c /\ IsClientRecord(x, c)
  BY DEF Sane
<1>2. PICK y : y = [x EXCEPT !.onconnect = "/message", !.to = to, !.text = text]
  OBVIOUS
<1>3. IsClientRecord(y, c) /\ y.control = x.control /\ y.hanging = x.hanging
  BY <1>1, <1>2 DEF IsClientRecord, Path
<1>4. PICK q : q = [p EXCEPT !.c.onconnect = "/message", !.c.to = to, !.c.text = text]
  OBVIOUS
<1>5. q = [net |-> p.net, c |-> y]
  BY <1>1, <1>2, <1>4 DEF Sane
<1>6. Sane(q, c) /\ q.net = p.net
  BY <1>1, <1>3, <1>5, SaneChanged
<1> QED
  BY <1>4, <1>6, ConnectControlSocketFacts DEF SendToPeer

LEMMA SignOutFactsOfClient ==
  ASSUME NEW c \in Client, NEW p, Sane(p, c)
  PROVE  Sane(SignOut(p), c) /\ ClientNet(p.net, SignOut(p).net, c)
<1>1. PICK q : q = HangingClosed(p)
  OBVIOUS
<1>2. Sane(q, c) /\ ClientNet(p.net, q.net, c)
  BY <1>1, HangingClosedFacts
<1>3. PICK waits \in State : waits = "SIGNING_OUT_WAITING"
  BY DEF State
<1>4. PICK leaves \in State : leaves = "SIGNING_OUT"
  BY DEF State
<1>5. PICK wait : wait = [q EXCEPT !.c.state = waits]
  OBVIOUS
<1>6. PICK out : out = [q EXCEPT !.c.state = leaves]
  OBVIOUS
<1>7. /\ Sane(wait, c) /\ wait.net = q.net
      /\ Sane(out, c) /\ out.net = q.net
  BY <1>2, <1>5, <1>6, StateChanged
<1>8. PICK asks : asks = [out EXCEPT !.c.onconnect = "/sign_out"]
  OBVIOUS
<1>9. Sane(asks, c) /\ asks.net = q.net
  <2>1. PICK x : x = out.c /\ IsClientRecord(x, c)
    BY <1>7 DEF Sane
  <2>2. PICK y : y = [x EXCEPT !.onconnect = "/sign_out"]
    OBVIOUS
  <2>3. IsClientRecord(y, c) /\ y.control = x.control /\ y.hanging = x.hanging
    BY <2>1, <2>2 DEF IsClientRecord, Path
  <2>4. asks = [net |-> out.net, c |-> y]
    BY <1>7, <1>8, <2>1, <2>2 DEF Sane
  <2> QED
    BY <1>7, <2>1, <2>3, <2>4, SaneChanged
<1>10. /\ Sane(ConnectControlSocket(asks), c)
       /\ ClientNet(p.net, ConnectControlSocket(asks).net, c)
  BY <1>2, <1>9, ConnectControlSocketFacts, ClientNetTransitive
<1>11. SignOut(p) \in {wait, out, ConnectControlSocket(asks)}
  BY <1>1, <1>3, <1>4, <1>5, <1>6, <1>8 DEF SignOut, HangingClosed
<1> QED
  BY <1>2, <1>7, <1>10, <1>11

LEMMA ReconnectedFacts ==
  ASSUME NEW c \in Client, NEW p, Sane(p, c)
  PROVE  Sane(Reconnected(p), c) /\ ClientNet(p.net, Reconnected(p).net, c)
<1>1. PICK q : q = HangingClosed(p)
  OBVIOUS
<1>2. Sane(q, c) /\ ClientNet(p.net, q.net, c)
  BY <1>1, HangingClosedFacts
<1>3. Sane(DialHanging(q), c) /\ ClientNet(p.net, DialHanging(q).net, c)
  BY <1>2, DialHangingFacts, ClientNetTransitive
<1>4. Reconnected(p) \in {q, DialHanging(q)}
  BY <1>1 DEF Reconnected, HangingClosed
<1> QED
  BY <1>2, <1>3, <1>4

LEMMA StartFacts ==
  ASSUME NEW c, NEW net, Net(net)
  PROVE  IsClientRecord(Start(c), c) /\ Sockets(Start(c), c, net)
<1>1. PICK v \in Int : v = -1
  OBVIOUS
<1>2. PICK got : got = <<>>
  OBVIOUS
<1>3. PICK null : null = Null
  OBVIOUS
<1>4. PICK x : x = [name |-> c, state |-> "NOT_CONNECTED", my_id |-> v, peers |-> {},
                    control |-> null, hanging |-> null, onconnect |-> "", to |-> v,
                    text |-> "", resolving |-> FALSE, retry |-> 0, got |-> got]
  OBVIOUS
<1>5. IsClientRecord(x, c) /\ x.control = null /\ x.hanging = null
  BY <1>4 DEF IsClientRecord, State, Path, Text
<1>6. Sockets(x, c, net)
  BY <1>3, <1>5 DEF Sockets, Socket
<1>7. Start(c) = x
  BY <1>1, <1>2, <1>3, <1>4 DEF Start
<1> QED
  BY <1>5, <1>6, <1>7

-----------------------------------------------------------------------------
(* The steps of the clients *)

Clients ==
  /\ cl = [c \in Client |-> cl[c]]
  /\ \A c \in Client : IsClientRecord(cl[c], c) /\ Sockets(cl[c], c, conn)

(* One client becomes p.c and the others stay as they are. *)
LEMMA Becomes ==
  ASSUME Clients, NEW c \in Client, NEW p, Sane(p, c), ClientNet(conn, p.net, c),
         Become(c, p)
  PROVE  Clients' /\ Net(conn') /\ ClientNet(conn, conn', c)
<1>1. conn' = p.net /\ cl' = [cl EXCEPT ![c] = p.c]
  BY DEF Become
<1>2. cl' = [d \in Client |-> IF d = c THEN p.c ELSE cl[d]]
  BY <1>1 DEF Clients
<1>3. ASSUME NEW d \in Client, d # c
      PROVE  IsClientRecord(cl'[d], d) /\ Sockets(cl'[d], d, conn')
  <2>1. cl'[d] = cl[d] /\ IsClientRecord(cl[d], d) /\ Sockets(cl[d], d, conn)
    BY <1>2, <1>3 DEF Clients
  <2>2. \A k : Socket(k, d, conn) => Socket(k, d, conn')
    BY <1>1, <1>3 DEF Socket, ClientNet
  <2> QED
    BY <2>1, <2>2 DEF Sockets
<1>4. IsClientRecord(cl'[c], c) /\ Sockets(cl'[c], c, conn') /\ Net(conn')
  BY <1>1, <1>2 DEF Sane
<1>5. cl' = [d \in Client |-> cl'[d]]
  BY <1>2
<1> QED
  BY <1>1, <1>3, <1>4, <1>5 DEF Clients

LEMMA NowIsSane ==
  ASSUME Clients, Net(conn), NEW c \in Client
  PROVE  Sane(Now(c), c) /\ Now(c).net = conn /\ Now(c).c = cl[c]
BY SaneIs DEF Now, Clients

(* What a step of client c that leaves the backlog alone has to show. *)
Moves(c) == Clients' /\ Net(conn') /\ ClientNet(conn, conn', c)

(* What Login and OnResolveResult make of the client. *)
Resolves(p, state) == [[p EXCEPT !.c.state = state] EXCEPT !.c.resolving = TRUE]
Resolved(p) == [p EXCEPT !.c.resolving = FALSE]

LEMMA ResolveCases ==
  ASSUME NEW c \in Client, Login(c) \/ OnResolveResult(c)
  PROVE  \/ Login(c) /\ Become(c, DoConnect(Now(c)))
         \/ Login(c) /\ Become(c, Resolves(Now(c), "RESOLVING"))
         \/ OnResolveResult(c) /\ Become(c, DoConnect(Resolved(Now(c))))
         \/ /\ OnResolveResult(c)
            /\ Become(c, [Resolved(Now(c)) EXCEPT !.c.state = "NOT_CONNECTED"])
<1>1. CASE Login(c)
  <2>1. CASE Become(c, DoConnect(Now(c)))
    BY <1>1, <2>1
  <2>2. CASE Become(c, [Now(c) EXCEPT !.c.state = "RESOLVING", !.c.resolving = TRUE])
    BY <1>1, <2>2, Zenon DEF Resolves
  <2> QED
    BY <1>1, <2>1, <2>2, Zenon DEF Login
<1>2. CASE OnResolveResult(c)
  BY <1>2, Zenon DEF OnResolveResult, Resolved
<1> QED
  BY <1>1, <1>2

LEMMA LoginFacts ==
  ASSUME Clients, Net(conn), NEW c \in Client, Login(c) \/ OnResolveResult(c)
  PROVE  Moves(c)
<1>1. PICK p : p = Now(c)
  OBVIOUS
<1>2. Sane(p, c) /\ p.net = conn
  BY <1>1, NowIsSane
<1>3. PICK q : q = Resolved(p)
  OBVIOUS
<1>4. Sane(q, c) /\ q.net = conn
  BY <1>2, <1>3, ResolvingChanged DEF Resolved
<1>5. PICK a \in State : a = "RESOLVING"
  BY DEF State
<1>6. PICK b \in State : b = "NOT_CONNECTED"
  BY DEF State
<1>7. PICK u : u = [p EXCEPT !.c.state = a]
  OBVIOUS
<1>8. Sane(u, c) /\ u.net = conn
  BY <1>2, <1>7, StateChanged
<1>9. Sane(Resolves(p, a), c) /\ Resolves(p, a).net = conn
  BY <1>7, <1>8, ResolvingChanged DEF Resolves
<1>10. PICK v : v = [q EXCEPT !.c.state = b]
  OBVIOUS
<1>11. Sane(v, c) /\ v.net = conn
  BY <1>4, <1>10, StateChanged
<1>12. /\ Sane(DoConnect(p), c) /\ ClientNet(conn, DoConnect(p).net, c)
       /\ Sane(DoConnect(q), c) /\ ClientNet(conn, DoConnect(q).net, c)
  BY <1>2, <1>4, DoConnectFacts
<1>13. \/ Become(c, DoConnect(p)) \/ Become(c, Resolves(p, a))
       \/ Become(c, DoConnect(q)) \/ Become(c, v)
  BY <1>1, <1>3, <1>5, <1>6, <1>10, ResolveCases
<1> QED
  BY <1>9, <1>11, <1>12, <1>13, Becomes, ClientNetReflexive DEF Moves

LEMMA SendFactsOfClient ==
  ASSUME Clients, Net(conn), NEW c \in Client, SendMessage(c) \/ HangUp(c)
  PROVE  Moves(c)
<1>1. PICK p : p = Now(c)
  OBVIOUS
<1>2. Sane(p, c) /\ p.net = conn
  BY <1>1, NowIsSane
<1>3. PICK text \in Text : text = "message"
  BY DEF Text
<1>4. PICK to : Become(c, SendToPeer(p, to, text))
  BY <1>1, <1>3 DEF SendMessage, HangUp
<1>5. /\ Sane(SendToPeer(p, to, text), c)
      /\ ClientNet(conn, SendToPeer(p, to, text).net, c)
  BY <1>2, SendToPeerFacts
<1> QED
  BY <1>4, <1>5, Becomes DEF Moves

LEMMA LogOutFacts ==
  ASSUME Clients, Net(conn), NEW c \in Client, LogOut(c) \/ Crash(c)
  PROVE  Moves(c)
<1>1. PICK p : p = Now(c)
  OBVIOUS
<1>2. Sane(p, c) /\ p.net = conn /\ p.c = cl[c]
  BY <1>1, NowIsSane
<1>3. Sane(SignOut(p), c) /\ ClientNet(conn, SignOut(p).net, c)
  BY <1>2, SignOutFactsOfClient
<1>4. PICK a : a = [net |-> conn, c |-> Start(c)]
  OBVIOUS
<1>5. Sane(a, c) /\ ClientNet(conn, a.net, c)
  BY <1>4, StartFacts, SaneIs, ClientNetReflexive
<1>6. PICK net : net = Hang(conn, {cl[c].control, cl[c].hanging})
  OBVIOUS
<1>7. Net(net) /\ ClientNet(conn, net, c)
  BY <1>6, SocketsFacts, HangFacts DEF Clients
<1>8. PICK b : b = [net |-> net, c |-> Start(c)]
  OBVIOUS
<1>9. Sane(b, c) /\ ClientNet(conn, b.net, c)
  BY <1>7, <1>8, StartFacts, SaneIs
<1>10. Become(c, SignOut(p)) \/ Become(c, a) \/ Become(c, b)
  BY <1>1, <1>4, <1>6, <1>8 DEF LogOut, Crash
<1> QED
  BY <1>3, <1>5, <1>9, <1>10, Becomes DEF Moves

LEMMA RetryFacts ==
  ASSUME Clients, Net(conn), NEW c \in Client, Retry(c)
  PROVE  Moves(c)
<1>1. PICK p : p = Now(c)
  OBVIOUS
<1>2. Sane(p, c) /\ p.net = conn
  BY <1>1, NowIsSane
<1>3. PICK x : x = p.c /\ IsClientRecord(x, c)
  BY <1>2 DEF Sane
<1>4. PICK y : y = [x EXCEPT !.retry = x.retry - 1]
  OBVIOUS
<1>5. IsClientRecord(y, c) /\ y.control = x.control /\ y.hanging = x.hanging
  <2>1. x.retry \in Nat /\ x.retry > 0
    BY <1>1, <1>3, NowIsSane DEF IsClientRecord, Retry
  <2>2. PICK n \in Nat : n = x.retry - 1
    BY <2>1
  <2> QED
    BY <1>3, <1>4, <2>2 DEF IsClientRecord
<1>6. PICK q : q = [p EXCEPT !.c.retry = p.c.retry - 1]
  OBVIOUS
<1>7. q = [net |-> p.net, c |-> y]
  BY <1>2, <1>3, <1>4, <1>6 DEF Sane
<1>8. Sane(q, c) /\ q.net = conn
  BY <1>2, <1>3, <1>5, <1>7, SaneChanged
<1>9. Sane(DoConnect(q), c) /\ ClientNet(conn, DoConnect(q).net, c)
  BY <1>8, DoConnectFacts
<1>10. Become(c, DoConnect(q))
  BY <1>1, <1>6 DEF Retry
<1> QED
  BY <1>9, <1>10, Becomes DEF Moves

LEMMA OnCloseFacts ==
  ASSUME Clients, Net(conn), NEW c \in Client, OnRefused(c) \/ OnClose(c)
  PROVE  Moves(c)
<1>1. PICK p : p = Now(c)
  OBVIOUS
<1>2. Sane(p, c) /\ p.net = conn /\ p.c = cl[c]
  BY <1>1, NowIsSane
<1>3. PICK a : a = ControlClosed(p)
  OBVIOUS
<1>4. Sane(a, c) /\ ClientNet(conn, a.net, c)
  BY <1>2, <1>3, ControlClosedFacts
<1>5. PICK b : b = [net |-> Hang(conn, {cl[c].control}),
                    c   |-> [cl[c] EXCEPT !.control = Closed, !.retry = @ + 1]]
  OBVIOUS
<1>6. Sane(b, c) /\ ClientNet(conn, b.net, c)
  <2>1. PICK x : x = a.c /\ IsClientRecord(x, c)
    BY <1>4 DEF Sane
  <2>2. PICK y : y = [x EXCEPT !.retry = x.retry + 1]
    OBVIOUS
  <2>3. IsClientRecord(y, c) /\ y.control = x.control /\ y.hanging = x.hanging
    BY <2>1, <2>2 DEF IsClientRecord
  <2>4. a.net = Hang(conn, {cl[c].control}) /\ x = [cl[c] EXCEPT !.control = Closed]
    BY <1>2, <1>3, <2>1 DEF ControlClosed
  <2>5. y = [cl[c] EXCEPT !.control = Closed, !.retry = @ + 1]
    <3>1. x.retry = cl[c].retry
      BY <1>2, <2>4 DEF Sane, IsClientRecord
    <3> QED
      BY <2>2, <2>4, <3>1
  <2>6. b = [net |-> a.net, c |-> y]
    BY <1>5, <2>4, <2>5
  <2> QED
    BY <1>4, <2>1, <2>3, <2>6, SaneChanged
<1>7. Sane(CloseBoth(p), c) /\ ClientNet(conn, CloseBoth(p).net, c)
  BY <1>2, CloseBothFacts
<1>8. Sane(Reconnected(p), c) /\ ClientNet(conn, Reconnected(p).net, c)
  BY <1>2, ReconnectedFacts
<1>9. Become(c, a) \/ Become(c, b) \/ Become(c, CloseBoth(p)) \/ Become(c, Reconnected(p))
  BY <1>1, <1>2, <1>3, <1>5 DEF OnRefused, OnClose, ControlClosed
<1> QED
  BY <1>4, <1>6, <1>7, <1>8, <1>9, Becomes DEF Moves

(* A response that is read is one. *)
LEMMA HeadFacts ==
  ASSUME NEW net, Net(net), NEW k \in DOMAIN net, net[k].resp # <<>>
  PROVE  Head(net[k].resp) \in Answer
<1>1. PICK v : v = net[k].resp /\ v \in Seq(Answer)
  BY DEF Net, IsLink
<1> QED
  BY <1>1, HeadTailProperties

LEMMA OnReadFacts ==
  ASSUME Clients, Net(conn), NEW c \in Client, OnRead(c)
  PROVE  Moves(c)
<1>1. PICK p : p = ControlClosed(Now(c))
  OBVIOUS
<1>2. Sane(p, c) /\ ClientNet(conn, p.net, c)
  BY <1>1, NowIsSane, ControlClosedFacts
<1>3. PICK r : r = Head(conn[cl[c].control].resp)
  OBVIOUS
<1>4. r.pragma \in Int
  <2>1. r \in Answer
    BY <1>3, HeadFacts, Zenon DEF OnRead, Answered, IsOpen
  <2> QED
    BY <2>1, SMTT(30) DEF Answer
<1>5. p = [net |-> Hang(conn, {cl[c].control}), c |-> [cl[c] EXCEPT !.control = Closed]]
  BY <1>1, NowIsSane DEF ControlClosed
<1>6. PICK a : a = [p EXCEPT !.c.my_id = r.pragma, !.c.peers = Ids(r) \ {r.pragma}]
  OBVIOUS
<1>7. Sane(a, c) /\ ClientNet(conn, a.net, c)
  <2>1. PICK x : x = p.c /\ IsClientRecord(x, c)
    BY <1>2 DEF Sane
  <2>2. PICK peers : peers = Ids(r) \ {r.pragma}
    OBVIOUS
  <2>3. PICK id \in Int : id = r.pragma
    BY <1>4
  <2>4. PICK y : y = [x EXCEPT !.my_id = id, !.peers = peers]
    OBVIOUS
  <2>5. IsClientRecord(y, c) /\ y.control = x.control /\ y.hanging = x.hanging
    BY <2>1, <2>4 DEF IsClientRecord
  <2>6. a = [net |-> p.net, c |-> y]
    BY <1>2, <1>6, <2>1, <2>2, <2>3, <2>4 DEF Sane
  <2> QED
    BY <1>2, <2>1, <2>5, <2>6, SaneChanged
<1>8. Sane(CloseBoth(p), c) /\ ClientNet(conn, CloseBoth(p).net, c)
  BY <1>2, CloseBothFacts, ClientNetTransitive
<1>9. Sane(SignOut(p), c) /\ ClientNet(conn, SignOut(p).net, c)
  BY <1>2, SignOutFactsOfClient, ClientNetTransitive
<1>10. PICK q : /\ q \in {CloseBoth(p), a, SignOut(p), p}
                /\ Become(c, IF q.c.state = "SIGNING_IN"
                               THEN DialHanging([q EXCEPT !.c.state = "CONNECTED"]) ELSE q)
  <2> DEFINE z == CASE r.status # 200 -> CloseBoth(p)
                    [] r.status = 200 /\ p.c.my_id = -1 -> a
                    [] r.status = 200 /\ p.c.my_id # -1 /\ p.c.state = "SIGNING_OUT" ->
                         CloseBoth(p)
                    [] r.status = 200 /\ p.c.my_id # -1
                                      /\ p.c.state = "SIGNING_OUT_WAITING" -> SignOut(p)
                    [] OTHER -> p
  <2>1. z \in {CloseBoth(p), a, SignOut(p), p}
    OBVIOUS
  <2>2. Become(c, IF z.c.state = "SIGNING_IN"
                    THEN DialHanging([z EXCEPT !.c.state = "CONNECTED"]) ELSE z)
    BY <1>3, <1>5, <1>6, ZenonT(30) DEF OnRead
  <2> HIDE DEF z
  <2> QED
    BY <2>1, <2>2, Zenon
<1>11. Sane(q, c) /\ ClientNet(conn, q.net, c)
  BY <1>2, <1>7, <1>8, <1>9, <1>10
<1>12. PICK state \in State : state = "CONNECTED"
  BY DEF State
<1>13. PICK d : d = [q EXCEPT !.c.state = state]
  OBVIOUS
<1>14. Sane(d, c) /\ d.net = q.net
  BY <1>11, <1>13, StateChanged
<1>15. Sane(DialHanging(d), c) /\ ClientNet(conn, DialHanging(d).net, c)
  BY <1>11, <1>14, DialHangingFacts, ClientNetTransitive
<1>16. Become(c, DialHanging(d)) \/ Become(c, q)
  BY <1>10, <1>12, <1>13
<1> QED
  BY <1>11, <1>15, <1>16, Becomes DEF Moves

LEMMA OnHangingGetReadFacts ==
  ASSUME Clients, Net(conn), NEW c \in Client, OnHangingGetRead(c)
  PROVE  Moves(c)
<1>1. PICK p : p = Reconnected(Now(c))
  OBVIOUS
<1>2. Sane(p, c) /\ ClientNet(conn, p.net, c)
  BY <1>1, NowIsSane, ReconnectedFacts
<1>3. PICK x : x = p.c /\ IsClientRecord(x, c)
  BY <1>2 DEF Sane
<1>4. Sane(CloseBoth(p), c) /\ ClientNet(conn, CloseBoth(p).net, c)
  BY <1>2, CloseBothFacts, ClientNetTransitive
<1>5. PICK r : r = Head(conn[cl[c].hanging].resp)
  OBVIOUS
<1>6. PICK q : q = [p EXCEPT !.c.got = Append(p.c.got, r)]
  OBVIOUS
<1>7. Sane(q, c) /\ q.net = p.net
  <2>1. PICK got : got = Append(x.got, r)
    OBVIOUS
  <2>2. PICK y : y = [x EXCEPT !.got = got]
    OBVIOUS
  <2>3. IsClientRecord(y, c) /\ y.control = x.control /\ y.hanging = x.hanging
    BY <1>3, <2>2 DEF IsClientRecord
  <2>4. q = [net |-> p.net, c |-> y]
    BY <1>2, <1>3, <1>6, <2>1, <2>2 DEF Sane
  <2> QED
    BY <1>2, <1>3, <2>3, <2>4, SaneChanged
<1>8. PICK peers : peers = LET e == r.entries[1]
                           IN  IF e[2] THEN q.c.peers \cup {e[1]} ELSE q.c.peers \ {e[1]}
  OBVIOUS
<1>9. PICK d : d = [q EXCEPT !.c.peers = peers]
  OBVIOUS
<1>10. Sane(d, c) /\ d.net = p.net
  <2>1. PICK z : z = q.c /\ IsClientRecord(z, c)
    BY <1>7 DEF Sane
  <2>2. PICK y : y = [z EXCEPT !.peers = peers]
    OBVIOUS
  <2>3. IsClientRecord(y, c) /\ y.control = z.control /\ y.hanging = z.hanging
    BY <2>1, <2>2 DEF IsClientRecord
  <2>4. d = [net |-> q.net, c |-> y]
    BY <1>7, <1>9, <2>1, <2>2 DEF Sane
  <2> QED
    BY <1>7, <2>1, <2>3, <2>4, SaneChanged
<1>11. Become(c, CloseBoth(p)) \/ Become(c, d) \/ Become(c, q)
  <2> DEFINE e == r.entries[1]
             z == CASE r.status # 200 -> CloseBoth(p)
                    [] r.status = 200 /\ r.pragma = cl[c].my_id ->
                         [q EXCEPT !.c.peers = IF e[2] THEN @ \cup {e[1]} ELSE @ \ {e[1]}]
                    [] OTHER -> q
  <2>1. [q EXCEPT !.c.peers = IF e[2] THEN @ \cup {e[1]} ELSE @ \ {e[1]}] = d
    BY <1>8, <1>9
  <2>2. z \in {CloseBoth(p), d, q}
    BY <2>1, SMTT(30)
  <2>3. Become(c, z)
    BY <1>1, <1>5, <1>6, Zenon DEF OnHangingGetRead
  <2> HIDE DEF z
  <2> QED
    BY <2>2, <2>3
<1> QED
  BY <1>2, <1>4, <1>7, <1>10, <1>11, Becomes DEF Moves

(* The backlog is as it was, or one more connection is complete. *)
Arrives ==
  \/ backlog' = backlog
  \/ \E k \in Key : /\ backlog' = Append(backlog, k)
                    /\ k \in DOMAIN conn' /\ conn'[k].end = "backlog"
                    /\ k \in DOMAIN conn => conn[k].end = "syn"

LEMMA OnConnectFacts ==
  ASSUME Clients, Net(conn), NEW c \in Client, OnConnect(c)
  PROVE  Moves(c) /\ Arrives
<1>1. PICK x : x = cl[c] /\ IsClientRecord(x, c) /\ Sockets(x, c, conn)
  BY DEF Clients
<1>2. PICK k : k = x.control /\ k \in DOMAIN conn /\ conn[k].end = "syn"
  BY <1>1 DEF OnConnect, Connecting, IsOpen
<1>3. x.onconnect \in Path /\ x.my_id \in Int /\ x.text \in Text
  BY <1>1 DEF IsClientRecord
<1>4. PICK b : b = Sent(conn, k, x.onconnect, x.my_id, x.to, x.text)
  OBVIOUS
<1>5. /\ Net(b) /\ ClientNet(conn, b, c) /\ DOMAIN b = DOMAIN conn
      /\ b[k].open = conn[k].open /\ b[k].end = "backlog"
      /\ \A j \in DOMAIN conn \ {k} : b[j] = conn[j]
  BY <1>2, <1>3, <1>4, SentFacts
<1>6. PICK v : v = -1
  OBVIOUS
<1>7. PICK y : y = [x EXCEPT !.onconnect = "", !.to = v, !.text = ""]
  OBVIOUS
<1>8. IsClientRecord(y, c) /\ y.control = x.control /\ y.hanging = x.hanging
  BY <1>1, <1>7 DEF IsClientRecord, Path, Text
<1>9. Sockets(y, c, b)
  <2>1. \A j : Socket(j, c, conn) => Socket(j, c, b)
    BY <1>5 DEF Socket
  <2> QED
    BY <1>1, <1>8, <2>1 DEF Sockets
<1>10. PICK p : p = [net |-> b, c |-> y]
  OBVIOUS
<1>11. Sane(p, c) /\ p.net = b
  BY <1>5, <1>8, <1>9, <1>10, SaneIs
<1>12. Become(c, p) /\ backlog' = Append(backlog, k)
  BY <1>1, <1>2, <1>4, <1>6, <1>7, <1>10 DEF OnConnect
<1>13. Moves(c)
  BY <1>5, <1>11, <1>12, Becomes DEF Moves
<1>14. k \in Key /\ conn' = b
  BY <1>2, <1>11, <1>12 DEF Net, Become
<1>15. Arrives
  BY <1>2, <1>5, <1>12, <1>14 DEF Arrives
<1> QED
  BY <1>13, <1>15

LEMMA OnHangingGetConnectFacts ==
  ASSUME Clients, Net(conn), NEW c \in Client, OnHangingGetConnect(c)
  PROVE  Moves(c) /\ Arrives
<1>1. PICK x : x = cl[c] /\ IsClientRecord(x, c)
  BY DEF Clients
<1>2. PICK k : k = x.hanging /\ k \in DOMAIN conn /\ conn[k].end = "syn"
  BY <1>1 DEF OnHangingGetConnect, Connecting, IsOpen
<1>3. PICK id \in Int : id = x.my_id
  BY <1>1 DEF IsClientRecord
<1>4. PICK path \in Path : path = "/wait"
  BY DEF Path
<1>5. PICK text \in Text : text = ""
  BY DEF Text
<1>6. PICK v : v = -1
  OBVIOUS
<1>7. PICK b : b = Sent(conn, k, path, id, v, text)
  OBVIOUS
<1>8. /\ Net(b) /\ ClientNet(conn, b, c) /\ DOMAIN b = DOMAIN conn
      /\ b[k].open = conn[k].open /\ b[k].end = "backlog"
      /\ \A j \in DOMAIN conn \ {k} : b[j] = conn[j]
  BY <1>2, <1>7, SentFacts
<1>9. conn' = b /\ backlog' = Append(backlog, k) /\ cl' = cl
  BY <1>1, <1>2, <1>3, <1>4, <1>5, <1>6, <1>7 DEF OnHangingGetConnect
<1>10. Clients'
  <2>1. \A j, d : Socket(j, d, conn) => Socket(j, d, conn')
    BY <1>8, <1>9 DEF Socket
  <2>2. \A d \in Client : Sockets(cl'[d], d, conn') /\ IsClientRecord(cl'[d], d)
    BY <1>9, <2>1 DEF Clients, Sockets
  <2> QED
    BY <1>9, <2>2 DEF Clients
<1>11. k \in Key
  BY <1>2 DEF Net
<1>12. Arrives
  BY <1>2, <1>8, <1>9, <1>11 DEF Arrives
<1> QED
  BY <1>8, <1>9, <1>10, <1>12 DEF Moves

LEMMA BrowseFacts ==
  ASSUME Clients, Net(conn), Browse
  PROVE  Clients' /\ Net(conn') /\ ClientNet(conn, conn', "browser") /\ Arrives
<1>1. PICK path \in Path :
        LET k == Fresh(conn, "browser")
        IN  /\ conn' = Hang(Sent(Dial(conn, k), k, path, -1, -1, ""), {k})
            /\ backlog' = Append(backlog, k)
  BY DEF Browse, Path
<1>2. PICK k : k = Fresh(conn, "browser")
  OBVIOUS
<1>3. k \in Key /\ k \notin DOMAIN conn
  BY <1>2, FreshFacts DEF Owner
<1>4. PICK a : a = Dial(conn, k)
  OBVIOUS
<1>5. /\ Net(a) /\ k \in DOMAIN a /\ a[k].end = "syn"
      /\ \A j \in DOMAIN conn : j \in DOMAIN a /\ a[j] = conn[j]
  BY <1>3, <1>4, DialFacts
<1>6. PICK v \in Int : v = -1
  OBVIOUS
<1>7. PICK text \in Text : text = ""
  BY DEF Text
<1>8. PICK b : b = Sent(a, k, path, v, v, text)
  OBVIOUS
<1>9. /\ Net(b) /\ DOMAIN b = DOMAIN a /\ b[k].end = "backlog"
      /\ \A j \in DOMAIN a \ {k} : b[j] = a[j]
  BY <1>5, <1>8, SentFacts
<1>10. PICK ks : ks = {k}
  OBVIOUS
<1>11. conn' = Hang(b, ks) /\ backlog' = Append(backlog, k)
  BY <1>1, <1>2, <1>4, <1>6, <1>7, <1>8, <1>10
<1>12. /\ Net(conn') /\ ClientNet(b, conn', k[1])
       /\ \A j \in DOMAIN b \ ks : j \in DOMAIN conn' /\ conn'[j] = b[j]
  <2>1. PICK o : o = k[1]
    OBVIOUS
  <2>2. \A j \in ks \cap DOMAIN b : j[1] = o
    BY <1>10, <2>1
  <2>3. PICK d : d = Hang(b, ks)
    OBVIOUS
  <2>4. /\ Net(d) /\ ClientNet(b, d, o)
        /\ \A j \in DOMAIN b \ ks : j \in DOMAIN d /\ d[j] = b[j]
    BY <1>9, <2>2, <2>3, HangFacts
  <2> QED
    BY <1>11, <2>1, <2>3, <2>4
<1>13. \A j \in DOMAIN conn : j \in DOMAIN conn' /\ conn'[j] = conn[j]
  BY <1>3, <1>5, <1>9, <1>10, <1>12
<1>14. ClientNet(conn, conn', "browser")
  BY <1>13 DEF ClientNet
<1>15. k \in DOMAIN conn' /\ conn'[k].end = "backlog"
  BY <1>5, <1>9, <1>12 DEF ClientNet
<1>16. Arrives
  BY <1>3, <1>11, <1>15 DEF Arrives
<1>17. Clients'
  <2>1. \A j, d : Socket(j, d, conn) => Socket(j, d, conn')
    BY <1>13 DEF Socket
  <2>2. cl' = cl
    BY DEF Browse
  <2>3. \A d \in Client : Sockets(cl'[d], d, conn') /\ IsClientRecord(cl'[d], d)
    BY <2>1, <2>2 DEF Clients, Sockets
  <2> QED
    BY <2>2, <2>3 DEF Clients
<1> QED
  BY <1>12, <1>14, <1>16, <1>17

LEMMA HeldStays ==
  ASSUME NEW v, NEW a, NEW b, NEW c, NEW end \in {"backlog", "accepted"},
         Held(v, a, end), ClientNet(a, b, c)
  PROVE  Held(v, b, end)
BY DEF Held, ClientNet

(* Whatever the clients do, the server finds its own sockets as it left    *)
(* them.                                                                   *)
LEMMA ServingStays ==
  ASSUME Serving(Server), Net(conn'), NEW c, ClientNet(conn, conn', c), Arrives,
         UNCHANGED <<serverVars, listening>>
  PROVE  Serving(Server)'
<1>1. PICK s : s = Server
  OBVIOUS
<1>2. /\ s.members = members /\ s.conn = conn /\ s.sockets = sockets
      /\ s.backlog = backlog /\ s.id = s_member_id
  BY <1>1 DEF Server
<1>3. PICK t : t = Server'
  OBVIOUS
<1>4. /\ t.members = members /\ t.conn = conn' /\ t.sockets = sockets
      /\ t.backlog = backlog' /\ t.id = s_member_id
  BY <1>3 DEF Server, serverVars
<1>5. IsServer(t)
  BY <1>1, <1>3, <1>4 DEF Serving, IsServer, Server, serverVars
<1>6. Held(sockets, conn, "accepted") /\ Held(backlog, conn, "backlog")
  BY <1>1, <1>2 DEF Serving
<1>7. Held(sockets, conn', "accepted") /\ Held(backlog, conn', "backlog")
  BY <1>6, HeldStays
<1>8. Held(backlog', conn', "backlog")
  <2>1. CASE backlog' = backlog
    BY <1>7, <2>1
  <2>2. ASSUME NEW k \in Key, backlog' = Append(backlog, k), k \in DOMAIN conn',
               conn'[k].end = "backlog", k \in DOMAIN conn => conn[k].end = "syn"
        PROVE  Held(backlog', conn', "backlog")
    <3>1. backlog \in Seq(Key)
      BY <1>7 DEF Held
    <3>2. PICK n \in Nat : n = Len(backlog)
      BY <3>1, LenProperties
    <3>3. /\ backlog' \in Seq(Key) /\ Len(backlog') = n + 1 /\ backlog'[n + 1] = k
          /\ \A i \in 1..n : backlog'[i] = backlog[i]
      BY <2>2, <3>1, <3>2, AppendProperties
    <3>4. \A i \in 1..n : backlog[i] # k
      BY <1>6, <2>2, <3>2 DEF Held
    <3>5. \A i \in 1..n + 1 : i = n + 1 \/ i \in 1..n
      OBVIOUS
    <3>6. ASSUME NEW i \in 1..n + 1, NEW j \in 1..n + 1, backlog'[i] = backlog'[j]
          PROVE  i = j
      <4>1. \A a, d \in 1..n : backlog[a] = backlog[d] => a = d
        BY <1>6, <3>2 DEF Held
      <4> QED
        BY <3>3, <3>4, <3>5, <3>6, <4>1
    <3>7. \A i \in 1..n + 1 : backlog'[i] \in DOMAIN conn' /\ conn'[backlog'[i]].end = "backlog"
      BY <1>7, <2>2, <3>2, <3>3, <3>5 DEF Held
    <3> QED
      BY <3>3, <3>6, <3>7 DEF Held
  <2> QED
    BY <2>1, <2>2 DEF Arrives
<1>9. Channel(t, t.id, Range(t.sockets))
  <2>1. PICK ks : ks = Range(sockets)
    OBVIOUS
  <2>2. \A k \in ks : /\ k \in DOMAIN conn /\ conn[k].end = "accepted"
                      /\ k \in DOMAIN conn' /\ conn'[k].req = conn[k].req
    BY <1>6, <2>1, HeldRange DEF ClientNet
  <2>3. Channel(s, s.id, ks)
    BY <1>1, <1>2, <2>1 DEF Serving
  <2>4. \A m : WaitsOn(m, conn, ks) => WaitsOn(m, conn', ks)
    BY <2>2 DEF WaitsOn
  <2>5. Channel(t, t.id, ks)
    BY <1>2, <1>4, <2>2, <2>3, <2>4 DEF Channel
  <2> QED
    BY <1>4, <2>1, <2>5
<1>10. Serving(t)
  BY <1>4, <1>5, <1>7, <1>8, <1>9 DEF Serving
<1> QED
  BY <1>3, <1>10

-----------------------------------------------------------------------------
(* The inductive invariant: the server's vectors, the channel and the      *)
(* clients' sockets together.                                              *)
IInv == Serving(Server) /\ Clients

LEMMA InitIInv == Init => IInv
<1> SUFFICES ASSUME Init PROVE IInv
  OBVIOUS
<1>1. PICK net : net = conn /\ DOMAIN net = {} /\ net = [k \in DOMAIN net |-> net[k]]
  <2>1. PICK e \in Seq(Peer) : e = <<>> /\ Len(e) = 0
    BY EmptySeq
  <2>2. e \in [1..0 -> Peer]
    BY <2>1, LenProperties
  <2>3. DOMAIN e = {} /\ e = [k \in DOMAIN e |-> e[k]]
    BY <2>2
  <2> QED
    BY <2>1, <2>3 DEF Init, NetInit
<1>2. Net(net)
  <2>1. IsFiniteSet({})
    BY FS_EmptySet
  <2> QED
    BY <1>1, <2>1 DEF Net
<1>3. Clients
  BY <1>1, <1>2, StartFacts DEF Init, ClientInit, Clients
<1>4. PICK s : s = Server
  OBVIOUS
<1>5. /\ s.members = <<>> /\ s.conn = net /\ s.sockets = <<>> /\ s.backlog = <<>>
      /\ s.id = 0
  BY <1>1, <1>4 DEF Server, Init, NetInit, ServerInit
<1>6. IsServer(s)
  BY <1>4, <1>5 DEF IsServer, Server, Init, NetInit, ServerInit
<1>7. \A end : Held(<<>>, net, end)
  BY DEF Held
<1>8. Channel(s, s.id, Range(s.sockets))
  <2>1. s.members \in Seq(Peer) /\ Len(s.members) = 0 /\ Range(s.sockets) = {}
    BY <1>5 DEF Range
  <2> QED
    BY <1>2, <1>5, <2>1 DEF Channel
<1> QED
  BY <1>3, <1>4, <1>5, <1>6, <1>7, <1>8 DEF IInv, Serving

(* The server leaves the clients' ends open. *)
LEMMA ClientsStay ==
  ASSUME Clients, ServerNet(conn, conn'), cl' = cl
  PROVE  Clients'
<1>1. \A k, c : Socket(k, c, conn) => Socket(k, c, conn')
  BY DEF Socket, ServerNet
<1>2. \A c \in Client : Sockets(cl'[c], c, conn') /\ IsClientRecord(cl'[c], c)
  BY <1>1 DEF Clients, Sockets
<1> QED
  BY <1>2 DEF Clients

LEMMA NextIInv == IInv /\ [Next]_vars => IInv'
<1> SUFFICES ASSUME IInv, [Next]_vars PROVE IInv'
  OBVIOUS
<1>1. Serving(Server) /\ Clients /\ Net(conn)
  BY DEF IInv, Serving, Channel, Server
<1>2. CASE Pass /\ UNCHANGED clientVars
  BY <1>1, <1>2, PassFacts, ClientsStay DEF IInv, clientVars
<1>3. CASE (Tick \/ AcceptFails \/ SelectFails) /\ UNCHANGED cl
  BY <1>1, <1>3, TickFacts, FailureFacts, ClientsStay DEF IInv
<1>4. ASSUME NEW c \in Client, User(c) \/ Thread(c), UNCHANGED serverVars
      PROVE  IInv'
  <2>1. /\ Moves(c)
        /\ backlog' = backlog \/ OnConnect(c) \/ OnHangingGetConnect(c)
        /\ listening' = listening
    <3>1. CASE Login(c) \/ OnResolveResult(c)
      BY <1>1, <3>1, LoginFacts DEF Login, OnResolveResult
    <3>2. CASE SendMessage(c) \/ HangUp(c)
      BY <1>1, <3>2, SendFactsOfClient DEF SendMessage, HangUp
    <3>3. CASE LogOut(c) \/ Crash(c)
      BY <1>1, <3>3, LogOutFacts DEF LogOut, Crash
    <3>4. CASE OnConnect(c)
      BY <1>1, <3>4, OnConnectFacts DEF OnConnect
    <3>5. CASE OnHangingGetConnect(c)
      BY <1>1, <3>5, OnHangingGetConnectFacts DEF OnHangingGetConnect
    <3>6. CASE OnRefused(c) \/ OnClose(c)
      BY <1>1, <3>6, OnCloseFacts DEF OnRefused, OnClose
    <3>7. CASE Retry(c)
      BY <1>1, <3>7, RetryFacts DEF Retry
    <3>8. CASE OnRead(c)
      <4>1. UNCHANGED <<backlog, listening, acts>>
        BY <3>8, Zenon DEF OnRead
      <4> QED
        BY <1>1, <3>8, <4>1, OnReadFacts
    <3>9. CASE OnHangingGetRead(c)
      <4>1. UNCHANGED <<backlog, listening, acts>>
        BY <3>9, Zenon DEF OnHangingGetRead
      <4> QED
        BY <1>1, <3>9, <4>1, OnHangingGetReadFacts
    <3> QED
      BY <1>4, <3>1, <3>2, <3>3, <3>4, <3>5, <3>6, <3>7, <3>8, <3>9, SMTT(30) DEF User, Thread
  <2>2. Arrives
    BY <1>1, <2>1, OnConnectFacts, OnHangingGetConnectFacts DEF Arrives
  <2>3. Serving(Server)'
    BY <1>1, <1>4, <2>1, <2>2, ServingStays DEF Moves
  <2> QED
    BY <2>1, <2>3 DEF IInv, Moves
<1>5. CASE Browse /\ UNCHANGED serverVars
  <2>1. /\ Clients' /\ Net(conn') /\ ClientNet(conn, conn', "browser") /\ Arrives
        /\ listening' = listening
    BY <1>1, <1>5, BrowseFacts DEF Browse
  <2>2. Serving(Server)'
    BY <1>1, <1>5, <2>1, ServingStays
  <2> QED
    BY <2>1, <2>2 DEF IInv
<1>6. CASE UNCHANGED vars
  <2>1. UNCHANGED <<conn, backlog, listening, members, s_member_id, sockets, quit, cl>>
    BY <1>6 DEF vars, serverVars, clientVars
  <2>2. Serving(Server)'
    BY <1>1, <2>1 DEF Server
  <2>3. Clients'
    BY <1>1, <2>1 DEF Clients
  <2> QED
    BY <2>2, <2>3 DEF IInv
<1> QED
  BY <1>2, <1>3, <1>4, <1>5, <1>6 DEF Next

LEMMA SpecIInv == Spec => []IInv
BY InitIInv, NextIInv, PTL DEF Spec

(* The members of the channel, by their positions. *)
LEMMA MemberFacts ==
  ASSUME IInv, NEW m \in Member
  PROVE  m.id \in 1..s_member_id /\ WaitsOn(m, conn, Range(sockets))
<1>1. /\ members \in Seq(Peer)
      /\ \A i \in 1..Len(members) : members[i].id \in 1..s_member_id
      /\ \A i \in 1..Len(members) : WaitsOn(members[i], conn, Range(sockets))
  BY DEF IInv, Serving, Channel, Server
<1>2. \E i \in 1..Len(members) : members[i] = m
  BY <1>1, MembersFacts DEF Member, Range
<1> QED
  BY <1>1, <1>2

(* Whatever the clients send and close, in whatever order the sockets are  *)
(* served, main() never deletes a DataSocket that a ChannelMember keeps as *)
(* its waiting_socket_: a member waits on an accepted socket, on the one   *)
(* that asked for this member with /wait, and so no two on the same one.   *)
(* OnClosing steps over the member behind one it erases, and that member   *)
(* may wait on the closing socket as far as the loop knows; but the member *)
(* that was erased has been announced to all, which answers every socket   *)
(* that waits.                                                             *)
THEOREM WaitingSocketIsAlive == Spec => []WaitingIsOpen
<1>1. IInv => WaitingIsOpen
  BY MemberFacts DEF WaitingIsOpen, WaitsOn
<1> QED
  BY <1>1, SpecIInv, PTL

(* The vector of main() and the backlog hold sockets that exist, a client  *)
(* keeps no socket that is gone, and s_member_id_ bounds the ids in use.   *)
THEOREM TypesAreRight == Spec => []TypeOK
<1>1. ASSUME IInv PROVE TypeOK
  <2>1. Held(sockets, conn, "accepted") /\ Held(backlog, conn, "backlog")
    BY <1>1 DEF IInv, Serving, Server
  <2>2. Range(sockets) \union Range(backlog) \subseteq DOMAIN conn
    BY <2>1, HeldRange
  <2>3. \A c \in Client :
          /\ {cl[c].control, cl[c].hanging} \subseteq {Null, Closed} \union DOMAIN conn
          /\ cl[c].state \in State
    BY <1>1 DEF IInv, Clients, Sockets, Socket, IsClientRecord
  <2> QED
    BY <1>1, <2>2, <2>3, MemberFacts DEF TypeOK, State
<1> QED
  BY <1>1, SpecIInv, PTL

-----------------------------------------------------------------------------
(* Notifications *)

LEMMA NotifiedLoop ==
  ASSUME NEW ps, NEW rs, NEW id, NEW n \in Nat, n = Len(rs)
  PROVE  \E g : /\ g[0] = ps /\ \A i \in 1..n : g[i] = Notified(g[i - 1], rs[i], id)
               /\ Applied(ps, rs, id) = g[n]
<1> DEFINE P(g) == g = [i \in 0..n |-> IF i = 0 THEN ps ELSE Notified(g[i - 1], rs[i], id)]
           f == CHOOSE g : P(g)
<1>1. \E g : P(g)
  <2>1. \E g : IsLoop("notified", ps, n, <<rs, id>>, g)
    BY LoopExists
  <2> QED
    BY <2>1 DEF IsLoop, Turn
<1>2. P(f)
  BY <1>1
<1>3. Applied(ps, rs, id) = f[n]
  BY DEF Applied, Loop
<1> HIDE DEF f
<1>4. f[0] = ps /\ \A i \in 1..n : f[i] = Notified(f[i - 1], rs[i], id)
  BY <1>2
<1> QED
  BY <1>3, <1>4

(* There is only one way through the loop. *)
LEMMA NotifiedIs ==
  ASSUME NEW ps, NEW rs, NEW id, NEW n \in Nat, n = Len(rs), NEW h, h[0] = ps,
         \A i \in 1..n : h[i] = Notified(h[i - 1], rs[i], id)
  PROVE  Applied(ps, rs, id) = h[n]
<1>1. PICK g : /\ g[0] = ps /\ \A i \in 1..n : g[i] = Notified(g[i - 1], rs[i], id)
               /\ Applied(ps, rs, id) = g[n]
  BY NotifiedLoop, SMTT(30)
<1> DEFINE S == {i \in 0..n : g[i] = h[i]}
<1>2. 0 \in S
  BY <1>1
<1>3. ASSUME NEW i \in 1..n, i - 1 \in S PROVE i \in S
  BY <1>1, <1>3
<1> HIDE DEF S
<1>4. \A i \in 0..n : i \in S
  BY ONLY n \in Nat, <1>2, <1>3, IntervalInduction
<1> QED
  BY <1>1, <1>4 DEF S

LEMMA AppliedEmpty == ASSUME NEW ps, NEW id PROVE Applied(ps, <<>>, id) = ps
<1>1. PICK g : /\ g[0] = ps /\ Applied(ps, <<>>, id) = g[0]
  <2>1. PICK rs : rs = <<>>
    OBVIOUS
  <2>2. PICK n \in Nat : n = 0 /\ n = Len(rs)
    BY <2>1
  <2>3. \E g : /\ g[0] = ps /\ \A i \in 1..n : g[i] = Notified(g[i - 1], rs[i], id)
              /\ Applied(ps, rs, id) = g[n]
    BY <2>2, NotifiedLoop
  <2> QED
    BY <2>1, <2>2, <2>3
<1> QED
  BY <1>1

LEMMA AppliedAppend ==
  ASSUME NEW ps, NEW rs \in Seq(Answer), NEW r \in Answer, NEW id
  PROVE  Applied(ps, Append(rs, r), id) = Notified(Applied(ps, rs, id), r, id)
<1>1. PICK n \in Nat : n = Len(rs)
  BY LenProperties
<1>2. PICK g : /\ g[0] = ps /\ \A i \in 1..n : g[i] = Notified(g[i - 1], rs[i], id)
               /\ Applied(ps, rs, id) = g[n]
  BY <1>1, NotifiedLoop, SMTT(30)
<1>3. PICK h : h = [i \in 0..n + 1 |-> IF i = n + 1 THEN Notified(g[n], r, id) ELSE g[i]]
  OBVIOUS
<1>4. PICK v : v = Append(rs, r)
  OBVIOUS
<1>5. Len(v) = n + 1 /\ (\A i \in 1..n : v[i] = rs[i]) /\ v[n + 1] = r
  BY <1>1, <1>4, AppendProperties
<1>6. h[0] = ps /\ \A i \in 1..n + 1 : h[i] = Notified(h[i - 1], v[i], id)
  <2>1. ASSUME NEW i \in 1..n PROVE h[i] = Notified(h[i - 1], v[i], id)
    <3>1. h[i] = g[i] /\ h[i - 1] = g[i - 1]
      BY <1>3
    <3> QED
      BY <1>2, <1>5, <3>1
  <2>2. h[n + 1] = Notified(g[n], r, id) /\ h[n] = g[n] /\ h[0] = g[0]
    BY <1>3
  <2>3. n + 1 - 1 = n
    OBVIOUS
  <2>4. ASSUME NEW i \in 1..n + 1, i \notin 1..n PROVE h[i] = Notified(h[i - 1], v[i], id)
    <3>1. i = n + 1
      BY <2>4
    <3> QED
      BY <1>5, <2>2, <2>3, <3>1
  <2> QED
    BY <1>2, <2>1, <2>2, <2>4
<1>7. PICK m \in Nat : m = n + 1
  OBVIOUS
<1>8. Applied(ps, v, id) = h[m]
  BY <1>5, <1>6, <1>7, NotifiedIs
<1> QED
  BY <1>2, <1>3, <1>4, <1>7, <1>8

LEMMA Single ==
  ASSUME NEW S, NEW e \in S
  PROVE  <<e>> \in Seq(S) /\ Len(<<e>>) = 1 /\ <<e>>[1] = e
<1>1. <<e>> \in Seq(S)
  OBVIOUS
<1> QED
  BY <1>1

LEMMA OneResponse ==
  ASSUME NEW r \in Answer
  PROVE  <<r>> \in Seq(Answer) /\ Len(<<r>>) = 1 /\ <<r>>[1] = r
BY Single

LEMMA AppliedFirst ==
  ASSUME NEW ps, NEW rs \in Seq(Answer), NEW r \in Answer, NEW id
  PROVE  Applied(ps, <<r>> \o rs, id) = Applied(Notified(ps, r, id), rs, id)
<1>1. PICK n \in Nat : n = Len(rs)
  BY LenProperties
<1>0. PICK q : q = Notified(ps, r, id)
  OBVIOUS
<1>2. PICK g : /\ g[0] = q
               /\ \A i \in 1..n : g[i] = Notified(g[i - 1], rs[i], id)
               /\ Applied(q, rs, id) = g[n]
  BY <1>1, NotifiedLoop, SMTT(30)
<1>3. PICK h : h = [i \in 0..n + 1 |-> IF i = 0 THEN ps ELSE g[i - 1]]
  OBVIOUS
<1>4. PICK one \in Seq(Answer) : one = <<r>> /\ Len(one) = 1 /\ one[1] = r
  BY OneResponse
<1>5. PICK v : v = one \o rs
  OBVIOUS
<1>6. /\ Len(v) = n + 1
      /\ \A i \in 1..n + 1 : v[i] = IF i <= 1 THEN one[i] ELSE rs[i - 1]
  BY <1>1, <1>4, <1>5, ConcatProperties
<1>7. ASSUME NEW i \in 1..n + 1 PROVE h[i] = Notified(h[i - 1], v[i], id)
  <2>1. CASE i = 1
    BY <1>0, <1>2, <1>3, <1>4, <1>6, <2>1
  <2>2. CASE i # 1
    <3>1. i - 1 \in 1..n /\ i - 1 # 0 /\ i - 1 \in 0..n + 1 /\ v[i] = rs[i - 1]
      BY <1>6, <2>2
    <3>2. h[i] = g[i - 1] /\ h[i - 1] = g[i - 1 - 1]
      BY <1>3, <2>2, <3>1
    <3> QED
      BY <1>2, <3>1, <3>2
  <2> QED
    BY <2>1, <2>2
<1>8. PICK m \in Nat : m = n + 1
  OBVIOUS
<1>9. h[0] = ps /\ h[m] = g[n]
  BY <1>3, <1>8
<1>10. Applied(ps, v, id) = h[m]
  BY <1>6, <1>7, <1>8, <1>9, NotifiedIs
<1> QED
  BY <1>0, <1>2, <1>4, <1>5, <1>9, <1>10

-----------------------------------------------------------------------------
(* The stream of responses to one client *)

(* What has been sent on socket k and was not read, and with what waits in *)
(* queue_ after it, all that is still to come.                             *)
Stream(net, k) == IF k \in DOMAIN net THEN net[k].resp ELSE <<>>
Coming(m, net, k) == Stream(net, k) \o m.queue

IdsOf(ms) == {ms[i].id : i \in 1..Len(ms)}

(* Member m and a client whose hanging get is k, who has read g and lists  *)
(* ps: nothing is missing, and with what is to come the client lists R.    *)
Follows(m, net, k, g, ps, R) ==
  /\ m.connected /\ m.waiting \in {NoSocket, k}
  /\ m.waiting = k => m.queue = <<>> /\ Stream(net, k) = <<>>
  /\ m.log = g \o Coming(m, net, k)
  /\ Applied(ps, Coming(m, net, k), m.id) = R

(* The hanging get k of the client with this id: it gets at most one       *)
(* response, and while the server owes it one the member waits on it.      *)
Hangs(ms, net, id, k, x) ==
  k \in DOMAIN net =>
    /\ net[k].open
    /\ net[k].end # "syn" => net[k].req.path = "/wait" /\ net[k].req.peer_id = id
    /\ Len(net[k].resp) <= 1
    /\ k # x /\ net[k].end = "accepted" /\ net[k].left = 0 /\ net[k].resp = <<>>
         => \E i \in 1..Len(ms) : ms[i].id = id /\ ms[i].waiting = k

(* No other request that would make the member wait or sign it out is on   *)
(* its way.                                                                *)
Asks(l, id) ==
  /\ l.end \in {"backlog", "accepted"} /\ l.left > 0
  /\ l.req.peer_id = id /\ l.req.path \in {"/wait", "/sign_out"}
Alone(net, id, k) == \A j \in DOMAIN net : Asks(net[j], id) => j = k

Tracked(ms, net, id, k, g, ps, R, x) ==
  /\ \A i \in 1..Len(ms) : ms[i].id = id => Follows(ms[i], net, k, g, ps, R)
  /\ Hangs(ms, net, id, k, x) /\ Alone(net, id, k)

Tracks(w, id, k, g, ps, x) ==
  Tracked(w.members, w.conn, id, k, g, ps, IdsOf(w.members) \ {id}, x)

-----------------------------------------------------------------------------
(* The server between two requests *)

LinkIsTidy(l, id) ==
  /\ l.left \in Nat
  /\ l.end \in {"syn", "backlog"} \/ l.left > 0 => l.resp = <<>>
  /\ l.end = "backlog" => l.left > 0
  /\ l.end # "syn" => l.req.peer_id <= id
  /\ l.req.path = "/wait" => l.left <= 1

Links(net, id) == \A j \in DOMAIN net : LinkIsTidy(net[j], id)

Idle(ms, net) ==
  \A i \in 1..Len(ms) : ms[i].waiting # NoSocket => net[ms[i].waiting].left = 0

Complete(net, ks) == \A j \in DOMAIN net : net[j].end = "accepted" => j \in ks

(* An answered sign-in that the client has not read. *)
Pending(net, j) ==
  /\ j \in DOMAIN net /\ net[j].open
  /\ net[j].req.path = "/sign_in" /\ net[j].resp # <<>>

Welcome(w, j, id) ==
  LET r == w.conn[j].resp[1]
  IN  /\ Len(w.conn[j].resp) = 1 /\ r.status = 200 /\ r.pragma \in 1..id
      /\ Tracks(w, r.pragma, Closed, <<>>, Ids(r) \ {r.pragma}, NoSocket)

Welcomes(w, id) ==
  /\ \A j \in DOMAIN w.conn : Pending(w.conn, j) => Welcome(w, j, id)
  /\ \A i, j \in DOMAIN w.conn :
       Pending(w.conn, i) /\ Pending(w.conn, j)
         /\ w.conn[i].resp[1].pragma = w.conn[j].resp[1].pragma => i = j

Tidy(s) ==
  /\ Serving(s) /\ Links(s.conn, s.id)
  /\ Idle(s.members, s.conn) /\ Complete(s.conn, Range(s.sockets))
  /\ Welcomes(s, s.id)

-----------------------------------------------------------------------------
(* The request of the control socket, sent or to be sent. *)
Task(x, net) ==
  IF net[x.control].end = "syn" THEN x.onconnect ELSE net[x.control].req.path

Wired(x, net, ls) ==
  x.control \in DOMAIN net =>
    /\ x.state = "SIGNING_IN" => Task(x, net) = "/sign_in"
    /\ x.state = "CONNECTED" => Task(x, net) = "/message"
    /\ Task(x, net) = "/sign_in" =>
         \/ x.my_id = -1 /\ x.got = <<>>
         \/ net[x.control].end = "syn" /\ ~ls
    /\ Task(x, net) # "/sign_in" => x.my_id # -1

(* The client has no session, and none comes from the control socket. *)
Unused(x, net, ls) ==
  /\ x.my_id = -1 /\ x.got = <<>>
  /\ x.control \in DOMAIN net => net[x.control].end = "syn" /\ ~ls

Local(x, net, ls, n) ==
  /\ x.got \in Seq(Answer)
  /\ x.my_id = -1 \/ x.my_id \in 1..n
  /\ x.state = "CONNECTED" <=> x.hanging \in DOMAIN net
  /\ x.state = "CONNECTED" => x.my_id # -1
  /\ x.state \in {"NOT_CONNECTED", "RESOLVING"} \/ x.resolving => Unused(x, net, ls)
  /\ x.state = "NOT_CONNECTED" => ~x.resolving
  /\ x.retry > 0 => ~ls
  /\ Wired(x, net, ls)

Unique(x, net) ==
  \A j \in DOMAIN net : Pending(net, j) => x.my_id # net[j].resp[1].pragma

Users ==
  /\ \A c \in Client :
       /\ Local(cl[c], conn, listening, s_member_id)
       /\ Unique(cl[c], conn)
       /\ Signed(c) => Tracks(Server, cl[c].my_id, cl[c].hanging, cl[c].got,
                              cl[c].peers, NoSocket)
  /\ \A c, d \in Client : cl[c].my_id = cl[d].my_id /\ cl[c].my_id # -1 => c = d

DInv == Tidy(Server) /\ Clients /\ Users

-----------------------------------------------------------------------------
(* What the channel does to the stream of one client *)

LEMMA PeerFields ==
  ASSUME NEW m \in Peer
  PROVE  /\ m.id \in Nat /\ m.waiting \in Key \cup {NoSocket} /\ m.queue \in Seq(Answer)
         /\ m.connected \in BOOLEAN /\ m.age \in Nat /\ m.log \in Seq(Answer)
BY DEF Peer

LEMMA ResponsesAssociate ==
  ASSUME NEW s \in Seq(Answer), NEW t \in Seq(Answer), NEW u \in Seq(Answer)
  PROVE  (s \o t) \o u = s \o (t \o u)
BY ONLY s \in Seq(Answer), t \in Seq(Answer), u \in Seq(Answer), ConcatAssociative, SMTT(40)

LEMMA ConcatAppend ==
  ASSUME NEW s \in Seq(Answer), NEW t \in Seq(Answer), NEW r \in Answer
  PROVE  s \o Append(t, r) = Append(s \o t, r)
<1>1. <<r>> \in Seq(Answer)
  BY OneResponse
<1>2. PICK one \in Seq(Answer) : one = <<r>>
  BY <1>1
<1>3. Append(t, r) = t \o one /\ s \o t \in Seq(Answer)
  BY <1>2, AppendIsConcat, ConcatProperties
<1>4. Append(s \o t, r) = (s \o t) \o one
  BY <1>2, <1>3, AppendIsConcat
<1>5. (s \o t) \o one = s \o (t \o one)
  BY ResponsesAssociate, Zenon
<1> QED
  BY <1>3, <1>4, <1>5

(* The stream before and after r is given to member m: on the wire only if *)
(* the member waits, and then nothing else is under way.                   *)
OnTheWire(m, r, s, t) ==
  \/ m.waiting = NoSocket /\ t = s
  \/ m.waiting # NoSocket /\ m.queue = <<>> /\ s = <<>> /\ t = Append(s, r)

(* A response comes after all others, whether it is sent or queued. *)
LEMMA ComingGrows ==
  ASSUME NEW m \in Peer, NEW r \in Answer, NEW g \in Seq(Answer), NEW s \in Seq(Answer),
         NEW t, m.log = g \o (s \o m.queue), OnTheWire(m, r, s, t)
  PROVE  /\ t \o Queued(m, r).queue = Append(s \o m.queue, r)
         /\ Queued(m, r).log = g \o Append(s \o m.queue, r)
         /\ s \o m.queue \in Seq(Answer)
<1>1. PICK q \in Seq(Answer) : q = m.queue
  BY PeerFields
<1>2. PICK u \in Seq(Answer) : u = s \o q
  BY ConcatProperties
<1>3. Queued(m, r).log = Append(m.log, r)
  BY DEF Queued
<1>4. g \o Append(u, r) = Append(g \o u, r)
  BY ConcatAppend
<1>5. t \o Queued(m, r).queue = Append(u, r)
  <2>1. CASE m.waiting = NoSocket /\ t = s
    <3>1. Queued(m, r).queue = Append(q, r)
      BY <1>1, <2>1 DEF Queued
    <3> QED
      BY <1>2, <2>1, <3>1, ConcatAppend
  <2>2. CASE m.waiting # NoSocket /\ m.queue = <<>> /\ s = <<>> /\ t = Append(s, r)
    <3>1. Queued(m, r).queue = <<>>
      BY <2>2 DEF Queued
    <3>2. t \in Seq(Answer) /\ t \o <<>> = t
      BY <2>2, AppendProperties, ConcatEmptySeq
    <3>3. u = s
      BY <1>1, <1>2, <2>2, ConcatEmptySeq
    <3> QED
      BY <2>2, <3>1, <3>2, <3>3
  <2> QED
    BY <2>1, <2>2 DEF OnTheWire
<1> QED
  BY <1>1, <1>2, <1>3, <1>4, <1>5

(* The channel between two requests: a socket that a member waits on has   *)
(* been accepted and read.                                                 *)
Lively(w, n, ks) ==
  /\ Channel(w, n, ks) /\ Idle(w.members, w.conn)
  /\ \A k \in ks : w.conn[k].end = "accepted"

(* Nothing but responses to hanging gets is sent. *)
Fed(a, b) ==
  /\ SameLinks(a, b)
  /\ \A k \in DOMAIN a :
       /\ b[k].left = a[k].left
       /\ \/ b[k] = a[k]
          \/ /\ a[k].left = 0 /\ a[k].end = "accepted" /\ a[k].req.path = "/wait"
             /\ b[k].resp # <<>>

LEMMA FedReflexive == \A a : Fed(a, a)
BY SameLinksReflexive DEF Fed

LEMMA FedTransitive ==
  ASSUME NEW a, NEW b, NEW c, Fed(a, b), Fed(b, c)
  PROVE  Fed(a, c)
<1>1. SameLinks(a, c) /\ DOMAIN b = DOMAIN a
  BY SameLinksTransitive DEF Fed, SameLinks
<1>2. ASSUME NEW k \in DOMAIN a
      PROVE  /\ c[k].left = a[k].left
             /\ \/ c[k] = a[k]
                \/ /\ a[k].left = 0 /\ a[k].end = "accepted" /\ a[k].req.path = "/wait"
                   /\ c[k].resp # <<>>
  BY <1>1 DEF Fed, SameLinks
<1> QED
  BY <1>1, <1>2 DEF Fed

(* What QueueResponse does to each member and to each connection. *)
Delivers(w, to, r, out) ==
  /\ \A i \in 1..Len(w.members) :
       out.members[i] = IF i \in to THEN Queued(w.members[i], r[i]) ELSE w.members[i]
  /\ \A k \in DOMAIN w.conn : out.conn[k].left = w.conn[k].left
  /\ \A k \in DOMAIN w.conn : \A i \in to :
       w.members[i].waiting = k /\ w.conn[k].open =>
         out.conn[k].resp = Append(w.conn[k].resp, r[i])
  /\ \A k \in DOMAIN w.conn :
       (\A i \in to : w.members[i].waiting # k) \/ ~w.conn[k].open =>
         out.conn[k] = w.conn[k]

LEMMA QueueDetails ==
  ASSUME NEW w, NEW n, NEW ks, Lively(w, n, ks), NEW to \in SUBSET DOMAIN w.members,
         NEW r, \A i \in DOMAIN w.members : r[i] \in Answer, NEW out,
         out = QueueResponse(w, to, r)
  PROVE  Told(w, to, out) /\ Delivers(w, to, r, out)
<1> DEFINE Waits(k) == {i \in to : w.members[i].waiting = k}
<1>1. PICK ms : ms = w.members /\ ms \in Seq(Peer)
  BY DEF Lively, Channel
<1>2. DOMAIN ms = 1..Len(ms) /\ Net(w.conn) /\ DOMAIN w.conn \subseteq Key
  BY <1>1, MembersFacts DEF Lively, Channel, Net
<1>3. /\ out.members = [i \in DOMAIN ms |->
                          IF i \in to THEN Queued(ms[i], r[i]) ELSE ms[i]]
      /\ out.conn = [k \in DOMAIN w.conn |->
                       IF Waits(k) = {} \/ ~w.conn[k].open THEN w.conn[k]
                       ELSE Given(w.conn[k], r[CHOOSE i \in Waits(k) : TRUE])]
  BY <1>1 DEF QueueResponse
<1>4. Told(w, to, out)
  BY <1>1, <1>2, QueueResponseFacts
<1>5. ASSUME NEW k \in DOMAIN w.conn, NEW i \in to, NEW j \in to,
             ms[i].waiting = k, ms[j].waiting = k
      PROVE  i = j
  <2>1. i \in 1..Len(ms) /\ j \in 1..Len(ms) /\ k # NoSocket
    BY <1>1, <1>2, NoKey
  <2>2. w.conn[k].req.peer_id = ms[i].id /\ w.conn[k].req.peer_id = ms[j].id
    BY <1>1, <1>5, <2>1 DEF Lively, Channel, WaitsOn
  <2> QED
    BY <1>1, <2>1, <2>2 DEF Lively, Channel
<1>6. ASSUME NEW k \in DOMAIN w.conn, NEW i \in to, ms[i].waiting = k, w.conn[k].open
      PROVE  out.conn[k] = Given(w.conn[k], r[i])
  <2>1. i \in Waits(k)
    BY <1>1, <1>6
  <2>2. PICK j : j = CHOOSE h \in Waits(k) : TRUE
    OBVIOUS
  <2>3. j \in Waits(k)
    BY <2>1, <2>2
  <2>4. j = i
    BY <1>1, <1>5, <1>6, <2>3
  <2>5. out.conn[k] = Given(w.conn[k], r[j])
    <3> HIDE DEF Waits
    <3> QED
      BY <1>3, <1>6, <2>1, <2>2
  <2> QED
    BY <2>4, <2>5
<1>7. ASSUME NEW k \in DOMAIN w.conn,
             (\A i \in to : ms[i].waiting # k) \/ ~w.conn[k].open
      PROVE  out.conn[k] = w.conn[k]
  BY <1>1, <1>3, <1>7
<1>8. ASSUME NEW k \in DOMAIN w.conn, NEW i \in to, ms[i].waiting = k, w.conn[k].open
      PROVE  /\ out.conn[k].resp = Append(w.conn[k].resp, r[i])
             /\ out.conn[k].left = w.conn[k].left
  <2>1. IsLink(w.conn[k])
    BY <1>2 DEF Net
  <2>2. PICK l : l = w.conn[k] /\ IsLink(l)
    BY <2>1
  <2>3. PICK a : a = r[i]
    OBVIOUS
  <2>4. Given(l, a).resp = Append(l.resp, a) /\ Given(l, a).left = l.left
    BY <2>2 DEF IsLink, Given
  <2> QED
    BY <1>6, <1>8, <2>2, <2>3, <2>4
<1>9. \A i \in 1..Len(ms) :
        out.members[i] = IF i \in to THEN Queued(ms[i], r[i]) ELSE ms[i]
  BY <1>2, <1>3
<1>10. \A k \in DOMAIN w.conn : out.conn[k].left = w.conn[k].left
  BY <1>7, <1>8
<1> HIDE DEF Waits
<1> QED
  BY <1>1, <1>4, <1>7, <1>8, <1>9, <1>10 DEF Delivers

(* A connection that a member waits on is one of the loop's sockets. *)
LEMMA WaiterFacts ==
  ASSUME NEW w, NEW n, NEW ks, Lively(w, n, ks), NEW i \in 1..Len(w.members), NEW k \in Key,
         w.members[i].waiting = k
  PROVE  /\ k \in DOMAIN w.conn /\ w.conn[k].end = "accepted" /\ w.conn[k].left = 0
         /\ w.conn[k].req.path = "/wait" /\ w.conn[k].req.peer_id = w.members[i].id
BY NoKey DEF Lively, Channel, WaitsOn, Idle

LEMMA QueueFed ==
  ASSUME NEW w, NEW n, NEW ks, Lively(w, n, ks), NEW to \in SUBSET DOMAIN w.members,
         NEW r, \A i \in DOMAIN w.members : r[i] \in Answer, NEW out,
         out = QueueResponse(w, to, r)
  PROVE  Lively(out, n, ks) /\ Fed(w.conn, out.conn)
<1>1. PICK ms : ms = w.members /\ ms \in Seq(Peer)
  BY DEF Lively, Channel
<1>2. DOMAIN ms = 1..Len(ms) /\ Net(w.conn) /\ DOMAIN w.conn \subseteq Key
  BY <1>1, MembersFacts DEF Lively, Channel, Net
<1>3. /\ Told(w, to, out)
      /\ \A k \in DOMAIN w.conn : out.conn[k].left = w.conn[k].left
      /\ \A k \in DOMAIN w.conn : \A i \in to :
           ms[i].waiting = k /\ w.conn[k].open =>
             out.conn[k].resp = Append(w.conn[k].resp, r[i])
      /\ \A k \in DOMAIN w.conn :
           (\A i \in to : ms[i].waiting # k) \/ ~w.conn[k].open =>
             out.conn[k] = w.conn[k]
  <2>1. Told(w, to, out) /\ Delivers(w, to, r, out)
    BY QueueDetails
  <2> QED
    BY <1>1, <2>1 DEF Delivers
<1>4. SameLinks(w.conn, out.conn) /\ Channel(out, n, ks)
  <2>1. Channel(w, n, ks)
    BY DEF Lively
  <2>2. Channel(out, n, ks)
    BY <1>3, <2>1, ToldChannel
  <2> QED
    BY <1>3, <2>2 DEF Told
<1>5. ASSUME NEW k \in DOMAIN w.conn, out.conn[k] # w.conn[k]
      PROVE  /\ w.conn[k].left = 0 /\ w.conn[k].end = "accepted"
             /\ w.conn[k].req.path = "/wait" /\ out.conn[k].resp # <<>>
  <2>1. PICK i \in to : ms[i].waiting = k /\ w.conn[k].open
    BY <1>3, <1>5
  <2>2. i \in 1..Len(ms) /\ k \in Key
    BY <1>1, <1>2
  <2>3. /\ w.conn[k].left = 0 /\ w.conn[k].end = "accepted"
        /\ w.conn[k].req.path = "/wait"
    BY <1>1, <2>1, <2>2, WaiterFacts
  <2>4. w.conn[k].resp \in Seq(Answer) /\ r[i] \in Answer
    BY <1>1, <1>2, LinkFacts
  <2>5. Append(w.conn[k].resp, r[i]) # <<>>
    BY <2>4, AppendProperties
  <2> QED
    BY <1>3, <2>1, <2>3, <2>5
<1>6. Fed(w.conn, out.conn)
  BY <1>3, <1>4, <1>5 DEF Fed
<1>7. Idle(out.members, out.conn)
  <2>1. ASSUME NEW i \in 1..Len(out.members), out.members[i].waiting # NoSocket
        PROVE  out.conn[out.members[i].waiting].left = 0
    <3>1. i \in 1..Len(ms) /\ out.members[i].waiting = ms[i].waiting
      BY <1>1, <1>3, <2>1 DEF Told
    <3>2. PICK k \in Key : k = ms[i].waiting
      BY <1>1, <2>1, <3>1, MembersFacts
    <3>3. k \in DOMAIN w.conn /\ w.conn[k].left = 0
      BY <1>1, <3>1, <3>2, WaiterFacts
    <3> QED
      BY <1>3, <3>1, <3>2, <3>3
  <2> QED
    BY <2>1 DEF Idle
<1> QED
  BY <1>4, <1>6, <1>7 DEF Lively, SameLinks, Channel

(* What the member with this id lists after r was queued. *)
Roster(ms, id, to, r, R, Q) ==
  \A i \in 1..Len(ms) :
    ms[i].id = id => Q = IF i \in to THEN Notified(R, r[i], id) ELSE R

(* The stream of the client with this id goes on as it should: whatever is *)
(* queued for its member is appended to it.                                *)
LEMMA QueueTracks ==
  ASSUME NEW w, NEW n, NEW ks, Lively(w, n, ks), NEW to \in SUBSET DOMAIN w.members,
         NEW r, \A i \in DOMAIN w.members : r[i] \in Answer, NEW out,
         out = QueueResponse(w, to, r),
         NEW id, NEW k \in Key \cup {Closed}, NEW g \in Seq(Answer), NEW ps, NEW R, NEW x,
         Tracked(w.members, w.conn, id, k, g, ps, R, x), NEW Q,
         Roster(w.members, id, to, r, R, Q)
  PROVE  Tracked(out.members, out.conn, id, k, g, ps, Q, x)
<1>1. PICK ms : ms = w.members /\ ms \in Seq(Peer)
  BY DEF Lively, Channel
<1>2. /\ DOMAIN ms = 1..Len(ms) /\ Net(w.conn) /\ DOMAIN w.conn \subseteq Key
      /\ Closed \notin Key /\ NoSocket \notin Key /\ Closed # NoSocket
  BY <1>1, MembersFacts, NoKey DEF Lively, Channel, Net, Closed, NoSocket
<1>3. /\ Told(w, to, out)
      /\ \A i \in 1..Len(ms) :
           out.members[i] = IF i \in to THEN Queued(ms[i], r[i]) ELSE ms[i]
      /\ \A j \in DOMAIN w.conn : out.conn[j].left = w.conn[j].left
      /\ \A j \in DOMAIN w.conn : \A i \in to :
           ms[i].waiting = j /\ w.conn[j].open =>
             out.conn[j].resp = Append(w.conn[j].resp, r[i])
      /\ \A j \in DOMAIN w.conn :
           (\A i \in to : ms[i].waiting # j) \/ ~w.conn[j].open =>
             out.conn[j] = w.conn[j]
  <2>1. Told(w, to, out) /\ Delivers(w, to, r, out)
    BY QueueDetails
  <2> QED
    BY <1>1, <2>1 DEF Delivers
<1>4. SameLinks(w.conn, out.conn) /\ Len(out.members) = Len(ms)
  BY <1>1, <1>3 DEF Told
<1>5. /\ \A i \in 1..Len(ms) : ms[i].id = id => Follows(ms[i], w.conn, k, g, ps, R)
      /\ Hangs(ms, w.conn, id, k, x) /\ Alone(w.conn, id, k)
  BY <1>1 DEF Tracked
\* only the member of this id waits on k
<1>6. ASSUME NEW i \in 1..Len(ms), ms[i].waiting = k
      PROVE  /\ k \in DOMAIN w.conn /\ ms[i].id = id /\ w.conn[k].open
             /\ w.conn[k].resp = <<>>
  <2>1. k \in Key
    BY <1>1, <1>2, <1>6, MembersFacts
  <2>2. k \in DOMAIN w.conn /\ w.conn[k].end = "accepted" /\ w.conn[k].req.peer_id = ms[i].id
    BY <1>1, <1>6, <2>1, WaiterFacts
  <2>3. ms[i].id = id /\ w.conn[k].open
    BY <1>5, <2>2 DEF Hangs
  <2>4. Stream(w.conn, k) = <<>>
    BY <1>5, <1>6, <2>3 DEF Follows
  <2> QED
    BY <2>2, <2>3, <2>4 DEF Stream
<1>7. \A i, j \in 1..Len(ms) : ms[i].id = ms[j].id => i = j
  BY <1>1 DEF Lively, Channel
<1>8. Stream(w.conn, k) \in Seq(Answer)
  BY <1>2, LinkFacts, EmptySeq DEF Stream
\* the stream on k
<1>9. ASSUME \A i \in to : ms[i].waiting # k
      PROVE  Stream(out.conn, k) = Stream(w.conn, k)
  BY <1>3, <1>4, <1>9 DEF Stream, SameLinks
<1>10. ASSUME NEW i \in to, ms[i].waiting = k
       PROVE  /\ Stream(out.conn, k) = Append(<<>>, r[i]) /\ Stream(w.conn, k) = <<>>
              /\ k \in DOMAIN w.conn /\ out.conn[k].resp = Append(<<>>, r[i])
  BY <1>1, <1>2, <1>3, <1>4, <1>6, <1>10 DEF Stream, SameLinks
<1>11. ASSUME NEW i \in 1..Len(ms), ms[i].id = id
       PROVE  Follows(out.members[i], out.conn, k, g, ps, Q)
  <2>1. Follows(ms[i], w.conn, k, g, ps, R)
    BY <1>5, <1>11
  <2>2. ASSUME NEW j \in to, ms[j].waiting = k PROVE j = i
    BY <1>1, <1>2, <1>6, <1>7, <1>11, <2>2
  <2>3. CASE i \notin to
    <3>1. out.members[i] = ms[i] /\ Q = R
      BY <1>1, <1>3, <1>11, <2>3 DEF Roster
    <3>2. Stream(out.conn, k) = Stream(w.conn, k)
      BY <1>9, <2>2, <2>3
    <3> QED
      BY <2>1, <3>1, <3>2 DEF Follows, Coming
  <2>4. CASE i \in to
    <3>1. PICK m \in Peer : m = ms[i]
      BY <1>1, MembersFacts
    <3>2. PICK a \in Answer : a = r[i]
      BY <1>1, <2>4
    <3>3. out.members[i] = Queued(m, a) /\ Q = Notified(R, a, id) /\ m.id = id
      BY <1>1, <1>3, <1>11, <2>4, <3>1, <3>2 DEF Roster
    <3>4. PICK s \in Seq(Answer) : s = Stream(w.conn, k)
      BY <1>8
    <3>5. PICK t : t = Stream(out.conn, k)
      OBVIOUS
    <3>6. /\ m.log = g \o (s \o m.queue) /\ Applied(ps, s \o m.queue, m.id) = R
          /\ m.connected
      BY <2>1, <3>1, <3>4 DEF Follows, Coming
    <3>7. OnTheWire(m, a, s, t)
      <4>1. CASE m.waiting = k
        BY <1>2, <1>10, <2>1, <2>4, <3>1, <3>2, <3>4, <3>5, <4>1 DEF Follows, OnTheWire
      <4>2. CASE m.waiting # k
        <5>1. m.waiting = NoSocket
          BY <2>1, <3>1, <4>2 DEF Follows
        <5> QED
          BY <1>9, <2>2, <3>1, <3>4, <3>5, <4>2, <5>1 DEF OnTheWire
      <4> QED
        BY <4>1, <4>2
    <3>8. /\ t \o Queued(m, a).queue = Append(s \o m.queue, a)
          /\ Queued(m, a).log = g \o Append(s \o m.queue, a)
          /\ s \o m.queue \in Seq(Answer)
      BY ONLY m \in Peer, a \in Answer, s \in Seq(Answer), g \in Seq(Answer), <3>6, <3>7,
              ComingGrows
    <3>9. PICK u \in Seq(Answer) : u = s \o m.queue
      BY <3>8
    <3>10. Applied(ps, Append(u, a), id) = Notified(R, a, id)
      <4>1. Applied(ps, Append(u, a), id) = Notified(Applied(ps, u, id), a, id)
        BY AppliedAppend
      <4> QED
        BY <3>3, <3>6, <3>9, <4>1
    <3>11. /\ Queued(m, a).id = m.id /\ Queued(m, a).connected = m.connected
           /\ Queued(m, a).waiting = NoSocket
      BY QueuedFacts
    <3>12. k # NoSocket
      BY <1>2
    <3> QED
      BY <3>3, <3>5, <3>6, <3>8, <3>9, <3>10, <3>11, <3>12 DEF Follows, Coming
  <2> QED
    BY <2>3, <2>4
<1>12. Alone(out.conn, id, k)
  BY <1>3, <1>4, <1>5 DEF Alone, Asks, SameLinks
<1>13. Hangs(out.members, out.conn, id, k, x)
  <2> SUFFICES ASSUME k \in DOMAIN out.conn PROVE Hangs(out.members, out.conn, id, k, x)
    BY DEF Hangs
  <2>1. k \in DOMAIN w.conn
    BY <1>4 DEF SameLinks
  <2>2. /\ out.conn[k].open
        /\ out.conn[k].end # "syn" =>
             out.conn[k].req.path = "/wait" /\ out.conn[k].req.peer_id = id
    BY <1>4, <1>5, <2>1 DEF Hangs, SameLinks
  <2>3. CASE \E i \in to : ms[i].waiting = k
    <3>1. PICK i \in to : ms[i].waiting = k
      BY <2>3
    <3>2. PICK a \in Answer : a = r[i]
      BY <1>1
    <3>3. out.conn[k].resp = Append(<<>>, a)
      BY <1>10, <3>1, <3>2
    <3>4. Len(out.conn[k].resp) = 1 /\ out.conn[k].resp # <<>>
      BY <3>3, EmptySeq, AppendProperties
    <3> QED
      BY <2>2, <3>4 DEF Hangs
  <2>4. CASE \A i \in to : ms[i].waiting # k
    <3>1. out.conn[k] = w.conn[k]
      BY <1>3, <2>1, <2>4
    <3>2. \A i \in 1..Len(ms) : ms[i].waiting = k => out.members[i] = ms[i]
      BY <1>3, <2>4
    <3> QED
      BY <1>4, <1>5, <2>1, <3>1, <3>2 DEF Hangs
  <2> QED
    BY <2>3, <2>4
<1>14. \A i \in 1..Len(ms) : out.members[i].id = ms[i].id
  BY <1>1, <1>3 DEF Told
<1> QED
  BY <1>4, <1>11, <1>12, <1>13, <1>14 DEF Tracked

Notices(ms, about, r) ==
  r = [i \in DOMAIN ms |-> Response(200, ms[i].id, <<Entry(about)>>, "")]

LEMMA BroadcastAnswers ==
  ASSUME NEW ms \in Seq(Peer), NEW about, about.id \in Int, about.connected \in BOOLEAN,
         NEW r, Notices(ms, about, r)
  PROVE  \A i \in DOMAIN ms :
           /\ r[i] \in Answer /\ r[i].pragma = ms[i].id
           /\ r[i].entries[1] = <<about.id, about.connected>>
<1>1. PICK e : e = Entry(about) /\ e \in Int \X BOOLEAN /\ e = <<about.id, about.connected>>
  BY DEF Entry
<1>2. <<e>> \in Seq(Int \X BOOLEAN) /\ <<e>>[1] = e
  BY <1>1, Single
<1>3. PICK v \in Seq(Int \X BOOLEAN) : v = <<e>> /\ v[1] = e
  BY <1>2
<1>4. ASSUME NEW i \in DOMAIN ms
      PROVE  /\ r[i] \in Answer /\ r[i].pragma = ms[i].id /\ r[i].entries[1] = e
  <2>0. ms[i].id \in Int
    BY MembersFacts
  <2>1. PICK p \in Int : p = ms[i].id
    BY <2>0
  <2>2. r[i] = Response(200, p, v, "")
    BY <1>1, <1>3, <2>1 DEF Notices
  <2>3. Response(200, p, v, "") \in Answer
    BY DEF Response, Answer, Text
  <2>4. Response(200, p, v, "").pragma = p /\ Response(200, p, v, "").entries = v
    BY DEF Response
  <2> QED
    BY <1>3, <2>1, <2>2, <2>3, <2>4, ZenonT(60)
<1> QED
  BY <1>1, <1>4

Absent(ms, id) == \A i \in 1..Len(ms) : ms[i].id # id

SameIds(a, b) == Len(b) = Len(a) /\ \A i \in 1..Len(a) : b[i].id = a[i].id

(* Whoever is tracked has the notification on the way. *)
Announces(w, out, about) ==
  \A id, ps, R, x : \A k \in Key \cup {Closed} : \A g \in Seq(Answer) :
    Tracked(w.members, w.conn, id, k, g, ps, R, x) =>
      Tracked(out.members, out.conn, id, k, g, ps,
              IF about.connected THEN R \cup {about.id} ELSE R \ {about.id}, x)

(* A notification about somebody else reaches every member. *)
LEMMA BroadcastLively ==
  ASSUME NEW w, NEW n, NEW ks, Lively(w, n, ks), NEW about, about.id \in Int,
         about.connected \in BOOLEAN,
         Absent(w.members, about.id), NEW out, out = BroadcastChangedState(w, about)
  PROVE  /\ Lively(out, n, ks) /\ Fed(w.conn, out.conn)
         /\ SameIds(w.members, out.members) /\ Announces(w, out, about)
<1>1. PICK ms : ms = w.members /\ ms \in Seq(Peer)
  BY DEF Lively, Channel
<1>2. PICK r : Notices(ms, about, r)
  BY DEF Notices
<1>3. \A i \in DOMAIN ms :
        /\ r[i] \in Answer /\ r[i].pragma = ms[i].id
        /\ r[i].entries[1] = <<about.id, about.connected>>
  BY <1>1, <1>2, BroadcastAnswers
<1>4. DOMAIN ms = 1..Len(ms)
  BY <1>1, MembersFacts
<1>5. PICK to \in SUBSET DOMAIN ms : to = {i \in DOMAIN ms : ms[i].id # about.id}
  OBVIOUS
<1>6. to = 1..Len(ms)
  BY <1>1, <1>4, <1>5 DEF Absent
<1>7. out = QueueResponse(w, to, r)
  BY <1>1, <1>2, <1>5 DEF BroadcastChangedState, Notices
<1>8. Lively(out, n, ks) /\ Fed(w.conn, out.conn)
  BY <1>1, <1>3, <1>7, QueueFed
<1>9. Told(w, to, out)
  BY <1>1, <1>3, <1>7, QueueDetails
<1>10. ASSUME NEW id, NEW ps, NEW R, NEW x, NEW k \in Key \cup {Closed},
              NEW g \in Seq(Answer), Tracked(w.members, w.conn, id, k, g, ps, R, x)
       PROVE  Tracked(out.members, out.conn, id, k, g, ps,
                      IF about.connected THEN R \cup {about.id} ELSE R \ {about.id}, x)
  <2>1. PICK Q : Q = IF about.connected THEN R \cup {about.id} ELSE R \ {about.id}
    OBVIOUS
  <2>2. ASSUME NEW i \in 1..Len(ms), ms[i].id = id
        PROVE  Q = IF i \in to THEN Notified(R, r[i], id) ELSE R
    <3>1. PICK e : e = r[i].entries[1] /\ e = <<about.id, about.connected>>
      BY <1>3, <1>4
    <3>2. r[i].pragma = id /\ i \in to
      BY <1>3, <1>4, <1>6, <2>2
    <3>3. e[1] = about.id /\ e[2] = about.connected
      BY <3>1
    <3> QED
      BY <2>1, <3>1, <3>2, <3>3 DEF Notified
  <2>3. Roster(w.members, id, to, r, R, Q)
    BY <1>1, <2>2 DEF Roster
  <2>4. Tracked(out.members, out.conn, id, k, g, ps, Q, x)
    BY <1>1, <1>3, <1>7, <1>10, <2>3, QueueTracks
  <2> QED
    BY <2>1, <2>4
<1>11. SameIds(w.members, out.members)
  BY <1>9 DEF Told, SameIds
<1>12. Announces(w, out, about)
  BY <1>10 DEF Announces
<1> QED
  BY <1>8, <1>11, <1>12

(* The members without the i-th one. *)
Distinct(ms) == \A j, l \in 1..Len(ms) : ms[j].id = ms[l].id => j = l

Without(ms, i, rest) ==
  /\ \A j \in 1..Len(rest) : \E l \in 1..Len(ms) : l # i /\ rest[j] = ms[l]
  /\ \A l \in 1..Len(ms) : l # i => \E j \in 1..Len(rest) : rest[j] = ms[l]

LEMMA RestFacts ==
  ASSUME NEW ms \in Seq(Peer), NEW i \in 1..Len(ms), NEW rest, rest = RemoveAt(ms, i),
         Distinct(ms)
  PROVE  /\ rest \in Seq(Peer) /\ Without(ms, i, rest) /\ Distinct(rest)
         /\ IdsOf(rest) = IdsOf(ms) \ {ms[i].id}
<1>1. PICK n \in Nat : n = Len(ms) /\ i \in 1..n
  BY MembersFacts
<1>d. \A j, l \in 1..n : ms[j].id = ms[l].id => j = l
  BY <1>1 DEF Distinct
<1>2. /\ rest \in Seq(Peer) /\ Len(rest) = n - 1
      /\ \A j \in 1..n - 1 : rest[j] = IF j < i THEN ms[j] ELSE ms[j + 1]
  BY <1>1, RemoveAtFacts
<1>3. \A j \in 1..n - 1 : \E l \in 1..n : /\ rest[j] = ms[l] /\ l # i
                                         /\ l = IF j < i THEN j ELSE j + 1
  <2>1. ASSUME NEW j \in 1..n - 1
        PROVE  \E l \in 1..n : rest[j] = ms[l] /\ l # i /\ l = IF j < i THEN j ELSE j + 1
    <3> DEFINE l == IF j < i THEN j ELSE j + 1
    <3>1. l \in 1..n /\ l # i
      BY <1>1
    <3>2. rest[j] = ms[l]
      BY <1>2
    <3> QED
      BY <3>1, <3>2
  <2> QED
    BY <2>1
<1>4. ASSUME NEW l \in 1..n, l # i PROVE \E j \in 1..n - 1 : rest[j] = ms[l]
  <2>1. CASE l < i
    <3>1. l \in 1..n - 1
      BY <1>1, <2>1
    <3> QED
      BY <1>2, <2>1, <3>1
  <2>2. CASE l > i
    <3>1. PICK j : j = l - 1 /\ j \in 1..n - 1 /\ ~(j < i) /\ j + 1 = l
      BY <1>1, <2>2
    <3> QED
      BY <1>2, <3>1
  <2> QED
    BY <1>1, <1>4, <2>1, <2>2
<1>5. ASSUME NEW j \in 1..n - 1, NEW l \in 1..n - 1, rest[j].id = rest[l].id PROVE j = l
  <2>1. PICK j2 \in 1..n : rest[j] = ms[j2] /\ j2 = IF j < i THEN j ELSE j + 1
    BY <1>3
  <2>2. PICK l2 \in 1..n : rest[l] = ms[l2] /\ l2 = IF l < i THEN l ELSE l + 1
    BY <1>3
  <2>3. j2 = l2
    BY <1>d, <1>5, <2>1, <2>2
  <2> QED
    BY <1>1, <2>1, <2>2, <2>3
<1>6. IdsOf(rest) = IdsOf(ms) \ {ms[i].id}
  <2>1. \A j \in 1..n - 1 : rest[j].id \in IdsOf(ms) /\ rest[j].id # ms[i].id
    BY <1>1, <1>d, <1>3 DEF IdsOf
  <2>2. \A l \in 1..n : ms[l].id # ms[i].id => ms[l].id \in IdsOf(rest)
    BY <1>2, <1>4 DEF IdsOf
  <2>3. /\ IdsOf(rest) = {rest[j].id : j \in 1..n - 1}
        /\ IdsOf(ms) = {ms[l].id : l \in 1..n}
    BY <1>1, <1>2 DEF IdsOf
  <2>4. ASSUME NEW y \in IdsOf(rest) PROVE y \in IdsOf(ms) \ {ms[i].id}
    BY <2>1, <2>3, <2>4
  <2>5. ASSUME NEW y \in IdsOf(ms) \ {ms[i].id} PROVE y \in IdsOf(rest)
    BY <2>2, <2>3, <2>5
  <2> QED
    BY <2>4, <2>5
<1>7. Without(ms, i, rest)
  <2>1. \A j \in 1..Len(rest) : \E l \in 1..Len(ms) : l # i /\ rest[j] = ms[l]
    BY <1>1, <1>2, <1>3
  <2> QED
    BY <1>1, <1>2, <1>4, <2>1 DEF Without
<1>8. Distinct(rest)
  BY <1>2, <1>5 DEF Distinct
<1> QED
  BY <1>2, <1>6, <1>7, <1>8

(* Every stream is as good in b as it was in a. *)
Carries(a, b, n, x) ==
  \A id \in 1..n : \A k \in Key \cup {Closed} : \A g \in Seq(Answer) : \A ps :
    Tracks(a, id, k, g, ps, x) => Tracks(b, id, k, g, ps, x)

LEMMA CarriesReflexive == \A a, n, x : Carries(a, a, n, x)
BY DEF Carries

LEMMA CarriesTransitive ==
  ASSUME NEW a, NEW b, NEW c, NEW n, NEW x, Carries(a, b, n, x), Carries(b, c, n, x)
  PROVE  Carries(a, c, n, x)
BY DEF Carries

(* A member that signed out, or that nobody waits for, is erased. *)
LEMMA EraseCarries ==
  ASSUME NEW w, NEW n, NEW ks, Lively(w, n, ks), NEW i \in 1..Len(w.members),
         ~w.members[i].connected \/ w.members[i].waiting = NoSocket,
         NEW out, out = Erase(w, i)
  PROVE  /\ Lively(out, n, ks) /\ Fed(w.conn, out.conn)
         /\ \A x : Carries(w, out, n, x)
<1>1. PICK ms : ms = w.members /\ ms \in Seq(Peer)
  BY DEF Lively, Channel
<1>2. PICK rest : rest = RemoveAt(ms, i)
  OBVIOUS
<1>3. /\ Distinct(ms) /\ Net(w.conn) /\ ks \subseteq DOMAIN w.conn
      /\ \A j \in 1..Len(ms) : ms[j].id \in 1..n /\ WaitsOn(ms[j], w.conn, ks)
      /\ \A j \in 1..Len(ms) : ms[j].waiting # NoSocket => w.conn[ms[j].waiting].left = 0
  BY <1>1 DEF Lively, Channel, Distinct, Idle
<1>4. /\ rest \in Seq(Peer) /\ Without(ms, i, rest) /\ Distinct(rest)
      /\ IdsOf(rest) = IdsOf(ms) \ {ms[i].id}
  BY <1>1, <1>2, <1>3, RestFacts
<1>5. PICK v : v = [members |-> rest, conn |-> w.conn]
  OBVIOUS
<1>6. PICK about : about = [ms[i] EXCEPT !.connected = FALSE]
  OBVIOUS
<1>7. about.id = ms[i].id /\ about.connected = FALSE /\ about.id \in Int
  <2>1. ms[i] \in Peer /\ ms[i].id \in Nat
    BY <1>1, MembersFacts
  <2> QED
    BY <1>6, <2>1 DEF Peer
<1>8. out = BroadcastChangedState(v, about) /\ v.members = rest /\ v.conn = w.conn
  BY <1>1, <1>2, <1>5, <1>6 DEF Erase
<1>9. Lively(v, n, ks)
  <2>1. ASSUME NEW j \in 1..Len(rest)
        PROVE  /\ rest[j].id \in 1..n /\ WaitsOn(rest[j], w.conn, ks)
               /\ rest[j].waiting # NoSocket => w.conn[rest[j].waiting].left = 0
    <3>1. PICK l \in 1..Len(ms) : rest[j] = ms[l]
      BY <1>4 DEF Without
    <3> QED
      BY <1>3, <3>1
  <2>2. Channel(v, n, ks)
    BY <1>3, <1>4, <1>8, <2>1 DEF Channel, Distinct
  <2>3. Idle(v.members, v.conn)
    BY <1>8, <2>1 DEF Idle
  <2> QED
    BY <1>8, <2>2, <2>3 DEF Lively
<1>10. Absent(v.members, about.id)
  <2>1. ASSUME NEW j \in 1..Len(rest) PROVE rest[j].id # ms[i].id
    <3>1. PICK l \in 1..Len(ms) : l # i /\ rest[j] = ms[l]
      BY <1>4 DEF Without
    <3> QED
      BY <1>1, <1>3, <3>1 DEF Distinct
  <2> QED
    BY <1>7, <1>8, <2>1 DEF Absent
<1>11. /\ Lively(out, n, ks) /\ Fed(v.conn, out.conn)
       /\ SameIds(v.members, out.members) /\ Announces(v, out, about)
  BY <1>7, <1>8, <1>9, <1>10, BroadcastLively
<1>12. IdsOf(out.members) = IdsOf(rest)
  BY <1>8, <1>11 DEF IdsOf, SameIds
<1>13. ASSUME NEW id, NEW ps, NEW x, NEW k \in Key \cup {Closed}, NEW g \in Seq(Answer),
              Tracks(w, id, k, g, ps, x)
       PROVE  Tracks(out, id, k, g, ps, x)
  <2>1. PICK R : R = IdsOf(ms) \ {id}
    OBVIOUS
  <2>2. /\ \A j \in 1..Len(ms) : ms[j].id = id => Follows(ms[j], w.conn, k, g, ps, R)
        /\ Hangs(ms, w.conn, id, k, x) /\ Alone(w.conn, id, k)
    BY <1>1, <1>13, <2>1 DEF Tracks, Tracked
  <2>3. k # NoSocket
    BY NoKey DEF Closed, NoSocket
  <2>4. Hangs(rest, w.conn, id, k, x)
    <3>1. ASSUME NEW l \in 1..Len(ms), ms[l].id = id, ms[l].waiting = k
          PROVE  \E j \in 1..Len(rest) : rest[j].id = id /\ rest[j].waiting = k
      <4>1. l # i
        BY <1>1, <2>2, <2>3, <3>1 DEF Follows
      <4> QED
        BY <1>4, <3>1, <4>1 DEF Without
    <3> QED
      BY <2>2, <3>1 DEF Hangs
  <2>5. ASSUME NEW j \in 1..Len(rest), rest[j].id = id
        PROVE  Follows(rest[j], w.conn, k, g, ps, R)
    <3>1. PICK l \in 1..Len(ms) : rest[j] = ms[l]
      BY <1>4 DEF Without
    <3> QED
      BY <2>2, <2>5, <3>1
  <2>6. Tracked(v.members, v.conn, id, k, g, ps, R, x)
    BY <1>8, <2>2, <2>4, <2>5 DEF Tracked
  <2>7. Tracked(out.members, out.conn, id, k, g, ps, R \ {about.id}, x)
    BY <1>7, <1>11, <2>6 DEF Announces
  <2>8. R \ {about.id} = IdsOf(out.members) \ {id}
    BY <1>4, <1>7, <1>12, <2>1
  <2> QED
    BY <2>7, <2>8 DEF Tracks
<1>14. \A x : Carries(w, out, n, x)
  BY <1>13 DEF Carries
<1> QED
  BY <1>8, <1>11, <1>14

(* Members change, and only in their age, or stop to wait on x. *)
SameStreams(a, b, x) ==
  /\ Len(b) = Len(a)
  /\ \A i \in 1..Len(a) :
       /\ b[i].id = a[i].id /\ b[i].connected = a[i].connected
       /\ b[i].queue = a[i].queue /\ b[i].log = a[i].log
       /\ b[i].waiting = a[i].waiting \/ (a[i].waiting = x /\ b[i].waiting = NoSocket)

LEMMA SameStreamsCarry ==
  ASSUME NEW a, NEW b, NEW n, NEW x, a.conn = b.conn, SameStreams(a.members, b.members, x)
  PROVE  Carries(a, b, n, x)
<1>1. PICK ms : ms = a.members
  OBVIOUS
<1>2. PICK vs : vs = b.members
  OBVIOUS
<1>3. SameStreams(ms, vs, x) /\ IdsOf(vs) = IdsOf(ms)
  BY <1>1, <1>2 DEF SameStreams, IdsOf
<1>4. ASSUME NEW id, NEW ps, NEW k \in Key \cup {Closed}, NEW g,
             Tracks(a, id, k, g, ps, x)
      PROVE  Tracks(b, id, k, g, ps, x)
  <2>1. PICK R : R = IdsOf(ms) \ {id}
    OBVIOUS
  <2>2. /\ \A j \in 1..Len(ms) : ms[j].id = id => Follows(ms[j], a.conn, k, g, ps, R)
        /\ Hangs(ms, a.conn, id, k, x) /\ Alone(a.conn, id, k)
    BY <1>1, <1>4, <2>1 DEF Tracks, Tracked
  <2>3. k # NoSocket
    BY NoKey DEF Closed, NoSocket
  <2>4. ASSUME NEW j \in 1..Len(vs), vs[j].id = id
        PROVE  Follows(vs[j], a.conn, k, g, ps, R)
    BY <1>3, <2>2, <2>3, <2>4, ZenonT(60) DEF SameStreams, Follows, Coming
  <2>5. Hangs(vs, a.conn, id, k, x)
    BY <1>3, <2>2, <2>3 DEF Hangs, SameStreams
  <2> QED
    BY <1>2, <1>3, <2>1, <2>2, <2>4, <2>5 DEF Tracks, Tracked
<1> QED
  BY <1>4 DEF Carries

LEMMA ReleasedCarries ==
  ASSUME NEW w, NEW n, NEW ks, Lively(w, n, ks), NEW i \in 1..Len(w.members), NEW k \in Key,
         NEW v, v = Released(w, i, k)
  PROVE  /\ Lively(v, n, ks) /\ v.conn = w.conn /\ SameStreams(w.members, v.members, k)
<1>1. Channel(v, n, ks) /\ v.conn = w.conn
  BY ReleasedFacts DEF Lively
<1>2. SameStreams(w.members, v.members, k)
  <2>1. CASE w.members[i].waiting # k
    BY <2>1 DEF Released, SameStreams
  <2>2. CASE w.members[i].waiting = k
    <3>1. PICK ms \in Seq(Peer) : ms = w.members
      BY DEF Lively, Channel
    <3>2. PICK m \in Peer : m = ms[i]
      BY <3>1, MembersFacts
    <3>3. PICK a : a = Awaits(m, NoSocket)
      OBVIOUS
    <3>4. /\ a \in Peer /\ a.id = m.id /\ a.connected = m.connected /\ a.queue = m.queue
          /\ a.log = m.log /\ a.waiting = NoSocket
      BY <3>3 DEF Peer, Awaits
    <3>5. v.members = [ms EXCEPT ![i] = a]
      BY <2>2, <3>1, <3>2, <3>3 DEF Released
    <3>6. /\ Len(v.members) = Len(ms)
          /\ \A j \in 1..Len(ms) : v.members[j] = IF j = i THEN a ELSE ms[j]
      BY <3>1, <3>4, <3>5, ExceptSeq
    <3> QED
      BY <2>2, <3>1, <3>2, <3>4, <3>6 DEF SameStreams
  <2> QED
    BY <2>1, <2>2
<1>3. Idle(v.members, v.conn)
  BY <1>1, <1>2 DEF Lively, Idle, SameStreams
<1> QED
  BY <1>1, <1>2, <1>3 DEF Lively

LEMMA ClosingTurnCarries ==
  ASSUME NEW w, NEW n, NEW ks, Lively(w, n, ks), NEW i \in Nat \ {0}, NEW k \in Key,
         NEW out, out = ClosingTurn(w, i, k)
  PROVE  Lively(out, n, ks) /\ Fed(w.conn, out.conn) /\ Carries(w, out, n, k)
<1>1. PICK l \in Nat : l = Len(w.members)
  BY MembersFacts DEF Lively, Channel
<1>2. CASE i > l
  BY <1>1, <1>2, FedReflexive, CarriesReflexive DEF ClosingTurn
<1>3. CASE i <= l
  <2>1. i \in 1..Len(w.members)
    BY <1>1, <1>3
  <2>2. PICK v : v = Released(w, i, k)
    OBVIOUS
  <2>3. Lively(v, n, ks) /\ v.conn = w.conn /\ SameStreams(w.members, v.members, k)
    BY <2>1, <2>2, ReleasedCarries
  <2>4. Carries(w, v, n, k)
    BY <2>3, SameStreamsCarry
  <2>5. CASE w.members[i].connected
    <3>1. out = v
      BY <1>1, <1>3, <2>2, <2>5 DEF ClosingTurn
    <3> QED
      BY <2>3, <2>4, <3>1, FedReflexive
  <2>6. CASE ~w.members[i].connected
    <3>1. out = Erase(v, i)
      BY <1>1, <1>3, <2>2, <2>6 DEF ClosingTurn
    <3>2. i \in 1..Len(v.members) /\ ~v.members[i].connected
      BY <2>1, <2>3, <2>6 DEF SameStreams
    <3>3. Lively(out, n, ks) /\ Fed(v.conn, out.conn) /\ Carries(v, out, n, k)
      BY <2>3, <3>1, <3>2, EraseCarries
    <3> QED
      BY <2>3, <2>4, <3>3, CarriesTransitive
  <2> QED
    BY <2>5, <2>6
<1> QED
  BY <1>1, <1>2, <1>3

LEMMA OnClosingCarries ==
  ASSUME NEW w, NEW n, NEW ks, Lively(w, n, ks), NEW k \in Key,
         NEW out, out = OnClosing(w, k)
  PROVE  Lively(out, n, ks \ {k}) /\ Fed(w.conn, out.conn) /\ Carries(w, out, n, k)
<1>1. PICK l \in Nat : l = Len(w.members)
  BY MembersFacts DEF Lively, Channel
<1>2. PICK g : IsRun("closing", w, l, k, g) /\ OnClosing(w, k) = g[l]
  BY <1>1, ClosingLoop
<1>3. g[0] = w /\ \A i \in 1..l : g[i] = ClosingTurn(g[i - 1], i, k)
  BY <1>2 DEF IsRun, Turn
<1> DEFINE OK(v) == Lively(v, n, ks) /\ Fed(w.conn, v.conn) /\ Carries(w, v, n, k)
           S == {i \in 0..l : OK(g[i])}
<1>4. OK(g[0])
  BY <1>3, FedReflexive, CarriesReflexive
<1>5. ASSUME NEW i \in 1..l, OK(g[i - 1]) PROVE OK(g[i])
  <2>1. PICK a : a = g[i - 1]
    OBVIOUS
  <2>2. PICK b : b = ClosingTurn(a, i, k) /\ b = g[i]
    BY <1>3, <2>1
  <2>3. Lively(a, n, ks) /\ Fed(w.conn, a.conn) /\ Carries(w, a, n, k) /\ i \in Nat \ {0}
    BY <1>5, <2>1
  <2> HIDE DEF OK
  <2>4. Lively(b, n, ks) /\ Fed(a.conn, b.conn) /\ Carries(a, b, n, k)
    BY <2>2, <2>3, ClosingTurnCarries
  <2>5. Fed(w.conn, b.conn) /\ Carries(w, b, n, k)
    BY <2>3, <2>4, FedTransitive, CarriesTransitive
  <2> QED
    BY <2>2, <2>4, <2>5 DEF OK
<1>6. OK(g[l])
  <2> HIDE DEF OK
  <2>1. 0 \in S /\ \A i \in 1..l : i - 1 \in S => i \in S
    BY <1>4, <1>5
  <2> HIDE DEF S
  <2>2. l \in S
    BY <2>1, IntervalInduction
  <2> QED
    BY <2>2 DEF S
<1>7. Channel(out, n, ks \ {k})
  BY OnClosingFacts DEF Lively
<1> QED
  BY <1>2, <1>6, <1>7 DEF Lively

LEMMA CheckForTimeoutCarries ==
  ASSUME NEW w, NEW n, NEW ks, Lively(w, n, ks), NEW x, NEW out, out = CheckForTimeout(w)
  PROVE  Lively(out, n, ks) /\ Fed(w.conn, out.conn) /\ Carries(w, out, n, x)
<1>1. PICK l \in Nat : l = Len(w.members)
  BY MembersFacts DEF Lively, Channel
<1>2. PICK g : IsRun("timeout", w, l, 0, g) /\ CheckForTimeout(w) = g[l]
  BY <1>1, TimeoutLoop
<1>3. g[0] = w /\ \A i \in 1..l : g[i] = TimeoutTurn(g[i - 1], i)
  BY <1>2 DEF IsRun, Turn
<1> DEFINE OK(v) == Lively(v, n, ks) /\ Fed(w.conn, v.conn) /\ Carries(w, v, n, x)
           S == {i \in 0..l : OK(g[i])}
<1>4. OK(g[0])
  BY <1>3, FedReflexive, CarriesReflexive
<1>5. ASSUME NEW i \in 1..l, OK(g[i - 1]) PROVE OK(g[i])
  <2>1. PICK a : a = g[i - 1]
    OBVIOUS
  <2>2. PICK b : b = TimeoutTurn(a, i) /\ b = g[i]
    BY <1>3, <2>1
  <2>3. Lively(a, n, ks) /\ Fed(w.conn, a.conn) /\ Carries(w, a, n, x)
    BY <1>5, <2>1
  <2> HIDE DEF OK
  <2>4. Len(a.members) \in Nat
    BY <2>3, MembersFacts DEF Lively, Channel
  <2>5. \/ b = a
        \/ /\ i \in 1..Len(a.members) /\ b = Erase(a, i)
           /\ a.members[i].waiting = NoSocket
    BY <2>2, <2>4 DEF TimeoutTurn, TimedOut
  <2>6. Lively(b, n, ks) /\ Fed(a.conn, b.conn) /\ Carries(a, b, n, x)
    BY <2>3, <2>5, EraseCarries, FedReflexive, CarriesReflexive
  <2>7. Fed(w.conn, b.conn) /\ Carries(w, b, n, x)
    BY <2>3, <2>6, FedTransitive, CarriesTransitive
  <2> QED
    BY <2>2, <2>6, <2>7 DEF OK
<1>6. OK(g[l])
  <2> HIDE DEF OK
  <2>1. 0 \in S /\ \A i \in 1..l : i - 1 \in S => i \in S
    BY <1>4, <1>5
  <2> HIDE DEF S
  <2>2. l \in S
    BY <2>1, IntervalInduction
  <2> QED
    BY <2>2 DEF S
<1> QED
  BY <1>2, <1>6

-----------------------------------------------------------------------------
(* What a request does to the streams *)

(* Nothing but responses to hanging gets and on k is sent. *)
FedBut(a, b, k) ==
  /\ SameLinks(a, b)
  /\ \A j \in DOMAIN a :
       /\ b[j].left = a[j].left
       /\ \/ j = k
          \/ b[j] = a[j]
          \/ /\ a[j].left = 0 /\ a[j].end = "accepted" /\ a[j].req.path = "/wait"
             /\ b[j].resp # <<>>

LEMMA FedIsFedBut ==
  ASSUME NEW a, NEW b, NEW k, Fed(a, b) PROVE FedBut(a, b, k)
BY DEF Fed, FedBut

LEMMA FedThenBut ==
  ASSUME NEW a, NEW b, NEW c, NEW k, Fed(a, b), FedBut(b, c, k)
  PROVE  FedBut(a, c, k)
<1>1. SameLinks(a, c) /\ DOMAIN b = DOMAIN a
  BY SameLinksTransitive DEF Fed, FedBut, SameLinks
<1>2. ASSUME NEW j \in DOMAIN a
      PROVE  /\ c[j].left = a[j].left
             /\ \/ j = k \/ c[j] = a[j]
                \/ /\ a[j].left = 0 /\ a[j].end = "accepted" /\ a[j].req.path = "/wait"
                   /\ c[j].resp # <<>>
  BY <1>1 DEF Fed, FedBut, SameLinks
<1> QED
  BY <1>1, <1>2 DEF FedBut

LEMMA ButThenFed ==
  ASSUME NEW a, NEW b, NEW c, NEW k, FedBut(a, b, k), Fed(b, c)
  PROVE  FedBut(a, c, k)
<1>1. SameLinks(a, c) /\ DOMAIN b = DOMAIN a
  BY SameLinksTransitive DEF Fed, FedBut, SameLinks
<1>2. ASSUME NEW j \in DOMAIN a
      PROVE  /\ c[j].left = a[j].left
             /\ \/ j = k \/ c[j] = a[j]
                \/ /\ a[j].left = 0 /\ a[j].end = "accepted" /\ a[j].req.path = "/wait"
                   /\ c[j].resp # <<>>
  BY <1>1 DEF Fed, FedBut, SameLinks
<1> QED
  BY <1>1, <1>2 DEF FedBut

(* The request on k has just been read; the streams other than that of k   *)
(* are as they should be, and after it is served all of them are.          *)
Serves(a, b, n, k) ==
  \A id \in 1..n : \A j \in Key \cup {Closed} : \A g \in Seq(Answer) : \A ps :
    /\ Tracks(a, id, j, g, ps, k)
    /\ /\ a.conn[k].req.path \in {"/wait", "/sign_out"} /\ a.conn[k].req.peer_id = id
       => j = k
    => Tracks(b, id, j, g, ps, NoSocket)

(* The response of a request that no member is waiting for. *)
Unasked(w, k) ==
  w.conn[k].req.path = "/wait" =>
    w.conn[k].resp = <<>> /\ Absent(w.members, w.conn[k].req.peer_id)

LEMMA SendDetails ==
  ASSUME NEW net, Net(net), NEW k \in DOMAIN net, NEW r \in Answer, NEW b,
         b = Send(net, k, r)
  PROVE  /\ Net(b) /\ SameLinks(net, b)
         /\ \A j \in DOMAIN net : b[j].left = net[j].left /\ (j # k => b[j] = net[j])
         /\ net[k].open => b[k].resp = Append(net[k].resp, r)
<1>1. CASE ~net[k].open
  BY <1>1, SendFacts DEF Send
<1>2. CASE net[k].open
  <2>1. PICK l : l = net[k] /\ IsLink(l)
    BY DEF Net
  <2>2. PICK y : y = Given(l, r)
    OBVIOUS
  <2>3. y.left = l.left /\ y.resp = Append(l.resp, r)
    BY <2>1, <2>2 DEF IsLink, Given
  <2>4. b = [net EXCEPT ![k] = y]
    BY <1>2, <2>1, <2>2 DEF Send
  <2>5. \A j \in DOMAIN net : b[j] = IF j = k THEN y ELSE net[j]
    BY <2>4
  <2> QED
    BY <2>1, <2>3, <2>5, SendFacts
<1> QED
  BY <1>1, <1>2 DEF Net, IsLink

LEMMA SendTracks ==
  ASSUME NEW w, NEW n, NEW ks, Lively(w, n, ks), NEW k \in ks, NEW r \in Answer,
         Unasked(w, k), NEW b, b = Send(w.conn, k, r),
         NEW id, NEW j \in Key \cup {Closed}, NEW g, NEW ps, NEW R,
         Tracked(w.members, w.conn, id, j, g, ps, R, k)
  PROVE  Tracked(w.members, b, id, j, g, ps, R, NoSocket)
<1>1. PICK ms : ms = w.members
  OBVIOUS
<1>2. /\ k \in DOMAIN w.conn /\ w.conn[k].end = "accepted" /\ Net(w.conn)
      /\ DOMAIN w.conn \subseteq Key
  BY DEF Lively, Channel, Net
<1>3. /\ SameLinks(w.conn, b)
      /\ \A i \in DOMAIN w.conn : b[i].left = w.conn[i].left /\ (i # k => b[i] = w.conn[i])
      /\ w.conn[k].open => b[k].resp = Append(w.conn[k].resp, r)
  BY <1>2, SendDetails
<1>4. /\ \A i \in 1..Len(ms) : ms[i].id = id => Follows(ms[i], w.conn, j, g, ps, R)
      /\ Hangs(ms, w.conn, id, j, k) /\ Alone(w.conn, id, j)
  BY <1>1 DEF Tracked
<1>5. Alone(b, id, j)
  BY <1>3, <1>4 DEF Alone, Asks, SameLinks
<1>6. CASE j # k
  <2>1. Stream(b, j) = Stream(w.conn, j)
    BY <1>3, <1>6 DEF Stream, SameLinks
  <2>2. \A i \in 1..Len(ms) : ms[i].id = id => Follows(ms[i], b, j, g, ps, R)
    BY <1>4, <2>1 DEF Follows, Coming
  <2>3. Hangs(ms, b, id, j, NoSocket)
    BY <1>3, <1>4, <1>6 DEF Hangs, SameLinks
  <2> QED
    BY <1>1, <1>5, <2>2, <2>3 DEF Tracked
<1>7. CASE j = k
  <2>1. w.conn[k].open /\ w.conn[k].req.path = "/wait" /\ w.conn[k].req.peer_id = id
    BY <1>2, <1>4, <1>7 DEF Hangs
  <2>2. Absent(ms, id) /\ w.conn[k].resp = <<>>
    BY <1>1, <2>1 DEF Unasked
  <2>3. b[k].resp = Append(<<>>, r)
    BY <1>3, <2>1, <2>2
  <2>4. Len(b[k].resp) = 1 /\ b[k].resp # <<>>
    BY <2>3, EmptySeq, AppendProperties
  <2>5. Hangs(ms, b, id, j, NoSocket)
    BY <1>2, <1>3, <1>7, <2>1, <2>4 DEF Hangs, SameLinks
  <2>6. \A i \in 1..Len(ms) : ms[i].id = id => Follows(ms[i], b, j, g, ps, R)
    BY <2>2 DEF Absent
  <2> QED
    BY <1>1, <1>5, <2>5, <2>6 DEF Tracked
<1> QED
  BY <1>6, <1>7

LEMMA SendLively ==
  ASSUME NEW w, NEW n, NEW ks, Lively(w, n, ks), NEW k \in ks, NEW r \in Answer,
         NEW out, out = [members |-> w.members, conn |-> Send(w.conn, k, r)]
  PROVE  /\ Lively(out, n, ks) /\ FedBut(w.conn, out.conn, k)
         /\ out.members = w.members /\ out.conn = Send(w.conn, k, r)
<1>1. k \in DOMAIN w.conn /\ Net(w.conn) /\ Channel(w, n, ks)
  BY DEF Lively, Channel
<1>2. PICK b : b = Send(w.conn, k, r)
  OBVIOUS
<1>3. /\ SameLinks(w.conn, b)
      /\ \A i \in DOMAIN w.conn : b[i].left = w.conn[i].left /\ (i # k => b[i] = w.conn[i])
  BY <1>1, <1>2, SendDetails
<1>4. out.members = w.members /\ out.conn = b
  BY <1>2
<1>5. Channel(out, n, ks)
  BY <1>1, SendChannel
<1>6. FedBut(w.conn, b, k)
  BY <1>3 DEF FedBut
<1>7. Idle(out.members, b)
  <2>1. ASSUME NEW i \in 1..Len(w.members), w.members[i].waiting # NoSocket
        PROVE  b[w.members[i].waiting].left = 0
    <3>1. w.members[i].waiting \in DOMAIN w.conn /\ w.conn[w.members[i].waiting].left = 0
      BY <2>1 DEF Lively, Channel, WaitsOn, Idle
    <3> QED
      BY <1>3, <3>1
  <2> QED
    BY <1>4, <2>1 DEF Idle
<1>8. \A j \in ks : b[j].end = "accepted"
  BY <1>1, <1>3 DEF Lively, SameLinks, Channel
<1> QED
  BY <1>2, <1>4, <1>5, <1>6, <1>7, <1>8 DEF Lively

LEMMA SendServes ==
  ASSUME NEW w, NEW n, NEW ks, Lively(w, n, ks), NEW k \in ks, NEW r \in Answer,
         Unasked(w, k), NEW out, out = [members |-> w.members, conn |-> Send(w.conn, k, r)]
  PROVE  Lively(out, n, ks) /\ FedBut(w.conn, out.conn, k) /\ Serves(w, out, n, k)
<1>1. /\ Lively(out, n, ks) /\ FedBut(w.conn, out.conn, k)
      /\ out.members = w.members /\ out.conn = Send(w.conn, k, r)
  BY SendLively
<1>2. ASSUME NEW id, NEW j \in Key \cup {Closed}, NEW g, NEW ps,
             Tracks(w, id, j, g, ps, k)
      PROVE  Tracks(out, id, j, g, ps, NoSocket)
  <2>1. PICK R : R = IdsOf(w.members) \ {id}
    OBVIOUS
  <2>2. Tracked(w.members, w.conn, id, j, g, ps, R, k)
    BY <1>2, <2>1 DEF Tracks
  <2>3. Tracked(w.members, out.conn, id, j, g, ps, R, NoSocket)
    BY <1>1, <2>2, SendTracks
  <2> QED
    BY <1>1, <2>1, <2>3 DEF Tracks
<1> QED
  BY <1>1, <1>2 DEF Serves

LEMMA HeadThenTail ==
  ASSUME NEW q \in Seq(Answer), q # <<>>
  PROVE  /\ Head(q) \in Answer /\ Tail(q) \in Seq(Answer)
         /\ Append(<<>>, Head(q)) \o Tail(q) = q
<1>1. PICK h \in Answer : h = Head(q)
  BY HeadTailProperties
<1>2. PICK t \in Seq(Answer) : /\ t = Tail(q) /\ Len(t) = Len(q) - 1
                               /\ \A i \in 1..Len(t) : t[i] = q[i + 1]
  BY HeadTailProperties
<1>3. PICK e \in Seq(Answer) : e = <<>> /\ Len(e) = 0
  BY EmptySeq
<1>one. PICK one : one = Append(e, h)
  OBVIOUS
<1>4. one \in Seq(Answer) /\ Len(one) = 1 /\ one[1] = h
  <2>1. one \in Seq(Answer) /\ Len(one) = Len(e) + 1 /\ one[Len(e) + 1] = h
    BY <1>one, AppendProperties
  <2> QED
    BY <1>3, <2>1
<1>5. PICK n \in Nat : n = Len(q) /\ n # 0
  BY EmptySeq, LenProperties
<1>v. PICK v : v = one \o t
  OBVIOUS
<1>6. /\ v \in Seq(Answer) /\ Len(v) = n
      /\ \A i \in 1..n : v[i] = IF i <= 1 THEN one[i] ELSE t[i - 1]
  <2>1. /\ v \in Seq(Answer) /\ Len(v) = Len(one) + Len(t)
        /\ \A i \in 1..Len(one) + Len(t) :
             v[i] = IF i <= Len(one) THEN one[i] ELSE t[i - Len(one)]
    BY <1>4, <1>v, ConcatProperties
  <2>2. Len(one) + Len(t) = n
    BY <1>2, <1>4, <1>5
  <2> QED
    BY <1>4, <2>1, <2>2
<1>7. q[1] = h
  BY <1>1
<1>8. ASSUME NEW i \in 1..n PROVE v[i] = q[i]
  <2>1. CASE i = 1
    BY <1>4, <1>6, <1>7, <2>1
  <2>2. CASE i # 1
    <3>1. i - 1 \in 1..Len(t) /\ i - 1 + 1 = i /\ ~(i <= 1)
      BY <1>2, <1>5, <2>2
    <3> QED
      BY <1>2, <1>6, <3>1
  <2> QED
    BY <2>1, <2>2
<1>9. v = q
  BY <1>5, <1>6, <1>8, SeqEqual
<1> QED
  BY <1>1, <1>2, <1>3, <1>one, <1>v, <1>9

(* What SetWaitingSocket leaves of the member m: its next response is on   *)
(* the wire of k, or m waits on k.                                         *)
Takes(m, a, k, w, b) ==
  /\ a \in Peer /\ a.id = m.id /\ a.connected = m.connected /\ a.log = m.log
  /\ \/ /\ m.queue # <<>> /\ a.queue = Tail(m.queue) /\ a.waiting = m.waiting
        /\ b = Send(w, k, Head(m.queue))
     \/ m.queue = <<>> /\ a.queue = <<>> /\ a.waiting = k /\ b = w

LEMMA TakesFacts ==
  ASSUME NEW w, NEW n, NEW ks, Lively(w, n, ks), NEW i \in 1..Len(w.members), NEW k \in ks,
         NEW out, out = SetWaitingSocket(w, i, k)
  PROVE  \E a : /\ Takes(w.members[i], a, k, w.conn, out.conn)
                /\ Len(out.members) = Len(w.members)
                /\ \A j \in 1..Len(w.members) :
                     out.members[j] = IF j = i THEN a ELSE w.members[j]
<1>1. PICK ms \in Seq(Peer) : ms = w.members
  BY DEF Lively, Channel
<1>2. PICK m \in Peer : m = ms[i]
  BY <1>1, MembersFacts
<1>3. k \in Key
  BY DEF Lively, Channel, Net
<1>4. ASSUME NEW a \in Peer, out.members = [ms EXCEPT ![i] = a],
             Takes(m, a, k, w.conn, out.conn)
      PROVE  \E x : /\ Takes(m, x, k, w.conn, out.conn)
                    /\ Len(out.members) = Len(ms)
                    /\ \A j \in 1..Len(ms) : out.members[j] = IF j = i THEN x ELSE ms[j]
  <2>1. /\ Len(out.members) = Len(ms)
        /\ \A j \in 1..Len(ms) : out.members[j] = IF j = i THEN a ELSE ms[j]
    BY <1>1, <1>4, ExceptSeq
  <2> QED
    BY <1>4, <2>1
<1>5. CASE m.queue # <<>>
  <2>1. PICK q \in Seq(Answer) : q = m.queue
    BY PeerFields
  <2>2. PICK t \in Seq(Answer) : t = Tail(q)
    BY <1>5, <2>1, HeadTailProperties
  <2>3. PICK a : a = [m EXCEPT !.queue = t]
    OBVIOUS
  <2>4. /\ a \in Peer /\ a.id = m.id /\ a.connected = m.connected /\ a.log = m.log
        /\ a.queue = t /\ a.waiting = m.waiting
    BY <2>3 DEF Peer
  <2>5. out.members = [ms EXCEPT ![i] = a] /\ out.conn = Send(w.conn, k, Head(q))
    BY <1>1, <1>2, <1>5, <2>1, <2>2, <2>3 DEF SetWaitingSocket
  <2>6. Takes(m, a, k, w.conn, out.conn)
    BY <1>5, <2>1, <2>2, <2>4, <2>5 DEF Takes
  <2> QED
    BY <1>1, <1>2, <1>4, <2>4, <2>5, <2>6
<1>6. CASE m.queue = <<>>
  <2>1. PICK a : a = Awaits(m, k)
    OBVIOUS
  <2>2. /\ a \in Peer /\ a.id = m.id /\ a.connected = m.connected /\ a.log = m.log
        /\ a.queue = m.queue /\ a.waiting = k
    BY <1>3, <2>1 DEF Peer, Awaits
  <2>3. out.members = [ms EXCEPT ![i] = a] /\ out.conn = w.conn
    BY <1>1, <1>2, <1>6, <2>1 DEF SetWaitingSocket
  <2>4. Takes(m, a, k, w.conn, out.conn)
    BY <1>6, <2>2, <2>3 DEF Takes
  <2> QED
    BY <1>1, <1>2, <1>4, <2>2, <2>3, <2>4
<1> QED
  BY <1>5, <1>6

(* The request on k has been read and not been answered, and nobody waits  *)
(* on k.                                                                   *)
Free(w, k) ==
  /\ w.conn[k].left = 0 /\ w.conn[k].resp = <<>>
  /\ \A i \in 1..Len(w.members) : w.members[i].waiting # k

LEMMA SetWaitingServes ==
  ASSUME NEW w, NEW n, NEW ks, Lively(w, n, ks), NEW i \in 1..Len(w.members), NEW k \in ks,
         w.conn[k].req.path = "/wait", w.conn[k].req.peer_id = w.members[i].id, Free(w, k),
         NEW out, out = SetWaitingSocket(w, i, k)
  PROVE  Lively(out, n, ks) /\ FedBut(w.conn, out.conn, k) /\ Serves(w, out, n, k)
<1>1. PICK ms \in Seq(Peer) : ms = w.members
  BY DEF Lively, Channel
<1>2. PICK m \in Peer : m = ms[i]
  BY <1>1, MembersFacts
<1>3. /\ k \in Key /\ k \in DOMAIN w.conn /\ Net(w.conn) /\ Distinct(ms)
      /\ w.conn[k].end = "accepted" /\ ks \subseteq DOMAIN w.conn
  BY <1>1 DEF Lively, Channel, Net, Distinct
<1>4. PICK a : /\ Takes(m, a, k, w.conn, out.conn)
               /\ Len(out.members) = Len(ms)
               /\ \A j \in 1..Len(ms) : out.members[j] = IF j = i THEN a ELSE ms[j]
  BY <1>1, <1>2, TakesFacts
<1>5. PICK q \in Seq(Answer) : q = m.queue
  BY PeerFields
<1>6. q # <<>> => Head(q) \in Answer
  BY HeadThenTail
<1>7. PICK b : b = out.conn
  OBVIOUS
<1>8. /\ SameLinks(w.conn, b)
      /\ \A j \in DOMAIN w.conn : b[j].left = w.conn[j].left /\ (j # k => b[j] = w.conn[j])
  <2>1. CASE q # <<>>
    <3>1. PICK h \in Answer : h = Head(q)
      BY <1>6, <2>1
    <3>2. b = Send(w.conn, k, h)
      BY <1>4, <1>5, <1>7, <2>1, <3>1 DEF Takes
    <3> QED
      BY <1>3, <3>2, SendDetails
  <2>2. CASE q = <<>>
    BY <1>4, <1>5, <1>7, <2>2, SameLinksReflexive DEF Takes
  <2> QED
    BY <2>1, <2>2
<1>9. FedBut(w.conn, b, k)
  BY <1>8 DEF FedBut
<1>10. Channel(out, n, ks)
  BY SetWaitingSocketFacts DEF Lively
<1>11. Idle(out.members, b)
  <2>1. ASSUME NEW j \in 1..Len(ms), out.members[j].waiting # NoSocket
        PROVE  b[out.members[j].waiting].left = 0
    <3>1. out.members[j].waiting = ms[j].waiting \/ out.members[j].waiting = k
      BY <1>2, <1>4 DEF Takes
    <3>2. CASE out.members[j].waiting = k
      BY <1>3, <1>8, <3>2 DEF Free
    <3>3. CASE out.members[j].waiting = ms[j].waiting
      <4>1. ms[j].waiting \in DOMAIN w.conn /\ w.conn[ms[j].waiting].left = 0
        BY <1>1, <2>1, <3>3 DEF Lively, Channel, WaitsOn, Idle
      <4> QED
        BY <1>8, <3>3, <4>1
    <3> QED
      BY <3>1, <3>2, <3>3
  <2> QED
    BY <1>4, <2>1 DEF Idle
<1>12. Lively(out, n, ks)
  <2>1. \A j \in ks : b[j].end = "accepted"
    BY <1>3, <1>8 DEF Lively, SameLinks
  <2> QED
    BY <1>7, <1>10, <1>11, <2>1 DEF Lively
<1>13. \A j \in 1..Len(ms) : out.members[j].id = ms[j].id
  BY <1>2, <1>4 DEF Takes
<1>14. IdsOf(out.members) = IdsOf(ms)
  BY <1>4, <1>13, SMTT(30) DEF IdsOf
<1>15. ASSUME NEW id \in 1..n, NEW j \in Key \cup {Closed}, NEW g \in Seq(Answer), NEW ps,
              Tracks(w, id, j, g, ps, k), w.conn[k].req.peer_id = id => j = k
       PROVE  Tracks(out, id, j, g, ps, NoSocket)
  <2>1. PICK R : R = IdsOf(ms) \ {id}
    OBVIOUS
  <2>2. /\ \A l \in 1..Len(ms) : ms[l].id = id => Follows(ms[l], w.conn, j, g, ps, R)
        /\ Hangs(ms, w.conn, id, j, k) /\ Alone(w.conn, id, j)
    BY <1>1, <1>15, <2>1 DEF Tracks, Tracked
  <2>3. Alone(b, id, j)
    BY <1>8, <2>2 DEF Alone, Asks, SameLinks
  <2>4. CASE id # m.id
    <3>1. j # k
      BY <1>1, <1>2, <1>3, <2>2, <2>4 DEF Hangs
    <3>2. Stream(b, j) = Stream(w.conn, j)
      BY <1>8, <3>1 DEF Stream, SameLinks
    <3>3. \A l \in 1..Len(ms) : ms[l].id = id => out.members[l] = ms[l]
      BY <1>2, <1>4, <2>4
    <3>4. \A l \in 1..Len(ms) :
            out.members[l].id = id => Follows(out.members[l], b, j, g, ps, R)
      <4>1. \A o : Follows(o, w.conn, j, g, ps, R) => Follows(o, b, j, g, ps, R)
        BY <3>2 DEF Follows, Coming
      <4> QED
        BY <1>13, <2>2, <3>3, <4>1
    <3>5. Hangs(out.members, b, id, j, NoSocket)
      BY <1>4, <1>8, <2>2, <3>1, <3>3 DEF Hangs, SameLinks
    <3> QED
      BY <1>4, <1>7, <1>14, <2>1, <2>3, <3>4, <3>5 DEF Tracks, Tracked
  <2>5. CASE id = m.id
    <3>1. j = k
      BY <1>1, <1>2, <1>15, <2>5
    <3>2. Follows(m, w.conn, k, g, ps, R) /\ Stream(w.conn, k) = <<>>
      BY <1>1, <1>2, <1>3, <2>2, <2>5, <3>1 DEF Stream, Free
    <3>3. m.waiting = NoSocket /\ k # NoSocket
      BY <1>1, <1>2, <1>3, <3>2, NoKey DEF Follows, Free
    <3>4. w.conn[k].open
      BY <1>3, <2>2, <3>1 DEF Hangs
    <3>5. Coming(m, w.conn, k) = q
      BY <1>5, <3>2, ConcatEmptySeq DEF Coming
    <3>6. /\ a.id = m.id /\ a.connected = m.connected /\ a.log = m.log
      BY <1>4 DEF Takes
    <3>7. \A l \in 1..Len(ms) : out.members[l].id = id => out.members[l] = a
      BY <1>1, <1>2, <1>3, <1>4, <1>13, <2>5 DEF Distinct
    <3>8. /\ b[k].open /\ b[k].end = "accepted" /\ k \in DOMAIN b
          /\ b[k].req = w.conn[k].req
      BY <1>3, <1>8, <3>4 DEF SameLinks
    <3>9. CASE q # <<>>
      <4>1. PICK h \in Answer : h = Head(q) /\ b = Send(w.conn, k, h)
        BY <1>4, <1>5, <1>6, <1>7, <3>9 DEF Takes
      <4>2. b[k].resp = Append(<<>>, h)
        BY <1>3, <3>4, <4>1, SendDetails DEF Free
      <4>3. a.queue = Tail(q) /\ a.waiting = NoSocket
        BY <1>4, <1>5, <3>3, <3>9 DEF Takes
      <4>4. Append(<<>>, h) \o Tail(q) = q
        BY <3>9, <4>1, HeadThenTail
      <4>5. Coming(a, b, k) = q
        BY <3>8, <4>2, <4>3, <4>4 DEF Coming, Stream
      <4>6. Follows(a, b, k, g, ps, R)
        BY <3>2, <3>3, <3>5, <3>6, <4>3, <4>5 DEF Follows
      <4>7. Len(b[k].resp) = 1 /\ b[k].resp # <<>>
        BY <4>2, EmptySeq, AppendProperties
      <4>8. Hangs(out.members, b, id, k, NoSocket)
        BY <2>2, <2>5, <3>8, <4>7, <1>1, <1>2 DEF Hangs
      <4> QED
        BY <1>4, <1>7, <1>14, <2>1, <2>3, <3>1, <3>7, <4>6, <4>8 DEF Tracks, Tracked
    <3>10. CASE q = <<>>
      <4>1. b = w.conn /\ a.queue = <<>> /\ a.waiting = k
        BY <1>4, <1>5, <1>7, <3>10 DEF Takes
      <4>2. Coming(a, b, k) = q
        BY <1>5, <3>5, <3>10, <4>1 DEF Coming
      <4>3. Follows(a, b, k, g, ps, R)
        BY <3>2, <3>5, <3>6, <4>1, <4>2 DEF Follows
      <4>4. out.members[i] = a /\ i \in 1..Len(out.members)
        BY <1>1, <1>4
      <4>5. Hangs(out.members, b, id, k, NoSocket)
        BY <2>2, <2>5, <3>1, <3>6, <4>1, <4>4 DEF Hangs
      <4> QED
        BY <1>4, <1>7, <1>14, <2>1, <2>3, <3>1, <3>7, <4>3, <4>5 DEF Tracks, Tracked
    <3> QED
      BY <3>9, <3>10
  <2> QED
    BY <2>4, <2>5
<1>16. Serves(w, out, n, k)
  BY <1>15 DEF Serves
<1> QED
  BY <1>7, <1>9, <1>12, <1>16

(* The entries of the answer to a sign-in are the members, the new one     *)
(* first.                                                                  *)
Listing(all, new, ms) == all = <<Entry(new)>> \o [i \in DOMAIN ms |-> Entry(ms[i])]
Named(all) == {all[i][1] : i \in DOMAIN all}

LEMMA EntriesFacts ==
  ASSUME NEW ms \in Seq(Peer), NEW new \in Peer, NEW all, Listing(all, new, ms)
  PROVE  all \in Seq(Int \X BOOLEAN) /\ Named(all) = {new.id} \cup IdsOf(ms)
<1>1. PICK n \in Nat : n = Len(ms) /\ DOMAIN ms = 1..n
  BY MembersFacts
<1>2. PICK f : f = [i \in 1..n |-> Entry(ms[i])]
  OBVIOUS
<1>3. \A i \in 1..n : f[i] \in Int \X BOOLEAN /\ f[i][1] = ms[i].id
  BY <1>1, <1>2, MembersFacts DEF Entry
<1>4. f \in Seq(Int \X BOOLEAN) /\ Len(f) = n
  <2>1. f \in [1..n -> Int \X BOOLEAN]
    BY <1>2, <1>3
  <2>2. f \in Seq(Int \X BOOLEAN)
    BY <2>1, SeqDef
  <2>3. Len(f) = n
    BY <2>1, <2>2
  <2> QED
    BY <2>2, <2>3
<1>50. PICK e : e = Entry(new) /\ e \in Int \X BOOLEAN /\ e = <<new.id, new.connected>>
  <2>1. new.id \in Int /\ new.connected \in BOOLEAN
    BY PeerFields
  <2> QED
    BY <2>1 DEF Entry
<1>5. e = Entry(new) /\ e \in Int \X BOOLEAN /\ e[1] = new.id
  BY <1>50
<1>6. PICK one \in Seq(Int \X BOOLEAN) : one = <<e>> /\ Len(one) = 1 /\ one[1] = e
  BY <1>5, Single
<1>7. all = one \o f
  BY <1>1, <1>2, <1>5, <1>6 DEF Listing
<1>8. /\ all \in Seq(Int \X BOOLEAN) /\ Len(all) = n + 1
      /\ \A i \in 1..n + 1 : all[i] = IF i <= 1 THEN one[i] ELSE f[i - 1]
  <2>1. /\ all \in Seq(Int \X BOOLEAN) /\ Len(all) = Len(one) + Len(f)
        /\ \A i \in 1..Len(one) + Len(f) :
             all[i] = IF i <= Len(one) THEN one[i] ELSE f[i - Len(one)]
    BY <1>4, <1>7, ConcatProperties
  <2>2. Len(one) + Len(f) = n + 1
    BY <1>4, <1>6
  <2> QED
    BY <1>6, <2>1, <2>2
<1>9. DOMAIN all = 1..n + 1
  BY <1>8, LenProperties
<1>10. all[1][1] = new.id
  BY <1>5, <1>6, <1>8
<1>11. ASSUME NEW i \in 1..n PROVE i + 1 \in 1..n + 1 /\ all[i + 1][1] = ms[i].id
  <2>1. i + 1 \in 1..n + 1 /\ ~(i + 1 <= 1) /\ i + 1 - 1 = i
    OBVIOUS
  <2>2. all[i + 1] = f[i]
    BY <1>8, <2>1
  <2> QED
    BY <1>3, <2>1, <2>2
<1>12. IdsOf(ms) = {ms[i].id : i \in 1..n}
  BY <1>1 DEF IdsOf
<1>13. ASSUME NEW i \in 1..n + 1 PROVE all[i][1] \in {new.id} \cup IdsOf(ms)
  <2>1. CASE i = 1
    BY <1>10, <2>1
  <2>2. CASE i # 1
    <3>1. PICK j \in 1..n : i = j + 1
      <4>1. i - 1 \in 1..n /\ i = i - 1 + 1
        BY <2>2
      <4> QED
        BY <4>1
    <3> QED
      BY <1>11, <1>12, <3>1
  <2> QED
    BY <2>1, <2>2
<1>14. ASSUME NEW y \in {new.id} \cup IdsOf(ms) PROVE \E i \in 1..n + 1 : all[i][1] = y
  <2>1. CASE y = new.id
    BY <1>10, <2>1
  <2>2. CASE y # new.id
    <3>1. PICK j \in 1..n : y = ms[j].id
      BY <1>12, <1>14, <2>2
    <3> QED
      BY <1>11, <3>1
  <2> QED
    BY <2>1, <2>2
<1>15. Named(all) = {all[i][1] : i \in 1..n + 1}
  BY <1>9 DEF Named
<1>16. ASSUME NEW y \in Named(all) PROVE y \in {new.id} \cup IdsOf(ms)
  BY <1>13, <1>15, <1>16
<1>17. ASSUME NEW y \in {new.id} \cup IdsOf(ms) PROVE y \in Named(all)
  BY <1>14, <1>15, <1>17
<1>18. Named(all) = {new.id} \cup IdsOf(ms)
  BY <1>16, <1>17
<1> QED
  BY <1>8, <1>18

Extends(ms, new, l, out) ==
  Len(out) = l + 1 /\ out[l + 1] = new /\ \A i \in 1..l : out[i] = ms[i]

LEMMA AppendedFacts ==
  ASSUME NEW ms \in Seq(Peer), NEW new \in Peer, NEW l \in Nat, l = Len(ms), NEW out,
         out = Append(ms, new)
  PROVE  Extends(ms, new, l, out)
BY AppendProperties DEF Extends

LEMMA AppendedIds ==
  ASSUME NEW ms \in Seq(Peer), NEW new \in Peer
  PROVE  IdsOf(Append(ms, new)) = IdsOf(ms) \cup {new.id}
<1>0. PICK out : out = Append(ms, new)
  OBVIOUS
<1>l. PICK l \in Nat : l = Len(ms)
  BY MembersFacts
<1>1. Len(out) = l + 1 /\ out[l + 1] = new /\ \A i \in 1..l : out[i] = ms[i]
  BY <1>0, <1>l, AppendedFacts DEF Extends
<1>2. \A i \in 1..l + 1 : i \in 1..l \/ i = l + 1
  OBVIOUS
<1>3. IdsOf(out) = {out[i].id : i \in 1..l + 1} /\ IdsOf(ms) = {ms[i].id : i \in 1..l}
  BY <1>1, <1>l DEF IdsOf
<1>4. ASSUME NEW y \in IdsOf(out) PROVE y \in IdsOf(ms) \cup {new.id}
  <2>1. PICK i \in 1..l + 1 : y = out[i].id
    BY <1>3, <1>4
  <2> QED
    BY <1>1, <1>2, <1>3, <2>1
<1>5. ASSUME NEW y \in IdsOf(ms) PROVE y \in IdsOf(out)
  <2>1. PICK i \in 1..l : y = ms[i].id
    BY <1>3, <1>5
  <2>2. i \in 1..l + 1
    OBVIOUS
  <2> QED
    BY <1>1, <1>3, <2>1, <2>2
<1>6. l + 1 \in 1..l + 1
  OBVIOUS
<1>7. new.id \in IdsOf(out)
  BY <1>1, <1>3, <1>6
<1> QED
  BY <1>0, <1>4, <1>5, <1>7

(* No request of a member that is still to come. *)
Unborn(net, n) == \A j \in DOMAIN net : net[j].end # "syn" => net[j].req.peer_id <= n

LEMMA AddMemberServes ==
  ASSUME NEW w, NEW n \in Nat, NEW ks, Lively(w, n, ks), NEW k \in ks,
         w.conn[k].req.path = "/sign_in", Free(w, k), Unborn(w.conn, n),
         NEW out, out = AddMember(w, n + 1, k)
  PROVE  /\ Lively(out, n + 1, ks) /\ FedBut(w.conn, out.conn, k) /\ Serves(w, out, n, k)
         /\ w.conn[k].open => /\ Welcome(out, k, n + 1)
                              /\ out.conn[k].resp[1].pragma = n + 1
<1>1. PICK ms \in Seq(Peer) : ms = w.members
  BY DEF Lively, Channel
<1>2. PICK p \in Nat : p = n + 1
  OBVIOUS
<1>3. PICK new : new = ChannelMember(p)
  OBVIOUS
<1>4. /\ new \in Peer /\ new.id = p /\ new.waiting = NoSocket /\ new.connected = TRUE
      /\ new.queue = <<>> /\ new.log = <<>>
  BY <1>3 DEF ChannelMember, Peer
<1>5. PICK told : told = BroadcastChangedState(w, new)
  OBVIOUS
<1>60. new.id \in Int /\ new.connected \in BOOLEAN
  BY <1>4, PeerFields
<1>6. Absent(w.members, new.id)
  <2>1. \A i \in 1..Len(ms) : ms[i].id \in 1..n
    BY <1>1 DEF Lively, Channel
  <2> QED
    BY <1>1, <1>2, <1>4, <2>1 DEF Absent
<1>70. /\ Lively(told, n, ks) /\ Fed(w.conn, told.conn)
       /\ SameIds(w.members, told.members) /\ Announces(w, told, new)
  BY ONLY Lively(w, n, ks), <1>5, <1>6, <1>60, BroadcastLively
<1>7. /\ Lively(told, n, ks) /\ Fed(w.conn, told.conn)
      /\ SameIds(ms, told.members) /\ Announces(w, told, new)
  BY ONLY <1>1, <1>70
<1>8. PICK all : Listing(all, new, ms)
  BY DEF Listing
<1>9. all \in Seq(Int \X BOOLEAN) /\ Named(all) = {p} \cup IdsOf(ms)
  BY <1>4, <1>8, EntriesFacts
<1>10. PICK r : r = Response(200, p, all, "")
  OBVIOUS
<1>11. r \in Answer /\ r.status = 200 /\ r.pragma = p /\ r.entries = all
  <2>1. PICK x \in Text : x = ""
    BY DEF Text
  <2>3. PICK s \in Nat : s = 200
    OBVIOUS
  <2>4. all \in Seq(Int \X BOOLEAN) /\ p \in Int
    BY <1>9
  <2>5. Response(s, p, all, x) \in Answer
    BY ONLY s \in Nat, x \in Text, <2>4, ResponseFacts
  <2>2. r \in Answer
    BY ONLY <1>10, <2>1, <2>3, <2>5
  <2> QED
    BY <1>10, <2>2 DEF Response
<1>12. out.members = Append(told.members, new) /\ out.conn = Send(told.conn, k, r)
  BY <1>1, <1>2, <1>3, <1>5, <1>8, <1>10 DEF AddMember, Listing
<1>13. PICK v : v = [members |-> told.members, conn |-> Send(told.conn, k, r)]
  OBVIOUS
<1>14. /\ Lively(v, n, ks) /\ FedBut(told.conn, v.conn, k)
       /\ v.members = told.members /\ v.conn = Send(told.conn, k, r)
  BY <1>7, <1>11, <1>13, SendLively
<1>15. out.conn = v.conn /\ FedBut(w.conn, out.conn, k)
  BY <1>7, <1>12, <1>14, FedThenBut
<1>16. PICK l \in Nat : l = Len(v.members) /\ v.members \in Seq(Peer)
  BY <1>14, MembersFacts DEF Lively, Channel
<1>17. /\ Len(out.members) = l + 1 /\ out.members[l + 1] = new
       /\ \A i \in 1..l : out.members[i] = v.members[i]
  <2>1. PICK vs \in Seq(Peer) : vs = v.members /\ l = Len(vs)
    BY <1>16
  <2>2. PICK os : os = out.members /\ os = Append(vs, new)
    BY <1>12, <1>14, <2>1
  <2>3. new \in Peer
    BY <1>4
  <2>4. Extends(vs, new, l, os)
    BY ONLY vs \in Seq(Peer), l \in Nat, <2>1, <2>2, <2>3, AppendedFacts
  <2> QED
    BY <2>1, <2>2, <2>4 DEF Extends
<1>18. \A i \in 1..l + 1 : i \in 1..l \/ i = l + 1
  OBVIOUS
<1>19. Lively(out, n + 1, ks)
  <2>1. Channel(out, n + 1, ks)
    <3>1. Channel(w, n, ks) /\ k \in DOMAIN w.conn
      BY DEF Lively, Channel
    <3> QED
      BY <3>1, AddMemberFacts
  <2>2. Idle(out.members, out.conn)
    <3>1. \A i \in 1..l : v.members[i].waiting # NoSocket =>
                            v.conn[v.members[i].waiting].left = 0
      BY <1>14, <1>16 DEF Lively, Idle
    <3>2. ASSUME NEW i \in 1..l + 1, out.members[i].waiting # NoSocket
          PROVE  out.conn[out.members[i].waiting].left = 0
      <4>1. i \in 1..l
        BY <1>4, <1>17, <1>18, <3>2
      <4> QED
        BY <1>15, <1>17, <3>1, <3>2, <4>1
    <3> QED
      BY <1>17, <3>2 DEF Idle
  <2>3. \A j \in ks : out.conn[j].end = "accepted"
    BY <1>14, <1>15 DEF Lively
  <2> QED
    BY <2>1, <2>2, <2>3 DEF Lively
<1>20. IdsOf(out.members) = IdsOf(ms) \cup {p}
  <2>1. IdsOf(v.members) = IdsOf(ms)
    BY <1>7, <1>14 DEF IdsOf, SameIds
  <2>2. IdsOf(out.members) = IdsOf(v.members) \cup {new.id}
    <3>1. PICK vs \in Seq(Peer) : vs = v.members /\ l = Len(vs)
      BY <1>16
    <3>2. PICK os : os = out.members /\ os = Append(vs, new)
      BY <1>12, <1>14, <3>1
    <3>3. new \in Peer
      BY <1>4
    <3>4. IdsOf(os) = IdsOf(vs) \cup {new.id}
      BY ONLY vs \in Seq(Peer), <3>2, <3>3, AppendedIds
    <3> QED
      BY <3>1, <3>2, <3>4
  <2> QED
    BY <1>4, <2>1, <2>2
<1>21. Unasked(told, k)
  <2>1. k \in DOMAIN w.conn
    BY DEF Lively, Channel
  <2>2. told.conn[k].req.path = "/sign_in"
    BY <1>7, <2>1 DEF Fed, SameLinks
  <2> QED
    BY <2>2 DEF Unasked
<1>22. ASSUME NEW id \in 1..n, NEW j \in Key \cup {Closed}, NEW g \in Seq(Answer), NEW ps,
              Tracks(w, id, j, g, ps, k)
       PROVE  Tracks(out, id, j, g, ps, NoSocket)
  <2>1. PICK R : R = IdsOf(ms) \ {id}
    OBVIOUS
  <2>2. Tracked(w.members, w.conn, id, j, g, ps, R, k)
    BY <1>1, <1>22, <2>1 DEF Tracks
  <2>3. PICK Q : Q = R \cup {p}
    OBVIOUS
  <2>4. Tracked(told.members, told.conn, id, j, g, ps, Q, k)
    BY <1>4, <1>7, <2>2, <2>3 DEF Announces
  <2>5. Tracked(v.members, out.conn, id, j, g, ps, Q, NoSocket)
    <3>1. Lively(told, n, ks) /\ r \in Answer
      BY <1>7, <1>11
    <3>2. PICK b : b = out.conn /\ b = Send(told.conn, k, r)
      BY <1>12
    <3>3. Tracked(told.members, b, id, j, g, ps, Q, NoSocket)
      BY ONLY k \in ks, j \in Key \cup {Closed}, <1>21, <2>4, <3>1, <3>2, SendTracks
    <3> QED
      BY <1>14, <3>2, <3>3
  <2>6. id # p
    BY <1>2
  <2>7. Q = IdsOf(out.members) \ {id}
    BY <1>20, <2>1, <2>3, <2>6
  <2>8. /\ \A i \in 1..l : v.members[i].id = id => Follows(v.members[i], out.conn, j, g, ps, Q)
        /\ Hangs(v.members, out.conn, id, j, NoSocket) /\ Alone(out.conn, id, j)
    BY <1>16, <2>5 DEF Tracked
  <2>9. \A i \in 1..Len(out.members) :
          out.members[i].id = id => Follows(out.members[i], out.conn, j, g, ps, Q)
    BY <1>4, <1>17, <1>18, <2>6, <2>8
  <2>10. Hangs(out.members, out.conn, id, j, NoSocket)
    <3>1. ASSUME NEW i \in 1..l, v.members[i].id = id /\ v.members[i].waiting = j
          PROVE  \E h \in 1..Len(out.members) :
                   out.members[h].id = id /\ out.members[h].waiting = j
      <4>1. i \in 1..Len(out.members) /\ out.members[i] = v.members[i]
        BY <1>17
      <4> QED
        BY <3>1, <4>1
    <3> QED
      BY <1>16, <2>8, <3>1 DEF Hangs
  <2> QED
    BY <2>7, <2>8, <2>9, <2>10 DEF Tracks, Tracked
<1>23. Serves(w, out, n, k)
  BY <1>22 DEF Serves
<1>24. ASSUME w.conn[k].open
       PROVE  Welcome(out, k, n + 1) /\ out.conn[k].resp[1].pragma = n + 1
  <2>1. k \in DOMAIN w.conn /\ DOMAIN told.conn = DOMAIN w.conn /\ Net(told.conn)
    BY <1>7 DEF Lively, Channel, Fed, SameLinks
  <2>2. told.conn[k].open /\ told.conn[k].resp = <<>>
    <3>1. told.conn[k] = w.conn[k] \/ w.conn[k].req.path = "/wait"
      BY <1>7, <2>1 DEF Fed
    <3> QED
      BY <1>24, <3>1 DEF Free
  <2>3. out.conn[k].resp = Append(<<>>, r)
    BY <1>11, <1>12, <2>1, <2>2, SendDetails
  <2>4. Len(out.conn[k].resp) = 1 /\ out.conn[k].resp[1] = r
    <3>1. PICK e \in Seq(Answer) : e = <<>> /\ Len(e) = 0
      BY EmptySeq
    <3>2. PICK v2 : v2 = Append(e, r)
      OBVIOUS
    <3>3. Len(v2) = Len(e) + 1 /\ v2[Len(e) + 1] = r
      BY <1>11, <3>2, AppendProperties
    <3> QED
      BY <2>3, <3>1, <3>2, <3>3
  <2>5. PICK ps : ps = Ids(r) \ {p}
    OBVIOUS
  <2>6. ps = IdsOf(out.members) \ {p}
    BY <1>9, <1>11, <1>20, <2>5 DEF Ids, Named
  <2>7. Closed \notin DOMAIN out.conn /\ Closed # NoSocket
    <3>1. DOMAIN out.conn \subseteq Key
      BY <1>14, <1>15 DEF Lively, Channel, Net
    <3> QED
      BY <3>1, NoKey DEF Closed, NoSocket
  <2>8. ASSUME NEW i \in 1..Len(out.members), out.members[i].id = p
        PROVE  Follows(out.members[i], out.conn, Closed, <<>>, ps, IdsOf(out.members) \ {p})
    <3>1. i = l + 1
      <4>1. \A j \in 1..l : v.members[j].id \in 1..n
        BY <1>14, <1>16 DEF Lively, Channel
      <4> QED
        BY <1>2, <1>17, <1>18, <2>8, <4>1
    <3>2. out.members[i] = new
      BY <1>17, <3>1
    <3>3. PICK e \in Seq(Answer) : e = <<>> /\ e \o e = e
      BY EmptySeq, ConcatEmptySeq
    <3>4. Coming(new, out.conn, Closed) = e
      BY <1>4, <2>7, <3>3 DEF Coming, Stream
    <3>5. Applied(ps, e, p) = ps
      BY <3>3, AppliedEmpty
    <3> QED
      BY <1>4, <2>6, <2>7, <3>2, <3>3, <3>4, <3>5 DEF Follows
  <2>9. Hangs(out.members, out.conn, p, Closed, NoSocket)
    BY <2>7 DEF Hangs
  <2>10. Alone(out.conn, p, Closed)
    <3>1. ASSUME NEW j \in DOMAIN out.conn, Asks(out.conn[j], p) PROVE FALSE
      <4>1. j \in DOMAIN w.conn /\ w.conn[j].end # "syn" /\ w.conn[j].req.peer_id = p
        BY <1>15, <3>1 DEF FedBut, SameLinks, Asks
      <4>2. p <= n
        BY <4>1 DEF Unborn
      <4> QED
        BY <1>2, <4>2
    <3> QED
      BY <3>1 DEF Alone
  <2>11. Tracks(out, p, Closed, <<>>, ps, NoSocket)
    BY <2>8, <2>9, <2>10 DEF Tracks, Tracked
  <2>12. p \in 1..n + 1
    BY <1>2
  <2> QED
    BY <1>2, <1>11, <2>4, <2>5, <2>11, <2>12 DEF Welcome
<1> QED
  BY <1>15, <1>19, <1>23, <1>24

(* A message for somebody else is no notification. *)
LEMMA ForwardServes ==
  ASSUME NEW w, NEW n, NEW ks, Lively(w, n, ks), NEW k \in ks,
         w.conn[k].req.path = "/message", NEW from \in Int, NEW to,
         NEW out, out = ForwardRequestToPeer(w, from, to, k)
  PROVE  Lively(out, n, ks) /\ FedBut(w.conn, out.conn, k) /\ Serves(w, out, n, k)
<1>1. PICK ms \in Seq(Peer) : ms = w.members
  BY DEF Lively, Channel
<1>2. k \in DOMAIN w.conn /\ Net(w.conn)
  BY DEF Lively, Channel
<1>3. PICK r : r = Response(200, from, <<>>, w.conn[k].req.text)
  OBVIOUS
<1>4. r \in Answer /\ r.pragma = from
  <2>1. PICK x \in Text : x = w.conn[k].req.text
    BY <1>2, LinkFacts
  <2>2. PICK s \in Nat : s = 200
    OBVIOUS
  <2>3. PICK e \in Seq(Int \X BOOLEAN) : e = <<>>
    BY EmptySeq
  <2>4. Response(s, from, e, x) \in Answer
    BY ResponseFacts
  <2>5. r = Response(s, from, e, x)
    BY <1>3, <2>1, <2>2, <2>3
  <2> QED
    BY <2>4, <2>5 DEF Response
<1>5. CASE to = from
  <2>1. out = [members |-> w.members, conn |-> Send(w.conn, k, r)]
    BY <1>3, <1>5 DEF ForwardRequestToPeer
  <2>2. Unasked(w, k)
    BY DEF Unasked
  <2> QED
    BY ONLY Lively(w, n, ks), k \in ks, <1>4, <2>1, <2>2, SendServes
<1>6. CASE to # from
  <2>1. PICK at \in SUBSET DOMAIN w.members : at = {i \in DOMAIN w.members : w.members[i].id = to}
    OBVIOUS
  <2>2. PICK rs : rs = [i \in DOMAIN w.members |-> r]
    OBVIOUS
  <2>3. PICK q : q = QueueResponse(w, at, rs)
    OBVIOUS
  <2>4. PICK y \in Answer : y = Plain(200)
    BY PlainFacts
  <2>5. out = [members |-> q.members, conn |-> Send(q.conn, k, y)]
    BY <1>3, <1>6, <2>1, <2>2, <2>3, <2>4 DEF ForwardRequestToPeer
  <2>6. \A i \in DOMAIN w.members : rs[i] \in Answer /\ rs[i].pragma = from
    BY <1>4, <2>2
  <2>7. Lively(q, n, ks) /\ Fed(w.conn, q.conn)
    BY <2>3, <2>6, QueueFed
  <2>8. Told(w, at, q)
    BY <2>3, <2>6, QueueDetails
  <2>9. IdsOf(q.members) = IdsOf(ms)
    BY <1>1, <2>8 DEF Told, IdsOf
  <2>10. /\ Lively(out, n, ks) /\ FedBut(q.conn, out.conn, k)
         /\ out.members = q.members /\ out.conn = Send(q.conn, k, y)
    BY ONLY k \in ks, y \in Answer, <2>5, <2>7, SendLively
  <2>11. FedBut(w.conn, out.conn, k)
    BY <2>7, <2>10, FedThenBut
  <2>12. Unasked(q, k)
    <3>1. q.conn[k].req.path = "/message"
      BY <1>2, <2>7 DEF Fed, SameLinks
    <3> QED
      BY <3>1 DEF Unasked
  <2>13. ASSUME NEW id \in 1..n, NEW j \in Key \cup {Closed}, NEW g \in Seq(Answer), NEW ps,
                Tracks(w, id, j, g, ps, k)
         PROVE  Tracks(out, id, j, g, ps, NoSocket)
    <3>1. PICK R : R = IdsOf(ms) \ {id}
      OBVIOUS
    <3>2. Tracked(w.members, w.conn, id, j, g, ps, R, k)
      BY <1>1, <2>13, <3>1 DEF Tracks
    <3>3. Roster(w.members, id, at, rs, R, R)
      <4>1. ASSUME NEW i \in 1..Len(ms), ms[i].id = id, i \in at
            PROVE  Notified(R, rs[i], id) = R
        <5>1. id = to /\ rs[i].pragma = from
          BY <1>1, <2>1, <2>6, <4>1
        <5> QED
          BY <1>6, <5>1 DEF Notified
      <4> QED
        BY <1>1, <4>1 DEF Roster
    <3>4. Tracked(q.members, q.conn, id, j, g, ps, R, k)
      <4>1. \A i \in DOMAIN w.members : rs[i] \in Answer
        BY <2>6
      <4> QED
        BY ONLY Lively(w, n, ks), at \in SUBSET DOMAIN w.members, j \in Key \cup {Closed},
                g \in Seq(Answer), <2>3, <3>2, <3>3, <4>1, QueueTracks
    <3>5. Tracked(q.members, out.conn, id, j, g, ps, R, NoSocket)
      BY ONLY k \in ks, j \in Key \cup {Closed}, y \in Answer, <2>7, <2>10, <2>12, <3>4,
              SendTracks
    <3> QED
      BY <2>9, <2>10, <3>1, <3>5 DEF Tracks
  <2>14. Serves(w, out, n, k)
    BY <2>13 DEF Serves
  <2> QED
    BY <2>10, <2>11, <2>14
<1> QED
  BY <1>5, <1>6

(* The channel is closed: everybody who waits is told so, and no member is *)
(* left to follow.                                                         *)
LEMMA CloseAllCarries ==
  ASSUME NEW w, NEW n, NEW ks, Lively(w, n, ks), NEW out, out = CloseAll(w)
  PROVE  /\ Lively(out, n, ks) /\ Fed(w.conn, out.conn) /\ out.members = <<>>
         /\ Carries(w, out, n, NoSocket)
<1>1. PICK ms \in Seq(Peer) : ms = w.members
  BY DEF Lively, Channel
<1>2. PICK r : r = Response(200, -1, <<>>, "Server shutting down")
  OBVIOUS
<1>3. r \in Answer
  <2>1. PICK x \in Text : x = "Server shutting down"
    BY DEF Text
  <2>2. PICK s \in Nat : s = 200
    OBVIOUS
  <2>3. PICK e \in Seq(Int \X BOOLEAN) : e = <<>>
    BY EmptySeq
  <2>4. PICK p \in Int : p = -1
    OBVIOUS
  <2>5. Response(s, p, e, x) \in Answer
    BY ResponseFacts
  <2> QED
    BY <1>2, <2>1, <2>2, <2>3, <2>4, <2>5
<1>4. PICK at \in SUBSET DOMAIN w.members : at = DOMAIN w.members
  OBVIOUS
<1>5. PICK rs : rs = [i \in DOMAIN w.members |-> r]
  OBVIOUS
<1>6. PICK q : q = QueueResponse(w, at, rs)
  OBVIOUS
<1>7. \A i \in DOMAIN w.members : rs[i] \in Answer
  BY <1>3, <1>5
<1>8. out.members = <<>> /\ out.conn = q.conn
  BY <1>2, <1>4, <1>5, <1>6 DEF CloseAll
<1>9. Lively(q, n, ks) /\ Fed(w.conn, q.conn)
  BY <1>6, <1>7, QueueFed
<1>10. Told(w, at, q)
  BY <1>6, <1>7, QueueDetails
<1>11. \A i \in 1..Len(q.members) : q.members[i].waiting = NoSocket
  BY <1>1, <1>4, <1>10, MembersFacts DEF Told
<1>12. PICK none \in Seq(Peer) : none = out.members /\ Len(none) = 0
  BY <1>8, EmptySeq
<1>13. \A i \in 1..Len(none) : FALSE
  BY <1>12
<1>14. Lively(out, n, ks)
  <2>1. Channel(out, n, ks)
    BY <1>8, <1>9, <1>12, <1>13 DEF Lively, Channel
  <2>2. Idle(out.members, out.conn)
    BY <1>12, <1>13 DEF Idle
  <2> QED
    BY <1>8, <1>9, <2>1, <2>2 DEF Lively
<1>15. ASSUME NEW id \in 1..n, NEW j \in Key \cup {Closed}, NEW g \in Seq(Answer), NEW ps,
              Tracks(w, id, j, g, ps, NoSocket)
       PROVE  Tracks(out, id, j, g, ps, NoSocket)
  <2>1. PICK R : R = IdsOf(ms) \ {id}
    OBVIOUS
  <2>2. Tracked(w.members, w.conn, id, j, g, ps, R, NoSocket)
    BY <1>1, <1>15, <2>1 DEF Tracks
  <2>3. PICK Q : Q = Notified(R, r, id)
    OBVIOUS
  <2>4. Roster(w.members, id, at, rs, R, Q)
    BY <1>1, <1>4, <1>5, <2>3, MembersFacts DEF Roster
  <2>5. Tracked(q.members, q.conn, id, j, g, ps, Q, NoSocket)
    BY ONLY Lively(w, n, ks), at \in SUBSET DOMAIN w.members, j \in Key \cup {Closed},
            g \in Seq(Answer), <1>6, <1>7, <2>2, <2>4, QueueTracks
  <2>6. Hangs(q.members, q.conn, id, j, NoSocket) /\ Alone(q.conn, id, j)
    BY <2>5 DEF Tracked
  <2>7. j # NoSocket
    BY NoKey DEF Closed, NoSocket
  <2>8. Hangs(out.members, out.conn, id, j, NoSocket)
    BY <1>8, <1>11, <2>6, <2>7 DEF Hangs
  <2>9. \A P : \A i \in 1..Len(out.members) :
          out.members[i].id = id => Follows(out.members[i], out.conn, j, g, ps, P)
    BY <1>12, <1>13
  <2> QED
    BY <1>8, <2>6, <2>8, <2>9 DEF Tracks, Tracked
<1>16. Carries(w, out, n, NoSocket)
  BY <1>15 DEF Carries
<1> QED
  BY <1>8, <1>9, <1>14, <1>16

LEMMA SignOutServes ==
  ASSUME NEW w, NEW n, NEW ks, Lively(w, n, ks), NEW i \in 1..Len(w.members), NEW k \in ks,
         w.conn[k].req.path = "/sign_out", w.conn[k].req.peer_id = w.members[i].id,
         NEW r \in Answer, NEW out,
         out = [members |-> [w.members EXCEPT ![i] =
                               [w.members[i] EXCEPT !.connected = FALSE]],
                conn    |-> Send(w.conn, k, r)]
  PROVE  Lively(out, n, ks) /\ FedBut(w.conn, out.conn, k) /\ Serves(w, out, n, k)
<1>1. PICK ms \in Seq(Peer) : ms = w.members
  BY DEF Lively, Channel
<1>2. PICK m \in Peer : m = ms[i]
  BY <1>1, MembersFacts
<1>3. PICK a : a = [m EXCEPT !.connected = FALSE]
  OBVIOUS
<1>4. a \in Peer /\ a.id = m.id /\ a.waiting = m.waiting
  BY <1>3 DEF Peer
<1>5. PICK vs : vs = [ms EXCEPT ![i] = a]
  OBVIOUS
<1>6. Len(vs) = Len(ms) /\ \A j \in 1..Len(ms) : vs[j] = IF j = i THEN a ELSE ms[j]
  BY <1>1, <1>4, <1>5, ExceptSeq
<1>7. PICK v : v = [members |-> vs, conn |-> w.conn]
  OBVIOUS
<1>8. /\ k \in DOMAIN w.conn /\ Net(w.conn) /\ Channel(w, n, ks)
      /\ w.conn[k].end = "accepted"
  BY DEF Lively, Channel
<1>9. v.members = vs /\ v.conn = w.conn
  BY <1>7
<1>10. Lively(v, n, ks)
  <2>1. Channel(v, n, ks)
    <3>1. WaitsOn(a, w.conn, ks)
      <4>1. WaitsOn(m, w.conn, ks)
        BY <1>1, <1>2, <1>8 DEF Channel
      <4> QED
        BY <1>4, <4>1 DEF WaitsOn
    <3> QED
      BY <1>1, <1>2, <1>4, <1>5, <1>7, <1>8, <3>1, ReplaceMember, SameLinksReflexive
  <2>2. Idle(vs, w.conn)
    <3>1. \A j \in 1..Len(ms) : ms[j].waiting # NoSocket => w.conn[ms[j].waiting].left = 0
      BY <1>1 DEF Lively, Idle
    <3>2. \A j \in 1..Len(ms) : vs[j].waiting = ms[j].waiting
      BY <1>2, <1>4, <1>6
    <3> QED
      BY <1>6, <3>1, <3>2 DEF Idle
  <2> QED
    BY <1>9, <2>1, <2>2 DEF Lively
<1>11. out = [members |-> v.members, conn |-> Send(v.conn, k, r)]
  BY <1>1, <1>2, <1>3, <1>5, <1>9
<1>12. /\ Lively(out, n, ks) /\ FedBut(v.conn, out.conn, k)
       /\ out.members = v.members /\ out.conn = Send(v.conn, k, r)
  BY ONLY k \in ks, r \in Answer, <1>10, <1>11, SendLively
<1>13. \A j \in 1..Len(ms) : vs[j].id = ms[j].id
  BY <1>2, <1>4, <1>6
<1>14. IdsOf(vs) = IdsOf(ms)
  BY <1>6, <1>13 DEF IdsOf
<1>15. Unasked(v, k)
  BY <1>9 DEF Unasked
<1>16. ASSUME NEW id \in 1..n, NEW j \in Key \cup {Closed}, NEW g \in Seq(Answer), NEW ps,
              Tracks(w, id, j, g, ps, k), m.id = id => j = k
       PROVE  Tracks(out, id, j, g, ps, NoSocket)
  <2>1. PICK R : R = IdsOf(ms) \ {id}
    OBVIOUS
  <2>2. /\ \A l \in 1..Len(ms) : ms[l].id = id => Follows(ms[l], w.conn, j, g, ps, R)
        /\ Hangs(ms, w.conn, id, j, k) /\ Alone(w.conn, id, j)
    BY <1>1, <1>16, <2>1 DEF Tracks, Tracked
  <2>3. m.id # id
    <3>1. j # k
      BY <1>8, <2>2 DEF Hangs
    <3> QED
      BY <1>16, <3>1
  <2>4. \A l \in 1..Len(ms) : ms[l].id = id \/ vs[l].id = id => vs[l] = ms[l]
    BY <1>2, <1>4, <1>6, <2>3
  <2>5. \A l \in 1..Len(vs) : vs[l].id = id => Follows(vs[l], w.conn, j, g, ps, R)
    BY <1>6, <1>13, <2>2, <2>4
  <2>6. Hangs(vs, w.conn, id, j, k)
    BY <1>6, <2>2, <2>4 DEF Hangs
  <2>7. Tracked(v.members, v.conn, id, j, g, ps, R, k)
    BY <1>9, <2>2, <2>5, <2>6 DEF Tracked
  <2>8. Tracked(v.members, out.conn, id, j, g, ps, R, NoSocket)
    BY ONLY k \in ks, j \in Key \cup {Closed}, r \in Answer, <1>10, <1>12, <1>15, <2>7,
            SendTracks
  <2> QED
    BY <1>9, <1>12, <1>14, <2>1, <2>8 DEF Tracks
<1>17. Serves(w, out, n, k)
  BY <1>1, <1>2, <1>16 DEF Serves
<1> QED
  BY <1>9, <1>12, <1>17

-----------------------------------------------------------------------------
(* The steps of the server inside a pass *)

LEMMA TidyLively ==
  ASSUME NEW s, Tidy(s)
  PROVE  Lively(s, s.id, Range(s.sockets)) /\ s.id \in Nat
<1>1. \A k \in Range(s.sockets) : s.conn[k].end = "accepted"
  BY HeldRange DEF Tidy, Serving
<1> QED
  BY <1>1 DEF Tidy, Serving, Lively, IsServer

LEMMA PairFacts ==
  ASSUME NEW s PROVE Pair(s).members = s.members /\ Pair(s).conn = s.conn
BY DEF Pair

(* Only the members and the connections matter to the channel. *)
SamePair(a, b) == a.members = b.members /\ a.conn = b.conn

LEMMA SamePairLively ==
  ASSUME NEW a, NEW b, SamePair(a, b), NEW n, NEW ks, Lively(a, n, ks)
  PROVE  Lively(b, n, ks)
BY DEF SamePair, Lively, Channel

LEMMA SamePairTracks ==
  ASSUME NEW a, NEW b, SamePair(a, b), NEW id, NEW k, NEW g, NEW ps, NEW x,
         Tracks(a, id, k, g, ps, x)
  PROVE  Tracks(b, id, k, g, ps, x)
BY DEF SamePair, Tracks

LEMMA SamePairCarries ==
  ASSUME NEW a, NEW b, SamePair(a, b), NEW n, NEW x
  PROVE  Carries(a, b, n, x)
BY SamePairTracks DEF Carries

LEMMA SamePairServes ==
  ASSUME NEW a, NEW b, NEW c, NEW d, SamePair(a, b), SamePair(c, d), NEW n, NEW k,
         Serves(a, c, n, k)
  PROVE  Serves(b, d, n, k)
BY DEF SamePair, Tracks, Serves

(* The connections as the clients see them go on: none is new, and only    *)
(* the server's ends of the complete ones change.                          *)
Continues(a, b) ==
  \A j \in DOMAIN b :
    /\ j \in DOMAIN a /\ b[j].open = a[j].open /\ b[j].req = a[j].req
    /\ b[j].end = "syn" <=> a[j].end = "syn"

(* The answers to sign-ins that are not read are those of before and one   *)
(* with a new id.                                                          *)
Kept(a, b, j) == Pending(a, j) /\ b[j].resp = a[j].resp
News(a, b, n) ==
  \A j \in DOMAIN b : Pending(b, j) => Kept(a, b, j) \/ b[j].resp[1].pragma \notin 1..n

Step(s, t) ==
  /\ s.id \in Nat /\ t.id \in Nat /\ s.id <= t.id
  /\ Carries(s, t, s.id, NoSocket)
  /\ Continues(s.conn, t.conn) /\ News(s.conn, t.conn, s.id)

LEMMA StepReflexive ==
  ASSUME NEW s, s.id \in Nat PROVE Step(s, s)
<1>1. News(s.conn, s.conn, s.id)
  BY DEF News, Kept
<1>2. s.id <= s.id
  OBVIOUS
<1> QED
  BY <1>1, <1>2, CarriesReflexive DEF Step, Continues

LEMMA StepTransitive ==
  ASSUME NEW a, NEW b, NEW c, Step(a, b), Step(b, c)
  PROVE  Step(a, c)
<1>1. a.id \in Nat /\ b.id \in Nat /\ c.id \in Nat /\ a.id <= b.id /\ b.id <= c.id
  BY DEF Step
<1>2. a.id <= c.id /\ \A i \in 1..a.id : i \in 1..b.id
  BY <1>1
<1>3. Carries(a, c, a.id, NoSocket)
  <2>1. Carries(a, b, a.id, NoSocket) /\ Carries(b, c, b.id, NoSocket)
    BY DEF Step
  <2>2. Carries(b, c, a.id, NoSocket)
    BY <1>2, <2>1 DEF Carries
  <2> QED
    BY <2>1, <2>2, CarriesTransitive
<1>4. Continues(a.conn, c.conn)
  BY DEF Step, Continues
<1>5. News(a.conn, c.conn, a.id)
  <2>1. ASSUME NEW j \in DOMAIN c.conn, Pending(c.conn, j), c.conn[j].resp[1].pragma \in 1..a.id
        PROVE  Kept(a.conn, c.conn, j)
    <3>1. PICK q : q = c.conn[j].resp[1].pragma
      OBVIOUS
    <3>2. Kept(b.conn, c.conn, j) \/ q \notin 1..b.id
      BY <2>1, <3>1 DEF Step, News
    <3>3. CASE q \notin 1..b.id
      BY <1>1, <2>1, <3>1, <3>3
    <3>4. CASE Kept(b.conn, c.conn, j)
      <4>1. Pending(b.conn, j) /\ c.conn[j].resp = b.conn[j].resp /\ j \in DOMAIN b.conn
        BY <3>4 DEF Kept, Pending
      <4>2. Kept(a.conn, b.conn, j) \/ q \notin 1..a.id
        BY <3>1, <4>1 DEF Step, News
      <4> QED
        BY <2>1, <3>1, <4>1, <4>2 DEF Kept
    <3> QED
      BY <3>2, <3>3, <3>4
  <2> QED
    BY <2>1 DEF News
<1> QED
  BY <1>1, <1>2, <1>3, <1>4, <1>5 DEF Step

(* At most one new client is welcomed, on k. *)
Greets(s, t, k) ==
  \A j \in DOMAIN t.conn : Pending(t.conn, j) =>
    \/ Kept(s.conn, t.conn, j)
    \/ j = k /\ Welcome(t, j, t.id) /\ t.conn[j].resp[1].pragma \notin 1..s.id

LEMMA WelcomesStay ==
  ASSUME NEW s, NEW t, s.id \in Nat, t.id \in Nat, s.id <= t.id, Welcomes(s, s.id),
         Carries(s, t, s.id, NoSocket), NEW k, Greets(s, t, k)
  PROVE  Welcomes(t, t.id) /\ News(s.conn, t.conn, s.id)
<1>1. ASSUME NEW j \in DOMAIN t.conn, Kept(s.conn, t.conn, j)
      PROVE  Welcome(t, j, t.id) /\ t.conn[j].resp[1].pragma \in 1..s.id
  <2>1. /\ Pending(s.conn, j) /\ j \in DOMAIN s.conn /\ t.conn[j].resp = s.conn[j].resp
    BY <1>1 DEF Kept, Pending
  <2>2. Welcome(s, j, s.id)
    BY <2>1 DEF Welcomes
  <2>3. PICK r : r = s.conn[j].resp[1]
    OBVIOUS
  <2>4. /\ Len(s.conn[j].resp) = 1 /\ r.status = 200 /\ r.pragma \in 1..s.id
        /\ Tracks(s, r.pragma, Closed, <<>>, Ids(r) \ {r.pragma}, NoSocket)
    BY <2>2, <2>3 DEF Welcome
  <2>5. PICK p \in 1..s.id : p = r.pragma
    BY <2>4
  <2>6. PICK ps : ps = Ids(r) \ {p}
    OBVIOUS
  <2>7. PICK e \in Seq(Answer) : e = <<>>
    BY EmptySeq
  <2>8. Tracks(s, p, Closed, e, ps, NoSocket)
    BY <2>4, <2>5, <2>6, <2>7
  <2>9. Tracks(t, p, Closed, e, ps, NoSocket)
    BY <2>8 DEF Carries
  <2>10. p \in 1..t.id
    BY <2>5
  <2> QED
    BY <2>1, <2>3, <2>4, <2>5, <2>6, <2>7, <2>9, <2>10 DEF Welcome
<1>2. ASSUME NEW j \in DOMAIN t.conn, Pending(t.conn, j) PROVE Welcome(t, j, t.id)
  BY <1>1, <1>2 DEF Greets
<1>3. ASSUME NEW i \in DOMAIN t.conn, NEW j \in DOMAIN t.conn, Pending(t.conn, i),
             Pending(t.conn, j), t.conn[i].resp[1].pragma = t.conn[j].resp[1].pragma
      PROVE  i = j
  <2>1. CASE Kept(s.conn, t.conn, i) /\ Kept(s.conn, t.conn, j)
    <3>1. /\ Pending(s.conn, i) /\ i \in DOMAIN s.conn /\ t.conn[i].resp = s.conn[i].resp
          /\ Pending(s.conn, j) /\ j \in DOMAIN s.conn /\ t.conn[j].resp = s.conn[j].resp
      BY <2>1 DEF Kept, Pending
    <3> QED
      BY <1>3, <3>1 DEF Welcomes
  <2>2. CASE Kept(s.conn, t.conn, i) /\ ~Kept(s.conn, t.conn, j)
    <3>1. t.conn[i].resp[1].pragma \in 1..s.id
      BY <1>1, <2>2
    <3>2. t.conn[j].resp[1].pragma \notin 1..s.id
      BY <1>3, <2>2 DEF Greets
    <3> QED
      BY <1>3, <3>1, <3>2
  <2>3. CASE ~Kept(s.conn, t.conn, i) /\ Kept(s.conn, t.conn, j)
    <3>1. t.conn[j].resp[1].pragma \in 1..s.id
      BY <1>1, <2>3
    <3>2. t.conn[i].resp[1].pragma \notin 1..s.id
      BY <1>3, <2>3 DEF Greets
    <3> QED
      BY <1>3, <3>1, <3>2
  <2>4. CASE ~Kept(s.conn, t.conn, i) /\ ~Kept(s.conn, t.conn, j)
    BY <1>3, <2>4 DEF Greets
  <2> QED
    BY <2>1, <2>2, <2>3, <2>4
<1>4. Welcomes(t, t.id)
  BY <1>2, <1>3 DEF Welcomes
<1>5. News(s.conn, t.conn, s.id)
  BY DEF Greets, News
<1> QED
  BY <1>4, <1>5, SMTT(30)

(* Nothing new for the links: responses only on accepted sockets that were *)
(* read.                                                                   *)
LEMMA LinksStay ==
  ASSUME NEW a, NEW b, NEW k, FedBut(a, b, k), NEW n \in Nat, NEW m \in Nat, n <= m,
         Net(a), Links(a, n), k \in DOMAIN a => a[k].end = "accepted" /\ a[k].left = 0
  PROVE  Links(b, m)
<1>1. ASSUME NEW j \in DOMAIN b PROVE LinkIsTidy(b[j], m)
  <2>1. j \in DOMAIN a
    BY DEF FedBut, SameLinks
  <2>2. LinkIsTidy(a[j], n) /\ a[j].req.peer_id \in Int
    BY <2>1, LinkFacts DEF Links
  <2>3. b[j].end = a[j].end /\ b[j].req = a[j].req /\ b[j].left = a[j].left
    BY <2>1 DEF FedBut, SameLinks
  <2>4. a[j].end # "syn" => a[j].req.peer_id <= m
    <3>1. PICK p \in Int : p = a[j].req.peer_id
      BY <2>2
    <3>2. p <= n => p <= m
      BY <3>1
    <3> QED
      BY <2>2, <3>1, <3>2 DEF LinkIsTidy
  <2>5. CASE b[j] = a[j]
    BY <2>2, <2>3, <2>4, <2>5 DEF LinkIsTidy
  <2>6. CASE a[j].end = "accepted" /\ a[j].left = 0
    <3>1. ~(a[j].left > 0)
      BY <2>6
    <3> QED
      BY <2>2, <2>3, <2>4, <2>6, <3>1 DEF LinkIsTidy
  <2> QED
    BY <2>1, <2>5, <2>6 DEF FedBut
<1> QED
  BY <1>1 DEF Links

LEMMA SameLinksContinue ==
  ASSUME NEW a, NEW b, SameLinks(a, b) PROVE Continues(a, b)
BY DEF SameLinks, Continues

LEMMA CompleteStays ==
  ASSUME NEW a, NEW b, SameLinks(a, b), NEW ks, Complete(a, ks) PROVE Complete(b, ks)
BY DEF SameLinks, Complete

(* A response on a hanging get is no answer to a sign-in. *)
LEMMA FedKeeps ==
  ASSUME NEW a, NEW b, NEW k, FedBut(a, b, k), NEW j \in DOMAIN b, Pending(b, j), j # k
  PROVE  Kept(a, b, j)
<1>1. j \in DOMAIN a /\ b[j].req = a[j].req /\ b[j].open = a[j].open
  BY DEF FedBut, SameLinks
<1>2. b[j] = a[j]
  BY <1>1 DEF FedBut, Pending
<1> QED
  BY <1>1, <1>2 DEF Kept, Pending

(* The channel has changed, and nothing but hanging gets was answered. *)
LEMMA TidyWith ==
  ASSUME NEW s, Tidy(s), NEW w, Lively(w, s.id, Range(s.sockets)), Fed(s.conn, w.conn),
         Carries(s, w, s.id, NoSocket), NEW t, t = With(s, w)
  PROVE  Tidy(t) /\ Step(s, t)
<1>1. /\ t.members = w.members /\ t.conn = w.conn /\ t.id = s.id /\ s.id \in Nat
      /\ t.sockets = s.sockets
  <2>1. IsServer(s) /\ s.id \in Nat
    BY DEF Tidy, Serving, IsServer
  <2> QED
    BY <2>1, WithFacts
<1>2. SameLinks(s.conn, t.conn) /\ Fed(s.conn, t.conn)
  BY <1>1 DEF Fed
<1>3. Serving(t)
  <2>1. Serving(s) /\ Channel(w, s.id, Range(s.sockets)) /\ SameLinks(s.conn, w.conn)
    BY <1>1, <1>2 DEF Tidy, Lively
  <2> QED
    BY ONLY <2>1, t = With(s, w), ServingWith
<1>4. Carries(s, t, s.id, NoSocket)
  <2>1. Carries(w, t, s.id, NoSocket)
    BY <1>1, SamePairCarries DEF SamePair
  <2> QED
    BY <2>1, CarriesTransitive
<1>5. s.id <= t.id
  BY <1>1
<1>6. PICK k : k = NoSocket
  OBVIOUS
<1>7. FedBut(s.conn, t.conn, k) /\ Net(s.conn) /\ k \notin DOMAIN s.conn
  <2>1. DOMAIN s.conn \subseteq Key /\ Net(s.conn)
    BY DEF Tidy, Serving, Channel, Net
  <2> QED
    BY <1>2, <1>6, <2>1, FedIsFedBut, NoKey
<1>8. Links(t.conn, t.id)
  BY <1>1, <1>5, <1>7, LinksStay DEF Tidy
<1>9. Greets(s, t, k)
  <2>1. DOMAIN t.conn = DOMAIN s.conn
    BY <1>2 DEF SameLinks
  <2> QED
    BY <1>7, <2>1, FedKeeps DEF Greets
<1>10. Welcomes(t, t.id) /\ News(s.conn, t.conn, s.id)
  BY <1>1, <1>4, <1>5, <1>9, WelcomesStay DEF Tidy
<1>11. Idle(t.members, t.conn)
  BY <1>1 DEF Lively
<1>12. Complete(t.conn, Range(t.sockets))
  BY <1>1, <1>2, CompleteStays DEF Tidy
<1>13. Continues(s.conn, t.conn)
  BY <1>2, SameLinksContinue
<1> QED
  BY <1>1, <1>3, <1>4, <1>5, <1>8, <1>10, <1>11, <1>12, <1>13 DEF Tidy, Step

(* A segment, or all that is left, of the request on k is received. *)
HasRead(s, got, k, some) ==
  /\ SameLinks(s.conn, got.conn) /\ got.members = s.members /\ got.id = s.id
  /\ got.sockets = s.sockets
  /\ \A j \in DOMAIN s.conn : j # k => got.conn[j] = s.conn[j]
  /\ s.conn[k].resp = <<>> /\ got.conn[k].resp = <<>>
  /\ s.conn[k].left \in Nat /\ s.conn[k].left > 0
  /\ got.conn[k].left = IF some THEN s.conn[k].left - 1 ELSE 0
  /\ \A i \in 1..Len(s.members) : s.members[i].waiting # k

LEMMA ReadFacts ==
  ASSUME NEW s, Tidy(s), NEW k \in Range(s.sockets), s.conn[k].left # 0, NEW some \in BOOLEAN,
         NEW got, got = [s EXCEPT !.conn = [s.conn EXCEPT ![k] = Received(s.conn[k], some)]]
  PROVE  HasRead(s, got, k, some) /\ Serving(got)
<1>1. /\ Serving(s) /\ k \in DOMAIN s.conn /\ k \in Key /\ Net(s.conn)
      /\ LinkIsTidy(s.conn[k], s.id) /\ IsServer(s)
  <2>1. Serving(s) /\ IsServer(s) /\ Net(s.conn)
    BY DEF Tidy, Serving, Channel
  <2>2. k \in DOMAIN s.conn /\ k \in Key
    BY <2>1, HeldRange DEF Serving
  <2> QED
    BY <2>1, <2>2 DEF Tidy, Links
<1>2. PICK x : x = s.conn[k] /\ IsLink(x)
  BY <1>1 DEF Net
<1>3. x.left \in Nat /\ x.left > 0 /\ x.resp = <<>>
  <2>1. x.left \in Nat /\ x.left # 0
    BY <1>1, <1>2 DEF LinkIsTidy
  <2>2. x.left > 0
    BY <2>1
  <2> QED
    BY <1>1, <1>2, <2>1, <2>2 DEF LinkIsTidy
<1>4. PICK l \in Int : l = IF some THEN x.left - 1 ELSE 0
  BY <1>3
<1>5. PICK y : y = Received(x, some)
  OBVIOUS
<1>6. y = [x EXCEPT !.left = l]
  BY <1>4, <1>5 DEF Received
<1>7. /\ IsLink(y) /\ y.open = x.open /\ y.end = x.end /\ y.req = x.req
      /\ y.resp = x.resp /\ y.left = l
  BY <1>2, <1>6 DEF IsLink
<1>8. PICK net : net = [s.conn EXCEPT ![k] = y]
  OBVIOUS
<1>9. /\ DOMAIN net = DOMAIN s.conn
      /\ \A j \in DOMAIN net : net[j] = IF j = k THEN y ELSE s.conn[j]
      /\ net = [j \in DOMAIN net |-> net[j]]
  BY <1>8
<1>10. Net(net) /\ SameLinks(s.conn, net)
  BY <1>1, <1>2, <1>7, <1>9 DEF Net, SameLinks
<1>11. got = [s EXCEPT !.conn = net]
  BY <1>2, <1>5, <1>8
<1>12. /\ IsServer(got) /\ got.members = s.members /\ got.conn = net /\ got.id = s.id
       /\ got.sockets = s.sockets /\ got.backlog = s.backlog
  BY <1>1, <1>11 DEF IsServer
<1>13. Serving(got)
  <2>1. Held(got.sockets, net, "accepted") /\ Held(got.backlog, net, "backlog")
    BY <1>1, <1>10, <1>12, HeldSame DEF Serving
  <2>2. Channel(got, got.id, Range(got.sockets))
    BY <1>1, <1>10, <1>12 DEF Serving, Channel, SameLinks, WaitsOn
  <2> QED
    BY <1>12, <2>1, <2>2 DEF Serving
<1>14. ASSUME NEW i \in 1..Len(s.members), s.members[i].waiting = k PROVE FALSE
  <2>1. k # NoSocket
    BY <1>1, NoKey
  <2>2. x.left = 0
    BY <1>2, <1>14, <2>1 DEF Tidy, Idle
  <2> QED
    BY <1>3, <2>2
<1>15. HasRead(s, got, k, some)
  BY <1>1, <1>2, <1>3, <1>4, <1>7, <1>9, <1>10, <1>12, <1>14 DEF HasRead
<1> QED
  BY <1>13, <1>15

LEMMA ReadLively ==
  ASSUME NEW s, Tidy(s), NEW got, NEW k \in Range(s.sockets), NEW some \in BOOLEAN,
         HasRead(s, got, k, some), Serving(got)
  PROVE  Lively(got, s.id, Range(s.sockets)) /\ Links(got.conn, s.id)
<1>1. /\ k \in DOMAIN s.conn /\ s.conn[k].end = "accepted"
      /\ \A j \in Range(s.sockets) : j \in DOMAIN s.conn /\ s.conn[j].end = "accepted"
  BY HeldRange DEF Tidy, Serving
<1>2. Channel(got, s.id, Range(s.sockets))
  BY DEF Serving, HasRead
<1>3. Idle(got.members, got.conn)
  <2>1. ASSUME NEW i \in 1..Len(s.members), s.members[i].waiting # NoSocket
        PROVE  got.conn[s.members[i].waiting].left = 0
    <3>1. PICK j : j = s.members[i].waiting
      OBVIOUS
    <3>2. j # k /\ s.conn[j].left = 0
      BY <2>1, <3>1 DEF HasRead, Tidy, Idle
    <3>3. j \in Range(s.sockets)
      BY <2>1, <3>1 DEF Tidy, Serving, Channel, WaitsOn
    <3> QED
      BY <1>1, <3>1, <3>2, <3>3 DEF HasRead
  <2> QED
    BY <2>1 DEF Idle, HasRead
<1>4. \A j \in Range(s.sockets) : got.conn[j].end = "accepted"
  BY <1>1 DEF HasRead, SameLinks
<1>5. ASSUME NEW j \in DOMAIN got.conn PROVE LinkIsTidy(got.conn[j], s.id)
  <2>1. j \in DOMAIN s.conn /\ LinkIsTidy(s.conn[j], s.id)
    BY DEF HasRead, SameLinks, Tidy, Links
  <2>2. CASE j # k
    BY <2>1, <2>2 DEF HasRead
  <2>3. CASE j = k
    <3>1. PICK a \in Nat : a = s.conn[k].left /\ a > 0
      BY DEF HasRead
    <3>2. PICK b : b = got.conn[k].left
      OBVIOUS
    <3>3. b = IF some THEN a - 1 ELSE 0
      BY <3>1, <3>2 DEF HasRead
    <3>4. b \in Nat /\ b <= a
      BY <3>1, <3>3
    <3>5. a <= 1 => b <= 1
      BY <3>1, <3>4
    <3>6. got.conn[k].req = s.conn[k].req /\ got.conn[k].end = "accepted"
      BY <1>1 DEF HasRead, SameLinks
    <3>7. got.conn[k].resp = <<>> 
      BY DEF HasRead
    <3>8. s.conn[k].req.peer_id <= s.id
      BY <1>1, <2>1, <2>3 DEF LinkIsTidy
    <3>9. s.conn[k].req.path = "/wait" => a <= 1
      BY <2>1, <2>3, <3>1 DEF LinkIsTidy
    <3> QED
      BY <2>3, <3>2, <3>4, <3>5, <3>6, <3>7, <3>8, <3>9 DEF LinkIsTidy
  <2> QED
    BY <2>2, <2>3
<1> QED
  BY <1>2, <1>3, <1>4, <1>5 DEF Lively, Links

(* Whoever is tracked still is when the request on k has been received,    *)
(* but for the answer to k itself; and if k asks for the member, k is its  *)
(* hanging get.                                                            *)
IfAsked(net, k, id, j) ==
  net[k].req.path \in {"/wait", "/sign_out"} /\ net[k].req.peer_id = id => j = k

LEMMA ReadTracks ==
  ASSUME NEW s, Tidy(s), NEW got, NEW k \in Range(s.sockets), NEW some,
         HasRead(s, got, k, some),
         NEW id, NEW j \in Key \cup {Closed}, NEW g, NEW ps,
         Tracks(s, id, j, g, ps, NoSocket)
  PROVE  /\ Tracks(got, id, j, g, ps, k) /\ IfAsked(got.conn, k, id, j)
         /\ s.conn[k].req.path # "/wait" => Tracks(got, id, j, g, ps, NoSocket)
<1>1. /\ k \in DOMAIN s.conn /\ s.conn[k].end = "accepted"
  BY HeldRange DEF Tidy, Serving
<1>2. PICK ms : ms = s.members /\ ms = got.members
  BY DEF HasRead
<1>3. PICK R : R = IdsOf(ms) \ {id}
  OBVIOUS
<1>4. /\ \A l \in 1..Len(ms) : ms[l].id = id => Follows(ms[l], s.conn, j, g, ps, R)
      /\ Hangs(ms, s.conn, id, j, NoSocket) /\ Alone(s.conn, id, j)
  BY <1>2, <1>3 DEF Tracks, Tracked
<1>5. PICK net : net = got.conn
  OBVIOUS
<1>6. /\ SameLinks(s.conn, net) /\ \A i \in DOMAIN s.conn : i # k => net[i] = s.conn[i]
      /\ s.conn[k].resp = <<>> /\ net[k].resp = <<>>
  BY <1>5 DEF HasRead
<1>7. s.conn[k].left > 0
  BY DEF HasRead
<1>8. /\ net[k].req = s.conn[k].req /\ net[k].end = "accepted" /\ DOMAIN net = DOMAIN s.conn
      /\ net[k].open = s.conn[k].open
  BY <1>1, <1>6 DEF SameLinks
<1>9. s.conn[k].req.path \in {"/wait", "/sign_out"} /\ s.conn[k].req.peer_id = id => j = k
  BY <1>1, <1>4, <1>7 DEF Alone, Asks
<1>10. Stream(net, j) = Stream(s.conn, j)
  <2>1. CASE j = k
    BY <1>6, <1>8, <2>1 DEF Stream
  <2>2. CASE j # k
    BY <1>6, <1>8, <2>2 DEF Stream
  <2> QED
    BY <2>1, <2>2
<1>11. \A l \in 1..Len(ms) : ms[l].id = id => Follows(ms[l], net, j, g, ps, R)
  BY <1>4, <1>10 DEF Follows, Coming
<1>12. Alone(net, id, j)
  <2>1. ASSUME NEW i \in DOMAIN net, Asks(net[i], id) PROVE i = j
    <3>1. CASE i # k
      BY <1>4, <1>6, <1>8, <2>1, <3>1 DEF Alone
    <3>2. CASE i = k
      BY <1>8, <1>9, <2>1, <3>2 DEF Asks
    <3> QED
      BY <3>1, <3>2
  <2> QED
    BY <2>1 DEF Alone
<1>13. j # NoSocket
  BY NoKey DEF Closed, NoSocket
<1>14. Hangs(ms, net, id, j, k)
  <2>1. CASE j = k
    <3>1. /\ s.conn[k].open /\ s.conn[k].req.path = "/wait" /\ s.conn[k].req.peer_id = id
          /\ Len(s.conn[k].resp) <= 1
      BY <1>1, <1>4, <2>1 DEF Hangs
    <3>2. Len(net[k].resp) <= 1
      BY <1>6, <3>1
    <3> QED
      BY <1>8, <2>1, <3>1, <3>2 DEF Hangs
  <2>2. CASE j # k
    BY <1>4, <1>6, <1>8, <1>13, <2>2 DEF Hangs
  <2> QED
    BY <2>1, <2>2
<1>15. ASSUME s.conn[k].req.path # "/wait" PROVE Hangs(ms, net, id, j, NoSocket)
  <2>1. j # k
    BY <1>1, <1>4, <1>15 DEF Hangs
  <2> QED
    BY <1>4, <1>6, <1>8, <2>1 DEF Hangs
<1> QED
  BY <1>2, <1>3, <1>5, <1>8, <1>9, <1>11, <1>12, <1>14, <1>15 DEF Tracks, Tracked, IfAsked

(* Part of a request was received. *)
LEMMA ReadSome ==
  ASSUME NEW s, Tidy(s), NEW got, NEW k \in Range(s.sockets), NEW some \in BOOLEAN,
         HasRead(s, got, k, some), Serving(got), s.conn[k].req.path # "/wait"
  PROVE  Tidy(got) /\ Step(s, got)
<1>1. Lively(got, s.id, Range(s.sockets)) /\ Links(got.conn, s.id)
  BY ReadLively
<1>2. /\ SameLinks(s.conn, got.conn) /\ got.id = s.id /\ got.sockets = s.sockets
      /\ s.id \in Nat
  BY DEF HasRead, Tidy, Serving, IsServer
<1>3. Carries(s, got, s.id, NoSocket)
  <2>1. ASSUME NEW id \in 1..s.id, NEW j \in Key \cup {Closed}, NEW g \in Seq(Answer), NEW ps,
               Tracks(s, id, j, g, ps, NoSocket)
        PROVE  Tracks(got, id, j, g, ps, NoSocket)
    BY <2>1, ReadTracks
  <2> QED
    BY <2>1 DEF Carries
<1>4. Greets(s, got, k)
  <2>1. ASSUME NEW j \in DOMAIN got.conn, Pending(got.conn, j) PROVE Kept(s.conn, got.conn, j)
    <3>1. j # k /\ j \in DOMAIN s.conn
      BY <1>2, <2>1 DEF Pending, HasRead, SameLinks
    <3>2. got.conn[j] = s.conn[j]
      BY <3>1 DEF HasRead
    <3> QED
      BY <2>1, <3>1, <3>2 DEF Kept, Pending
  <2> QED
    BY <2>1 DEF Greets
<1>5. s.id <= got.id
  BY <1>2
<1>6. Welcomes(got, got.id) /\ News(s.conn, got.conn, s.id)
  BY <1>2, <1>3, <1>4, <1>5, WelcomesStay DEF Tidy
<1>7. Complete(got.conn, Range(got.sockets)) /\ Continues(s.conn, got.conn)
  BY <1>2, CompleteStays, SameLinksContinue DEF Tidy
<1> QED
  BY <1>1, <1>2, <1>3, <1>5, <1>6, <1>7 DEF Tidy, Step, Lively

(* The request on k was received and served. *)
LEMMA Handled ==
  ASSUME NEW s, Tidy(s), NEW got, NEW k \in Range(s.sockets), HasRead(s, got, k, FALSE),
         Serving(got), NEW t, Serving(t), t.sockets = s.sockets, s.id <= t.id,
         Lively(t, t.id, Range(s.sockets)), FedBut(got.conn, t.conn, k),
         Serves(got, t, s.id, k),
         s.conn[k].req.path = "/sign_in" /\ s.conn[k].open =>
           Welcome(t, k, t.id) /\ t.conn[k].resp[1].pragma \notin 1..s.id
  PROVE  Tidy(t) /\ Step(s, t)
<1>1. /\ SameLinks(s.conn, got.conn) /\ got.id = s.id /\ got.sockets = s.sockets
      /\ s.id \in Nat /\ t.id \in Nat
  BY DEF HasRead, Tidy, Serving, IsServer
<1>2. Lively(got, s.id, Range(s.sockets)) /\ Links(got.conn, s.id)
  BY ReadLively
<1>3. k \in DOMAIN s.conn /\ k \in DOMAIN got.conn /\ s.conn[k].end = "accepted"
  BY <1>1, HeldRange DEF Tidy, Serving, SameLinks
<1>4. /\ got.conn[k].end = "accepted" /\ got.conn[k].left = 0 /\ Net(got.conn)
      /\ got.conn[k].req = s.conn[k].req
  BY <1>1, <1>2, <1>3 DEF HasRead, SameLinks, Lively, Channel
<1>5. SameLinks(got.conn, t.conn) /\ SameLinks(s.conn, t.conn)
  BY <1>1, SameLinksTransitive DEF FedBut
<1>6. Links(t.conn, t.id)
  BY <1>1, <1>2, <1>4, LinksStay
<1>7. Carries(s, t, s.id, NoSocket)
  <2>1. ASSUME NEW id \in 1..s.id, NEW j \in Key \cup {Closed}, NEW g \in Seq(Answer), NEW ps,
               Tracks(s, id, j, g, ps, NoSocket)
        PROVE  Tracks(t, id, j, g, ps, NoSocket)
    <3>1. Tracks(got, id, j, g, ps, k) /\ IfAsked(got.conn, k, id, j)
      BY ONLY Tidy(s), k \in Range(s.sockets), HasRead(s, got, k, FALSE),
              j \in Key \cup {Closed}, <2>1, ReadTracks
    <3> QED
      BY <3>1 DEF Serves, IfAsked
  <2> QED
    BY <2>1 DEF Carries
<1>8. Greets(s, t, k)
  <2>1. ASSUME NEW j \in DOMAIN t.conn, Pending(t.conn, j), j # k PROVE Kept(s.conn, t.conn, j)
    <3>1. Kept(got.conn, t.conn, j)
      BY <2>1, FedKeeps
    <3>2. got.conn[j] = s.conn[j] /\ j \in DOMAIN s.conn
      BY <1>5, <2>1 DEF HasRead, SameLinks
    <3> QED
      BY <3>1, <3>2 DEF Kept, Pending
  <2>2. ASSUME Pending(t.conn, k)
        PROVE  Welcome(t, k, t.id) /\ t.conn[k].resp[1].pragma \notin 1..s.id
    <3>1. s.conn[k].req.path = "/sign_in" /\ s.conn[k].open
      BY <1>3, <1>5, <2>2 DEF Pending, SameLinks
    <3> QED
      BY <3>1
  <2> QED
    BY <2>1, <2>2 DEF Greets
<1>9. Welcomes(t, t.id) /\ News(s.conn, t.conn, s.id)
  BY <1>1, <1>7, <1>8, WelcomesStay DEF Tidy
<1>10. Complete(t.conn, Range(t.sockets)) /\ Continues(s.conn, t.conn)
  BY <1>5, CompleteStays, SameLinksContinue DEF Tidy
<1> QED
  BY <1>1, <1>6, <1>7, <1>9, <1>10 DEF Tidy, Step, Lively

-----------------------------------------------------------------------------
(* A request is served *)

LEMMA Served ==
  ASSUME NEW s, Tidy(s), NEW got, NEW k \in Range(s.sockets), HasRead(s, got, k, FALSE),
         Serving(got), s.conn[k].req.path # "/sign_in", NEW w, SamePair(w, got),
         NEW v, Lively(v, s.id, Range(s.sockets)), FedBut(w.conn, v.conn, k),
         Serves(w, v, s.id, k), NEW t, Serving(t), SamePair(v, t), t.id = s.id,
         t.sockets = s.sockets
  PROVE  Tidy(t) /\ Step(s, t)
<1>1. Lively(t, t.id, Range(s.sockets))
  BY SamePairLively
<1>2. FedBut(got.conn, t.conn, k)
  BY DEF SamePair
<1>3. Serves(got, t, s.id, k)
  BY SamePairServes
<1>4. s.id <= t.id
  BY DEF Tidy, Serving, IsServer
<1> QED
  BY <1>1, <1>2, <1>3, <1>4, Handled

(* A reply is sent: no member is concerned. *)
LEMMA ReplyTidy ==
  ASSUME NEW s, Tidy(s), NEW got, NEW k \in Range(s.sockets), HasRead(s, got, k, FALSE),
         Serving(got), s.conn[k].req.path # "/sign_in", Unasked(got, k),
         NEW status \in Nat, NEW t, t = Reply(got, k, status)
  PROVE  Tidy(t) /\ Step(s, t)
<1>1. Lively(got, s.id, Range(s.sockets))
  BY ReadLively
<1>2. PICK r \in Answer : r = Plain(status)
  BY PlainFacts
<1>3. PICK v : v = [members |-> got.members, conn |-> Send(got.conn, k, r)]
  OBVIOUS
<1>4. /\ Lively(v, s.id, Range(s.sockets)) /\ FedBut(got.conn, v.conn, k)
      /\ Serves(got, v, s.id, k)
  BY <1>1, <1>3, SendServes
<1>5. SamePair(got, got)
  BY DEF SamePair
<1>6. k \in DOMAIN got.conn
  BY <1>1 DEF Lively, Channel
<1>7. Serving(t) /\ t.sockets = got.sockets
  BY <1>6, ReplyFacts DEF Keeps
<1>8. t = [got EXCEPT !.conn = v.conn] /\ v.members = got.members
  BY <1>2, <1>3 DEF Reply
<1>9. t.members = v.members /\ t.conn = v.conn /\ t.id = got.id
  BY <1>8 DEF Serving, IsServer
<1>10. SamePair(v, t) /\ t.id = s.id /\ t.sockets = s.sockets
  BY <1>7, <1>9 DEF SamePair, HasRead
<1> QED
  BY ONLY Tidy(s), k \in Range(s.sockets), HasRead(s, got, k, FALSE), Serving(got),
          s.conn[k].req.path # "/sign_in", <1>4, <1>5, <1>7, <1>10, Served

-----------------------------------------------------------------------------
(* Sockets are closed by the server *)

IsShut(a, b, ks) ==
  /\ \A j \in DOMAIN b :
       /\ j \in DOMAIN a /\ b[j].open = a[j].open /\ b[j].req = a[j].req
       /\ b[j].left = a[j].left /\ b[j].resp = a[j].resp
       /\ j \in ks => b[j].end = "closed"
       /\ j \notin ks => b[j] = a[j]
  /\ \A j \in DOMAIN a : j \notin ks \/ a[j].open => j \in DOMAIN b

LEMMA ShutDetails ==
  ASSUME NEW a, Net(a), NEW ks, NEW b, b = Shut(a, ks)
  PROVE  IsShut(a, b, ks)
<1> DEFINE left == {k \in DOMAIN a : k \notin ks \/ a[k].open}
           y(k) == [a[k] EXCEPT !.end = "closed"]
<1>1. b = [k \in left |-> IF k \in ks THEN y(k) ELSE a[k]]
  BY DEF Shut
<1>2. \A k \in DOMAIN a : /\ y(k).open = a[k].open /\ y(k).req = a[k].req
                          /\ y(k).left = a[k].left /\ y(k).resp = a[k].resp
                          /\ y(k).end = "closed"
  <2>1. ASSUME NEW x, IsLink(x), NEW z, z = [x EXCEPT !.end = "closed"]
        PROVE  /\ z.open = x.open /\ z.req = x.req /\ z.left = x.left /\ z.resp = x.resp
               /\ z.end = "closed"
    BY <2>1 DEF IsLink
  <2> QED
    BY <2>1 DEF Net
<1> HIDE DEF y
<1>3. DOMAIN b = left
  BY <1>1
<1>4. \A j \in left : b[j] = IF j \in ks THEN y(j) ELSE a[j]
  BY <1>1
<1> QED
  BY <1>2, <1>3, <1>4 DEF IsShut

(* Requests were received on all the sockets of ks. *)
Arrived(net, ks) == \A j \in DOMAIN net : j \in ks => net[j].end # "syn"

LEMMA ShutTracks ==
  ASSUME NEW ms, NEW a, NEW b, NEW ks, IsShut(a, b, ks), Arrived(a, ks),
         NEW x \in ks \cup {NoSocket}, NEW id, NEW j \in Key \cup {Closed}, NEW g, NEW ps,
         NEW R, Tracked(ms, a, id, j, g, ps, R, x)
  PROVE  Tracked(ms, b, id, j, g, ps, R, NoSocket)
<1>1. /\ \A l \in 1..Len(ms) : ms[l].id = id => Follows(ms[l], a, j, g, ps, R)
      /\ Hangs(ms, a, id, j, x) /\ Alone(a, id, j)
  BY DEF Tracked
<1>2. j \in DOMAIN a => a[j].open /\ j \in DOMAIN b
  BY <1>1 DEF Hangs, IsShut
<1>3. Stream(b, j) = Stream(a, j)
  BY <1>2 DEF Stream, IsShut
<1>4. \A l \in 1..Len(ms) : ms[l].id = id => Follows(ms[l], b, j, g, ps, R)
  BY <1>1, <1>3 DEF Follows, Coming
<1>5. Alone(b, id, j)
  <2>1. ASSUME NEW i \in DOMAIN b, Asks(b[i], id) PROVE i = j
    <3>1. i \in DOMAIN a /\ b[i] = a[i]
      BY <2>1 DEF IsShut, Asks
    <3> QED
      BY <1>1, <2>1, <3>1 DEF Alone
  <2> QED
    BY <2>1 DEF Alone
<1>6. j # NoSocket
  BY NoKey DEF Closed, NoSocket
<1>7. Hangs(ms, b, id, j, NoSocket)
  <2>1. ASSUME j \in DOMAIN b
        PROVE  /\ b[j].open /\ Len(b[j].resp) <= 1
               /\ b[j].end # "syn" => b[j].req.path = "/wait" /\ b[j].req.peer_id = id
    <3>1. /\ j \in DOMAIN a /\ b[j].open = a[j].open /\ b[j].req = a[j].req
          /\ b[j].resp = a[j].resp /\ (j \notin ks => b[j] = a[j])
      BY <2>1 DEF IsShut
    <3>2. b[j].end # "syn" => a[j].end # "syn"
      BY <3>1 DEF Arrived
    <3> QED
      BY <1>1, <3>1, <3>2 DEF Hangs
  <2>2. ASSUME j \in DOMAIN b, b[j].end = "accepted", b[j].left = 0, b[j].resp = <<>>
        PROVE  \E i \in 1..Len(ms) : ms[i].id = id /\ ms[i].waiting = j
    <3>1. j \notin ks /\ j \in DOMAIN a /\ b[j] = a[j]
      BY <2>2 DEF IsShut
    <3>2. j # x
      BY <1>6, <3>1
    <3> QED
      BY <1>1, <2>2, <3>1, <3>2 DEF Hangs
  <2> QED
    BY <2>1, <2>2 DEF Hangs
<1> QED
  BY <1>4, <1>5, <1>7 DEF Tracked

(* All the sockets are closed and the members forgotten. *)
LEMMA DownTracks ==
  ASSUME NEW ms, NEW a, NEW b, NEW ks, IsShut(a, b, ks), Arrived(a, ks), Complete(a, ks),
         NEW id, NEW j \in Key \cup {Closed}, NEW g, NEW ps, NEW R, NEW Q, NEW vs, Len(vs) = 0,
         Tracked(ms, a, id, j, g, ps, R, NoSocket)
  PROVE  Tracked(vs, b, id, j, g, ps, Q, NoSocket)
<1>1. Tracked(ms, b, id, j, g, ps, R, NoSocket)
  BY ShutTracks
<1>2. Hangs(ms, b, id, j, NoSocket) /\ Alone(b, id, j)
  BY <1>1 DEF Tracked
<1>3. j \in DOMAIN b => b[j].end # "accepted"
  BY DEF IsShut, Complete
<1>4. Hangs(vs, b, id, j, NoSocket)
  BY <1>2, <1>3 DEF Hangs
<1>5. \A i \in 1..Len(vs) : FALSE
  OBVIOUS
<1> QED
  BY <1>2, <1>4, <1>5 DEF Tracked

LEMMA ShutTidy ==
  ASSUME NEW s, Tidy(s), NEW net, Net(net), Fed(s.conn, net), NEW ks, Arrived(s.conn, ks),
         NEW t, Serving(t), t.conn = Shut(net, ks), t.id = s.id, Idle(t.members, net),
         Complete(t.conn, Range(t.sockets)), Carries(s, t, s.id, NoSocket)
  PROVE  Tidy(t) /\ Step(s, t)
<1>1. IsShut(net, t.conn, ks) /\ SameLinks(s.conn, net) /\ s.id \in Nat
  BY ShutDetails DEF Fed, Tidy, Serving, IsServer
<1>2. PICK k : k = NoSocket
  OBVIOUS
<1>3. FedBut(s.conn, net, k) /\ Net(s.conn) /\ k \notin DOMAIN s.conn
  <2>1. DOMAIN s.conn \subseteq Key /\ Net(s.conn)
    BY DEF Tidy, Serving, Channel, Net
  <2> QED
    BY <1>2, <2>1, FedIsFedBut, NoKey
<1>4. s.id <= s.id /\ s.id <= t.id /\ t.id \in Nat
  BY <1>1
<1>5. Links(net, s.id)
  BY <1>1, <1>3, <1>4, LinksStay DEF Tidy
<1>6. Arrived(net, ks)
  BY <1>1 DEF Arrived, SameLinks
<1>7. Links(t.conn, t.id)
  <2>1. ASSUME NEW j \in DOMAIN t.conn PROVE LinkIsTidy(t.conn[j], s.id)
    <3>1. /\ j \in DOMAIN net /\ LinkIsTidy(net[j], s.id) /\ t.conn[j].req = net[j].req
          /\ t.conn[j].left = net[j].left /\ t.conn[j].resp = net[j].resp
      BY <1>1, <1>5 DEF IsShut, Links
    <3>2. CASE j \notin ks
      BY <1>1, <3>1, <3>2 DEF IsShut
    <3>3. CASE j \in ks
      <4>1. t.conn[j].end = "closed" /\ net[j].end # "syn"
        BY <1>1, <1>6, <3>1, <3>3 DEF IsShut, Arrived
      <4> QED
        BY <3>1, <4>1 DEF LinkIsTidy
    <3> QED
      BY <3>2, <3>3
  <2> QED
    BY <2>1 DEF Links
<1>8. Greets(s, t, k)
  <2>1. ASSUME NEW j \in DOMAIN t.conn, Pending(t.conn, j) PROVE Kept(s.conn, t.conn, j)
    <3>1. /\ j \in DOMAIN net /\ Pending(net, j) /\ j # k /\ t.conn[j].resp = net[j].resp
      BY <1>1, <1>3, <2>1 DEF IsShut, Pending, SameLinks
    <3>2. Kept(s.conn, net, j)
      BY <1>3, <3>1, FedKeeps
    <3> QED
      BY <3>1, <3>2 DEF Kept
  <2> QED
    BY <2>1 DEF Greets
<1>9. Welcomes(t, t.id) /\ News(s.conn, t.conn, s.id)
  BY <1>1, <1>4, <1>8, WelcomesStay DEF Tidy
<1>10. Idle(t.members, t.conn)
  <2>1. ASSUME NEW i \in 1..Len(t.members), t.members[i].waiting # NoSocket
        PROVE  t.conn[t.members[i].waiting].left = 0
    <3>1. t.members[i].waiting \in DOMAIN t.conn
      BY <2>1 DEF Serving, Channel, WaitsOn
    <3> QED
      BY <1>1, <2>1, <3>1 DEF Idle, IsShut
  <2> QED
    BY <2>1 DEF Idle
<1>11. Continues(s.conn, t.conn)
  <2>1. ASSUME NEW j \in DOMAIN t.conn
        PROVE  /\ j \in DOMAIN s.conn /\ t.conn[j].open = s.conn[j].open
               /\ t.conn[j].req = s.conn[j].req
               /\ t.conn[j].end = "syn" <=> s.conn[j].end = "syn"
    <3>1. /\ j \in DOMAIN net /\ j \in DOMAIN s.conn /\ t.conn[j].open = s.conn[j].open
          /\ t.conn[j].req = s.conn[j].req /\ net[j].end = s.conn[j].end
      BY <1>1 DEF IsShut, SameLinks
    <3>2. t.conn[j].end = "syn" <=> net[j].end = "syn"
      BY <1>1, <1>6, <3>1 DEF IsShut, Arrived
    <3> QED
      BY <3>1, <3>2
  <2> QED
    BY <2>1 DEF Continues
<1> QED
  BY <1>1, <1>4, <1>7, <1>9, <1>10, <1>11 DEF Tidy, Step

(* The i-th socket leaves the vector. *)
LEMMA RemoveRange ==
  ASSUME NEW v, NEW net, NEW end, Held(v, net, end), NEW i \in 1..Len(v)
  PROVE  Range(v) \ {v[i]} \subseteq Range(RemoveAt(v, i))
<1>1. PICK n \in Nat : n = Len(v) /\ i \in 1..n /\ v \in Seq(Key)
  BY HeldRange DEF Held
<1>2. PICK u : u = RemoveAt(v, i)
  OBVIOUS
<1>3. /\ u \in Seq(Key) /\ Len(u) = n - 1
      /\ \A j \in 1..n - 1 : u[j] = IF j < i THEN v[j] ELSE v[j + 1]
  BY <1>1, <1>2, RemoveAtFacts
<1>4. DOMAIN u = 1..n - 1 /\ Range(v) = {v[j] : j \in 1..n}
  BY <1>1, <1>3, LenProperties, HeldRange
<1>5. Range(u) = {u[j] : j \in 1..n - 1}
  BY <1>4 DEF Range
<1>6. ASSUME NEW l \in 1..n, l # i PROVE v[l] \in Range(u)
  <2>1. CASE l < i
    <3>1. l \in 1..n - 1
      BY <1>1, <2>1
    <3>2. u[l] = v[l]
      BY <1>3, <2>1, <3>1
    <3> QED
      BY <1>5, <3>1, <3>2
  <2>2. CASE l > i
    <3>1. l - 1 \in 1..n - 1 /\ ~(l - 1 < i) /\ (l - 1) + 1 = l
      BY <1>1, <2>2
    <3>2. u[l - 1] = v[l]
      BY <1>3, <3>1
    <3> QED
      BY <1>5, <3>1, <3>2
  <2> QED
    BY <1>1, <1>6, <2>1, <2>2
<1> QED
  BY <1>2, <1>4, <1>6

LEMMA WeakenTracks ==
  ASSUME NEW w, NEW id, NEW k, NEW g, NEW ps, NEW x, k # NoSocket,
         Tracks(w, id, k, g, ps, NoSocket)
  PROVE  Tracks(w, id, k, g, ps, x)
BY DEF Tracks, Tracked, Hangs

LEMMA CloseSocketTidy ==
  ASSUME NEW s, Tidy(s), NEW i \in 1..Len(s.sockets), NEW t, t = CloseSocket(s, i)
  PROVE  Tidy(t) /\ Step(s, t)
<1>1. Serving(t) /\ Serving(s) /\ IsServer(s)
  BY CloseSocketFacts DEF Tidy, Serving
<1>2. PICK k : k = s.sockets[i]
  OBVIOUS
<1>3. k \in Range(s.sockets) /\ k \in DOMAIN s.conn /\ k \in Key /\ s.conn[k].end = "accepted"
  BY <1>1, <1>2, HeldRange DEF Serving
<1>4. PICK w : w = OnClosing(Pair(s), k)
  OBVIOUS
<1>5. /\ Lively(w, s.id, Range(s.sockets) \ {k}) /\ Fed(s.conn, w.conn)
      /\ Carries(s, w, s.id, k)
  <2>1. PICK p : p = Pair(s)
    OBVIOUS
  <2>2. SamePair(s, p) /\ p.conn = s.conn
    BY <2>1, PairFacts DEF SamePair
  <2>3. Lively(p, s.id, Range(s.sockets))
    BY <2>2, TidyLively, SamePairLively
  <2>4. /\ Lively(w, s.id, Range(s.sockets) \ {k}) /\ Fed(p.conn, w.conn)
        /\ Carries(p, w, s.id, k)
    BY <1>3, <1>4, <2>1, <2>3, OnClosingCarries
  <2>5. Carries(s, p, s.id, k)
    BY <2>2, SamePairCarries
  <2> QED
    BY <2>2, <2>4, <2>5, CarriesTransitive
<1>6. PICK net : net = w.conn /\ Net(net) /\ Fed(s.conn, net) /\ Idle(w.members, net)
  BY <1>5 DEF Lively, Channel
<1>7. PICK ks : ks = {k}
  OBVIOUS
<1>8. /\ t.members = w.members /\ t.conn = Shut(net, ks) /\ t.id = s.id
      /\ t.sockets = RemoveAt(s.sockets, i)
  <2>1. PICK b : b = Shut(net, ks)
    OBVIOUS
  <2>2. PICK u : u = RemoveAt(s.sockets, i)
    OBVIOUS
  <2>3. t = [s EXCEPT !.members = w.members, !.conn = b, !.sockets = u]
    BY <1>2, <1>4, <1>6, <1>7, <2>1, <2>2 DEF CloseSocket
  <2> QED
    BY <1>1, <2>1, <2>2, <2>3 DEF IsServer
<1>9. IsShut(net, t.conn, ks) /\ SameLinks(s.conn, net)
  BY <1>6, <1>8, ShutDetails DEF Fed
<1>10. Arrived(s.conn, ks) /\ Arrived(net, ks)
  BY <1>3, <1>7, <1>9 DEF Arrived, SameLinks
<1>11. Carries(s, t, s.id, NoSocket)
  <2>1. ASSUME NEW id \in 1..s.id, NEW j \in Key \cup {Closed}, NEW g \in Seq(Answer), NEW ps,
               Tracks(s, id, j, g, ps, NoSocket)
        PROVE  Tracks(t, id, j, g, ps, NoSocket)
    <3>1. Tracks(s, id, j, g, ps, k)
      BY <2>1, NoKey, WeakenTracks DEF Closed, NoSocket
    <3>2. Tracks(w, id, j, g, ps, k)
      BY <1>5, <3>1 DEF Carries
    <3>3. PICK R : R = IdsOf(w.members) \ {id}
      OBVIOUS
    <3>4. Tracked(w.members, net, id, j, g, ps, R, k)
      BY <1>6, <3>2, <3>3 DEF Tracks
    <3>5. k \in ks \cup {NoSocket}
      BY <1>7
    <3>6. Tracked(w.members, t.conn, id, j, g, ps, R, NoSocket)
      BY ONLY <1>9, <1>10, <3>4, <3>5, j \in Key \cup {Closed}, ShutTracks
    <3> QED
      BY <1>8, <3>3, <3>6 DEF Tracks
  <2> QED
    BY <2>1 DEF Carries
<1>12. Complete(t.conn, Range(t.sockets))
  <2>1. Range(s.sockets) \ {k} \subseteq Range(t.sockets)
    BY <1>1, <1>2, <1>8, RemoveRange DEF Serving
  <2>2. Complete(s.conn, Range(s.sockets))
    BY DEF Tidy
  <2> QED
    BY <1>7, <1>9, <2>1, <2>2 DEF Complete, IsShut, SameLinks
<1>13. Idle(t.members, net)
  BY <1>6, <1>8
<1> QED
  BY ONLY Tidy(s), <1>1, <1>6, <1>8, <1>10, <1>11, <1>12, <1>13, ShutTidy

-----------------------------------------------------------------------------
(* The requests *)

(* The flag of main() and the listener are not looked at by the channel. *)
LEMMA SameTidy ==
  ASSUME NEW s, Tidy(s), NEW t, Serving(t), SamePair(s, t), t.id = s.id,
         t.sockets = s.sockets
  PROVE  Tidy(t) /\ Step(s, t)
<1>1. t.members = s.members /\ t.conn = s.conn /\ s.id \in Nat
  BY DEF SamePair, Tidy, Serving, IsServer
<1>2. Welcomes(t, t.id)
  <2>1. ASSUME NEW j, Welcome(s, j, s.id) PROVE Welcome(t, j, t.id)
    BY <1>1, <2>1 DEF Welcome, Tracks
  <2> QED
    BY <1>1, <2>1 DEF Welcomes, Tidy
<1>3. Step(s, s)
  BY <1>1, StepReflexive
<1>4. Carries(s, t, s.id, NoSocket)
  BY SamePairCarries
<1> QED
  BY <1>1, <1>2, <1>3, <1>4 DEF Tidy, Step

LEMMA BrowserTidy ==
  ASSUME NEW s, Tidy(s), NEW got, NEW k \in Range(s.sockets), HasRead(s, got, k, FALSE),
         Serving(got), s.conn[k].req.path # "/sign_in", Unasked(got, k),
         NEW t, t = HandleBrowserRequest(got, k)
  PROVE  Tidy(t) /\ Step(s, t)
<1> DEFINE status == IF got.conn[k].req.path \in {"/quit", "OPTIONS"} THEN 200 ELSE 500
<1>1. PICK sent : sent = Reply(got, k, status)
  OBVIOUS
<1>2. status \in Nat
  OBVIOUS
<1>3. k \in Range(got.sockets) /\ k \in DOMAIN got.conn
  BY HeldRange DEF HasRead, Serving
<1>4. Keeps(got, sent) /\ Keeps(got, t) /\ Tidy(sent) /\ Step(s, sent)
  <2> HIDE DEF status
  <2>1. Keeps(got, sent)
    BY <1>1, <1>2, <1>3, ReplyFacts
  <2>2. Keeps(got, t)
    BY <1>3, BrowserFacts
  <2>3. Tidy(sent) /\ Step(s, sent)
    BY ONLY Tidy(s), k \in Range(s.sockets), HasRead(s, got, k, FALSE), Serving(got),
            s.conn[k].req.path # "/sign_in", Unasked(got, k), <1>1, <1>2, ReplyTidy
  <2> QED
    BY <2>1, <2>2, <2>3
<1>5. /\ Serving(t) /\ Serving(sent) /\ IsServer(sent)
      /\ t.sockets = got.sockets /\ sent.sockets = got.sockets
  BY <1>4 DEF Keeps, Serving
<1>6. sent.backlog = got.backlog
  <2>1. PICK b : b = Send(got.conn, k, Plain(status))
    OBVIOUS
  <2>2. sent = [got EXCEPT !.conn = b]
    BY <1>1, <2>1 DEF Reply
  <2> QED
    BY <2>2 DEF Serving, IsServer
<1>7. CASE got.conn[k].req.path # "/quit"
  <2>1. t = [sent EXCEPT !.quit = FALSE]
    BY <1>1, <1>7 DEF HandleBrowserRequest
  <2>2. t.members = sent.members /\ t.conn = sent.conn /\ t.id = sent.id
    BY <1>5, <2>1 DEF IsServer
  <2>3. Tidy(t) /\ Step(sent, t)
    <3>1. SamePair(sent, t) /\ t.sockets = sent.sockets
      BY <1>5, <2>2 DEF SamePair
    <3> QED
      BY ONLY <1>4, <1>5, <2>2, <3>1, SameTidy
  <2> QED
    BY <1>4, <2>3, StepTransitive
<1>8. CASE got.conn[k].req.path = "/quit"
  <2>1. PICK w : w = CloseAll(Pair(sent))
    OBVIOUS
  <2>2. PICK p : p = Pair(sent)
    OBVIOUS
  <2>3. SamePair(sent, p) /\ p.conn = sent.conn
    BY <2>2, PairFacts DEF SamePair
  <2>4. Lively(p, sent.id, Range(sent.sockets))
    BY <1>4, <2>3, TidyLively, SamePairLively
  <2>5. /\ Lively(w, sent.id, Range(sent.sockets)) /\ Fed(sent.conn, w.conn)
        /\ w.members = <<>> /\ Carries(sent, w, sent.id, NoSocket)
    <3>1. /\ Lively(w, sent.id, Range(sent.sockets)) /\ Fed(p.conn, w.conn)
          /\ w.members = <<>> /\ Carries(p, w, sent.id, NoSocket)
      BY <2>1, <2>2, <2>4, CloseAllCarries
    <3>2. Carries(sent, p, sent.id, NoSocket)
      BY <2>3, SamePairCarries
    <3> QED
      BY <2>3, <3>1, <3>2, CarriesTransitive
  <2>6. PICK net : net = w.conn /\ Net(net) /\ Fed(sent.conn, net) /\ Idle(w.members, net)
    BY <2>5 DEF Lively, Channel
  <2>7. PICK ks : ks = Range(sent.backlog)
    OBVIOUS
  <2>8. t.members = w.members /\ t.conn = Shut(net, ks) /\ t.id = sent.id
    <3>1. PICK b : b = Shut(net, ks)
      OBVIOUS
    <3>2. t = [sent EXCEPT !.quit = TRUE, !.members = w.members, !.conn = b,
                           !.listening = FALSE, !.backlog = <<>>]
      <4>1. PICK path : path = got.conn[k].req.path /\ ~(path # "/quit")
        BY <1>8
      <4>2. sent = Reply(got, k, IF path \in {"/quit", "OPTIONS"} THEN 200 ELSE 500)
        BY <1>1, <4>1
      <4>3. b = Shut(CloseAll(Pair(sent)).conn, Range(got.backlog))
        BY <1>6, <2>1, <2>6, <2>7, <3>1
      <4>4. t = [sent EXCEPT !.quit = TRUE, !.members = CloseAll(Pair(sent)).members,
                             !.conn = Shut(CloseAll(Pair(sent)).conn, Range(got.backlog)),
                             !.listening = FALSE, !.backlog = <<>>]
        <5> HIDE DEF status
        <5> QED
          BY <4>1, <4>2, ZenonT(60) DEF HandleBrowserRequest
      <4> QED
        BY <2>1, <4>3, <4>4
    <3> QED
      BY <1>5, <3>1, <3>2 DEF IsServer
  <2>9. IsShut(net, t.conn, ks) /\ SameLinks(sent.conn, net)
    BY <2>6, <2>8, ShutDetails DEF Fed
  <2>10. Arrived(sent.conn, ks) /\ Arrived(net, ks)
    <3>1. \A j \in ks : sent.conn[j].end = "backlog"
      BY <1>5, <2>7, HeldRange DEF Serving
    <3> QED
      BY <2>9, <3>1 DEF Arrived, SameLinks
  <2>11. Carries(sent, t, sent.id, NoSocket)
    <3>1. ASSUME NEW id \in 1..sent.id, NEW j \in Key \cup {Closed}, NEW g \in Seq(Answer),
                 NEW ps, Tracks(sent, id, j, g, ps, NoSocket)
          PROVE  Tracks(t, id, j, g, ps, NoSocket)
      <4>1. Tracks(w, id, j, g, ps, NoSocket)
        BY <2>5, <3>1 DEF Carries
      <4>2. PICK R : R = IdsOf(w.members) \ {id}
        OBVIOUS
      <4>3. Tracked(w.members, net, id, j, g, ps, R, NoSocket)
        BY <2>6, <4>1, <4>2 DEF Tracks
      <4>4. NoSocket \in ks \cup {NoSocket}
        OBVIOUS
      <4>5. Tracked(w.members, t.conn, id, j, g, ps, R, NoSocket)
        BY ONLY <2>9, <2>10, <4>3, <4>4, j \in Key \cup {Closed}, ShutTracks
      <4> QED
        BY <2>8, <4>2, <4>5 DEF Tracks
    <3> QED
      BY <3>1 DEF Carries
  <2>12. Complete(t.conn, Range(t.sockets))
    <3>1. Complete(sent.conn, Range(sent.sockets))
      BY <1>4 DEF Tidy
    <3> QED
      BY <1>5, <2>9, <3>1 DEF Complete, IsShut, SameLinks
  <2>13. Idle(t.members, net)
    BY <2>6, <2>8
  <2>14. Tidy(t) /\ Step(sent, t)
    BY ONLY <1>4, <1>5, <2>6, <2>8, <2>10, <2>11, <2>12, <2>13, ShutTidy
  <2> QED
    BY <1>4, <2>14, StepTransitive
<1> QED
  BY <1>7, <1>8

LEMMA SignInTidy ==
  ASSUME NEW s, Tidy(s), NEW got, NEW k \in Range(s.sockets), HasRead(s, got, k, FALSE),
         Serving(got), got.conn[k].req.path = "/sign_in",
         NEW t, t = [With(got, AddMember(Pair(got), got.id + 1, k)) EXCEPT !.id = got.id + 1]
  PROVE  Tidy(t) /\ Step(s, t)
<1>1. PICK n \in Nat : n = s.id /\ n = got.id
  BY DEF HasRead, Tidy, Serving, IsServer
<1>2. PICK w : w = Pair(got)
  OBVIOUS
<1>3. SamePair(got, w) /\ SamePair(w, got) /\ w.conn = got.conn /\ w.members = got.members
  BY <1>2, PairFacts DEF SamePair
<1>4. PICK ks : ks = Range(s.sockets)
  OBVIOUS
<1>5. Lively(got, n, ks) /\ Links(got.conn, n)
  BY <1>1, <1>4, ReadLively
<1>6. Lively(w, n, ks) /\ Unborn(w.conn, n) /\ Free(w, k) /\ w.conn[k].req.path = "/sign_in"
  <2>1. Lively(w, n, ks)
    BY <1>3, <1>5, SamePairLively
  <2>2. Unborn(w.conn, n)
    BY <1>3, <1>5 DEF Unborn, Links, LinkIsTidy
  <2>3. Free(w, k)
    BY <1>3 DEF Free, HasRead
  <2> QED
    BY <1>3, <2>1, <2>2, <2>3
<1>7. PICK v : v = AddMember(w, n + 1, k)
  OBVIOUS
<1>8. /\ Lively(v, n + 1, ks) /\ FedBut(w.conn, v.conn, k) /\ Serves(w, v, n, k)
      /\ w.conn[k].open => Welcome(v, k, n + 1) /\ v.conn[k].resp[1].pragma = n + 1
  <2>1. k \in ks
    BY <1>4
  <2> QED
    BY ONLY n \in Nat, <1>6, <1>7, <2>1, AddMemberServes
<1>9. k \in DOMAIN got.conn
  BY <1>4, <1>5 DEF Lively, Channel
<1>10. Serving(t) /\ t.sockets = got.sockets
  BY <1>9, SignInFacts DEF Keeps
<1>11. t.members = v.members /\ t.conn = v.conn /\ t.id = n + 1
  <2>1. PICK u : u = With(got, v)
    OBVIOUS
  <2>2. IsServer(u) /\ u.members = v.members /\ u.conn = v.conn
    BY <2>1, WithFacts DEF Serving
  <2>3. t = [u EXCEPT !.id = n + 1]
    BY <1>1, <1>2, <1>7, <2>1
  <2> QED
    BY <2>2, <2>3 DEF IsServer
<1>12. SamePair(v, t) /\ t.sockets = s.sockets /\ s.id <= t.id
  BY <1>1, <1>10, <1>11 DEF SamePair, HasRead
<1>13. Lively(t, t.id, Range(s.sockets))
  BY <1>4, <1>8, <1>11, <1>12, SamePairLively
<1>14. FedBut(got.conn, t.conn, k) /\ Serves(got, t, s.id, k)
  BY <1>1, <1>3, <1>8, <1>11, <1>12, SamePairServes
<1>15. s.conn[k].open => Welcome(t, k, t.id) /\ t.conn[k].resp[1].pragma \notin 1..s.id
  <2>1. ASSUME s.conn[k].open
        PROVE  Welcome(t, k, t.id) /\ t.conn[k].resp[1].pragma \notin 1..s.id
    <3>1. w.conn[k].open
      BY <1>3, <1>9, <2>1 DEF HasRead, SameLinks
    <3>2. Welcome(v, k, n + 1) /\ v.conn[k].resp[1].pragma = n + 1
      BY <1>8, <3>1, SMTT(30)
    <3>3. Welcome(t, k, t.id)
      BY <1>11, <3>2 DEF Welcome, Tracks
    <3>4. n + 1 \notin 1..n
      OBVIOUS
    <3> QED
      BY <1>1, <1>11, <3>2, <3>3, <3>4
  <2> QED
    BY <2>1
<1> QED
  BY ONLY Tidy(s), k \in Range(s.sockets), HasRead(s, got, k, FALSE), Serving(got),
          <1>10, <1>12, <1>13, <1>14, <1>15, Handled

LEMMA SignOutTidy ==
  ASSUME NEW s, Tidy(s), NEW got, NEW k \in Range(s.sockets), HasRead(s, got, k, FALSE),
         Serving(got), got.conn[k].req.path = "/sign_out", NEW i \in 1..Len(got.members),
         got.conn[k].req.peer_id = got.members[i].id,
         NEW t, t = Reply(SignedOut(got, i), k, 200)
  PROVE  Tidy(t) /\ Step(s, t)
<1>1. Lively(got, s.id, Range(s.sockets)) /\ k \in DOMAIN got.conn
  BY ReadLively DEF Lively, Channel
<1>2. PICK r \in Answer : r = Plain(200)
  BY PlainFacts
<1>3. PICK ms : ms = [got.members EXCEPT ![i] = [got.members[i] EXCEPT !.connected = FALSE]]
  OBVIOUS
<1>4. PICK v : v = [members |-> ms, conn |-> Send(got.conn, k, r)]
  OBVIOUS
<1>5. /\ Lively(v, s.id, Range(s.sockets)) /\ FedBut(got.conn, v.conn, k)
      /\ Serves(got, v, s.id, k)
  BY <1>1, <1>3, <1>4, SignOutServes
<1>6. Serving(t) /\ t.sockets = got.sockets
  BY <1>1, SignOutFacts DEF Keeps
<1>7. t.members = ms /\ t.conn = v.conn /\ t.id = got.id
  <2>1. PICK a : a = SignedOut(got, i)
    OBVIOUS
  <2>2. a = [got EXCEPT !.members = ms]
    BY <1>3, <2>1 DEF SignedOut
  <2>3. IsServer(a) /\ a.members = ms /\ a.conn = got.conn /\ a.id = got.id
    BY <2>2 DEF Serving, IsServer
  <2>4. t = [a EXCEPT !.conn = v.conn]
    BY <1>2, <1>4, <2>1, <2>3 DEF Reply
  <2> QED
    BY <2>3, <2>4 DEF IsServer
<1>8. SamePair(v, t) /\ t.id = s.id /\ t.sockets = s.sockets /\ SamePair(got, got)
  BY <1>4, <1>6, <1>7 DEF SamePair, HasRead
<1>9. s.conn[k].req.path # "/sign_in"
  <2>1. s.conn[k].req = got.conn[k].req
    BY <1>1 DEF HasRead, SameLinks
  <2> QED
    BY <2>1
<1> QED
  BY ONLY Tidy(s), k \in Range(s.sockets), HasRead(s, got, k, FALSE), Serving(got),
          <1>5, <1>6, <1>8, <1>9, Served

LEMMA WithTidy ==
  ASSUME NEW s, Tidy(s), NEW got, NEW k \in Range(s.sockets), HasRead(s, got, k, FALSE),
         Serving(got), got.conn[k].req.path # "/sign_in", NEW w, w = Pair(got), NEW v,
         Lively(v, s.id, Range(s.sockets)), FedBut(w.conn, v.conn, k),
         Serves(w, v, s.id, k), NEW t, t = With(got, v)
  PROVE  Tidy(t) /\ Step(s, t)
<1>1. SamePair(w, got) /\ w.conn = got.conn /\ got.id = s.id /\ got.sockets = s.sockets
  BY PairFacts DEF SamePair, HasRead
<1>2. Channel(v, got.id, Range(got.sockets)) /\ SameLinks(got.conn, v.conn)
  BY <1>1 DEF Lively, FedBut
<1>3. Serving(t) /\ t.sockets = got.sockets
  BY <1>2, ServingWith
<1>4. t.members = v.members /\ t.conn = v.conn /\ t.id = got.id
  BY WithFacts DEF Serving
<1>5. SamePair(v, t) /\ t.id = s.id /\ t.sockets = s.sockets
  BY <1>1, <1>3, <1>4 DEF SamePair
<1>6. s.conn[k].req.path # "/sign_in"
  <2>1. k \in DOMAIN got.conn
    BY ReadLively DEF Lively, Channel
  <2>2. s.conn[k].req = got.conn[k].req
    BY <2>1 DEF HasRead, SameLinks
  <2> QED
    BY <2>2
<1> QED
  BY ONLY Tidy(s), k \in Range(s.sockets), HasRead(s, got, k, FALSE), Serving(got),
          Lively(v, s.id, Range(s.sockets)), FedBut(w.conn, v.conn, k),
          Serves(w, v, s.id, k), <1>1, <1>3, <1>5, <1>6, Served

LEMMA HandleRequestTidy ==
  ASSUME NEW s, Tidy(s), NEW got, NEW k \in Range(s.sockets), HasRead(s, got, k, FALSE),
         Serving(got), NEW t, t = HandleRequest(got, k)
  PROVE  Tidy(t) /\ Step(s, t)
<1>0. /\ k \in DOMAIN got.conn /\ Net(got.conn) /\ got.conn[k].req.peer_id \in Int
      /\ got.members \in Seq(Peer) /\ DOMAIN got.members = 1..Len(got.members)
      /\ Lively(got, s.id, Range(s.sockets)) /\ got.conn[k].req = s.conn[k].req
  <2>1. /\ Lively(got, s.id, Range(s.sockets)) /\ Net(got.conn)
        /\ got.members \in Seq(Peer) /\ k \in DOMAIN got.conn
    BY ReadLively DEF Lively, Channel
  <2>2. got.conn[k].req = s.conn[k].req
    BY <2>1 DEF HasRead, SameLinks
  <2> QED
    BY <2>1, <2>2, LinkFacts, MembersFacts DEF Lively, Channel
<1>1. PICK q : q = got.conn[k].req
  OBVIOUS
<1>2. PICK at : at = IF q.path \in {"/wait", "/sign_out", "/message"}
                       THEN Lookup(got, q.peer_id) ELSE {}
  OBVIOUS
<1>3. PICK i : i = CHOOSE j \in at : TRUE
  OBVIOUS
<1>4. PICK w : w = Pair(got)
  OBVIOUS
<1>5. /\ w.members = got.members /\ w.conn = got.conn
      /\ Lively(w, s.id, Range(s.sockets))
  <2>1. SamePair(got, w)
    BY <1>4, PairFacts DEF SamePair
  <2> QED
    BY <1>0, <2>1, SamePairLively DEF SamePair
<1>6. got.conn[k].resp = <<>>
  BY DEF HasRead
<1>7. CASE at = {}
  <2>1. CASE q.path = "/sign_in"
    <3>1. t = [With(got, AddMember(Pair(got), got.id + 1, k)) EXCEPT !.id = got.id + 1]
      BY <1>1, <1>2, <1>7, <2>1 DEF HandleRequest
    <3>2. got.conn[k].req.path = "/sign_in"
      BY <1>1, <2>1
    <3> QED
      BY ONLY Tidy(s), k \in Range(s.sockets), HasRead(s, got, k, FALSE), Serving(got),
              <3>1, <3>2, SignInTidy
  <2>2. ASSUME q.path # "/sign_in" PROVE Unasked(got, k) /\ s.conn[k].req.path # "/sign_in"
    <3>1. q.path = "/wait" => Absent(got.members, q.peer_id)
      <4>1. q.path = "/wait" => Lookup(got, q.peer_id) = {}
        BY <1>2, <1>7
      <4> QED
        BY <1>0, <4>1 DEF Lookup, Absent
    <3> QED
      BY <1>0, <1>1, <1>6, <2>2, <3>1 DEF Unasked
  <2>3. CASE q.path = "/message"
    <3>1. t = Reply(got, k, 500)
      BY <1>1, <1>2, <1>7, <2>3 DEF HandleRequest
    <3>2. PICK status \in Nat : status = 500
      OBVIOUS
    <3>3. t = Reply(got, k, status)
      BY <3>1, <3>2
    <3>4. Unasked(got, k) /\ s.conn[k].req.path # "/sign_in"
      BY <2>2, <2>3
    <3> QED
      BY ONLY Tidy(s), k \in Range(s.sockets), HasRead(s, got, k, FALSE), Serving(got),
              status \in Nat, <3>3, <3>4, ReplyTidy
  <2>4. CASE q.path # "/sign_in" /\ q.path # "/message"
    <3>1. t = HandleBrowserRequest(got, k)
      BY <1>1, <1>2, <1>7, <2>4, Zenon DEF HandleRequest
    <3>2. Unasked(got, k) /\ s.conn[k].req.path # "/sign_in"
      BY <2>2, <2>4
    <3> QED
      BY ONLY Tidy(s), k \in Range(s.sockets), HasRead(s, got, k, FALSE), Serving(got),
              <3>1, <3>2, BrowserTidy, Zenon
  <2> QED
    BY <2>1, <2>3, <2>4
<1>8. CASE at # {}
  <2>1. /\ i \in 1..Len(got.members) /\ got.members[i].id = q.peer_id
        /\ q.path \in {"/wait", "/sign_out", "/message"}
    BY <1>0, <1>2, <1>3, <1>8 DEF Lookup
  <2>2. got.conn[k].req.path # "/sign_in" /\ s.conn[k].req.path # "/sign_in"
    BY <1>0, <1>1, <2>1
  <2>3. CASE q.path = "/wait"
    <3>1. PICK v : v = SetWaitingSocket(w, i, k)
      OBVIOUS
    <3>2. t = With(got, v)
      BY <1>1, <1>2, <1>3, <1>4, <1>8, <2>3, <3>1 DEF HandleRequest
    <3>3. Free(w, k)
      BY <1>5 DEF Free, HasRead
    <3>4. /\ i \in 1..Len(w.members) /\ w.conn[k].req.path = "/wait"
          /\ w.conn[k].req.peer_id = w.members[i].id
      BY <1>1, <1>5, <2>1, <2>3
    <3>5. /\ Lively(v, s.id, Range(s.sockets)) /\ FedBut(w.conn, v.conn, k)
          /\ Serves(w, v, s.id, k)
      BY ONLY k \in Range(s.sockets), <1>5, <3>1, <3>3, <3>4, SetWaitingServes
    <3> QED
      BY ONLY Tidy(s), k \in Range(s.sockets), HasRead(s, got, k, FALSE), Serving(got),
              <1>4, <2>2, <3>2, <3>5, WithTidy
  <2>4. CASE q.path = "/sign_out"
    <3>1. t = Reply(SignedOut(got, i), k, 200)
      BY <1>1, <1>2, <1>3, <1>8, <2>4 DEF HandleRequest, SignedOut
    <3>2. got.conn[k].req.path = "/sign_out" /\ got.conn[k].req.peer_id = got.members[i].id
      BY <1>1, <2>1, <2>4
    <3> QED
      BY ONLY Tidy(s), k \in Range(s.sockets), HasRead(s, got, k, FALSE), Serving(got), ZenonT(60),
              <2>1, <3>1, <3>2, SignOutTidy
  <2>5. CASE q.path = "/message" /\ Lookup(got, q.to) = {}
    <3>1. t = Reply(got, k, 500)
      BY <1>1, <1>2, <1>8, <2>5 DEF HandleRequest
    <3>2. PICK status \in Nat : status = 500
      OBVIOUS
    <3>3. t = Reply(got, k, status) /\ Unasked(got, k)
      BY <1>1, <2>5, <3>1, <3>2 DEF Unasked
    <3> QED
      BY ONLY Tidy(s), k \in Range(s.sockets), HasRead(s, got, k, FALSE), Serving(got),
              status \in Nat, <2>2, <3>3, ReplyTidy
  <2>6. CASE q.path = "/message" /\ Lookup(got, q.to) # {}
    <3>1. PICK from \in Int : from = q.peer_id
      BY <1>0, <1>1
    <3>2. PICK v : v = ForwardRequestToPeer(w, from, q.to, k)
      OBVIOUS
    <3>3. t = With(got, v)
      BY <1>1, <1>2, <1>4, <1>8, <2>6, <3>1, <3>2 DEF HandleRequest
    <3>4. w.conn[k].req.path = "/message"
      BY <1>1, <1>5, <2>6
    <3>5. /\ Lively(v, s.id, Range(s.sockets)) /\ FedBut(w.conn, v.conn, k)
          /\ Serves(w, v, s.id, k)
      BY ONLY k \in Range(s.sockets), from \in Int, <1>5, <3>2, <3>4, ForwardServes
    <3> QED
      BY ONLY Tidy(s), k \in Range(s.sockets), HasRead(s, got, k, FALSE), Serving(got),
              <1>4, <2>2, <3>3, <3>5, WithTidy
  <2> QED
    BY <2>1, <2>3, <2>4, <2>5, <2>6
<1> QED
  BY <1>7, <1>8

-----------------------------------------------------------------------------
(* A pass of the loop *)

(* Only requests longer than a hanging get arrive in parts. *)
Parts(net, part) == \A j \in DOMAIN net : j \in part => net[j].req.path # "/wait"

LEMMA PartsStay ==
  ASSUME NEW a, NEW b, Continues(a, b), NEW part, Parts(a, part)
  PROVE  Parts(b, part)
BY DEF Continues, Parts

LEMMA ServeSocketTidy ==
  ASSUME NEW s, Tidy(s), NEW i \in 1..Len(s.sockets), NEW part, Parts(s.conn, part),
         NEW t, t = ServeSocket(s, i, part)
  PROVE  Tidy(t) /\ Step(s, t)
<1>1. PICK k : k = s.sockets[i]
  OBVIOUS
<1>2. k \in Range(s.sockets) /\ k \in DOMAIN s.conn
  BY <1>1, HeldRange DEF Tidy, Serving
<1>3. CASE s.conn[k].left = 0
  <2>1. t = CloseSocket(s, i)
    BY <1>1, <1>3 DEF ServeSocket
  <2> QED
    BY <2>1, CloseSocketTidy
<1>4. CASE s.conn[k].left # 0 /\ k \in part
  <2>1. PICK some \in BOOLEAN : some = TRUE
    OBVIOUS
  <2>2. PICK y : y = Received(s.conn[k], some)
    OBVIOUS
  <2>3. y = Received(s.conn[k], k \in part)
    BY <1>4, <2>1, <2>2 DEF Received
  <2>4. PICK got : got = [s EXCEPT !.conn = [s.conn EXCEPT ![k] = y]]
    OBVIOUS
  <2>5. t = got
    BY <1>1, <1>4, <2>3, <2>4 DEF ServeSocket
  <2>6. got = [s EXCEPT !.conn = [s.conn EXCEPT ![k] = Received(s.conn[k], some)]]
    BY <2>2, <2>4
  <2>7. HasRead(s, got, k, some) /\ Serving(got)
    BY ONLY Tidy(s), some \in BOOLEAN, <1>2, <1>4, <2>6, ReadFacts
  <2>8. s.conn[k].req.path # "/wait"
    BY <1>2, <1>4 DEF Parts
  <2>9. Tidy(got) /\ Step(s, got)
    BY ONLY Tidy(s), some \in BOOLEAN, <1>2, <2>7, <2>8, ReadSome
  <2> QED
    BY <2>5, <2>9
<1>5. CASE s.conn[k].left # 0 /\ k \notin part
  <2>1. PICK some \in BOOLEAN : some = FALSE
    OBVIOUS
  <2>2. PICK y : y = Received(s.conn[k], some)
    OBVIOUS
  <2>3. y = Received(s.conn[k], k \in part)
    BY <1>5, <2>1, <2>2 DEF Received
  <2>4. PICK got : got = [s EXCEPT !.conn = [s.conn EXCEPT ![k] = y]]
    OBVIOUS
  <2>5. t = HandleRequest(got, k)
    BY <1>1, <1>5, <2>3, <2>4 DEF ServeSocket
  <2>6. got = [s EXCEPT !.conn = [s.conn EXCEPT ![k] = Received(s.conn[k], some)]]
    BY <2>2, <2>4
  <2>7. HasRead(s, got, k, some) /\ Serving(got)
    BY ONLY Tidy(s), some \in BOOLEAN, <1>2, <1>5, <2>6, ReadFacts
  <2>8. HasRead(s, got, k, FALSE)
    BY <2>1, <2>7 DEF HasRead
  <2> QED
    BY ONLY Tidy(s), <1>2, <2>5, <2>7, <2>8, HandleRequestTidy
<1> QED
  BY <1>3, <1>4, <1>5

LEMMA ServeSocketsTidy ==
  ASSUME Tidy(Server), NEW part, Parts(conn, part), NEW t, t = ServeSockets(part)
  PROVE  Tidy(t) /\ Step(Server, t)
<1>1. Server.sockets = sockets /\ Server.conn = conn
  BY DEF Server
<1>2. PICK n \in Nat : n = Len(sockets)
  BY <1>1, HeldRange DEF Tidy, Serving
<1>3. PICK g, ready : /\ IsRun("serve", Server, n, <<ready, part>>, g)
                      /\ ServeSockets(part) = g[n]
  BY <1>2, ServeLoop
<1>4. g[0] = Server /\ \A i \in 1..n : g[i] = ServeTurn(g[i - 1], i, ready, part)
  BY <1>3 DEF IsRun, Turn
<1>5. PICK s0 : s0 = Server
  OBVIOUS
<1> DEFINE OK(x) == Tidy(x) /\ Step(s0, x) /\ Parts(x.conn, part)
           S == {i \in 0..n : OK(g[i])}
<1>6. OK(g[0])
  <2>1. s0.id \in Nat /\ Tidy(s0)
    BY <1>5, TidyLively
  <2>2. Step(s0, s0)
    BY <2>1, StepReflexive
  <2> QED
    BY <1>1, <1>4, <1>5, <2>1, <2>2
<1>7. ASSUME NEW i \in 1..n, OK(g[i - 1]) PROVE OK(g[i])
  <2>1. PICK a : a = g[i - 1] /\ Tidy(a) /\ Step(s0, a) /\ Parts(a.conn, part)
    BY <1>7
  <2>2. PICK b : b = g[i] /\ b = ServeTurn(a, i, ready, part)
    BY <1>4, <2>1
  <2>3. Len(a.sockets) \in Nat
    BY <2>1, HeldRange DEF Tidy, Serving
  <2>4. b = a \/ (i \in 1..Len(a.sockets) /\ b = ServeSocket(a, i, part))
    BY <2>2, <2>3 DEF ServeTurn
  <2>5. CASE b = a
    BY <2>1, <2>2, <2>5
  <2>6. CASE i \in 1..Len(a.sockets) /\ b = ServeSocket(a, i, part)
    <3>1. Tidy(b) /\ Step(a, b)
      BY <2>1, <2>6, ServeSocketTidy
    <3>2. Step(s0, b)
      BY <2>1, <3>1, StepTransitive
    <3>3. Parts(b.conn, part)
      BY <2>1, <3>1, PartsStay DEF Step
    <3> QED
      BY <2>2, <3>1, <3>2, <3>3
  <2> QED
    BY <2>4, <2>5, <2>6
<1>8. OK(g[n])
  <2> HIDE DEF OK
  <2>1. 0 \in S /\ \A i \in 1..n : i - 1 \in S => i \in S
    BY <1>6, <1>7
  <2> HIDE DEF S
  <2>2. n \in S
    BY <2>1, IntervalInduction
  <2> QED
    BY <2>2 DEF S
<1> QED
  BY <1>3, <1>5, <1>8

(* The first connection of the backlog is accepted: its request is still   *)
(* to be received.                                                         *)
IsAccepted(a, b, k) ==
  /\ DOMAIN b = DOMAIN a /\ k \in DOMAIN a /\ a[k].end = "backlog" /\ b[k].end = "accepted"
  /\ b[k].open = a[k].open /\ b[k].req = a[k].req /\ b[k].left = a[k].left
  /\ b[k].resp = a[k].resp
  /\ \A j \in DOMAIN a : j # k => b[j] = a[j]

LEMMA AcceptedTracks ==
  ASSUME NEW ms, NEW a, NEW b, NEW k, IsAccepted(a, b, k),
         a[k].left \in Nat, a[k].left > 0,
         NEW id, NEW j, NEW g, NEW ps, NEW R, Tracked(ms, a, id, j, g, ps, R, NoSocket)
  PROVE  Tracked(ms, b, id, j, g, ps, R, NoSocket)
<1>1. /\ \A l \in 1..Len(ms) : ms[l].id = id => Follows(ms[l], a, j, g, ps, R)
      /\ Hangs(ms, a, id, j, NoSocket) /\ Alone(a, id, j)
  BY DEF Tracked
<1>2. Stream(b, j) = Stream(a, j)
  BY DEF Stream, IsAccepted
<1>3. \A l \in 1..Len(ms) : ms[l].id = id => Follows(ms[l], b, j, g, ps, R)
  BY <1>1, <1>2 DEF Follows, Coming
<1>4. Alone(b, id, j)
  <2>1. ASSUME NEW i \in DOMAIN b, Asks(b[i], id) PROVE i = j
    <3>1. i \in DOMAIN a /\ Asks(a[i], id)
      BY <2>1 DEF IsAccepted, Asks
    <3> QED
      BY <1>1, <3>1 DEF Alone
  <2> QED
    BY <2>1 DEF Alone
<1>5. Hangs(ms, b, id, j, NoSocket)
  <2>1. CASE j = k
    <3>1. b[k].left # 0
      BY DEF IsAccepted
    <3>2. a[k].open /\ a[k].req.path = "/wait" /\ a[k].req.peer_id = id /\ Len(a[k].resp) <= 1
      BY <1>1, <2>1 DEF Hangs, IsAccepted
    <3> QED
      BY <2>1, <3>1, <3>2 DEF Hangs, IsAccepted
  <2>2. CASE j # k
    BY <1>1, <2>2 DEF Hangs, IsAccepted
  <2> QED
    BY <2>1, <2>2
<1> QED
  BY <1>3, <1>4, <1>5 DEF Tracked

LEMMA AcceptedTidy ==
  ASSUME NEW s, Tidy(s), NEW k, NEW t, Serving(t), IsAccepted(s.conn, t.conn, k),
         t.members = s.members, t.id = s.id,
         Range(s.sockets) \cup {k} \subseteq Range(t.sockets)
  PROVE  Tidy(t) /\ Step(s, t)
<1>1. /\ k \in DOMAIN s.conn /\ LinkIsTidy(s.conn[k], s.id) /\ s.id \in Nat /\ Serving(s)
      /\ s.conn[k].end = "backlog"
  BY DEF Tidy, Links, IsAccepted, Serving, IsServer
<1>2. s.conn[k].left \in Nat /\ s.conn[k].left > 0 /\ s.conn[k].resp = <<>>
  BY <1>1 DEF LinkIsTidy
<1>3. Carries(s, t, s.id, NoSocket)
  <2>1. ASSUME NEW id \in 1..s.id, NEW j \in Key \cup {Closed}, NEW g \in Seq(Answer), NEW ps,
               Tracks(s, id, j, g, ps, NoSocket)
        PROVE  Tracks(t, id, j, g, ps, NoSocket)
    <3>1. PICK ms : ms = s.members
      OBVIOUS
    <3>2. PICK R : R = IdsOf(ms) \ {id}
      OBVIOUS
    <3>3. Tracked(ms, s.conn, id, j, g, ps, R, NoSocket)
      BY <2>1, <3>1, <3>2 DEF Tracks
    <3>4. Tracked(ms, t.conn, id, j, g, ps, R, NoSocket)
      BY <1>2, <3>3, AcceptedTracks
    <3> QED
      BY <3>1, <3>2, <3>4 DEF Tracks
  <2> QED
    BY <2>1 DEF Carries
<1>4. Links(t.conn, t.id)
  <2>1. ASSUME NEW j \in DOMAIN t.conn PROVE LinkIsTidy(t.conn[j], s.id)
    <3>1. j \in DOMAIN s.conn /\ LinkIsTidy(s.conn[j], s.id)
      BY DEF Tidy, Links, IsAccepted
    <3>2. CASE j = k
      BY <1>1, <3>1, <3>2 DEF LinkIsTidy, IsAccepted
    <3>3. CASE j # k
      BY <3>1, <3>3 DEF IsAccepted
    <3> QED
      BY <3>2, <3>3
  <2> QED
    BY <2>1 DEF Links
<1>5. Greets(s, t, k)
  BY DEF Greets, Kept, Pending, IsAccepted
<1>6. s.id <= t.id /\ t.id \in Nat
  BY <1>1
<1>7. Welcomes(t, t.id) /\ News(s.conn, t.conn, s.id)
  BY <1>1, <1>3, <1>5, <1>6, WelcomesStay DEF Tidy
<1>8. Idle(t.members, t.conn)
  <2>1. ASSUME NEW i \in 1..Len(s.members), s.members[i].waiting # NoSocket
        PROVE  t.conn[s.members[i].waiting].left = 0
    <3>1. s.members[i].waiting \in DOMAIN s.conn
      BY <1>1, <2>1 DEF Serving, Channel, WaitsOn
    <3>2. s.conn[s.members[i].waiting].left = 0
      BY <2>1 DEF Tidy, Idle
    <3> QED
      BY <3>1, <3>2 DEF IsAccepted
  <2> QED
    BY <2>1 DEF Idle
<1>9. Complete(t.conn, Range(t.sockets))
  BY DEF Tidy, Complete, IsAccepted
<1>10. Continues(s.conn, t.conn)
  BY DEF Continues, IsAccepted
<1> QED
  BY <1>1, <1>3, <1>4, <1>6, <1>7, <1>8, <1>9, <1>10 DEF Tidy, Step

LEMMA FirstOfBacklog ==
  ASSUME NEW s, Serving(s), s.backlog # <<>>, NEW k, k = Head(s.backlog)
  PROVE  k \in DOMAIN s.conn /\ s.conn[k].end = "backlog" /\ k \in Key
<1>1. PICK v : v = s.backlog /\ Held(v, s.conn, "backlog") /\ v # <<>>
  BY DEF Serving
<1>2. PICK n \in Nat : n = Len(v) /\ v \in Seq(Key)
  BY <1>1, HeldRange DEF Held
<1>3. n > 0 /\ k = v[1]
  BY <1>1, <1>2, HeadTailProperties
<1>4. 1 \in 1..n
  BY <1>3
<1>5. k \in Range(v)
  BY <1>1, <1>2, <1>3, <1>4, HeldRange
<1> QED
  BY <1>1, <1>5, HeldRange

LEMMA AcceptTidy ==
  ASSUME NEW s, Tidy(s), s.listening => s.backlog = backlog, NEW t, t = Accept(s)
  PROVE  Tidy(t) /\ Step(s, t)
<1>0. /\ Serving(s) /\ IsServer(s) /\ Net(s.conn) /\ s.id \in Nat /\ Serving(t)
      /\ Held(s.sockets, s.conn, "accepted")
  <2>1. /\ Serving(s) /\ IsServer(s) /\ Net(s.conn) /\ s.id \in Nat
        /\ Held(s.sockets, s.conn, "accepted")
    BY DEF Tidy, Serving, Channel, IsServer
  <2> QED
    BY <2>1, AcceptFacts
<1>1. CASE backlog = <<>> \/ ~s.listening
  <2>1. t = s
    BY <1>1 DEF Accept
  <2> QED
    BY <1>0, <2>1, StepReflexive
<1>2. CASE backlog # <<>> /\ s.listening
  <2>1. PICK k : k = Head(s.backlog)
    OBVIOUS
  <2>2. k \in DOMAIN s.conn /\ s.conn[k].end = "backlog" /\ k \in Key
    BY <1>0, <1>2, <2>1, FirstOfBacklog
  <2>3. PICK u : u = Tail(s.backlog)
    OBVIOUS
  <2>4. CASE Len(s.sockets) >= kMaxConnections
    <3>1. PICK ks : ks = {k}
      OBVIOUS
    <3>2. PICK net : net = Shut(s.conn, ks)
      OBVIOUS
    <3>3. t = [s EXCEPT !.backlog = u, !.conn = net]
      BY <1>2, <2>1, <2>3, <2>4, <3>1, <3>2 DEF Accept
    <3>4. /\ t.members = s.members /\ t.conn = net /\ t.sockets = s.sockets /\ t.id = s.id
      BY <1>0, <3>3 DEF IsServer
    <3>5. IsShut(s.conn, t.conn, ks) /\ t.conn = Shut(s.conn, ks) /\ Fed(s.conn, s.conn)
      BY <1>0, <3>2, <3>4, ShutDetails, FedReflexive
    <3>6. Arrived(s.conn, ks)
      BY <2>2, <3>1 DEF Arrived
    <3>7. Carries(s, t, s.id, NoSocket)
      <4>1. ASSUME NEW id \in 1..s.id, NEW j \in Key \cup {Closed}, NEW g \in Seq(Answer),
                   NEW ps, Tracks(s, id, j, g, ps, NoSocket)
            PROVE  Tracks(t, id, j, g, ps, NoSocket)
        <5>1. PICK ms : ms = s.members
          OBVIOUS
        <5>2. PICK R : R = IdsOf(ms) \ {id}
          OBVIOUS
        <5>3. Tracked(ms, s.conn, id, j, g, ps, R, NoSocket)
          BY <4>1, <5>1, <5>2 DEF Tracks
        <5>4. NoSocket \in ks \cup {NoSocket}
          OBVIOUS
        <5>5. Tracked(ms, t.conn, id, j, g, ps, R, NoSocket)
          BY ONLY <3>5, <3>6, <5>3, <5>4, j \in Key \cup {Closed}, ShutTracks
        <5> QED
          BY <3>4, <5>1, <5>2, <5>5 DEF Tracks
      <4> QED
        BY <4>1 DEF Carries
    <3>8. Complete(t.conn, Range(t.sockets)) /\ Idle(t.members, s.conn)
      BY <3>4, <3>5 DEF Tidy, Complete, IsShut
    <3> QED
      BY ONLY Tidy(s), <1>0, <3>4, <3>5, <3>6, <3>7, <3>8, ShutTidy
  <2>5. CASE ~(Len(s.sockets) >= kMaxConnections)
    <3>1. PICK y : y = [s.conn[k] EXCEPT !.end = "accepted"]
      OBVIOUS
    <3>2. PICK net : net = [s.conn EXCEPT ![k] = y]
      OBVIOUS
    <3>3. PICK ks : ks = Append(s.sockets, k)
      OBVIOUS
    <3>4. t = [s EXCEPT !.backlog = u, !.conn = net, !.sockets = ks]
      BY <1>2, <2>1, <2>3, <2>5, <3>1, <3>2, <3>3 DEF Accept
    <3>5. t.members = s.members /\ t.conn = net /\ t.sockets = ks /\ t.id = s.id
      BY <1>0, <3>4 DEF IsServer
    <3>6. /\ y.open = s.conn[k].open /\ y.end = "accepted" /\ y.req = s.conn[k].req
          /\ y.left = s.conn[k].left /\ y.resp = s.conn[k].resp
      <4>1. IsLink(s.conn[k])
        BY <1>0, <2>2 DEF Net
      <4> QED
        BY <3>1, <4>1 DEF IsLink
    <3>7. /\ DOMAIN net = DOMAIN s.conn
          /\ \A j \in DOMAIN net : net[j] = IF j = k THEN y ELSE s.conn[j]
      BY <3>2
    <3>8. IsAccepted(s.conn, t.conn, k)
      BY <2>2, <3>5, <3>6, <3>7 DEF IsAccepted
    <3>9. Range(s.sockets) \cup {k} \subseteq Range(t.sockets)
      <4>1. PICK m \in Nat : m = Len(s.sockets) /\ s.sockets \in Seq(Key)
        BY <1>0, HeldRange DEF Held
      <4>2. /\ ks \in Seq(Key) /\ Len(ks) = m + 1 /\ ks[m + 1] = k
            /\ \A j \in 1..m : ks[j] = s.sockets[j]
        BY <2>2, <3>3, <4>1, AppendProperties
      <4>3. Range(s.sockets) = {s.sockets[j] : j \in 1..m}
        BY <1>0, <4>1, HeldRange
      <4>4. DOMAIN ks = 1..m + 1
        BY <4>2, LenProperties
      <4>5. Range(ks) = {ks[j] : j \in 1..m + 1}
        BY <4>4 DEF Range
      <4>6. m + 1 \in 1..m + 1 /\ \A j \in 1..m : j \in 1..m + 1
        OBVIOUS
      <4> QED
        BY <3>5, <4>2, <4>3, <4>5, <4>6
    <3> QED
      BY ONLY Tidy(s), <1>0, <3>5, <3>8, <3>9, AcceptedTidy
  <2> QED
    BY <2>4, <2>5
<1> QED
  BY <1>1, <1>2

LEMMA AllServedTidy ==
  ASSUME Tidy(Server), NEW part, Parts(conn, part), NEW t, t = AllServed(part)
  PROVE  /\ Tidy(t) /\ Step(Server, t)
         /\ t.listening => listening /\ t.backlog = backlog
<1>1. PICK s : s = ServeSockets(part)
  OBVIOUS
<1>2. Tidy(s) /\ Step(Server, s)
  BY <1>1, ServeSocketsTidy
<1>3. PICK p : p = Pair(s)
  OBVIOUS
<1>4. PICK w : w = CheckForTimeout(p)
  OBVIOUS
<1>5. SamePair(s, p) /\ p.conn = s.conn
  BY <1>3, PairFacts DEF SamePair
<1>6. Lively(p, s.id, Range(s.sockets))
  BY <1>2, <1>5, TidyLively, SamePairLively
<1>7. /\ Lively(w, s.id, Range(s.sockets)) /\ Fed(s.conn, w.conn)
      /\ Carries(s, w, s.id, NoSocket)
  <2>1. /\ Lively(w, s.id, Range(s.sockets)) /\ Fed(p.conn, w.conn)
        /\ Carries(p, w, s.id, NoSocket)
    BY <1>4, <1>6, CheckForTimeoutCarries
  <2>2. Carries(s, p, s.id, NoSocket)
    BY <1>5, SamePairCarries
  <2> QED
    BY <1>5, <2>1, <2>2, CarriesTransitive
<1>8. t = With(s, w)
  BY <1>1, <1>3, <1>4 DEF AllServed
<1>9. Tidy(t) /\ Step(s, t)
  BY <1>2, <1>7, <1>8, TidyWith
<1>10. Step(Server, t)
  BY <1>2, <1>9, StepTransitive
<1>11. t.listening => listening /\ t.backlog = backlog
  BY AllServedFacts DEF Tidy
<1> QED
  BY <1>9, <1>10, <1>11

LEMMA OutcomeTidy ==
  ASSUME Tidy(Server), NEW part, Parts(conn, part), NEW e, e = Outcome(part)
  PROVE  Tidy(e) /\ Step(Server, e) /\ (e.listening => listening)
<1>1. PICK t : t = AllServed(part)
  OBVIOUS
<1>2. /\ Tidy(t) /\ Step(Server, t)
      /\ t.listening => listening /\ t.backlog = backlog
  BY <1>1, AllServedTidy
<1>3. e = Accept(t)
  BY <1>1 DEF Outcome
<1>4. Tidy(e) /\ Step(t, e)
  BY <1>2, <1>3, AcceptTidy
<1>5. e.listening = t.listening
  BY <1>2, <1>3 DEF Accept, IsServer, Tidy, Serving
<1> QED
  BY <1>2, <1>4, <1>5, StepTransitive

(* A request that arrives in pieces is not a /wait. *)
LEMMA CutFacts ==
  ASSUME Tidy(Server), NEW part \in Cut PROVE Parts(conn, part)
<1>1. ASSUME NEW j \in DOMAIN conn, j \in part, conn[j].req.path = "/wait" PROVE FALSE
  <2>1. conn[j].left > 1
    BY <1>1 DEF Cut
  <2>2. LinkIsTidy(conn[j], s_member_id)
    BY <1>1 DEF Tidy, Links, Server
  <2>3. conn[j].left \in Nat /\ conn[j].left <= 1
    BY <1>1, <2>2 DEF LinkIsTidy
  <2> QED
    BY <2>1, <2>3
<1> QED
  BY <1>1 DEF Parts

LEMMA GoesTidy ==
  ASSUME NEW e, Tidy(e), Step(Server, e), ServerNet(conn, e.conn), e.listening => listening,
         Goes(e)
  PROVE  Tidy(Server)' /\ Step(Server, Server') /\ (listening' => listening)
<1>1. PICK t : t = Server'
  OBVIOUS
<1>2. SamePair(e, t) /\ t.id = e.id /\ t.sockets = e.sockets
  BY <1>1 DEF Server, Goes, SamePair
<1>3. Serving(t)
  BY <1>1, GoesFacts DEF Tidy
<1>4. Tidy(t) /\ Step(e, t)
  BY ONLY Tidy(e), <1>2, <1>3, SameTidy
<1> QED
  BY <1>1, <1>4, StepTransitive DEF Goes

LEMMA StopsTidy ==
  ASSUME NEW e, Tidy(e), Step(Server, e), ServerNet(conn, e.conn), Stops(e)
  PROVE  Tidy(Server)' /\ Step(Server, Server') /\ (listening' => listening)
<1>1. PICK t : t = Server'
  OBVIOUS
<1>2. PICK ks : ks = Range(e.sockets) \union Range(e.backlog)
  OBVIOUS
<1>3. /\ t.conn = Shut(e.conn, ks) /\ t.id = e.id /\ t.members = <<>>
      /\ Len(t.members) = 0 /\ t.sockets = <<>>
  BY <1>1, <1>2 DEF Server, Stops
<1>4. Serving(t)
  BY <1>1, StopsFacts DEF Tidy
<1>5. Net(e.conn) /\ Fed(e.conn, e.conn) /\ Complete(e.conn, ks)
  <2>1. Complete(e.conn, Range(e.sockets))
    BY DEF Tidy
  <2>2. Complete(e.conn, ks)
    BY <1>2, <2>1 DEF Complete
  <2> QED
    BY <2>2, FedReflexive DEF Tidy, Serving, Channel
<1>6. IsShut(e.conn, t.conn, ks)
  BY <1>3, <1>5, ShutDetails
<1>7. Arrived(e.conn, ks)
  <2>1. /\ \A k \in Range(e.sockets) : e.conn[k].end = "accepted"
        /\ \A k \in Range(e.backlog) : e.conn[k].end = "backlog"
    BY HeldRange DEF Tidy, Serving
  <2> QED
    BY <1>2, <2>1 DEF Arrived
<1>8. Carries(e, t, e.id, NoSocket)
  <2>1. ASSUME NEW id \in 1..e.id, NEW j \in Key \cup {Closed}, NEW g \in Seq(Answer),
               NEW ps, Tracks(e, id, j, g, ps, NoSocket)
        PROVE  Tracks(t, id, j, g, ps, NoSocket)
    <3>1. PICK R : R = IdsOf(e.members) \ {id}
      OBVIOUS
    <3>2. PICK Q : Q = IdsOf(t.members) \ {id}
      OBVIOUS
    <3>3. Tracked(e.members, e.conn, id, j, g, ps, R, NoSocket)
      BY <2>1, <3>1 DEF Tracks
    <3>4. PICK vs : vs = t.members /\ Len(vs) = 0
      BY <1>3
    <3>5. Tracked(vs, t.conn, id, j, g, ps, Q, NoSocket)
      BY ONLY <1>5, <1>6, <1>7, <3>3, <3>4, j \in Key \cup {Closed}, DownTracks
    <3> QED
      BY <3>2, <3>4, <3>5 DEF Tracks
  <2> QED
    BY <2>1 DEF Carries
<1>9. Complete(t.conn, Range(t.sockets))
  BY <1>5, <1>6 DEF Complete, IsShut
<1>10. Idle(t.members, e.conn)
  BY <1>3 DEF Idle
<1>11. Tidy(t) /\ Step(e, t)
  BY ONLY Tidy(e), <1>3, <1>4, <1>5, <1>7, <1>8, <1>9, <1>10, ShutTidy
<1> QED
  BY <1>1, <1>11, StepTransitive DEF Stops

LEMMA PassTidy ==
  ASSUME Tidy(Server), Pass
  PROVE  Tidy(Server)' /\ Step(Server, Server') /\ (listening' => listening)
<1>1. PICK part \in Cut : Goes(Outcome(part)) \/ Stops(Outcome(part))
  BY DEF Pass
<1>2. PICK e : e = Outcome(part)
  OBVIOUS
<1>3. Tidy(e) /\ Step(Server, e) /\ (e.listening => listening) /\ ServerNet(conn, e.conn)
  BY <1>2, CutFacts, OutcomeTidy, OutcomeFacts DEF Tidy
<1> QED
  BY <1>1, <1>2, <1>3, GoesTidy, StopsTidy

LEMMA FailureTidy ==
  ASSUME Tidy(Server), AcceptFails \/ SelectFails
  PROVE  Tidy(Server)' /\ Step(Server, Server') /\ (listening' => listening)
<1>1. CASE AcceptFails
  <2>1. PICK part \in Cut : Goes(AllServed(part)) \/ Stops(AllServed(part))
    BY <1>1 DEF AcceptFails
  <2>2. PICK e : e = AllServed(part)
    OBVIOUS
  <2>3. Tidy(e) /\ Step(Server, e) /\ (e.listening => listening) /\ ServerNet(conn, e.conn)
    BY <2>2, CutFacts, AllServedTidy, AllServedFacts DEF Tidy
  <2> QED
    BY <2>1, <2>2, <2>3, GoesTidy, StopsTidy
<1>2. CASE SelectFails
  <2>1. PICK e : e = Server /\ e.conn = conn
    BY DEF Server
  <2>2. Tidy(e) /\ Step(Server, e) /\ ServerNet(conn, e.conn) /\ Stops(e)
    BY <1>2, <2>1, StepReflexive DEF SelectFails, ServerNet, Tidy, Serving, IsServer
  <2> QED
    BY <2>2, StopsTidy
<1> QED
  BY <1>1, <1>2

LEMMA TickTidy ==
  ASSUME Tidy(Server), Tick
  PROVE  Tidy(Server)' /\ Step(Server, Server') /\ (listening' => listening)
<1>1. PICK s : s = Server
  OBVIOUS
<1>2. PICK t : t = Server'
  OBVIOUS
<1>3. /\ s.members = members /\ s.conn = conn /\ s.sockets = sockets /\ s.id = s_member_id
      /\ t.members = members' /\ t.conn = conn /\ t.sockets = sockets /\ t.id = s_member_id
  BY <1>1, <1>2 DEF Server, Tick
<1>4. Serving(t) /\ Tidy(s) /\ Serving(s) /\ s.id \in Nat
  BY <1>1, <1>2, TickFacts DEF Tidy, Serving, IsServer
<1>5. PICK n \in Nat : n = Len(members) /\ members \in Seq(Peer) /\ DOMAIN members = 1..n
  BY <1>3, <1>4, MembersFacts DEF Serving, Channel
<1>6. Len(members') = n
  <2>1. Len(members') \in Nat /\ DOMAIN members' = 1..Len(members')
    BY <1>3, <1>4, MembersFacts DEF Serving, Channel
  <2>2. DOMAIN members' = 1..n
    BY <1>5, SMTT(30) DEF Tick
  <2>3. PICK m \in Nat : m = Len(members') /\ 1..m = 1..n
    BY <2>1, <2>2
  <2>4. CASE m > n
    <3>1. m \in 1..m /\ m \notin 1..n
      BY <2>4
    <3> QED
      BY <2>3, <3>1
  <2>5. CASE m < n
    <3>1. n \in 1..n /\ n \notin 1..m
      BY <2>5
    <3> QED
      BY <2>3, <3>1
  <2> QED
    BY <2>3, <2>4, <2>5
<1>7. \A i \in 1..n :
        /\ members'[i].id = members[i].id /\ members'[i].connected = members[i].connected
        /\ members'[i].queue = members[i].queue /\ members'[i].log = members[i].log
        /\ members'[i].waiting = members[i].waiting
  <2>1. \A m \in Peer : LET a == [m EXCEPT !.age = m.age + 1]
                        IN  /\ a.id = m.id /\ a.connected = m.connected /\ a.queue = m.queue
                            /\ a.log = m.log /\ a.waiting = m.waiting
    BY DEF Peer
  <2>2. \A i \in 1..n : members[i] \in Peer
    BY <1>5, MembersFacts
  <2>3. \A i \in 1..n : members'[i] = IF Ages(members[i])
                                        THEN [members[i] EXCEPT !.age = members[i].age + 1]
                                        ELSE members[i]
    BY <1>5 DEF Tick
  <2> QED
    BY <2>1, <2>2, <2>3, ZenonT(60)
<1>8. SameStreams(s.members, t.members, NoSocket)
  BY <1>3, <1>5, <1>6, <1>7 DEF SameStreams
<1>9. Carries(s, t, s.id, NoSocket)
  BY <1>3, <1>8, SameStreamsCarry
<1>10. PICK k : k = NoSocket
  OBVIOUS
<1>11. Greets(s, t, k)
  BY <1>3 DEF Greets, Kept, Pending
<1>12. s.id <= t.id /\ t.id \in Nat
  BY <1>3, <1>4
<1>13. Welcomes(t, t.id) /\ News(s.conn, t.conn, s.id)
  BY <1>4, <1>9, <1>11, <1>12, WelcomesStay DEF Tidy
<1>14. Idle(t.members, t.conn)
  <2>1. Idle(s.members, s.conn)
    BY <1>4 DEF Tidy
  <2> QED
    BY <1>3, <1>5, <1>6, <1>7, <2>1 DEF Idle
<1>15. Continues(s.conn, t.conn)
  BY <1>3 DEF Continues
<1>16. Tidy(t) /\ Step(s, t)
  BY <1>3, <1>4, <1>9, <1>12, <1>13, <1>14, <1>15 DEF Tidy, Step
<1> QED
  BY <1>1, <1>2, <1>16 DEF Tick

-----------------------------------------------------------------------------
(* The clients see a step of the server *)

LEMMA SocketKeys ==
  ASSUME NEW k, NEW c, NEW net, Net(net), Socket(k, c, net), k \in DOMAIN net
  PROVE  net[k].open /\ k[1] = c /\ k \in Key
BY NoKey DEF Socket, Net

(* What a client can tell about its sockets is as before. *)
Seen(k, a, b) ==
  /\ k \in DOMAIN b <=> k \in DOMAIN a
  /\ k \in DOMAIN a => b[k].req = a[k].req /\ (b[k].end = "syn" <=> a[k].end = "syn")

LEMMA LocalStays ==
  ASSUME NEW x, NEW a, NEW b, NEW ls, NEW ms, NEW n \in Nat, NEW m \in Nat,
         Local(x, a, ls, n), n <= m, ms => ls, Seen(x.control, a, b), Seen(x.hanging, a, b)
  PROVE  Local(x, b, ms, m)
<1>1. x.my_id = -1 \/ x.my_id \in 1..m
  <2>1. \A i \in 1..n : i \in 1..m
    OBVIOUS
  <2> QED
    BY <2>1 DEF Local
<1>2. x.control \in DOMAIN a => Task(x, b) = Task(x, a)
  BY DEF Task, Seen
<1>3. Wired(x, b, ms)
  BY <1>2 DEF Local, Wired, Seen
<1>4. Unused(x, a, ls) => Unused(x, b, ms)
  BY DEF Unused, Seen
<1> QED
  BY <1>1, <1>3, <1>4 DEF Local, Seen

LEMMA ServerStepUsers ==
  ASSUME Tidy(Server), Clients, Users, cl' = cl, ServerNet(conn, conn'),
         Tidy(Server)', Step(Server, Server'), listening' => listening
  PROVE  Users'
<1>1. PICK s : s = Server /\ Tidy(s) /\ s.conn = conn /\ s.id = s_member_id /\ s.members = members
  BY DEF Server
<1>2. PICK t : /\ t = Server' /\ t.conn = conn' /\ t.id = s_member_id' /\ Tidy(t)
               /\ t.members = members'
  BY DEF Server
<1>3. /\ s.id \in Nat /\ t.id \in Nat /\ s.id <= t.id /\ Carries(s, t, s.id, NoSocket)
      /\ Continues(conn, conn') /\ News(conn, conn', s.id)
  BY <1>1, <1>2 DEF Step
<1>4. Net(conn)
  BY <1>1 DEF Tidy, Serving, Channel
<1>5. ASSUME NEW c \in Client, NEW k, Socket(k, c, conn) PROVE Seen(k, conn, conn')
  <2>1. k \in DOMAIN conn => conn[k].open
    BY <1>4, <1>5, SocketKeys
  <2> QED
    BY <1>3, <2>1 DEF Seen, Continues, ServerNet
<1>6. ASSUME NEW c \in Client PROVE Local(cl'[c], conn', listening', s_member_id')
  <2>1. PICK x : x = cl[c]
    OBVIOUS
  <2>2. Seen(x.control, conn, conn') /\ Seen(x.hanging, conn, conn')
    BY <1>5, <2>1 DEF Clients, Sockets
  <2>3. Local(x, conn, listening, s.id)
    BY <1>1, <2>1 DEF Users
  <2>4. Local(x, conn', listening', t.id)
    BY <1>3, <2>2, <2>3, LocalStays
  <2> QED
    BY <1>2, <2>1, <2>4
<1>7. ASSUME NEW c \in Client PROVE Unique(cl'[c], conn')
  <2>1. PICK x : x = cl[c] /\ Unique(x, conn) /\ Local(x, conn, listening, s.id)
    BY <1>1 DEF Users
  <2>2. ASSUME NEW j \in DOMAIN conn', Pending(conn', j) PROVE x.my_id # conn'[j].resp[1].pragma
    <3>1. CASE Kept(conn, conn', j)
      BY <2>1, <3>1 DEF Unique, Kept, Pending
    <3>2. CASE conn'[j].resp[1].pragma \notin 1..s.id
      <4>1. Welcome(t, j, t.id)
        BY <1>2, <2>2 DEF Tidy, Welcomes
      <4>2. conn'[j].resp[1].pragma \in 1..t.id
        BY <1>2, <4>1 DEF Welcome
      <4>3. -1 \notin 1..t.id
        BY <1>3
      <4> QED
        BY <2>1, <3>2, <4>2, <4>3 DEF Local
    <3> QED
      BY <1>3, <2>2, <3>1, <3>2 DEF News
  <2> QED
    BY <2>1, <2>2 DEF Unique
<1>8. ASSUME NEW c \in Client, Signed(c)
      PROVE  Tracks(t, cl[c].my_id, cl[c].hanging, cl[c].got, cl[c].peers, NoSocket)
  <2>1. PICK x : x = cl[c] /\ x.state = "CONNECTED" /\ Local(x, conn, listening, s.id)
                 /\ Tracks(s, x.my_id, x.hanging, x.got, x.peers, NoSocket)
    BY <1>1, <1>8 DEF Users, Signed
  <2>2. x.my_id \in 1..s.id /\ x.hanging \in DOMAIN conn /\ x.got \in Seq(Answer)
    BY <2>1 DEF Local
  <2>3. x.hanging \in Key \cup {Closed}
    BY <1>4, <2>2 DEF Net
  <2>4. Tracks(t, x.my_id, x.hanging, x.got, x.peers, NoSocket)
    BY <1>3, <2>1, <2>2, <2>3 DEF Carries
  <2> QED
    BY <2>1, <2>4
<1>9. \A c, d \in Client : cl'[c].my_id = cl'[d].my_id /\ cl'[c].my_id # -1 => c = d
  BY DEF Users
<1> QED
  BY <1>2, <1>6, <1>7, <1>8, <1>9 DEF Users, Signed

-----------------------------------------------------------------------------
(* What a client does to the connections without sending a request *)

(* A connection of which the server knows nothing yet. *)
Calm(l) == l.end = "syn" /\ l.resp = <<>> /\ l.left = 0

(* A connection as it was, or closed at the client's end. *)
Fell(l, m) ==
  \/ m = l
  \/ /\ m.end = l.end /\ m.left = l.left /\ m.req = l.req
     /\ ~m.open /\ m.resp = <<>>

(* Client c opens and closes its own connections only. *)
Quiet(a, b, c) ==
  /\ \A j \in DOMAIN a : j[1] # c => j \in DOMAIN b /\ b[j] = a[j]
  /\ \A j \in DOMAIN b : j[1] # c => j \in DOMAIN a
  /\ \A j \in DOMAIN b : Calm(b[j]) \/ (j \in DOMAIN a /\ Fell(a[j], b[j]))

Same(a, b, k) == (k \in DOMAIN b <=> k \in DOMAIN a) /\ (k \in DOMAIN a => b[k] = a[k])

LEMMA QuietReflexive == \A a, c : Quiet(a, a, c)
BY DEF Quiet, Fell

LEMMA FellAgain ==
  ASSUME NEW l, NEW m, NEW o, Fell(m, o)
  PROVE  /\ Calm(m) => Calm(o)
         /\ Fell(l, m) => Fell(l, o)
BY DEF Fell, Calm

LEMMA QuietTransitive ==
  ASSUME NEW a, NEW b, NEW d, NEW c, Quiet(a, b, c), Quiet(b, d, c)
  PROVE  Quiet(a, d, c)
<1>1. ASSUME NEW j \in DOMAIN d PROVE Calm(d[j]) \/ (j \in DOMAIN a /\ Fell(a[j], d[j]))
  <2>1. CASE Calm(d[j])
    BY <2>1
  <2>2. CASE j \in DOMAIN b /\ Fell(b[j], d[j])
    <3>1. Calm(b[j]) \/ (j \in DOMAIN a /\ Fell(a[j], b[j]))
      BY <2>2 DEF Quiet
    <3> QED
      BY <2>2, <3>1, FellAgain
  <2> QED
    BY <2>1, <2>2 DEF Quiet
<1> QED
  BY <1>1 DEF Quiet

LEMMA HangQuiet ==
  ASSUME NEW a, Net(a), NEW c, NEW ks, \A k \in ks \cap DOMAIN a : k[1] = c
  PROVE  Quiet(a, Hang(a, ks), c) /\ \A k : k \notin ks => Same(a, Hang(a, ks), k)
<1> DEFINE left == {k \in DOMAIN a : k \notin ks \/ a[k].end \in {"backlog", "accepted"}}
           y(k) == [a[k] EXCEPT !.open = FALSE, !.resp = <<>>]
<1>1. PICK b : b = Hang(a, ks)
  OBVIOUS
<1>2. b = [k \in left |-> IF k \in ks THEN y(k) ELSE a[k]]
  BY <1>1 DEF Hang
<1>3. \A k \in DOMAIN a : Fell(a[k], y(k))
  <2>1. ASSUME NEW x, IsLink(x)
        PROVE  Fell(x, [x EXCEPT !.open = FALSE, !.resp = <<>>])
    <3>1. PICK e \in Seq(Answer) : e = <<>>
      BY EmptySeq, Zenon
    <3>2. PICK z : z = [x EXCEPT !.open = FALSE, !.resp = e]
      OBVIOUS
    <3>3. z.end = x.end /\ z.req = x.req /\ z.left = x.left /\ ~z.open /\ z.resp = e
      BY <2>1, <3>2 DEF IsLink
    <3> QED
      BY <3>1, <3>2, <3>3 DEF Fell
  <2> QED
    BY <2>1 DEF Net
<1> HIDE DEF y
<1>4. DOMAIN b = left
  BY <1>2
<1>5. \A k \in left : b[k] = IF k \in ks THEN y(k) ELSE a[k]
  BY <1>2
<1>6. \A k \in DOMAIN b : k \in DOMAIN a /\ Fell(a[k], b[k])
  BY <1>3, <1>4, <1>5 DEF Fell
<1>7. \A k : k \notin ks => Same(a, b, k)
  BY <1>4, <1>5 DEF Same
<1>8. Quiet(a, b, c)
  BY <1>4, <1>5, <1>6 DEF Quiet
<1> QED
  BY <1>1, <1>7, <1>8

(* A socket that has just been opened by the client. *)
Opened(a, b, k) ==
  /\ k \in DOMAIN b /\ Calm(b[k]) /\ b[k].open
  /\ k \notin DOMAIN a
  /\ \A j : j # k => Same(a, b, j)

LEMMA DialQuiet ==
  ASSUME NEW a, NEW k, k \notin DOMAIN a
  PROVE  Quiet(a, Dial(a, k), k[1]) /\ Opened(a, Dial(a, k), k)
<1>1. PICK b : b = Dial(a, k)
  OBVIOUS
<1>2. PICK y : y = [open |-> TRUE, end |-> "syn", left |-> 0, resp |-> <<>>,
                    req |-> NoRequest]
  OBVIOUS
<1>3. Calm(y) /\ y.open
  BY <1>2 DEF Calm
<1>4. b = [j \in DOMAIN a \cup {k} |-> IF j = k THEN y ELSE a[j]]
  BY <1>1, <1>2 DEF Dial
<1>5. DOMAIN b = DOMAIN a \cup {k} /\ b[k] = y /\ \A j \in DOMAIN a : b[j] = a[j]
  BY <1>4
<1>6. Opened(a, b, k)
  BY <1>3, <1>5 DEF Opened, Same
<1>7. Quiet(a, b, k[1])
  BY <1>3, <1>5 DEF Quiet, Fell
<1> QED
  BY <1>1, <1>6, <1>7

-----------------------------------------------------------------------------
(* The streams of the clients after such a step *)

LEMMA QuietAsks ==
  ASSUME NEW a, NEW b, NEW c, Quiet(a, b, c), NEW j \in DOMAIN b, NEW id, Asks(b[j], id)
  PROVE  j \in DOMAIN a /\ Asks(a[j], id)
<1>1. ~Calm(b[j])
  BY DEF Calm, Asks
<1>2. j \in DOMAIN a /\ Fell(a[j], b[j])
  BY <1>1 DEF Quiet
<1> QED
  BY <1>2 DEF Fell, Asks

LEMMA QuietPending ==
  ASSUME NEW a, NEW b, NEW c, Quiet(a, b, c), NEW j, Pending(b, j)
  PROVE  Pending(a, j) /\ b[j] = a[j]
<1>1. j \in DOMAIN b /\ b[j].open /\ b[j].resp # <<>>
  BY DEF Pending
<1>2. ~Calm(b[j])
  BY <1>1 DEF Calm
<1>3. j \in DOMAIN a /\ Fell(a[j], b[j])
  BY <1>1, <1>2 DEF Quiet
<1>4. b[j] = a[j]
  BY <1>1, <1>3 DEF Fell
<1> QED
  BY <1>3, <1>4 DEF Pending

LEMMA QuietTracked ==
  ASSUME NEW ms, NEW a, NEW b, NEW id, NEW k, NEW g, NEW ps, NEW R, NEW x, NEW c,
         Tracked(ms, a, id, k, g, ps, R, x), Quiet(a, b, c), Same(a, b, k)
  PROVE  Tracked(ms, b, id, k, g, ps, R, x)
<1>1. Stream(b, k) = Stream(a, k)
  BY DEF Stream, Same
<1>2. \A i \in 1..Len(ms) : ms[i].id = id => Follows(ms[i], b, k, g, ps, R)
  <2>1. ASSUME NEW m, Follows(m, a, k, g, ps, R) PROVE Follows(m, b, k, g, ps, R)
    BY <1>1, <2>1 DEF Follows, Coming
  <2> QED
    BY <2>1 DEF Tracked
<1>3. Hangs(ms, b, id, k, x)
  BY DEF Tracked, Hangs, Same
<1>4. Alone(b, id, k)
  <2>1. ASSUME NEW j \in DOMAIN b, Asks(b[j], id) PROVE j = k
    <3>1. j \in DOMAIN a /\ Asks(a[j], id)
      BY <2>1, QuietAsks
    <3> QED
      BY <3>1 DEF Tracked, Alone
  <2> QED
    BY <2>1 DEF Alone
<1> QED
  BY <1>2, <1>3, <1>4 DEF Tracked

LEMMA QuietTidy ==
  ASSUME NEW s, NEW t, NEW c, Tidy(s), Serving(t), t.members = s.members,
         t.sockets = s.sockets, t.id = s.id, Quiet(s.conn, t.conn, c)
  PROVE  Tidy(t)
<1>1. PICK a : a = s.conn /\ Net(a)
  BY DEF Tidy, Serving, Channel
<1>2. PICK b : b = t.conn /\ Net(b) /\ Quiet(a, b, c)
  BY <1>1 DEF Serving, Channel
<1>3. PICK ms : ms = s.members /\ ms \in Seq(Peer)
  BY DEF Tidy, Serving, Channel
<1>4. PICK id \in Nat : id = s.id
  BY DEF Tidy, Serving, IsServer
<1>5. Links(b, id)
  <2>1. ASSUME NEW j \in DOMAIN b PROVE LinkIsTidy(b[j], id)
    <3>1. CASE Calm(b[j])
      BY <3>1 DEF LinkIsTidy, Calm
    <3>2. CASE j \in DOMAIN a /\ Fell(a[j], b[j])
      <4>1. LinkIsTidy(a[j], id)
        BY <1>1, <1>4, <3>2 DEF Tidy, Links
      <4> QED
        BY <3>2, <4>1 DEF LinkIsTidy, Fell
    <3> QED
      BY <1>2, <3>1, <3>2 DEF Quiet
  <2> QED
    BY <2>1 DEF Links
<1>6. Idle(ms, b)
  <2>1. ASSUME NEW i \in 1..Len(ms), ms[i].waiting # NoSocket PROVE b[ms[i].waiting].left = 0
    <3>1. PICK k : k = ms[i].waiting
      OBVIOUS
    <3>2. k \in Range(t.sockets) /\ k \in DOMAIN b
      BY <1>2, <1>3, <2>1, <3>1 DEF Serving, Channel, WaitsOn
    <3>3. b[k].end = "accepted"
      <4>1. Held(t.sockets, b, "accepted")
        BY <1>2 DEF Serving
      <4> QED
        BY <3>2, <4>1, HeldRange
    <3>4. k \in DOMAIN a /\ Fell(a[k], b[k])
      BY <1>2, <3>2, <3>3 DEF Quiet, Calm
    <3>5. a[k].left = 0
      BY <1>1, <1>3, <2>1, <3>1 DEF Tidy, Idle
    <3> QED
      BY <3>1, <3>4, <3>5 DEF Fell
  <2> QED
    BY <2>1 DEF Idle
<1>7. Complete(b, Range(t.sockets))
  <2>1. ASSUME NEW j \in DOMAIN b, b[j].end = "accepted" PROVE j \in Range(s.sockets)
    <3>1. j \in DOMAIN a /\ Fell(a[j], b[j])
      BY <1>2, <2>1 DEF Quiet, Calm
    <3>2. a[j].end = "accepted"
      BY <2>1, <3>1 DEF Fell
    <3> QED
      BY <1>1, <3>1, <3>2 DEF Tidy, Complete
  <2> QED
    BY <2>1 DEF Complete
<1>8. ASSUME NEW j \in DOMAIN b, Pending(b, j)
      PROVE  j \in DOMAIN a /\ Pending(a, j) /\ b[j] = a[j] /\ Welcome(t, j, id)
  <2>1. Pending(a, j) /\ b[j] = a[j] /\ j \in DOMAIN a
    BY <1>2, <1>8, QuietPending DEF Pending
  <2>2. Welcome(s, j, id)
    BY <1>1, <1>4, <2>1 DEF Tidy, Welcomes
  <2>3. Same(a, b, Closed)
    BY <1>1, <1>2, NoKey DEF Same, Net
  <2>4. ASSUME NEW q, NEW ps, NEW R, Tracked(ms, a, q, Closed, <<>>, ps, R, NoSocket)
        PROVE  Tracked(ms, b, q, Closed, <<>>, ps, R, NoSocket)
    BY ONLY <1>2, <2>3, <2>4, QuietTracked
  <2>5. Welcome(t, j, id)
    BY <1>1, <1>2, <1>3, <2>1, <2>2, <2>4 DEF Welcome, Tracks
  <2> QED
    BY <2>1, <2>5
<1>9. Welcomes(t, id)
  <2>1. ASSUME NEW i \in DOMAIN b, NEW j \in DOMAIN b, Pending(b, i), Pending(b, j),
               b[i].resp[1].pragma = b[j].resp[1].pragma
        PROVE  i = j
    <3>1. /\ i \in DOMAIN a /\ Pending(a, i) /\ b[i] = a[i]
          /\ j \in DOMAIN a /\ Pending(a, j) /\ b[j] = a[j]
      BY <1>8, <2>1
    <3>2. a[i].resp[1].pragma = a[j].resp[1].pragma
      BY <2>1, <3>1
    <3> QED
      BY <1>1, <3>1, <3>2 DEF Tidy, Welcomes
  <2> QED
    BY <1>2, <1>8, <2>1 DEF Welcomes
<1> QED
  BY <1>2, <1>3, <1>4, <1>5, <1>6, <1>7, <1>9 DEF Tidy

(* The id of client c after a step: its own, none, or one that nobody has  *)
(* and no sign-in under way will get.                                      *)
NewId(id, c, net) ==
  \/ id = -1 \/ id = cl[c].my_id
  \/ /\ \A d \in Client : d # c => cl[d].my_id # id
     /\ \A j \in DOMAIN net : Pending(net, j) => net[j].resp[1].pragma # id

Followed(x, w) ==
  x.state = "CONNECTED" => Tracks(w, x.my_id, x.hanging, x.got, x.peers, NoSocket)

(* What a step of client c that sends no request has to show. *)
LEMMA QuietStep ==
  ASSUME DInv, NEW c \in Client, Moves(c), UNCHANGED <<serverVars, backlog, listening>>,
         NEW y, cl' = [cl EXCEPT ![c] = y], Quiet(conn, conn', c),
         Local(y, conn', listening, s_member_id), NewId(y.my_id, c, conn'),
         Followed(y, [members |-> members, conn |-> conn'])
  PROVE  DInv'
<1>1. PICK s : /\ s = Server /\ Tidy(s) /\ s.conn = conn /\ s.id = s_member_id
               /\ s.members = members /\ s.sockets = sockets
  BY DEF Server, DInv
<1>2. UNCHANGED <<members, s_member_id, sockets>>
  BY DEF serverVars
<1>3. PICK t : /\ t = Server' /\ t.conn = conn' /\ t.id = s_member_id
               /\ t.members = members /\ t.sockets = sockets
  <2>1. PICK t : t = Server'
    OBVIOUS
  <2>2. /\ t.conn = conn' /\ t.id = s_member_id
        /\ t.members = members /\ t.sockets = sockets
    BY ONLY <1>2, <2>1 DEF Server
  <2> QED
    BY <2>1, <2>2
<1>4. Serving(t)
  <2>1. Arrives
    BY DEF Arrives
  <2> QED
    BY <1>1, <1>3, <2>1, ServingStays DEF Tidy, Moves
<1>5. Tidy(t)
  BY <1>1, <1>3, <1>4, QuietTidy
<1>6. Net(conn) /\ Net(conn')
  BY <1>1 DEF Tidy, Serving, Channel, Moves
<1>7. cl'[c] = y /\ \A d \in Client : d # c => cl'[d] = cl[d]
  BY DEF DInv, Clients
<1>8. PICK n \in Nat : n = s_member_id
  BY <1>1 DEF Tidy, Serving, IsServer
<1>9. ASSUME NEW j \in DOMAIN conn', Pending(conn', j)
      PROVE  /\ j \in DOMAIN conn /\ Pending(conn, j) /\ conn'[j] = conn[j]
             /\ conn'[j].resp[1].pragma # -1
  <2>1. Pending(conn, j) /\ conn'[j] = conn[j] /\ j \in DOMAIN conn
    BY <1>9, QuietPending DEF Pending
  <2>2. conn'[j].resp[1].pragma \in 1..n
    BY <1>3, <1>5, <1>8, <1>9 DEF Tidy, Welcomes, Welcome
  <2>3. -1 \notin 1..n
    OBVIOUS
  <2> QED
    BY <2>1, <2>2, <2>3
<1>10. \A d \in Client : Unique(cl[d], conn')
  <2>1. \A d \in Client : Unique(cl[d], conn)
    BY DEF DInv, Users
  <2> QED
    BY <1>9, <2>1 DEF Unique
<1>11. Unique(y, conn')
  BY <1>9, <1>10 DEF Unique, NewId
<1>12. ASSUME NEW d \in Client, d # c
       PROVE  /\ Local(cl[d], conn', listening, n)
              /\ cl[d].state = "CONNECTED" =>
                   Tracks(t, cl[d].my_id, cl[d].hanging, cl[d].got, cl[d].peers, NoSocket)
  <2>1. PICK x : /\ x = cl[d] /\ Sockets(x, d, conn) /\ Local(x, conn, listening, n)
                 /\ x.state = "CONNECTED" =>
                      Tracks(s, x.my_id, x.hanging, x.got, x.peers, NoSocket)
    BY <1>1, <1>8 DEF DInv, Users, Clients, Signed
  <2>2. ASSUME NEW k, Socket(k, d, conn) PROVE Same(conn, conn', k)
    <3>1. CASE k \in {Null, Closed}
      BY <1>6, <3>1, NoKey DEF Same, Net
    <3>2. CASE k \in DOMAIN conn /\ k[1] = d
      BY <1>12, <3>2 DEF Same, Quiet
    <3> QED
      BY <2>2, <3>1, <3>2 DEF Socket
  <2>3. Same(conn, conn', x.control) /\ Same(conn, conn', x.hanging)
    BY <2>1, <2>2 DEF Sockets
  <2>4. Seen(x.control, conn, conn') /\ Seen(x.hanging, conn, conn')
    BY <2>3 DEF Same, Seen
  <2>5. Local(x, conn', listening, n)
    BY <2>1, <2>4, LocalStays
  <2>6. ASSUME x.state = "CONNECTED"
        PROVE  Tracks(t, x.my_id, x.hanging, x.got, x.peers, NoSocket)
    <3>1. PICK R : R = IdsOf(members) \ {x.my_id}
      OBVIOUS
    <3>2. Tracked(members, conn, x.my_id, x.hanging, x.got, x.peers, R, NoSocket)
      BY <1>1, <2>1, <2>6, <3>1 DEF Tracks
    <3>3. Tracked(members, conn', x.my_id, x.hanging, x.got, x.peers, R, NoSocket)
      BY <2>3, <3>2, QuietTracked
    <3> QED
      BY <1>3, <3>1, <3>3 DEF Tracks
  <2> QED
    BY <2>1, <2>5, <2>6
<1>13. y.state = "CONNECTED" => Tracks(t, y.my_id, y.hanging, y.got, y.peers, NoSocket)
  BY <1>3 DEF Followed, Tracks
<1>14. \A d, e \in Client : cl'[d].my_id = cl'[e].my_id /\ cl'[d].my_id # -1 => d = e
  <2>1. \A d, e \in Client : cl[d].my_id = cl[e].my_id /\ cl[d].my_id # -1 => d = e
    BY DEF DInv, Users
  <2>2. \A d \in Client : cl[d].my_id = y.my_id /\ y.my_id # -1 => d = c
    BY <2>1 DEF NewId
  <2> QED
    BY <1>7, <2>1, <2>2
<1>15. Users'
  <2>1. \A d \in Client : /\ Local(cl'[d], conn', listening', s_member_id')
                          /\ Unique(cl'[d], conn')
    BY <1>2, <1>7, <1>8, <1>10, <1>11, <1>12
  <2>2. \A d \in Client : cl'[d].state = "CONNECTED" =>
          Tracks(t, cl'[d].my_id, cl'[d].hanging, cl'[d].got, cl'[d].peers, NoSocket)
    BY <1>7, <1>12, <1>13
  <2> QED
    BY <1>3, <1>14, <2>1, <2>2 DEF Users, Signed
<1> QED
  BY <1>3, <1>5, <1>15 DEF DInv, Moves

-----------------------------------------------------------------------------
(* The pieces of which the steps of a client are made *)

Alike(x, y) ==
  /\ y.state = x.state /\ y.my_id = x.my_id /\ y.retry = x.retry
  /\ y.got = x.got /\ y.peers = x.peers /\ y.resolving = x.resolving

(* The session is over. *)
Ended(x) ==
  /\ x.control = Closed /\ x.hanging = Closed
  /\ x.my_id = -1 /\ x.state = "NOT_CONNECTED" /\ x.got = <<>> /\ ~x.resolving

LEMMA CloseBothIs ==
  ASSUME NEW c, NEW p, Sane(p, c)
  PROVE  /\ Quiet(p.net, CloseBoth(p).net, c)
         /\ Ended(CloseBoth(p).c) /\ CloseBoth(p).c.retry = p.c.retry
<1>1. PICK x : x = p.c /\ IsClientRecord(x, c) /\ Sockets(x, c, p.net) /\ Net(p.net)
  BY DEF Sane
<1>2. PICK b : b = Hang(p.net, {x.control, x.hanging})
  OBVIOUS
<1>3. Quiet(p.net, b, c)
  BY <1>1, <1>2, SocketsFacts, HangQuiet
<1>4. PICK y : y = [x EXCEPT !.control = Closed, !.hanging = Closed, !.onconnect = "",
                             !.to = -1, !.text = "", !.peers = {}, !.my_id = -1,
                             !.state = "NOT_CONNECTED", !.resolving = FALSE, !.got = <<>>]
  OBVIOUS
<1>5. Ended(y) /\ y.retry = x.retry
  <2>1. PICK v \in Int : v = -1
    OBVIOUS
  <2>2. PICK got : got = <<>>
    OBVIOUS
  <2>3. PICK peers : peers = {}
    OBVIOUS
  <2>4. PICK closed : closed = Closed
    OBVIOUS
  <2>5. y = [x EXCEPT !.control = closed, !.hanging = closed, !.onconnect = "", !.to = v,
                      !.text = "", !.peers = peers, !.my_id = v,
                      !.state = "NOT_CONNECTED", !.resolving = FALSE, !.got = got]
    BY <1>4, <2>1, <2>2, <2>3, <2>4
  <2>6. PICK state \in State : state = "NOT_CONNECTED"
    BY DEF State
  <2>7. PICK path \in Path : path = ""
    BY DEF Path
  <2>8. PICK text \in Text : text = ""
    BY DEF Text
  <2>9. y = [x EXCEPT !.control = closed, !.hanging = closed, !.onconnect = path, !.to = v,
                      !.text = text, !.peers = peers, !.my_id = v, !.state = state,
                      !.resolving = FALSE, !.got = got]
    BY <2>5, <2>6, <2>7, <2>8
  <2>10. /\ y.control = closed /\ y.hanging = closed /\ y.my_id = v /\ y.state = state
         /\ y.got = got /\ y.retry = x.retry /\ ~y.resolving
    BY <1>1, <2>9 DEF IsClientRecord
  <2> QED
    BY <2>1, <2>2, <2>4, <2>6, <2>10 DEF Ended
<1>6. CloseBoth(p).net = b /\ CloseBoth(p).c = y
  BY <1>1, <1>2, <1>4 DEF CloseBoth
<1> QED
  BY <1>1, <1>3, <1>5, <1>6

LEMMA ControlClosedIs ==
  ASSUME NEW c, NEW p, Sane(p, c)
  PROVE  LET q == ControlClosed(p)
         IN  /\ Quiet(p.net, q.net, c) /\ Alike(p.c, q.c)
             /\ q.c.control = Closed /\ q.c.hanging = p.c.hanging
             /\ q.c.onconnect = p.c.onconnect
             /\ q.c = [p.c EXCEPT !.control = Closed] /\ q.net = Hang(p.net, {p.c.control})
             /\ Same(p.net, q.net, p.c.hanging)
<1>1. PICK x : x = p.c /\ IsClientRecord(x, c) /\ Sockets(x, c, p.net) /\ Net(p.net)
  BY DEF Sane
<1>2. PICK b : b = Hang(p.net, {x.control})
  OBVIOUS
<1>3. PICK ks : ks = {x.control}
  OBVIOUS
<1>4. \A k \in ks \cap DOMAIN p.net : k[1] = c
  BY <1>1, <1>3, SocketsFacts
<1>5. Quiet(p.net, Hang(p.net, ks), c) /\ \A k : k \notin ks => Same(p.net, Hang(p.net, ks), k)
  BY <1>1, <1>4, HangQuiet
<1>6. Quiet(p.net, b, c) /\ \A k : k # x.control => Same(p.net, b, k)
  BY <1>2, <1>3, <1>5
<1>7. Same(p.net, b, x.hanging)
  <2>1. CASE x.hanging # x.control
    BY <1>6, <2>1
  <2>2. CASE x.hanging = x.control
    <3>1. x.hanging \notin DOMAIN p.net
      BY <1>1, <2>2, NoKey DEF Sockets, Net
    <3>2. DOMAIN b \subseteq DOMAIN p.net
      BY <1>2 DEF Hang
    <3> QED
      BY <3>1, <3>2 DEF Same
  <2> QED
    BY <2>1, <2>2
<1>8. PICK y : y = [x EXCEPT !.control = Closed]
  OBVIOUS
<1>9. Alike(x, y) /\ y.control = Closed /\ y.hanging = x.hanging /\ y.onconnect = x.onconnect
  BY <1>1, <1>8 DEF IsClientRecord, Alike
<1>10. ControlClosed(p).net = b /\ ControlClosed(p).c = y
  BY <1>1, <1>2, <1>8 DEF ControlClosed
<1> QED
  BY <1>1, <1>2, <1>6, <1>7, <1>8, <1>9, <1>10

LEMMA HangingClosedIs ==
  ASSUME NEW c, NEW p, Sane(p, c)
  PROVE  LET q == HangingClosed(p)
         IN  /\ Quiet(p.net, q.net, c) /\ Alike(p.c, q.c)
             /\ q.c.hanging = Closed /\ q.c.control = p.c.control
             /\ q.c.onconnect = p.c.onconnect
             /\ Same(p.net, q.net, p.c.control)
<1>1. PICK x : x = p.c /\ IsClientRecord(x, c) /\ Sockets(x, c, p.net) /\ Net(p.net)
  BY DEF Sane
<1>2. PICK b : b = Hang(p.net, {x.hanging})
  OBVIOUS
<1>3. PICK ks : ks = {x.hanging}
  OBVIOUS
<1>4. \A k \in ks \cap DOMAIN p.net : k[1] = c
  BY <1>1, <1>3, SocketsFacts
<1>5. Quiet(p.net, Hang(p.net, ks), c) /\ \A k : k \notin ks => Same(p.net, Hang(p.net, ks), k)
  BY <1>1, <1>4, HangQuiet
<1>6. Quiet(p.net, b, c) /\ \A k : k # x.hanging => Same(p.net, b, k)
  BY <1>2, <1>3, <1>5
<1>7. Same(p.net, b, x.control)
  <2>1. CASE x.hanging # x.control
    BY <1>6, <2>1
  <2>2. CASE x.hanging = x.control
    <3>1. x.control \notin DOMAIN p.net
      BY <1>1, <2>2, NoKey DEF Sockets, Net
    <3>2. DOMAIN b \subseteq DOMAIN p.net
      BY <1>2 DEF Hang
    <3> QED
      BY <3>1, <3>2 DEF Same
  <2> QED
    BY <2>1, <2>2
<1>8. PICK y : y = [x EXCEPT !.hanging = Closed]
  OBVIOUS
<1>9. Alike(x, y) /\ y.hanging = Closed /\ y.control = x.control /\ y.onconnect = x.onconnect
  BY <1>1, <1>8 DEF IsClientRecord, Alike
<1>10. HangingClosed(p).net = b /\ HangingClosed(p).c = y
  BY <1>1, <1>2, <1>8 DEF HangingClosed
<1> QED
  BY <1>1, <1>6, <1>7, <1>9, <1>10

LEMMA DialHangingIs ==
  ASSUME NEW c \in Client, NEW p, Sane(p, c)
  PROVE  LET q == DialHanging(p)
         IN  /\ Quiet(p.net, q.net, c) /\ Alike(p.c, q.c)
             /\ q.c.control = p.c.control /\ q.c.onconnect = p.c.onconnect
             /\ Opened(p.net, q.net, q.c.hanging)
<1>1. PICK x : x = p.c /\ IsClientRecord(x, c) /\ Net(p.net)
  BY DEF Sane
<1>2. PICK k : k = Fresh(p.net, c)
  OBVIOUS
<1>3. k \in Key /\ k \notin DOMAIN p.net /\ k[1] = c
  BY <1>1, <1>2, FreshFacts DEF Owner
<1>4. PICK b : b = Dial(p.net, k)
  OBVIOUS
<1>5. Quiet(p.net, b, c) /\ Opened(p.net, b, k)
  BY <1>3, <1>4, DialQuiet
<1>6. PICK y : y = [x EXCEPT !.hanging = k]
  OBVIOUS
<1>7. Alike(x, y) /\ y.hanging = k /\ y.control = x.control /\ y.onconnect = x.onconnect
  BY <1>1, <1>6 DEF IsClientRecord, Alike
<1>8. x.name = c
  BY <1>1 DEF IsClientRecord
<1>9. DialHanging(p).net = b /\ DialHanging(p).c = y
  BY <1>1, <1>2, <1>4, <1>6, <1>8 DEF DialHanging
<1> QED
  BY <1>1, <1>5, <1>7, <1>9

LEMMA ConnectIs ==
  ASSUME NEW c \in Client, NEW p, Sane(p, c), p.c.control = Closed
  PROVE  LET q == ConnectControlSocket(p)
         IN  /\ Quiet(p.net, q.net, c) /\ Alike(p.c, q.c)
             /\ q.c.hanging = p.c.hanging /\ q.c.onconnect = p.c.onconnect
             /\ Opened(p.net, q.net, q.c.control)
<1>1. PICK x : x = p.c /\ IsClientRecord(x, c) /\ Net(p.net)
  BY DEF Sane
<1>2. PICK k : k = Fresh(p.net, c)
  OBVIOUS
<1>3. k \in Key /\ k \notin DOMAIN p.net /\ k[1] = c
  BY <1>1, <1>2, FreshFacts DEF Owner
<1>4. PICK b : b = Dial(p.net, k)
  OBVIOUS
<1>5. Quiet(p.net, b, c) /\ Opened(p.net, b, k)
  BY <1>3, <1>4, DialQuiet
<1>6. PICK y : y = [x EXCEPT !.control = k]
  OBVIOUS
<1>7. Alike(x, y) /\ y.control = k /\ y.hanging = x.hanging /\ y.onconnect = x.onconnect
  BY <1>1, <1>6 DEF IsClientRecord, Alike
<1>8. x.name = c
  BY <1>1 DEF IsClientRecord
<1>9. ConnectControlSocket(p).net = b /\ ConnectControlSocket(p).c = y
  BY <1>1, <1>2, <1>4, <1>6, <1>8 DEF ConnectControlSocket
<1> QED
  BY <1>1, <1>5, <1>7, <1>9

-----------------------------------------------------------------------------
(* Where the steps of a client lead *)

(* The client keeps its control socket and task, or has none. *)
KeepsTask(x, a, y, b) ==
  \/ y.control \notin DOMAIN b
  \/ y.control = x.control /\ y.onconnect = x.onconnect /\ Seen(x.control, a, b)

LEMMA LocalAlike ==
  ASSUME NEW x, NEW a, NEW y, NEW b, NEW ls, NEW n, Local(x, a, ls, n),
         y.state = x.state, y.my_id = x.my_id, y.got \in Seq(Answer),
         y.resolving = x.resolving,
         y.got = x.got \/ x.state = "CONNECTED", y.retry > 0 => ~ls,
         KeepsTask(x, a, y, b), y.hanging \in DOMAIN b <=> x.hanging \in DOMAIN a
  PROVE  Local(y, b, ls, n)
<1>1. Wired(y, b, ls)
  <2>1. CASE y.control \notin DOMAIN b
    BY <2>1 DEF Wired
  <2>2. CASE y.control \in DOMAIN b
    <3>1. /\ y.control = x.control /\ y.onconnect = x.onconnect /\ x.control \in DOMAIN a
          /\ b[x.control].req = a[x.control].req
          /\ b[x.control].end = "syn" <=> a[x.control].end = "syn"
      BY <2>2 DEF KeepsTask, Seen
    <3>2. Task(y, b) = Task(x, a)
      BY <3>1 DEF Task
    <3>3. x.state = "CONNECTED" => Task(x, a) = "/message" /\ x.my_id # -1
      BY <3>1 DEF Local, Wired
    <3>4. Wired(x, a, ls)
      BY DEF Local
    <3> QED
      BY <3>1, <3>2, <3>3, <3>4 DEF Wired
  <2> QED
    BY <2>1, <2>2
<1>2. Unused(x, a, ls) => Unused(y, b, ls)
  BY DEF Local, KeepsTask, Seen, Unused
<1> QED
  BY <1>1, <1>2 DEF Local

(* The state p that client c is to become keeps the invariant. *)
Lands(p, c) ==
  /\ Quiet(conn, p.net, c)
  /\ Local(p.c, p.net, listening, s_member_id)
  /\ NewId(p.c.my_id, c, p.net)
  /\ Followed(p.c, [members |-> members, conn |-> p.net])

LEMMA Landing ==
  ASSUME DInv, NEW c \in Client, Moves(c), UNCHANGED <<serverVars, backlog, listening>>,
         NEW p, Become(c, p), Lands(p, c)
  PROVE  DInv'
<1>1. PICK y : y = p.c
  OBVIOUS
<1>2. conn' = p.net /\ cl' = [cl EXCEPT ![c] = y]
  BY <1>1 DEF Become
<1>3. /\ Quiet(conn, conn', c) /\ Local(y, conn', listening, s_member_id)
      /\ NewId(y.my_id, c, conn') /\ Followed(y, [members |-> members, conn |-> conn'])
  BY <1>1, <1>2 DEF Lands
<1> QED
  BY <1>2, <1>3, QuietStep

LEMMA NewIdStays ==
  ASSUME NEW id, NEW c, NEW a, NEW b, Quiet(a, b, c), NewId(id, c, a)
  PROVE  NewId(id, c, b)
<1>1. ASSUME NEW j \in DOMAIN b, Pending(b, j)
      PROVE  j \in DOMAIN a /\ Pending(a, j) /\ b[j] = a[j]
  BY <1>1, QuietPending DEF Pending
<1> QED
  BY <1>1 DEF NewId

LEMMA FollowedStays ==
  ASSUME NEW x, NEW y, NEW a, NEW b, NEW ms, NEW c, Quiet(a, b, c), Alike(x, y),
         y.hanging = x.hanging, Same(a, b, x.hanging),
         Followed(x, [members |-> ms, conn |-> a])
  PROVE  Followed(y, [members |-> ms, conn |-> b])
<1> SUFFICES ASSUME x.state = "CONNECTED"
             PROVE  Followed(y, [members |-> ms, conn |-> b])
  BY DEF Alike, Followed
<1>1. PICK R : R = IdsOf(ms) \ {x.my_id}
  OBVIOUS
<1>2. Tracked(ms, a, x.my_id, x.hanging, x.got, x.peers, R, NoSocket)
  BY <1>1 DEF Followed, Tracks
<1>3. Tracked(ms, b, x.my_id, x.hanging, x.got, x.peers, R, NoSocket)
  BY <1>2, QuietTracked
<1> QED
  BY <1>1, <1>3 DEF Followed, Tracks, Alike

LEMMA NowLands ==
  ASSUME DInv, NEW c \in Client
  PROVE  /\ Lands(Now(c), c) /\ Sane(Now(c), c)
         /\ Now(c).net = conn /\ Now(c).c = cl[c] /\ Net(conn)
<1>1. PICK p : p = Now(c)
  OBVIOUS
<1>2. Net(conn) /\ Clients
  BY DEF DInv, Tidy, Serving, Channel, Server
<1>3. Sane(p, c) /\ p.net = conn /\ p.c = cl[c]
  BY <1>1, <1>2, NowIsSane
<1>4. Followed(cl[c], [members |-> members, conn |-> conn])
  BY DEF DInv, Users, Signed, Tracks, Followed, Server
<1>5. Lands(p, c)
  BY <1>3, <1>4, QuietReflexive DEF Lands, NewId, DInv, Users
<1> QED
  BY <1>1, <1>2, <1>3, <1>5

LEMMA CloseBothLands ==
  ASSUME NEW c \in Client, NEW p, Sane(p, c), Quiet(conn, p.net, c), p.c.retry > 0 => ~listening
  PROVE  Lands(CloseBoth(p), c)
<1>1. PICK q : q = CloseBoth(p)
  OBVIOUS
<1>2. Quiet(p.net, q.net, c) /\ Ended(q.c) /\ q.c.retry = p.c.retry
  BY <1>1, CloseBothIs
<1>3. Quiet(conn, q.net, c)
  BY <1>2, QuietTransitive
<1>4. Net(q.net)
  BY <1>1, CloseBothFacts DEF Sane
<1>5. Closed \notin DOMAIN q.net
  BY <1>4, NoKey DEF Net
<1>6. q.c.got \in Seq(Answer)
  BY <1>2, EmptySeq DEF Ended
<1>7. Wired(q.c, q.net, listening)
  BY <1>2, <1>5 DEF Wired, Ended
<1>8. Local(q.c, q.net, listening, s_member_id)
  BY <1>2, <1>5, <1>6, <1>7 DEF Local, Ended, Unused
<1> QED
  BY <1>1, <1>2, <1>3, <1>8 DEF Lands, Ended, NewId, Followed

LEMMA ControlClosedLands ==
  ASSUME NEW c \in Client, NEW p, Sane(p, c), Lands(p, c)
  PROVE  Lands(ControlClosed(p), c)
<1>1. PICK q : q = ControlClosed(p)
  OBVIOUS
<1>2. PICK x : x = p.c
  OBVIOUS
<1>3. PICK y : y = q.c
  OBVIOUS
<1>4. /\ Quiet(p.net, q.net, c) /\ Alike(x, y) /\ y.control = Closed
      /\ y.hanging = x.hanging /\ Same(p.net, q.net, x.hanging)
  BY <1>1, <1>2, <1>3, ControlClosedIs
<1>5. Net(q.net)
  BY <1>1, ControlClosedFacts DEF Sane
<1>6. Closed \notin DOMAIN q.net
  BY <1>5, NoKey DEF Net
<1>7. Local(x, p.net, listening, s_member_id)
  BY <1>2 DEF Lands
<1>8. Local(y, q.net, listening, s_member_id)
  <2>1. /\ y.state = x.state /\ y.my_id = x.my_id /\ y.got \in Seq(Answer)
        /\ y.got = x.got /\ y.resolving = x.resolving
        /\ y.retry > 0 => ~listening
        /\ y.hanging \in DOMAIN q.net <=> x.hanging \in DOMAIN p.net
    BY <1>4, <1>7 DEF Alike, Local, Same
  <2>2. KeepsTask(x, p.net, y, q.net)
    BY <1>4, <1>6 DEF KeepsTask
  <2> QED
    BY <1>7, <2>1, <2>2, LocalAlike
<1>9. Quiet(conn, q.net, c)
  BY <1>4, QuietTransitive DEF Lands
<1>10. NewId(y.my_id, c, q.net)
  <2>1. NewId(x.my_id, c, p.net) /\ y.my_id = x.my_id
    BY <1>2, <1>4 DEF Lands, Alike
  <2> QED
    BY <1>4, <2>1, NewIdStays
<1>11. Followed(y, [members |-> members, conn |-> q.net])
  BY <1>2, <1>4, FollowedStays DEF Lands
<1> QED
  BY <1>1, <1>3, <1>8, <1>9, <1>10, <1>11 DEF Lands

(* A control socket that has just been opened for a task. *)
LEMMA LocalOpened ==
  ASSUME NEW y, NEW a, NEW b, NEW ls, NEW n, Opened(a, b, y.control),
         y.got \in Seq(Answer), y.my_id = -1 \/ y.my_id \in 1..n,
         y.state = "CONNECTED" <=> y.hanging \in DOMAIN b,
         y.state \notin {"NOT_CONNECTED", "RESOLVING"}, y.retry > 0 => ~ls,
         y.resolving => ~ls /\ y.my_id = -1 /\ y.got = <<>>,
         \/ y.state = "SIGNING_IN" /\ y.onconnect = "/sign_in"
            /\ ((y.my_id = -1 /\ y.got = <<>>) \/ ~ls)
         \/ y.state = "CONNECTED" /\ y.onconnect = "/message" /\ y.my_id # -1
         \/ y.state = "SIGNING_OUT" /\ y.onconnect = "/sign_out" /\ y.my_id # -1
  PROVE  Local(y, b, ls, n)
<1>1. b[y.control].end = "syn" /\ Task(y, b) = y.onconnect
  BY DEF Opened, Calm, Task
<1>2. Wired(y, b, ls)
  BY <1>1 DEF Wired
<1>3. y.resolving => Unused(y, b, ls)
  BY <1>1 DEF Unused
<1> QED
  BY <1>2, <1>3 DEF Local

LEMMA DoConnectLands ==
  ASSUME NEW c \in Client, NEW p, Sane(p, c), Quiet(conn, p.net, c),
         NewId(p.c.my_id, c, p.net), p.c.got \in Seq(Answer),
         p.c.my_id = -1 \/ p.c.my_id \in 1..s_member_id, p.c.retry > 0 => ~listening,
         p.c.resolving => ~listening /\ p.c.my_id = -1 /\ p.c.got = <<>>,
         (p.c.my_id = -1 /\ p.c.got = <<>>) \/ ~listening
  PROVE  Lands(DoConnect(p), c)
<1>1. PICK x : x = p.c /\ IsClientRecord(x, c) /\ Sockets(x, c, p.net) /\ Net(p.net)
  BY DEF Sane
<1>2. PICK b : b = Hang(p.net, {x.control, x.hanging})
  OBVIOUS
<1>3. Net(b) /\ Quiet(p.net, b, c)
  <2>1. Net(b) /\ ClientNet(p.net, b, c)
    BY ONLY <1>1, <1>2, SocketsFacts, HangFacts
  <2>2. Quiet(p.net, b, c)
    BY ONLY <1>1, <1>2, SocketsFacts, HangQuiet
  <2> QED
    BY <2>1, <2>2
<1>4. PICK v : v = -1
  OBVIOUS
<1>5. PICK closed : closed = Closed
  OBVIOUS
<1>6. PICK y : y = [x EXCEPT !.control = closed, !.hanging = closed,
                             !.onconnect = "/sign_in", !.to = v, !.text = ""]
  OBVIOUS
<1>7. /\ IsClientRecord(y, c) /\ y.control = closed /\ y.hanging = closed
      /\ Alike(x, y) /\ y.onconnect = "/sign_in"
  BY <1>1, <1>6 DEF IsClientRecord, Path, Text, Alike
<1>8. Sockets(y, c, b)
  BY <1>5, <1>7 DEF Sockets, Socket
<1>9. PICK r : r = [net |-> b, c |-> y]
  OBVIOUS
<1>10. Sane(r, c) /\ r.net = b /\ r.c = y
  BY <1>3, <1>7, <1>8, <1>9, SaneIs
<1>11. PICK q : q = ConnectControlSocket(r)
  OBVIOUS
<1>12. Sane(q, c)
  BY <1>10, <1>11, ConnectControlSocketFacts
<1>13. PICK z : z = q.c /\ IsClientRecord(z, c)
  BY <1>12 DEF Sane
<1>14. /\ Quiet(b, q.net, c) /\ Alike(y, z) /\ z.hanging = closed
       /\ z.onconnect = "/sign_in" /\ Opened(b, q.net, z.control)
  BY <1>5, <1>7, <1>10, <1>11, <1>13, ConnectIs
<1>15. PICK state \in State : state = "SIGNING_IN"
  BY DEF State
<1>16. PICK out : out = [q EXCEPT !.c.state = state]
  OBVIOUS
<1>17. out = DoConnect(p)
  BY <1>1, <1>2, <1>4, <1>5, <1>6, <1>9, <1>11, <1>15, <1>16 DEF DoConnect
<1>18. Sane(out, c) /\ out.net = q.net /\ out.c = [z EXCEPT !.state = state]
  BY <1>12, <1>13, <1>16, StateChanged
<1>19. PICK u : u = out.c
  OBVIOUS
<1>20. /\ u.state = "SIGNING_IN" /\ u.my_id = z.my_id /\ u.got = z.got /\ u.retry = z.retry
       /\ u.resolving = z.resolving
       /\ u.control = z.control /\ u.hanging = z.hanging /\ u.onconnect = z.onconnect
  BY <1>13, <1>15, <1>18, <1>19 DEF IsClientRecord
<1>21. /\ u.my_id = x.my_id /\ u.got = x.got /\ u.retry = x.retry
       /\ u.resolving = x.resolving
  BY <1>7, <1>14, <1>20 DEF Alike
<1>22. Quiet(p.net, out.net, c)
  BY <1>3, <1>14, <1>18, QuietTransitive
<1>23. Quiet(conn, out.net, c)
  BY <1>22, QuietTransitive
<1>24. u.hanging \notin DOMAIN out.net
  BY <1>5, <1>14, <1>18, <1>20, NoKey DEF Net, Sane
<1>25. Local(u, out.net, listening, s_member_id)
  <2>1. Opened(b, out.net, u.control)
    BY <1>14, <1>18, <1>20
  <2>2. /\ u.got \in Seq(Answer)
        /\ u.my_id = -1 \/ u.my_id \in 1..s_member_id
        /\ u.state = "CONNECTED" <=> u.hanging \in DOMAIN out.net
        /\ u.state \notin {"NOT_CONNECTED", "RESOLVING"}
        /\ u.retry > 0 => ~listening
        /\ u.resolving => ~listening /\ u.my_id = -1 /\ u.got = <<>>
        /\ u.state = "SIGNING_IN" /\ u.onconnect = "/sign_in"
        /\ (u.my_id = -1 /\ u.got = <<>>) \/ ~listening
    BY <1>1, <1>14, <1>20, <1>21, <1>24
  <2> QED
    BY <2>1, <2>2, LocalOpened
<1>26. NewId(u.my_id, c, out.net)
  BY <1>1, <1>21, <1>22, NewIdStays
<1>27. Followed(u, [members |-> members, conn |-> out.net])
  BY <1>20 DEF Followed
<1> QED
  BY <1>17, <1>19, <1>23, <1>25, <1>26, <1>27 DEF Lands

LEMMA SendToPeerLands ==
  ASSUME NEW c \in Client, NEW p, Sane(p, c), Lands(p, c), p.c.state = "CONNECTED",
         NEW to, NEW text \in Text
  PROVE  Lands(SendToPeer(p, to, text), c)
<1>1. PICK x : x = p.c /\ IsClientRecord(x, c)
  BY DEF Sane
<1>2. PICK y : y = [x EXCEPT !.onconnect = "/message", !.to = to, !.text = text]
  OBVIOUS
<1>3. /\ IsClientRecord(y, c) /\ y.control = x.control /\ y.hanging = x.hanging
      /\ Alike(x, y) /\ y.onconnect = "/message"
  BY <1>1, <1>2 DEF IsClientRecord, Path, Alike
<1>4. PICK q : q = [p EXCEPT !.c.onconnect = "/message", !.c.to = to, !.c.text = text]
  OBVIOUS
<1>5. q = [net |-> p.net, c |-> y]
  BY <1>1, <1>2, <1>4 DEF Sane
<1>6. Sane(q, c) /\ q.net = p.net /\ q.c = y
  BY <1>1, <1>3, <1>5, SaneChanged
<1>7. SendToPeer(p, to, text) = ConnectControlSocket(q)
  BY <1>4 DEF SendToPeer
<1>8. Local(x, p.net, listening, s_member_id)
  BY <1>1 DEF Lands
<1>9. CASE y.control # Closed
  <2>1. ConnectControlSocket(q) = CloseBoth(q)
    BY <1>6, <1>9 DEF ConnectControlSocket
  <2>2. y.retry > 0 => ~listening
    BY <1>3, <1>8 DEF Alike, Local
  <2>3. Lands(CloseBoth(q), c)
    BY <1>6, <2>2, CloseBothLands DEF Lands
  <2> QED
    BY <1>7, <2>1, <2>3
<1>10. CASE y.control = Closed
  <2>1. PICK o : o = ConnectControlSocket(q)
    OBVIOUS
  <2>2. PICK u : u = o.c
    OBVIOUS
  <2>3. /\ Quiet(p.net, o.net, c) /\ Alike(y, u) /\ u.hanging = x.hanging
        /\ u.onconnect = "/message" /\ Opened(p.net, o.net, u.control)
    BY <1>3, <1>6, <1>10, <2>1, <2>2, ConnectIs
  <2>4. Alike(x, u)
    BY <1>3, <2>3 DEF Alike
  <2>5. x.hanging \in DOMAIN p.net
    BY <1>1, <1>8 DEF Local
  <2>6. Same(p.net, o.net, x.hanging)
    BY <2>3, <2>5 DEF Opened
  <2>7. Local(u, o.net, listening, s_member_id)
    <3>1. /\ u.got \in Seq(Answer)
          /\ u.my_id = -1 \/ u.my_id \in 1..s_member_id
          /\ u.state = "CONNECTED" <=> u.hanging \in DOMAIN o.net
          /\ u.state \notin {"NOT_CONNECTED", "RESOLVING"}
          /\ u.retry > 0 => ~listening
          /\ ~u.resolving
          /\ u.state = "CONNECTED" /\ u.onconnect = "/message" /\ u.my_id # -1
      BY <1>1, <1>8, <2>3, <2>4, <2>5, <2>6 DEF Alike, Local, Same, Unused
    <3> QED
      BY <2>3, <3>1, LocalOpened
  <2>8. Quiet(conn, o.net, c)
    BY <2>3, QuietTransitive DEF Lands
  <2>9. NewId(u.my_id, c, o.net)
    <3>1. NewId(x.my_id, c, p.net)
      BY <1>1 DEF Lands
    <3> QED
      BY <2>3, <2>4, <3>1, NewIdStays DEF Alike
  <2>10. Followed(u, [members |-> members, conn |-> o.net])
    <3>1. Followed(x, [members |-> members, conn |-> p.net])
      BY <1>1 DEF Lands
    <3> QED
      BY <2>3, <2>4, <2>6, <3>1, FollowedStays
  <2> QED
    BY <1>7, <2>1, <2>2, <2>7, <2>8, <2>9, <2>10 DEF Lands
<1> QED
  BY <1>9, <1>10

LEMMA SignOutLands ==
  ASSUME NEW c \in Client, NEW p, Sane(p, c), Lands(p, c)
  PROVE  Lands(SignOut(p), c) /\ SignOut(p).c.state # "SIGNING_IN"
<1>1. PICK x : x = p.c /\ IsClientRecord(x, c) /\ Local(x, p.net, listening, s_member_id)
  BY DEF Sane, Lands
<1>2. PICK q : q = HangingClosed(p)
  OBVIOUS
<1>3. PICK y : y = q.c
  OBVIOUS
<1>4. /\ Quiet(p.net, q.net, c) /\ Alike(x, y) /\ y.hanging = Closed
      /\ y.control = x.control /\ y.onconnect = x.onconnect
      /\ Same(p.net, q.net, x.control)
  BY <1>1, <1>2, <1>3, HangingClosedIs
<1>5. Sane(q, c) /\ IsClientRecord(y, c) /\ Closed \notin DOMAIN q.net
  BY <1>2, <1>3, HangingClosedFacts, NoKey DEF Sane, Net
<1>6. PICK waits \in State : waits = "SIGNING_OUT_WAITING"
  BY DEF State
<1>7. PICK leaves \in State : leaves = "SIGNING_OUT"
  BY DEF State
<1>8. CASE y.control # Closed
  <2>1. PICK o : o = [q EXCEPT !.c.state = waits]
    OBVIOUS
  <2>2. o = SignOut(p)
    BY <1>2, <1>3, <1>6, <1>8, <2>1 DEF SignOut, HangingClosed
  <2>3. o.net = q.net /\ o.c = [y EXCEPT !.state = waits]
    BY <1>3, <1>5, <2>1, StateChanged
  <2>4. PICK u : u = o.c
    OBVIOUS
  <2>5. /\ u.state = "SIGNING_OUT_WAITING" /\ u.my_id = x.my_id /\ u.got = x.got
        /\ u.retry = x.retry /\ u.hanging = Closed /\ u.resolving = x.resolving
        /\ u.control = x.control /\ u.onconnect = x.onconnect
    BY <1>4, <1>5, <1>6, <2>3, <2>4 DEF IsClientRecord, Alike
  <2>6. Wired(u, q.net, listening)
    <3>1. Wired(x, p.net, listening)
      BY <1>1 DEF Local
    <3>2. u.control \in DOMAIN q.net =>
            /\ x.control \in DOMAIN p.net /\ q.net[x.control] = p.net[x.control]
            /\ Task(u, q.net) = Task(x, p.net)
      BY <1>4, <2>5 DEF Same, Task
    <3> QED
      BY <2>5, <3>1, <3>2 DEF Wired
  <2>7. Local(u, q.net, listening, s_member_id)
    <3>1. x.resolving => Unused(u, q.net, listening)
      BY <1>1, <1>4, <2>5 DEF Local, Unused, Same
    <3> QED
      BY <1>1, <1>5, <2>5, <2>6, <3>1 DEF Local
  <2>8. Quiet(conn, q.net, c)
    BY <1>4, QuietTransitive DEF Lands
  <2>9. NewId(u.my_id, c, q.net)
    <3>1. NewId(x.my_id, c, p.net)
      BY <1>1 DEF Lands
    <3> QED
      BY <1>4, <2>5, <3>1, NewIdStays
  <2>10. Followed(u, [members |-> members, conn |-> q.net])
    BY <2>5 DEF Followed
  <2> QED
    BY <2>2, <2>3, <2>4, <2>5, <2>7, <2>8, <2>9, <2>10 DEF Lands
<1>9. CASE y.control = Closed
  <2>1. PICK out : out = [q EXCEPT !.c.state = leaves]
    OBVIOUS
  <2>2. Sane(out, c) /\ out.net = q.net /\ out.c = [y EXCEPT !.state = leaves]
    BY <1>3, <1>5, <2>1, StateChanged
  <2>3. PICK u : u = out.c /\ IsClientRecord(u, c)
    BY <2>2 DEF Sane
  <2>4. /\ u.state = "SIGNING_OUT" /\ u.my_id = x.my_id /\ u.got = x.got
        /\ u.retry = x.retry /\ u.hanging = Closed /\ u.control = Closed
        /\ u.resolving = x.resolving
    BY <1>4, <1>5, <1>7, <1>9, <2>2, <2>3 DEF IsClientRecord, Alike
  <2>5. CASE x.my_id = -1
    <3>1. out = SignOut(p)
      <4>1. q.c.control = Closed /\ q.c.my_id = -1
        BY <1>3, <1>4, <1>9, <2>5 DEF Alike
      <4> QED
        BY <1>2, <1>7, <2>1, <4>1 DEF SignOut, HangingClosed
    <3>2. Local(u, q.net, listening, s_member_id)
      <4>1. x.resolving => Unused(u, q.net, listening)
        BY <1>1, <1>5, <2>4 DEF Local, Unused
      <4> QED
        BY <1>1, <1>5, <2>4, <4>1 DEF Local, Wired
    <3>3. Quiet(conn, q.net, c)
      BY <1>4, QuietTransitive DEF Lands
    <3>4. NewId(u.my_id, c, q.net)
      BY <2>4, <2>5 DEF NewId
    <3>5. Followed(u, [members |-> members, conn |-> q.net])
      BY <2>4 DEF Followed
    <3> QED
      BY <2>2, <2>3, <2>4, <3>1, <3>2, <3>3, <3>4, <3>5 DEF Lands
  <2>6. CASE x.my_id # -1
    <3>1. PICK asks : asks = [out EXCEPT !.c.onconnect = "/sign_out"]
      OBVIOUS
    <3>2. PICK z : z = [u EXCEPT !.onconnect = "/sign_out"]
      OBVIOUS
    <3>3. /\ IsClientRecord(z, c) /\ z.control = u.control /\ z.hanging = u.hanging
          /\ Alike(u, z) /\ z.onconnect = "/sign_out"
      BY <2>3, <3>2 DEF IsClientRecord, Path, Alike
    <3>4. asks = [net |-> out.net, c |-> z]
      BY <2>2, <2>3, <3>1, <3>2 DEF Sane
    <3>5. Sane(asks, c) /\ asks.net = q.net /\ asks.c = z
      BY <2>2, <2>3, <3>3, <3>4, SaneChanged
    <3>6. PICK o : o = ConnectControlSocket(asks)
      OBVIOUS
    <3>7. o = SignOut(p)
      <4>1. q.c.control = Closed /\ q.c.my_id # -1
        BY <1>3, <1>4, <1>9, <2>6 DEF Alike
      <4> QED
        BY <1>2, <1>7, <2>1, <3>1, <3>6, <4>1 DEF SignOut, HangingClosed
    <3>8. PICK w : w = o.c
      OBVIOUS
    <3>9. /\ Quiet(q.net, o.net, c) /\ Alike(z, w) /\ w.hanging = Closed
          /\ w.onconnect = "/sign_out" /\ Opened(q.net, o.net, w.control)
      BY <2>4, <3>3, <3>5, <3>6, <3>8, ConnectIs
    <3>10. /\ w.state = "SIGNING_OUT" /\ w.my_id = x.my_id /\ w.got = x.got
           /\ w.retry = x.retry /\ w.resolving = x.resolving
      BY <2>4, <3>3, <3>9 DEF Alike
    <3>11. Closed \notin DOMAIN o.net
      BY <3>5, <3>6, ConnectControlSocketFacts, NoKey DEF Sane, Net
    <3>12. Local(w, o.net, listening, s_member_id)
      <4>1. /\ w.got \in Seq(Answer)
            /\ w.my_id = -1 \/ w.my_id \in 1..s_member_id
            /\ w.state = "CONNECTED" <=> w.hanging \in DOMAIN o.net
            /\ w.state \notin {"NOT_CONNECTED", "RESOLVING"}
            /\ w.retry > 0 => ~listening
            /\ ~w.resolving
            /\ w.state = "SIGNING_OUT" /\ w.onconnect = "/sign_out" /\ w.my_id # -1
        BY <1>1, <2>6, <3>9, <3>10, <3>11 DEF Local, Unused
      <4> QED
        BY <3>9, <4>1, LocalOpened
    <3>13. Quiet(p.net, o.net, c)
      BY <1>4, <3>9, QuietTransitive
    <3>14. Quiet(conn, o.net, c)
      BY <3>13, QuietTransitive DEF Lands
    <3>15. NewId(w.my_id, c, o.net)
      <4>1. NewId(x.my_id, c, p.net)
        BY <1>1 DEF Lands
      <4> QED
        BY <3>10, <3>13, <4>1, NewIdStays
    <3>16. Followed(w, [members |-> members, conn |-> o.net])
      BY <3>10 DEF Followed
    <3> QED
      BY <3>7, <3>8, <3>10, <3>12, <3>14, <3>15, <3>16 DEF Lands
  <2> QED
    BY <2>5, <2>6
<1> QED
  BY <1>8, <1>9

(* The hanging get of a connected client is a new connection. *)
NewHanging(p, q, c) ==
  /\ Sane(q, c) /\ Quiet(p.net, q.net, c) /\ Alike(p.c, q.c)
  /\ q.c.control = p.c.control /\ q.c.onconnect = p.c.onconnect
  /\ Same(p.net, q.net, p.c.control)
  /\ q.c.hanging \in DOMAIN q.net /\ q.c.hanging \in Key
  /\ Calm(q.net[q.c.hanging]) /\ q.net[q.c.hanging].open

LEMMA NewHangingIs ==
  ASSUME NEW c \in Client, NEW p, Sane(p, c)
  PROVE  NewHanging(p, DialHanging(p), c)
<1>1. PICK q : q = DialHanging(p)
  OBVIOUS
<1>2. Sane(q, c)
  BY <1>1, DialHangingFacts
<1>3. PICK x : x = p.c
  OBVIOUS
<1>4. PICK y : y = q.c /\ Sockets(y, c, q.net) /\ Net(q.net)
  BY <1>2 DEF Sane
<1>5. /\ Quiet(p.net, q.net, c) /\ Alike(x, y)
      /\ y.control = x.control /\ y.onconnect = x.onconnect
      /\ Opened(p.net, q.net, y.hanging)
  BY <1>1, <1>3, <1>4, DialHangingIs
<1>6. y.hanging \in DOMAIN q.net /\ y.hanging \in Key
  BY <1>4, <1>5 DEF Opened, Net
<1>7. x.control # y.hanging
  BY <1>4, <1>5, <1>6, NoKey DEF Sockets
<1> QED
  BY <1>1, <1>2, <1>3, <1>4, <1>5, <1>6, <1>7 DEF NewHanging, Opened

LEMMA ReconnectedIs ==
  ASSUME NEW c \in Client, NEW p, Sane(p, c), p.c.state = "CONNECTED"
  PROVE  NewHanging(p, Reconnected(p), c)
<1>1. PICK h : h = HangingClosed(p)
  OBVIOUS
<1>2. Sane(h, c)
  BY <1>1, HangingClosedFacts
<1>3. PICK q : q = DialHanging(h)
  OBVIOUS
<1>4. NewHanging(h, q, c)
  BY <1>2, <1>3, NewHangingIs
<1>5. Reconnected(p) = q
  BY <1>1, <1>3 DEF Reconnected, HangingClosed
<1>6. /\ Quiet(p.net, h.net, c) /\ Alike(p.c, h.c) /\ h.c.control = p.c.control
      /\ h.c.onconnect = p.c.onconnect /\ Same(p.net, h.net, p.c.control)
  BY <1>1, HangingClosedIs
<1>7. Quiet(p.net, q.net, c)
  BY <1>4, <1>6, QuietTransitive DEF NewHanging
<1>8. Alike(p.c, q.c)
  BY <1>4, <1>6 DEF NewHanging, Alike
<1>9. Same(p.net, q.net, p.c.control)
  BY <1>4, <1>6 DEF NewHanging, Same
<1> QED
  BY <1>4, <1>5, <1>6, <1>7, <1>8, <1>9 DEF NewHanging

LEMMA NewHangingLocal ==
  ASSUME NEW c, NEW p, NEW q, NewHanging(p, q, c), NEW ls, NEW n,
         Local(p.c, p.net, ls, n), p.c.state = "CONNECTED"
  PROVE  Local(q.c, q.net, ls, n)
<1>1. PICK x : x = p.c
  OBVIOUS
<1>2. PICK y : y = q.c
  OBVIOUS
<1>3. KeepsTask(x, p.net, y, q.net)
  BY <1>1, <1>2 DEF KeepsTask, NewHanging, Same, Seen
<1>4. /\ y.state = x.state /\ y.my_id = x.my_id /\ y.got \in Seq(Answer) /\ y.got = x.got
      /\ y.resolving = x.resolving
      /\ y.retry > 0 => ~ls
      /\ y.hanging \in DOMAIN q.net <=> x.hanging \in DOMAIN p.net
  BY <1>1, <1>2 DEF NewHanging, Alike, Local
<1> QED
  BY <1>1, <1>2, <1>3, <1>4, LocalAlike

-----------------------------------------------------------------------------
(* The stream of a client with a new hanging get *)

(* No member with this id waits, and nobody asks it to. *)
Unheard(ms, id) == \A i \in 1..Len(ms) : ms[i].id = id => ms[i].waiting = NoSocket
Unsaid(net, id) == \A j \in DOMAIN net : ~Asks(net[j], id)

(* What was on the way on socket k has been read. *)
Advances(ms, net, id, k, g, ps, h, qs) ==
  \A i \in 1..Len(ms) : ms[i].id = id =>
    /\ h \o (<<>> \o ms[i].queue) = g \o Coming(ms[i], net, k)
    /\ Applied(qs, <<>> \o ms[i].queue, id) = Applied(ps, Coming(ms[i], net, k), id)

LEMMA AdvancesNot ==
  ASSUME NEW ms, NEW net, NEW id, NEW k, NEW g, NEW ps, Stream(net, k) = <<>>
  PROVE  Advances(ms, net, id, k, g, ps, g, ps)
BY DEF Advances, Coming

LEMMA NewTracked ==
  ASSUME NEW ms, NEW a, NEW b, NEW id, NEW k, NEW g, NEW ps, NEW R, NEW x, NEW c,
         Tracked(ms, a, id, k, g, ps, R, x), Quiet(a, b, c), Unheard(ms, id), Unsaid(a, id),
         NEW l \in DOMAIN b, l \in Key, Calm(b[l]), b[l].open,
         NEW h, NEW qs, Advances(ms, a, id, k, g, ps, h, qs)
  PROVE  Tracked(ms, b, id, l, h, qs, R, x)
<1>1. Stream(b, l) = <<>> /\ l # NoSocket
  BY NoKey DEF Stream, Calm
<1>2. ASSUME NEW i \in 1..Len(ms), ms[i].id = id PROVE Follows(ms[i], b, l, h, qs, R)
  <2>1. PICK m : m = ms[i] /\ m.id = id /\ Follows(m, a, k, g, ps, R)
    BY <1>2 DEF Tracked
  <2>2. /\ m.waiting = NoSocket
        /\ h \o (<<>> \o m.queue) = g \o Coming(m, a, k)
        /\ Applied(qs, <<>> \o m.queue, id) = Applied(ps, Coming(m, a, k), id)
    BY <1>2, <2>1 DEF Unheard, Advances
  <2>3. Coming(m, b, l) = <<>> \o m.queue
    BY <1>1 DEF Coming
  <2>4. /\ m.connected /\ m.log = h \o Coming(m, b, l)
        /\ Applied(qs, Coming(m, b, l), m.id) = R
    BY <2>1, <2>2, <2>3 DEF Follows
  <2> QED
    BY <1>1, <2>1, <2>2, <2>4 DEF Follows
<1>3. Hangs(ms, b, id, l, x)
  <2>1. Len(b[l].resp) <= 1
    BY DEF Calm
  <2> QED
    BY <2>1 DEF Hangs, Calm
<1>4. Alone(b, id, l)
  BY QuietAsks DEF Alone, Unsaid
<1> QED
  BY <1>2, <1>3, <1>4 DEF Tracked

-----------------------------------------------------------------------------
(* The steps of a client that read no answer and send no request *)

LEMMA StartLands ==
  ASSUME NEW c \in Client, NEW net, Net(net), Quiet(conn, net, c)
  PROVE  Lands([net |-> net, c |-> Start(c)], c)
<1>1. PICK x : x = Start(c)
  OBVIOUS
<1>2. /\ x.state = "NOT_CONNECTED" /\ x.my_id = -1 /\ x.control = Null /\ x.hanging = Null
      /\ x.retry = 0 /\ x.got = <<>> /\ ~x.resolving
  BY <1>1 DEF Start
<1>3. Null \notin DOMAIN net /\ x.got \in Seq(Answer)
  BY <1>2, NoKey, EmptySeq DEF Net
<1>4. Wired(x, net, listening)
  BY <1>2, <1>3 DEF Wired
<1>5. Local(x, net, listening, s_member_id)
  BY <1>2, <1>3, <1>4 DEF Local, Unused
<1>6. NewId(x.my_id, c, net) /\ Followed(x, [members |-> members, conn |-> net])
  BY <1>2 DEF NewId, Followed
<1>7. PICK p : p = [net |-> net, c |-> x]
  OBVIOUS
<1>8. p.net = net /\ p.c = x
  BY <1>7
<1>9. Lands(p, c)
  BY <1>5, <1>6, <1>8 DEF Lands
<1> QED
  BY <1>1, <1>7, <1>9

LEMMA LoginKeeps ==
  ASSUME DInv, NEW c \in Client, Login(c) \/ OnResolveResult(c), UNCHANGED serverVars
  PROVE  DInv'
<1>1. PICK p : p = Now(c)
  OBVIOUS
<1>2. Lands(p, c) /\ Sane(p, c) /\ p.c = cl[c] /\ Net(conn) /\ Clients /\ p.net = conn
  BY <1>1, NowLands DEF DInv
<1>3. Moves(c)
  BY <1>2, LoginFacts
<1>4. PICK x : x = p.c /\ IsClientRecord(x, c) /\ Local(x, conn, listening, s_member_id)
  BY <1>2 DEF Sane, Lands
<1>5. /\ UNCHANGED <<backlog, listening>>
      /\ Login(c) => x.state = "NOT_CONNECTED"
      /\ OnResolveResult(c) => x.resolving
  BY <1>2, <1>4 DEF Login, OnResolveResult
<1>6. /\ Unused(x, conn, listening) /\ x.my_id = -1 /\ x.got = <<>>
      /\ x.hanging \notin DOMAIN conn /\ x.state # "CONNECTED"
      /\ Login(c) => ~x.resolving
  BY <1>4, <1>5 DEF Local, Unused
<1>7. /\ Quiet(conn, p.net, c) /\ NewId(x.my_id, c, p.net) /\ x.got \in Seq(Answer)
      /\ x.retry > 0 => ~listening
  BY <1>2, <1>4 DEF Lands, Local
(* A state without a session that keeps the sockets. *)
<1>8. ASSUME NEW q, q.net = conn, q.c.state \in {"NOT_CONNECTED", "RESOLVING"},
             q.c.my_id = x.my_id, q.c.got = x.got, q.c.retry = x.retry,
             q.c.control = x.control, q.c.hanging = x.hanging,
             q.c.onconnect = x.onconnect, q.c.state = "NOT_CONNECTED" => ~q.c.resolving
      PROVE  Lands(q, c)
  <2>1. PICK y : y = q.c
    OBVIOUS
  <2>2. Unused(y, conn, listening)
    BY <1>6, <1>8, <2>1 DEF Unused
  <2>3. Wired(y, conn, listening)
    <3>1. Task(y, conn) = Task(x, conn)
      BY <1>8, <2>1 DEF Task
    <3>2. Wired(x, conn, listening)
      BY <1>4 DEF Local
    <3> QED
      BY <1>8, <2>1, <3>1, <3>2 DEF Wired
  <2>4. Local(y, conn, listening, s_member_id)
    BY <1>6, <1>7, <1>8, <2>1, <2>2, <2>3 DEF Local
  <2>5. Followed(y, [members |-> members, conn |-> conn])
    BY <1>8, <2>1 DEF Followed
  <2> QED
    BY <1>2, <1>7, <1>8, <2>1, <2>4, <2>5 DEF Lands
<1>9. PICK yes \in BOOLEAN : yes = TRUE
  OBVIOUS
<1>10. PICK no \in BOOLEAN : no = FALSE
  OBVIOUS
<1>11. PICK a \in State : a = "RESOLVING"
  BY DEF State
<1>12. PICK b \in State : b = "NOT_CONNECTED"
  BY DEF State
<1>13. PICK q : q = Resolved(p)
  OBVIOUS
<1>14. Sane(q, c) /\ q.net = conn /\ q.c = [x EXCEPT !.resolving = no]
  BY <1>2, <1>4, <1>10, <1>13, ResolvingChanged DEF Resolved
<1>15. PICK y : /\ y = q.c /\ IsClientRecord(y, c) /\ ~y.resolving
                /\ y.my_id = x.my_id /\ y.got = x.got /\ y.retry = x.retry
                /\ y.control = x.control /\ y.hanging = x.hanging
                /\ y.onconnect = x.onconnect
  BY <1>4, <1>10, <1>14 DEF IsClientRecord
<1>16. CASE Login(c) /\ Become(c, DoConnect(p))
  <2>1. Lands(DoConnect(p), c)
    BY <1>2, <1>4, <1>6, <1>7, <1>16, DoConnectLands
  <2> QED
    BY <1>3, <1>5, <1>16, <2>1, Landing
<1>17. CASE Become(c, Resolves(p, a))
  <2>1. PICK u : u = [p EXCEPT !.c.state = a]
    OBVIOUS
  <2>2. Sane(u, c) /\ u.net = conn /\ u.c = [x EXCEPT !.state = a]
    BY <1>2, <1>4, <2>1, StateChanged
  <2>3. PICK v : v = [u EXCEPT !.c.resolving = yes]
    OBVIOUS
  <2>4. v.net = conn /\ v.c = [[x EXCEPT !.state = a] EXCEPT !.resolving = yes]
    BY <2>2, <2>3, ResolvingChanged
  <2>5. PICK z : z = v.c
    OBVIOUS
  <2>6. /\ z.state = a /\ z.my_id = x.my_id /\ z.got = x.got /\ z.retry = x.retry
        /\ z.control = x.control /\ z.hanging = x.hanging /\ z.onconnect = x.onconnect
    BY <1>4, <2>4, <2>5 DEF IsClientRecord
  <2>7. Lands(v, c)
    BY <1>8, <1>11, <2>4, <2>5, <2>6
  <2>8. Resolves(p, a) = v
    BY <1>9, <2>1, <2>3 DEF Resolves
  <2> QED
    BY <1>3, <1>5, <1>17, <2>7, <2>8, Landing
<1>18. CASE Become(c, DoConnect(q))
  <2>1. Lands(DoConnect(q), c)
    BY <1>2, <1>6, <1>7, <1>14, <1>15, DoConnectLands
  <2> QED
    BY <1>3, <1>5, <1>18, <2>1, Landing
<1>19. CASE Become(c, [q EXCEPT !.c.state = b])
  <2>1. PICK v : v = [q EXCEPT !.c.state = b]
    OBVIOUS
  <2>2. v.net = conn /\ v.c = [y EXCEPT !.state = b]
    BY <1>14, <1>15, <2>1, StateChanged
  <2>3. PICK z : z = v.c
    OBVIOUS
  <2>4. /\ z.state = b /\ z.my_id = x.my_id /\ z.got = x.got /\ z.retry = x.retry
        /\ z.control = x.control /\ z.hanging = x.hanging /\ z.onconnect = x.onconnect
        /\ ~z.resolving
    BY <1>15, <2>2, <2>3 DEF IsClientRecord
  <2>5. Lands(v, c)
    BY <1>8, <1>12, <2>2, <2>3, <2>4
  <2> QED
    BY <1>3, <1>5, <1>19, <2>1, <2>5, Landing
<1> QED
  BY <1>1, <1>11, <1>12, <1>13, <1>16, <1>17, <1>18, <1>19, ResolveCases

LEMMA SendKeeps ==
  ASSUME DInv, NEW c \in Client, SendMessage(c) \/ HangUp(c), UNCHANGED serverVars
  PROVE  DInv'
<1>1. PICK p : p = Now(c)
  OBVIOUS
<1>2. Lands(p, c) /\ Sane(p, c) /\ p.c = cl[c] /\ Net(conn) /\ Clients
  BY <1>1, NowLands DEF DInv
<1>3. Moves(c)
  BY <1>2, SendFactsOfClient
<1>4. PICK text \in Text : text = "message"
  BY DEF Text
<1>5. /\ p.c.state = "CONNECTED" /\ UNCHANGED <<backlog, listening>>
      /\ \E to : Become(c, SendToPeer(p, to, text))
  BY <1>1, <1>2, <1>4 DEF SendMessage, HangUp
<1>6. PICK to : Become(c, SendToPeer(p, to, text))
  BY <1>5
<1>7. Lands(SendToPeer(p, to, text), c)
  BY <1>2, <1>5, SendToPeerLands
<1> QED
  BY <1>3, <1>5, <1>6, <1>7, Landing

LEMMA LogOutKeeps ==
  ASSUME DInv, NEW c \in Client, LogOut(c) \/ Crash(c), UNCHANGED serverVars
  PROVE  DInv'
<1>1. PICK p : p = Now(c)
  OBVIOUS
<1>2. Lands(p, c) /\ Sane(p, c) /\ p.c = cl[c] /\ Net(conn) /\ Clients
  BY <1>1, NowLands DEF DInv
<1>3. Moves(c) /\ UNCHANGED <<backlog, listening>>
  BY <1>2, LogOutFacts DEF LogOut, Crash
<1>4. Lands(SignOut(p), c)
  BY <1>2, SignOutLands
<1>5. PICK a : a = [net |-> conn, c |-> Start(c)]
  OBVIOUS
<1>6. Lands(a, c)
  BY <1>2, <1>5, StartLands, QuietReflexive
<1>7. PICK net : net = Hang(conn, {cl[c].control, cl[c].hanging})
  OBVIOUS
<1>8. PICK ks : ks = {cl[c].control, cl[c].hanging}
  OBVIOUS
<1>9. \A k \in ks \cap DOMAIN conn : k[1] = c
  BY <1>2, <1>8, SocketsFacts DEF Clients
<1>10. Net(net)
  BY <1>2, <1>7, <1>8, <1>9, HangFacts
<1>11. Quiet(conn, net, c)
  BY <1>2, <1>7, <1>8, <1>9, HangQuiet
<1>12. PICK b : b = [net |-> net, c |-> Start(c)]
  OBVIOUS
<1>13. Lands(b, c)
  BY <1>10, <1>11, <1>12, StartLands
<1>14. Become(c, SignOut(p)) \/ Become(c, a) \/ Become(c, b)
  BY <1>1, <1>5, <1>7, <1>12 DEF LogOut, Crash
<1>15. PICK q : Become(c, q) /\ Lands(q, c)
  BY <1>4, <1>6, <1>13, <1>14
<1> QED
  BY <1>3, <1>15, Landing

LEMMA RetryKeeps ==
  ASSUME DInv, NEW c \in Client, Retry(c), UNCHANGED serverVars
  PROVE  DInv'
<1>1. PICK p : p = Now(c)
  OBVIOUS
<1>2. Lands(p, c) /\ Sane(p, c) /\ p.c = cl[c] /\ Net(conn) /\ Clients /\ p.net = conn
  BY <1>1, NowLands DEF DInv
<1>3. Moves(c) /\ UNCHANGED <<backlog, listening>>
  BY <1>2, RetryFacts DEF Retry
<1>4. PICK x : x = p.c /\ IsClientRecord(x, c) /\ Local(x, conn, listening, s_member_id)
  BY <1>2 DEF Sane, Lands
<1>5. ~listening
  BY <1>2, <1>4 DEF Retry, Local
<1>6. PICK y : y = [x EXCEPT !.retry = x.retry - 1]
  OBVIOUS
<1>7. /\ IsClientRecord(y, c) /\ y.control = x.control /\ y.hanging = x.hanging
      /\ y.got = x.got /\ y.my_id = x.my_id /\ y.resolving = x.resolving
  <2>1. x.retry \in Nat /\ x.retry > 0
    BY <1>2, <1>4 DEF IsClientRecord, Retry
  <2>2. PICK n \in Nat : n = x.retry - 1
    BY <2>1
  <2> QED
    BY <1>4, <1>6, <2>2 DEF IsClientRecord
<1>8. PICK q : q = [p EXCEPT !.c.retry = p.c.retry - 1]
  OBVIOUS
<1>9. q = [net |-> p.net, c |-> y]
  BY <1>2, <1>4, <1>6, <1>8 DEF Sane
<1>10. Sane(q, c) /\ q.net = conn /\ q.c = y
  BY <1>2, <1>4, <1>7, <1>9, SaneChanged
<1>11. /\ Quiet(conn, q.net, c) /\ NewId(y.my_id, c, q.net)
       /\ y.got \in Seq(Answer)
       /\ y.my_id = -1 \/ y.my_id \in 1..s_member_id
       /\ y.resolving => y.my_id = -1 /\ y.got = <<>>
  BY <1>2, <1>4, <1>7, <1>10 DEF Lands, Local, Unused
<1>12. Lands(DoConnect(q), c)
  BY <1>5, <1>10, <1>11, DoConnectLands
<1>13. Become(c, DoConnect(q))
  BY <1>1, <1>8 DEF Retry
<1> QED
  BY <1>3, <1>12, <1>13, Landing

LEMMA OnRefusedKeeps ==
  ASSUME DInv, NEW c \in Client, OnRefused(c), UNCHANGED serverVars
  PROVE  DInv'
<1>1. PICK p : p = Now(c)
  OBVIOUS
<1>2. Lands(p, c) /\ Sane(p, c) /\ p.c = cl[c] /\ Net(conn) /\ Clients /\ p.net = conn
  BY <1>1, NowLands DEF DInv
<1>3. Moves(c) /\ UNCHANGED <<backlog, listening>> /\ ~listening
  BY <1>2, OnCloseFacts DEF OnRefused
<1>4. Lands(CloseBoth(p), c)
  BY <1>2, <1>3, CloseBothLands DEF Lands
<1>5. PICK a : a = ControlClosed(p)
  OBVIOUS
<1>6. PICK x : x = a.c
  OBVIOUS
<1>7. Lands(a, c) /\ a.net = Hang(conn, {cl[c].control}) /\ x = [cl[c] EXCEPT !.control = Closed]
  <2>1. Lands(a, c)
    BY <1>2, <1>5, ControlClosedLands
  <2> QED
    BY <1>2, <1>5, <1>6, <2>1 DEF ControlClosed
<1>8. IsClientRecord(x, c)
  BY <1>2, <1>5, <1>6, ControlClosedFacts DEF Sane
<1>9. PICK y : y = [x EXCEPT !.retry = x.retry + 1]
  OBVIOUS
<1>10. /\ y.control = x.control /\ y.hanging = x.hanging /\ y.state = x.state
       /\ y.my_id = x.my_id /\ y.got = x.got /\ y.peers = x.peers
       /\ y.onconnect = x.onconnect /\ y.resolving = x.resolving
  BY <1>8, <1>9 DEF IsClientRecord
<1>11. y = [cl[c] EXCEPT !.control = Closed, !.retry = @ + 1]
  <2>1. x.retry = cl[c].retry
    BY <1>2, <1>7 DEF Sane, IsClientRecord
  <2> QED
    BY <1>7, <1>9, <2>1
<1>12. PICK b : b = [net |-> a.net, c |-> y]
  OBVIOUS
<1>13. Lands(b, c)
  <2>0. b.net = a.net /\ b.c = y
    BY <1>12
  <2>1. Task(y, a.net) = Task(x, a.net)
    BY <1>10 DEF Task
  <2>2. Local(x, a.net, listening, s_member_id)
    BY <1>6, <1>7 DEF Lands
  <2>3. Local(y, a.net, listening, s_member_id)
    <3>1. Unused(x, a.net, listening) => Unused(y, a.net, listening)
      BY <1>10 DEF Unused
    <3> QED
      BY <1>3, <1>10, <2>1, <2>2, <3>1 DEF Local, Wired
  <2>4. Followed(y, [members |-> members, conn |-> a.net])
    BY <1>6, <1>7, <1>10 DEF Lands, Followed
  <2> QED
    BY <1>6, <1>7, <1>10, <2>0, <2>3, <2>4 DEF Lands
<1>14. Become(c, b) \/ Become(c, CloseBoth(p))
  BY <1>1, <1>7, <1>11, <1>12 DEF OnRefused
<1>15. PICK q : Become(c, q) /\ Lands(q, c)
  BY <1>4, <1>13, <1>14
<1> QED
  BY <1>3, <1>15, Landing

-----------------------------------------------------------------------------
(* The steps of a client that read an answer or see the end of a socket *)

(* Once the server has answered or closed the hanging get, the member does *)
(* not wait and no request of the client that matters is on its way.       *)
LEMMA Silent ==
  ASSUME DInv, NEW id, NEW k \in DOMAIN conn, NEW g, NEW ps, NEW R, NEW x,
         Tracked(members, conn, id, k, g, ps, R, x),
         conn[k].end = "closed" \/ conn[k].resp # <<>>
  PROVE  Unheard(members, id) /\ Unsaid(conn, id)
<1>1. PICK s : /\ s = Server /\ Tidy(s) /\ s.conn = conn /\ s.members = members
               /\ s.sockets = sockets
  BY DEF Server, DInv
<1>2. ASSUME NEW i \in 1..Len(members), members[i].id = id PROVE members[i].waiting # k
  <2>1. PICK m : m = members[i]
    OBVIOUS
  <2>2. SUFFICES ASSUME m.waiting = k PROVE FALSE
    BY <2>1
  <2>3. Follows(m, conn, k, g, ps, R)
    BY <1>2, <2>1 DEF Tracked
  <2>4. conn[k].resp = <<>>
    BY <2>2, <2>3 DEF Follows, Stream
  <2>5. WaitsOn(m, conn, Range(sockets)) /\ Held(sockets, conn, "accepted") /\ k \in Key
    BY <1>1, <2>1 DEF Tidy, Serving, Channel, Net
  <2>6. k \in Range(sockets)
    BY <2>2, <2>5, NoKey DEF WaitsOn
  <2>7. conn[k].end = "accepted"
    BY <2>5, <2>6, HeldRange
  <2> QED
    BY <2>4, <2>7
<1>3. Unheard(members, id)
  BY <1>2 DEF Unheard, Tracked, Follows
<1>4. LinkIsTidy(conn[k], s.id)
  BY <1>1 DEF Tidy, Links
<1>5. ~Asks(conn[k], id)
  BY <1>4 DEF Asks, LinkIsTidy
<1>6. Unsaid(conn, id)
  BY <1>5 DEF Tracked, Alone, Unsaid
<1> QED
  BY <1>3, <1>6

LEMMA OnCloseKeeps ==
  ASSUME DInv, NEW c \in Client, OnClose(c), UNCHANGED serverVars
  PROVE  DInv'
<1>1. PICK p : p = Now(c)
  OBVIOUS
<1>2. Lands(p, c) /\ Sane(p, c) /\ p.c = cl[c] /\ Net(conn) /\ Clients /\ p.net = conn
  BY <1>1, NowLands DEF DInv
<1>3. Moves(c) /\ UNCHANGED <<backlog, listening>>
  BY <1>2, OnCloseFacts DEF OnClose
<1>4. PICK x : x = p.c /\ Local(x, conn, listening, s_member_id)
  BY <1>2 DEF Lands
<1>5. CASE Become(c, ControlClosed(p))
  BY <1>2, <1>3, <1>5, ControlClosedLands, Landing
<1>6. CASE ClosedByServer(x.hanging) /\ Become(c, Reconnected(p))
  <2>1. PICK k : /\ k = x.hanging /\ k \in DOMAIN conn /\ conn[k].end = "closed"
                 /\ conn[k].resp = <<>>
    BY <1>6 DEF ClosedByServer, IsOpen
  <2>2. x.state = "CONNECTED"
    BY <1>4, <2>1 DEF Local
  <2>3. PICK q : q = Reconnected(p)
    OBVIOUS
  <2>4. NewHanging(p, q, c)
    BY <1>2, <1>4, <2>2, <2>3, ReconnectedIs
  <2>5. PICK y : y = q.c /\ Alike(x, y) /\ Quiet(conn, q.net, c)
    BY <1>2, <1>4, <2>4 DEF NewHanging
  <2>6. Local(y, q.net, listening, s_member_id)
    BY <1>2, <1>4, <2>2, <2>4, <2>5, NewHangingLocal
  <2>7. NewId(y.my_id, c, q.net)
    <3>1. NewId(x.my_id, c, conn)
      BY <1>2, <1>4 DEF Lands
    <3> QED
      BY <2>5, <3>1, NewIdStays DEF Alike
  <2>8. PICK R : R = IdsOf(members) \ {x.my_id}
    OBVIOUS
  <2>9. Tracked(members, conn, x.my_id, k, x.got, x.peers, R, NoSocket)
    BY <1>2, <1>4, <2>1, <2>2, <2>8 DEF Lands, Followed, Tracks
  <2>10. Unheard(members, x.my_id) /\ Unsaid(conn, x.my_id)
    BY <2>1, <2>9, Silent
  <2>11. Advances(members, conn, x.my_id, k, x.got, x.peers, x.got, x.peers)
    BY <2>1, AdvancesNot DEF Stream
  <2>12. PICK l \in DOMAIN q.net : l = y.hanging /\ l \in Key /\ Calm(q.net[l]) /\ q.net[l].open
    BY <2>4, <2>5 DEF NewHanging
  <2>13. Tracked(members, q.net, x.my_id, l, x.got, x.peers, R, NoSocket)
    BY <2>5, <2>9, <2>10, <2>11, <2>12, NewTracked
  <2>14. Followed(y, [members |-> members, conn |-> q.net])
    BY <2>5, <2>8, <2>12, <2>13 DEF Followed, Tracks, Alike
  <2>15. Lands(q, c)
    BY <2>5, <2>6, <2>7, <2>14 DEF Lands
  <2> QED
    BY <1>3, <1>6, <2>3, <2>15, Landing
<1> QED
  BY <1>1, <1>2, <1>4, <1>5, <1>6 DEF OnClose, ControlClosed

(* The response that is read is the only one on the wire. *)
LEMMA ReadAdvances ==
  ASSUME NEW ms \in Seq(Peer), NEW net, NEW id, NEW k \in DOMAIN net, NEW g \in Seq(Answer),
         NEW ps, net[k].resp \in Seq(Answer), net[k].resp # <<>>, Len(net[k].resp) <= 1
  PROVE  LET r == Head(net[k].resp)
         IN  Advances(ms, net, id, k, g, ps, Append(g, r), Notified(ps, r, id))
<1>1. PICK v \in Seq(Answer) : v = net[k].resp
  OBVIOUS
<1>2. Len(v) = 1 /\ Head(v) = v[1] /\ Head(v) \in Answer
  <2>1. v # <<>> /\ Len(v) <= 1
    BY <1>1
  <2>2. Len(v) \in Nat /\ Head(v) \in Answer /\ Head(v) = v[1]
    BY <2>1, LenProperties, HeadTailProperties
  <2>3. Len(v) # 0
    BY <2>1, EmptySeq
  <2>4. PICK n \in Nat : n = Len(v)
    BY <2>2
  <2>5. n = 1
    BY ONLY <2>1, <2>3, <2>4
  <2> QED
    BY <2>2, <2>4, <2>5, Zenon
<1>3. PICK r \in Answer : r = Head(v) /\ r = v[1]
  BY <1>2
<1>4. PICK one \in Seq(Answer) : one = <<r>> /\ Len(one) = 1 /\ one[1] = r
  BY OneResponse
<1>5. v = one
  BY <1>2, <1>3, <1>4, SeqEqual
<1>6. ASSUME NEW i \in 1..Len(ms), ms[i].id = id
      PROVE  /\ Append(g, r) \o (<<>> \o ms[i].queue) = g \o Coming(ms[i], net, k)
             /\ Applied(Notified(ps, r, id), <<>> \o ms[i].queue, id)
                  = Applied(ps, Coming(ms[i], net, k), id)
  <2>1. PICK q \in Seq(Answer) : q = ms[i].queue
    BY MembersFacts, PeerFields
  <2>2. <<>> \o q = q /\ Coming(ms[i], net, k) = one \o q
    BY <1>1, <1>5, <2>1, ConcatEmptySeq DEF Coming, Stream
  <2>3. Append(g, r) = g \o one
    BY <1>4, AppendIsConcat
  <2>4. (g \o one) \o q = g \o (one \o q)
    BY ResponsesAssociate, ZenonT(60)
  <2>5. Applied(ps, one \o q, id) = Applied(Notified(ps, r, id), q, id)
    BY <1>4, AppliedFirst
  <2> QED
    BY <2>1, <2>2, <2>3, <2>4, <2>5
<1> QED
  BY <1>1, <1>3, <1>6 DEF Advances

LEMMA OnHangingGetReadKeeps ==
  ASSUME DInv, NEW c \in Client, OnHangingGetRead(c), UNCHANGED serverVars
  PROVE  DInv'
<1>1. PICK p : p = Now(c)
  OBVIOUS
<1>2. Lands(p, c) /\ Sane(p, c) /\ p.c = cl[c] /\ Net(conn) /\ Clients /\ p.net = conn
  BY <1>1, NowLands DEF DInv
<1>3. Moves(c)
  BY <1>2, OnHangingGetReadFacts
<1>4. UNCHANGED <<backlog, listening>>
  BY Zenon DEF OnHangingGetRead
<1>5. PICK x : x = p.c /\ Local(x, conn, listening, s_member_id)
  BY <1>2 DEF Lands
<1>6. PICK k \in DOMAIN conn : k = x.hanging /\ conn[k].resp # <<>> /\ conn[k].resp \in Seq(Answer)
  <2>1. x.hanging \in DOMAIN conn /\ conn[x.hanging].resp # <<>>
    BY <1>2, <1>5, Zenon DEF OnHangingGetRead, Answered, IsOpen
  <2> QED
    BY <1>2, <2>1 DEF Net, IsLink
<1>7. x.state = "CONNECTED" /\ x.got \in Seq(Answer)
  BY <1>5, <1>6 DEF Local
<1>8. PICK q : q = Reconnected(p)
  OBVIOUS
<1>9. NewHanging(p, q, c)
  BY <1>2, <1>5, <1>7, <1>8, ReconnectedIs
<1>10. PICK y : /\ y = q.c /\ Alike(x, y) /\ Quiet(conn, q.net, c) /\ Sane(q, c)
                /\ IsClientRecord(y, c)
  BY <1>2, <1>5, <1>9 DEF NewHanging, Sane
<1>11. Local(y, q.net, listening, s_member_id)
  BY <1>2, <1>5, <1>7, <1>9, <1>10, NewHangingLocal
<1>12. Lands(CloseBoth(q), c)
  BY <1>10, <1>11, CloseBothLands DEF Local
<1>13. PICK r \in Answer : r = Head(conn[k].resp)
  BY <1>2, <1>6, HeadFacts
<1>14. PICK R : R = IdsOf(members) \ {x.my_id}
  OBVIOUS
<1>15. Tracked(members, conn, x.my_id, k, x.got, x.peers, R, NoSocket)
  BY <1>2, <1>5, <1>6, <1>7, <1>14 DEF Lands, Followed, Tracks
<1>16. PICK g \in Seq(Answer) : g = Append(x.got, r)
  BY <1>7, AppendProperties
<1>17. PICK ps : ps = Notified(x.peers, r, x.my_id)
  OBVIOUS
<1>18. Advances(members, conn, x.my_id, k, x.got, x.peers, g, ps)
  <2>1. members \in Seq(Peer)
    BY DEF DInv, Tidy, Serving, Channel, Server
  <2>2. Len(conn[k].resp) <= 1
    BY <1>15 DEF Tracked, Hangs
  <2> QED
    BY <1>6, <1>7, <1>13, <1>16, <1>17, <2>1, <2>2, ReadAdvances
<1>19. PICK l \in DOMAIN q.net : l = y.hanging /\ l \in Key /\ Calm(q.net[l]) /\ q.net[l].open
  BY <1>9, <1>10 DEF NewHanging
<1>20. Tracked(members, q.net, x.my_id, l, g, ps, R, NoSocket)
  <2>1. Unheard(members, x.my_id) /\ Unsaid(conn, x.my_id)
    BY <1>6, <1>15, Silent
  <2> QED
    BY <1>10, <1>15, <1>18, <1>19, <2>1, NewTracked
<1>21. PICK z : z = [y EXCEPT !.got = g, !.peers = ps]
  OBVIOUS
<1>22. /\ z.state = y.state /\ z.my_id = y.my_id /\ z.retry = y.retry
       /\ z.resolving = y.resolving
       /\ z.control = y.control /\ z.onconnect = y.onconnect /\ z.hanging = y.hanging
       /\ z.got = g /\ z.peers = ps
  BY <1>10, <1>21 DEF IsClientRecord
<1>23. PICK d : d = [net |-> q.net, c |-> z]
  OBVIOUS
<1>24. Lands(d, c)
  <2>1. d.net = q.net /\ d.c = z
    BY <1>23
  <2>2. Local(z, q.net, listening, s_member_id)
    <3>1. KeepsTask(y, q.net, z, q.net)
      BY <1>22 DEF KeepsTask, Seen
    <3>2. /\ z.got \in Seq(Answer) /\ y.state = "CONNECTED"
          /\ z.retry > 0 => ~listening
          /\ z.hanging \in DOMAIN q.net <=> y.hanging \in DOMAIN q.net
      BY <1>7, <1>10, <1>11, <1>16, <1>22 DEF Local, Alike
    <3> QED
      BY <1>11, <1>22, <3>1, <3>2, LocalAlike
  <2>3. NewId(z.my_id, c, q.net)
    <3>1. NewId(x.my_id, c, conn)
      BY <1>2, <1>5 DEF Lands
    <3> QED
      BY <1>10, <1>22, <3>1, NewIdStays DEF Alike
  <2>4. Followed(z, [members |-> members, conn |-> q.net])
    BY <1>10, <1>14, <1>19, <1>20, <1>22 DEF Followed, Tracks, Alike
  <2> QED
    BY <1>10, <2>1, <2>2, <2>3, <2>4 DEF Lands
<1>25. Become(c, CloseBoth(q)) \/ Become(c, d)
  <2>1. PICK o : o = [q EXCEPT !.c.got = Append(q.c.got, r)]
    OBVIOUS
  <2>2. y.got = x.got /\ y.peers = x.peers
    BY <1>10 DEF Alike
  <2>3. o = [net |-> q.net, c |-> [y EXCEPT !.got = g]]
    BY <1>10, <1>16, <2>1, <2>2 DEF Sane
  <2>4. PICK u : u = [y EXCEPT !.got = g] /\ o.c = u /\ o.net = q.net
    BY <2>3
  <2>5. u.peers = x.peers /\ z = [u EXCEPT !.peers = ps]
    BY <1>10, <1>21, <2>2, <2>4 DEF IsClientRecord
  <2>6. PICK e : e = r.entries[1]
    OBVIOUS
  <2>7. PICK ns : ns = IF e[2] THEN x.peers \cup {e[1]} ELSE x.peers \ {e[1]}
    BY Zenon
  <2>8. ps = IF r.pragma # x.my_id THEN x.peers ELSE ns
    BY <1>17, <2>6, <2>7 DEF Notified
  <2> DEFINE v == CASE r.status # 200 -> CloseBoth(q)
                    [] r.status = 200 /\ r.pragma = x.my_id ->
                         [o EXCEPT !.c.peers = IF e[2] THEN @ \cup {e[1]} ELSE @ \ {e[1]}]
                    [] OTHER -> o
  <2>9. Become(c, v)
    <3>1. k = cl[c].hanging /\ x = cl[c]
      BY <1>2, <1>5, <1>6
    <3> QED
      BY <1>1, <1>8, <1>13, <2>1, <2>6, <3>1, ZenonT(30) DEF OnHangingGetRead
  <2>10. v \in {CloseBoth(q), d}
    <3>1. CASE r.pragma = x.my_id
      <4>1. [o EXCEPT !.c.peers = IF e[2] THEN @ \cup {e[1]} ELSE @ \ {e[1]}]
              = [o EXCEPT !.c.peers = ns]
        BY <2>4, <2>5, <2>7
      <4>2. [o EXCEPT !.c.peers = ns] = d
        BY <1>23, <2>3, <2>4, <2>5, <2>8, <3>1
      <4> QED
        BY <3>1, <4>1, <4>2
    <3>2. CASE r.pragma # x.my_id
      <4>1. z = u
        BY <1>10, <2>4, <2>5, <2>8, <3>2, ZenonT(60) DEF IsClientRecord
      <4>2. o = d
        BY <1>23, <2>3, <2>4, <4>1
      <4> QED
        BY <3>2, <4>2
    <3> QED
      BY <3>1, <3>2
  <2> HIDE DEF v
  <2> QED
    BY <2>9, <2>10
<1>26. PICK o : Become(c, o) /\ Lands(o, c)
  BY <1>12, <1>24, <1>25
<1> QED
  BY <1>3, <1>4, <1>26, Landing

LEMMA HangShuts ==
  ASSUME NEW a, Net(a), NEW k, k \in DOMAIN Hang(a, {k})
  PROVE  ~Hang(a, {k})[k].open
<1>1. k \in DOMAIN a /\ Hang(a, {k})[k] = [a[k] EXCEPT !.open = FALSE, !.resp = <<>>]
  BY DEF Hang
<1>2. PICK l : l = a[k] /\ IsLink(l)
  BY <1>1 DEF Net
<1>3. PICK e : e = <<>>
  OBVIOUS
<1>4. ~[l EXCEPT !.open = FALSE, !.resp = e].open
  BY <1>2, SMTT(30) DEF IsLink
<1> QED
  BY <1>1, <1>2, <1>3, <1>4

(* The answer to a sign-in: the id is a new one, and nothing that was sent *)
(* to the member since is lost.                                            *)
LEMMA Welcomed ==
  ASSUME DInv, NEW c \in Client, NEW k, k = cl[c].control, Pending(conn, k)
  PROVE  LET r == Head(conn[k].resp)
         IN  /\ r.status = 200 /\ r.pragma \in 1..s_member_id
             /\ Tracked(members, conn, r.pragma, Closed, <<>>, Ids(r) \ {r.pragma},
                        IdsOf(members) \ {r.pragma}, NoSocket)
             /\ Unheard(members, r.pragma) /\ Unsaid(conn, r.pragma)
             /\ NewId(r.pragma, c, Hang(conn, {k}))
<1>1. PICK s : /\ s = Server /\ Tidy(s) /\ s.conn = conn /\ s.members = members
               /\ s.id = s_member_id
  BY DEF Server, DInv
<1>2. Welcome(s, k, s.id) /\ Net(conn) /\ members \in Seq(Peer)
  BY <1>1 DEF Tidy, Welcomes, Pending, Serving, Channel
<1>3. PICK r : r = conn[k].resp[1]
  OBVIOUS
<1>4. r = Head(conn[k].resp)
  <2>1. conn[k].resp \in Seq(Answer)
    BY <1>2, SMTT(30) DEF Net, IsLink, Pending
  <2> QED
    BY <1>3, <2>1
<1>5. /\ r.status = 200 /\ r.pragma \in 1..s_member_id
      /\ Tracked(members, conn, r.pragma, Closed, <<>>, Ids(r) \ {r.pragma},
                 IdsOf(members) \ {r.pragma}, NoSocket)
  BY <1>1, <1>2, <1>3 DEF Welcome, Tracks
<1>6. PICK id : id = r.pragma
  OBVIOUS
<1>7. Unheard(members, id)
  <2>1. \A i \in 1..Len(members) : members[i].id = id => members[i].waiting \in {NoSocket, Closed}
    BY <1>5, <1>6 DEF Tracked, Follows
  <2>2. \A i \in 1..Len(members) : members[i].waiting # Closed
    <3>1. PICK o : o = Closed /\ o \notin Key /\ o # NoSocket
      BY NoKey DEF Closed, NoSocket
    <3>2. \A i \in 1..Len(members) : members[i].waiting \in Key \cup {NoSocket}
      BY <1>2, MembersFacts
    <3> QED
      BY ONLY <3>1, <3>2
  <2> QED
    BY <2>1, <2>2 DEF Unheard
<1>8. Unsaid(conn, id)
  BY <1>2, <1>5, <1>6, NoKey DEF Tracked, Alone, Unsaid, Net
<1>9. NewId(id, c, Hang(conn, {k}))
  <2>1. PICK b : b = Hang(conn, {k})
    OBVIOUS
  <2>2. \A d \in Client : cl[d].my_id # id
    BY <1>3, <1>6 DEF DInv, Users, Unique, Pending
  <2>3. ASSUME NEW j \in DOMAIN b, Pending(b, j) PROVE b[j].resp[1].pragma # id
    <3>1. j # k
      BY <1>2, <2>1, <2>3, HangShuts DEF Pending
    <3>2. j \in DOMAIN conn /\ b[j] = conn[j]
      BY <2>1, <3>1 DEF Hang
    <3>3. Pending(conn, j)
      BY <2>3, <3>2 DEF Pending
    <3>4. conn[j].resp[1].pragma # conn[k].resp[1].pragma
      BY <1>1, <3>1, <3>3 DEF Tidy, Welcomes, Pending
    <3> QED
      BY <1>3, <1>6, <3>2, <3>4
  <2> QED
    BY <2>1, <2>2, <2>3 DEF NewId
<1> QED
  BY <1>4, <1>5, <1>6, <1>7, <1>8, <1>9, Zenon

LEMMA OnReadKeeps ==
  ASSUME DInv, NEW c \in Client, OnRead(c), UNCHANGED serverVars
  PROVE  DInv'
<1>1. PICK n : n = Now(c)
  OBVIOUS
<1>2. Lands(n, c) /\ Sane(n, c) /\ n.c = cl[c] /\ Net(conn) /\ Clients /\ n.net = conn
  BY <1>1, NowLands DEF DInv
<1>3. Moves(c)
  BY <1>2, OnReadFacts
<1>4. UNCHANGED <<backlog, listening>>
  BY Zenon DEF OnRead
<1>5. PICK x : x = cl[c] /\ Local(x, conn, listening, s_member_id)
  BY <1>2 DEF Lands
<1>6. PICK k \in DOMAIN conn : k = x.control /\ conn[k].resp # <<>> /\ conn[k].open
  <2>1. x.control \in DOMAIN conn /\ conn[x.control].resp # <<>>
    BY <1>5, Zenon DEF OnRead, Answered, IsOpen
  <2>2. conn[x.control].open
    BY <1>2, <1>5, <2>1, SocketKeys DEF Clients, Sockets
  <2> QED
    BY <2>1, <2>2
<1>7. Task(x, conn) = conn[k].req.path /\ conn[k].end # "syn"
  <2>1. LinkIsTidy(conn[k], s_member_id)
    BY DEF DInv, Tidy, Links, Server
  <2> QED
    BY <1>6, <2>1 DEF LinkIsTidy, Task
<1>8. PICK p : p = ControlClosed(n)
  OBVIOUS
<1>9. Lands(p, c) /\ Sane(p, c)
  BY <1>2, <1>8, ControlClosedLands, ControlClosedFacts
<1>10. PICK y : /\ y = p.c /\ IsClientRecord(y, c) /\ Alike(x, y) /\ y.control = Closed
                /\ y.hanging = x.hanging
                /\ Local(y, p.net, listening, s_member_id)
  BY <1>2, <1>5, <1>8, <1>9, ControlClosedIs, ZenonT(60) DEF Sane, Lands
<1>11. p.net = Hang(conn, {k}) /\ Quiet(conn, p.net, c)
  <2>1. p.net = Hang(n.net, {n.c.control})
    BY <1>8 DEF ControlClosed
  <2>2. Quiet(conn, p.net, c)
    BY <1>9 DEF Lands
  <2>3. n.c.control = k /\ n.net = conn
    BY <1>2, <1>5, <1>6
  <2> QED
    BY <2>1, <2>2, <2>3
<1>12. p = [net |-> Hang(conn, {cl[c].control}), c |-> [cl[c] EXCEPT !.control = Closed]]
  BY <1>2, <1>8 DEF ControlClosed
<1>13. Lands(CloseBoth(p), c) /\ CloseBoth(p).c.state = "NOT_CONNECTED"
  <2>1. Lands(CloseBoth(p), c)
    BY <1>9, <1>10, <1>11, CloseBothLands DEF Local
  <2> QED
    BY <1>9, <2>1, CloseBothIs DEF Ended
<1>14. PICK r : r = Head(conn[k].resp)
  OBVIOUS
<1>15. PICK a : a = [p EXCEPT !.c.my_id = r.pragma, !.c.peers = Ids(r) \ {r.pragma}]
  OBVIOUS
<1>16. PICK q : /\ \/ q = CloseBoth(p)
                   \/ y.my_id = -1 /\ q = a
                   \/ y.my_id # -1 /\ q = SignOut(p)
                   \/ y.my_id # -1 /\ q = p
                /\ Become(c, IF q.c.state = "SIGNING_IN"
                               THEN DialHanging([q EXCEPT !.c.state = "CONNECTED"]) ELSE q)
  <2> DEFINE z == CASE r.status # 200 -> CloseBoth(p)
                    [] r.status = 200 /\ p.c.my_id = -1 -> a
                    [] r.status = 200 /\ p.c.my_id # -1 /\ p.c.state = "SIGNING_OUT" ->
                         CloseBoth(p)
                    [] r.status = 200 /\ p.c.my_id # -1
                                      /\ p.c.state = "SIGNING_OUT_WAITING" -> SignOut(p)
                    [] OTHER -> p
  <2>1. \/ z = CloseBoth(p)
        \/ p.c.my_id = -1 /\ z = a
        \/ p.c.my_id # -1 /\ z = SignOut(p)
        \/ p.c.my_id # -1 /\ z = p
    OBVIOUS
  <2>2. Become(c, IF z.c.state = "SIGNING_IN"
                    THEN DialHanging([z EXCEPT !.c.state = "CONNECTED"]) ELSE z)
    <3>1. r = Head(conn[cl[c].control].resp)
      BY <1>5, <1>6, <1>14
    <3> QED
      BY <1>12, <1>15, <3>1, ZenonT(30) DEF OnRead
  <2> HIDE DEF z
  <2>3. p.c.my_id = y.my_id
    BY <1>10
  <2> QED
    BY <2>1, <2>2, <2>3, Zenon
<1>17. CASE q = CloseBoth(p)
  BY <1>3, <1>4, <1>13, <1>16, <1>17, Landing
<1>18. CASE y.my_id # -1 /\ q = SignOut(p)
  BY <1>3, <1>4, <1>9, <1>16, <1>18, SignOutLands, Landing
<1>19. CASE y.my_id # -1 /\ q = p
  <2>1. y.state # "SIGNING_IN"
    BY <1>5, <1>6, <1>7, <1>10, <1>19 DEF Local, Wired, Alike
  <2> QED
    BY <1>3, <1>4, <1>9, <1>10, <1>16, <1>19, <2>1, Landing
<1>20. CASE y.my_id = -1 /\ q = a
  <2>1. x.my_id = -1 /\ x.got = <<>> /\ Pending(conn, k)
    BY <1>5, <1>6, <1>7, <1>10, <1>20 DEF Local, Wired, Alike, Pending
  <2>2. PICK ps : ps = Ids(r) \ {r.pragma}
    OBVIOUS
  <2>3. PICK id : id = r.pragma
    OBVIOUS
  <2>4. PICK R : R = IdsOf(members) \ {id}
    OBVIOUS
  <2>5. /\ id \in 1..s_member_id /\ NewId(id, c, p.net)
        /\ Tracked(members, conn, id, Closed, <<>>, ps, R, NoSocket)
        /\ Unheard(members, id) /\ Unsaid(conn, id)
    BY <1>5, <1>6, <1>11, <1>14, <2>1, <2>2, <2>3, <2>4, Welcomed
  <2>6. id \in Int /\ id # -1
    <3>1. s_member_id \in Nat
      BY DEF DInv, Tidy, Serving, IsServer, Server
    <3> QED
      BY <2>5, <3>1
  <2>7. PICK z : z = [y EXCEPT !.my_id = id, !.peers = ps]
    OBVIOUS
  <2>8. /\ IsClientRecord(z, c) /\ z.state = y.state /\ z.my_id = id /\ z.retry = y.retry
        /\ z.resolving = y.resolving
        /\ z.control = y.control /\ z.hanging = y.hanging /\ z.got = y.got /\ z.peers = ps
    BY <1>10, <2>6, <2>7 DEF IsClientRecord
  <2>9. a = [net |-> p.net, c |-> z]
    BY <1>9, <1>10, <1>15, <2>2, <2>3, <2>7 DEF Sane
  <2>10. Sane(a, c) /\ a.net = p.net /\ a.c = z
    BY <1>9, <1>10, <2>8, <2>9, SaneChanged
  <2>11. z.got = <<>> /\ z.got \in Seq(Answer)
    BY <1>10, <2>1, <2>8, EmptySeq DEF Alike
  <2>12. Closed \notin DOMAIN p.net
    BY <1>9, NoKey DEF Sane, Net
  <2>13. /\ x.state \notin {"NOT_CONNECTED", "RESOLVING", "CONNECTED"}
         /\ y.hanging \notin DOMAIN p.net /\ y.state = x.state /\ ~y.resolving
    <3>1. ~Unused(x, conn, listening)
      BY <1>6, <1>7 DEF Unused
    <3> QED
      BY <1>5, <1>6, <1>10, <2>1, <3>1 DEF Local, Alike
  <2>14. CASE x.state # "SIGNING_IN"
    <3>1. Local(z, p.net, listening, s_member_id)
      BY <1>10, <2>5, <2>8, <2>11, <2>12, <2>13 DEF Local, Wired
    <3>2. Followed(z, [members |-> members, conn |-> p.net])
      BY <2>8, <2>13 DEF Followed
    <3>3. Lands(a, c)
      BY <1>11, <2>5, <2>8, <2>10, <3>1, <3>2 DEF Lands
    <3>4. a.c.state # "SIGNING_IN"
      BY <2>8, <2>10, <2>13, <2>14
    <3> QED
      BY <1>3, <1>4, <1>16, <1>20, <3>3, <3>4, Landing
  <2>15. CASE x.state = "SIGNING_IN"
    <3>1. PICK state \in State : state = "CONNECTED"
      BY DEF State
    <3>2. PICK d : d = [a EXCEPT !.c.state = state]
      OBVIOUS
    <3>3. Sane(d, c) /\ d.net = p.net /\ d.c = [z EXCEPT !.state = state]
      BY <2>10, <3>2, StateChanged
    <3>4. PICK u : u = d.c
      OBVIOUS
    <3>5. /\ u.state = "CONNECTED" /\ u.my_id = id /\ u.retry = y.retry /\ u.control = Closed
          /\ u.got = <<>> /\ u.peers = ps /\ u.resolving = y.resolving
      BY <1>10, <2>8, <2>11, <3>1, <3>3, <3>4 DEF IsClientRecord
    <3>6. PICK o : o = DialHanging(d)
      OBVIOUS
    <3>7. NewHanging(d, o, c)
      BY <3>3, <3>6, NewHangingIs
    <3>8. PICK w : w = o.c
      OBVIOUS
    <3>9. /\ w.state = "CONNECTED" /\ w.my_id = id /\ w.retry = y.retry /\ w.control = Closed
          /\ w.got = <<>> /\ w.peers = ps /\ Quiet(p.net, o.net, c) /\ Net(o.net)
          /\ w.resolving = y.resolving
      BY <3>3, <3>4, <3>5, <3>7, <3>8 DEF NewHanging, Alike, Sane
    <3>10. Quiet(conn, o.net, c)
      BY <1>11, <3>9, QuietTransitive
    <3>11. PICK l \in DOMAIN o.net : l = w.hanging /\ l \in Key /\ Calm(o.net[l]) /\ o.net[l].open
      BY <3>7, <3>8 DEF NewHanging
    <3>12. Local(w, o.net, listening, s_member_id)
      <4>1. Closed \notin DOMAIN o.net
        BY <3>9, NoKey DEF Net
      <4>2. w.got \in Seq(Answer)
        BY <3>9, EmptySeq
      <4>3. Wired(w, o.net, listening)
        BY <3>9, <4>1 DEF Wired
      <4>4. w.retry > 0 => ~listening
        BY <1>10, <3>9 DEF Local
      <4> QED
        BY <2>5, <2>6, <2>13, <3>9, <3>11, <4>2, <4>3, <4>4 DEF Local
    <3>13. NewId(w.my_id, c, o.net)
      BY <2>5, <3>9, NewIdStays
    <3>14. Stream(conn, Closed) = <<>>
      BY <1>2, NoKey DEF Stream, Net
    <3>15. PICK e : e = <<>>
      OBVIOUS
    <3>16. Tracked(members, o.net, id, l, e, ps, R, NoSocket)
      <4>1. Advances(members, conn, id, Closed, e, ps, e, ps)
        BY <3>14, AdvancesNot
      <4>2. PICK closed : closed = Closed
        OBVIOUS
      <4>3. /\ Tracked(members, conn, id, closed, e, ps, R, NoSocket)
            /\ Advances(members, conn, id, closed, e, ps, e, ps)
        BY <2>5, <3>15, <4>1, <4>2
      <4> QED
        BY ONLY <2>5, <3>10, <3>11, <4>3, NewTracked
    <3>17. Followed(w, [members |-> members, conn |-> o.net])
      BY <2>4, <3>9, <3>11, <3>15, <3>16 DEF Followed, Tracks
    <3>18. Lands(o, c)
      BY <3>8, <3>10, <3>12, <3>13, <3>17 DEF Lands
    <3>19. Become(c, o)
      <4>1. a.c.state = "SIGNING_IN"
        BY <2>8, <2>10, <2>13, <2>15
      <4> QED
        BY <1>16, <1>20, <3>1, <3>2, <3>6, <4>1
    <3> QED
      BY <1>3, <1>4, <3>18, <3>19, Landing
  <2> QED
    BY <2>14, <2>15
<1> QED
  BY <1>16, <1>17, <1>18, <1>19, <1>20

-----------------------------------------------------------------------------
(* The steps that send a request *)

Posted(a, b, k) ==
  /\ DOMAIN b = DOMAIN a \cup {k}
  /\ \A j \in DOMAIN a : j # k => b[j] = a[j]
  /\ k \in DOMAIN a => a[k].end = "syn" /\ a[k].resp = <<>> /\ b[k].open = a[k].open
  /\ b[k].end = "backlog" /\ b[k].resp = <<>> /\ b[k].left \in 1..2
  /\ b[k].req.path = "/wait" => b[k].left = 1

(* The request does not ask the member with this id to wait or to leave,   *)
(* unless it is the hanging get of its client.                             *)
Polite(b, j, id, k) ==
  /\ j = k => b[j].req.path = "/wait" /\ b[j].req.peer_id = id
  /\ j # k => ~Asks(b[j], id)

LEMMA PostTracked ==
  ASSUME NEW ms, NEW a, NEW b, NEW j, NEW id, NEW k, NEW g, NEW ps, NEW R, NEW x,
         Tracked(ms, a, id, k, g, ps, R, x), Posted(a, b, j), Polite(b, j, id, k),
         j = k => k \in DOMAIN a
  PROVE  Tracked(ms, b, id, k, g, ps, R, x)
<1>1. Stream(b, k) = Stream(a, k)
  BY DEF Stream, Posted
<1>2. \A i \in 1..Len(ms) : ms[i].id = id => Follows(ms[i], b, k, g, ps, R)
  <2>1. ASSUME NEW m, Follows(m, a, k, g, ps, R) PROVE Follows(m, b, k, g, ps, R)
    BY <1>1, <2>1 DEF Follows, Coming
  <2> QED
    BY <2>1 DEF Tracked
<1>3. Hangs(ms, b, id, k, x)
  <2>1. Hangs(ms, a, id, k, x)
    BY DEF Tracked
  <2>2. CASE j # k
    BY <2>1, <2>2 DEF Hangs, Posted
  <2>3. CASE j = k
    <3>1. Len(b[k].resp) <= 1
      BY <2>3 DEF Posted
    <3>2. b[k].open /\ b[k].end = "backlog"
      BY <2>1, <2>3 DEF Hangs, Posted
    <3> QED
      BY <2>3, <3>1, <3>2 DEF Hangs, Polite
  <2> QED
    BY <2>2, <2>3
<1>4. Alone(b, id, k)
  BY DEF Tracked, Alone, Posted, Polite
<1> QED
  BY <1>2, <1>3, <1>4 DEF Tracked

(* No sign-in under way gets this id. *)
NotPending(net, id) ==
  \A j \in DOMAIN net : Pending(net, j) => net[j].resp[1].pragma # id

LEMMA PostTidy ==
  ASSUME NEW s, NEW t, NEW k, Tidy(s), Serving(t), t.members = s.members,
         t.sockets = s.sockets, t.id = s.id, Posted(s.conn, t.conn, k),
         t.conn[k].req.peer_id <= s.id, NotPending(s.conn, t.conn[k].req.peer_id)
  PROVE  Tidy(t)
<1>1. PICK a : a = s.conn /\ Net(a)
  BY DEF Tidy, Serving, Channel
<1>2. PICK b : b = t.conn /\ Net(b) /\ Posted(a, b, k)
  BY <1>1 DEF Serving, Channel
<1>3. PICK ms : ms = s.members /\ ms \in Seq(Peer)
  BY DEF Tidy, Serving, Channel
<1>4. PICK id \in Nat : id = s.id
  BY DEF Tidy, Serving, IsServer
<1>5. Links(b, id)
  <2>1. LinkIsTidy(b[k], id)
    BY <1>2, <1>4 DEF LinkIsTidy, Posted
  <2>2. \A j \in DOMAIN a : LinkIsTidy(a[j], id)
    BY <1>1, <1>4 DEF Tidy, Links
  <2> QED
    BY <1>2, <2>1, <2>2 DEF Links, Posted
<1>6. ASSUME NEW j \in DOMAIN b, b[j].end = "accepted" PROVE j \in DOMAIN a /\ b[j] = a[j]
  BY <1>2, <1>6 DEF Posted
<1>7. Idle(ms, b)
  <2>1. ASSUME NEW i \in 1..Len(ms), ms[i].waiting # NoSocket PROVE b[ms[i].waiting].left = 0
    <3>1. PICK l : l = ms[i].waiting
      OBVIOUS
    <3>2. l \in Range(t.sockets) /\ l \in DOMAIN b /\ Held(t.sockets, b, "accepted")
      BY <1>2, <1>3, <2>1, <3>1 DEF Serving, Channel, WaitsOn
    <3>3. b[l].end = "accepted"
      BY <3>2, HeldRange
    <3>4. b[l] = a[l]
      BY <1>6, <3>2, <3>3
    <3>5. a[l].left = 0
      BY <1>1, <1>3, <2>1, <3>1 DEF Tidy, Idle
    <3> QED
      BY <3>1, <3>4, <3>5
  <2> QED
    BY <2>1 DEF Idle
<1>8. Complete(b, Range(t.sockets))
  BY <1>1, <1>6 DEF Tidy, Complete
<1>9. ASSUME NEW j \in DOMAIN b, Pending(b, j)
      PROVE  j \in DOMAIN a /\ Pending(a, j) /\ b[j] = a[j] /\ Welcome(t, j, id)
  <2>1. j \in DOMAIN a /\ b[j] = a[j]
    BY <1>2, <1>9 DEF Posted, Pending
  <2>2. Pending(a, j)
    BY <1>9, <2>1 DEF Pending
  <2>3. Welcome(s, j, id)
    BY <1>1, <1>4, <2>1, <2>2 DEF Tidy, Welcomes
  <2>4. PICK q : q = a[j].resp[1].pragma
    OBVIOUS
  <2>5. k # Closed
    BY <1>2, NoKey DEF Posted, Net
  <2>6. Polite(b, k, q, Closed)
    BY <1>1, <1>2, <2>1, <2>2, <2>4, <2>5 DEF Polite, Asks, NotPending
  <2>7. ASSUME NEW ps, NEW R, Tracked(ms, a, q, Closed, <<>>, ps, R, NoSocket)
        PROVE  Tracked(ms, b, q, Closed, <<>>, ps, R, NoSocket)
    BY ONLY <1>2, <2>5, <2>6, <2>7, PostTracked
  <2>8. Welcome(t, j, id)
    BY <1>1, <1>2, <1>3, <2>1, <2>3, <2>4, <2>7 DEF Welcome, Tracks
  <2> QED
    BY <2>1, <2>2, <2>8
<1>10. Welcomes(t, id)
  <2>1. ASSUME NEW i \in DOMAIN b, NEW j \in DOMAIN b, Pending(b, i), Pending(b, j),
               b[i].resp[1].pragma = b[j].resp[1].pragma
        PROVE  i = j
    <3>1. /\ i \in DOMAIN a /\ Pending(a, i) /\ b[i] = a[i]
          /\ j \in DOMAIN a /\ Pending(a, j) /\ b[j] = a[j]
      BY <1>9, <2>1
    <3>2. a[i].resp[1].pragma = a[j].resp[1].pragma
      BY <2>1, <3>1
    <3> QED
      BY <1>1, <3>1, <3>2 DEF Tidy, Welcomes
  <2> QED
    BY <1>2, <1>9, <2>1 DEF Welcomes
<1> QED
  BY <1>2, <1>3, <1>4, <1>5, <1>7, <1>8, <1>10 DEF Tidy

(* What client c is after the request is sent on socket k. *)
Sends(x, y, net, k) ==
  /\ Alike(x, y) /\ y.hanging = x.hanging
  /\ Local(y, net, listening, s_member_id)
  /\ x.state = "CONNECTED" => Polite(net, k, x.my_id, x.hanging)

LEMMA PostStep ==
  ASSUME DInv, NEW o, Clients', Net(conn'), ClientNet(conn, conn', o), Arrives,
         UNCHANGED <<serverVars, listening>>, NEW k, Posted(conn, conn', k),
         conn'[k].req.peer_id <= s_member_id, NotPending(conn, conn'[k].req.peer_id),
         \A d \in Client : Sends(cl[d], cl'[d], conn', k)
  PROVE  DInv'
<1>1. PICK s : /\ s = Server /\ Tidy(s) /\ s.conn = conn /\ s.id = s_member_id
               /\ s.members = members /\ s.sockets = sockets
  BY DEF Server, DInv
<1>2. UNCHANGED <<members, s_member_id, sockets>>
  BY DEF serverVars
<1>3. PICK t : /\ t = Server' /\ t.conn = conn' /\ t.id = s_member_id
               /\ t.members = members /\ t.sockets = sockets
  <2>1. PICK t : t = Server'
    OBVIOUS
  <2>2. /\ t.conn = conn' /\ t.id = s_member_id
        /\ t.members = members /\ t.sockets = sockets
    BY ONLY <1>2, <2>1 DEF Server
  <2> QED
    BY <2>1, <2>2
<1>4. Serving(t)
  BY <1>1, <1>3, ServingStays DEF Tidy
<1>5. Tidy(t)
  BY <1>1, <1>3, <1>4, PostTidy
<1>6. ASSUME NEW d \in Client
      PROVE  /\ Local(cl'[d], conn', listening', s_member_id')
             /\ Unique(cl'[d], conn')
             /\ cl'[d].my_id = cl[d].my_id
             /\ cl'[d].state = "CONNECTED" =>
                  Tracks(t, cl'[d].my_id, cl'[d].hanging, cl'[d].got, cl'[d].peers, NoSocket)
  <2>1. PICK x : x = cl[d]
    OBVIOUS
  <2>2. PICK y : y = cl'[d] /\ Sends(x, y, conn', k)
    BY <2>1
  <2>3. /\ Local(x, conn, listening, s_member_id) /\ Unique(x, conn)
        /\ x.state = "CONNECTED" =>
             Tracks(s, x.my_id, x.hanging, x.got, x.peers, NoSocket)
    BY <1>1, <2>1 DEF DInv, Users, Signed
  <2>4. Unique(y, conn')
    <3>1. \A j \in DOMAIN conn' : Pending(conn', j) =>
            j \in DOMAIN conn /\ conn'[j] = conn[j] /\ Pending(conn, j)
      BY DEF Posted, Pending
    <3> QED
      BY <2>2, <2>3, <3>1 DEF Unique, Sends, Alike
  <2>5. ASSUME x.state = "CONNECTED"
        PROVE  Tracks(t, x.my_id, x.hanging, x.got, x.peers, NoSocket)
    <3>1. PICK R : R = IdsOf(members) \ {x.my_id}
      OBVIOUS
    <3>2. Tracked(members, conn, x.my_id, x.hanging, x.got, x.peers, R, NoSocket)
      BY <1>1, <2>3, <2>5, <3>1 DEF Tracks
    <3>3. Polite(conn', k, x.my_id, x.hanging) /\ x.hanging \in DOMAIN conn
      BY <2>2, <2>3, <2>5 DEF Sends, Local
    <3>4. Tracked(members, conn', x.my_id, x.hanging, x.got, x.peers, R, NoSocket)
      BY ONLY <3>2, <3>3, Posted(conn, conn', k), PostTracked
    <3> QED
      BY <1>3, <3>1, <3>4 DEF Tracks
  <2> QED
    BY <1>2, <2>1, <2>2, <2>4, <2>5 DEF Sends, Alike
<1>7. \A d, e \in Client : cl'[d].my_id = cl'[e].my_id /\ cl'[d].my_id # -1 => d = e
  BY <1>6 DEF DInv, Users
<1>8. Users'
  BY <1>3, <1>6, <1>7 DEF Users, Signed
<1> QED
  BY <1>3, <1>5, <1>8 DEF DInv

LEMMA SentPosts ==
  ASSUME NEW a, Net(a), NEW k \in DOMAIN a, a[k].end = "syn", a[k].resp = <<>>,
         NEW path, NEW id, NEW to, NEW text
  PROVE  LET b == Sent(a, k, path, id, to, text)
         IN  Posted(a, b, k) /\ b[k].req.path = path /\ b[k].req.peer_id = id
<1>1. PICK b : b = Sent(a, k, path, id, to, text)
  OBVIOUS
<1>2. PICK q : q = [path |-> path, peer_id |-> id, to |-> to, text |-> text]
  OBVIOUS
<1>3. PICK l \in 1..2 : l = IF path \in {"/sign_in", "/wait", "/sign_out"} THEN 1 ELSE 2
  OBVIOUS
<1>4. PICK x : x = a[k]
  OBVIOUS
<1>5. PICK y : y = [open |-> x.open, end |-> "backlog", resp |-> x.resp, left |-> l,
                    req |-> q]
  OBVIOUS
<1>6. /\ y.open = x.open /\ y.end = "backlog" /\ y.resp = x.resp /\ y.left = l /\ y.req = q
      /\ q.path = path /\ q.peer_id = id
  BY <1>2, <1>5
<1>7. b = [a EXCEPT ![k] = y]
  BY <1>1, <1>2, <1>3, <1>4, <1>5 DEF Sent
<1>8. DOMAIN b = DOMAIN a /\ b[k] = y /\ \A j \in DOMAIN a \ {k} : b[j] = a[j]
  <2>1. a = [j \in DOMAIN a |-> a[j]]
    BY DEF Net
  <2> QED
    BY <1>7, <2>1
<1>9. path = "/wait" => l = 1
  BY <1>3
<1>10. DOMAIN a = DOMAIN a \cup {k}
  OBVIOUS
<1>11. Posted(a, b, k)
  BY <1>4, <1>6, <1>8, <1>9, <1>10 DEF Posted
<1> QED
  BY <1>1, <1>6, <1>8, <1>11

(* A client whose request it is not. *)
LEMMA SendsNot ==
  ASSUME DInv, NEW d \in Client, NEW b, NEW k, Posted(conn, b, k),
         k # cl[d].control, k # cl[d].hanging,
         cl[d].state = "CONNECTED" => ~Asks(b[k], cl[d].my_id)
  PROVE  Sends(cl[d], cl[d], b, k)
<1>1. PICK x : x = cl[d] /\ Local(x, conn, listening, s_member_id)
  BY DEF DInv, Users
<1>2. PICK n \in Nat : n = s_member_id
  BY DEF DInv, Tidy, Serving, IsServer, Server
<1>3. Seen(x.control, conn, b) /\ Seen(x.hanging, conn, b)
  BY <1>1 DEF Seen, Posted
<1>4. Local(x, b, listening, n)
  BY <1>1, <1>2, <1>3, LocalStays
<1>5. x.state = "CONNECTED" => Polite(b, k, x.my_id, x.hanging)
  BY <1>1 DEF Polite
<1> QED
  BY <1>1, <1>2, <1>4, <1>5 DEF Sends, Alike

(* A client whose socket k is does not share it. *)
LEMMA NotShared ==
  ASSUME DInv, NEW c \in Client, NEW k \in DOMAIN conn,
         k = cl[c].control \/ k = cl[c].hanging, NEW d \in Client, d # c
  PROVE  k # cl[d].control /\ k # cl[d].hanging
<1>1. /\ Net(conn) /\ Sockets(cl[c], c, conn) /\ Sockets(cl[d], d, conn)
  BY DEF DInv, Tidy, Serving, Channel, Server, Clients
<1>2. k[1] = c
  BY <1>1, SocketKeys DEF Sockets
<1>3. k = cl[d].control \/ k = cl[d].hanging => k[1] = d
  BY <1>1, SocketKeys DEF Sockets
<1> QED
  BY <1>2, <1>3

(* Two clients ask about different members. *)
LEMMA AskedByOne ==
  ASSUME DInv, NEW c \in Client, NEW d \in Client, d # c, cl[d].state = "CONNECTED",
         NEW l, l.req.peer_id = cl[c].my_id
  PROVE  ~Asks(l, cl[d].my_id)
<1>1. cl[d].my_id # -1
  BY DEF DInv, Users, Local
<1>2. cl[d].my_id # cl[c].my_id
  BY <1>1 DEF DInv, Users
<1> QED
  BY <1>2 DEF Asks

LEMMA OwnId ==
  ASSUME DInv, NEW c \in Client
  PROVE  cl[c].my_id <= s_member_id /\ NotPending(conn, cl[c].my_id)
<1>1. s_member_id \in Nat
  BY DEF DInv, Tidy, Serving, IsServer, Server
<1>2. cl[c].my_id = -1 \/ cl[c].my_id \in 1..s_member_id
  BY DEF DInv, Users, Local
<1>3. NotPending(conn, cl[c].my_id)
  BY DEF DInv, Users, Unique, NotPending
<1> QED
  BY <1>1, <1>2, <1>3

LEMMA SynIsSilent ==
  ASSUME DInv, NEW k \in DOMAIN conn, conn[k].end = "syn"
  PROVE  conn[k].resp = <<>> /\ Net(conn) /\ Clients
BY DEF DInv, Tidy, Serving, Channel, Server, Links, LinkIsTidy

LEMMA OnConnectKeeps ==
  ASSUME DInv, NEW c \in Client, OnConnect(c), UNCHANGED serverVars
  PROVE  DInv'
<1>1. PICK x : /\ x = cl[c] /\ IsClientRecord(x, c) /\ Sockets(x, c, conn)
               /\ Local(x, conn, listening, s_member_id)
  BY DEF DInv, Clients, Users
<1>2. PICK k \in DOMAIN conn : k = x.control /\ conn[k].end = "syn"
  BY <1>1 DEF OnConnect, Connecting, IsOpen
<1>3. listening /\ listening' = listening
  BY DEF OnConnect
<1>4. conn[k].resp = <<>> /\ Net(conn) /\ Clients
  BY <1>2, SynIsSilent
<1>5. Moves(c) /\ Arrives
  BY <1>4, OnConnectFacts
<1>6. PICK b : b = Sent(conn, k, x.onconnect, x.my_id, x.to, x.text)
  OBVIOUS
<1>7. Posted(conn, b, k) /\ b[k].req.path = x.onconnect /\ b[k].req.peer_id = x.my_id
  BY <1>2, <1>4, <1>6, SentPosts
<1>8. PICK v : v = -1
  OBVIOUS
<1>9. PICK y : y = [x EXCEPT !.onconnect = "", !.to = v, !.text = ""]
  OBVIOUS
<1>10. Alike(x, y) /\ y.control = x.control /\ y.hanging = x.hanging
  BY <1>1, <1>9 DEF IsClientRecord, Alike
<1>11. conn' = b /\ cl' = [cl EXCEPT ![c] = y]
  <2>1. Become(c, [net |-> b, c |-> y])
    BY <1>1, <1>2, <1>6, <1>8, <1>9 DEF OnConnect
  <2> QED
    BY <2>1 DEF Become
<1>12. cl'[c] = y /\ \A d \in Client : d # c => cl'[d] = cl[d]
  BY <1>4, <1>11 DEF Clients
<1>13. Sends(x, y, b, k)
  <2>1. Task(x, conn) = x.onconnect /\ Task(y, b) = x.onconnect
    BY <1>2, <1>7, <1>10 DEF Task, Posted
  <2>2. Wired(x, conn, listening)
    BY <1>1 DEF Local
  <2>3. Wired(y, b, listening)
    BY <1>2, <1>3, <1>10, <2>1, <2>2 DEF Wired, Alike
  <2>4. /\ y.hanging \in DOMAIN b <=> x.hanging \in DOMAIN conn
        /\ y.control \in DOMAIN b /\ x.control \in DOMAIN conn
    BY <1>2, <1>7, <1>10 DEF Posted
  <2>5. Local(y, b, listening, s_member_id)
    <3>1. ~Unused(x, conn, listening)
      BY <1>2, <1>3 DEF Unused
    <3> QED
      BY <1>1, <1>10, <2>3, <2>4, <3>1 DEF Local, Alike
  <2>6. k # x.hanging
    BY <1>1, <1>2, <1>4, NoKey DEF Sockets, Net
  <2>7. x.state = "CONNECTED" => ~Asks(b[k], x.my_id)
    BY <1>2, <1>7, <2>1, <2>2 DEF Wired, Asks
  <2> QED
    BY <1>10, <2>5, <2>6, <2>7 DEF Sends, Polite
<1>14. ASSUME NEW d \in Client PROVE Sends(cl[d], cl'[d], conn', k)
  <2>1. CASE d = c
    BY <1>1, <1>11, <1>12, <1>13, <2>1
  <2>2. CASE d # c
    <3>1. k # cl[d].control /\ k # cl[d].hanging
      BY <1>1, <1>2, <2>2, NotShared
    <3>2. cl[d].state = "CONNECTED" => ~Asks(b[k], cl[d].my_id)
      BY <1>1, <1>7, <2>2, AskedByOne
    <3>3. Sends(cl[d], cl[d], b, k)
      BY <1>7, <3>1, <3>2, SendsNot
    <3> QED
      BY <1>11, <1>12, <2>2, <3>3
  <2> QED
    BY <2>1, <2>2
<1>15. x.my_id <= s_member_id /\ NotPending(conn, x.my_id)
  BY <1>1, OwnId
<1> QED
  BY <1>3, <1>5, <1>7, <1>11, <1>14, <1>15, PostStep DEF Moves

LEMMA OnHangingGetConnectKeeps ==
  ASSUME DInv, NEW c \in Client, OnHangingGetConnect(c), UNCHANGED serverVars
  PROVE  DInv'
<1>1. PICK x : /\ x = cl[c] /\ Sockets(x, c, conn)
               /\ Local(x, conn, listening, s_member_id)
  BY DEF DInv, Clients, Users
<1>2. PICK k \in DOMAIN conn : k = x.hanging /\ conn[k].end = "syn"
  BY <1>1 DEF OnHangingGetConnect, Connecting, IsOpen
<1>3. listening' = listening /\ cl' = cl
  BY DEF OnHangingGetConnect
<1>4. conn[k].resp = <<>> /\ Net(conn) /\ Clients
  BY <1>2, SynIsSilent
<1>5. Moves(c) /\ Arrives
  BY <1>4, OnHangingGetConnectFacts
<1>6. PICK v : v = -1
  OBVIOUS
<1>7. PICK b : b = Sent(conn, k, "/wait", x.my_id, v, "")
  OBVIOUS
<1>8. Posted(conn, b, k) /\ b[k].req.path = "/wait" /\ b[k].req.peer_id = x.my_id
  <2>1. PICK path : path = "/wait"
    OBVIOUS
  <2>2. PICK text : text = ""
    OBVIOUS
  <2>3. PICK id : id = x.my_id
    OBVIOUS
  <2>4. b = Sent(conn, k, path, id, v, text)
    BY <1>7, <2>1, <2>2, <2>3
  <2>5. Posted(conn, b, k) /\ b[k].req.path = path /\ b[k].req.peer_id = id
    BY ONLY <1>2, <1>4, <2>4, SentPosts
  <2> QED
    BY <2>1, <2>3, <2>5
<1>9. conn' = b
  BY <1>1, <1>2, <1>6, <1>7 DEF OnHangingGetConnect
<1>10. Sends(x, x, b, k)
  <2>1. k # x.control
    BY <1>1, <1>2, <1>4, NoKey DEF Sockets, Net
  <2>2. KeepsTask(x, conn, x, b)
    BY <1>8, <2>1 DEF KeepsTask, Seen, Posted
  <2>3. /\ x.hanging \in DOMAIN b <=> x.hanging \in DOMAIN conn
        /\ x.got \in Seq(Answer)
        /\ x.retry > 0 => ~listening
    BY <1>1, <1>2, <1>8 DEF Posted, Local
  <2>4. Local(x, b, listening, s_member_id)
    BY <1>1, <2>2, <2>3, LocalAlike
  <2>5. Polite(b, k, x.my_id, x.hanging)
    BY <1>2, <1>8 DEF Polite
  <2> QED
    BY <2>4, <2>5 DEF Sends, Alike
<1>11. ASSUME NEW d \in Client PROVE Sends(cl[d], cl'[d], conn', k)
  <2>1. CASE d = c
    BY <1>1, <1>3, <1>9, <1>10, <2>1
  <2>2. CASE d # c
    <3>1. k # cl[d].control /\ k # cl[d].hanging
      BY <1>1, <1>2, <2>2, NotShared
    <3>2. cl[d].state = "CONNECTED" => ~Asks(b[k], cl[d].my_id)
      BY <1>1, <1>8, <2>2, AskedByOne
    <3>3. Sends(cl[d], cl[d], b, k)
      BY <1>8, <3>1, <3>2, SendsNot
    <3> QED
      BY <1>3, <1>9, <3>3
  <2> QED
    BY <2>1, <2>2
<1>12. x.my_id <= s_member_id /\ NotPending(conn, x.my_id)
  BY <1>1, OwnId
<1> QED
  BY <1>3, <1>5, <1>8, <1>9, <1>11, <1>12, PostStep DEF Moves

LEMMA BrowseKeeps ==
  ASSUME DInv, Browse, UNCHANGED serverVars
  PROVE  DInv'
<1>1. PICK path \in {"/", "/quit"} :
        LET k == Fresh(conn, "browser")
        IN  conn' = Hang(Sent(Dial(conn, k), k, path, -1, -1, ""), {k})
  BY DEF Browse
<1>2. Net(conn) /\ Clients
  BY DEF DInv, Tidy, Serving, Channel, Server
<1>3. /\ Clients' /\ Net(conn') /\ ClientNet(conn, conn', "browser") /\ Arrives
      /\ cl' = cl /\ listening' = listening
  BY <1>2, BrowseFacts DEF Browse
<1>4. PICK k : k = Fresh(conn, "browser")
  OBVIOUS
<1>5. k \in Key /\ k \notin DOMAIN conn
  BY <1>2, <1>4, FreshFacts DEF Owner
<1>6. PICK a : a = Dial(conn, k)
  OBVIOUS
<1>7. Net(a) /\ Opened(conn, a, k)
  <2>1. Opened(conn, a, k)
    BY <1>5, <1>6, DialQuiet
  <2>2. Net(a) /\ ClientNet(conn, a, "browser")
    BY <1>2, <1>5, <1>6, DialFacts
  <2> QED
    BY <2>1, <2>2
<1>8. PICK v \in Int : v = -1
  OBVIOUS
<1>9. PICK text \in Text : text = ""
  BY DEF Text
<1>10. PICK b : b = Sent(a, k, path, v, v, text)
  OBVIOUS
<1>11. Posted(a, b, k) /\ b[k].req.path = path /\ b[k].req.peer_id = v
  BY <1>7, <1>10, SentPosts DEF Opened, Calm
<1>12. Net(b)
  <2>1. path \in Path /\ k \in DOMAIN a /\ a[k].end = "syn"
    BY <1>7 DEF Path, Opened, Calm
  <2> QED
    BY <1>7, <1>10, <2>1, SentFacts
<1>13. conn' = Hang(b, {k})
  BY <1>1, <1>4, <1>6, <1>8, <1>9, <1>10
<1>14. Posted(conn, conn', k) /\ conn'[k].req = b[k].req
  <2>1. PICK ks : ks = {k}
    OBVIOUS
  <2>2. PICK d : d = Hang(b, ks)
    OBVIOUS
  <2>3. \A j \in ks \cap DOMAIN b : j[1] = k[1]
    BY <2>1
  <2>4. PICK o : o = k[1]
    OBVIOUS
  <2>5. \A j \in ks \cap DOMAIN b : j[1] = o
    BY <2>3, <2>4
  <2>6. Quiet(b, d, o) /\ \A j : j \notin ks => Same(b, d, j)
    BY <1>12, <2>2, <2>5, HangQuiet
  <2>7. k \in DOMAIN b /\ b[k].end = "backlog" /\ k \in DOMAIN d
    BY <1>11, <2>1, <2>2 DEF Posted, Hang
  <2>8. d[k].end = "backlog" /\ d[k].left = b[k].left /\ d[k].req = b[k].req
        /\ d[k].resp = <<>>
    <3>1. Calm(d[k]) \/ Fell(b[k], d[k])
      BY <2>6, <2>7 DEF Quiet
    <3>2. d[k].end = "backlog"
      <4>1. ClientNet(b, d, o)
        BY <1>12, <2>2, <2>5, HangFacts
      <4> QED
        BY <2>7, <4>1 DEF ClientNet
    <3>3. Fell(b[k], d[k])
      BY <3>1, <3>2 DEF Calm
    <3> QED
      BY <1>11, <3>2, <3>3 DEF Fell, Posted
  <2>9. /\ DOMAIN b = DOMAIN conn \cup {k} /\ DOMAIN d = DOMAIN b
        /\ \A j \in DOMAIN conn : j # k => d[j] = conn[j]
    <3>1. DOMAIN a = DOMAIN conn \cup {k} /\ \A j \in DOMAIN conn : a[j] = conn[j]
      BY <1>5, <1>7 DEF Opened, Same
    <3>2. DOMAIN b = DOMAIN a /\ \A j \in DOMAIN a : j # k => b[j] = a[j]
      BY <1>11, <3>1 DEF Posted
    <3>3. DOMAIN d = DOMAIN b /\ \A j \in DOMAIN b : j # k => d[j] = b[j]
      BY <2>1, <2>6, <2>7 DEF Same
    <3> QED
      BY <3>1, <3>2, <3>3
  <2>10. Posted(conn, d, k)
    <3>1. b[k].left \in 1..2 /\ (b[k].req.path = "/wait" => b[k].left = 1)
      BY <1>11 DEF Posted
    <3> QED
      BY <1>5, <2>8, <2>9, <3>1 DEF Posted
  <2> QED
    BY <1>13, <2>1, <2>2, <2>8, <2>10
<1>15. ASSUME NEW d \in Client PROVE Sends(cl[d], cl'[d], conn', k)
  <2>1. k # cl[d].control /\ k # cl[d].hanging
    BY <1>2, <1>5, NoKey DEF Clients, Sockets, Socket
  <2>2. ~Asks(conn'[k], cl[d].my_id)
    BY <1>11, <1>14 DEF Asks
  <2>3. Sends(cl[d], cl[d], conn', k)
    BY <1>14, <2>1, <2>2, SendsNot
  <2> QED
    BY <1>3, <2>3
<1>16. conn'[k].req.peer_id <= s_member_id /\ NotPending(conn, conn'[k].req.peer_id)
  <2>1. PICK n \in Nat : n = s_member_id
    BY DEF DInv, Tidy, Serving, IsServer, Server
  <2>2. conn'[k].req.peer_id = v /\ v <= n /\ v \notin 1..n
    BY <1>8, <1>11, <1>14
  <2>3. \A j \in DOMAIN conn : Pending(conn, j) => conn[j].resp[1].pragma \in 1..n
    BY <2>1 DEF DInv, Tidy, Welcomes, Welcome, Server
  <2> QED
    BY <2>1, <2>2, <2>3 DEF NotPending
<1> QED
  BY <1>3, <1>14, <1>15, <1>16, PostStep

-----------------------------------------------------------------------------
(* The invariant of the streams is inductive *)

LEMMA InitDInv == Init => DInv
<1> SUFFICES ASSUME Init PROVE DInv
  OBVIOUS
<1>1. Serving(Server) /\ Clients
  BY InitIInv DEF IInv
<1>2. PICK s : s = Server
  OBVIOUS
<1>3. /\ s.conn = conn /\ s.members = <<>> /\ s.id = s_member_id
      /\ s_member_id = 0 /\ members = <<>>
  BY <1>2 DEF Server, Init, ServerInit
<1>4. DOMAIN conn = {}
  BY DEF Init, NetInit
<1>5. Links(conn, s.id) /\ Complete(conn, Range(s.sockets)) /\ Welcomes(s, s.id)
  BY <1>3, <1>4 DEF Links, Complete, Welcomes
<1>6. Idle(s.members, conn)
  BY <1>3 DEF Idle
<1>7. Tidy(s)
  BY <1>1, <1>2, <1>3, <1>5, <1>6 DEF Tidy
<1>8. ASSUME NEW c \in Client
      PROVE  /\ Local(cl[c], conn, listening, s_member_id) /\ Unique(cl[c], conn)
             /\ cl[c].my_id = -1 /\ cl[c].state = "NOT_CONNECTED"
  <2>1. PICK x : x = cl[c]
    OBVIOUS
  <2>2. /\ x.state = "NOT_CONNECTED" /\ x.my_id = -1 /\ x.retry = 0 /\ x.got = <<>>
        /\ ~x.resolving
    BY <2>1 DEF Init, ClientInit, Start
  <2>3. x.got \in Seq(Answer)
    BY <2>2, EmptySeq
  <2>4. Wired(x, conn, listening)
    BY <1>4 DEF Wired
  <2>5. Local(x, conn, listening, s_member_id)
    BY <1>4, <2>2, <2>3, <2>4 DEF Local, Unused
  <2> QED
    BY <1>4, <2>1, <2>2, <2>5 DEF Unique
<1>9. Users
  BY <1>8 DEF Users, Signed
<1> QED
  BY <1>1, <1>2, <1>7, <1>9 DEF DInv

LEMMA NextDInv == DInv /\ [Next]_vars => DInv'
<1> SUFFICES ASSUME DInv, [Next]_vars PROVE DInv'
  OBVIOUS
<1>1. Tidy(Server) /\ Clients /\ Users /\ Serving(Server)
  BY DEF DInv, Tidy
<1>2. ASSUME Pass \/ Tick \/ AcceptFails \/ SelectFails, UNCHANGED cl PROVE DInv'
  <2>1. /\ Tidy(Server)' /\ Step(Server, Server')
        /\ listening' => listening
        /\ ServerNet(conn, conn')
    BY <1>1, <1>2, PassTidy, TickTidy, FailureTidy, PassFacts, TickFacts, FailureFacts
  <2>2. Clients'
    BY <1>1, <1>2, <2>1, ClientsStay
  <2>3. Users'
    BY <1>1, <1>2, <2>1, ServerStepUsers
  <2> QED
    BY <2>1, <2>2, <2>3 DEF DInv
<1>3. ASSUME NEW c \in Client, User(c) \/ Thread(c), UNCHANGED serverVars
      PROVE  DInv'
  <2>1. CASE Login(c) \/ OnResolveResult(c)
    BY <1>3, <2>1, LoginKeeps
  <2>2. CASE SendMessage(c) \/ HangUp(c)
    BY <1>3, <2>2, SendKeeps
  <2>3. CASE LogOut(c) \/ Crash(c)
    BY <1>3, <2>3, LogOutKeeps
  <2>4. CASE OnConnect(c)
    BY <1>3, <2>4, OnConnectKeeps
  <2>5. CASE OnHangingGetConnect(c)
    BY <1>3, <2>5, OnHangingGetConnectKeeps
  <2>6. CASE OnRefused(c)
    BY <1>3, <2>6, OnRefusedKeeps
  <2>7. CASE OnClose(c)
    BY <1>3, <2>7, OnCloseKeeps
  <2>8. CASE Retry(c)
    BY <1>3, <2>8, RetryKeeps
  <2>9. CASE OnRead(c)
    BY <1>3, <2>9, OnReadKeeps
  <2>10. CASE OnHangingGetRead(c)
    BY <1>3, <2>10, OnHangingGetReadKeeps
  <2> QED
    BY <1>3, <2>1, <2>2, <2>3, <2>4, <2>5, <2>6, <2>7, <2>8, <2>9, <2>10
    DEF User, Thread
<1>4. CASE Browse /\ UNCHANGED serverVars
  BY <1>4, BrowseKeeps
<1>5. CASE UNCHANGED vars
  <2>1. UNCHANGED <<conn, backlog, listening, members, s_member_id, sockets, quit, cl>>
    BY <1>5 DEF vars, serverVars, clientVars
  <2>2. Server' = Server
    BY <2>1 DEF Server
  <2>3. Tidy(Server)' /\ Clients'
    BY <1>1, <2>1, <2>2 DEF Clients
  <2>4. Users'
    BY <1>1, <2>1, <2>2 DEF Users, Signed
  <2> QED
    BY <2>3, <2>4 DEF DInv
<1> QED
  BY <1>2, <1>3, <1>4, <1>5 DEF Next, clientVars

LEMMA SpecDInv == Spec => []DInv
BY InitDInv, NextDInv, PTL DEF Spec

(* The member of a connected client, as the invariant has it. *)
LEMMA MineFacts ==
  ASSUME DInv, NEW c \in Client, Signed(c), NEW m \in Mine(c)
  PROVE  LET x == cl[c]
         IN  /\ m.id = x.my_id
             /\ Follows(m, conn, x.hanging, x.got, x.peers, IdsOf(members) \ {m.id})
             /\ m.queue \in Seq(Answer) /\ x.got \in Seq(Answer)
             /\ InFlight(c) = Stream(conn, x.hanging) /\ InFlight(c) \in Seq(Answer)
<1>1. members \in Seq(Peer) /\ Net(conn)
  BY DEF DInv, Tidy, Serving, Channel, Server
<1>2. PICK x : x = cl[c] /\ Local(x, conn, listening, s_member_id) /\ x.state = "CONNECTED"
  BY DEF DInv, Users, Signed
<1>3. m \in Member /\ m.id = x.my_id
  BY <1>2 DEF Mine
<1>4. PICK i \in 1..Len(members) : members[i] = m
  BY <1>1, <1>3, MembersFacts DEF Member, Range
<1>5. Tracked(members, conn, x.my_id, x.hanging, x.got, x.peers, IdsOf(members) \ {x.my_id},
              NoSocket)
  BY <1>2 DEF DInv, Users, Signed, Tracks, Server
<1>6. Follows(m, conn, x.hanging, x.got, x.peers, IdsOf(members) \ {m.id})
  BY <1>3, <1>4, <1>5 DEF Tracked
<1>7. m.queue \in Seq(Answer)
  BY <1>1, <1>4, MembersFacts, PeerFields
<1>8. x.hanging \in DOMAIN conn /\ x.got \in Seq(Answer)
  BY <1>2 DEF Local
<1>9. InFlight(c) = conn[x.hanging].resp /\ Stream(conn, x.hanging) = conn[x.hanging].resp
  BY <1>2, <1>8 DEF InFlight, IsOpen, Stream
<1>10. conn[x.hanging].resp \in Seq(Answer)
  BY <1>1, <1>8 DEF Net, IsLink
<1> QED
  BY <1>2, <1>3, <1>6, <1>7, <1>8, <1>9, <1>10

(* Every response that ChannelMember::QueueResponse is given for a member, *)
(* a message or a notification, reaches the client exactly once and in the *)
(* order it was given, whichever hanging gets of the client come, are      *)
(* answered, closed and connected again meanwhile: read, on the wire and   *)
(* still in queue_ together are all there ever was.                        *)
THEOREM ResponsesAreDeliveredInOrder == Spec => []DeliveredInOrder
<1>1. ASSUME DInv PROVE DeliveredInOrder
  <2>1. ASSUME NEW c \in Client, Signed(c), NEW m \in Mine(c)
        PROVE  m.log = cl[c].got \o InFlight(c) \o m.queue
    <3>1. PICK g \in Seq(Answer) : g = cl[c].got
      BY <1>1, <2>1, MineFacts
    <3>2. PICK s \in Seq(Answer) : s = InFlight(c)
      BY <1>1, <2>1, MineFacts
    <3>3. PICK q \in Seq(Answer) : q = m.queue
      BY <1>1, <2>1, MineFacts
    <3>4. m.log = g \o (s \o q)
      BY <1>1, <2>1, <3>1, <3>2, <3>3, MineFacts DEF Follows, Coming
    <3>5. (g \o s) \o q = g \o (s \o q)
      BY ResponsesAssociate, Zenon
    <3> QED
      BY <3>1, <3>2, <3>3, <3>4, <3>5
  <2> QED
    BY <2>1 DEF DeliveredInOrder
<1> QED
  BY <1>1, SpecDInv, PTL

(* The peers a client lists and the notifications under way to it always   *)
(* make the members of the channel: AddMember, OnClosing, CheckForTimeout  *)
(* and the broadcasts for the members they lose tell everybody, nothing    *)
(* falls between BuildResponseForNewMember and the first hanging get of    *)
(* the new member, and no notification is applied twice or out of order.   *)
THEOREM RosterIsTheChannel == Spec => []RosterIsMembers
<1>1. ASSUME DInv PROVE RosterIsMembers
  <2>1. {x.id : x \in Member} = IdsOf(members)
    <3>1. members \in Seq(Peer)
      BY <1>1 DEF DInv, Tidy, Serving, Channel, Server
    <3>2. Member = {members[i] : i \in 1..Len(members)}
      BY <3>1, MembersFacts DEF Member, Range
    <3> QED
      BY <3>2 DEF IdsOf
  <2>2. ASSUME NEW c \in Client, Signed(c), NEW m \in Mine(c)
        PROVE  Applied(cl[c].peers, InFlight(c) \o m.queue, m.id) = IdsOf(members) \ {m.id}
    BY <1>1, <2>2, MineFacts DEF Follows, Coming
  <2> QED
    BY <2>1, <2>2 DEF RosterIsMembers
<1> QED
  BY <1>1, SpecDInv, PTL

(* A connected client never loses its wake-up: it has a hanging get, and   *)
(* once the server has read that one and sent nothing, SetWaitingSocket    *)
(* has made it the socket that the next response goes to, although sockets *)
(* with the same number were waited on and closed before.                  *)
THEOREM HangingGetIsNeverLost == Spec => []HangingGetIsKept
<1>1. ASSUME DInv PROVE HangingGetIsKept
  <2>1. ASSUME NEW c \in Client, Signed(c)
        PROVE  LET k == cl[c].hanging
               IN  /\ k \in DOMAIN conn
                   /\ conn[k].end = "accepted" /\ conn[k].left = 0 /\ conn[k].resp = <<>>
                        => \E m \in Mine(c) : m.waiting = k
    <3>1. PICK x : x = cl[c] /\ Local(x, conn, listening, s_member_id) /\ x.state = "CONNECTED"
      BY <1>1, <2>1 DEF DInv, Users, Signed
    <3>2. PICK k : k = x.hanging /\ k \in DOMAIN conn
      BY <3>1 DEF Local
    <3>3. k # NoSocket /\ members \in Seq(Peer)
      BY <1>1, <3>2, NoKey DEF DInv, Tidy, Serving, Channel, Server, Net
    <3>4. Hangs(members, conn, x.my_id, k, NoSocket)
      BY <1>1, <2>1, <3>1, <3>2 DEF DInv, Users, Tracks, Tracked, Server
    <3>5. ASSUME conn[k].end = "accepted", conn[k].left = 0, conn[k].resp = <<>>
          PROVE  \E m \in Mine(c) : m.waiting = k
      <4>1. PICK i \in 1..Len(members) : members[i].id = x.my_id /\ members[i].waiting = k
        BY <3>2, <3>3, <3>4, <3>5 DEF Hangs
      <4>2. members[i] \in Member
        BY <3>3, <4>1, MembersFacts DEF Member, Range
      <4> QED
        BY <3>1, <4>1, <4>2 DEF Mine
    <3> QED
      BY <3>1, <3>2, <3>5
  <2> QED
    BY <2>1 DEF HangingGetIsKept, IsOpen
<1> QED
  BY <1>1, SpecDInv, PTL
=============================================================================

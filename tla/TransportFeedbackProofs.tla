----------------------- MODULE TransportFeedbackProofs ----------------------
(***************************************************************************)
(* Proofs about TransportFeedback for every span of the sequence numbers,  *)
(* every capacity of the chunks and of the map, and any number of packets. *)
(***************************************************************************)
EXTENDS TransportFeedback, SequenceTheorems, FiniteSetTheorems, TLAPS

-----------------------------------------------------------------------------
(* Induction.  The loops of the code are functions over an interval 0..N   *)
(* that are defined from the value before; a set of numbers takes the      *)
(* place of the induction hypothesis.                                      *)

LEMMA Least ==
  ASSUME NEW T \in SUBSET Nat, T # {}
  PROVE  \E n \in T : \A m \in T : n <= m
<1> DEFINE R == {ss \in Nat \X Nat : ss[1] < ss[2]}
<1>1. IsWellFoundedOn(R, Nat)
  BY NatLessThanWellFounded, Zenon DEF OpToRel
<1>2. \A x, y \in Nat : y < x => <<y, x>> \in R
  OBVIOUS
<1> HIDE DEF R
<1>3. PICK x \in T : \A y \in T : <<y, x>> \notin R
  BY <1>1, WFMin
<1>4. \A y \in T : ~(y < x)
  BY <1>2, <1>3
<1> QED
  BY <1>4

LEMMA IntervalInduction ==
  ASSUME NEW N \in Nat, NEW S, 0 \in S, \A n \in 1..N : n - 1 \in S => n \in S
  PROVE  \A n \in 0..N : n \in S
<1> DEFINE T == 0..N \ S
<1>1. SUFFICES ASSUME T # {} PROVE FALSE
  OBVIOUS
<1>2. PICK n \in T : \A m \in T : n <= m
  <2>1. T \in SUBSET Nat
    OBVIOUS
  <2> HIDE DEF T
  <2> QED
    BY <1>1, <2>1, Least
<1>3. n \in 1..N /\ n - 1 \in 0..N /\ n - 1 \notin T
  BY <1>2
<1> QED
  BY <1>2, <1>3

-----------------------------------------------------------------------------
(* The map of arrival times *)

Map == [seen : BOOLEAN, begin : Int, times : Seq(Nat)]
Pkt == [seq : Int, time : Nat]

LEMMA PacketSeq ==
  ASSUME NEW v \in Seq(Pkt)
  PROVE  /\ Len(v) \in Nat
         /\ \A i \in 1..Len(v) : v[i] \in Pkt /\ v[i].seq \in Int /\ v[i].time \in Nat
<1>1. Len(v) \in Nat /\ \A i \in 1..Len(v) : v[i] \in Pkt
  BY ElementOfSeq, LenProperties
<1> QED
  BY <1>1 DEF Pkt

(* One turn of the loop of MaybeBuildFeedbackPacket, for the packet s. *)
Take(m, s, v) ==
  IF At(m, s) = 0 THEN v ELSE Append(v, [seq |-> s, time |-> At(m, s)])

IsGot(m, start, count, got) ==
  got = [n \in 0..count |->
           IF n = 0 THEN <<>>
           ELSE IF At(m, start + n - 1) = 0 THEN got[n - 1]
           ELSE Append(got[n - 1], [seq |-> start + n - 1, time |-> At(m, start + n - 1)])]

Got(m, start, count) == CHOOSE got : IsGot(m, start, count, got)

LEMMA GotDef ==
  ASSUME NEW m, NEW start, NEW count \in Nat
  PROVE  IsGot(m, start, count, Got(m, start, count))
<1> DEFINE E(g, k) == g = [n \in 0..k |-> IF n = 0 THEN <<>>
                                         ELSE Take(m, start + n - 1, g[n - 1])]
           S == {k \in 0..count : \E g : E(g, k)}
<1>1. 0 \in S
  <2>1. E([n \in 0..0 |-> <<>>], 0)
    OBVIOUS
  <2> HIDE DEF E
  <2> QED
    BY <2>1
<1>2. ASSUME NEW k \in 1..count, k - 1 \in S PROVE k \in S
  <2>1. PICK g : E(g, k - 1)
    BY <1>2
  <2> DEFINE h == [n \in 0..k |-> IF n = k THEN Take(m, start + k - 1, g[k - 1])
                                  ELSE g[n]]
  <2>2. E(h, k)
    BY <2>1
  <2> HIDE DEF E, h
  <2> QED
    BY <2>2
<1>3. \E g : E(g, count)
  <2> HIDE DEF S
  <2>1. count \in S
    BY <1>1, <1>2, IntervalInduction
  <2> QED
    BY <2>1 DEF S
<1>4. PICK g : IsGot(m, start, count, g)
  BY <1>3 DEF Take, IsGot
<1> QED
  BY <1>4 DEF Got

LEMMA GotTurns ==
  ASSUME NEW m, NEW start, NEW count \in Nat
  PROVE  /\ Got(m, start, count)[0] = <<>>
         /\ \A n \in 1..count :
              Got(m, start, count)[n] = Take(m, start + n - 1, Got(m, start, count)[n - 1])
<1>1. PICK g : g = Got(m, start, count)
  OBVIOUS
<1>2. IsGot(m, start, count, g)
  BY <1>1, GotDef
<1>3. g = [n \in 0..count |-> IF n = 0 THEN <<>> ELSE Take(m, start + n - 1, g[n - 1])]
  BY <1>2 DEF IsGot, Take
<1>4. g[0] = <<>> /\ \A n \in 1..count : g[n] = Take(m, start + n - 1, g[n - 1])
  BY <1>3
<1> QED
  BY <1>1, <1>4

LEMMA ReceivedIsGot ==
  ASSUME NEW m, NEW from, NEW to
  PROVE  Received(m, from, to)
           = Got(m, clamp(m, from), clamp(m, to) - clamp(m, from))
                [clamp(m, to) - clamp(m, from)]
  BY DEF Received, Got, IsGot

(* What has been collected after the packets start to start + n - 1. *)
Collected(v, m, start, n) ==
  /\ v \in Seq(Pkt)
  /\ \A i, j \in 1..Len(v) : i < j => v[i].seq < v[j].seq
  /\ \A i \in 1..Len(v) : /\ start <= v[i].seq /\ v[i].seq < start + n
                          /\ At(m, v[i].seq) # 0 /\ v[i].time = At(m, v[i].seq)
  /\ \A s \in start..start + n - 1 : At(m, s) # 0 => \E i \in 1..Len(v) : v[i].seq = s

LEMMA GotCollects ==
  ASSUME NEW m \in Map, NEW start \in Int, NEW count \in Nat,
         m.begin <= start, start + count <= End(m)
  PROVE  Collected(Got(m, start, count)[count], m, start, count)
<1> DEFINE g == Got(m, start, count)
           S == {n \in 0..count : Collected(g[n], m, start, n)}
<1>0. g[0] = <<>> /\ \A n \in 1..count : g[n] = Take(m, start + n - 1, g[n - 1])
  BY GotTurns
<1> HIDE DEF g
<1>1. 0 \in S
  <2>1. g[0] = <<>>
    BY <1>0
  <2>2. Collected(<<>>, m, start, 0)
    BY EmptySeq DEF Collected
  <2> QED
    BY <2>1, <2>2
<1>2. ASSUME NEW n \in 1..count, n - 1 \in S PROVE n \in S
  <2> DEFINE s == start + n - 1
             v == g[n - 1]
             p == [seq |-> s, time |-> At(m, s)]
  <2>1. g[n] = IF At(m, s) = 0 THEN v ELSE Append(v, p)
    BY <1>0 DEF Take
  <2>2. s \in Int /\ At(m, s) \in Nat
    BY DEF Map, At, End
  <2>3. Collected(v, m, start, n - 1)
    BY <1>2
  <2> HIDE DEF v
  <2>4. /\ v \in Seq(Pkt) /\ Len(v) \in Nat
        /\ \A i \in 1..Len(v) : v[i] \in Pkt /\ v[i].seq \in Int
    <3>1. v \in Seq(Pkt)
      BY <2>3 DEF Collected
    <3> QED
      BY <3>1, PacketSeq
  <2>5. start..s = (start..start + (n - 1) - 1) \union {s}
    OBVIOUS
  <2>6. CASE At(m, s) = 0
    <3>1. Collected(v, m, start, n)
      BY <2>2, <2>3, <2>4, <2>5, <2>6 DEF Collected
    <3> QED
      BY <2>1, <2>6, <3>1
  <2>7. CASE At(m, s) # 0
    <3> DEFINE w == Append(v, p)
    <3>1. p \in Pkt /\ p.seq = s /\ p.time = At(m, s)
      BY <2>2 DEF Pkt
    <3> HIDE DEF p
    <3>2. /\ w \in Seq(Pkt) /\ Len(w) = Len(v) + 1 /\ w[Len(v) + 1] = p
          /\ \A i \in 1..Len(v) : w[i] = v[i]
      BY <2>4, <3>1, AppendProperties
    <3> HIDE DEF w
    <3>0. /\ Len(v) + 1 \in 1..Len(w) /\ \A i \in 1..Len(v) : i \in 1..Len(w)
      BY <2>4, <3>2
    <3>3. \A i \in 1..Len(w) : i \in 1..Len(v) \/ i = Len(v) + 1
      BY <2>4, <3>2
    <3>4. \A i \in 1..Len(v) : start <= v[i].seq /\ v[i].seq < s
      BY <2>3 DEF Collected
    <3>5. \A i, j \in 1..Len(w) : i < j => w[i].seq < w[j].seq
      <4> TAKE i, j \in 1..Len(w)
      <4> HAVE i < j
      <4>1. i \in 1..Len(v)
        BY <2>4, <3>2
      <4> QED
        BY <2>3, <3>1, <3>2, <3>3, <3>4, <4>1 DEF Collected
    <3>6. \A i \in 1..Len(w) : /\ start <= w[i].seq /\ w[i].seq < start + n
                               /\ At(m, w[i].seq) # 0 /\ w[i].time = At(m, w[i].seq)
      <4> TAKE i \in 1..Len(w)
      <4>1. CASE i \in 1..Len(v)
        BY <2>3, <2>4, <3>2, <3>4, <4>1 DEF Collected
      <4>2. CASE i = Len(v) + 1
        BY <2>7, <3>1, <3>2, <4>2
      <4> QED
        BY <3>3, <4>1, <4>2
    <3>7. \A t \in start..start + n - 1 :
             At(m, t) # 0 => \E i \in 1..Len(w) : w[i].seq = t
      <4> TAKE t \in start..start + n - 1
      <4> HAVE At(m, t) # 0
      <4>1. CASE t = s
        BY <3>0, <3>1, <3>2, <4>1
      <4>2. CASE t \in start..start + (n - 1) - 1
        <5>1. PICK i \in 1..Len(v) : v[i].seq = t
          BY <2>3, <4>2 DEF Collected
        <5>2. i \in 1..Len(w) /\ w[i] = v[i]
          BY <3>0, <3>2
        <5> QED
          BY <5>1, <5>2
      <4> QED
        BY <2>5, <4>1, <4>2
    <3>8. Collected(w, m, start, n)
      BY <3>2, <3>5, <3>6, <3>7 DEF Collected
    <3>9. g[n] = w
      BY <2>1, <2>7 DEF w
    <3> QED
      BY <3>8, <3>9
  <2> QED
    BY <2>6, <2>7
<1>3. count \in S
  <2> HIDE DEF S
  <2> QED
    BY <1>1, <1>2, IntervalInduction
<1> QED
  BY <1>3 DEF g

(* Received: the packets of the map in the range, each once, in order. *)
LEMMA ReceivedFacts ==
  ASSUME NEW m \in Map, NEW from \in Int, NEW to \in Int, from <= to,
         NEW r, r = Received(m, from, to)
  PROVE  /\ r \in Seq(Pkt)
         /\ \A i, j \in 1..Len(r) : i < j => r[i].seq < r[j].seq
         /\ \A i \in 1..Len(r) : /\ from <= r[i].seq /\ r[i].seq < to
                                 /\ has_received(m, r[i].seq)
         /\ \A s \in Int : from <= s /\ s < to /\ has_received(m, s)
               => \E i \in 1..Len(r) : r[i].seq = s
<1> DEFINE start == clamp(m, from)
           count == clamp(m, to) - start
<1>1. m.begin \in Int /\ Len(m.times) \in Nat /\ End(m) \in Int
  BY DEF Map, End
<1>2. /\ start \in Int /\ count \in Nat /\ m.begin <= start /\ start + count <= End(m)
      /\ start + count = clamp(m, to)
  BY <1>1, SMTT(30) DEF clamp, End
<1>3. \A s \in Int : from <= s /\ s < to /\ m.begin <= s /\ s < End(m)
                       <=> start <= s /\ s < start + count
  <2> TAKE s \in Int
  <2> HIDE DEF count
  <2> QED
    BY <1>1, <1>2 DEF clamp
<1> HIDE DEF start, count
<1>4. Collected(r, m, start, count)
  BY <1>2, GotCollects, ReceivedIsGot DEF start, count
<1>5. r \in Seq(Pkt) /\ \A i \in 1..Len(r) : r[i].seq \in Int
  <2>1. r \in Seq(Pkt)
    BY <1>4 DEF Collected
  <2> QED
    BY <2>1, PacketSeq
<1>6. \A i \in 1..Len(r) : from <= r[i].seq /\ r[i].seq < to /\ has_received(m, r[i].seq)
  <2> TAKE i \in 1..Len(r)
  <2>1. /\ start <= r[i].seq /\ r[i].seq < start + count /\ At(m, r[i].seq) # 0
    BY <1>4 DEF Collected
  <2> QED
    BY <1>3, <1>5, <2>1 DEF has_received, Holds
<1>7. \A s \in Int : from <= s /\ s < to /\ has_received(m, s)
         => \E i \in 1..Len(r) : r[i].seq = s
  <2> TAKE s \in Int
  <2> HAVE from <= s /\ s < to /\ has_received(m, s)
  <2>1. s \in start..start + count - 1 /\ At(m, s) # 0
    BY <1>2, <1>3 DEF has_received, Holds
  <2> QED
    BY <1>4, <2>1 DEF Collected
<1> QED
  BY <1>4, <1>5, <1>6, <1>7 DEF Collected

-----------------------------------------------------------------------------
(* The deltas of a message *)

LEMMA Remainder ==
  ASSUME NEW a \in Nat, NEW b \in Nat \ {0}
  PROVE  /\ a % b \in Nat /\ a % b < b /\ a \div b \in Nat
         /\ a = b * (a \div b) + (a % b)
  OBVIOUS

LEMMA Floor ==
  ASSUME NEW a \in Int, NEW b \in Nat \ {0}
  PROVE  /\ a % b \in Nat /\ a % b < b /\ a \div b \in Int
         /\ a = b * (a \div b) + (a % b)
  OBVIOUS

LEMMA FloorIsUnique ==
  ASSUME NEW q \in Int, NEW r \in Nat, NEW b \in Nat \ {0}, r < b
  PROVE  (b * q + r) % b = r
<1> DEFINE a == b * q + r
           p == a \div b
           t == a % b
<1>1. a \in Int
  OBVIOUS
<1>2. p \in Int /\ t \in Nat /\ t < b /\ a = b * p + t
  BY <1>1, Floor
<1> HIDE DEF p, t
<1>3. b * p + t = b * q + r
  BY <1>2
<1>4. p = q
  <2>1. CASE p < q
    <3>1. b * (p + 1) <= b * q
      BY <1>2, <2>1
    <3> QED
      BY <1>2, <1>3, <3>1
  <2>2. CASE q < p
    <3>1. b * (q + 1) <= b * p
      BY <1>2, <2>2
    <3> QED
      BY <1>2, <1>3, <3>1
  <2> QED
    BY <1>2, <2>1, <2>2
<1>5. t = r
  BY <1>2, <1>3, <1>4
<1> QED
  BY <1>5 DEF t

LEMMA WrapPeriodFacts ==
  WrapPeriod \in Nat /\ BaseScale <= WrapPeriod /\ WrapPeriod > 0
<1>1. BaseScale \in Nat /\ TimeWrap \in Nat /\ BaseScale > 0 /\ TimeWrap >= 1
  BY PacketAssumption
<1>2. TimeWrap * BaseScale \in Nat /\ TimeWrap * BaseScale >= BaseScale
  BY <1>1
<1> QED
  BY <1>1, <1>2 DEF WrapPeriod

LEMMA DeltaIsInt ==
  ASSUME NEW time \in Int, NEW last \in Int
  PROVE  Delta(time, last) \in Int
<1> DEFINE a == time - last
<1>1. a \in Int
  OBVIOUS
<1>2. Rem(a, WrapPeriod) \in Int
  BY <1>1, WrapPeriodFacts DEF Rem
<1> QED
  BY <1>2, WrapPeriodFacts DEF Delta

(* The first packet of a message always fits. *)
LEMMA FirstFits ==
  ASSUME NEW time \in Nat
  PROVE  /\ BaseTime(time) * BaseScale \in Int
         /\ Fits(Delta(time, BaseTime(time) * BaseScale))
<1> DEFINE W == WrapPeriod
           q == time \div W
           r == time % W
           k == r \div BaseScale
           e == r % BaseScale
<1>0. BaseScale \in Nat \ {0} /\ MaxDelta \in Nat /\ BaseScale <= MaxDelta + 1
  BY PacketAssumption
<1>1. W \in Nat \ {0} /\ BaseScale <= W
  BY WrapPeriodFacts
<1> HIDE DEF W
<1>2. q \in Nat /\ r \in Nat /\ r < W /\ time = W * q + r
  BY <1>1, Remainder
<1> HIDE DEF q, r
<1>3. k \in Nat /\ e \in Nat /\ e < BaseScale /\ r = BaseScale * k + e
  BY <1>0, <1>2, Remainder
<1>4. BaseTime(time) = k
  BY DEF BaseTime, W, r
<1> HIDE DEF k, e
<1>5. k * BaseScale \in Int /\ k * BaseScale = BaseScale * k
  BY <1>0, <1>3
<1>6. time - k * BaseScale = W * q + e /\ W * q + e >= 0
  BY <1>1, <1>2, <1>3, <1>5
<1>7. (W * q + e) % W = e
  BY <1>0, <1>1, <1>2, <1>3, FloorIsUnique
<1>8. Rem(time - k * BaseScale, W) = e
  BY <1>6, <1>7 DEF Rem
<1>9. Delta(time, k * BaseScale) = IF e > W \div 2 THEN e - W ELSE e
  BY <1>8 DEF Delta, W
<1>10. e > W \div 2 => e - W >= -BaseScale
  BY <1>0, <1>1, <1>3
<1> QED
  BY <1>0, <1>1, <1>3, <1>4, <1>5, <1>9, <1>10 DEF Fits

(* One turn of the loop of AddReceivedPacket, for the nth received packet. *)
AddOne(at, timestamps, p, n) ==
  LET d == IF timestamps THEN Delta(at[n].time, p.last) ELSE 0
  IN  IF p.full \/ ~Fits(d) THEN [p EXCEPT !.full = TRUE]
      ELSE [p EXCEPT !.deltas = Append(@, d), !.last = @ + d]

NoDeltas(at) ==
  [deltas |-> <<>>, last |-> BaseTime(at[1].time) * BaseScale, full |-> FALSE]

IsAdded(at, timestamps, L, add) ==
  add = [n \in 0..L |->
           IF n = 0 THEN [deltas |-> <<>>, last |-> BaseTime(at[1].time) * BaseScale,
                          full |-> FALSE]
           ELSE IF \/ add[n - 1].full
                   \/ ~Fits(IF timestamps THEN Delta(at[n].time, add[n - 1].last) ELSE 0)
                THEN [add[n - 1] EXCEPT !.full = TRUE]
                ELSE [add[n - 1] EXCEPT
                        !.deltas = Append(@, IF timestamps
                                               THEN Delta(at[n].time, add[n - 1].last)
                                               ELSE 0),
                        !.last = @ + (IF timestamps THEN Delta(at[n].time, add[n - 1].last)
                                                    ELSE 0)]]

Added(at, timestamps, L) == CHOOSE add : IsAdded(at, timestamps, L, add)

LEMMA AddedDef ==
  ASSUME NEW at, NEW timestamps, NEW L \in Nat
  PROVE  IsAdded(at, timestamps, L, Added(at, timestamps, L))
<1> DEFINE E(g, k) == g = [n \in 0..k |-> IF n = 0 THEN NoDeltas(at)
                                         ELSE AddOne(at, timestamps, g[n - 1], n)]
           S == {k \in 0..L : \E g : E(g, k)}
<1>1. 0 \in S
  <2>1. E([n \in 0..0 |-> NoDeltas(at)], 0)
    OBVIOUS
  <2> HIDE DEF E
  <2> QED
    BY <2>1
<1>2. ASSUME NEW k \in 1..L, k - 1 \in S PROVE k \in S
  <2>1. PICK g : E(g, k - 1)
    BY <1>2
  <2> DEFINE h == [n \in 0..k |-> IF n = k THEN AddOne(at, timestamps, g[k - 1], k)
                                  ELSE g[n]]
  <2>2. E(h, k)
    BY <2>1
  <2> HIDE DEF E, h
  <2> QED
    BY <2>2
<1>3. \E g : E(g, L)
  <2> HIDE DEF S
  <2>1. L \in S
    BY <1>1, <1>2, IntervalInduction
  <2> QED
    BY <2>1 DEF S
<1>4. PICK g : IsAdded(at, timestamps, L, g)
  BY <1>3 DEF AddOne, NoDeltas, IsAdded
<1> QED
  BY <1>4 DEF Added

LEMMA AddedTurns ==
  ASSUME NEW at, NEW timestamps, NEW L \in Nat
  PROVE  /\ Added(at, timestamps, L)[0] = NoDeltas(at)
         /\ \A n \in 1..L :
              Added(at, timestamps, L)[n]
                = AddOne(at, timestamps, Added(at, timestamps, L)[n - 1], n)
<1>1. PICK g : g = Added(at, timestamps, L)
  OBVIOUS
<1>2. IsAdded(at, timestamps, L, g)
  BY <1>1, AddedDef
<1>3. g = [n \in 0..L |-> IF n = 0 THEN NoDeltas(at)
                               ELSE AddOne(at, timestamps, g[n - 1], n)]
  BY <1>2, ZenonT(60) DEF IsAdded, AddOne, NoDeltas
<1>4. /\ g[0] = NoDeltas(at)
      /\ \A n \in 1..L : g[n] = AddOne(at, timestamps, g[n - 1], n)
  BY <1>3
<1> QED
  BY <1>1, <1>4, SMTT(30)

LEMMA DeltasIsAdded ==
  ASSUME NEW at, NEW timestamps
  PROVE  Deltas(at, timestamps) = Added(at, timestamps, Len(at))[Len(at)].deltas
  BY DEF Deltas, Added, IsAdded

(* What the loop has after n packets. *)
Sums(n) == {p \in [deltas : Seq(Int), last : Int, full : BOOLEAN] :
              /\ Len(p.deltas) <= n
              /\ n = 0 => ~p.full
              /\ n > 0 => Len(p.deltas) >= 1}

LEMMA AddOneSums ==
  ASSUME NEW at, NEW timestamps \in BOOLEAN, NEW n \in Nat \ {0}, at[n] \in Pkt,
         NEW p \in Sums(n - 1),
         n = 1 => p = NoDeltas(at)
  PROVE  AddOne(at, timestamps, p, n) \in Sums(n)
<1> DEFINE d == IF timestamps THEN Delta(at[n].time, p.last) ELSE 0
<1>1. /\ p \in [deltas : Seq(Int), last : Int, full : BOOLEAN]
      /\ p.deltas \in Seq(Int) /\ Len(p.deltas) \in Nat /\ Len(p.deltas) <= n - 1
      /\ p.last \in Int
  BY DEF Sums
<1>2. at[n].time \in Nat
  BY DEF Pkt
<1>3. d \in Int
  <2>1. at[n].time \in Int
    BY <1>2
  <2>2. Delta(at[n].time, p.last) \in Int
    BY <1>1, <2>1, DeltaIsInt
  <2> QED
    BY <2>2
<1>4. n = 1 => ~p.full /\ Fits(d)
  <2>1. SUFFICES ASSUME n = 1 PROVE ~p.full /\ Fits(d)
    OBVIOUS
  <2>2. ~p.full /\ p.last = BaseTime(at[1].time) * BaseScale
    BY <2>1 DEF NoDeltas
  <2>3. Fits(Delta(at[1].time, BaseTime(at[1].time) * BaseScale))
    BY <1>2, <2>1, FirstFits
  <2>4. Fits(0)
    BY PacketAssumption DEF Fits
  <2> QED
    BY <2>1, <2>2, <2>3, <2>4
<1> HIDE DEF d
<1>5. CASE p.full \/ ~Fits(d)
  <2> DEFINE q == [p EXCEPT !.full = TRUE]
  <2>1. AddOne(at, timestamps, p, n) = q
    BY <1>5 DEF AddOne, d
  <2>2. n - 1 > 0
    BY <1>4, <1>5
  <2>3. Len(p.deltas) >= 1
    BY <2>2 DEF Sums
  <2>4. q \in [deltas : Seq(Int), last : Int, full : BOOLEAN] /\ q.deltas = p.deltas
    BY <1>1
  <2> HIDE DEF q
  <2> QED
    BY <1>1, <2>1, <2>3, <2>4 DEF Sums
<1>6. CASE ~(p.full \/ ~Fits(d))
  <2> DEFINE w == Append(p.deltas, d)
             e == p.last + d
             q == [p EXCEPT !.deltas = w, !.last = e]
  <2>1. AddOne(at, timestamps, p, n) = q
    BY <1>6 DEF AddOne, d
  <2>2. w \in Seq(Int) /\ Len(w) = Len(p.deltas) + 1
    BY <1>1, <1>3, AppendProperties
  <2>3. e \in Int
    BY <1>1, <1>3
  <2> HIDE DEF w, e
  <2>4. q \in [deltas : Seq(Int), last : Int, full : BOOLEAN] /\ q.deltas = w
    BY <1>1, <2>2, <2>3
  <2> HIDE DEF q
  <2> QED
    BY <1>1, <2>1, <2>2, <2>4 DEF Sums
<1> QED
  BY <1>5, <1>6

LEMMA DeltasFacts ==
  ASSUME NEW at \in Seq(Pkt), at # <<>>, NEW timestamps \in BOOLEAN
  PROVE  /\ Deltas(at, timestamps) \in Seq(Int)
         /\ Len(Deltas(at, timestamps)) \in 1..Len(at)
<1>0. PICK L \in Nat : L = Len(at)
  BY LenProperties
<1> DEFINE g == Added(at, timestamps, L)
           S == {n \in 0..L : g[n] \in Sums(n)}
<1>1. L > 0 /\ \A n \in 1..L : at[n] \in Pkt
  BY <1>0, ElementOfSeq, EmptySeq
<1>2. Deltas(at, timestamps) = g[L].deltas
  BY <1>0, DeltasIsAdded
<1>3. g[0] = NoDeltas(at) /\ \A n \in 1..L : g[n] = AddOne(at, timestamps, g[n - 1], n)
  BY AddedTurns
<1> HIDE DEF g
<1>4. 0 \in S
  <2>1. at[1].time \in Nat
    BY <1>1 DEF Pkt
  <2>2. BaseTime(at[1].time) * BaseScale \in Int
    BY <2>1, FirstFits
  <2>3. NoDeltas(at) \in Sums(0)
    BY <2>2, EmptySeq DEF NoDeltas, Sums
  <2> QED
    BY <1>1, <1>3, <2>3
<1>5. ASSUME NEW n \in 1..L, n - 1 \in S PROVE n \in S
  <2>1. g[n - 1] \in Sums(n - 1) /\ at[n] \in Pkt /\ n \in Nat \ {0}
    BY <1>1, <1>5
  <2>2. n = 1 => g[n - 1] = NoDeltas(at)
    BY <1>3
  <2>3. g[n] = AddOne(at, timestamps, g[n - 1], n)
    BY <1>3
  <2>4. g[n] \in Sums(n)
    BY <2>1, <2>2, <2>3, AddOneSums
  <2> QED
    BY <1>1, <2>4
<1>6. L \in S
  <2> HIDE DEF S
  <2> QED
    <3>1. \A n \in 1..L : n - 1 \in S => n \in S
      BY <1>5
    <3>2. \A n \in 0..L : n \in S
      BY <1>4, <3>1, IntervalInduction, Zenon
    <3> QED
      BY <3>2
<1>7. g[L] \in Sums(L)
  BY <1>6
<1> QED
  BY <1>0, <1>1, <1>2, <1>7 DEF Sums

-----------------------------------------------------------------------------
(* The messages that the proxy builds *)

Arrived(from, at) ==
  /\ at \in Seq(Pkt) /\ at # <<>>
  /\ \A i, j \in 1..Len(at) : i < j => at[i].seq < at[j].seq
  /\ \A i \in 1..Len(at) : from <= at[i].seq

IsMessage(f) ==
  \E from \in Int, timestamps \in BOOLEAN : \E at :
    Arrived(from, at) /\ f = Message(from, at, timestamps, SeqSpan)

Tells(fs, s) == \E f \in fs : \E i \in DOMAIN f.built : f.built[i].seq = s

(* A message is about a first part of the received packets. *)
LEMMA BuiltFacts ==
  ASSUME NEW from, NEW at \in Seq(Pkt), at # <<>>, NEW timestamps \in BOOLEAN, NEW span,
         NEW f, f = Message(from, at, timestamps, span)
  PROVE  /\ f.deltas = Deltas(at, timestamps)
         /\ f.built \in Seq(Pkt) /\ Len(f.built) = Len(f.deltas)
         /\ Len(f.built) \in 1..Len(at) /\ DOMAIN f.built = 1..Len(f.built)
         /\ \A i \in 1..Len(f.built) : f.built[i] = at[i]
<1> DEFINE n == Len(Deltas(at, timestamps))
<1>1. n \in 1..Len(at) /\ Len(at) \in Nat
  BY DeltasFacts, LenProperties
<1>2. f.deltas = Deltas(at, timestamps)
  BY DEF Message
<1>3. f.built = SubSeq(at, 1, n)
  BY DEF Message
<1> HIDE DEF n
<1>4. /\ f.built \in Seq(Pkt) /\ Len(f.built) = n
      /\ \A i \in 1..n : f.built[i] = at[i]
  BY <1>1, <1>3, SubSeqProperties
<1>5. DOMAIN f.built = 1..Len(f.built)
  BY <1>4, LenProperties
<1> QED
  BY <1>1, <1>2, <1>4, <1>5 DEF n

LEMMA BuildFacts ==
  ASSUME NEW m \in Map, NEW from \in Int, NEW to \in Int, from <= to,
         NEW timestamps \in BOOLEAN,
         NEW b, b = MaybeBuildFeedbackPacket(m, timestamps, from, to)
  PROVE  /\ b.next \in Int /\ from <= b.next
         /\ \A s \in Int : from <= s /\ s < b.next /\ has_received(m, s)
               => Tells(b.messages, s)
         /\ \A f \in b.messages : IsMessage(f)
<1> DEFINE at == Received(m, from, to)
           f == Message(from, at, timestamps, SeqSpan)
<1>1. /\ at \in Seq(Pkt)
      /\ \A i, j \in 1..Len(at) : i < j => at[i].seq < at[j].seq
      /\ \A i \in 1..Len(at) : from <= at[i].seq /\ at[i].seq < to
      /\ \A s \in Int : from <= s /\ s < to /\ has_received(m, s)
            => \E i \in 1..Len(at) : at[i].seq = s
  BY ReceivedFacts
<1>2. b = IF at = <<>> THEN [messages |-> {}, next |-> from]
          ELSE [messages |-> {f}, next |-> f.built[Len(f.built)].seq + 1]
  BY DEF MaybeBuildFeedbackPacket
<1> HIDE DEF at
<1>3. CASE at = <<>>
  BY <1>2, <1>3
<1>4. CASE at # <<>>
  <2>1. /\ Len(f.built) \in 1..Len(at) /\ DOMAIN f.built = 1..Len(f.built)
        /\ \A i \in 1..Len(f.built) : f.built[i] = at[i]
    BY <1>1, <1>4, BuiltFacts
  <2>2. IsMessage(f)
    BY <1>1, <1>4 DEF IsMessage, Arrived
  <2> HIDE DEF f
  <2>3. b.messages = {f} /\ b.next = f.built[Len(f.built)].seq + 1
    BY <1>2, <1>4
  <2> DEFINE n == Len(f.built)
  <2>4. Len(at) \in Nat /\ \A i \in 1..Len(at) : at[i].seq \in Int
    BY <1>1, PacketSeq
  <2>5. n \in 1..Len(at) /\ f.built[n] = at[n] /\ at[n].seq \in Int /\ from <= at[n].seq
    BY <1>1, <2>1, <2>4
  <2> HIDE DEF n
  <2>6. b.next = at[n].seq + 1 /\ b.next <= to
    BY <1>1, <2>3, <2>5 DEF n
  <2>7. ASSUME NEW s \in Int, from <= s, s < b.next, has_received(m, s)
        PROVE  Tells(b.messages, s)
    <3>1. PICK i \in 1..Len(at) : at[i].seq = s
      BY <1>1, <2>5, <2>6, <2>7
    <3>2. ~(n < i)
      BY <1>1, <2>4, <2>5, <2>6, <2>7, <3>1
    <3>3. i \in DOMAIN f.built /\ f.built[i] = at[i]
      BY <2>1, <2>4, <2>5, <3>2 DEF n
    <3> QED
      BY <2>3, <3>1, <3>3 DEF Tells
  <2>8. b.next \in Int /\ from <= b.next
    BY <2>5, <2>6
  <2>9. \A x \in b.messages : IsMessage(x)
    BY <2>2, <2>3
  <2> QED
    BY <2>7, <2>8, <2>9
<1> QED
  BY <1>3, <1>4

(* One turn of the loop of SendPeriodicFeedbacks. *)
SendOne(m, sent) ==
  LET b == MaybeBuildFeedbackPacket(m, TRUE, sent.next, End(m))
  IN  IF sent.next >= End(m) THEN sent
      ELSE [messages |-> sent.messages \cup b.messages, next |-> b.next]

IsSentLoop(m, start, L, loop) ==
  loop = [n \in 0..L |->
            IF n = 0 THEN [messages |-> {}, next |-> start]
            ELSE IF loop[n - 1].next >= End(m) THEN loop[n - 1]
            ELSE [messages |-> loop[n - 1].messages
                    \cup MaybeBuildFeedbackPacket(m, TRUE, loop[n - 1].next, End(m)).messages,
                  next |-> MaybeBuildFeedbackPacket(m, TRUE, loop[n - 1].next, End(m)).next]]

SentLoop(m, start, L) == CHOOSE loop : IsSentLoop(m, start, L, loop)

LEMMA SentLoopDef ==
  ASSUME NEW m, NEW start, NEW L \in Nat
  PROVE  IsSentLoop(m, start, L, SentLoop(m, start, L))
<1> DEFINE first == [messages |-> {}, next |-> start]
           E(g, k) == g = [n \in 0..k |-> IF n = 0 THEN first ELSE SendOne(m, g[n - 1])]
           S == {k \in 0..L : \E g : E(g, k)}
<1>1. 0 \in S
  <2>1. E([n \in 0..0 |-> first], 0)
    OBVIOUS
  <2> HIDE DEF E
  <2> QED
    BY <2>1
<1>2. ASSUME NEW k \in 1..L, k - 1 \in S PROVE k \in S
  <2>1. PICK g : E(g, k - 1)
    BY <1>2
  <2> DEFINE h == [n \in 0..k |-> IF n = k THEN SendOne(m, g[k - 1]) ELSE g[n]]
  <2>2. E(h, k)
    <3> HIDE DEF first
    <3> QED
      BY <2>1
  <2> HIDE DEF E, h
  <2> QED
    BY <2>2
<1>3. \E g : E(g, L)
  <2> HIDE DEF S
  <2>1. L \in S
    BY <1>1, <1>2, IntervalInduction
  <2> QED
    BY <2>1 DEF S
<1>4. PICK g : IsSentLoop(m, start, L, g)
  BY <1>3, ZenonT(60) DEF SendOne, IsSentLoop
<1> QED
  BY <1>4 DEF SentLoop

LEMMA SentLoopTurns ==
  ASSUME NEW m, NEW start, NEW L \in Nat
  PROVE  /\ SentLoop(m, start, L)[0] = [messages |-> {}, next |-> start]
         /\ \A n \in 1..L :
              SentLoop(m, start, L)[n] = SendOne(m, SentLoop(m, start, L)[n - 1])
<1> DEFINE first == [messages |-> {}, next |-> start]
<1>1. PICK g : g = SentLoop(m, start, L)
  OBVIOUS
<1>2. IsSentLoop(m, start, L, g)
  BY <1>1, SentLoopDef
<1>3. g = [n \in 0..L |-> IF n = 0 THEN first ELSE SendOne(m, g[n - 1])]
  BY <1>2, ZenonT(60) DEF IsSentLoop, SendOne
<1> HIDE DEF first
<1>4. g[0] = first /\ \A n \in 1..L : g[n] = SendOne(m, g[n - 1])
  BY <1>3
<1> QED
  BY <1>1, <1>4 DEF first

LEMMA PeriodicIsSentLoop ==
  ASSUME NEW m, NEW start
  PROVE  Periodic(m, start) = SentLoop(m, start, Len(m.times))[Len(m.times)]
  BY DEF Periodic, SentLoop, IsSentLoop

(* What the messages so far are about. *)
Sending(m, start, sent) ==
  /\ sent.next \in Int /\ start <= sent.next
  /\ \A s \in Int : start <= s /\ s < sent.next /\ has_received(m, s)
        => Tells(sent.messages, s)
  /\ \A f \in sent.messages : IsMessage(f)

LEMMA SendOneSending ==
  ASSUME NEW m \in Map, NEW start \in Int, NEW sent, Sending(m, start, sent)
  PROVE  Sending(m, start, SendOne(m, sent))
<1>1. End(m) \in Int /\ sent.next \in Int
  BY LenProperties DEF Map, End, Sending
<1>2. CASE sent.next >= End(m)
  BY <1>2 DEF SendOne
<1>3. CASE ~(sent.next >= End(m))
  <2> DEFINE b == MaybeBuildFeedbackPacket(m, TRUE, sent.next, End(m))
             new == [messages |-> sent.messages \cup b.messages, next |-> b.next]
  <2>1. /\ b.next \in Int /\ sent.next <= b.next
        /\ \A s \in Int : sent.next <= s /\ s < b.next /\ has_received(m, s)
              => Tells(b.messages, s)
        /\ \A f \in b.messages : IsMessage(f)
    <3>1. sent.next <= End(m)
      BY <1>1, <1>3
    <3>2. TRUE \in BOOLEAN
      OBVIOUS
    <3> HIDE DEF new
    <3> QED
      BY <1>1, <3>1, <3>2, BuildFacts, Zenon
  <2>2. SendOne(m, sent) = new
    BY <1>3 DEF SendOne
  <2> HIDE DEF b
  <2>3. new.next = b.next /\ new.messages = sent.messages \cup b.messages
    OBVIOUS
  <2> HIDE DEF new
  <2>4. ASSUME NEW s \in Int, start <= s, s < new.next, has_received(m, s)
        PROVE  Tells(new.messages, s)
    <3>1. Tells(sent.messages, s) \/ Tells(b.messages, s)
      BY <1>1, <2>1, <2>3, <2>4 DEF Sending
    <3> QED
      BY <2>3, <3>1 DEF Tells
  <2>5. new.next \in Int /\ start <= new.next
    BY <1>1, <2>1, <2>3 DEF Sending
  <2>6. \A f \in new.messages : IsMessage(f)
    BY <2>1, <2>3 DEF Sending
  <2>7. Sending(m, start, new)
    BY <2>4, <2>5, <2>6 DEF Sending
  <2> QED
    BY <2>2, <2>7
<1> QED
  BY <1>2, <1>3

(* Every packet of the map in front of the new start of the window is in   *)
(* one of the messages.                                                    *)
LEMMA PeriodicFacts ==
  ASSUME NEW m \in Map, NEW start \in Int
  PROVE  Sending(m, start, Periodic(m, start))
<1>0. PICK L \in Nat : L = Len(m.times)
  BY LenProperties DEF Map
<1> DEFINE g == SentLoop(m, start, L)
           S == {n \in 0..L : Sending(m, start, g[n])}
<1>1. Periodic(m, start) = g[L]
  BY <1>0, PeriodicIsSentLoop
<1>2. /\ g[0] = [messages |-> {}, next |-> start]
      /\ \A n \in 1..L : g[n] = SendOne(m, g[n - 1])
  BY SentLoopTurns
<1> HIDE DEF g
<1>3. 0 \in S
  <2>1. g[0].messages = {} /\ g[0].next = start
    BY <1>2
  <2>2. Sending(m, start, g[0])
    BY <2>1 DEF Sending
  <2> QED
    BY <2>2
<1>4. ASSUME NEW n \in 1..L, n - 1 \in S PROVE n \in S
  <2>1. Sending(m, start, g[n - 1])
    BY <1>4
  <2>2. g[n] = SendOne(m, g[n - 1])
    BY <1>2
  <2>3. Sending(m, start, g[n])
    BY <2>1, <2>2, SendOneSending
  <2> QED
    BY <2>3
<1>5. L \in S
  <2> HIDE DEF S
  <2>1. \A n \in 1..L : n - 1 \in S => n \in S
    BY <1>4
  <2>2. \A n \in 0..L : n \in S
    BY <1>3, <2>1, IntervalInduction, Zenon
  <2> QED
    BY <2>2
<1> QED
  BY <1>1, <1>5

-----------------------------------------------------------------------------
(* What the operations of the map keep *)

LEMMA MapFields ==
  ASSUME NEW m \in Map
  PROVE  /\ m.begin \in Int /\ m.times \in Seq(Nat) /\ Len(m.times) \in Nat
         /\ End(m) \in Int /\ m.begin <= End(m)
         /\ \A i \in 1..Len(m.times) : m.times[i] \in Nat
<1>1. m.begin \in Int /\ m.times \in Seq(Nat)
  BY DEF Map
<1>2. Len(m.times) \in Nat /\ \A i \in 1..Len(m.times) : m.times[i] \in Nat
  BY <1>1, LenProperties, ElementOfSeq
<1> QED
  BY <1>1, <1>2 DEF End

LEMMA DropFacts ==
  ASSUME NEW m \in Map, NEW n \in 0..Len(m.times)
  PROVE  /\ Drop(m, n) \in Map /\ Drop(m, n).begin = m.begin + n
         /\ End(Drop(m, n)) = End(m)
<1> DEFINE b == m.begin + n
           t == SubSeq(m.times, n + 1, Len(m.times))
<1>1. b \in Int /\ Len(m.times) \in Nat /\ n \in Nat /\ n <= Len(m.times)
  BY MapFields
<1>2. t \in Seq(Nat) /\ Len(t) = Len(m.times) - n
  <2>1. m.times \in Seq(Nat)
    BY MapFields
  <2>2. n + 1 \in 1..Len(m.times) + 1 /\ Len(m.times) \in n..Len(m.times)
    BY <1>1
  <2> QED
    BY <1>1, <2>1, <2>2, SubSeqProperties, SMTT(30)
<1>3. Drop(m, n) = [m EXCEPT !.begin = b, !.times = t]
  BY DEF Drop
<1> HIDE DEF t, b
<1>4. Drop(m, n) \in Map /\ Drop(m, n).begin = b /\ Drop(m, n).times = t
  <2> DEFINE d == [m EXCEPT !.begin = b, !.times = t]
  <2>1. d \in Map /\ d.begin = b /\ d.times = t
    BY <1>1, <1>2 DEF Map
  <2> HIDE DEF d
  <2> QED
    BY <1>3, <2>1 DEF d
<1> QED
  BY <1>1, <1>2, <1>4, MapFields DEF End, b

LEMMA FirstOf ==
  ASSUME NEW L \in Nat, NEW K \in SUBSET (1..L), K # {}
  PROVE  (CHOOSE i \in K : \A j \in K : i <= j) \in K
<1>1. K \in SUBSET Nat
  OBVIOUS
<1>2. \E i \in K : \A j \in K : i <= j
  BY <1>1, Least
<1> QED
  BY <1>2, Zenon

LEMMA EraseFacts ==
  ASSUME NEW m \in Map, NEW s \in Int
  PROVE  EraseTo(m, s) \in Map /\ m.begin <= EraseTo(m, s).begin
<1> DEFINE n == IF s - m.begin < Len(m.times) THEN s - m.begin ELSE Len(m.times)
<1>1. CASE s <= m.begin
  BY <1>1, MapFields DEF EraseTo
<1>2. CASE ~(s <= m.begin)
  <2>1. n \in 0..Len(m.times)
    BY <1>2, MapFields
  <2>2. EraseTo(m, s) = Drop(m, n)
    BY <1>2 DEF EraseTo
  <2> HIDE DEF n
  <2>3. Drop(m, n) \in Map /\ Drop(m, n).begin = m.begin + n
    BY <2>1, DropFacts
  <2> QED
    BY <2>1, <2>2, <2>3, MapFields
<1> QED
  BY <1>1, <1>2

LEMMA RemoveFacts ==
  ASSUME NEW m \in Map, NEW s, NEW limit
  PROVE  RemoveOldPackets(m, s, limit) \in Map
<1> DEFINE young == {i \in 1..Len(m.times) : m.begin + i - 1 >= s \/ m.times[i] > limit}
           k == CHOOSE i \in young : \A j \in young : i <= j
<1>0. Len(m.times) \in Nat
  BY MapFields
<1>1. RemoveOldPackets(m, s, limit)
        = IF young = {} THEN Drop(m, Len(m.times)) ELSE Drop(m, k - 1)
  BY DEF RemoveOldPackets
<1>2. young \in SUBSET (1..Len(m.times))
  OBVIOUS
<1> HIDE DEF young
<1>3. CASE young = {}
  <2>1. Len(m.times) \in 0..Len(m.times)
    BY <1>0
  <2> QED
    BY <1>1, <1>3, <2>1, DropFacts
<1>4. CASE young # {}
  <2>1. k \in young
    BY <1>0, <1>2, <1>4, FirstOf
  <2> HIDE DEF k
  <2>2. k - 1 \in 0..Len(m.times)
    BY <1>0, <1>2, <2>1
  <2> QED
    BY <1>1, <1>4, <2>2, DropFacts
<1> QED
  BY <1>3, <1>4

LEMMA ZerosFacts ==
  ASSUME NEW n \in Nat
  PROVE  Zeros(n) \in Seq(Nat)
<1> DEFINE f == [i \in 1..n |-> 0]
<1>1. f \in Seq(Nat)
  BY IsASeq
<1> QED
  BY <1>1 DEF Zeros

LEMMA TrimmedFacts ==
  ASSUME NEW m \in Map, NEW s \in Int, End(m) <= s
  PROVE  Trimmed(m, s) \in Map /\ End(Trimmed(m, s)) <= s
<1> DEFINE L == Len(m.times)
           n == s - m.begin - kMaxNumberOfPackets + 1
           kept == {i \in n + 1..L : m.times[i] # 0}
           k == CHOOSE i \in kept : \A j \in kept : i <= j
           late == [m EXCEPT !.begin = s, !.times = <<>>]
<1>1. Trimmed(m, s) = IF n <= 0 THEN m ELSE IF n >= L THEN late
                      ELSE IF kept = {} THEN Drop(m, L) ELSE Drop(m, k - 1)
  BY DEF Trimmed
<1>2. L \in Nat /\ n \in Int
  BY MapFields, MapAssumption
<1>3. n > 0 => kept \in SUBSET (1..L)
  BY <1>2
<1> HIDE DEF L, n, kept
<1>4. late \in Map /\ End(late) <= s
  <2>1. late \in Map /\ late.begin = s /\ late.times = <<>>
    BY EmptySeq DEF Map
  <2> HIDE DEF late
  <2> QED
    BY <2>1, EmptySeq DEF End
<1>5. L \in 0..Len(m.times)
  BY <1>2 DEF L
<1>6. CASE n <= 0 \/ n >= L
  <2> HIDE DEF late, k
  <2> QED
    BY <1>1, <1>4, <1>6
<1>7. CASE ~(n <= 0 \/ n >= L) /\ kept = {}
  BY <1>1, <1>5, <1>7, DropFacts
<1>8. CASE ~(n <= 0 \/ n >= L) /\ kept # {}
  <2>1. k \in kept
    <3>1. kept \in SUBSET (1..L) /\ kept # {}
      BY <1>2, <1>3, <1>8
    <3> QED
      BY <1>2, <3>1, FirstOf, Zenon
  <2> HIDE DEF k
  <2>2. k - 1 \in 0..Len(m.times)
    BY <1>2, <1>3, <1>8, <2>1 DEF L
  <2> QED
    BY <1>1, <1>8, <2>2, DropFacts
<1> QED
  BY <1>6, <1>7, <1>8

LEMMA AddFacts ==
  ASSUME NEW m \in Map, NEW s \in Int, NEW time \in Nat
  PROVE  AddPacket(m, s, time) \in Map
<1>1. <<time>> \in Seq(Nat)
  OBVIOUS
<1>2. CASE ~m.seen
  <2>1. AddPacket(m, s, time) = [seen |-> TRUE, begin |-> s, times |-> <<time>>]
    BY <1>2 DEF AddPacket
  <2> QED
    BY <1>1, <2>1 DEF Map
<1>3. CASE m.seen /\ Holds(m, s)
  <2> DEFINE i == s - m.begin + 1
             t == [m.times EXCEPT ![i] = time]
  <2>1. AddPacket(m, s, time) = [m EXCEPT !.times = t]
    BY <1>3 DEF AddPacket
  <2>2. i \in 1..Len(m.times) /\ m.times \in Seq(Nat)
    BY <1>3, MapFields DEF Holds, End
  <2> HIDE DEF i
  <2>3. t \in Seq(Nat)
    BY <2>2, ExceptSeq
  <2> HIDE DEF t
  <2> QED
    BY <2>1, <2>3 DEF Map
<1>4. CASE m.seen /\ ~Holds(m, s) /\ s < m.begin
  <2> DEFINE z == Zeros(m.begin - s - 1)
             t == <<time>> \o z \o m.times
  <2>1. z \in Seq(Nat)
    BY <1>4, MapFields, ZerosFacts
  <2>2. AddPacket(m, s, time) \in {m, [m EXCEPT !.begin = s, !.times = t]}
    BY <1>4 DEF AddPacket
  <2> HIDE DEF z
  <2>3. t \in Seq(Nat)
    BY <1>1, <2>1, MapFields, ConcatProperties
  <2> HIDE DEF t
  <2> QED
    BY <2>2, <2>3 DEF Map
<1>5. CASE m.seen /\ ~Holds(m, s) /\ ~(s < m.begin)
  <2> DEFINE r == Trimmed(m, s)
             z == Zeros(s - End(r))
             t == r.times \o z \o <<time>>
  <2>1. AddPacket(m, s, time) = [r EXCEPT !.times = t]
    BY <1>5 DEF AddPacket
  <2>2. End(m) <= s
    BY <1>5, MapFields DEF Holds
  <2>3. r \in Map /\ End(r) <= s
    BY <2>2, TrimmedFacts
  <2> HIDE DEF r
  <2>4. z \in Seq(Nat)
    BY <2>3, MapFields, ZerosFacts
  <2> HIDE DEF z
  <2>5. t \in Seq(Nat)
    BY <1>1, <2>3, <2>4, MapFields, ConcatProperties
  <2> HIDE DEF t
  <2> QED
    BY <2>1, <2>3, <2>5 DEF Map
<1> QED
  BY <1>2, <1>3, <1>4, <1>5

-----------------------------------------------------------------------------
(* The proxy *)

NetInv ==
  /\ now \in Nat /\ SenderTime \in Nat /\ bound \in Bounds
  /\ created \in 0..MaxPackets /\ unnoticed \subseteq 1..created

ProxyInv ==
  /\ rmap \in Map /\ rlast \in Int \cup {None} /\ wstart \in Int \cup {None}
  /\ periodic \in BOOLEAN /\ owed \subseteq Int
  /\ \A f \in feedback : IsMessage(f)
  /\ OwedIsInWindow

LEMMA WireIsNat ==
  ASSUME NEW n \in Nat
  PROVE  Wire(n) \in Nat /\ Wire(n) < SeqSpan
<1>1. StartSeq + n \in Nat /\ SeqSpan \in Nat \ {0}
  BY FeedbackAssumption, SpanAssumption
<1> QED
  BY <1>1, Remainder DEF Wire

LEMMA SeqNumUnwrapIsInt ==
  ASSUME NEW last \in Int \cup {None}, NEW value \in Int
  PROVE  SeqNumUnwrap(last, value) \in Int
<1>1. \A a \in Int : a % SeqSpan \in Int
  BY SpanAssumption
<1> QED
  BY <1>1 DEF SeqNumUnwrap

LEMMA NetStep ==
  ASSUME NetInv, [Next]_vars
  PROVE  NetInv'
<1>0. MaxPackets \in Nat /\ StartTime \in Nat /\ \A b \in Bounds : b.packets \in 0..MaxPackets
  BY AdapterAssumption, FeedbackAssumption
<1>1. CASE SendPacket
  BY <1>0, <1>1 DEF SendPacket, NetInv, SenderTime
<1>2. CASE SendFeedback
  BY <1>2 DEF SendFeedback, NetInv, SenderTime, netVars
<1>3. CASE ChangeRoute
  BY <1>3 DEF ChangeRoute, NetInv, SenderTime
<1>4. CASE ChangeMode
  BY <1>4 DEF ChangeMode, NetInv, SenderTime
<1>5. CASE Tick
  <2>1. now' = now + 1 /\ UNCHANGED <<bound, created, unnoticed>>
    BY <1>5 DEF Tick
  <2>2. now \in Nat /\ SenderStart \in Nat /\ SenderStart + (now - StartTime) \in Nat
    BY FeedbackAssumption DEF NetInv, SenderTime
  <2>3. SenderStart + (now + 1 - StartTime) \in Nat /\ now + 1 \in Nat
    BY <1>0, <2>2
  <2>4. SenderTime' \in Nat /\ now' \in Nat
    BY <1>0, <2>1, <2>2, <2>3 DEF SenderTime
  <2> QED
    BY <2>1, <2>4 DEF NetInv
<1>6. ASSUME NEW n \in 1..MaxPackets, OnSentPacket(n) PROVE NetInv'
  BY <1>6 DEF OnSentPacket, NetInv, SenderTime
<1>7. ASSUME NEW n \in 1..MaxPackets, Deliver(n) PROVE NetInv'
  BY <1>7 DEF Deliver, NetInv, SenderTime
<1>8. ASSUME NEW f \in feedback, DeliverFeedback(f) PROVE NetInv'
  BY <1>8 DEF DeliverFeedback, NetInv, SenderTime
<1>9. CASE UNCHANGED vars
  BY <1>9 DEF vars, netVars, NetInv, SenderTime
<1> QED
  BY <1>1, <1>2, <1>3, <1>4, <1>5, <1>6, <1>7, <1>8, <1>9 DEF Next

(* The window after a packet s: it starts no later than s or than before. *)
LEMMA MovedBackFacts ==
  ASSUME ProxyInv, NEW s \in Int
  PROVE  /\ MovedBack(s) \in Int \cup {None}
         /\ wstart # None => MovedBack(s) # None /\ MovedBack(s) <= wstart
         /\ periodic => MovedBack(s) # None /\ MovedBack(s) <= s
<1>1. wstart \in Int \cup {None} /\ None \notin Int
  BY SpanAssumption DEF ProxyInv
<1> QED
  BY <1>1 DEF MovedBack

LEMMA IncomingStep ==
  ASSUME ProxyInv, NEW seq \in Int, NEW time \in Nat,
         NEW request \in [count : Nat, timestamps : BOOLEAN],
         IncomingPacket(seq, time, request)
  PROVE  ProxyInv'
<1> DEFINE s == SeqNumUnwrap(rlast, seq)
           m == Culled(s, time)
           added == AddPacket(m, s, time)
           first == s - request.count + 1
           b == MaybeBuildFeedbackPacket(added, request.timestamps, first, s + 1)
<1>0. None \notin Int
  BY SpanAssumption
<1>1. s \in Int
  BY SeqNumUnwrapIsInt DEF ProxyInv
<1>2. rlast' = s /\ periodic' = periodic /\ UNCHANGED periodic
  BY DEF IncomingPacket
<1> HIDE DEF s
<1>3. m \in Map
  BY RemoveFacts DEF Culled, ProxyInv
<1>4. added \in Map
  BY <1>1, <1>3, AddFacts
<1>5. /\ MovedBack(s) \in Int \cup {None}
      /\ wstart # None => MovedBack(s) # None /\ MovedBack(s) <= wstart
      /\ periodic => MovedBack(s) # None /\ MovedBack(s) <= s
  BY <1>1, MovedBackFacts
<1>6. CASE /\ rmap' = m /\ wstart' = MovedBack(s)
           /\ UNCHANGED <<feedback, halted>>
           /\ owed' = StillOwed(owed, {}, m)
  <2>1. owed' \subseteq owed
    BY <1>6 DEF StillOwed
  <2>2. OwedIsInWindow'
    <3> SUFFICES ASSUME NEW x \in owed' PROVE wstart' # None /\ wstart' <= x
      BY DEF OwedIsInWindow
    <3>1. x \in Int /\ wstart # None /\ wstart <= x /\ wstart \in Int
      BY <2>1 DEF ProxyInv, OwedIsInWindow
    <3> QED
      BY <1>0, <1>5, <1>6, <3>1
  <2> HIDE DEF m
  <2> QED
    BY <1>1, <1>2, <1>3, <1>5, <1>6, <2>1, <2>2 DEF ProxyInv
<1>7. CASE /\ wstart' = IF MovedBack(s) = None \/ MovedBack(s) < added.begin
                          THEN added.begin ELSE MovedBack(s)
           /\ SendFeedbackOnRequest(added, s, request)
           /\ owed' = StillOwed(owed \cup (IF periodic THEN {s} ELSE {}),
                                feedback' \ feedback, rmap')
  <2>1. added.begin \in Int
    BY <1>4, MapFields
  <2>2. wstart' \in Int /\ (wstart' = added.begin \/ wstart' = MovedBack(s))
    BY <1>5, <1>7, <2>1
  <2>3. request.count \in Nat /\ first \in Int /\ first <= s + 1 /\ s + 1 \in Int
    BY <1>1
  <2>4. rmap' \in Map /\ added.begin <= rmap'.begin
    <3>1. rmap' = added \/ rmap' = EraseTo(added, first)
      BY <1>7 DEF SendFeedbackOnRequest
    <3>2. EraseTo(added, first) \in Map /\ added.begin <= EraseTo(added, first).begin
      BY <1>4, <2>3, EraseFacts
    <3> HIDE DEF added, first
    <3> QED
      BY <1>4, <2>1, <3>1, <3>2
  <2>5. \A f \in feedback' : IsMessage(f)
    <3>1. feedback' = feedback \/ feedback' = feedback \cup b.messages
      BY <1>7 DEF SendFeedbackOnRequest
    <3>2. request.timestamps \in BOOLEAN
      OBVIOUS
    <3>3. \A f \in b.messages : IsMessage(f)
      <4> HIDE DEF added, first
      <4> QED
        BY <1>4, <2>3, <3>2, BuildFacts, Zenon
    <3> QED
      BY <3>1, <3>3 DEF ProxyInv
  <2>6. owed' \subseteq owed \cup (IF periodic THEN {s} ELSE {})
    BY <1>7 DEF StillOwed
  <2>7. \A x \in owed' : has_received(rmap', x)
    BY <1>7 DEF StillOwed
  <2>8. OwedIsInWindow'
    <3> SUFFICES ASSUME NEW x \in owed' PROVE wstart' # None /\ wstart' <= x
      BY DEF OwedIsInWindow
    <3>1. x \in owed \/ (periodic /\ x = s)
      BY <2>6
    <3>2. x \in Int
      BY <1>1, <3>1 DEF ProxyInv
    <3>3. added.begin <= x
      <4>1. rmap'.begin <= x /\ rmap'.begin \in Int
        BY <2>4, <2>7, MapFields DEF has_received, Holds
      <4> HIDE DEF added
      <4> QED
        BY <2>1, <2>4, <3>2, <4>1
    <3>4. wstart' = MovedBack(s) => wstart' <= x
      <4>1. CASE x \in owed
        <5>1. wstart # None /\ wstart <= x /\ wstart \in Int
          BY <4>1 DEF ProxyInv, OwedIsInWindow
        <5> QED
          BY <1>0, <1>5, <2>2, <3>2, <5>1
      <4>2. CASE periodic /\ x = s
        BY <1>5, <4>2
      <4> QED
        BY <3>1, <4>1, <4>2
    <3> QED
      BY <1>0, <2>2, <3>3, <3>4
  <2> HIDE DEF added, first, b
  <2> QED
    BY <1>1, <1>2, <2>2, <2>4, <2>5, <2>6, <2>8 DEF ProxyInv
<1> QED
  BY <1>6, <1>7 DEF IncomingPacket, s

LEMMA ProcessStep ==
  ASSUME ProxyInv, Process
  PROVE  ProxyInv'
<1> DEFINE p == Periodic(rmap, wstart)
<1>0. None \notin Int /\ rmap \in Map /\ wstart \in Int /\ owed \subseteq Int
  BY SpanAssumption DEF ProxyInv, Process
<1>1. /\ wstart' = p.next /\ feedback' = feedback \cup p.messages
      /\ owed' = StillOwed(owed, p.messages, rmap)
      /\ UNCHANGED <<rmap, rlast, periodic, halted>>
  BY DEF Process
<1>2. Sending(rmap, wstart, p)
  BY <1>0, PeriodicFacts
<1> HIDE DEF p
<1>3. OwedIsInWindow'
  <2> SUFFICES ASSUME NEW x \in owed' PROVE wstart' # None /\ wstart' <= x
    BY DEF OwedIsInWindow
  <2>1. x \in owed /\ x \in Int /\ has_received(rmap, x) /\ ~Tells(p.messages, x)
    BY <1>0, <1>1 DEF StillOwed, Tells
  <2>2. wstart <= x
    BY <2>1 DEF ProxyInv, OwedIsInWindow
  <2>3. p.next \in Int /\ ~(x < p.next)
    BY <1>2, <2>1, <2>2 DEF Sending
  <2> QED
    BY <1>0, <1>1, <2>1, <2>3
<1>4. owed' \subseteq Int
  BY <1>0, <1>1 DEF StillOwed
<1>5. \A f \in feedback' : IsMessage(f)
  BY <1>1, <1>2 DEF Sending, ProxyInv
<1>6. wstart' \in Int
  BY <1>1, <1>2 DEF Sending
<1> QED
  BY <1>1, <1>3, <1>4, <1>5, <1>6 DEF ProxyInv

LEMMA ProxyKept ==
  ASSUME ProxyInv, UNCHANGED proxyVars
  PROVE  ProxyInv'
  BY DEF ProxyInv, proxyVars, OwedIsInWindow

LEMMA ProxyStep ==
  ASSUME NetInv, ProxyInv, [Next]_vars
  PROVE  ProxyInv'
<1>1. CASE SendPacket
  BY <1>1, ProxyKept DEF SendPacket
<1>2. CASE SendFeedback
  BY <1>2, ProcessStep DEF SendFeedback
<1>3. CASE ChangeRoute
  BY <1>3, ProxyKept DEF ChangeRoute
<1>4. CASE ChangeMode
  BY <1>4 DEF ChangeMode, SetSendPeriodicFeedback, ProxyInv, OwedIsInWindow
<1>5. CASE Tick
  BY <1>5, ProxyKept DEF Tick
<1>6. ASSUME NEW n \in 1..MaxPackets, OnSentPacket(n) PROVE ProxyInv'
  BY <1>6, ProxyKept DEF OnSentPacket
<1>7. ASSUME NEW n \in 1..MaxPackets, Deliver(n) PROVE ProxyInv'
  <2> DEFINE q == IF bound.requests THEN Request[n] ELSE NoRequest
  <2>1. n \in Nat /\ Wire(n) \in Int /\ now \in Nat
    BY <1>7, AdapterAssumption, WireIsNat DEF NetInv
  <2>2. q \in [count : Nat, timestamps : BOOLEAN]
    BY FeedbackAssumption DEF NoRequest
  <2>3. IncomingPacket(Wire(n), now, q)
    BY <1>7 DEF Deliver
  <2> HIDE DEF q
  <2> QED
    BY <2>1, <2>2, <2>3, IncomingStep
<1>8. ASSUME NEW f \in feedback, DeliverFeedback(f) PROVE ProxyInv'
  BY <1>8, ProxyKept DEF DeliverFeedback
<1>9. CASE UNCHANGED vars
  BY <1>9, ProxyKept DEF vars
<1> QED
  BY <1>1, <1>2, <1>3, <1>4, <1>5, <1>6, <1>7, <1>8, <1>9 DEF Next

LEMMA ProxyStart ==
  ASSUME Init
  PROVE  NetInv /\ ProxyInv
<1>1. NetInv
  <2>1. now = StartTime /\ StartTime \in Nat /\ SenderStart + (StartTime - StartTime) \in Nat
    BY FeedbackAssumption DEF Init
  <2> QED
    BY <2>1, AdapterAssumption, FeedbackAssumption DEF Init, NetInv, SenderTime
<1>2. EmptyMap \in Map
  BY EmptySeq DEF EmptyMap, Map
<1>3. ProxyInv
  BY <1>2 DEF Init, ProxyInit, ProxyInv, OwedIsInWindow
<1> QED
  BY <1>1, <1>3

(* Whatever the order of arrivals, duplicates, requests and switches of    *)
(* the mode, and for every size of the map and of the chunks, the window   *)
(* of the periodic feedback never passes over a packet that arrived while  *)
(* it was on, is in no message yet and is still in the map.                *)
THEOREM WindowMissesNothing == Spec => []OwedIsInWindow
<1>1. Init => NetInv /\ ProxyInv
  BY ProxyStart
<1>2. NetInv /\ ProxyInv /\ [Next]_vars => (NetInv /\ ProxyInv)'
  BY NetStep, ProxyStep
<1>3. ProxyInv => OwedIsInWindow
  BY DEF ProxyInv
<1> QED
  BY <1>1, <1>2, <1>3, PTL DEF Spec

-----------------------------------------------------------------------------
(* The chunks of a message: a chunk is read as the symbols it was made of *)

Symbol == 0..2

LEMMA Capacities ==
  /\ OneBitCapacity \in Nat /\ TwoBitCapacity \in Nat /\ RunLengthCapacity \in Nat
  /\ TwoBitCapacity >= 1 /\ OneBitCapacity = 2 * TwoBitCapacity
  /\ OneBitCapacity <= RunLengthCapacity
  BY PacketAssumption DEF TwoBitCapacity

LEMMA SymbolSeq ==
  ASSUME NEW v \in Seq(Symbol)
  PROVE  /\ Len(v) \in Nat /\ DOMAIN v = 1..Len(v)
         /\ \A i \in 1..Len(v) : v[i] \in Symbol /\ v[i] \in Nat
<1>1. /\ Len(v) \in Nat /\ DOMAIN v = 1..Len(v)
      /\ \A i \in 1..Len(v) : v[i] \in Symbol
  BY ElementOfSeq, LenProperties
<1> QED
  BY <1>1 DEF Symbol

LEMMA NoLarge ==
  ASSUME NEW v \in Seq(Symbol)
  PROVE  ~HasLargeDelta(v) <=> \A i \in 1..Len(v) : v[i] # 2
  BY SymbolSeq DEF HasLargeDelta, Range

LEMMA RunSymbols ==
  ASSUME NEW v \in Seq(Symbol), AllSame(v), v # <<>>, NEW max \in Nat, Len(v) <= max
  PROVE  Symbols(EncodeRunLength(v), max) = v
<1> DEFINE n == Len(v)
           r == [i \in 1..n |-> v[1]]
<1>1. n \in Nat /\ n > 0 /\ v[1] \in Symbol /\ \A i \in 1..n : v[i] = v[1]
  BY SymbolSeq, EmptySeq DEF AllSame
<1>2. Symbols(EncodeRunLength(v), max)
        = [i \in 1..(IF n < max THEN n ELSE max) |-> v[1]]
  BY DEF Symbols, EncodeRunLength
<1>3. (IF n < max THEN n ELSE max) = n
  BY <1>1
<1>4. Symbols(EncodeRunLength(v), max) = r
  BY <1>2, <1>3
<1> HIDE DEF n
<1>5. r \in Seq(Symbol) /\ Len(r) = n
  BY <1>1, IsASeq, LenProperties
<1>6. \A i \in 1..n : r[i] = v[i]
  BY <1>1
<1> HIDE DEF r
<1>7. r = v
  BY <1>5, <1>6, SeqEqual DEF n
<1> QED
  BY <1>4, <1>7

(* A chunk of n symbols that starts with v and is padded. *)
LEMMA PadSymbols ==
  ASSUME NEW v \in Seq(Symbol), NEW n \in Nat, Len(v) <= n,
         NEW max \in Nat, Len(v) = max \/ (Len(v) = n /\ n <= max)
  PROVE  LET w == Pad(v, n)
         IN  SubSeq(w, 1, IF Len(w) < max THEN Len(w) ELSE max) = v
<1> DEFINE w == [i \in 1..n |-> IF i <= Len(v) THEN v[i] ELSE 0]
           k == IF Len(w) < max THEN Len(w) ELSE max
<1>1. Len(v) \in Nat /\ \A i \in 1..Len(v) : v[i] \in Symbol
  BY SymbolSeq
<1>2. \A i \in 1..n : (IF i <= Len(v) THEN v[i] ELSE 0) \in Symbol
  BY <1>1 DEF Symbol
<1>3. w \in Seq(Symbol) /\ Len(w) = n
  BY <1>2, IsASeq, LenProperties
<1>4. \A i \in 1..Len(v) : w[i] = v[i]
  BY <1>1
<1> HIDE DEF w
<1>5. k = Len(v)
  BY <1>1, <1>3
<1> HIDE DEF k
<1> DEFINE x == SubSeq(w, 1, k)
<1>6. /\ x \in Seq(Symbol) /\ Len(x) = Len(v)
      /\ \A i \in 1..Len(v) : x[i] = w[i]
  BY <1>1, <1>3, <1>5, SubSeqProperties
<1> HIDE DEF x
<1>7. \A i \in 1..Len(x) : x[i] = v[i]
  BY <1>4, <1>6
<1>8. x = v
  BY <1>6, <1>7, SeqEqual
<1> QED
  BY <1>8 DEF x, k, w, Pad

LEMMA OneSymbols ==
  ASSUME NEW v \in Seq(Symbol), ~HasLargeDelta(v), Len(v) <= OneBitCapacity,
         NEW max \in Nat,
         Len(v) = max \/ (Len(v) = OneBitCapacity /\ OneBitCapacity <= max)
  PROVE  Symbols(EncodeOneBit(v), max) = v
<1> DEFINE b == [i \in DOMAIN v |-> v[i] % 2]
<1>1. b = v
  <2>1. \A i \in 1..Len(v) : v[i] \in {0, 1}
    BY SymbolSeq, NoLarge DEF Symbol
  <2>2. b \in Seq(Symbol) /\ Len(b) = Len(v) /\ \A i \in 1..Len(b) : b[i] = v[i]
    <3>1. b = [i \in 1..Len(v) |-> v[i] % 2]
      BY SymbolSeq
    <3>2. \A i \in 1..Len(v) : v[i] % 2 = v[i] /\ v[i] % 2 \in Symbol
      BY <2>1 DEF Symbol
    <3> HIDE DEF b
    <3>3. b \in Seq(Symbol) /\ Len(b) = Len(v)
      BY <3>1, <3>2, SymbolSeq, IsASeq, LenProperties
    <3> QED
      BY <3>1, <3>2, <3>3
  <2> HIDE DEF b
  <2> QED
    BY <2>2, SeqEqual
<1> DEFINE w == Pad(v, OneBitCapacity)
<1>2. EncodeOneBit(v) = [kind |-> "one", symbols |-> w]
  BY <1>1 DEF EncodeOneBit
<1>3. SubSeq(w, 1, IF Len(w) < max THEN Len(w) ELSE max) = v
  BY PadSymbols, Capacities
<1> HIDE DEF w
<1> QED
  BY <1>2, <1>3 DEF Symbols

LEMMA TwoSymbols ==
  ASSUME NEW v \in Seq(Symbol), Len(v) <= TwoBitCapacity, NEW max \in Nat,
         Len(v) = max \/ (Len(v) = TwoBitCapacity /\ TwoBitCapacity <= max)
  PROVE  Symbols(EncodeTwoBit(v), max) = v
<1> DEFINE w == Pad(v, TwoBitCapacity)
<1>2. EncodeTwoBit(v) = [kind |-> "two", symbols |-> w]
  BY DEF EncodeTwoBit
<1>3. SubSeq(w, 1, IF Len(w) < max THEN Len(w) ELSE max) = v
  BY PadSymbols, Capacities
<1> HIDE DEF w
<1> QED
  BY <1>2, <1>3 DEF Symbols

(* What the symbols that wait for a chunk always are. *)
Waiting(v) ==
  /\ v \in Seq(Symbol)
  /\ \/ AllSame(v)
     \/ Len(v) <= TwoBitCapacity
     \/ Len(v) <= OneBitCapacity /\ ~HasLargeDelta(v)

LEMMA OneIsWaiting ==
  ASSUME NEW size \in Symbol
  PROVE  Waiting(Append(<<>>, size)) /\ Append(<<>>, size) # <<>>
<1>1. /\ Append(<<>>, size) \in Seq(Symbol) /\ Len(Append(<<>>, size)) = 1
  BY EmptySeq, AppendProperties
<1> QED
  BY <1>1, EmptySeq DEF Waiting, AllSame

LEMMA CanAddWaiting ==
  ASSUME NEW v, Waiting(v), NEW size \in Symbol, CanAdd(v, size)
  PROVE  Waiting(Append(v, size))
<1> DEFINE w == Append(v, size)
           n == Len(v)
<1>1. v \in Seq(Symbol) /\ n \in Nat
  BY SymbolSeq DEF Waiting
<1>2. /\ w \in Seq(Symbol) /\ Len(w) = n + 1 /\ w[n + 1] = size
      /\ \A i \in 1..n : w[i] = v[i]
  BY <1>1, AppendProperties
<1> SUFFICES Waiting(w)
  OBVIOUS
<1> HIDE DEF w
<1>3. CASE n < TwoBitCapacity
  BY <1>1, <1>2, <1>3, Capacities DEF Waiting
<1>4. CASE n < OneBitCapacity /\ ~HasLargeDelta(v) /\ size # 2
  <2>1. \A i \in 1..Len(w) : w[i] # 2
    <3> TAKE i \in 1..Len(w)
    <3>1. i \in 1..n \/ i = n + 1
      BY <1>1, <1>2
    <3> QED
      BY <1>1, <1>2, <1>4, <3>1, NoLarge
  <2>2. ~HasLargeDelta(w)
    BY <1>2, <2>1, NoLarge
  <2> QED
    BY <1>1, <1>2, <1>4, <2>2, Capacities DEF Waiting
<1>5. CASE ~(n < TwoBitCapacity) /\ AllSame(v) /\ v[1] = size
  <2>1. n >= 1 /\ 1 \in 1..n
    BY <1>1, <1>5, Capacities
  <2>2. AllSame(w)
    <3> SUFFICES ASSUME NEW i \in 1..Len(w) PROVE w[i] = w[1]
      BY DEF AllSame
    <3>1. i \in 1..n \/ i = n + 1
      BY <1>1, <1>2
    <3> QED
      BY <1>2, <1>5, <2>1, <3>1 DEF AllSame
  <2> QED
    BY <1>2, <2>2 DEF Waiting
<1> QED
  BY <1>3, <1>4, <1>5 DEF CanAdd

(* A finished chunk holds a first part of the symbols, and the rest waits. *)
LEMMA EmitFacts ==
  ASSUME NEW v, Waiting(v), v # <<>>, NEW size \in Symbol, ~CanAdd(v, size),
         NEW max \in Nat, Len(v) <= max
  PROVE  \E k \in 0..Len(v) :
           /\ Symbols(Emit(v).chunk, max) = SubSeq(v, 1, k)
           /\ Emit(v).rest = SubSeq(v, k + 1, Len(v))
           /\ Waiting(Append(SubSeq(v, k + 1, Len(v)), size))
<1> DEFINE n == Len(v)
<1>1. v \in Seq(Symbol) /\ n \in Nat /\ ~(n < TwoBitCapacity)
  BY SymbolSeq DEF Waiting, CanAdd
<1>2. SubSeq(v, n + 1, n) = <<>> /\ SubSeq(v, 1, n) = v
  <2>1. SubSeq(v, n + 1, n) = <<>>
    BY <1>1, SubSeqEmpty
  <2>2. SubSeq(v, 1, n) = v
    BY <1>1, SubSeqFull
  <2> QED
    BY <2>1, <2>2
<1>3. n \in 0..n
  BY <1>1, SMTT(30)
<1>4. CASE AllSame(v)
  <2>1. Emit(v).chunk = EncodeRunLength(v) /\ Emit(v).rest = <<>>
    BY <1>4 DEF Emit
  <2>2. Symbols(Emit(v).chunk, max) = v
    BY <1>1, <1>4, <2>1, RunSymbols
  <2> QED
    BY <1>2, <1>3, <2>1, <2>2, OneIsWaiting
<1>5. CASE ~AllSame(v) /\ n = OneBitCapacity
  <2>1. Emit(v).chunk = EncodeOneBit(v) /\ Emit(v).rest = <<>>
    BY <1>5 DEF Emit
  <2>2. ~HasLargeDelta(v)
    BY <1>1, <1>5, Capacities DEF Waiting
  <2>3. Symbols(Emit(v).chunk, max) = v
    BY <1>1, <1>5, <2>1, <2>2, OneSymbols
  <2> QED
    BY <1>2, <1>3, <2>1, <2>3, OneIsWaiting
<1>6. CASE ~AllSame(v) /\ n # OneBitCapacity
  <2> DEFINE two == TwoBitCapacity
             head == SubSeq(v, 1, two)
             rest == SubSeq(v, two + 1, n)
  <2>1. Emit(v).chunk = EncodeTwoBit(head) /\ Emit(v).rest = rest
    BY <1>6 DEF Emit
  <2>2. two \in 0..n /\ two >= 1 /\ n - two < two
    BY <1>1, <1>6, Capacities DEF Waiting
  <2> HIDE DEF two
  <2>3. head \in Seq(Symbol) /\ Len(head) = two
    BY <1>1, <2>2, SubSeqProperties
  <2>4. rest \in Seq(Symbol) /\ Len(rest) = n - two
    BY <1>1, <2>2, SubSeqProperties
  <2> HIDE DEF head
  <2>5. Symbols(Emit(v).chunk, max) = head
    BY <1>1, <2>1, <2>2, <2>3, TwoSymbols DEF two
  <2>6. Waiting(Append(rest, size))
    <3> HIDE DEF rest
    <3>1. Append(rest, size) \in Seq(Symbol) /\ Len(Append(rest, size)) = n - two + 1
      BY <2>4, AppendProperties
    <3> QED
      BY <1>1, <2>2, <3>1, Capacities DEF Waiting, two
  <2> QED
    BY <2>1, <2>2, <2>5, <2>6 DEF head
<1> QED
  BY <1>4, <1>5, <1>6

(* The last chunk is read up to the number of symbols that are missing. *)
LEMMA EncodeLastSymbols ==
  ASSUME NEW v, Waiting(v), v # <<>>
  PROVE  Symbols(EncodeLast(v), Len(v)) = v
<1>1. v \in Seq(Symbol) /\ Len(v) \in Nat
  BY SymbolSeq DEF Waiting
<1>2. CASE AllSame(v)
  BY <1>1, <1>2, RunSymbols DEF EncodeLast
<1>3. CASE ~AllSame(v) /\ Len(v) <= TwoBitCapacity
  BY <1>1, <1>3, TwoSymbols DEF EncodeLast
<1>4. CASE ~AllSame(v) /\ ~(Len(v) <= TwoBitCapacity)
  BY <1>1, <1>4, OneSymbols DEF EncodeLast, Waiting
<1> QED
  BY <1>2, <1>3, <1>4

(* One turn of the loop that reads the chunks. *)
ReadOne(chunks, count, v, n) == v \o Symbols(chunks[n], count - Len(v))

IsRead(chunks, count, L, read) ==
  read = [n \in 0..L |->
            IF n = 0 THEN <<>>
            ELSE read[n - 1] \o Symbols(chunks[n], count - Len(read[n - 1]))]

ReadLoop(chunks, count, L) == CHOOSE read : IsRead(chunks, count, L, read)

LEMMA ReadDef ==
  ASSUME NEW chunks, NEW count, NEW L \in Nat
  PROVE  IsRead(chunks, count, L, ReadLoop(chunks, count, L))
<1> DEFINE E(g, k) == g = [n \in 0..k |-> IF n = 0 THEN <<>>
                                         ELSE ReadOne(chunks, count, g[n - 1], n)]
           S == {k \in 0..L : \E g : E(g, k)}
<1>1. 0 \in S
  <2>1. E([n \in 0..0 |-> <<>>], 0)
    OBVIOUS
  <2> HIDE DEF E
  <2> QED
    BY <2>1
<1>2. ASSUME NEW k \in 1..L, k - 1 \in S PROVE k \in S
  <2>1. PICK g : E(g, k - 1)
    BY <1>2
  <2> DEFINE h == [n \in 0..k |-> IF n = k THEN ReadOne(chunks, count, g[k - 1], k)
                                  ELSE g[n]]
  <2>2. E(h, k)
    BY <2>1
  <2> HIDE DEF E, h
  <2> QED
    BY <2>2
<1>3. \E g : E(g, L)
  <2> HIDE DEF S
  <2>1. L \in S
    BY <1>1, <1>2, IntervalInduction
  <2> QED
    BY <2>1 DEF S
<1>4. PICK g : IsRead(chunks, count, L, g)
  BY <1>3 DEF ReadOne, IsRead
<1> QED
  BY <1>4 DEF ReadLoop

LEMMA ReadTurns ==
  ASSUME NEW chunks, NEW count, NEW L \in Nat
  PROVE  /\ ReadLoop(chunks, count, L)[0] = <<>>
         /\ \A n \in 1..L :
              ReadLoop(chunks, count, L)[n]
                = ReadOne(chunks, count, ReadLoop(chunks, count, L)[n - 1], n)
<1>1. PICK g : g = ReadLoop(chunks, count, L)
  OBVIOUS
<1>2. IsRead(chunks, count, L, g)
  BY <1>1, ReadDef
<1>3. g = [n \in 0..L |-> IF n = 0 THEN <<>> ELSE ReadOne(chunks, count, g[n - 1], n)]
  BY <1>2 DEF IsRead, ReadOne
<1>4. g[0] = <<>> /\ \A n \in 1..L : g[n] = ReadOne(chunks, count, g[n - 1], n)
  BY <1>3
<1> QED
  BY <1>1, <1>4

LEMMA DeltaSizesIsRead ==
  ASSUME NEW chunks, NEW count
  PROVE  DeltaSizes(chunks, count) = ReadLoop(chunks, count, Len(chunks))[Len(chunks)]
  BY DEF DeltaSizes, ReadLoop, IsRead

LEMMA ReadNothing ==
  ASSUME NEW count
  PROVE  DeltaSizes(<<>>, count) = <<>>
<1>1. Len(<<>>) = 0
  BY EmptySeq
<1>2. DeltaSizes(<<>>, count) = ReadLoop(<<>>, count, 0)[0]
  BY <1>1, DeltaSizesIsRead
<1>3. ReadLoop(<<>>, count, 0)[0] = <<>>
  BY ReadTurns
<1> QED
  BY <1>2, <1>3

(* A chunk more is read after the ones before it. *)
LEMMA ReadAppend ==
  ASSUME NEW T, NEW chunks \in Seq(T), NEW c \in T, NEW count
  PROVE  DeltaSizes(Append(chunks, c), count)
           = DeltaSizes(chunks, count)
               \o Symbols(c, count - Len(DeltaSizes(chunks, count)))
<1>1. PICK L \in Nat : L = Len(chunks)
  BY LenProperties
<1> DEFINE more == Append(chunks, c)
           g == ReadLoop(chunks, count, L)
           h == ReadLoop(more, count, L + 1)
           S == {n \in 0..L : h[n] = g[n]}
<1>2. /\ Len(more) = L + 1 /\ more[L + 1] = c
      /\ \A n \in 1..L : more[n] = chunks[n]
  BY <1>1, AppendProperties
<1>3. DeltaSizes(chunks, count) = g[L] /\ DeltaSizes(more, count) = h[L + 1]
  BY <1>1, <1>2, DeltaSizesIsRead
<1> HIDE DEF more
<1>4. g[0] = <<>> /\ \A n \in 1..L : g[n] = ReadOne(chunks, count, g[n - 1], n)
  BY ReadTurns
<1>5. h[0] = <<>> /\ \A n \in 1..L + 1 : h[n] = ReadOne(more, count, h[n - 1], n)
  <2>1. L + 1 \in Nat
    OBVIOUS
  <2> QED
    BY <2>1, ReadTurns
<1> HIDE DEF g, h
<1>6. 0 \in S
  BY <1>4, <1>5
<1>7. ASSUME NEW n \in 1..L, n - 1 \in S PROVE n \in S
  <2>1. h[n - 1] = g[n - 1] /\ more[n] = chunks[n] /\ n \in 1..L + 1
    BY <1>2, <1>7
  <2>2. h[n] = ReadOne(more, count, h[n - 1], n)
    BY <1>5, <2>1
  <2>3. g[n] = ReadOne(chunks, count, g[n - 1], n)
    BY <1>4
  <2>4. h[n] = g[n]
    BY <2>1, <2>2, <2>3 DEF ReadOne
  <2> QED
    BY <2>4
<1>8. L \in S
  <2> HIDE DEF S
  <2>1. \A n \in 1..L : n - 1 \in S => n \in S
    BY <1>7
  <2>2. \A n \in 0..L : n \in S
    BY <1>6, <2>1, IntervalInduction, Zenon
  <2> QED
    BY <2>2
<1>9. h[L] = g[L]
  BY <1>8
<1>10. h[L + 1] = ReadOne(more, count, h[L], L + 1)
  <2>1. L + 1 \in 1..L + 1 /\ (L + 1) - 1 = L
    OBVIOUS
  <2> QED
    BY <1>5, <2>1
<1> QED
  BY <1>2, <1>3, <1>9, <1>10 DEF ReadOne, more

(* b and then v are the first n symbols. *)
Follows(b, v, sizes, n) ==
  /\ b \in Seq(Symbol) /\ v \in Seq(Symbol) /\ Len(b) + Len(v) = n
  /\ \A i \in 1..Len(b) : b[i] = sizes[i]
  /\ \A i \in 1..Len(v) : v[i] = sizes[Len(b) + i]

LEMMA FollowsAppend ==
  ASSUME NEW b, NEW v, NEW sizes, NEW n \in Nat \ {0}, Follows(b, v, sizes, n - 1),
         sizes[n] \in Symbol
  PROVE  Follows(b, Append(v, sizes[n]), sizes, n)
<1> DEFINE x == sizes[n]
           w == Append(v, x)
<1>1. /\ b \in Seq(Symbol) /\ v \in Seq(Symbol) /\ Len(b) \in Nat /\ Len(v) \in Nat
      /\ n = Len(b) + Len(v) + 1
  BY SymbolSeq DEF Follows
<1>2. /\ w \in Seq(Symbol) /\ Len(w) = Len(v) + 1 /\ w[Len(v) + 1] = x
      /\ \A i \in 1..Len(v) : w[i] = v[i]
  BY <1>1, AppendProperties
<1>3. \A i \in 1..Len(w) : w[i] = sizes[Len(b) + i]
  <2> HIDE DEF w
  <2> TAKE i \in 1..Len(w)
  <2>1. CASE i \in 1..Len(v)
    BY <1>2, <2>1 DEF Follows
  <2>2. CASE i \notin 1..Len(v)
    <3>1. i = Len(v) + 1
      BY <1>1, <1>2, <2>2
    <3>2. Len(b) + i = n
      BY <1>1, <3>1
    <3> QED
      BY <1>2, <3>1, <3>2
  <2> QED
    BY <2>1, <2>2
<1> HIDE DEF w
<1>4. Follows(b, w, sizes, n)
  BY <1>1, <1>2, <1>3 DEF Follows
<1> QED
  BY <1>4 DEF w

LEMMA FollowsSplit ==
  ASSUME NEW b, NEW v, NEW sizes, NEW n \in Nat, Follows(b, v, sizes, n),
         NEW k \in 0..Len(v)
  PROVE  Follows(b \o SubSeq(v, 1, k), SubSeq(v, k + 1, Len(v)), sizes, n)
<1> DEFINE head == SubSeq(v, 1, k)
           tail == SubSeq(v, k + 1, Len(v))
           c == b \o head
<1>1. /\ b \in Seq(Symbol) /\ v \in Seq(Symbol) /\ Len(b) \in Nat /\ Len(v) \in Nat
      /\ n = Len(b) + Len(v) /\ k \in Nat /\ k <= Len(v)
      /\ \A i \in 1..Len(v) : v[i] \in Symbol
  BY SymbolSeq DEF Follows
<1>2. /\ head \in Seq(Symbol) /\ Len(head) = k
      /\ \A i \in 1..k : head[i] = v[i]
  BY <1>1, SubSeqProperties
<1>3. /\ tail \in Seq(Symbol) /\ Len(tail) = Len(v) - k
      /\ \A i \in 1..Len(v) - k : tail[i] = v[k + i]
  <2>1. \A i \in k + 1..Len(v) : v[i] \in Symbol
    BY <1>1
  <2>2. /\ tail \in Seq(Symbol)
        /\ Len(tail) = IF k + 1 <= Len(v) THEN Len(v) - (k + 1) + 1 ELSE 0
        /\ \A i \in 1..Len(v) - (k + 1) + 1 : tail[i] = v[(k + 1) + i - 1]
    BY <1>1, <2>1, SubSeqProperties
  <2> HIDE DEF tail
  <2>3. \A i \in 1..Len(v) - k : i \in 1..Len(v) - (k + 1) + 1 /\ (k + 1) + i - 1 = k + i
    BY <1>1
  <2> QED
    BY <1>1, <2>2, <2>3
<1> HIDE DEF head, tail
<1>4. /\ c \in Seq(Symbol) /\ Len(c) = Len(b) + k
      /\ \A i \in 1..Len(b) + k : c[i] = IF i <= Len(b) THEN b[i] ELSE head[i - Len(b)]
  BY <1>1, <1>2, ConcatProperties
<1> HIDE DEF c
<1>5. \A i \in 1..Len(c) : c[i] = sizes[i]
  <2> TAKE i \in 1..Len(c)
  <2>1. CASE i \in 1..Len(b)
    BY <1>1, <1>4, <2>1, SMTT(30) DEF Follows
  <2>2. CASE i \notin 1..Len(b)
    <3>1. i - Len(b) \in 1..k /\ i - Len(b) \in 1..Len(v) /\ Len(b) + (i - Len(b)) = i
      BY <1>1, <1>4, <2>2
    <3>2. c[i] = head[i - Len(b)]
      BY <1>1, <1>4, <2>2
    <3>3. v[i - Len(b)] = sizes[Len(b) + (i - Len(b))]
      BY <3>1 DEF Follows
    <3> QED
      BY <1>2, <3>1, <3>2, <3>3
  <2> QED
    BY <2>1, <2>2
<1>6. \A i \in 1..Len(tail) : tail[i] = sizes[Len(c) + i]
  <2> TAKE i \in 1..Len(tail)
  <2>1. k + i \in 1..Len(v) /\ Len(b) + (k + i) = Len(c) + i
    BY <1>1, <1>3, <1>4
  <2>2. v[k + i] = sizes[Len(b) + (k + i)]
    BY <2>1 DEF Follows
  <2> QED
    BY <1>3, <2>1, <2>2
<1>7. Follows(c, tail, sizes, n)
  BY <1>1, <1>3, <1>4, <1>5, <1>6 DEF Follows
<1> QED
  BY <1>7 DEF c, head, tail

(* What the loop that makes the chunks has after n symbols, when count are *)
(* to be read.                                                             *)
PackedTo(p, sizes, n, count) ==
  /\ p = [chunks |-> p.chunks, last |-> p.last]
  /\ \E T : p.chunks \in Seq(T)
  /\ Waiting(p.last) /\ (n > 0 => p.last # <<>>)
  /\ Follows(DeltaSizes(p.chunks, count), p.last, sizes, n)

LEMMA AddKeepsPacked ==
  ASSUME NEW p, NEW sizes, NEW n \in Nat \ {0}, NEW count \in Nat, n <= count,
         PackedTo(p, sizes, n - 1, count), sizes[n] \in Symbol
  PROVE  PackedTo(AddDeltaSize(p, sizes[n]), sizes, n, count)
<1> DEFINE x == sizes[n]
           b == DeltaSizes(p.chunks, count)
           v == p.last
<1>1. /\ v \in Seq(Symbol) /\ Len(v) \in Nat /\ b \in Seq(Symbol) /\ Len(b) \in Nat
      /\ Len(b) + Len(v) = n - 1 /\ Waiting(v) /\ Follows(b, v, sizes, n - 1)
  BY SymbolSeq DEF PackedTo, Follows
<1>2. p = [chunks |-> p.chunks, last |-> v]
  BY DEF PackedTo
<1> HIDE DEF b, v
<1>3. CASE CanAdd(v, x)
  <2> DEFINE w == Append(v, x)
             q == [chunks |-> p.chunks, last |-> w]
  <2>1. AddDeltaSize(p, x) = q
    BY <1>2, <1>3 DEF AddDeltaSize, v
  <2>2. Waiting(w) /\ Follows(b, w, sizes, n)
    BY <1>1, <1>3, CanAddWaiting, FollowsAppend
  <2>3. w # <<>>
    BY <1>1, AppendProperties, EmptySeq
  <2> HIDE DEF w
  <2>4. q.chunks = p.chunks /\ q.last = w /\ q = [chunks |-> q.chunks, last |-> q.last]
    OBVIOUS
  <2> HIDE DEF q
  <2>5. PackedTo(q, sizes, n, count)
    BY <2>2, <2>3, <2>4 DEF PackedTo, b
  <2> QED
    BY <2>1, <2>5
<1>4. CASE ~CanAdd(v, x)
  <2> DEFINE e == Emit(v)
             q == [chunks |-> Append(p.chunks, e.chunk), last |-> Append(e.rest, x)]
  <2>1. AddDeltaSize(p, x) = q
    BY <1>2, <1>4 DEF AddDeltaSize, v
  <2>2. v # <<>>
    BY <1>4, EmptySeq, Capacities DEF CanAdd
  <2>3. count - Len(b) \in Nat /\ Len(v) <= count - Len(b)
    BY <1>1
  <2>4. PICK k \in 0..Len(v) :
          /\ Symbols(e.chunk, count - Len(b)) = SubSeq(v, 1, k)
          /\ e.rest = SubSeq(v, k + 1, Len(v))
          /\ Waiting(Append(SubSeq(v, k + 1, Len(v)), x))
    BY <1>1, <1>4, <2>2, <2>3, EmitFacts
  <2> HIDE DEF e
  <2>5. PICK T : p.chunks \in Seq(T)
    BY DEF PackedTo
  <2> DEFINE U == T \cup {e.chunk}
  <2>6. p.chunks \in Seq(U) /\ e.chunk \in U
    <3>1. Len(p.chunks) \in Nat /\ \A i \in 1..Len(p.chunks) : p.chunks[i] \in U
      BY <2>5, ElementOfSeq, LenProperties
    <3> QED
      BY <2>5, <3>1
  <2> HIDE DEF U
  <2>7. Append(p.chunks, e.chunk) \in Seq(U)
    BY <2>6, AppendProperties
  <2>8. DeltaSizes(Append(p.chunks, e.chunk), count) = b \o SubSeq(v, 1, k)
    <3>1. DeltaSizes(Append(p.chunks, e.chunk), count)
            = DeltaSizes(p.chunks, count)
                \o Symbols(e.chunk, count - Len(DeltaSizes(p.chunks, count)))
      BY <2>6, ReadAppend, Zenon
    <3> QED
      BY <2>4, <3>1 DEF b
  <2>9. Follows(b \o SubSeq(v, 1, k), e.rest, sizes, n - 1)
    BY <1>1, <2>4, FollowsSplit
  <2>10. Follows(b \o SubSeq(v, 1, k), Append(e.rest, x), sizes, n)
    BY <2>9, FollowsAppend
  <2>11. Append(e.rest, x) # <<>>
    <3>1. e.rest \in Seq(Symbol) /\ x \in Symbol
      BY <2>9 DEF Follows
    <3> HIDE DEF x
    <3>2. PICK r, w : r = e.rest /\ w = Append(r, x)
      OBVIOUS
    <3>3. Len(w) = Len(r) + 1 /\ Len(r) \in Nat
      BY <3>1, <3>2, AppendProperties, LenProperties
    <3>4. Len(<<>>) = 0
      OBVIOUS
    <3>5. w # <<>>
      BY <3>3, <3>4
    <3> QED
      BY <3>2, <3>5
  <2>12. /\ q.chunks = Append(p.chunks, e.chunk) /\ q.last = Append(e.rest, x)
         /\ q = [chunks |-> q.chunks, last |-> q.last]
    OBVIOUS
  <2> HIDE DEF q
  <2>13. PackedTo(q, sizes, n, count)
    BY <2>4, <2>7, <2>8, <2>10, <2>11, <2>12 DEF PackedTo
  <2> QED
    BY <2>1, <2>13
<1> QED
  BY <1>3, <1>4

IsPacked(sizes, L, add) ==
  add = [n \in 0..L |-> IF n = 0 THEN [chunks |-> <<>>, last |-> <<>>]
                                 ELSE AddDeltaSize(add[n - 1], sizes[n])]

PackLoop(sizes, L) == CHOOSE add : IsPacked(sizes, L, add)

LEMMA PackDef ==
  ASSUME NEW sizes, NEW L \in Nat
  PROVE  IsPacked(sizes, L, PackLoop(sizes, L))
<1> DEFINE first == [chunks |-> <<>>, last |-> <<>>]
           E(g, k) == g = [n \in 0..k |-> IF n = 0 THEN first
                                         ELSE AddDeltaSize(g[n - 1], sizes[n])]
           S == {k \in 0..L : \E g : E(g, k)}
<1>1. 0 \in S
  <2>1. E([n \in 0..0 |-> first], 0)
    OBVIOUS
  <2> HIDE DEF E
  <2> QED
    BY <2>1
<1>2. ASSUME NEW k \in 1..L, k - 1 \in S PROVE k \in S
  <2>1. PICK g : E(g, k - 1)
    BY <1>2
  <2> DEFINE h == [n \in 0..k |-> IF n = k THEN AddDeltaSize(g[k - 1], sizes[k]) ELSE g[n]]
  <2>2. E(h, k)
    <3> HIDE DEF first
    <3> QED
      BY <2>1
  <2> HIDE DEF E, h
  <2> QED
    BY <2>2
<1>3. \E g : E(g, L)
  <2> HIDE DEF S
  <2>1. L \in S
    BY <1>1, <1>2, IntervalInduction
  <2> QED
    BY <2>1 DEF S
<1>4. PICK g : IsPacked(sizes, L, g)
  BY <1>3 DEF IsPacked
<1> QED
  BY <1>4 DEF PackLoop

LEMMA PackTurns ==
  ASSUME NEW sizes, NEW L \in Nat
  PROVE  /\ PackLoop(sizes, L)[0] = [chunks |-> <<>>, last |-> <<>>]
         /\ \A n \in 1..L :
              PackLoop(sizes, L)[n] = AddDeltaSize(PackLoop(sizes, L)[n - 1], sizes[n])
<1> DEFINE first == [chunks |-> <<>>, last |-> <<>>]
<1>1. PICK g : g = PackLoop(sizes, L)
  OBVIOUS
<1>2. IsPacked(sizes, L, g)
  BY <1>1, PackDef
<1>3. g = [n \in 0..L |-> IF n = 0 THEN first ELSE AddDeltaSize(g[n - 1], sizes[n])]
  BY <1>2 DEF IsPacked
<1> HIDE DEF first
<1>4. g[0] = first /\ \A n \in 1..L : g[n] = AddDeltaSize(g[n - 1], sizes[n])
  BY <1>3
<1> QED
  BY <1>1, <1>4 DEF first

LEMMA ChunksIsPack ==
  ASSUME NEW sizes
  PROVE  Chunks(sizes) = Append(PackLoop(sizes, Len(sizes))[Len(sizes)].chunks,
                                EncodeLast(PackLoop(sizes, Len(sizes))[Len(sizes)].last))
  BY DEF Chunks, PackLoop, IsPacked

(* Reading the chunks of any symbols gives the symbols back, whatever the  *)
(* capacities of the chunks: runs, chunks of one and of two bits, what a   *)
(* chunk leaves over and the padding of the last one lose and move nothing *)
(* (LastChunk and Parse of transport_feedback.cc).                         *)
THEOREM ChunksRoundTrip ==
  ASSUME NEW sizes \in Seq(Symbol), sizes # <<>>
  PROVE  DeltaSizes(Chunks(sizes), Len(sizes)) = sizes
<1>0. PICK L \in Nat : L = Len(sizes)
  BY LenProperties
<1> DEFINE g == PackLoop(sizes, L)
           S == {n \in 0..L : PackedTo(g[n], sizes, n, L)}
<1>1. L > 0 /\ \A n \in 1..L : sizes[n] \in Symbol
  BY <1>0, SymbolSeq, EmptySeq
<1>2. Chunks(sizes) = Append(g[L].chunks, EncodeLast(g[L].last))
  BY <1>0, ChunksIsPack
<1>3. /\ g[0] = [chunks |-> <<>>, last |-> <<>>]
      /\ \A n \in 1..L : g[n] = AddDeltaSize(g[n - 1], sizes[n])
  BY PackTurns
<1> HIDE DEF g
<1>4. 0 \in S
  <2>1. g[0].chunks = <<>> /\ g[0].last = <<>>
    BY <1>3
  <2>2. g[0] = [chunks |-> g[0].chunks, last |-> g[0].last]
    BY <1>3
  <2>3. <<>> \in Seq(Symbol) /\ Len(<<>>) = 0
    OBVIOUS
  <2>4. Follows(<<>>, <<>>, sizes, 0)
    BY <2>3 DEF Follows
  <2>5. Waiting(<<>>)
    BY <2>3, Capacities DEF Waiting
  <2>6. DeltaSizes(<<>>, L) = <<>>
    BY ReadNothing
  <2>7. PackedTo(g[0], sizes, 0, L)
    BY <2>1, <2>2, <2>3, <2>4, <2>5, <2>6 DEF PackedTo
  <2> QED
    BY <2>7
<1>5. ASSUME NEW n \in 1..L, n - 1 \in S PROVE n \in S
  <2>1. PackedTo(g[n - 1], sizes, n - 1, L) /\ n <= L /\ n \in Nat \ {0}
    BY <1>5
  <2>2. g[n] = AddDeltaSize(g[n - 1], sizes[n]) /\ sizes[n] \in Symbol
    BY <1>1, <1>3
  <2>3. PackedTo(AddDeltaSize(g[n - 1], sizes[n]), sizes, n, L)
    BY <2>1, <2>2, AddKeepsPacked
  <2>4. PackedTo(g[n], sizes, n, L)
    BY <2>2, <2>3
  <2> QED
    BY <2>4
<1>6. PackedTo(g[L], sizes, L, L)
  <2>1. L \in S
    <3> HIDE DEF S
    <3>1. \A n \in 1..L : n - 1 \in S => n \in S
      BY <1>5
    <3>2. \A n \in 0..L : n \in S
      BY <1>4, <3>1, IntervalInduction, Zenon
    <3> QED
      BY <3>2
  <2> QED
    BY <2>1
<1> DEFINE chunks == g[L].chunks
           v == g[L].last
           e == EncodeLast(v)
           b == DeltaSizes(chunks, L)
<1>7. /\ Waiting(v) /\ v # <<>> /\ Follows(b, v, sizes, L)
      /\ \E T : chunks \in Seq(T)
  BY <1>1, <1>6 DEF PackedTo
<1>8. PICK T : chunks \in Seq(T)
  BY <1>7
<1> HIDE DEF chunks, v
<1> DEFINE U == T \cup {e}
<1>9. chunks \in Seq(U) /\ e \in U
  <2>1. Len(chunks) \in Nat /\ \A i \in 1..Len(chunks) : chunks[i] \in U
    BY <1>8, ElementOfSeq, LenProperties
  <2> QED
    BY <1>8, <2>1
<1> HIDE DEF U, e
<1>10. DeltaSizes(Append(chunks, e), L) = b \o Symbols(e, L - Len(b))
  BY <1>9, ReadAppend, Zenon
<1> HIDE DEF b
<1>11. /\ b \in Seq(Symbol) /\ v \in Seq(Symbol) /\ Len(b) \in Nat /\ Len(v) \in Nat
       /\ L - Len(b) = Len(v) /\ Len(b) + Len(v) = L
  BY <1>7, SymbolSeq DEF Follows
<1>12. Symbols(e, L - Len(b)) = v
  BY <1>7, <1>11, EncodeLastSymbols DEF e
<1> DEFINE c == b \o v
<1>13. /\ c \in Seq(Symbol) /\ Len(c) = L
       /\ \A i \in 1..L : c[i] = IF i <= Len(b) THEN b[i] ELSE v[i - Len(b)]
  BY <1>11, ConcatProperties
<1> HIDE DEF c
<1>14. \A i \in 1..Len(c) : c[i] = sizes[i]
  <2> TAKE i \in 1..Len(c)
  <2>1. CASE i \in 1..Len(b)
    BY <1>7, <1>11, <1>13, <2>1 DEF Follows
  <2>2. CASE i \notin 1..Len(b)
    <3>1. i - Len(b) \in 1..Len(v) /\ Len(b) + (i - Len(b)) = i
      BY <1>11, <1>13, <2>2
    <3>2. c[i] = v[i - Len(b)]
      BY <1>11, <1>13, <2>2
    <3>3. v[i - Len(b)] = sizes[Len(b) + (i - Len(b))]
      BY <1>7, <3>1 DEF Follows
    <3> QED
      BY <3>1, <3>2, <3>3
  <2> QED
    BY <2>1, <2>2
<1>15. c = sizes
  BY <1>0, <1>13, <1>14, SeqEqual
<1> QED
  BY <1>0, <1>2, <1>10, <1>12, <1>15 DEF c, chunks, e, v

-----------------------------------------------------------------------------
(* What Parse reads from a message *)

LEMMA WrapOfSum ==
  ASSUME NEW a \in Int, NEW j \in Nat, NEW b \in Nat \ {0}
  PROVE  ((a % b) + j) % b = (a + j) % b
<1> DEFINE q == a \div b
           x == (a % b) + j
           p == x \div b
           r == x % b
<1>1. a % b \in Nat /\ q \in Int /\ a = b * q + (a % b)
  BY Floor
<1>2. x \in Nat /\ a + j = b * q + x
  BY <1>1
<1> HIDE DEF q, x
<1>3. p \in Int /\ r \in Nat /\ r < b /\ x = b * p + r
  BY <1>2, Floor
<1>4. x % b = r
  OBVIOUS
<1> HIDE DEF p, r
<1>5. q + p \in Int /\ b * (q + p) = b * q + b * p
  BY <1>1, <1>3
<1>6. a + j = b * (q + p) + r
  BY <1>1, <1>2, <1>3, <1>5
<1>7. (b * (q + p) + r) % b = r
  BY <1>3, <1>5, FloorIsUnique
<1> QED
  BY <1>4, <1>6, <1>7 DEF x

(* The places of a packet in what was built, and the symbols of a message. *)
Places(built, s) == {i \in DOMAIN built : built[i].seq = s}

SizesOf(from, built, deltas) ==
  [i \in 1..built[Len(built)].seq - from + 1 |->
     IF Places(built, from + i - 1) = {} THEN 0
     ELSE SizeOf(deltas[CHOOSE j \in Places(built, from + i - 1) : TRUE])]

LEMMA MessageFields ==
  ASSUME NEW from, NEW at, NEW timestamps, NEW span,
         NEW f, f = Message(from, at, timestamps, span)
  PROVE  /\ f.base = from % span /\ f.timestamps = timestamps
         /\ f.count = Len(SizesOf(from, f.built, f.deltas))
         /\ f.chunks = Chunks(SizesOf(from, f.built, f.deltas))
<1> DEFINE deltas == Deltas(at, timestamps)
           built == SubSeq(at, 1, Len(deltas))
<1>1. f = [base |-> from % span, time |-> BaseTime(at[1].time),
           count |-> Len(SizesOf(from, built, deltas)),
           chunks |-> Chunks(SizesOf(from, built, deltas)), deltas |-> deltas,
           timestamps |-> timestamps, built |-> built]
  BY DEF Message, SizesOf, Places
<1> HIDE DEF deltas, built
<1>2. f.built = built /\ f.deltas = deltas
  BY <1>1
<1> QED
  BY <1>1, <1>2

LEMMA SizeOfFacts ==
  ASSUME NEW d
  PROVE  SizeOf(d) \in {1, 2} /\ SizeOf(d) \in Symbol /\ SizeOf(d) > 0
  BY DEF SizeOf, Symbol

(* What the parts of a message are. *)
MessageParts(f, from) ==
  /\ from \in Int /\ f.base = from % SeqSpan
  /\ f.built \in Seq(Pkt) /\ DOMAIN f.built = 1..Len(f.built)
  /\ Len(f.built) \in Nat \ {0} /\ f.deltas \in Seq(Int) /\ Len(f.deltas) = Len(f.built)
  /\ \A j \in 1..Len(f.built) : f.built[j].seq \in Int /\ from <= f.built[j].seq
  /\ \A i, j \in 1..Len(f.built) : i < j => f.built[i].seq < f.built[j].seq
  /\ f.count \in Nat \ {0} /\ f.count = f.built[Len(f.built)].seq - from + 1
  /\ DeltaSizes(f.chunks, f.count) = SizesOf(from, f.built, f.deltas)
  /\ SizesOf(from, f.built, f.deltas) \in Seq(Symbol)
  /\ Len(SizesOf(from, f.built, f.deltas)) = f.count

LEMMA MessageHasParts ==
  ASSUME NEW f, IsMessage(f)
  PROVE  \E from \in Int : MessageParts(f, from)
<1>0. PICK from \in Int, timestamps \in BOOLEAN :
        \E at : Arrived(from, at) /\ f = Message(from, at, timestamps, SeqSpan)
  BY DEF IsMessage
<1>1. PICK at : Arrived(from, at) /\ f = Message(from, at, timestamps, SeqSpan)
  BY <1>0
<1>2. /\ at \in Seq(Pkt) /\ at # <<>>
      /\ \A i, j \in 1..Len(at) : i < j => at[i].seq < at[j].seq
      /\ \A i \in 1..Len(at) : from <= at[i].seq
  BY <1>1 DEF Arrived
<1>3. /\ f.deltas = Deltas(at, timestamps)
      /\ f.built \in Seq(Pkt) /\ Len(f.built) = Len(f.deltas)
      /\ Len(f.built) \in 1..Len(at) /\ DOMAIN f.built = 1..Len(f.built)
      /\ \A i \in 1..Len(f.built) : f.built[i] = at[i]
  BY <1>1, <1>2, BuiltFacts
<1>4. f.deltas \in Seq(Int)
  BY <1>2, <1>3, DeltasFacts
<1>5. Len(at) \in Nat /\ \A i \in 1..Len(at) : at[i].seq \in Int
  BY <1>2, PacketSeq
<1> DEFINE K == Len(f.built)
           s == SizesOf(from, f.built, f.deltas)
           N == f.built[K].seq - from + 1
<1>6. f.base = from % SeqSpan /\ f.count = Len(s) /\ f.chunks = Chunks(s)
  BY <1>1, MessageFields
<1>7. K \in Nat \ {0} /\ K \in 1..Len(at) /\ \A i \in 1..K : i \in 1..Len(at)
  BY <1>3, <1>5
<1>8. /\ \A j \in 1..K : f.built[j].seq \in Int /\ from <= f.built[j].seq
      /\ \A i, j \in 1..K : i < j => f.built[i].seq < f.built[j].seq
  BY <1>2, <1>3, <1>5, <1>7
<1>9. N \in Nat \ {0}
  <2>1. K \in 1..K
    BY <1>7
  <2>2. f.built[K].seq \in Int /\ from <= f.built[K].seq
    BY <1>8, <2>1
  <2> QED
    BY <2>2, SMTT(30)
<1>10. s = [i \in 1..N |-> IF Places(f.built, from + i - 1) = {} THEN 0
              ELSE SizeOf(f.deltas[CHOOSE j \in Places(f.built, from + i - 1) : TRUE])]
  BY DEF SizesOf
<1> HIDE DEF s, N
<1>11. s \in Seq(Symbol) /\ Len(s) = N
  <2>1. \A i \in 1..N :
          (IF Places(f.built, from + i - 1) = {} THEN 0
           ELSE SizeOf(f.deltas[CHOOSE j \in Places(f.built, from + i - 1) : TRUE]))
            \in Symbol
    BY SizeOfFacts DEF Symbol
  <2>2. s \in [1..N -> Symbol]
    BY <1>10, <2>1
  <2>3. s \in Seq(Symbol)
    BY <1>9, <2>2, SeqDef
  <2> QED
    BY <1>9, <2>2, <2>3, LenProperties
<1>12. s # <<>>
  BY <1>9, <1>11, EmptySeq
<1>13. DeltaSizes(f.chunks, f.count) = s
  BY <1>6, <1>11, <1>12, ChunksRoundTrip
<1> QED
  BY <1>3, <1>4, <1>6, <1>7, <1>8, <1>9, <1>11, <1>13 DEF MessageParts, s, N

SizesIn(f, from) == SizesOf(from, f.built, f.deltas)

(* The number of received packets up to the ith symbol. *)
Before(s, i) == Cardinality({x \in 1..i : s[x] > 0})

(* The nth packet that was built is the nth that is read as received. *)
LEMMA ReadInOrder ==
  ASSUME NEW f, NEW from \in Int, MessageParts(f, from), NEW j \in 1..Len(f.built),
         NEW i \in Int, f.built[j].seq = from + i - 1
  PROVE  /\ i \in 1..f.count /\ SizesIn(f, from)[i] > 0
         /\ Before(SizesIn(f, from), i) = j
<1>0. PICK s : s = SizesIn(f, from)
  OBVIOUS
<1> DEFINE K == Len(f.built)
           seq(k) == f.built[k].seq
           B == {x \in 1..i : s[x] > 0}
           g == [k \in 1..j |-> seq(k) - from + 1]
<1>1. /\ from \in Int /\ K \in Nat \ {0} /\ DOMAIN f.built = 1..K
      /\ f.count = seq(K) - from + 1
      /\ \A k \in 1..K : seq(k) \in Int /\ from <= seq(k)
      /\ \A k, l \in 1..K : k < l => seq(k) < seq(l)
  BY DEF MessageParts
<1>2. s = [x \in 1..f.count |-> IF Places(f.built, from + x - 1) = {} THEN 0
             ELSE SizeOf(f.deltas[CHOOSE y \in Places(f.built, from + x - 1) : TRUE])]
  BY <1>0, <1>1 DEF SizesOf, SizesIn
<1>3. \A x \in 1..f.count : s[x] > 0 <=> \E k \in 1..K : seq(k) = from + x - 1
  <2> TAKE x \in 1..f.count
  <2>1. Places(f.built, from + x - 1) = {} <=> ~\E k \in 1..K : seq(k) = from + x - 1
    BY <1>1 DEF Places
  <2>2. CASE Places(f.built, from + x - 1) = {}
    <3>1. s[x] = 0
      BY <1>2, <2>2
    <3> QED
      BY <2>1, <2>2, <3>1
  <2>3. CASE Places(f.built, from + x - 1) # {}
    <3>1. s[x] = SizeOf(f.deltas[CHOOSE y \in Places(f.built, from + x - 1) : TRUE])
      BY <1>2, <2>3
    <3>2. s[x] > 0
      BY <3>1, SizeOfFacts
    <3> QED
      BY <2>1, <2>3, <3>2
  <2> QED
    BY <2>2, <2>3
<1> HIDE DEF K, seq
<1>4. i = seq(j) - from + 1 /\ j \in 1..K
  <2>1. f.built[j].seq \in Int
    BY DEF MessageParts
  <2> QED
    BY <2>1 DEF seq, K
<1>5. /\ j \in Nat /\ j >= 1 /\ j <= K /\ i \in Int /\ i >= 1
      /\ \A k \in 1..j : k \in 1..K /\ seq(k) <= seq(j)
  <2>1. j \in Nat /\ j >= 1 /\ j <= K
    BY <1>1, <1>4
  <2>2. seq(j) \in Int /\ from <= seq(j)
    BY <1>1, <1>4
  <2>3. i \in Int /\ i >= 1
    BY <1>1, <1>4, <2>2
  <2>4. ASSUME NEW k \in 1..j PROVE k \in 1..K /\ seq(k) <= seq(j)
    <3>1. k \in 1..K /\ (k < j \/ k = j)
      BY <1>1, <2>1
    <3>2. seq(k) \in Int
      BY <1>1, <3>1
    <3> QED
      BY <1>1, <1>4, <2>2, <3>1, <3>2, SMTT(30)
  <2> QED
    BY <2>1, <2>3, <2>4
<1>6. seq(j) <= seq(K) /\ seq(K) \in Int /\ f.count \in Int
  <2>1. K \in 1..K /\ (j < K \/ j = K)
    BY <1>1, <1>5
  <2>2. seq(K) \in Int
    BY <1>1, <2>1
  <2>3. seq(j) <= seq(K)
    BY <1>1, <1>4, <2>1, <2>2, SMTT(30)
  <2> QED
    BY <1>1, <2>2, <2>3
<1>7. i \in 1..f.count
  BY <1>1, <1>4, <1>5, <1>6, SMTT(30)
<1>8. s[i] > 0
  BY <1>1, <1>3, <1>4, <1>7
<1>9. g \in [1..j -> B]
  <2> SUFFICES ASSUME NEW k \in 1..j PROVE seq(k) - from + 1 \in B
    OBVIOUS
  <2> DEFINE x == seq(k) - from + 1
  <2>1. x \in 1..i /\ x \in 1..f.count /\ seq(k) = from + x - 1 /\ k \in 1..K
    <3>1. k \in 1..K /\ seq(k) <= seq(j)
      BY <1>5
    <3>2. seq(k) \in Int /\ from <= seq(k) /\ seq(j) \in Int /\ from \in Int
      BY <1>1, <1>4, <3>1
    <3>3. f.count = seq(K) - from + 1
      BY <1>1
    <3> QED
      <4>1. x \in Int /\ x >= 1 /\ seq(k) = from + x - 1
        BY <3>2
      <4>2. x <= i
        BY <1>4, <3>1, <3>2
      <4>3. i <= f.count
        BY <1>4, <1>6, <3>2, <3>3, SMTT(30)
      <4> HIDE DEF x
      <4> QED
        BY <1>6, <3>1, <4>1, <4>2, <4>3
  <2>2. s[x] > 0
    BY <1>3, <2>1
  <2> QED
    BY <2>1, <2>2
<1>10. \A k, l \in 1..j : g[k] = g[l] => k = l
  <2> TAKE k, l \in 1..j
  <2> HAVE g[k] = g[l]
  <2>1. seq(k) = seq(l) /\ k \in 1..K /\ l \in 1..K
    BY <1>1, <1>5, SMTT(30)
  <2>2. ~(k < l) /\ ~(l < k)
    BY <1>1, <2>1
  <2> QED
    BY <2>2
<1>11. \A x \in B : \E k \in 1..j : g[k] = x
  <2> TAKE x \in B
  <2>1. x \in 1..i /\ x \in 1..f.count /\ s[x] > 0
    BY <1>5, <1>6, <1>7
  <2>2. PICK k \in 1..K : seq(k) = from + x - 1
    BY <1>3, <2>1
  <2>3. seq(k) <= seq(j)
    BY <1>1, <1>4, <2>1, <2>2, SMTT(30)
  <2>4. ~(j < k)
    BY <1>1, <1>4, <2>3
  <2>5. k \in 1..j
    BY <1>1, <1>5, <2>4
  <2>6. g[k] = x
    BY <1>1, <2>1, <2>2, <2>5
  <2> QED
    BY <2>5, <2>6
<1> HIDE DEF g, B
<1>12. ExistsBijection(1..j, B)
  <2>1. g \in Bijection(1..j, B)
    BY <1>9, <1>10, <1>11 DEF Bijection, Injection, Surjection, IsInjective
  <2> QED
    BY <2>1 DEF ExistsBijection
<1>13. Cardinality(B) = j
  BY <1>5, <1>12, FS_CountingElements
<1> QED
  BY <1>0, <1>7, <1>8, <1>13 DEF B, Before

LEMMA ParsedFields ==
  ASSUME NEW f, NEW from \in Int, MessageParts(f, from)
  PROVE  /\ Len(Parse(f, SeqSpan)) = f.count
         /\ \A i \in 1..f.count :
              /\ Parse(f, SeqSpan)[i].seq = (f.base + (i - 1)) % SeqSpan
              /\ Parse(f, SeqSpan)[i].received <=> SizesIn(f, from)[i] > 0
              /\ SizesIn(f, from)[i] > 0
                   => Parse(f, SeqSpan)[i].delta = f.deltas[Before(SizesIn(f, from), i)]
<1>0. PICK s, packets : s = SizesIn(f, from) /\ packets = Parse(f, SeqSpan)
  OBVIOUS
<1> DEFINE d(i) == IF s[i] > 0 THEN f.deltas[Before(s, i)] ELSE 0
           r(i) == [seq |-> (f.base + (i - 1)) % SeqSpan, received |-> s[i] > 0,
                    delta |-> d(i)]
<1>1. DeltaSizes(f.chunks, f.count) = s /\ Len(s) = f.count /\ f.count \in Nat
  BY <1>0 DEF MessageParts, SizesIn
<1>2. packets = [i \in 1..f.count |-> r(i)]
  BY <1>0, <1>1 DEF Parse, Before
<1>3. ASSUME NEW i
      PROVE  /\ r(i).seq = (f.base + (i - 1)) % SeqSpan
             /\ r(i).received <=> s[i] > 0
             /\ s[i] > 0 => r(i).delta = f.deltas[Before(s, i)]
  OBVIOUS
<1> HIDE DEF r
<1>4. packets \in Seq({r(i) : i \in 1..f.count})
  BY <1>1, <1>2, IsASeq
<1>5. Len(packets) = f.count /\ \A i \in 1..f.count : packets[i] = r(i)
  BY <1>1, <1>2, <1>4, LenProperties
<1> QED
  BY <1>0, <1>3, <1>5

(* What ParsedIsBuilt says of one message and what is read from it. *)
ReadsBack(f, packets) ==
  LET Number(i) == f.built[Len(f.built)].seq - f.count + i
  IN  /\ Len(packets) = f.count
      /\ \A i \in 1..f.count :
           /\ packets[i].seq = Number(i) % SeqSpan
           /\ packets[i].received => \E j \in DOMAIN f.built : f.built[j].seq = Number(i)
      /\ \A j \in DOMAIN f.built :
           \E i \in 1..f.count :
             /\ f.built[j].seq = Number(i)
             /\ packets[i].received /\ packets[i].delta = f.deltas[j]

LEMMA PartsReadBack ==
  ASSUME NEW f, NEW from \in Int, MessageParts(f, from)
  PROVE  ReadsBack(f, Parse(f, SeqSpan))
<1>1. PICK s, packets : s = SizesIn(f, from) /\ packets = Parse(f, SeqSpan)
  OBVIOUS
<1> DEFINE end == f.built[Len(f.built)].seq
<1>2. /\ Len(packets) = f.count
      /\ \A i \in 1..f.count : /\ packets[i].seq = (f.base + (i - 1)) % SeqSpan
                               /\ packets[i].received <=> s[i] > 0
                               /\ s[i] > 0 => packets[i].delta = f.deltas[Before(s, i)]
  BY <1>1, ParsedFields
<1>3. /\ DOMAIN f.built = 1..Len(f.built) /\ Len(f.built) \in 1..Len(f.built)
      /\ f.count \in Nat
      /\ f.base = from % SeqSpan /\ SeqSpan \in Nat \ {0}
      /\ f.count = end - from + 1
      /\ \A j \in 1..Len(f.built) : f.built[j].seq \in Int
  BY SpanAssumption DEF MessageParts
<1>4. end \in Int
  BY <1>3
<1> HIDE DEF end
<1>5. ASSUME NEW i \in Int PROVE end - f.count + i = from + (i - 1)
  BY <1>3, <1>4
<1>6. ASSUME NEW i \in 1..f.count PROVE packets[i].seq = (end - f.count + i) % SeqSpan
  <2>1. packets[i].seq = ((from % SeqSpan) + (i - 1)) % SeqSpan
    <3>1. packets[i].seq = (f.base + (i - 1)) % SeqSpan
      BY <1>2
    <3> QED
      BY <1>3, <3>1
  <2>2. i - 1 \in Nat /\ i \in Int
    BY <1>3
  <2>3. ((from % SeqSpan) + (i - 1)) % SeqSpan = (from + (i - 1)) % SeqSpan
    BY <1>3, <2>2, WrapOfSum
  <2>4. end - f.count + i = from + (i - 1)
    BY <1>5, <2>2
  <2> QED
    BY <2>1, <2>3, <2>4
<1>7. ASSUME NEW i \in 1..f.count, packets[i].received
      PROVE  \E j \in DOMAIN f.built : f.built[j].seq = end - f.count + i
  <2>1. s[i] > 0
    BY <1>2, <1>7
  <2>2. s = [x \in 1..f.count |-> IF Places(f.built, from + x - 1) = {} THEN 0
               ELSE SizeOf(f.deltas[CHOOSE y \in Places(f.built, from + x - 1) : TRUE])]
    BY <1>1, <1>3 DEF SizesOf, SizesIn, end
  <2>3. Places(f.built, from + i - 1) = {} => s[i] = 0
    BY <2>2
  <2>4. Places(f.built, from + i - 1) # {}
    BY <2>1, <2>3
  <2>5. from + i - 1 = end - f.count + i
    BY <1>3, <1>4
  <2> QED
    BY <2>4, <2>5 DEF Places
<1>8. ASSUME NEW j \in DOMAIN f.built
      PROVE  \E i \in 1..f.count :
               /\ f.built[j].seq = end - f.count + i
               /\ packets[i].received /\ packets[i].delta = f.deltas[j]
  <2>1. j \in 1..Len(f.built) /\ f.built[j].seq \in Int
    BY <1>3
  <2>2. PICK i \in Int : f.built[j].seq = from + i - 1
    <3>1. /\ f.built[j].seq - from + 1 \in Int
          /\ f.built[j].seq = from + (f.built[j].seq - from + 1) - 1
      BY <2>1
    <3> QED
      BY <3>1
  <2>3. i \in 1..f.count /\ s[i] > 0 /\ Before(s, i) = j
    BY <1>1, <2>1, <2>2, ReadInOrder
  <2>4. packets[i].received /\ packets[i].delta = f.deltas[j]
    BY <1>2, <2>3
  <2>5. f.built[j].seq = end - f.count + i
    <3>1. i \in Int /\ from + (i - 1) = f.built[j].seq
      BY <2>1, <2>2
    <3> QED
      BY <1>5, <3>1
  <2> QED
    BY <2>3, <2>4, <2>5
<1> QED
  BY <1>1, <1>2, <1>6, <1>7, <1>8 DEF end, ReadsBack

LEMMA MessageReadsBack ==
  ASSUME NEW f, IsMessage(f)
  PROVE  ReadsBack(f, Parse(f, SeqSpan))
<1>1. PICK from \in Int : MessageParts(f, from)
  BY MessageHasParts
<1> QED
  BY <1>1, PartsReadBack

(* Every message, whatever the gaps and the deltas in it and however the   *)
(* receiver came to build it, is read as the packets it was built from,    *)
(* each in its place and with its delta, over wraps of the numbers and for *)
(* every capacity of the chunks.                                           *)
THEOREM MessagesReadBack == Spec => []ParsedIsBuilt
<1>1. Init => NetInv /\ ProxyInv
  BY ProxyStart
<1>2. NetInv /\ ProxyInv /\ [Next]_vars => (NetInv /\ ProxyInv)'
  BY NetStep, ProxyStep
<1>3. ProxyInv => ParsedIsBuilt
  <2>1. SUFFICES ASSUME ProxyInv PROVE \A f \in feedback : ReadsBack(f, Parse(f, SeqSpan))
    BY SMTT(30) DEF ParsedIsBuilt, ReadsBack
  <2> QED
    BY <2>1, MessageReadsBack DEF ProxyInv
<1> QED
  BY <1>1, <1>2, <1>3, PTL DEF Spec

-----------------------------------------------------------------------------
(* The loop of ProcessTransportFeedback over the packets of a message *)

(* What one packet changes of the state a, the times apart. *)
OneMore(a, packet, b) ==
  LET s == Unwrap(a.ulast, packet.seq)
  IN  /\ b.ulast = s
      /\ b.ack = IF s > a.ack THEN s ELSE a.ack
      /\ b.flight = Without(a.flight, a.history,
                            {t \in DOMAIN a.history : a.ack < t /\ t <= s})
      /\ s \notin Sent(a.history) => b.history = a.history /\ b.told = a.told
      /\ s \in Sent(a.history) =>
           /\ b.history = Forget(a.history, s, packet.received)
           /\ a.history[s].route # route => b.told = a.told
           /\ a.history[s].route = route =>
                b.told = [a.told EXCEPT ![a.history[s].n] = Said(@, packet.received)]

LEMMA OnePacketIsOneMore ==
  ASSUME NEW a, NEW packet, NEW base, NEW times, NEW stamped
  PROVE  OneMore(a, packet, OnePacket(a, packet, base, times, stamped))
BY DEF OneMore, OnePacket

IsAfter(packets, base, times, stamped, start, L, after) ==
  after = [i \in 0..L |->
             IF i = 0 THEN start
             ELSE OnePacket(after[i - 1], packets[i], base, times, stamped)]

After(packets, base, times, stamped, start, L) ==
  CHOOSE after : IsAfter(packets, base, times, stamped, start, L, after)

LEMMA AfterDef ==
  ASSUME NEW packets, NEW base, NEW times, NEW stamped, NEW start, NEW L \in Nat
  PROVE  IsAfter(packets, base, times, stamped, start, L,
                 After(packets, base, times, stamped, start, L))
<1> DEFINE One(a, i) == OnePacket(a, packets[i], base, times, stamped)
           E(g, k) == g = [n \in 0..k |-> IF n = 0 THEN start ELSE One(g[n - 1], n)]
           S == {k \in 0..L : \E g : E(g, k)}
<1> HIDE DEF One
<1>1. 0 \in S
  <2>1. E([n \in 0..0 |-> start], 0)
    OBVIOUS
  <2> HIDE DEF E
  <2> QED
    BY <2>1
<1>2. ASSUME NEW k \in 1..L, k - 1 \in S PROVE k \in S
  <2>1. PICK g : E(g, k - 1)
    BY <1>2
  <2> DEFINE h == [n \in 0..k |-> IF n = k THEN One(g[k - 1], k) ELSE g[n]]
  <2>2. E(h, k)
    BY <2>1
  <2> HIDE DEF E, h
  <2> QED
    BY <2>2
<1>3. \E g : E(g, L)
  <2> HIDE DEF S
  <2>1. L \in S
    BY <1>1, <1>2, IntervalInduction
  <2> QED
    BY <2>1 DEF S
<1>4. PICK g : IsAfter(packets, base, times, stamped, start, L, g)
  BY <1>3 DEF One, IsAfter
<1> QED
  BY <1>4 DEF After

LEMMA AfterTurns ==
  ASSUME NEW packets, NEW base, NEW times, NEW stamped, NEW start, NEW L \in Nat
  PROVE  /\ After(packets, base, times, stamped, start, L)[0] = start
         /\ \A n \in 1..L :
              OneMore(After(packets, base, times, stamped, start, L)[n - 1], packets[n],
                      After(packets, base, times, stamped, start, L)[n])
<1>0. PICK g : g = After(packets, base, times, stamped, start, L)
  OBVIOUS
<1> DEFINE One(a, i) == OnePacket(a, packets[i], base, times, stamped)
<1>1. IsAfter(packets, base, times, stamped, start, L, g)
  BY <1>0, AfterDef
<1>2. g = [n \in 0..L |-> IF n = 0 THEN start ELSE One(g[n - 1], n)]
  BY <1>1 DEF IsAfter
<1>3. \A a, n : OneMore(a, packets[n], One(a, n))
  BY OnePacketIsOneMore
<1> HIDE DEF One
<1>4. g[0] = start /\ \A n \in 1..L : g[n] = One(g[n - 1], n)
  BY <1>2
<1> QED
  BY <1>0, <1>3, <1>4

(* The state of the adapter, as the loop has it. *)
AdapterState(oldOffset) ==
  [history |-> history, ack |-> last_ack, ulast |-> ulast, flight |-> in_flight,
   offset |-> oldOffset, missed |-> FALSE, told |-> told, skews |-> {},
   allSkews |-> {}]

LEMMA ProcessIsAfter ==
  ASSUME NEW f, NEW time, ProcessTransportFeedback(f, time)
  PROVE  \E base, times, a :
           /\ a = After(Parse(f, SeqSpan), base, times, f.timestamps, AdapterState(0),
                        Len(Parse(f, SeqSpan)))[Len(Parse(f, SeqSpan))]
           /\ history' = a.history /\ last_ack' = a.ack /\ ulast' = a.ulast
           /\ in_flight' = a.flight /\ told' = a.told /\ route' = route
<1> DEFINE times == [q \in {f.built[i].seq % SeqSpan : i \in DOMAIN f.built} |->
                  (CHOOSE p \in Range(f.built) : p.seq % SeqSpan = q).time]
           base == NewOffset(f, time)
           a == After(Parse(f, SeqSpan), base, times, f.timestamps, AdapterState(0),
                        Len(Parse(f, SeqSpan)))[Len(Parse(f, SeqSpan))]
<1>1. /\ history' = a.history /\ last_ack' = a.ack /\ ulast' = a.ulast
      /\ in_flight' = a.flight /\ told' = a.told /\ route' = route
  BY DEF ProcessTransportFeedback, After, IsAfter, AdapterState
<1> HIDE DEF base, times
<1>2. PICK a2 : a2 = a
  OBVIOUS
<1> QED
  BY <1>1, <1>2, SMTT(30)

-----------------------------------------------------------------------------
(* What the controller was told of the packets *)

Packet == [n : 1..MaxPackets, route : Route, created : Nat, sent : BOOLEAN]

(* A packet is in the history once, and not after it was told as received; *)
(* c is the number of the last packet that was created.                    *)
Told(h, t, c) ==
  /\ t \in [1..MaxPackets -> {"nothing", "lost", "received"}]
  /\ \A n \in 1..MaxPackets : n > c => t[n] = "nothing"
  /\ h \in [DOMAIN h -> Packet]
  /\ \A s \in DOMAIN h : h[s].n <= c /\ t[h[s].n] # "received"
  /\ \A s, r \in DOMAIN h : h[s].n = h[r].n => s = r

(* Packets that leave the history disturb nothing. *)
LEMMA ToldRestrict ==
  ASSUME NEW h, NEW t, NEW c, Told(h, t, c), NEW D \in SUBSET DOMAIN h
  PROVE  Told(Restrict(h, D), t, c)
<1>1. /\ DOMAIN Restrict(h, D) = D /\ \A s \in D : Restrict(h, D)[s] = h[s]
      /\ Restrict(h, D) = [s \in D |-> h[s]]
  BY DEF Restrict
<1>2. PICK k : k = Restrict(h, D)
  OBVIOUS
<1>3. k \in [DOMAIN k -> Packet]
  BY <1>1, <1>2 DEF Told
<1> QED
  BY <1>1, <1>2, <1>3 DEF Told

LEMMA ToldOneMore ==
  ASSUME NEW a, NEW packet, NEW b, OneMore(a, packet, b), NEW c \in Nat,
         Told(a.history, a.told, c)
  PROVE  Told(b.history, b.told, c)
<1> DEFINE s == Unwrap(a.ulast, packet.seq)
<1>1. CASE s \notin Sent(a.history)
  BY <1>1 DEF OneMore
<1>2. CASE s \in Sent(a.history)
  <2>0. PICK h, t, g, u : h = a.history /\ t = a.told /\ g = b.history /\ u = b.told
    OBVIOUS
  <2>1. /\ g = Forget(h, s, packet.received)
        /\ h[s].route # route => u = t
        /\ h[s].route = route => u = [t EXCEPT ![h[s].n] = Said(@, packet.received)]
    BY <1>2, <2>0 DEF OneMore
  <2>2. s \in DOMAIN h /\ Told(h, t, c)
    BY <1>2, <2>0 DEF Sent
  <2> HIDE DEF s
  <2>3. CASE h[s].route # route
    <3>1. DOMAIN h \ {s} \in SUBSET DOMAIN h
      OBVIOUS
    <3> QED
      BY <2>0, <2>1, <2>2, <2>3, <3>1, ToldRestrict DEF Forget
  <2>4. CASE h[s].route = route
    <3> DEFINE n == h[s].n
    <3>1. /\ n \in 1..MaxPackets /\ n <= c
          /\ t \in [1..MaxPackets -> {"nothing", "lost", "received"}]
          /\ t[n] \in {"nothing", "lost"}
          /\ \A r \in DOMAIN h : h[r].n = n => r = s
          /\ \A r \in DOMAIN h : h[r].n \in 1..MaxPackets
      BY <2>2 DEF Told, Packet
    <3>2. u = [t EXCEPT ![n] = Said(t[n], packet.received)]
      BY <2>1, <2>4
    <3> HIDE DEF n
    <3>3. CASE packet.received
      <4>1. u = [t EXCEPT ![n] = "received"]
        BY <3>1, <3>2, <3>3 DEF Said
      <4>2. g = Restrict(h, DOMAIN h \ {s}) /\ DOMAIN g = DOMAIN h \ {s}
            /\ \A r \in DOMAIN h \ {s} : g[r] = h[r]
        BY <2>1, <3>3 DEF Forget, Restrict
      <4>3. Told(g, t, c)
        <5>1. DOMAIN h \ {s} \in SUBSET DOMAIN h
          OBVIOUS
        <5> QED
          BY <2>2, <4>2, <5>1, ToldRestrict
      <4>4. \A r \in DOMAIN g : u[g[r].n] = t[g[r].n]
        BY <3>1, <4>1, <4>2 DEF n
      <4>5. u \in [1..MaxPackets -> {"nothing", "lost", "received"}]
        BY <3>1, <4>1
      <4>6. \A m \in 1..MaxPackets : m > c => u[m] = "nothing"
        BY <3>1, <4>1, <4>3, AdapterAssumption DEF Told
      <4> QED
        BY <2>0, <4>3, <4>4, <4>5, <4>6 DEF Told
    <3>4. CASE ~packet.received
      <4>1. u = [t EXCEPT ![n] = "lost"]
        BY <3>1, <3>2, <3>4 DEF Said
      <4>2. g = h
        BY <2>1, <3>4 DEF Forget
      <4>3. \A r \in DOMAIN h : u[h[r].n] # "received"
        BY <2>2, <3>1, <4>1 DEF Told
      <4>4. u \in [1..MaxPackets -> {"nothing", "lost", "received"}]
        BY <3>1, <4>1
      <4>5. \A m \in 1..MaxPackets : m > c => u[m] = "nothing"
        BY <2>2, <3>1, <4>1, AdapterAssumption DEF Told
      <4> QED
        BY <2>0, <2>2, <4>2, <4>3, <4>4, <4>5 DEF Told
    <3> QED
      BY <3>3, <3>4
  <2> QED
    BY <2>3, <2>4
<1> QED
  BY <1>1, <1>2

LEMMA ToldAdd ==
  ASSUME NEW h, NEW t, NEW c \in Nat, Told(h, t, c), c + 1 <= MaxPackets,
         NEW s, NEW r \in Route, NEW time \in Nat
  PROVE  Told(Inserted(h, s, [n |-> c + 1, route |-> r, created |-> time, sent |-> FALSE]),
              t, c + 1)
<1> DEFINE p == [n |-> c + 1, route |-> r, created |-> time, sent |-> FALSE]
           g == Inserted(h, s, p)
<1>1. p \in Packet /\ p.n = c + 1 /\ c + 1 \in 1..MaxPackets /\ MaxPackets \in Nat
  BY AdapterAssumption DEF Packet
<1> HIDE DEF p
<1>2. /\ DOMAIN g = DOMAIN h \cup {s}
      /\ \A x \in DOMAIN g : g[x] = IF x \in DOMAIN h THEN h[x] ELSE p
      /\ g = [x \in DOMAIN g |-> IF x \in DOMAIN h THEN h[x] ELSE p]
  BY DEF Inserted
<1> HIDE DEF g
<1>3. /\ \A x \in DOMAIN h : h[x] \in Packet /\ h[x].n \in 1..MaxPackets /\ h[x].n <= c
      /\ t[c + 1] = "nothing"
  BY <1>1 DEF Told, Packet
<1>4. g \in [DOMAIN g -> Packet]
  BY <1>1, <1>2, <1>3
<1>5. \A x \in DOMAIN g : g[x].n <= c + 1 /\ t[g[x].n] # "received"
  BY <1>1, <1>2, <1>3 DEF Told
<1>6. \A x, y \in DOMAIN g : g[x].n = g[y].n => x = y
  BY <1>1, <1>2, <1>3 DEF Told
<1>7. \A n \in 1..MaxPackets : n > c + 1 => t[n] = "nothing"
  BY <1>1 DEF Told
<1>8. Told(g, t, c + 1)
  BY <1>4, <1>5, <1>6, <1>7 DEF Told
<1> QED
  BY <1>8 DEF g, p

LEMMA ToldSent ==
  ASSUME NEW h, NEW t, NEW c, Told(h, t, c), NEW s \in DOMAIN h
  PROVE  Told([h EXCEPT ![s].sent = TRUE], t, c)
<1> DEFINE p == [h[s] EXCEPT !.sent = TRUE]
           g == [h EXCEPT ![s] = p]
<1>1. h[s] \in Packet
  BY DEF Told
<1>2. p \in Packet /\ p.n = h[s].n
  BY <1>1 DEF Packet
<1> HIDE DEF p
<1>3. /\ DOMAIN g = DOMAIN h /\ g \in [DOMAIN g -> Packet]
      /\ \A x \in DOMAIN h : g[x].n = h[x].n
  BY <1>2 DEF Told
<1>4. [h EXCEPT ![s].sent = TRUE] = g
  BY DEF p
<1> HIDE DEF g
<1>5. Told(g, t, c)
  BY <1>3 DEF Told
<1> QED
  BY <1>4, <1>5

LEMMA ToldAfter ==
  ASSUME NEW f, IsMessage(f), NEW time, ProcessTransportFeedback(f, time),
         NEW c \in Nat, Told(history, told, c)
  PROVE  Told(history', told', c) /\ route' = route
<1>1. PICK packets : packets = Parse(f, SeqSpan)
  OBVIOUS
<1>2. PICK L \in Nat : L = Len(packets)
  <2>1. PICK from \in Int : MessageParts(f, from)
    BY MessageHasParts
  <2> QED
    BY <1>1, <2>1, ParsedFields DEF MessageParts
<1>3. PICK base, times, a :
        /\ a = After(packets, base, times, f.timestamps, AdapterState(0), L)[L]
        /\ history' = a.history /\ told' = a.told /\ route' = route
  BY <1>1, <1>2, ProcessIsAfter
<1>4. PICK g : g = After(packets, base, times, f.timestamps, AdapterState(0), L)
  OBVIOUS
<1>5. g[0] = AdapterState(0) /\ \A n \in 1..L : OneMore(g[n - 1], packets[n], g[n])
  BY <1>4, AfterTurns
<1> DEFINE S == {n \in 0..L : Told(g[n].history, g[n].told, c)}
<1>6. 0 \in S
  <2>1. g[0].history = history /\ g[0].told = told
    BY <1>5 DEF AdapterState
  <2> QED
    BY <2>1
<1>7. ASSUME NEW n \in 1..L, n - 1 \in S PROVE n \in S
  <2>1. Told(g[n - 1].history, g[n - 1].told, c)
    BY <1>7
  <2>2. Told(g[n].history, g[n].told, c)
    BY <1>5, <2>1, ToldOneMore
  <2> QED
    BY <2>2
<1>8. Told(g[L].history, g[L].told, c)
  <2> HIDE DEF S
  <2>1. \A n \in 0..L : n \in S
    BY <1>6, <1>7, IntervalInduction, Zenon
  <2>2. L \in S
    BY <2>1
  <2> QED
    BY <2>2 DEF S
<1> QED
  BY <1>3, <1>4, <1>8

ToldInv == route \in Route /\ Told(history, told, created)

LEMMA ToldStep ==
  ASSUME NetInv, ProxyInv, ToldInv, [Next]_vars
  PROVE  ToldInv'
<1>0. created \in Nat /\ MaxPackets \in Nat /\ SenderTime \in Nat
  BY AdapterAssumption DEF NetInv
<1>1. CASE SendPacket
  <2> DEFINE s == Unwrap(ulast, Wire(created'))
             D == DOMAIN history \ Expired(history, SenderTime)
             k == Restrict(history, D)
             p == [n |-> created + 1, route |-> route, created |-> SenderTime, sent |-> FALSE]
  <2>1. /\ created' = created + 1 /\ told' = told /\ route' = route
        /\ history' = Inserted(k, s, p)
    BY <1>1 DEF SendPacket, AdapterAddPacket
  <2>2. created + 1 <= MaxPackets
    BY <1>0, <1>1, FeedbackAssumption DEF SendPacket, NetInv
  <2>3. D \in SUBSET DOMAIN history
    OBVIOUS
  <2> HIDE DEF D, s
  <2>4. Told(k, told, created)
    BY <2>3, ToldRestrict DEF ToldInv
  <2> HIDE DEF k
  <2>5. Told(Inserted(k, s, p), told, created + 1)
    BY <1>0, <2>2, <2>4, ToldAdd DEF ToldInv
  <2> HIDE DEF p
  <2> QED
    BY <2>1, <2>5 DEF ToldInv
<1>2. CASE SendFeedback
  BY <1>2 DEF SendFeedback, ToldInv, adapterVars, netVars
<1>3. CASE ChangeRoute
  BY <1>3 DEF ChangeRoute, SetNetworkRoute, ToldInv
<1>4. CASE ChangeMode
  BY <1>4 DEF ChangeMode, ToldInv, adapterVars
<1>5. CASE Tick
  BY <1>5 DEF Tick, ToldInv, adapterVars
<1>6. ASSUME NEW n \in 1..MaxPackets, OnSentPacket(n) PROVE ToldInv'
  <2> DEFINE s == Unwrap(ulast, Wire(n))
  <2>1. /\ created' = created /\ told' = told /\ route' = route
        /\ \/ s \in DOMAIN history /\ history' = [history EXCEPT ![s].sent = TRUE]
           \/ history' = history
    BY <1>6 DEF OnSentPacket, ProcessSentPacket
  <2> HIDE DEF s
  <2>2. CASE s \in DOMAIN history /\ history' = [history EXCEPT ![s].sent = TRUE]
    <3>1. Told([history EXCEPT ![s].sent = TRUE], told, created)
      BY <2>2, ToldSent DEF ToldInv
    <3> QED
      BY <2>1, <2>2, <3>1 DEF ToldInv
  <2>3. CASE history' = history
    BY <2>1, <2>3 DEF ToldInv
  <2> QED
    BY <2>1, <2>2, <2>3
<1>7. ASSUME NEW n \in 1..MaxPackets, Deliver(n) PROVE ToldInv'
  BY <1>7 DEF Deliver, ToldInv, adapterVars
<1>8. ASSUME NEW f \in feedback, DeliverFeedback(f) PROVE ToldInv'
  <2>1. IsMessage(f) /\ ProcessTransportFeedback(f, SenderTime) /\ created' = created
    BY <1>8 DEF ProxyInv, DeliverFeedback
  <2>2. Told(history', told', created) /\ route' = route
    BY <1>0, <2>1, ToldAfter DEF ToldInv
  <2> QED
    BY <2>1, <2>2 DEF ToldInv
<1>9. CASE UNCHANGED vars
  BY <1>9 DEF vars, adapterVars, netVars, ToldInv
<1> QED
  BY <1>1, <1>2, <1>3, <1>4, <1>5, <1>6, <1>7, <1>8, <1>9 DEF Next

LEMMA ToldStart ==
  ASSUME Init
  PROVE  ToldInv
<1>1. (CHOOSE r \in Route : TRUE) \in Route
  BY AdapterAssumption
<1>2. /\ route \in Route /\ history = <<>> /\ created = 0
      /\ told = [n \in 1..MaxPackets |-> "nothing"]
  BY <1>1 DEF Init, AdapterInit
<1> QED
  BY <1>2 DEF ToldInv, Told

(* Whatever feedback is lost, repeated, late or overlapping, whatever the  *)
(* order of sent notices and route changes, and although the unwrapped     *)
(* number may be of another packet when a message is very old, no packet   *)
(* is reported to the controller again after it was reported received: the *)
(* history holds each packet under one number, and it goes from there with *)
(* that report.                                                            *)
THEOREM NothingIsToldTwice == Spec => []ReceivedIsToldOnce
<1>1. Init => NetInv /\ ProxyInv /\ ToldInv
  BY ProxyStart, ToldStart
<1>2. NetInv /\ ProxyInv /\ ToldInv /\ [Next]_vars => (NetInv /\ ProxyInv /\ ToldInv)'
  BY NetStep, ProxyStep, ToldStep
<1>3. ToldInv => ReceivedIsToldOnce
  BY DEF ToldInv, Told, ReceivedIsToldOnce
<1> QED
  BY <1>1, <1>2, <1>3, PTL DEF Spec

-----------------------------------------------------------------------------
(* Sums over finite sets *)

(* A finite set is in P if P has every subset all of whose smaller subsets *)
(* are in P.                                                               *)
LEMMA SubsetInduction ==
  ASSUME NEW S, IsFiniteSet(S), NEW P,
         \A T \in SUBSET S : (\A x \in T : T \ {x} \in P) => T \in P
  PROVE  S \in P
<1> DEFINE Q == {n \in 0..Cardinality(S) :
                   \A T \in SUBSET S : Cardinality(T) = n => T \in P}
<1>0. Cardinality(S) \in Nat
  BY FS_CardinalityType
<1>1. \A T \in SUBSET S : IsFiniteSet(T)
  BY FS_Subset
<1>2. 0 \in Q
  <2>1. ASSUME NEW T \in SUBSET S, Cardinality(T) = 0 PROVE T \in P
    <3>1. T = {}
      BY <1>1, <2>1, FS_EmptySet
    <3> QED
      BY <3>1
  <2> QED
    BY <1>0, <2>1
<1>3. ASSUME NEW n \in 1..Cardinality(S), n - 1 \in Q PROVE n \in Q
  <2>1. ASSUME NEW T \in SUBSET S, Cardinality(T) = n PROVE T \in P
    <3>1. ASSUME NEW x \in T PROVE T \ {x} \in P
      <4>1. Cardinality(T \ {x}) = n - 1 /\ T \ {x} \in SUBSET S
        BY <1>1, <2>1, FS_RemoveElement
      <4> QED
        BY <1>3, <4>1
    <3> QED
      BY <3>1
  <2> QED
    BY <1>0, <2>1
<1>4. \A n \in 0..Cardinality(S) : n \in Q
  <2> HIDE DEF Q
  <2> QED
    BY <1>0, <1>2, <1>3, IntervalInduction, Zenon
<1>5. Cardinality(S) \in Q
  <2> HIDE DEF Q
  <2> QED
    BY <1>0, <1>4
<1> QED
  BY <1>5

Weight(h, x) == Size[h[x].n]

IsTotal(h, S, g) ==
  g = [s \in SUBSET S |->
         IF s = {} THEN 0
         ELSE Size[h[CHOOSE x \in s : TRUE].n] + g[s \ {CHOOSE x \in s : TRUE}]]

Total(h, S) == CHOOSE g : IsTotal(h, S, g)

LEMMA BytesIsTotal ==
  ASSUME NEW h, NEW S
  PROVE  Bytes(h, S) = Total(h, S)[S]
BY DEF Bytes, MapThenSumSet, MapThenFoldSet, Total, IsTotal

LEMMA TotalDef ==
  ASSUME NEW h, NEW S, IsFiniteSet(S)
  PROVE  IsTotal(h, S, Total(h, S))
<1> DEFINE c(s) == CHOOSE x \in s : TRUE
           Step(g, s) == IF s = {} THEN 0 ELSE Weight(h, c(s)) + g[s \ {c(s)}]
           N == Cardinality(S)
           E(g, k) == \A s \in SUBSET S : Cardinality(s) <= k => g[s] = Step(g, s)
           K == {k \in 0..N : \E g : E(g, k)}
<1>0. N \in Nat
  BY FS_CardinalityType
<1>1. \A s \in SUBSET S : IsFiniteSet(s) /\ Cardinality(s) \in Nat /\ Cardinality(s) <= N
  BY FS_Subset, FS_CardinalityType
<1>2. ASSUME NEW s \in SUBSET S, s # {}
      PROVE  s \ {c(s)} \in SUBSET S /\ Cardinality(s \ {c(s)}) = Cardinality(s) - 1
  <2>1. c(s) \in s
    BY <1>2
  <2> HIDE DEF c
  <2> QED
    BY <1>1, <2>1, FS_RemoveElement
<1> HIDE DEF c, N
<1>3. 0 \in K
  <2>1. E([s \in SUBSET S |-> 0], 0)
    <3>1. \A s \in SUBSET S : Cardinality(s) <= 0 => s = {}
      BY <1>1, FS_EmptySet
    <3> QED
      BY <3>1
  <2> HIDE DEF E
  <2> QED
    BY <1>0, <2>1
<1>4. ASSUME NEW k \in 1..N, k - 1 \in K PROVE k \in K
  <2>1. PICK g : E(g, k - 1)
    BY <1>4
  <2> DEFINE f == [s \in SUBSET S |-> IF Cardinality(s) <= k - 1 THEN g[s] ELSE Step(g, s)]
  <2>2. ASSUME NEW s \in SUBSET S, Cardinality(s) <= k PROVE f[s] = Step(f, s)
    <3>1. f[s] = Step(g, s)
      BY <2>1
    <3>2. CASE s = {}
      BY <3>1, <3>2
    <3>3. CASE s # {}
      <4>1. s \ {c(s)} \in SUBSET S /\ Cardinality(s \ {c(s)}) = Cardinality(s) - 1
        BY <1>2, <3>3
      <4>2. Cardinality(s \ {c(s)}) <= k - 1
        BY <1>0, <1>1, <2>2, <4>1
      <4>3. f[s \ {c(s)}] = g[s \ {c(s)}]
        BY <4>1, <4>2
      <4> QED
        BY <3>1, <4>3
    <3> QED
      BY <3>2, <3>3
  <2>3. E(f, k)
    BY <2>2
  <2> HIDE DEF E, f
  <2> QED
    BY <2>3
<1>5. PICK g : E(g, N)
  <2> HIDE DEF K
  <2>1. \A k \in 0..N : k \in K
    BY <1>0, <1>3, <1>4, IntervalInduction, Zenon
  <2>2. N \in K
    BY <1>0, <2>1
  <2> QED
    BY <2>2 DEF K
<1> DEFINE f == [s \in SUBSET S |-> g[s]]
<1>6. ASSUME NEW s \in SUBSET S PROVE f[s] = Step(f, s)
  <2>1. f[s] = Step(g, s)
    BY <1>1, <1>5
  <2>2. s # {} => f[s \ {c(s)}] = g[s \ {c(s)}]
    BY <1>2
  <2> QED
    BY <2>1, <2>2
<1>7. f = [s \in SUBSET S |-> Step(f, s)]
  <2>1. f = [s \in SUBSET S |-> f[s]]
    OBVIOUS
  <2> HIDE DEF f, Step
  <2> QED
    BY <1>6, <2>1
<1> HIDE DEF f
<1>8. IsTotal(h, S, f)
  BY <1>7 DEF IsTotal, Weight, c
<1> QED
  BY <1>8 DEF Total

(* The values of the function that MapThenSumSet makes. *)
Adds(h, S, g) ==
  /\ g[{}] = 0
  /\ \A s \in SUBSET S :
       s # {} => g[s] = Weight(h, CHOOSE x \in s : TRUE) + g[s \ {CHOOSE x \in s : TRUE}]

LEMMA TotalTurns ==
  ASSUME NEW h, NEW S, IsFiniteSet(S)
  PROVE  Adds(h, S, Total(h, S))
<1>1. PICK g : g = Total(h, S)
  OBVIOUS
<1>2. IsTotal(h, S, g)
  BY <1>1, TotalDef
<1> DEFINE Step(s) == IF s = {} THEN 0
                      ELSE Weight(h, CHOOSE x \in s : TRUE) + g[s \ {CHOOSE x \in s : TRUE}]
<1>3. g = [s \in SUBSET S |-> Step(s)]
  BY <1>2 DEF IsTotal, Weight
<1>4. \A s \in SUBSET S : g[s] = Step(s)
  <2> HIDE DEF Step
  <2> QED
    BY <1>3
<1> QED
  BY <1>1, <1>4 DEF Adds

(* The sum over a subset does not depend on the set it is a subset of. *)
LEMMA TotalOfSubset ==
  ASSUME NEW h, NEW S, IsFiniteSet(S), NEW T \in SUBSET S
  PROVE  Total(h, S)[T] = Bytes(h, T)
<1>1. PICK g, k : g = Total(h, S) /\ k = Total(h, T)
  OBVIOUS
<1>2. IsFiniteSet(T)
  BY FS_Subset
<1> DEFINE c(s) == CHOOSE x \in s : TRUE
<1>3. /\ g[{}] = 0 /\ k[{}] = 0
      /\ \A s \in SUBSET T : s # {} =>
           /\ g[s] = Weight(h, c(s)) + g[s \ {c(s)}]
           /\ k[s] = Weight(h, c(s)) + k[s \ {c(s)}]
           /\ c(s) \in s
  <2>1. \A s \in SUBSET T : s \in SUBSET S
    OBVIOUS
  <2>2. g[{}] = 0 /\ \A s \in SUBSET S : s # {} => g[s] = Weight(h, c(s)) + g[s \ {c(s)}]
    <3>1. Adds(h, S, g)
      BY <1>1, TotalTurns
    <3> QED
      BY <3>1 DEF Adds
  <2>3. k[{}] = 0 /\ \A s \in SUBSET T : s # {} => k[s] = Weight(h, c(s)) + k[s \ {c(s)}]
    <3>1. Adds(h, T, k)
      BY <1>1, <1>2, TotalTurns
    <3> QED
      BY <3>1 DEF Adds
  <2> QED
    BY <2>1, <2>2, <2>3
<1> DEFINE P == {s \in SUBSET T : g[s] = k[s]}
<1> HIDE DEF c
<1>4. ASSUME NEW s \in SUBSET T, \A x \in s : s \ {x} \in P PROVE s \in P
  BY <1>3, <1>4
<1>5. T \in P
  <2> HIDE DEF P
  <2> QED
    BY <1>2, <1>4, SubsetInduction
<1> QED
  BY <1>1, <1>5, BytesIsTotal

LEMMA BytesTurns ==
  ASSUME NEW h, NEW S, IsFiniteSet(S), NEW T \in SUBSET S, T # {}
  PROVE  \E x \in T : Bytes(h, T) = Weight(h, x) + Bytes(h, T \ {x})
<1>1. PICK x : x = CHOOSE y \in T : TRUE
  OBVIOUS
<1>2. x \in T
  BY <1>1
<1>3. IsFiniteSet(T) /\ T \in SUBSET T /\ T \ {x} \in SUBSET T
  BY FS_Subset
<1>4. Total(h, T)[T] = Weight(h, x) + Total(h, T)[T \ {x}]
  BY <1>1, <1>3, TotalTurns DEF Adds
<1>5. Total(h, T)[T] = Bytes(h, T) /\ Total(h, T)[T \ {x}] = Bytes(h, T \ {x})
  BY <1>3, TotalOfSubset
<1> QED
  BY <1>2, <1>4, <1>5

LEMMA BytesOfNothing ==
  ASSUME NEW h
  PROVE  Bytes(h, {}) = 0
  BY FS_EmptySet, TotalTurns, BytesIsTotal DEF Adds

(* The sizes of the packets of S are numbers. *)
Weighs(h, S) == IsFiniteSet(S) /\ \A x \in S : Weight(h, x) \in Nat

LEMMA WeighsSubset ==
  ASSUME NEW h, NEW S, Weighs(h, S), NEW T \in SUBSET S
  PROVE  Weighs(h, T)
  BY FS_Subset DEF Weighs

LEMMA BytesIsNat ==
  ASSUME NEW h, NEW S, Weighs(h, S)
  PROVE  Bytes(h, S) \in Nat
<1> DEFINE P == {T \in SUBSET S : Bytes(h, T) \in Nat}
<1>0. IsFiniteSet(S) /\ \A x \in S : Weight(h, x) \in Nat
  BY DEF Weighs
<1>1. ASSUME NEW T \in SUBSET S, \A x \in T : T \ {x} \in P PROVE T \in P
  <2>1. CASE T = {}
    BY <2>1, BytesOfNothing
  <2>2. CASE T # {}
    <3>1. PICK x \in T : Bytes(h, T) = Weight(h, x) + Bytes(h, T \ {x})
      BY <1>0, <2>2, BytesTurns
    <3> QED
      BY <1>0, <1>1, <3>1
  <2> QED
    BY <2>1, <2>2
<1>2. S \in P
  <2> HIDE DEF P
  <2> QED
    BY <1>0, <1>1, SubsetInduction
<1> QED
  BY <1>2

(* Any packet may be taken out first. *)
LEMMA BytesRemove ==
  ASSUME NEW h, NEW S, Weighs(h, S), NEW x \in S
  PROVE  Bytes(h, S) = Weight(h, x) + Bytes(h, S \ {x})
<1> DEFINE P == {T \in SUBSET S : \A y \in T : Bytes(h, T) = Weight(h, y) + Bytes(h, T \ {y})}
<1>0. IsFiniteSet(S) /\ \A y \in S : Weight(h, y) \in Nat
  BY DEF Weighs
<1>1. \A T \in SUBSET S : Bytes(h, T) \in Nat
  BY WeighsSubset, BytesIsNat
<1>2. ASSUME NEW T \in SUBSET S, \A y \in T : T \ {y} \in P PROVE T \in P
  <2>1. ASSUME NEW y \in T PROVE Bytes(h, T) = Weight(h, y) + Bytes(h, T \ {y})
    <3>1. PICK z \in T : Bytes(h, T) = Weight(h, z) + Bytes(h, T \ {z})
      BY <1>0, <2>1, BytesTurns
    <3>2. CASE z = y
      BY <3>1, <3>2
    <3>3. CASE z # y
      <4>1. Bytes(h, T \ {z}) = Weight(h, y) + Bytes(h, (T \ {z}) \ {y})
        BY <1>2, <2>1, <3>3
      <4>2. Bytes(h, T \ {y}) = Weight(h, z) + Bytes(h, (T \ {y}) \ {z})
        BY <1>2, <2>1, <3>3
      <4>3. (T \ {z}) \ {y} = (T \ {y}) \ {z}
        OBVIOUS
      <4>4. PICK b \in Nat : b = Bytes(h, (T \ {y}) \ {z})
        <5>1. (T \ {y}) \ {z} \in SUBSET S
          OBVIOUS
        <5> QED
          BY <1>1, <5>1
      <4>5. Weight(h, y) \in Nat /\ Weight(h, z) \in Nat
        BY <1>0
      <4>6. Bytes(h, T \ {z}) = Weight(h, y) + b
        BY <4>1, <4>3, <4>4
      <4>7. Bytes(h, T \ {y}) = Weight(h, z) + b
        BY <4>2, <4>4
      <4> QED
        BY <3>1, <4>4, <4>5, <4>6, <4>7
    <3> QED
      BY <3>2, <3>3
  <2> QED
    BY <2>1
<1>3. S \in P
  <2> HIDE DEF P
  <2> QED
    BY <1>0, <1>2, SubsetInduction
<1> QED
  BY <1>3

LEMMA BytesInsert ==
  ASSUME NEW h, NEW S, NEW x, x \notin S, Weighs(h, S \cup {x})
  PROVE  Bytes(h, S \cup {x}) = Weight(h, x) + Bytes(h, S)
<1>1. (S \cup {x}) \ {x} = S /\ x \in S \cup {x}
  OBVIOUS
<1>2. Bytes(h, S \cup {x}) = Weight(h, x) + Bytes(h, (S \cup {x}) \ {x})
  BY <1>1, BytesRemove
<1> QED
  BY <1>1, <1>2

LEMMA BytesSplit ==
  ASSUME NEW h, NEW S, Weighs(h, S), NEW T \in SUBSET S
  PROVE  Bytes(h, S) = Bytes(h, T) + Bytes(h, S \ T)
<1> DEFINE P == {U \in SUBSET T : Bytes(h, S) = Bytes(h, U) + Bytes(h, S \ U)}
<1>0. IsFiniteSet(T) /\ \A y \in S : Weight(h, y) \in Nat
  BY FS_Subset DEF Weighs
<1>1. \A U \in SUBSET S : Weighs(h, U) /\ Bytes(h, U) \in Nat
  BY WeighsSubset, BytesIsNat
<1>2. ASSUME NEW U \in SUBSET T, \A y \in U : U \ {y} \in P PROVE U \in P
  <2>1. CASE U = {}
    <3>1. S \ U = S /\ Bytes(h, U) = 0 /\ Bytes(h, S) \in Nat
      BY <1>1, <2>1, BytesOfNothing
    <3> QED
      BY <3>1
  <2>2. CASE U # {}
    <3>1. PICK y \in U : TRUE
      BY <2>2
    <3>2. Bytes(h, S) = Bytes(h, U \ {y}) + Bytes(h, S \ (U \ {y}))
      BY <1>2, <3>1
    <3>3. Bytes(h, U) = Weight(h, y) + Bytes(h, U \ {y})
      BY <1>1, <3>1, BytesRemove
    <3>4. Bytes(h, S \ (U \ {y})) = Weight(h, y) + Bytes(h, S \ U)
      <4>1. S \ (U \ {y}) \in SUBSET S /\ y \in S \ (U \ {y})
        OBVIOUS
      <4>2. (S \ (U \ {y})) \ {y} = S \ U
        OBVIOUS
      <4>3. Weighs(h, S \ (U \ {y}))
        BY <1>1, <4>1
      <4>4. Bytes(h, S \ (U \ {y})) = Weight(h, y) + Bytes(h, (S \ (U \ {y})) \ {y})
        BY <4>1, <4>3, BytesRemove
      <4> QED
        BY <4>2, <4>4
    <3>5. Bytes(h, U \ {y}) \in Nat /\ Bytes(h, S \ U) \in Nat /\ Weight(h, y) \in Nat
      BY <1>0, <1>1
    <3> QED
      BY <3>2, <3>3, <3>4, <3>5
  <2> QED
    BY <2>1, <2>2
<1>3. T \in P
  <2> HIDE DEF P
  <2> QED
    BY <1>0, <1>2, SubsetInduction
<1> QED
  BY <1>3

(* Only the packets of S count. *)
LEMMA BytesSame ==
  ASSUME NEW h, NEW k, NEW S, Weighs(h, S), \A x \in S : k[x].n = h[x].n
  PROVE  Bytes(k, S) = Bytes(h, S)
<1> DEFINE P == {T \in SUBSET S : Bytes(k, T) = Bytes(h, T)}
<1>0. IsFiniteSet(S) /\ \A x \in S : Weight(k, x) = Weight(h, x)
  BY DEF Weighs, Weight
<1>1. ASSUME NEW T \in SUBSET S, \A x \in T : T \ {x} \in P PROVE T \in P
  <2>1. CASE T = {}
    BY <2>1, BytesOfNothing
  <2>2. CASE T # {}
    <3>1. PICK x \in T : Bytes(k, T) = Weight(k, x) + Bytes(k, T \ {x})
      BY <1>0, <2>2, BytesTurns
    <3>2. Bytes(h, T) = Weight(h, x) + Bytes(h, T \ {x})
      <4>1. Weighs(h, T)
        BY WeighsSubset
      <4> QED
        BY <4>1, BytesRemove
    <3> QED
      BY <1>0, <1>1, <3>1, <3>2
  <2> QED
    BY <2>1, <2>2
<1>2. S \in P
  <2> HIDE DEF P
  <2> QED
    BY <1>0, <1>1, SubsetInduction
<1> QED
  BY <1>2

-----------------------------------------------------------------------------
(* The bytes in flight *)

Numbered(h) == h \in [DOMAIN h -> Packet] /\ DOMAIN h \subseteq Int /\ IsFiniteSet(DOMAIN h)

(* The packets that are in flight on the route x. *)
Outstanding(h, ack, x) == {s \in Unacked(h, ack) : h[s].route = x}

Flight(h, ack, flight) == flight = [x \in Route |-> Bytes(h, Outstanding(h, ack, x))]

LEMMA UnwrapIsInt ==
  ASSUME NEW last \in Int \cup {None}, NEW value \in Int
  PROVE  Unwrap(last, value) \in Int
<1>1. \A a \in Int : a % SeqSpan \in Int
  BY SpanAssumption
<1>2. SeqSpan \in Int
  BY SpanAssumption
<1> QED
  BY <1>1, <1>2 DEF Unwrap

LEMMA HistoryWeighs ==
  ASSUME NEW h, Numbered(h), NEW T \in SUBSET DOMAIN h
  PROVE  Weighs(h, T)
<1>1. IsFiniteSet(T)
  BY FS_Subset DEF Numbered
<1>2. \A x \in T : h[x].n \in 1..MaxPackets
  BY DEF Numbered, Packet
<1> QED
  BY <1>1, <1>2, AdapterAssumption DEF Weighs, Weight

(* The packets in flight are the same and so are their bytes. *)
LEMMA SameFlight ==
  ASSUME NEW h, NEW ack, NEW flight, Numbered(h), Flight(h, ack, flight), NEW g, NEW now2,
         \A x \in Route : Outstanding(g, now2, x) = Outstanding(h, ack, x),
         \A s \in Unacked(h, ack) : g[s].n = h[s].n
  PROVE  Flight(g, now2, flight)
<1>1. ASSUME NEW x \in Route
      PROVE  Bytes(g, Outstanding(g, now2, x)) = Bytes(h, Outstanding(h, ack, x))
  <2>1. Outstanding(h, ack, x) \in SUBSET DOMAIN h
        /\ \A s \in Outstanding(h, ack, x) : g[s].n = h[s].n
    BY DEF Outstanding, Unacked, Sent
  <2>2. Weighs(h, Outstanding(h, ack, x))
    BY <2>1, HistoryWeighs
  <2>3. Bytes(g, Outstanding(h, ack, x)) = Bytes(h, Outstanding(h, ack, x))
    BY <2>1, <2>2, BytesSame
  <2> QED
    BY <2>3
<1> QED
  BY <1>1 DEF Flight

(* RemoveInFlightPacketBytes of packets that feedback has not passed. *)
LEMMA WithoutFacts ==
  ASSUME NEW h, NEW ack, NEW flight, Numbered(h), Flight(h, ack, flight),
         NEW Q \in SUBSET DOMAIN h, \A s \in Q : s > ack, NEW x \in Route
  PROVE  Without(flight, h, Q)[x] = Bytes(h, Outstanding(h, ack, x) \ Q)
<1> DEFINE O == Outstanding(h, ack, x)
           R == {s \in Q \cap Sent(h) : h[s].route = x}
<1>1. R = O \cap Q /\ O \in SUBSET DOMAIN h
  BY DEF Outstanding, Unacked, Sent
<1>2. Without(flight, h, Q)[x] = flight[x] - Bytes(h, R)
  BY DEF Without
<1>3. flight[x] = Bytes(h, O)
  BY DEF Flight
<1> HIDE DEF O, R
<1>4. Weighs(h, O)
  BY <1>1, HistoryWeighs
<1>5. R \in SUBSET O /\ O \ R = O \ Q
  BY <1>1
<1>6. Bytes(h, O) = Bytes(h, R) + Bytes(h, O \ R)
  BY <1>4, <1>5, BytesSplit
<1>7. Bytes(h, R) \in Nat /\ Bytes(h, O \ R) \in Nat
  <2>1. Weighs(h, R) /\ Weighs(h, O \ R)
    BY <1>4, <1>5, WeighsSubset
  <2> QED
    BY <2>1, BytesIsNat
<1>8. Without(flight, h, Q)[x] = Bytes(h, O \ R)
  <2>1. PICK m, n : m = Bytes(h, R) /\ n = Bytes(h, O \ R)
    OBVIOUS
  <2>2. m \in Nat /\ n \in Nat /\ Without(flight, h, Q)[x] = (m + n) - m
    BY <1>2, <1>3, <1>6, <1>7, <2>1
  <2> QED
    BY <2>1, <2>2
<1> QED
  BY <1>5, <1>8 DEF O

LEMMA NumberedRestrict ==
  ASSUME NEW h, Numbered(h), NEW D \in SUBSET DOMAIN h
  PROVE  /\ Numbered(Restrict(h, D)) /\ DOMAIN Restrict(h, D) = D
         /\ \A s \in D : Restrict(h, D)[s] = h[s]
<1>1. /\ DOMAIN Restrict(h, D) = D /\ \A s \in D : Restrict(h, D)[s] = h[s]
      /\ Restrict(h, D) = [s \in D |-> h[s]]
  BY DEF Restrict
<1>2. IsFiniteSet(D) /\ D \subseteq Int
  BY FS_Subset DEF Numbered
<1>3. PICK k : k = Restrict(h, D)
  OBVIOUS
<1>4. k \in [DOMAIN k -> Packet]
  BY <1>1, <1>3 DEF Numbered
<1> QED
  BY <1>1, <1>2, <1>3, <1>4 DEF Numbered

(* The part of the state of the loop that the bytes in flight are about. *)
Counted(a) ==
  /\ Numbered(a.history) /\ a.ack \in Int /\ a.ulast \in Int \cup {None}
  /\ Flight(a.history, a.ack, a.flight)

LEMMA CountedOneMore ==
  ASSUME NEW a, NEW packet, NEW b, OneMore(a, packet, b), packet.seq \in Int, Counted(a)
  PROVE  Counted(b)
<1>0. PICK h, ack, flight, s :
        /\ h = a.history /\ ack = a.ack /\ flight = a.flight
        /\ s = Unwrap(a.ulast, packet.seq)
  OBVIOUS
<1> DEFINE Q == {t \in DOMAIN h : ack < t /\ t <= s}
           top == IF s > ack THEN s ELSE ack
           left == Without(flight, h, Q)
<1>1. s \in Int /\ ack \in Int /\ Numbered(h) /\ Flight(h, ack, flight)
  BY <1>0, UnwrapIsInt DEF Counted
<1>2. b.ulast = s /\ b.ack = top /\ b.flight = left
  BY <1>0 DEF OneMore
<1>3. b.history = h \/ b.history = Restrict(h, DOMAIN h \ {s})
  BY <1>0 DEF OneMore, Forget
<1>4. top \in Int /\ s <= top /\ ack <= top
  BY <1>1
<1>5. Q \in SUBSET DOMAIN h /\ \A t \in Q : t > ack
  BY <1>1 DEF Numbered
<1>6. \A x : Outstanding(h, ack, x) \ Q = Outstanding(h, top, x)
  BY <1>1 DEF Outstanding, Unacked, Sent, Numbered
<1> HIDE DEF top, Q
<1>7. Flight(h, top, left)
  <2>1. left = [x \in Route |-> left[x]]
    BY DEF Without
  <2>2. \A x \in Route : left[x] = Bytes(h, Outstanding(h, ack, x) \ Q)
    BY <1>1, <1>5, WithoutFacts
  <2> HIDE DEF left
  <2>3. \A x \in Route : left[x] = Bytes(h, Outstanding(h, top, x))
    BY <1>6, <2>2
  <2> QED
    BY <2>1, <2>3 DEF Flight
<1> HIDE DEF left
<1>8. CASE b.history = h
  BY <1>1, <1>2, <1>4, <1>7, <1>8 DEF Counted
<1>9. CASE b.history = Restrict(h, DOMAIN h \ {s})
  <2> DEFINE g == Restrict(h, DOMAIN h \ {s})
  <2>1. Numbered(g) /\ DOMAIN g = DOMAIN h \ {s} /\ \A t \in DOMAIN h \ {s} : g[t] = h[t]
    BY <1>1, NumberedRestrict
  <2> HIDE DEF g
  <2>2. s \notin Unacked(h, top)
    BY <1>1, <1>4 DEF Unacked
  <2>3. Unacked(g, top) = Unacked(h, top) /\ Unacked(h, top) \subseteq DOMAIN h \ {s}
    BY <2>1, <2>2 DEF Unacked, Sent
  <2>4. /\ \A x \in Route : Outstanding(g, top, x) = Outstanding(h, top, x)
        /\ \A t \in Unacked(h, top) : g[t].n = h[t].n
    BY <2>1, <2>3 DEF Outstanding
  <2>5. Flight(g, top, left)
    BY <1>1, <1>7, <2>4, SameFlight
  <2> QED
    BY <1>1, <1>2, <1>4, <1>9, <2>1, <2>5 DEF Counted, g
<1> QED
  BY <1>3, <1>8, <1>9

LEMMA CountedAdd ==
  ASSUME NEW h, NEW ack \in Int, NEW flight, Numbered(h), Flight(h, ack, flight),
         NEW old \in SUBSET DOMAIN h, NEW s \in Int, NEW p \in Packet, ~p.sent
  PROVE  LET g == Inserted(Restrict(h, DOMAIN h \ old), s, p)
         IN  Numbered(g) /\ Flight(g, ack, Without(flight, h, old \cap Unacked(h, ack)))
<1> DEFINE Q == old \cap Unacked(h, ack)
           D == DOMAIN h \ old
           k == Restrict(h, D)
           g == Inserted(k, s, p)
           left == Without(flight, h, Q)
<1>1. Numbered(k) /\ DOMAIN k = D /\ \A t \in D : k[t] = h[t]
  BY NumberedRestrict
<1>2. /\ DOMAIN g = DOMAIN k \cup {s}
      /\ \A t \in DOMAIN g : g[t] = IF t \in DOMAIN k THEN k[t] ELSE p
      /\ g = [t \in DOMAIN g |-> IF t \in DOMAIN k THEN k[t] ELSE p]
  BY DEF Inserted
<1>3. Q \in SUBSET DOMAIN h /\ \A t \in Q : t > ack
  BY DEF Unacked
<1>4. D \in SUBSET DOMAIN h
  OBVIOUS
<1> HIDE DEF k, g
<1>5. Numbered(g)
  <2>1. DOMAIN k \cup {s} \subseteq Int /\ IsFiniteSet(DOMAIN k \cup {s})
    BY <1>1, FS_AddElement DEF Numbered
  <2>2. \A t \in DOMAIN k : k[t] \in Packet
    BY <1>1 DEF Numbered
  <2>3. g \in [DOMAIN g -> Packet]
    BY <1>2, <2>2
  <2> QED
    BY <1>2, <2>1, <2>3 DEF Numbered
<1>6. \A x : Outstanding(g, ack, x) = Outstanding(h, ack, x) \ Q
  BY <1>1, <1>2 DEF Outstanding, Unacked, Sent
<1>7. Flight(g, ack, left)
  <2>1. left = [x \in Route |-> left[x]]
    BY DEF Without
  <2>2. \A x \in Route : left[x] = Bytes(h, Outstanding(h, ack, x) \ Q)
    BY <1>3, WithoutFacts
  <2> HIDE DEF left
  <2>3. ASSUME NEW x \in Route
        PROVE  left[x] = Bytes(g, Outstanding(g, ack, x))
    <3> DEFINE O == Outstanding(h, ack, x) \ Q
    <3>1. O \in SUBSET D /\ O \in SUBSET DOMAIN h
      BY DEF Outstanding, Unacked, Sent
    <3>2. \A t \in O : g[t].n = h[t].n
      BY <1>1, <1>2, <3>1
    <3> HIDE DEF O
    <3>3. Bytes(g, O) = Bytes(h, O)
      BY <3>1, <3>2, HistoryWeighs, BytesSame
    <3> QED
      BY <1>6, <2>2, <3>3 DEF O
  <2> QED
    BY <2>1, <2>3 DEF Flight
<1> QED
  BY <1>5, <1>7 DEF g, k

LEMMA CountedSent ==
  ASSUME NEW h, NEW ack \in Int, NEW flight, Numbered(h), Flight(h, ack, flight),
         NEW s \in DOMAIN h \ Sent(h), NEW g, g = [h EXCEPT ![s].sent = TRUE]
  PROVE  /\ Numbered(g)
         /\ ~(s > ack) => Flight(g, ack, flight)
         /\ s > ack =>
              Flight(g, ack, [flight EXCEPT ![h[s].route] = @ + Size[h[s].n]])
<1> DEFINE p == [h[s] EXCEPT !.sent = TRUE]
<1>1. h[s] \in Packet /\ s \in Int
  BY DEF Numbered
<1>2. p \in Packet /\ p.n = h[s].n /\ p.route = h[s].route /\ p.sent
  BY <1>1 DEF Packet
<1>3. g = [h EXCEPT ![s] = p]
  OBVIOUS
<1> HIDE DEF p
<1>4. /\ DOMAIN g = DOMAIN h /\ g \in [DOMAIN g -> Packet] /\ g[s] = p
      /\ \A t \in DOMAIN h : t # s => g[t] = h[t]
  BY <1>2, <1>3 DEF Numbered
<1>5. Numbered(g)
  BY <1>4 DEF Numbered
<1>6. \A t \in DOMAIN h : g[t].n = h[t].n /\ g[t].route = h[t].route
  BY <1>2, <1>4
<1>7. Sent(g) = Sent(h) \cup {s} /\ s \notin Sent(h)
  BY <1>2, <1>4 DEF Sent
<1>8. ASSUME ~(s > ack) PROVE Flight(g, ack, flight)
  <2>1. Unacked(g, ack) = Unacked(h, ack) /\ Unacked(h, ack) \subseteq DOMAIN h
    BY <1>7, <1>8 DEF Unacked, Sent
  <2>2. /\ \A x \in Route : Outstanding(g, ack, x) = Outstanding(h, ack, x)
        /\ \A t \in Unacked(h, ack) : g[t].n = h[t].n
    BY <1>6, <2>1 DEF Outstanding
  <2> QED
    BY <2>2, SameFlight, ZenonT(60)
<1>9. ASSUME s > ack
      PROVE  Flight(g, ack, [flight EXCEPT ![h[s].route] = @ + Size[h[s].n]])
  <2> DEFINE r == h[s].route
             more == flight[r] + Size[h[s].n]
             new == [flight EXCEPT ![r] = more]
  <2>0. r \in Route
    BY <1>1 DEF Packet
  <2>1. /\ flight = [x \in Route |-> Bytes(h, Outstanding(h, ack, x))]
        /\ \A x \in Route : flight[x] = Bytes(h, Outstanding(h, ack, x))
    BY DEF Flight
  <2>2. Unacked(g, ack) = Unacked(h, ack) \cup {s} /\ Unacked(h, ack) \subseteq DOMAIN h
    BY <1>7, <1>9 DEF Unacked, Sent
  <2>3. s \notin Unacked(h, ack)
    BY <1>7 DEF Unacked
  <2>4. ASSUME NEW x \in Route
        PROVE  Bytes(g, Outstanding(h, ack, x)) = Bytes(h, Outstanding(h, ack, x))
    <3>1. Outstanding(h, ack, x) \in SUBSET DOMAIN h
      BY <2>2 DEF Outstanding
    <3>2. Weighs(h, Outstanding(h, ack, x))
      BY <3>1, HistoryWeighs
    <3>3. \A t \in Outstanding(h, ack, x) : g[t].n = h[t].n
      BY <1>6, <3>1
    <3> QED
      BY <3>2, <3>3, BytesSame, ZenonT(60)
  <2>5. ASSUME NEW x \in Route, x # r
        PROVE  Outstanding(g, ack, x) = Outstanding(h, ack, x)
    BY <1>6, <2>2, <2>5, ZenonT(60) DEF Outstanding
  <2>6. /\ Outstanding(g, ack, r) = Outstanding(h, ack, r) \cup {s}
        /\ s \notin Outstanding(h, ack, r)
        /\ Outstanding(g, ack, r) \in SUBSET DOMAIN g
    BY <1>4, <1>6, <2>2, <2>3, ZenonT(60) DEF Outstanding
  <2>7. Bytes(g, Outstanding(g, ack, r)) = Weight(g, s) + Bytes(g, Outstanding(h, ack, r))
    <3>1. Weighs(g, Outstanding(h, ack, r) \cup {s})
      BY <1>5, <2>6, HistoryWeighs
    <3>2. Bytes(g, Outstanding(h, ack, r) \cup {s})
            = Weight(g, s) + Bytes(g, Outstanding(h, ack, r))
      BY <2>6, <3>1, BytesInsert, Zenon
    <3> QED
      BY <2>6, <3>2
  <2>8. Weight(g, s) = Size[h[s].n] /\ Size[h[s].n] \in Nat /\ flight[r] \in Nat
    <3>1. h[s].n \in 1..MaxPackets /\ g[s].n = h[s].n
      BY <1>1, <1>6 DEF Packet
    <3>2. Weighs(h, Outstanding(h, ack, r))
      <4>1. Outstanding(h, ack, r) \in SUBSET DOMAIN h
        BY <2>2 DEF Outstanding
      <4> QED
        BY <4>1, HistoryWeighs
    <3>3. flight[r] \in Nat
      BY <2>0, <2>1, <3>2, BytesIsNat
    <3> QED
      BY <3>1, <3>3, AdapterAssumption DEF Weight
  <2> HIDE DEF r
  <2>9. Bytes(g, Outstanding(g, ack, r)) = more
    <3>1. PICK m, n : m = flight[r] /\ n = Size[h[s].n]
      OBVIOUS
    <3>2. Bytes(g, Outstanding(h, ack, r)) = m
      BY <2>0, <2>1, <2>4, <3>1
    <3>3. Bytes(g, Outstanding(g, ack, r)) = n + m /\ m \in Nat /\ n \in Nat
      BY <2>7, <2>8, <3>1, <3>2
    <3> QED
      BY <3>1, <3>3
  <2> HIDE DEF more
  <2>10. /\ new = [x \in Route |-> new[x]] /\ new[r] = more
         /\ \A x \in Route : x # r => new[x] = flight[x]
    BY <2>0, <2>1
  <2>11. \A x \in Route : new[x] = Bytes(g, Outstanding(g, ack, x))
    BY <2>1, <2>4, <2>5, <2>9, <2>10
  <2>12. new = [flight EXCEPT ![h[s].route] = @ + Size[h[s].n]]
    BY DEF r, more
  <2> HIDE DEF new
  <2>13. Flight(g, ack, new)
    BY <2>10, <2>11 DEF Flight
  <2> QED
    BY <2>12, <2>13
<1> QED
  BY <1>5, <1>8, <1>9

LEMMA CountedAfter ==
  ASSUME NEW f, IsMessage(f), NEW time, ProcessTransportFeedback(f, time),
         Counted(AdapterState(0))
  PROVE  Counted(AdapterState(0))'
<1>1. PICK packets : packets = Parse(f, SeqSpan)
  OBVIOUS
<1>2. PICK L \in Nat : L = Len(packets) /\ \A n \in 1..L : packets[n].seq \in Int
  <2>1. PICK from \in Int : MessageParts(f, from)
    BY MessageHasParts
  <2>2. f.count \in Nat /\ f.base \in Int
    BY <2>1, SpanAssumption DEF MessageParts
  <2>3. \A x \in Int : x % SeqSpan \in Int
    BY SpanAssumption
  <2>4. /\ Len(packets) = f.count
        /\ \A i \in 1..f.count : packets[i].seq = (f.base + (i - 1)) % SeqSpan
    BY <1>1, <2>1, ParsedFields
  <2>5. \A i \in 1..f.count : packets[i].seq \in Int
    <3>1. \A i \in 1..f.count : f.base + (i - 1) \in Int
      BY <2>2
    <3> QED
      BY <2>3, <2>4, <3>1
  <2> QED
    BY <2>2, <2>4, <2>5
<1>3. PICK base, times, a :
        /\ a = After(packets, base, times, f.timestamps, AdapterState(0), L)[L]
        /\ history' = a.history /\ last_ack' = a.ack /\ ulast' = a.ulast
        /\ in_flight' = a.flight
  BY <1>1, <1>2, ProcessIsAfter
<1>4. PICK g : g = After(packets, base, times, f.timestamps, AdapterState(0), L)
  OBVIOUS
<1>5. g[0] = AdapterState(0) /\ \A n \in 1..L : OneMore(g[n - 1], packets[n], g[n])
  BY <1>4, AfterTurns
<1> DEFINE S == {n \in 0..L : Counted(g[n])}
<1>6. 0 \in S
  BY <1>5
<1>7. ASSUME NEW n \in 1..L, n - 1 \in S PROVE n \in S
  <2>1. Counted(g[n - 1])
    BY <1>7
  <2>2. Counted(g[n])
    BY <1>2, <1>5, <2>1, CountedOneMore
  <2> QED
    BY <2>2
<1>8. Counted(a)
  <2> HIDE DEF S
  <2>1. \A n \in 0..L : n \in S
    BY <1>6, <1>7, IntervalInduction, Zenon
  <2>2. L \in S
    BY <2>1
  <2> QED
    BY <1>3, <1>4, <2>2 DEF S
<1> QED
  BY <1>3, <1>8 DEF Counted, AdapterState

CountedInv ==
  /\ Numbered(history) /\ last_ack \in Int /\ ulast \in Int \cup {None}
  /\ Flight(history, last_ack, in_flight)

LEMMA CountedInvIs ==
  CountedInv <=> Counted(AdapterState(0))
  BY DEF CountedInv, Counted, AdapterState

LEMMA CountedStep ==
  ASSUME NetInv, ProxyInv, ToldInv, CountedInv, [Next]_vars
  PROVE  CountedInv'
<1>0. created \in Nat /\ MaxPackets \in Nat /\ SenderTime \in Nat
  BY AdapterAssumption DEF NetInv
<1>1. CASE SendPacket
  <2> DEFINE s == Unwrap(ulast, Wire(created'))
             old == Expired(history, SenderTime)
             p == [n |-> created', route |-> route, created |-> SenderTime, sent |-> FALSE]
             g == Inserted(Restrict(history, DOMAIN history \ old), s, p)
             left == Without(in_flight, history, old \cap Unacked(history, last_ack))
  <2>1. history' = g /\ ulast' = s /\ in_flight' = left /\ last_ack' = last_ack
    BY <1>1 DEF SendPacket, AdapterAddPacket
  <2>2. created' \in 1..MaxPackets
    BY <1>0, <1>1, FeedbackAssumption DEF SendPacket, NetInv
  <2>3. s \in Int
    <3>1. created' \in Nat
      BY <1>0, <2>2
    <3>2. Wire(created') \in Int
      BY <3>1, WireIsNat
    <3> QED
      BY <3>2, UnwrapIsInt DEF CountedInv
  <2>4. p \in Packet /\ ~p.sent
    BY <1>0, <2>2 DEF Packet, ToldInv
  <2>5. old \in SUBSET DOMAIN history
    BY DEF Expired
  <2> HIDE DEF s, old, p
  <2>6. Numbered(g) /\ Flight(g, last_ack, left)
    BY <2>3, <2>4, <2>5, CountedAdd DEF CountedInv
  <2> HIDE DEF g, left
  <2> QED
    BY <2>1, <2>3, <2>6 DEF CountedInv
<1>2. CASE SendFeedback
  BY <1>2 DEF SendFeedback, CountedInv, adapterVars
<1>3. CASE ChangeRoute
  BY <1>3 DEF ChangeRoute, SetNetworkRoute, CountedInv
<1>4. CASE ChangeMode
  BY <1>4 DEF ChangeMode, CountedInv, adapterVars
<1>5. CASE Tick
  BY <1>5 DEF Tick, CountedInv, adapterVars
<1>6. ASSUME NEW n \in 1..MaxPackets, OnSentPacket(n) PROVE CountedInv'
  <2> DEFINE s == Unwrap(ulast, Wire(n))
             g == [history EXCEPT ![s].sent = TRUE]
             more == [in_flight EXCEPT ![history[s].route] = @ + Size[history[s].n]]
  <2>1. /\ ulast' = s /\ last_ack' = last_ack
        /\ \/ /\ s \in DOMAIN history \ Sent(history) /\ history' = g
              /\ in_flight' = IF s > last_ack THEN more ELSE in_flight
           \/ history' = history /\ in_flight' = in_flight
    BY <1>6 DEF OnSentPacket, ProcessSentPacket
  <2>2. s \in Int
    <3>1. n \in Nat
      BY <1>0
    <3>2. Wire(n) \in Int
      BY <3>1, WireIsNat
    <3> QED
      BY <3>2, UnwrapIsInt DEF CountedInv
  <2>3. /\ Numbered(history) /\ last_ack \in Int
        /\ Flight(history, last_ack, in_flight)
    BY DEF CountedInv
  <2> HIDE DEF s
  <2>4. CASE /\ s \in DOMAIN history \ Sent(history) /\ history' = g
             /\ in_flight' = IF s > last_ack THEN more ELSE in_flight
    <3>1. /\ Numbered(g)
          /\ ~(s > last_ack) => Flight(g, last_ack, in_flight)
          /\ s > last_ack => Flight(g, last_ack, more)
      BY <2>3, <2>4, CountedSent
    <3> HIDE DEF g, more
    <3> QED
      BY <2>1, <2>2, <2>3, <2>4, <3>1 DEF CountedInv
  <2>5. CASE history' = history /\ in_flight' = in_flight
    BY <2>1, <2>2, <2>3, <2>5 DEF CountedInv
  <2> QED
    BY <2>1, <2>4, <2>5
<1>7. ASSUME NEW n \in 1..MaxPackets, Deliver(n) PROVE CountedInv'
  BY <1>7 DEF Deliver, CountedInv, adapterVars
<1>8. ASSUME NEW f \in feedback, DeliverFeedback(f) PROVE CountedInv'
  <2>1. IsMessage(f) /\ ProcessTransportFeedback(f, SenderTime)
    BY <1>8 DEF ProxyInv, DeliverFeedback
  <2>2. Counted(AdapterState(0))'
    BY <2>1, CountedAfter, CountedInvIs
  <2> QED
    BY <2>2 DEF Counted, AdapterState, CountedInv
<1>9. CASE UNCHANGED vars
  BY <1>9 DEF vars, adapterVars, CountedInv
<1> QED
  BY <1>1, <1>2, <1>3, <1>4, <1>5, <1>6, <1>7, <1>8, <1>9 DEF Next

LEMMA CountedStart ==
  ASSUME Init
  PROVE  CountedInv
<1>1. /\ history = <<>> /\ last_ack = -1 /\ ulast = None
      /\ in_flight = [x \in Route |-> 0]
  BY DEF Init, AdapterInit
<1>2. Numbered(<<>>)
  BY FS_EmptySet DEF Numbered
<1>3. \A x : Outstanding(<<>>, -1, x) = {}
  BY DEF Outstanding, Unacked, Sent
<1>4. Flight(<<>>, -1, [x \in Route |-> 0])
  BY <1>3, BytesOfNothing DEF Flight
<1> QED
  BY <1>1, <1>2, <1>4 DEF CountedInv

(* For any number of packets, routes and messages, in any order: the bytes *)
(* in flight of every route are exactly those of the packets that were     *)
(* sent on it, are in the history and that no feedback has passed.  A sum  *)
(* of sizes is never negative, which is what the RTC_DCHECK_GE of          *)
(* transport_feedback_adapter.cc:48 asserts.                               *)
THEOREM FlightIsExact == Spec => []InFlightIsExact
<1>1. Init => NetInv /\ ProxyInv /\ ToldInv /\ CountedInv
  BY ProxyStart, ToldStart, CountedStart
<1>2. NetInv /\ ProxyInv /\ ToldInv /\ CountedInv /\ [Next]_vars
        => (NetInv /\ ProxyInv /\ ToldInv /\ CountedInv)'
  BY NetStep, ProxyStep, ToldStep, CountedStep
<1>3. CountedInv => InFlightIsExact
  BY DEF CountedInv, Flight, InFlightIsExact, Outstanding
<1> QED
  BY <1>1, <1>2, <1>3, PTL DEF Spec

-----------------------------------------------------------------------------
(* Numbers that are unwrapped *)

LEMMA HalfFacts ==
  /\ SeqSpan \in Nat \ {0} /\ Half \in Nat /\ SeqSpan = 2 * Half
  /\ kMaxPacketsInHistory \in Nat \ {0} /\ kMaxPacketsInHistory < Half
<1>1. SeqSpan \in Nat \ {0} /\ SeqSpan % 2 = 0
  BY SpanAssumption
<1>2. Half \in Nat /\ SeqSpan = 2 * Half
  BY <1>1, Remainder DEF Half
<1> QED
  BY <1>1, <1>2, DemuxerAssumption

(* The unwrapped number has the bits that were unwrapped. *)
LEMMA UnwrapKeepsBits ==
  ASSUME NEW last \in Int \cup {None}, NEW v \in Nat, v < SeqSpan
  PROVE  Unwrap(last, v) % SeqSpan = v
<1>0. SeqSpan \in Nat \ {0}
  BY HalfFacts
<1>1. CASE last = None
  <2>1. v % SeqSpan = v
    <3>1. (SeqSpan * 0 + v) % SeqSpan = v
      BY <1>0, FloorIsUnique
    <3> QED
      BY <1>0, <3>1
  <2> QED
    BY <1>1, <2>1 DEF Unwrap
<1>2. CASE last # None
  <2>1. last \in Int
    BY <1>2
  <2> DEFINE q == last \div SeqSpan
             r == last % SeqSpan
  <2>2. q \in Int /\ r \in Nat /\ last = SeqSpan * q + r
    BY <1>0, <2>1, Floor
  <2>3. \/ Unwrap(last, v) = last + (v - r)
        \/ Unwrap(last, v) = last + ((v - r) + SeqSpan)
        \/ Unwrap(last, v) = last + ((v - r) - SeqSpan)
    BY <1>2 DEF Unwrap
  <2> HIDE DEF q, r
  <2>4. PICK k \in {-1, 0, 1} : Unwrap(last, v) = last + ((v - r) + k * SeqSpan)
    BY <1>0, <2>1, <2>2, <2>3
  <2>5. q + k \in Int /\ SeqSpan * (q + k) = SeqSpan * q + k * SeqSpan
    BY <1>0, <2>2
  <2>6. k * SeqSpan \in Int /\ SeqSpan * q \in Int /\ SeqSpan * (q + k) \in Int
    BY <1>0, <2>2
  <2>7. Unwrap(last, v) = SeqSpan * (q + k) + v
    BY <1>0, <2>1, <2>2, <2>4, <2>5, <2>6
  <2> QED
    BY <1>0, <2>5, <2>7, FloorIsUnique
<1> QED
  BY <1>1, <1>2

(* A number nearer than half the span is unwrapped exactly. *)
LEMMA UnwrapNear ==
  ASSUME NEW x \in Nat, NEW y \in Nat, y - x < Half, x - y < Half
  PROVE  Unwrap(x, y % SeqSpan) = y
<1>0. /\ SeqSpan \in Nat \ {0} /\ Half \in Nat /\ SeqSpan = 2 * Half /\ Half > 0
      /\ x # None
  BY HalfFacts, SpanAssumption
<1> DEFINE q == x \div SeqSpan
           r == x % SeqSpan
           p == y \div SeqSpan
           v == y % SeqSpan
           d == y - x
           e == v - r
<1>1. /\ q \in Nat /\ r \in Nat /\ r < SeqSpan /\ x = SeqSpan * q + r
      /\ p \in Nat /\ v \in Nat /\ v < SeqSpan /\ y = SeqSpan * p + v
  BY <1>0, Remainder
<1>2. Unwrap(x, v) = x + (IF (v # r /\ (e = Half \/ e % SeqSpan < Half)) /\ e < 0
                            THEN e + SeqSpan
                          ELSE IF ~(v # r /\ (e = Half \/ e % SeqSpan < Half)) /\ e > 0
                                  /\ x + e >= SeqSpan
                            THEN e - SeqSpan
                          ELSE e)
  BY <1>0 DEF Unwrap, IsNewer
<1> HIDE DEF q, r, p, v
<1>3. e \in Int /\ d \in Int /\ -SeqSpan < e /\ e < SeqSpan /\ -Half < d /\ d < Half
  BY <1>0, <1>1
<1>4. PICK k \in Int : k = p - q
  BY <1>1
<1>5. e = d - SeqSpan * k
  <2>1. SeqSpan * k = SeqSpan * p - SeqSpan * q
    BY <1>0, <1>1, <1>4
  <2> QED
    BY <1>0, <1>1, <2>1
<1>6. k \in {-1, 0, 1}
  <2>1. SeqSpan * k = d - e /\ d - e < 2 * SeqSpan /\ -(2 * SeqSpan) < d - e
    BY <1>0, <1>3, <1>5
  <2>2. ~(k >= 2)
    <3>1. k >= 2 => SeqSpan * k >= SeqSpan * 2
      BY <1>0
    <3> QED
      BY <1>0, <2>1, <3>1
  <2>3. ~(k <= -2)
    <3>1. k <= -2 => SeqSpan * k <= SeqSpan * (-2)
      BY <1>0
    <3> QED
      BY <1>0, <2>1, <3>1
  <2> QED
    BY <2>2, <2>3
<1>7. ASSUME NEW n \in Nat, n < SeqSpan PROVE n % SeqSpan = n
  <2>1. (SeqSpan * 0 + n) % SeqSpan = n
    BY <1>0, <1>7, FloorIsUnique
  <2> QED
    BY <1>0, <2>1
<1>8. ASSUME NEW n \in Int, -SeqSpan <= n, n < 0 PROVE n % SeqSpan = n + SeqSpan
  <2>1. n + SeqSpan \in Nat /\ n + SeqSpan < SeqSpan
    BY <1>0, <1>8
  <2>2. (SeqSpan * (-1) + (n + SeqSpan)) % SeqSpan = n + SeqSpan
    BY <1>0, <2>1, FloorIsUnique
  <2>3. SeqSpan * (-1) + (n + SeqSpan) = n
    BY <1>0
  <2> QED
    BY <2>2, <2>3
<1>9. x + d = y
  OBVIOUS
<1> HIDE DEF d
<1>10. v # r <=> e # 0
  BY <1>1
<1> HIDE DEF e
<1>11. CASE k = 0
  <2>1. e = d
    BY <1>0, <1>3, <1>5, <1>11
  <2>2. CASE e >= 0
    BY <1>0, <1>2, <1>3, <1>7, <1>9, <1>10, <2>1, <2>2 DEF v
  <2>3. CASE e < 0
    <3>1. e % SeqSpan = e + SeqSpan
      BY <1>0, <1>3, <1>8, <2>3
    <3>2. ~(e + SeqSpan < Half) /\ e # Half
      BY <1>0, <1>3, <2>1
    <3> QED
      BY <1>0, <1>2, <1>3, <1>9, <2>1, <2>3, <3>1, <3>2 DEF v
  <2> QED
    BY <1>3, <2>2, <2>3
<1>12. CASE k = 1
  <2>1. e = d - SeqSpan /\ e < 0 /\ e + SeqSpan = d
    BY <1>0, <1>3, <1>5, <1>12
  <2>2. e % SeqSpan = d
    BY <1>0, <1>3, <1>8, <2>1
  <2> QED
    BY <1>2, <1>3, <1>9, <1>10, <2>1, <2>2 DEF v
<1>13. CASE k = -1
  <2>1. e = d + SeqSpan /\ e > Half /\ e > 0 /\ e - SeqSpan = d
    BY <1>0, <1>3, <1>5, <1>13
  <2>2. e % SeqSpan = e
    BY <1>0, <1>3, <1>7, <2>1
  <2>3. x + e = y + SeqSpan /\ x + e >= SeqSpan
    BY <1>0, <1>3, <1>9, <2>1
  <2> QED
    BY <1>0, <1>2, <1>3, <1>9, <2>1, <2>2, <2>3 DEF v
<1> QED
  BY <1>6, <1>11, <1>12, <1>13

(* The unwrapped number of packet n: the first one is not unwrapped. *)
Num(n) == Wire(1) + (n - 1)

LEMMA NumFacts ==
  ASSUME NEW n \in Nat \ {0}
  PROVE  Num(n) \in Nat /\ Num(n) % SeqSpan = Wire(n)
<1>1. Wire(1) \in Nat
  BY WireIsNat
<1>2. PICK j \in Nat, a \in Int : j = n - 1 /\ a = StartSeq + 1
  BY FeedbackAssumption
<1>3. ((a % SeqSpan) + j) % SeqSpan = (a + j) % SeqSpan
  BY HalfFacts, WrapOfSum
<1>4. a + j = StartSeq + n
  BY <1>2, FeedbackAssumption
<1>5. Num(n) = (a % SeqSpan) + j
  BY <1>2 DEF Num, Wire
<1> QED
  BY <1>1, <1>2, <1>3, <1>4, <1>5 DEF Num, Wire

-----------------------------------------------------------------------------
(* The demuxer *)

(* The unwrapper of the demuxer is at the last packet, and each of the     *)
(* last packets is in the history or was told to its stream as received.   *)
Streams(h, last, c, hd) ==
  /\ last = IF c = 0 THEN None ELSE Num(c)
  /\ DOMAIN h \subseteq {Num(n) : n \in 1..c}
  /\ \A n \in 1..c : Num(n) \in DOMAIN h => h[Num(n)] = n
  /\ \A n \in 1..c : n > c - kMaxPacketsInHistory
        => Num(n) \in DOMAIN h \/ TRUE \in hd[n]

LEMMA NumOrder ==
  ASSUME NEW m \in Nat \ {0}, NEW n \in Nat \ {0}
  PROVE  Num(n) - Num(m) = n - m
<1>1. Wire(1) \in Nat
  BY WireIsNat
<1> QED
  BY <1>1 DEF Num

LEMMA NextNumber ==
  ASSUME NEW c \in Nat, NEW last, last = IF c = 0 THEN None ELSE Num(c)
  PROVE  Unwrap(last, Wire(c + 1)) = Num(c + 1)
<1>1. CASE c = 0
  <2>1. Wire(1) \in Nat
    BY WireIsNat
  <2> QED
    BY <1>1, <2>1 DEF Unwrap, Num
<1>2. CASE c # 0
  <2>1. /\ Num(c) \in Nat /\ Num(c + 1) \in Nat /\ Num(c + 1) % SeqSpan = Wire(c + 1)
    BY <1>2, NumFacts
  <2>2. Num(c + 1) - Num(c) = 1
    BY <1>2, NumOrder
  <2>3. 1 < Half /\ Half \in Nat
    BY HalfFacts
  <2>4. Num(c + 1) - Num(c) < Half /\ Num(c) - Num(c + 1) < Half
    BY <2>1, <2>2, <2>3
  <2>5. Unwrap(Num(c), Num(c + 1) % SeqSpan) = Num(c + 1)
    BY <2>1, <2>4, UnwrapNear
  <2> QED
    BY <1>2, <2>1, <2>5
<1> QED
  BY <1>1, <1>2

(* The oldest of too many packets is too old to matter. *)
LEMMA OldestIsOld ==
  ASSUME NEW c \in Nat, NEW D, D \subseteq {Num(n) : n \in 1..c},
         Cardinality(D) > kMaxPacketsInHistory
  PROVE  \E m \in 1..c : Min(D) = Num(m) /\ m <= c - kMaxPacketsInHistory
<1>0. kMaxPacketsInHistory \in Nat \ {0}
  BY HalfFacts
<1>1. \A n \in 1..c : Num(n) \in Nat
  BY NumFacts
<1>2. D \subseteq Nat
  BY <1>1
<1>3. D # {}
  <2>1. Cardinality({}) = 0
    BY FS_EmptySet
  <2> QED
    BY <1>0, <2>1
<1>4. PICK low \in D : \A y \in D : low <= y
  BY <1>2, <1>3, Least
<1>5. Min(D) \in D /\ \A y \in D : Min(D) <= y
  BY <1>4 DEF Min
<1>6. PICK m \in 1..c : Min(D) = Num(m)
  BY <1>5
<1>7. D \in SUBSET (Num(m)..Num(c)) /\ Num(m) \in Nat /\ Num(c) \in Nat
  <2>1. c \in Nat \ {0} /\ m \in Nat \ {0}
    OBVIOUS
  <2>2. Num(m) \in Nat /\ Num(c) \in Nat
    BY <2>1, NumFacts
  <2>3. ASSUME NEW y \in D PROVE y \in Num(m)..Num(c)
    <3>1. PICK n \in 1..c : y = Num(n)
      OBVIOUS
    <3>2. Num(c) - Num(n) = c - n /\ Num(n) \in Nat
      BY <1>1, <2>1, NumOrder
    <3>3. Num(n) <= Num(c)
      BY <2>2, <3>2
    <3>4. Num(m) <= y
      BY <1>5, <1>6
    <3> QED
      BY <2>2, <3>1, <3>2, <3>3, <3>4
  <2> QED
    BY <2>2, <2>3
<1>8. IsFiniteSet(Num(m)..Num(c)) /\ Cardinality(Num(m)..Num(c)) = Num(c) - Num(m) + 1
  <2>1. Num(c) - Num(m) = c - m
    BY NumOrder
  <2>2. ~(Num(m) > Num(c)) /\ Num(m) \in Int /\ Num(c) \in Int
    BY <1>7, <2>1
  <2> QED
    BY <2>2, FS_Interval
<1>9. IsFiniteSet(D) /\ Cardinality(D) \in Nat
      /\ Cardinality(D) <= Num(c) - Num(m) + 1
  <2>1. IsFiniteSet(D) /\ Cardinality(D) <= Cardinality(Num(m)..Num(c))
    BY <1>7, <1>8, FS_Subset
  <2> QED
    BY <1>8, <2>1, FS_CardinalityType
<1>10. Num(c) - Num(m) = c - m
  BY NumOrder
<1>11. m <= c - kMaxPacketsInHistory
  BY <1>0, <1>9, <1>10
<1> QED
  BY <1>6, <1>11

LEMMA StreamsAdd ==
  ASSUME NEW c \in Nat, Streams(dhistory, dlast, c, heard),
         DemuxerAddPacket(c + 1, Wire(c + 1))
  PROVE  Streams(dhistory', dlast', c + 1, heard')
<1> DEFINE h == Inserted(dhistory, Num(c + 1), c + 1)
<1>1. dlast = IF c = 0 THEN None ELSE Num(c)
  BY DEF Streams
<1>2. Unwrap(dlast, Wire(c + 1)) = Num(c + 1)
  BY <1>1, NextNumber
<1>3. /\ dlast' = Num(c + 1) /\ heard' = heard
      /\ dhistory' = IF Cardinality(DOMAIN h) > kMaxPacketsInHistory
                       THEN Restrict(h, DOMAIN h \ {Min(DOMAIN h)}) ELSE h
  BY <1>2 DEF DemuxerAddPacket
<1>4. \A m, n \in 1..c + 1 : Num(m) = Num(n) => m = n
  BY WireIsNat DEF Num
<1>5. /\ DOMAIN h = DOMAIN dhistory \cup {Num(c + 1)}
      /\ \A t \in DOMAIN h : h[t] = IF t \in DOMAIN dhistory THEN dhistory[t] ELSE c + 1
  BY DEF Inserted
<1> HIDE DEF h
<1>6. DOMAIN h \subseteq {Num(n) : n \in 1..c + 1}
  BY <1>5 DEF Streams
<1>7. Num(c + 1) \notin DOMAIN dhistory
  BY <1>4 DEF Streams
<1>8. \A n \in 1..c + 1 : Num(n) \in DOMAIN h => h[Num(n)] = n
  <2>1. \A n \in 1..c : n \in 1..c + 1
    OBVIOUS
  <2> QED
    BY <1>4, <1>5, <1>7 DEF Streams
<1>9. kMaxPacketsInHistory \in Nat
  BY HalfFacts
<1>10. \A n \in 1..c + 1 : n > (c + 1) - kMaxPacketsInHistory
         => Num(n) \in DOMAIN h \/ TRUE \in heard[n]
  <2>1. ASSUME NEW n \in 1..c + 1, n > (c + 1) - kMaxPacketsInHistory
        PROVE  Num(n) \in DOMAIN h \/ TRUE \in heard[n]
    <3>1. CASE n = c + 1
      BY <1>5, <3>1
    <3>2. CASE n # c + 1
      <4>1. n \in 1..c /\ n > c - kMaxPacketsInHistory
        BY <1>9, <2>1, <3>2
      <4> QED
        BY <1>5, <4>1 DEF Streams
    <3> QED
      BY <3>1, <3>2
  <2> QED
    BY <2>1
<1>11. c + 1 # 0
  OBVIOUS
<1>12. CASE ~(Cardinality(DOMAIN h) > kMaxPacketsInHistory)
  BY <1>3, <1>6, <1>8, <1>10, <1>11, <1>12 DEF Streams
<1>13. CASE Cardinality(DOMAIN h) > kMaxPacketsInHistory
  <2>1. PICK m \in 1..c + 1 : /\ Min(DOMAIN h) = Num(m)
                              /\ m <= (c + 1) - kMaxPacketsInHistory
    BY <1>6, <1>13, OldestIsOld
  <2>2. /\ DOMAIN dhistory' = DOMAIN h \ {Num(m)}
        /\ \A t \in DOMAIN h \ {Num(m)} : dhistory'[t] = h[t]
    BY <1>3, <1>13, <2>1 DEF Restrict
  <2>3. DOMAIN dhistory' \subseteq {Num(n) : n \in 1..c + 1}
    BY <1>6, <2>2
  <2>4. \A n \in 1..c + 1 : Num(n) \in DOMAIN dhistory' => dhistory'[Num(n)] = n
    BY <1>8, <2>2
  <2>5. \A n \in 1..c + 1 : n > (c + 1) - kMaxPacketsInHistory
          => Num(n) \in DOMAIN dhistory' \/ TRUE \in heard'[n]
    <3>1. ASSUME NEW n \in 1..c + 1, n > (c + 1) - kMaxPacketsInHistory PROVE n # m
      BY <1>9, <2>1, <3>1
    <3> QED
      BY <1>3, <1>4, <1>10, <2>2, <3>1
  <2> QED
    BY <1>3, <1>11, <2>3, <2>4, <2>5 DEF Streams
<1> QED
  BY <1>12, <1>13

LEMMA ParsedDomain ==
  ASSUME NEW f, IsMessage(f)
  PROVE  /\ f.count \in Nat /\ Len(Parse(f, SeqSpan)) = f.count
         /\ DOMAIN Parse(f, SeqSpan) = 1..f.count
         /\ \A i \in 1..f.count : /\ Parse(f, SeqSpan)[i].received \in BOOLEAN
                                  /\ Parse(f, SeqSpan)[i].seq \in Nat
                                  /\ Parse(f, SeqSpan)[i].seq < SeqSpan
<1>1. PICK from \in Int : MessageParts(f, from)
  BY MessageHasParts
<1>2. PICK s, packets : s = DeltaSizes(f.chunks, f.count) /\ packets = Parse(f, SeqSpan)
  OBVIOUS
<1>3. f.count \in Nat /\ Len(s) = f.count /\ f.base \in Int /\ SeqSpan \in Nat \ {0}
  BY <1>1, <1>2, SpanAssumption DEF MessageParts
<1> DEFINE n(i) == (f.base + (i - 1)) % SeqSpan
           d(i) == IF s[i] > 0 THEN f.deltas[Before(s, i)] ELSE 0
           r(i) == [seq |-> n(i), received |-> s[i] > 0, delta |-> d(i)]
<1>4. packets = [i \in 1..f.count |-> r(i)]
  BY <1>2, <1>3 DEF Parse, Before
<1>5. \A i \in Int : n(i) \in Nat /\ n(i) < SeqSpan
  <2>1. ASSUME NEW i \in Int PROVE n(i) \in Nat /\ n(i) < SeqSpan
    <3>1. f.base + (i - 1) \in Int
      BY <1>3
    <3> QED
      BY <1>3, <3>1, Floor
  <2> QED
    BY <2>1
<1> HIDE DEF n, d
<1>6. \A i : r(i).seq = n(i) /\ r(i).received \in BOOLEAN
  OBVIOUS
<1> HIDE DEF r
<1>7. DOMAIN packets = 1..f.count /\ \A i \in 1..f.count : packets[i] = r(i)
  BY <1>4
<1>8. Len(packets) = f.count
  BY <1>1, <1>2, ParsedFields
<1>9. \A i \in 1..f.count : /\ packets[i].received \in BOOLEAN
                            /\ packets[i].seq \in Nat /\ packets[i].seq < SeqSpan
  BY <1>5, <1>6, <1>7
<1> QED
  BY <1>2, <1>3, <1>7, <1>8, <1>9

(* A message is told to the streams of the packets it is about. *)
LEMMA StreamsReport ==
  ASSUME NEW f, IsMessage(f), NEW c \in 0..StreamPackets, StreamPackets \in Nat,
         Streams(dhistory, dlast, c, heard), OnTransportFeedback(f)
  PROVE  /\ Streams(dhistory', dlast', c, heard')
         /\ \A n \in 1..c : TRUE \in heard[n] => TRUE \in heard'[n]
         /\ \A n \in 1..c : \A i \in 1..f.count :
              /\ n > c - kMaxPacketsInHistory
              /\ Parse(f, SeqSpan)[i].received /\ Parse(f, SeqSpan)[i].seq = Wire(n)
              => TRUE \in heard'[n]
<1>1. PICK packets : packets = Parse(f, SeqSpan)
  OBVIOUS
<1>2. DOMAIN packets = 1..f.count /\ \A i \in 1..f.count : packets[i].received \in BOOLEAN
  BY <1>1, ParsedDomain
<1> DEFINE Number(i) == Unwrap(dlast, packets[i].seq)
           known == {i \in DOMAIN packets : Number(i) \in DOMAIN dhistory}
           About(n) == {i \in known : dhistory[Number(i)] = n}
           Gone == {Number(i) : i \in {j \in known : packets[j].received}}
<1>3. /\ dhistory' = Restrict(dhistory, DOMAIN dhistory \ Gone)
      /\ heard' = [n \in 1..StreamPackets |->
                     heard[n] \cup {packets[i].received : i \in About(n)}]
      /\ dlast' = dlast
  BY <1>1 DEF OnTransportFeedback, Reported
<1> HIDE DEF Number
<1>4. \A n \in 1..c : n \in 1..StreamPackets
  OBVIOUS
<1>5. \A n \in 1..c : heard'[n] = heard[n] \cup {packets[i].received : i \in About(n)}
  BY <1>3, <1>4
<1>6. ASSUME NEW n \in 1..c, NEW i \in 1..f.count, packets[i].received,
             Number(i) = Num(n), Num(n) \in DOMAIN dhistory
      PROVE  TRUE \in heard'[n]
  <2>1. dhistory[Num(n)] = n
    BY <1>6 DEF Streams
  <2>2. i \in About(n)
    BY <1>2, <1>6, <2>1
  <2>3. packets[i].received = TRUE
    BY <1>2, <1>6
  <2> HIDE DEF About
  <2> QED
    BY <1>5, <2>2, <2>3
<1>7. \A n \in 1..c : TRUE \in heard[n] => TRUE \in heard'[n]
  BY <1>5
<1>8. /\ DOMAIN dhistory' = DOMAIN dhistory \ Gone
      /\ \A t \in DOMAIN dhistory' : dhistory'[t] = dhistory[t]
  BY <1>3 DEF Restrict
<1>9. ASSUME NEW n \in 1..c, Num(n) \in DOMAIN dhistory
      PROVE  Num(n) \in DOMAIN dhistory' \/ TRUE \in heard'[n]
  <2>1. CASE Num(n) \in Gone
    <3>1. PICK i \in known : packets[i].received /\ Num(n) = Number(i)
      BY <2>1
    <3>2. i \in 1..f.count
      BY <1>2
    <3> QED
      BY <1>6, <1>9, <3>1, <3>2
  <2>2. CASE Num(n) \notin Gone
    BY <1>8, <1>9, <2>2
  <2> QED
    BY <2>1, <2>2
<1>10. Streams(dhistory', dlast', c, heard')
  <2> HIDE DEF Gone
  <2>1. DOMAIN dhistory' \subseteq {Num(n) : n \in 1..c}
    BY <1>8 DEF Streams
  <2>2. \A n \in 1..c : Num(n) \in DOMAIN dhistory' => dhistory'[Num(n)] = n
    BY <1>8 DEF Streams
  <2>3. \A n \in 1..c : n > c - kMaxPacketsInHistory
          => Num(n) \in DOMAIN dhistory' \/ TRUE \in heard'[n]
    BY <1>7, <1>9 DEF Streams
  <2>4. dlast' = IF c = 0 THEN None ELSE Num(c)
    BY <1>3 DEF Streams
  <2> QED
    BY <2>1, <2>2, <2>3, <2>4 DEF Streams
<1>11. ASSUME NEW n \in 1..c, NEW i \in 1..f.count, n > c - kMaxPacketsInHistory,
              packets[i].received, packets[i].seq = Wire(n)
       PROVE  TRUE \in heard'[n]
  <2>0. c \in Nat /\ c # 0 /\ c \in Nat \ {0} /\ n \in Nat \ {0}
    OBVIOUS
  <2>1. Num(n) \in Nat /\ Num(c) \in Nat /\ Num(n) % SeqSpan = Wire(n)
    BY <2>0, NumFacts
  <2>2. Num(n) - Num(c) = n - c
    BY <2>0, NumOrder
  <2>3. kMaxPacketsInHistory \in Nat /\ kMaxPacketsInHistory < Half /\ Half \in Nat
    BY HalfFacts
  <2>4. Num(n) - Num(c) < Half /\ Num(c) - Num(n) < Half
    BY <1>11, <2>0, <2>1, <2>2, <2>3
  <2>5. Unwrap(Num(c), Num(n) % SeqSpan) = Num(n)
    BY <2>1, <2>4, UnwrapNear
  <2>6. Number(i) = Num(n)
    BY <1>11, <2>0, <2>1, <2>5 DEF Streams, Number
  <2>7. Num(n) \in DOMAIN dhistory \/ TRUE \in heard[n]
    BY <1>11 DEF Streams
  <2> QED
    BY <1>6, <1>7, <1>11, <2>6, <2>7
<1> QED
  BY <1>1, <1>7, <1>10, <1>11

-----------------------------------------------------------------------------
(* What the controller is told is told to the streams *)

Bits(h) == \A s \in DOMAIN h : s % SeqSpan = Wire(h[s].n)

LEMMA BitsOneMore ==
  ASSUME NEW a, NEW packet, NEW b, OneMore(a, packet, b), NEW c \in Nat,
         packet.seq \in Nat, packet.seq < SeqSpan, a.ulast \in Int \cup {None},
         Told(a.history, a.told, c), Bits(a.history)
  PROVE  /\ b.ulast \in Int /\ Bits(b.history)
         /\ \A n \in 1..MaxPackets : b.told[n] = "received" =>
              a.told[n] = "received" \/ (packet.received /\ packet.seq = Wire(n))
<1>0. PICK h, t, g, u, s : /\ h = a.history /\ t = a.told /\ g = b.history /\ u = b.told
                           /\ s = Unwrap(a.ulast, packet.seq)
  OBVIOUS
<1>1. s \in Int /\ s % SeqSpan = packet.seq
  <2>1. PICK l \in Int \cup {None} : l = a.ulast
    OBVIOUS
  <2>2. PICK v \in Nat : v = packet.seq /\ v < SeqSpan
    OBVIOUS
  <2>3. Unwrap(l, v) \in Int
    BY UnwrapIsInt
  <2>4. Unwrap(l, v) % SeqSpan = v
    BY <2>2, UnwrapKeepsBits
  <2>5. s = Unwrap(l, v)
    BY <1>0, <2>1, <2>2
  <2> QED
    BY <2>2, <2>3, <2>4, <2>5
<1>2. /\ b.ulast = s
      /\ s \notin Sent(h) => g = h /\ u = t
      /\ s \in Sent(h) =>
           /\ g = Forget(h, s, packet.received)
           /\ h[s].route # route => u = t
           /\ h[s].route = route => u = [t EXCEPT ![h[s].n] = Said(@, packet.received)]
  BY <1>0 DEF OneMore
<1>3. Bits(g)
  <2>1. g = h \/ g = Restrict(h, DOMAIN h \ {s})
    BY <1>2 DEF Forget
  <2> QED
    BY <1>0, <2>1 DEF Bits, Restrict
<1>4. ASSUME NEW n \in 1..MaxPackets, u[n] = "received", t[n] # "received"
      PROVE  packet.received /\ packet.seq = Wire(n)
  <2>1. s \in Sent(h) /\ h[s].route = route
    BY <1>2, <1>4
  <2>2. u = [t EXCEPT ![h[s].n] = Said(t[h[s].n], packet.received)]
    BY <1>2, <2>1
  <2>3. s \in DOMAIN h
    BY <2>1 DEF Sent
  <2>4. DOMAIN t = 1..MaxPackets
    BY <1>0 DEF Told
  <2>5. h[s].n = n
    BY <1>4, <2>2, <2>4
  <2>6. Said(t[n], packet.received) = "received"
    BY <1>4, <2>2, <2>4, <2>5
  <2>7. packet.received
    BY <2>6 DEF Said
  <2> QED
    BY <1>0, <1>1, <2>3, <2>5, <2>7 DEF Bits
<1> QED
  BY <1>0, <1>1, <1>2, <1>3, <1>4

LEMMA ToldIsReported ==
  ASSUME NEW f, IsMessage(f), NEW time, ProcessTransportFeedback(f, time),
         NEW c \in Nat, Told(history, told, c), ulast \in Int \cup {None}, Bits(history)
  PROVE  /\ Bits(history')
         /\ \A n \in 1..MaxPackets : told'[n] = "received" =>
              \/ told[n] = "received"
              \/ \E i \in 1..f.count : /\ Parse(f, SeqSpan)[i].received
                                       /\ Parse(f, SeqSpan)[i].seq = Wire(n)
<1>1. PICK packets : packets = Parse(f, SeqSpan)
  OBVIOUS
<1>2. PICK L \in Nat : L = f.count
  BY ParsedDomain
<1>3. /\ L = Len(packets)
      /\ \A i \in 1..L : packets[i].seq \in Nat /\ packets[i].seq < SeqSpan
  BY <1>1, <1>2, ParsedDomain
<1>4. PICK base, times, a :
        /\ a = After(packets, base, times, f.timestamps, AdapterState(0), L)[L]
        /\ history' = a.history /\ told' = a.told
  BY <1>1, <1>3, ProcessIsAfter
<1>5. PICK g : g = After(packets, base, times, f.timestamps, AdapterState(0), L)
  OBVIOUS
<1>6. g[0] = AdapterState(0) /\ \A n \in 1..L : OneMore(g[n - 1], packets[n], g[n])
  BY <1>5, AfterTurns
<1> DEFINE Said2(n) == \E i \in 1..L : packets[i].received /\ packets[i].seq = Wire(n)
           OK(b) == /\ b.ulast \in Int \cup {None} /\ Bits(b.history)
                    /\ Told(b.history, b.told, c)
                    /\ \A n \in 1..MaxPackets :
                         b.told[n] = "received" => told[n] = "received" \/ Said2(n)
           S == {j \in 0..L : OK(g[j])}
<1>7. OK(g[0])
  <2>1. g[0].history = history /\ g[0].told = told /\ g[0].ulast = ulast
    BY <1>6 DEF AdapterState
  <2> HIDE DEF Said2
  <2> QED
    BY <2>1
<1>8. ASSUME NEW j \in 1..L, OK(g[j - 1]) PROVE OK(g[j])
  <2>1. OneMore(g[j - 1], packets[j], g[j])
    BY <1>6
  <2>2. packets[j].seq \in Nat /\ packets[j].seq < SeqSpan
    BY <1>3
  <2>3. Told(g[j].history, g[j].told, c)
    BY <1>8, <2>1, ToldOneMore
  <2>4. /\ g[j].ulast \in Int /\ Bits(g[j].history)
        /\ \A n \in 1..MaxPackets : g[j].told[n] = "received" =>
             g[j - 1].told[n] = "received"
             \/ (packets[j].received /\ packets[j].seq = Wire(n))
    BY <1>8, <2>1, <2>2, BitsOneMore
  <2>5. ASSUME NEW n \in 1..MaxPackets, g[j].told[n] = "received"
        PROVE  told[n] = "received" \/ Said2(n)
    BY <1>8, <2>4, <2>5
  <2> QED
    BY <2>3, <2>4, <2>5
<1>9. OK(g[L])
  <2> HIDE DEF OK
  <2>1. 0 \in S /\ \A j \in 1..L : j - 1 \in S => j \in S
    BY <1>7, <1>8
  <2> HIDE DEF S
  <2>2. \A j \in 0..L : j \in S
    BY <2>1, IntervalInduction, Zenon
  <2>3. L \in S
    BY <2>2
  <2> QED
    BY <2>3 DEF S
<1> QED
  BY <1>1, <1>2, <1>4, <1>5, <1>9

StreamInv ==
  /\ Streams(dhistory, dlast, created, heard) /\ Bits(history)
  /\ AcksReachTheStreams

LEMMA StreamStep ==
  ASSUME NetInv, ProxyInv, ToldInv, CountedInv, StreamInv, [Next]_vars
  PROVE  StreamInv'
<1>0. /\ created \in Nat /\ created \in 0..MaxPackets /\ MaxPackets \in Nat
      /\ StreamPackets = MaxPackets /\ kMaxPacketsInHistory \in Nat
  BY AdapterAssumption, FeedbackAssumption, HalfFacts DEF NetInv
<1>1. CASE SendPacket
  <2> DEFINE s == Unwrap(ulast, Wire(created + 1))
             k == Restrict(history, DOMAIN history \ Expired(history, SenderTime))
             p == [n |-> created + 1, route |-> route, created |-> SenderTime, sent |-> FALSE]
  <2>1. /\ created' = created + 1 /\ told' = told
        /\ history' = Inserted(k, s, p)
        /\ DemuxerAddPacket(created + 1, Wire(created + 1))
    BY <1>1 DEF SendPacket, AdapterAddPacket
  <2>2. Streams(dhistory', dlast', created + 1, heard') /\ heard' = heard
    BY <1>0, <2>1, StreamsAdd DEF StreamInv, DemuxerAddPacket
  <2>3. Bits(history')
    <3>1. s % SeqSpan = Wire(created + 1)
      <4>1. Wire(created + 1) \in Nat /\ Wire(created + 1) < SeqSpan
        BY <1>0, WireIsNat
      <4> QED
        BY <4>1, UnwrapKeepsBits DEF CountedInv
    <3> HIDE DEF s
    <3>2. DOMAIN k \subseteq DOMAIN history /\ \A t \in DOMAIN k : k[t] = history[t]
      BY DEF Restrict
    <3> HIDE DEF k
    <3>3. p.n = created + 1
      OBVIOUS
    <3> HIDE DEF p
    <3>4. /\ DOMAIN Inserted(k, s, p) = DOMAIN k \cup {s}
          /\ \A t \in DOMAIN k \cup {s} :
               Inserted(k, s, p)[t] = IF t \in DOMAIN k THEN k[t] ELSE p
      BY DEF Inserted
    <3> QED
      BY <2>1, <3>1, <3>2, <3>3, <3>4 DEF StreamInv, Bits
  <2>4. AcksReachTheStreams'
    <3>1. ASSUME NEW n \in 1..MaxPackets, n <= created - kMaxPacketsInHistory
          PROVE  n <= created' - kMaxPacketsInHistory
      BY <1>0, <2>1, <3>1
    <3>2. \A n \in 1..MaxPackets : told[n] = "received" =>
            TRUE \in heard[n] \/ n <= created - kMaxPacketsInHistory
      BY DEF StreamInv, AcksReachTheStreams
    <3>3. told' = told /\ heard' = heard
      BY <2>1, <2>2
    <3>4. \A n \in 1..MaxPackets : told'[n] = "received" =>
            TRUE \in heard'[n] \/ n <= created' - kMaxPacketsInHistory
      BY <3>1, <3>2, <3>3, Zenon
    <3> QED
      BY <3>4 DEF AcksReachTheStreams
  <2> QED
    BY <2>1, <2>2, <2>3, <2>4 DEF StreamInv
<1>2. CASE SendFeedback
  BY <1>2 DEF SendFeedback, StreamInv, AcksReachTheStreams, adapterVars, demuxerVars, netVars
<1>3. CASE ChangeRoute
  BY <1>3 DEF ChangeRoute, SetNetworkRoute, StreamInv, AcksReachTheStreams, demuxerVars
<1>4. CASE ChangeMode
  BY <1>4 DEF ChangeMode, StreamInv, AcksReachTheStreams, adapterVars, demuxerVars
<1>5. CASE Tick
  BY <1>5 DEF Tick, StreamInv, AcksReachTheStreams, adapterVars, demuxerVars
<1>6. ASSUME NEW n \in 1..MaxPackets, OnSentPacket(n) PROVE StreamInv'
  <2> DEFINE s == Unwrap(ulast, Wire(n))
  <2>1. /\ created' = created /\ told' = told /\ UNCHANGED demuxerVars
        /\ \/ s \in DOMAIN history /\ history' = [history EXCEPT ![s].sent = TRUE]
           \/ history' = history
    BY <1>6 DEF OnSentPacket, ProcessSentPacket
  <2> HIDE DEF s
  <2>2. Bits(history')
    <3>1. CASE history' = history
      BY <3>1 DEF StreamInv
    <3>2. CASE s \in DOMAIN history /\ history' = [history EXCEPT ![s].sent = TRUE]
      <4> DEFINE p == [history[s] EXCEPT !.sent = TRUE]
      <4>1. history[s] \in Packet
        BY <3>2 DEF ToldInv, Told
      <4>2. p.n = history[s].n
        BY <4>1 DEF Packet
      <4>3. history' = [history EXCEPT ![s] = p]
        BY <3>2
      <4> HIDE DEF p
      <4>4. /\ DOMAIN history' = DOMAIN history
            /\ \A t \in DOMAIN history : history'[t].n = history[t].n
        BY <3>2, <4>2, <4>3
      <4> QED
        BY <4>4 DEF StreamInv, Bits
    <3> QED
      BY <2>1, <3>1, <3>2
  <2> QED
    BY <2>1, <2>2 DEF StreamInv, AcksReachTheStreams, demuxerVars
<1>7. ASSUME NEW n \in 1..MaxPackets, Deliver(n) PROVE StreamInv'
  BY <1>7 DEF Deliver, StreamInv, AcksReachTheStreams, adapterVars, demuxerVars
<1>8. ASSUME NEW f \in feedback, DeliverFeedback(f) PROVE StreamInv'
  <2>1. /\ IsMessage(f) /\ OnTransportFeedback(f) /\ ProcessTransportFeedback(f, SenderTime)
        /\ created' = created
    BY <1>8 DEF ProxyInv, DeliverFeedback
  <2>2. /\ Streams(dhistory', dlast', created, heard')
        /\ \A n \in 1..created : TRUE \in heard[n] => TRUE \in heard'[n]
        /\ \A n \in 1..created : \A i \in 1..f.count :
             /\ n > created - kMaxPacketsInHistory
             /\ Parse(f, SeqSpan)[i].received /\ Parse(f, SeqSpan)[i].seq = Wire(n)
             => TRUE \in heard'[n]
    BY <1>0, <2>1, StreamsReport DEF StreamInv
  <2>3. /\ Bits(history')
        /\ \A n \in 1..MaxPackets : told'[n] = "received" =>
              \/ told[n] = "received"
              \/ \E i \in 1..f.count : /\ Parse(f, SeqSpan)[i].received
                                       /\ Parse(f, SeqSpan)[i].seq = Wire(n)
    BY <1>0, <2>1, ToldIsReported DEF ToldInv, CountedInv, StreamInv
  <2>4. ToldInv'
    BY ToldStep
  <2>5. ASSUME NEW n \in 1..MaxPackets, told'[n] = "received"
        PROVE  TRUE \in heard'[n] \/ n <= created - kMaxPacketsInHistory
    <3>1. n \in 1..created
      BY <1>0, <2>1, <2>4, <2>5 DEF ToldInv, Told
    <3>2. CASE told[n] = "received"
      BY <2>2, <3>1, <3>2 DEF StreamInv, AcksReachTheStreams
    <3>3. CASE told[n] # "received" /\ n > created - kMaxPacketsInHistory
      BY <2>2, <2>3, <2>5, <3>1, <3>3
    <3>4. n > created - kMaxPacketsInHistory \/ n <= created - kMaxPacketsInHistory
      BY <1>0
    <3> QED
      BY <3>2, <3>3, <3>4, Zenon
  <2> QED
    BY <2>1, <2>2, <2>3, <2>5 DEF StreamInv, AcksReachTheStreams
<1>9. CASE UNCHANGED vars
  BY <1>9 DEF vars, StreamInv, AcksReachTheStreams, adapterVars, demuxerVars, netVars
<1> QED
  BY <1>1, <1>2, <1>3, <1>4, <1>5, <1>6, <1>7, <1>8, <1>9 DEF Next

LEMMA StreamStart ==
  ASSUME Init
  PROVE  StreamInv
<1>1. /\ dhistory = <<>> /\ dlast = None /\ history = <<>> /\ created = 0
      /\ told = [n \in 1..MaxPackets |-> "nothing"]
  BY DEF Init, DemuxerInit, AdapterInit
<1>2. Streams(dhistory, dlast, created, heard)
  BY <1>1 DEF Streams
<1>3. Bits(history)
  BY <1>1 DEF Bits
<1> QED
  BY <1>1, <1>2, <1>3 DEF StreamInv, AcksReachTheStreams

(* Whenever the controller is told that a packet was received, so is the   *)
(* packet's stream, unless kMaxPacketsInHistory later packets have pushed  *)
(* it out of the demuxer's history; for any number of packets and wraps,   *)
(* since that history is shorter than half the span of the numbers.  The   *)
(* two unwrappers may differ: that of the adapter follows the feedback,    *)
(* that of the demuxer only the packets.                                   *)
THEOREM StreamsHearOfAcks == Spec => []AcksReachTheStreams
<1> DEFINE Inv == NetInv /\ ProxyInv /\ ToldInv /\ CountedInv /\ StreamInv
<1>1. Init => Inv
  BY ProxyStart, ToldStart, CountedStart, StreamStart
<1>2. Inv /\ [Next]_vars => Inv'
  BY NetStep, ProxyStep, ToldStep, CountedStep, StreamStep
<1>3. Inv => AcksReachTheStreams
  BY DEF StreamInv
<1> HIDE DEF Inv
<1> QED
  BY <1>1, <1>2, <1>3, PTL DEF Spec

-----------------------------------------------------------------------------
(* The clocks of a message.  Base is the time a message has, before it is  *)
(* wrapped to the bits of the reference time.                              *)

Base(time) == WrapPeriod * (time \div WrapPeriod) + BaseTime(time) * BaseScale

LEMMA BaseFacts ==
  ASSUME NEW time \in Nat
  PROVE  /\ Base(time) \in Nat /\ BaseTime(time) \in Nat /\ BaseTime(time) < TimeWrap
         /\ Base(time) <= time /\ time - Base(time) <= BaseScale - 1
         /\ time \div WrapPeriod \in Nat
         /\ BaseTime(time) * BaseScale
              = Base(time) - WrapPeriod * (time \div WrapPeriod)
<1> DEFINE W == WrapPeriod
           q == time \div W
           r == time % W
           k == r \div BaseScale
           e == r % BaseScale
<1>0. BaseScale \in Nat \ {0} /\ TimeWrap \in Nat \ {0}
  BY PacketAssumption
<1>1. W \in Nat \ {0} /\ W = TimeWrap * BaseScale
  BY WrapPeriodFacts DEF WrapPeriod
<1> HIDE DEF W
<1>2. q \in Nat /\ r \in Nat /\ r < W /\ time = W * q + r
  BY <1>1, Remainder
<1> HIDE DEF q, r
<1>3. k \in Nat /\ e \in Nat /\ e < BaseScale /\ r = BaseScale * k + e
  BY <1>0, <1>2, Remainder
<1>4. BaseTime(time) = k
  BY DEF BaseTime, W, r
<1> HIDE DEF k, e
<1>5. k * BaseScale \in Nat /\ k * BaseScale = BaseScale * k /\ W * q \in Nat
  BY <1>0, <1>1, <1>2, <1>3
<1>6. Base(time) = W * q + k * BaseScale
  BY <1>4 DEF Base, W, q
<1>7. k < TimeWrap
  <2>1. SUFFICES ASSUME TimeWrap <= k PROVE FALSE
    BY <1>0, <1>3
  <2>2. TimeWrap * BaseScale <= k * BaseScale
    BY <1>0, <1>3, <2>1
  <2> QED
    BY <1>1, <1>2, <1>3, <1>5, <2>2
<1> QED
  BY <1>0, <1>2, <1>3, <1>4, <1>5, <1>6, <1>7 DEF W, q

(* A delta is the difference of the two times when they are less than half *)
(* a wrap apart, although the time of the packet before may be wrapped.    *)
LEMMA DeltaIsExact ==
  ASSUME NEW t \in Int, NEW u \in Int, NEW last \in Int, NEW k \in Nat,
         last = u - WrapPeriod * k,
         2 * (t - u) < WrapPeriod, -WrapPeriod < 2 * (t - u)
  PROVE  Delta(t, last) = t - u
<1> DEFINE W == WrapPeriod
           x == t - u
           a == t - last
           full == Rem(a, W)
<1>1. W \in Nat \ {0} /\ x \in Int /\ W * k \in Nat
  BY WrapPeriodFacts
<1>2. a = W * k + x /\ 2 * x < W /\ -W < 2 * x
  BY <1>1
<1>3. Delta(t, last) = IF full > W \div 2 THEN full - W ELSE full
  BY DEF Delta
<1>4. W \div 2 \in Nat /\ 2 * (W \div 2) <= W /\ W <= 2 * (W \div 2) + 1
  BY <1>1
<1> HIDE DEF W, x, a
<1>5. CASE x >= 0
  <2>1. a >= 0 /\ x \in Nat /\ x < W
    BY <1>1, <1>2, <1>5
  <2>2. a % W = x
    BY <1>1, <1>2, <2>1, FloorIsUnique
  <2>3. full = x
    BY <2>1, <2>2 DEF Rem
  <2>4. ~(x > W \div 2)
    BY <1>1, <1>2, <1>4
  <2> QED
    BY <1>3, <2>3, <2>4 DEF x
<1>6. CASE x < 0 /\ k = 0
  <2>1. a = x /\ ~(a >= 0)
    BY <1>1, <1>2, <1>6
  <2>2. -x \in Nat /\ -x < W /\ W * 0 + (-x) = -x
    BY <1>1, <1>2, <1>6
  <2>3. (-x) % W = -x
    <3>1. (W * 0 + (-x)) % W = -x
      BY <1>1, <2>2, FloorIsUnique
    <3> QED
      BY <2>2, <3>1
  <2>4. full = x
    BY <1>1, <2>1, <2>3 DEF Rem
  <2> QED
    BY <1>1, <1>3, <1>4, <1>6, <2>4 DEF x
<1>7. CASE x < 0 /\ k # 0
  <2>1. k - 1 \in Nat /\ W * k = W * (k - 1) + W /\ W * (k - 1) \in Nat
    BY <1>1, <1>7
  <2>2. x + W \in Nat /\ x + W < W /\ a = W * (k - 1) + (x + W)
    BY <1>1, <1>2, <1>7, <2>1
  <2>3. a % W = x + W /\ a >= 0
    <3>1. PICK y \in Nat : y = x + W /\ y < W
      BY <2>2
    <3>2. PICK j \in Int : j = k - 1
      BY <2>1
    <3>3. (W * j + y) % W = y
      BY <1>1, <3>1, <3>2, FloorIsUnique
    <3> QED
      BY <2>1, <2>2, <3>1, <3>2, <3>3
  <2>4. full = x + W
    BY <2>3 DEF Rem
  <2>5. x + W > W \div 2
    BY <1>1, <1>2, <1>4
  <2> QED
    BY <1>1, <1>3, <2>4, <2>5 DEF x
<1> QED
  BY <1>1, <1>5, <1>6, <1>7

(* What GetBaseDelta makes of the 24 bits. *)
LEMMA ParsedTimeFacts ==
  ASSUME NEW f, NEW time \in Nat, f.time = BaseTime(time)
  PROVE  /\ ParsedTime(f) \in Int
         /\ -WrapPeriod <= 2 * ParsedTime(f) /\ 2 * ParsedTime(f) < WrapPeriod
         /\ \E z \in Int : Base(time) = ParsedTime(f) + WrapPeriod * z
<1>0. PICK b \in Nat : b = BaseTime(time) /\ b < TimeWrap
  BY BaseFacts
<1>1. PICK q \in Nat : q = time \div WrapPeriod
  BY BaseFacts
<1>2. BaseScale \in Nat \ {0} /\ TimeWrap \in Nat \ {0}
  BY PacketAssumption
<1>3. WrapPeriod \in Nat \ {0} /\ WrapPeriod = BaseScale * TimeWrap
  BY <1>2, WrapPeriodFacts DEF WrapPeriod
<1>4. b * BaseScale = BaseScale * b /\ BaseScale * b \in Nat
  BY <1>2
<1>5. Base(time) = WrapPeriod * q + BaseScale * b
  BY <1>0, <1>1, <1>4 DEF Base
<1>6. CASE 2 * b >= TimeWrap
  <2>1. ParsedTime(f) = BaseScale * (b - TimeWrap)
    BY <1>0, <1>6 DEF ParsedTime
  <2>2. BaseScale * (b - TimeWrap) = BaseScale * b - WrapPeriod
    BY <1>2, <1>3
  <2>3. BaseScale * (2 * b) >= BaseScale * TimeWrap
    BY <1>2, <1>6
  <2>4. BaseScale * (2 * b) = 2 * (BaseScale * b)
    BY <1>2
  <2>5. BaseScale * b <= BaseScale * TimeWrap
    BY <1>0, <1>2
  <2>6. PICK p \in Int : p = ParsedTime(f) /\ p = BaseScale * b - WrapPeriod
    BY <1>3, <1>4, <2>1, <2>2
  <2>7. -WrapPeriod <= 2 * p /\ 2 * p < WrapPeriod
    BY <1>3, <1>4, <2>3, <2>4, <2>5, <2>6
  <2>8. q + 1 \in Int /\ WrapPeriod * (q + 1) = WrapPeriod * q + WrapPeriod
    BY <1>3
  <2>9. Base(time) = p + WrapPeriod * (q + 1)
    BY <1>3, <1>4, <1>5, <2>6, <2>8
  <2> QED
    BY <2>6, <2>7, <2>8, <2>9
<1>7. CASE ~(2 * b >= TimeWrap)
  <2>1. ParsedTime(f) = BaseScale * b
    BY <1>0, <1>7 DEF ParsedTime
  <2>2. BaseScale * (2 * b) < BaseScale * TimeWrap
    <3>1. 2 * b + 1 <= TimeWrap
      BY <1>2, <1>7
    <3>2. BaseScale * (2 * b + 1) <= BaseScale * TimeWrap
      BY <1>2, <3>1
    <3>3. BaseScale * (2 * b + 1) = BaseScale * (2 * b) + BaseScale
      BY <1>2
    <3> QED
      BY <1>2, <3>2, <3>3
  <2>3. BaseScale * (2 * b) = 2 * (BaseScale * b)
    BY <1>2
  <2>4. PICK p \in Nat : p = ParsedTime(f) /\ p = BaseScale * b
    BY <1>4, <2>1
  <2>5. -WrapPeriod <= 2 * p /\ 2 * p < WrapPeriod
    BY <1>3, <2>2, <2>3, <2>4
  <2>6. Base(time) = p + WrapPeriod * q
    BY <1>3, <1>5, <2>4
  <2> QED
    BY <2>4, <2>5, <2>6
<1> QED
  BY <1>6, <1>7

(* GetBaseDelta is the difference of the two times when they are less than *)
(* half a wrap apart.                                                      *)
LEMMA BaseDeltaIsExact ==
  ASSUME NEW f, NEW prev \in Int, NEW p \in Int, p = ParsedTime(f),
         -WrapPeriod <= 2 * p, 2 * p < WrapPeriod,
         -WrapPeriod <= 2 * prev, 2 * prev < WrapPeriod,
         NEW a \in Int, NEW b \in Int, NEW y \in Int, NEW z \in Int,
         a = p + WrapPeriod * y, b = prev + WrapPeriod * z,
         2 * (a - b) < WrapPeriod, -WrapPeriod < 2 * (a - b)
  PROVE  BaseDelta(f, prev) = a - b
<1>1. PICK W \in Nat \ {0} : W = WrapPeriod
  BY WrapPeriodFacts
<1>2. PICK x \in Int : x = z - y
  OBVIOUS
<1>3. PICK d \in Int : d = p - prev
  OBVIOUS
<1>4. PICK e \in Int : e = a - b
  OBVIOUS
<1>5. W * z = W * y + W * x /\ W * x \in Int /\ W * y \in Int /\ W * z \in Int
  BY <1>1, <1>2
<1>6. d = e + W * x
  <2>1. PICK i \in Int, j \in Int, m \in Int : i = W * y /\ j = W * z /\ m = W * x
    BY <1>5
  <2>2. a = p + i /\ b = prev + j /\ j = i + m
    BY <1>1, <1>5, <2>1
  <2>3. d = e + m
    BY ONLY <1>3, <1>4, <2>2
  <2> QED
    BY <2>1, <2>3
<1>7. -W < d /\ d < W /\ 2 * e < W /\ -W < 2 * e
  BY <1>1, <1>3, <1>4
<1>8. x \in {-1, 0, 1}
  <2>1. CASE x >= 2
    <3>1. W * x >= W * 2
      BY <1>1, <2>1
    <3> QED
      BY <1>1, <1>5, <1>6, <1>7, <3>1
  <2>2. CASE x <= -2
    <3>1. W * x <= W * (-2)
      BY <1>1, <2>2
    <3> QED
      BY <1>1, <1>5, <1>6, <1>7, <3>1
  <2> QED
    BY <2>1, <2>2
<1>9. d \in {e - W, e, e + W}
  BY <1>1, <1>6, <1>8
<1>10. BaseDelta(f, prev)
         = IF (IF d - W < 0 THEN -(d - W) ELSE d - W) < (IF d < 0 THEN -d ELSE d)
             THEN d - W
           ELSE IF (IF d + W < 0 THEN -(d + W) ELSE d + W) < (IF d < 0 THEN -d ELSE d)
             THEN d + W
           ELSE d
  BY <1>1, <1>3 DEF BaseDelta
<1>11. BaseDelta(f, prev) = e
  BY <1>1, <1>7, <1>9, <1>10
<1> QED
  BY <1>4, <1>11

-----------------------------------------------------------------------------
(* The deltas of a message whose packets arrived within half a wrap *)

(* All times from lo to hi, and those messages have, are within half a     *)
(* wrap.                                                                   *)
Within(lo, hi) ==
  lo \in Nat /\ hi \in Nat /\ lo <= hi /\ 2 * (hi - lo + BaseScale - 1) < WrapPeriod

(* The time that a message has reached after its jth received packet. *)
Reach(at, j) == IF j = 0 THEN Base(at[1].time) ELSE at[j].time

Exact(at, n, p) ==
  /\ \A j \in 1..Len(p.deltas) : p.deltas[j] = Reach(at, j) - Reach(at, j - 1)
  /\ p.last = Reach(at, Len(p.deltas)) - WrapPeriod * (at[1].time \div WrapPeriod)
  /\ ~p.full => Len(p.deltas) = n

(* The times reached by two packets one after the other. *)
LEMMA ReachIsNear ==
  ASSUME NEW lo, NEW hi, Within(lo, hi), NEW at, NEW n \in Nat \ {0},
         \A i \in 1..n : at[i].time \in lo..hi
  PROVE  /\ Reach(at, n) \in Nat /\ Reach(at, n - 1) \in Nat
         /\ 2 * (Reach(at, n) - Reach(at, n - 1)) < WrapPeriod
         /\ -WrapPeriod < 2 * (Reach(at, n) - Reach(at, n - 1))
<1>0. /\ lo \in Nat /\ hi \in Nat /\ lo <= hi /\ 2 * (hi - lo + BaseScale - 1) < WrapPeriod
      /\ BaseScale \in Nat \ {0} /\ WrapPeriod \in Nat
  BY PacketAssumption, WrapPeriodFacts DEF Within
<1>1. PICK t \in lo..hi : t = at[n].time /\ t = Reach(at, n)
  <2>1. n \in 1..n /\ n # 0
    OBVIOUS
  <2> QED
    BY <2>1 DEF Reach
<1>2. CASE n = 1
  <2>1. PICK u \in Nat : u = Reach(at, n - 1) /\ u <= t /\ t - u <= BaseScale - 1
    <3>1. t \in Nat
      BY <1>0
    <3>2. Reach(at, n - 1) = Base(t)
      BY <1>1, <1>2 DEF Reach
    <3> QED
      BY <3>1, <3>2, BaseFacts
  <2> QED
    BY <1>0, <1>1, <2>1
<1>3. CASE n # 1
  <2>1. n - 1 \in 1..n /\ n - 1 # 0
    BY <1>3
  <2>2. PICK u \in lo..hi : u = Reach(at, n - 1)
    BY <2>1 DEF Reach
  <2> QED
    BY <1>0, <1>1, <2>2
<1> QED
  BY <1>2, <1>3

LEMMA AddOneExact ==
  ASSUME NEW lo, NEW hi, Within(lo, hi), NEW at, NEW n \in Nat \ {0}, at[n] \in Pkt,
         \A i \in 1..n : at[i].time \in lo..hi,
         NEW p \in Sums(n - 1), Exact(at, n - 1, p)
  PROVE  Exact(at, n, AddOne(at, TRUE, p, n))
<1> DEFINE d == Delta(at[n].time, p.last)
<1>1. /\ p \in [deltas : Seq(Int), last : Int, full : BOOLEAN]
      /\ p.deltas \in Seq(Int) /\ Len(p.deltas) \in Nat /\ p.last \in Int
  BY DEF Sums
<1>2. CASE p.full \/ ~Fits(d)
  <2> DEFINE q == [p EXCEPT !.full = TRUE]
  <2>1. AddOne(at, TRUE, p, n) = q
    BY <1>2 DEF AddOne
  <2>2. q.deltas = p.deltas /\ q.last = p.last /\ q.full
    BY <1>1
  <2> HIDE DEF q
  <2>3. Exact(at, n, q)
    BY <2>2 DEF Exact
  <2> QED
    BY <2>1, <2>3
<1>3. CASE ~(p.full \/ ~Fits(d))
  <2>0. PICK k \in Nat, t \in Nat, u \in Nat :
          /\ k = at[1].time \div WrapPeriod /\ t = at[n].time /\ t = Reach(at, n)
          /\ u = Reach(at, n - 1)
    <3>1. at[1].time \in Nat
      <4>1. 1 \in 1..n /\ lo \in Nat
        BY DEF Within
      <4> QED
        BY <4>1
    <3>2. at[1].time \div WrapPeriod \in Nat
      BY <3>1, BaseFacts
    <3>3. Reach(at, n) \in Nat /\ Reach(at, n - 1) \in Nat
      BY ReachIsNear
    <3>4. Reach(at, n) = at[n].time
      BY DEF Reach
    <3> QED
      BY <3>2, <3>3, <3>4
  <2>1. Len(p.deltas) = n - 1
    BY <1>3 DEF Exact
  <2>2. p.last = u - WrapPeriod * k
    BY <2>0, <2>1 DEF Exact
  <2>3. d = t - u
    <3>1. 2 * (t - u) < WrapPeriod /\ -WrapPeriod < 2 * (t - u)
      BY <2>0, ReachIsNear
    <3> QED
      BY <1>1, <2>0, <2>2, <3>1, DeltaIsExact, SMTT(30)
  <2>4. d \in Int
    BY <2>0, <2>3
  <2> DEFINE w == Append(p.deltas, d)
             e == p.last + d
             q == [p EXCEPT !.deltas = w, !.last = e]
  <2>5. AddOne(at, TRUE, p, n) = q
    BY <1>3 DEF AddOne
  <2>6. /\ Len(w) = n /\ w[n] = d /\ \A j \in 1..n - 1 : w[j] = p.deltas[j]
    BY <1>1, <2>1, <2>4, AppendProperties
  <2>7. e = t - WrapPeriod * k
    BY <2>0, <2>2, <2>3, WrapPeriodFacts
  <2> HIDE DEF w, e, d
  <2>8. q.deltas = w /\ q.last = e
    BY <1>1
  <2> HIDE DEF q
  <2>9. ASSUME NEW j \in 1..n PROVE w[j] = Reach(at, j) - Reach(at, j - 1)
    <3>1. CASE j = n
      BY <2>0, <2>3, <2>6, <3>1
    <3>2. CASE j # n
      <4>1. j \in 1..n - 1
        BY <3>2
      <4> QED
        BY <2>1, <2>6, <4>1 DEF Exact
    <3> QED
      BY <3>1, <3>2
  <2>10. Exact(at, n, q)
    BY <2>0, <2>6, <2>7, <2>8, <2>9 DEF Exact
  <2> QED
    BY <2>5, <2>10
<1> QED
  BY <1>2, <1>3

LEMMA DeltasAreExact ==
  ASSUME NEW lo, NEW hi, Within(lo, hi), NEW at \in Seq(Pkt), at # <<>>,
         \A i \in 1..Len(at) : at[i].time \in lo..hi
  PROVE  \A j \in 1..Len(Deltas(at, TRUE)) :
           Deltas(at, TRUE)[j] = Reach(at, j) - Reach(at, j - 1)
<1>0. PICK L \in Nat : L = Len(at)
  BY LenProperties
<1> DEFINE g == Added(at, TRUE, L)
           S == {n \in 0..L : g[n] \in Sums(n) /\ Exact(at, n, g[n])}
<1>1. L > 0 /\ \A n \in 1..L : at[n] \in Pkt
  BY <1>0, ElementOfSeq, EmptySeq
<1>2. Deltas(at, TRUE) = g[L].deltas
  BY <1>0, DeltasIsAdded
<1>3. g[0] = NoDeltas(at) /\ \A n \in 1..L : g[n] = AddOne(at, TRUE, g[n - 1], n)
  BY AddedTurns
<1> HIDE DEF g
<1>4. 0 \in S
  <2>1. at[1].time \in Nat
    BY <1>1 DEF Pkt
  <2>2. BaseTime(at[1].time) * BaseScale \in Int
    BY <2>1, FirstFits
  <2>3. NoDeltas(at) \in Sums(0)
    BY <2>2, EmptySeq DEF NoDeltas, Sums
  <2>4. /\ NoDeltas(at).deltas = <<>> /\ Len(<<>>) = 0
        /\ NoDeltas(at).last = BaseTime(at[1].time) * BaseScale
    BY EmptySeq DEF NoDeltas
  <2>5. NoDeltas(at).last = Reach(at, 0) - WrapPeriod * (at[1].time \div WrapPeriod)
    BY <2>1, <2>4, BaseFacts DEF Reach
  <2>6. Exact(at, 0, NoDeltas(at))
    BY <2>4, <2>5 DEF Exact
  <2> QED
    BY <1>1, <1>3, <2>3, <2>6
<1>5. ASSUME NEW n \in 1..L, n - 1 \in S PROVE n \in S
  <2>1. /\ g[n - 1] \in Sums(n - 1) /\ Exact(at, n - 1, g[n - 1])
        /\ at[n] \in Pkt /\ n \in Nat \ {0} /\ TRUE \in BOOLEAN
    BY <1>1, <1>5
  <2>2. n = 1 => g[n - 1] = NoDeltas(at)
    BY <1>3
  <2>3. g[n] = AddOne(at, TRUE, g[n - 1], n)
    BY <1>3
  <2>4. g[n] \in Sums(n)
    BY <2>1, <2>2, <2>3, AddOneSums
  <2>5. \A i \in 1..n : at[i].time \in lo..hi
    BY <1>0
  <2>6. Exact(at, n, g[n])
    BY <2>1, <2>3, <2>5, AddOneExact
  <2> QED
    BY <2>4, <2>6
<1>6. L \in S
  <2> HIDE DEF S
  <2>1. \A n \in 0..L : n \in S
    BY <1>4, <1>5, IntervalInduction, Zenon
  <2> QED
    BY <2>1
<1> QED
  BY <1>2, <1>6 DEF Exact

-----------------------------------------------------------------------------
(* The arrival times behind a message *)

(* A message about packets that arrived from lo to hi and whose numbers    *)
(* differ by less than the span.                                           *)
Dated(f, lo, hi) ==
  \E from \in Int, timestamps \in BOOLEAN : \E at :
    /\ Arrived(from, at) /\ f = Message(from, at, timestamps, SeqSpan)
    /\ \A i \in 1..Len(at) : at[i].time \in lo..hi
    /\ \A i, j \in 1..Len(at) : at[i].seq - at[j].seq < SeqSpan

LEMMA SameNumber ==
  ASSUME NEW a \in Int, NEW b \in Int, NEW N \in Nat \ {0}, a % N = b % N,
         a - b < N, b - a < N
  PROVE  a = b
<1>1. PICK q \in Int, p \in Int, r \in Nat, s \in Nat :
        /\ q = a \div N /\ p = b \div N /\ r = a % N /\ s = b % N
        /\ a = N * q + r /\ b = N * p + s
  <2>1. a % N \in Nat /\ a \div N \in Int /\ a = N * (a \div N) + (a % N)
    BY Floor
  <2>2. b % N \in Nat /\ b \div N \in Int /\ b = N * (b \div N) + (b % N)
    BY Floor
  <2> QED
    BY <2>1, <2>2, Zenon
<1>2. r = s
  BY <1>1
<1>3. PICK x \in Int : x = q - p
  OBVIOUS
<1>4. PICK y \in Int : y = N * x
  OBVIOUS
<1>5. N * q = N * p + N * x
  BY <1>3
<1>6. a - b = y
  <2>1. PICK i \in Int, j \in Int : i = N * q /\ j = N * p
    OBVIOUS
  <2>2. a = i + r /\ b = j + r /\ i = j + y
    BY <1>1, <1>2, <1>4, <1>5, <2>1
  <2> QED
    BY ONLY <2>2
<1>7. -N < y /\ y < N
  BY ONLY <1>6, a - b < N, b - a < N, N \in Nat
<1>8. CASE x >= 1
  <2>1. N * x >= N * 1
    BY <1>8
  <2> QED
    BY <1>4, <1>7, <2>1
<1>9. CASE x <= -1
  <2>1. N * x <= N * (-1)
    BY <1>9
  <2> QED
    BY <1>4, <1>7, <2>1
<1>10. CASE x = 0
  <2>1. y = 0
    BY <1>4, <1>10
  <2> QED
    BY <1>6, <2>1
<1> QED
  BY <1>8, <1>9, <1>10

(* What a message says of the times is exact. *)
Timed(f, lo, hi) ==
  /\ f.timestamps \in BOOLEAN
  /\ f.time = BaseTime(f.built[1].time)
  /\ \A j \in 1..Len(f.built) : f.built[j].time \in lo..hi
  /\ f.timestamps => \A j \in 1..Len(f.built) :
                        f.deltas[j] = Reach(f.built, j) - Reach(f.built, j - 1)
  /\ \A i, j \in 1..Len(f.built) :
       f.built[i].seq % SeqSpan = f.built[j].seq % SeqSpan => i = j

LEMMA DatedIsTimed ==
  ASSUME NEW lo, NEW hi, Within(lo, hi), NEW f, Dated(f, lo, hi)
  PROVE  IsMessage(f) /\ Timed(f, lo, hi)
<1>1. PICK from \in Int, timestamps \in BOOLEAN : \E at :
        /\ Arrived(from, at) /\ f = Message(from, at, timestamps, SeqSpan)
        /\ \A i \in 1..Len(at) : at[i].time \in lo..hi
        /\ \A i, j \in 1..Len(at) : at[i].seq - at[j].seq < SeqSpan
  BY DEF Dated
<1>2. PICK at :
        /\ Arrived(from, at) /\ f = Message(from, at, timestamps, SeqSpan)
        /\ \A i \in 1..Len(at) : at[i].time \in lo..hi
        /\ \A i, j \in 1..Len(at) : at[i].seq - at[j].seq < SeqSpan
  BY <1>1
<1>3. /\ at \in Seq(Pkt) /\ at # <<>>
      /\ \A i, j \in 1..Len(at) : i < j => at[i].seq < at[j].seq
  BY <1>2 DEF Arrived
<1>4. /\ f.deltas = Deltas(at, timestamps)
      /\ f.built \in Seq(Pkt) /\ Len(f.built) = Len(f.deltas)
      /\ Len(f.built) \in 1..Len(at) /\ DOMAIN f.built = 1..Len(f.built)
      /\ \A i \in 1..Len(f.built) : f.built[i] = at[i]
  BY <1>2, <1>3, BuiltFacts
<1>5. f.timestamps = timestamps /\ f.time = BaseTime(at[1].time)
  BY <1>2 DEF Message
<1>6. PICK K \in Nat \ {0} : K = Len(f.built) /\ K <= Len(at) /\ Len(at) \in Nat
  BY <1>3, <1>4, LenProperties
<1>7. \A i \in 1..K : i \in 1..Len(at) /\ f.built[i] = at[i]
  BY <1>4, <1>6
<1>8. f.time = BaseTime(f.built[1].time)
  BY <1>5, <1>6, <1>7
<1>9. \A j \in 1..K : f.built[j].time \in lo..hi
  BY <1>2, <1>7
<1>10. ASSUME timestamps, NEW j \in 1..K
       PROVE  f.deltas[j] = Reach(f.built, j) - Reach(f.built, j - 1)
  <2>1. \A i \in 1..Len(Deltas(at, TRUE)) :
           Deltas(at, TRUE)[i] = Reach(at, i) - Reach(at, i - 1)
    BY <1>2, <1>3, DeltasAreExact
  <2>2. timestamps = TRUE
    BY <1>10
  <2>3. f.deltas[j] = Reach(at, j) - Reach(at, j - 1)
    BY <1>4, <1>6, <2>1, <2>2
  <2>4. 1 \in 1..K /\ j # 0 /\ (j - 1 # 0 => j - 1 \in 1..K)
    OBVIOUS
  <2>5. Reach(f.built, j) = Reach(at, j) /\ Reach(f.built, j - 1) = Reach(at, j - 1)
    BY <1>7, <2>4 DEF Reach
  <2> QED
    BY <2>3, <2>5
<1>11. ASSUME NEW i \in 1..K, NEW j \in 1..K,
              f.built[i].seq % SeqSpan = f.built[j].seq % SeqSpan
       PROVE  i = j
  <2>1. i \in 1..Len(at) /\ j \in 1..Len(at)
    BY <1>7
  <2>2. PICK a \in Int, b \in Int : a = at[i].seq /\ b = at[j].seq
    BY <1>3, <2>1, PacketSeq
  <2>3. a - b < SeqSpan /\ b - a < SeqSpan /\ a % SeqSpan = b % SeqSpan
    BY <1>2, <1>7, <1>11, <2>1, <2>2
  <2>4. a = b
    BY <2>3, SameNumber, SpanAssumption
  <2>5. ~(at[i].seq < at[j].seq) /\ ~(at[j].seq < at[i].seq)
    BY <2>2, <2>4
  <2>6. ~(i < j) /\ ~(j < i)
    BY <1>3, <2>1, <2>5, Zenon
  <2> QED
    BY <2>6
<1>12. IsMessage(f)
  BY <1>2 DEF IsMessage
<1>13. Timed(f, lo, hi)
  BY <1>5, <1>6, <1>8, <1>9, <1>10, <1>11 DEF Timed
<1> QED
  BY <1>12, <1>13

LEMMA DatedLater ==
  ASSUME NEW f, NEW lo \in Nat, NEW hi \in Nat, NEW later \in Nat, hi <= later,
         Dated(f, lo, hi)
  PROVE  Dated(f, lo, later)
<1>1. \A t \in lo..hi : t \in lo..later
  OBVIOUS
<1> QED
  BY <1>1, Zenon DEF Dated

-----------------------------------------------------------------------------
(* The receive times that the loop of ProcessTransportFeedback tells *)

(* The arrival times of the packets of a message by their numbers. *)
Arrivals(f) ==
  [q \in {f.built[i].seq % SeqSpan : i \in DOMAIN f.built} |->
     (CHOOSE p \in Range(f.built) : p.seq % SeqSpan = q).time]

LEMMA ArrivalsFacts ==
  ASSUME NEW lo, NEW hi, NEW f, IsMessage(f), Timed(f, lo, hi), NEW j \in 1..Len(f.built)
  PROVE  Arrivals(f)[f.built[j].seq % SeqSpan] = f.built[j].time
<1>1. PICK from \in Int : MessageParts(f, from)
  BY MessageHasParts
<1>2. DOMAIN f.built = 1..Len(f.built)
  BY <1>1 DEF MessageParts
<1>3. PICK q : q = f.built[j].seq % SeqSpan
  OBVIOUS
<1>4. Range(f.built) = {f.built[i] : i \in 1..Len(f.built)}
  BY <1>2 DEF Range
<1>5. \A p \in Range(f.built) : p.seq % SeqSpan = q => p = f.built[j]
  BY <1>3, <1>4 DEF Timed
<1>6. f.built[j] \in Range(f.built) /\ f.built[j].seq % SeqSpan = q
  BY <1>3, <1>4
<1>7. (CHOOSE p \in Range(f.built) : p.seq % SeqSpan = q) = f.built[j]
  BY <1>5, <1>6
<1>8. q \in {f.built[i].seq % SeqSpan : i \in DOMAIN f.built}
  BY <1>2, <1>3
<1> QED
  BY <1>3, <1>7, <1>8 DEF Arrivals

(* What one packet does to the times. *)
OneTime(a, packet, base, times, stamped, b) ==
  LET found == Unwrap(a.ulast, packet.seq) \in Sent(a.history)
  IN  /\ b.offset = IF found /\ packet.received THEN a.offset + packet.delta
                                                ELSE a.offset
      /\ b.missed = (a.missed \/ (packet.received /\ ~found))
      /\ \A k \in b.skews :
           \/ k \in a.skews
           \/ /\ ~a.missed /\ packet.received /\ found /\ stamped
              /\ k = base + (a.offset + packet.delta) - times[packet.seq]

LEMMA OnePacketIsOneTime ==
  ASSUME NEW a, NEW packet, NEW base, NEW times, NEW stamped
  PROVE  OneTime(a, packet, base, times, stamped,
                 OnePacket(a, packet, base, times, stamped))
<1> DEFINE s == Unwrap(a.ulast, packet.seq)
           found == s \in Sent(a.history)
           here == found /\ a.history[s].route = route
           sum == a.offset + packet.delta
           skew == IF here /\ packet.received /\ stamped
                     THEN {base + sum - times[packet.seq]} ELSE {}
           b == OnePacket(a, packet, base, times, stamped)
<1>1. /\ b.offset = IF found /\ packet.received THEN sum ELSE a.offset
      /\ b.missed = (a.missed \/ (packet.received /\ ~found))
      /\ b.skews = a.skews \cup (IF a.missed THEN {} ELSE skew)
  BY DEF OnePacket
<1> HIDE DEF b
<1>2. \A k \in skew : found /\ packet.received /\ stamped
                         /\ k = base + sum - times[packet.seq]
  OBVIOUS
<1> HIDE DEF skew
<1> QED
  BY <1>1, <1>2 DEF OneTime, b

LEMMA TimesTurns ==
  ASSUME NEW packets, NEW base, NEW times, NEW stamped, NEW start, NEW L \in Nat
  PROVE  \A n \in 1..L :
           OneTime(After(packets, base, times, stamped, start, L)[n - 1], packets[n],
                   base, times, stamped, After(packets, base, times, stamped, start, L)[n])
<1>0. PICK g : g = After(packets, base, times, stamped, start, L)
  OBVIOUS
<1> DEFINE One(a, i) == OnePacket(a, packets[i], base, times, stamped)
<1>1. IsAfter(packets, base, times, stamped, start, L, g)
  BY <1>0, AfterDef
<1>2. g = [n \in 0..L |-> IF n = 0 THEN start ELSE One(g[n - 1], n)]
  BY <1>1 DEF IsAfter
<1>3. \A a, n : OneTime(a, packets[n], base, times, stamped, One(a, n))
  BY OnePacketIsOneTime
<1> HIDE DEF One
<1>4. \A n \in 1..L : g[n] = One(g[n - 1], n)
  BY <1>2
<1> QED
  BY <1>0, <1>3, <1>4

(* The number of the nth packet of a message. *)
NumberOf(f, n) == f.built[Len(f.built)].seq - f.count + n

(* After n packets of the message, the offset in it is the time reached by *)
(* the last packet received among them, if none was passed over.           *)
Reached(f, a, n) ==
  f.timestamps /\ ~a.missed =>
    \E j \in 0..Len(f.built) :
      /\ a.offset = Reach(f.built, j) - Base(f.built[1].time)
      /\ \A m \in 1..Len(f.built) : m <= j <=> f.built[m].seq <= NumberOf(f, n)

LEMMA OneTimeReaches ==
  ASSUME NEW lo, NEW hi, Within(lo, hi), NEW f, Dated(f, lo, hi),
         NEW packets, packets = Parse(f, SeqSpan), NEW n \in 1..f.count,
         NEW base \in Int, NEW a, NEW b, Reached(f, a, n - 1),
         OneTime(a, packets[n], base, Arrivals(f), f.timestamps, b)
  PROVE  /\ Reached(f, b, n)
         /\ \A k \in b.skews : k \in a.skews \/ k = base - Base(f.built[1].time)
<1>1. IsMessage(f) /\ Timed(f, lo, hi) /\ ReadsBack(f, packets)
  BY DatedIsTimed, MessageReadsBack
<1>2. PICK from \in Int : MessageParts(f, from)
  BY <1>1, MessageHasParts
<1>3. PICK K \in Nat \ {0} : K = Len(f.built) /\ DOMAIN f.built = 1..K
  BY <1>2 DEF MessageParts
<1>4. /\ f.count \in Nat /\ \A j \in 1..K : f.built[j].seq \in Int
      /\ \A i, j \in 1..K : i < j => f.built[i].seq < f.built[j].seq
  BY <1>2, <1>3 DEF MessageParts
<1>0. PICK e \in Int, c \in Nat :
        /\ e = f.built[Len(f.built)].seq /\ c = f.count
        /\ \A i \in Int : NumberOf(f, i) = e - c + i
  <2>1. K \in 1..K /\ f.built[K].seq \in Int
    BY <1>4
  <2>2. \A i \in Int : NumberOf(f, i) = f.built[K].seq - f.count + i
    BY <1>3 DEF NumberOf
  <2> QED
    BY <1>3, <1>4, <2>1, <2>2
<1>5. PICK N \in Int : N = NumberOf(f, n) /\ N - 1 = NumberOf(f, n - 1)
  <2>1. n \in Int /\ n - 1 \in Int
    BY <1>4
  <2>2. e - c + n \in Int /\ (e - c + n) - 1 = e - c + (n - 1)
    BY <2>1
  <2> QED
    BY <1>0, <2>1, <2>2
<1>6. PICK packet : packet = packets[n]
  OBVIOUS
<1>7. packet.seq = N % SeqSpan
  BY <1>1, <1>5, <1>6 DEF ReadsBack, NumberOf
<1>8. \A i \in 1..f.count : NumberOf(f, i) = N => i = n
  <2> TAKE i \in 1..f.count
  <2>1. i \in Int /\ n \in Int
    BY <1>4
  <2>2. NumberOf(f, i) = e - c + i /\ N = e - c + n
    BY <1>0, <1>5, <2>1
  <2> QED
    BY <2>1, <2>2
<1>9. ASSUME NEW j \in 1..K, f.built[j].seq = N
      PROVE  packet.received /\ packet.delta = f.deltas[j]
  <2>1. PICK i \in 1..f.count : /\ f.built[j].seq = NumberOf(f, i)
                                /\ packets[i].received /\ packets[i].delta = f.deltas[j]
    BY <1>1, <1>3 DEF ReadsBack, NumberOf
  <2> QED
    BY <1>6, <1>8, <1>9, <2>1
<1>10. packet.received => \E j \in 1..K : f.built[j].seq = N
  BY <1>1, <1>3, <1>5, <1>6, ZenonT(60) DEF ReadsBack, NumberOf
<1>11. PICK B \in Nat : B = Base(f.built[1].time)
  <2>1. f.built[1].time \in Nat
    BY <1>1, <1>3 DEF Timed, Within
  <2> QED
    BY <2>1, BaseFacts
<1>12. ASSUME NEW j \in 0..K PROVE Reach(f.built, j) \in Nat
  BY <1>1, <1>3, <1>11, SMTT(30) DEF Reach, Timed, Within
<1>13. CASE ~packet.received
  <2>1. b.offset = a.offset /\ (a.missed => b.missed) /\ \A k \in b.skews : k \in a.skews
    BY <1>6, <1>13 DEF OneTime
  <2>2. Reached(f, b, n)
    <3>1. SUFFICES ASSUME f.timestamps, ~b.missed
                   PROVE  \E j \in 0..K :
                            /\ b.offset = Reach(f.built, j) - B
                            /\ \A m \in 1..K : m <= j <=> f.built[m].seq <= N
      BY <1>3, <1>5, <1>11 DEF Reached
    <3>2. PICK j \in 0..K : /\ a.offset = Reach(f.built, j) - B
                            /\ \A m \in 1..K : m <= j <=> f.built[m].seq <= N - 1
      BY <1>3, <1>5, <1>11, <2>1, <3>1 DEF Reached
    <3>3. \A m \in 1..K : f.built[m].seq # N
      BY <1>9, <1>13
    <3>4. \A m \in 1..K : m <= j <=> f.built[m].seq <= N
      BY <1>4, <3>2, <3>3
    <3> QED
      BY <2>1, <3>2, <3>4
  <2> QED
    BY <2>1, <2>2
<1>14. CASE packet.received
  <2>1. PICK i \in 1..K : f.built[i].seq = N
    BY <1>10, <1>14
  <2>2. packet.delta = f.deltas[i]
    BY <1>9, <2>1
  <2>3. \A m \in 1..K : m <= i <=> f.built[m].seq <= N
    <3> TAKE m \in 1..K
    <3>1. CASE m < i
      BY <1>4, <2>1, <3>1
    <3>2. CASE i < m
      BY <1>4, <2>1, <3>2
    <3> QED
      BY <1>4, <2>1, <3>1, <3>2
  <2>4. ASSUME f.timestamps, ~a.missed
        PROVE  a.offset + packet.delta = Reach(f.built, i) - B
    <3>1. PICK j \in 0..K : /\ a.offset = Reach(f.built, j) - B
                            /\ \A m \in 1..K : m <= j <=> f.built[m].seq <= N - 1
      BY <1>3, <1>5, <1>11, <2>4 DEF Reached
    <3>2. ~(i <= j)
      BY <1>4, <2>1, <3>1
    <3>3. i - 1 # 0 => i - 1 <= j
      <4>1. SUFFICES ASSUME i - 1 # 0 PROVE i - 1 <= j
        OBVIOUS
      <4>2. i - 1 \in 1..K
        BY <4>1
      <4>3. f.built[i - 1].seq < N /\ f.built[i - 1].seq \in Int
        BY <1>4, <2>1, <4>2
      <4>4. f.built[i - 1].seq <= N - 1
        BY <4>3
      <4> QED
        BY <3>1, <4>2, <4>4
    <3>4. j = i - 1
      BY <3>2, <3>3
    <3>5. f.deltas[i] = Reach(f.built, i) - Reach(f.built, i - 1)
      BY <1>1, <1>3, <2>4 DEF Timed
    <3>6. PICK x \in Nat, y \in Nat : x = Reach(f.built, i) /\ y = Reach(f.built, i - 1)
      <4>1. i \in 0..K /\ i - 1 \in 0..K
        OBVIOUS
      <4> QED
        BY <1>12, <4>1
    <3> QED
      BY <2>2, <3>1, <3>4, <3>5, <3>6
  <2>5. Reached(f, b, n)
    <3>1. SUFFICES ASSUME f.timestamps, ~b.missed
                   PROVE  \E j \in 0..K :
                            /\ b.offset = Reach(f.built, j) - B
                            /\ \A m \in 1..K : m <= j <=> f.built[m].seq <= N
      BY <1>3, <1>5, <1>11 DEF Reached
    <3>2. ~a.missed /\ b.offset = a.offset + packet.delta
      BY <1>6, <1>14, <3>1 DEF OneTime
    <3>3. i \in 0..K
      OBVIOUS
    <3> QED
      BY <2>3, <2>4, <3>1, <3>2, <3>3
  <2>6. ASSUME NEW k \in b.skews PROVE k \in a.skews \/ k = base - B
    <3>1. SUFFICES ASSUME k \notin a.skews PROVE k = base - B
      OBVIOUS
    <3>2. /\ ~a.missed /\ f.timestamps
          /\ k = base + (a.offset + packet.delta) - Arrivals(f)[packet.seq]
      BY <1>6, <2>6, <3>1 DEF OneTime
    <3>3. Arrivals(f)[packet.seq] = f.built[i].time
      BY <1>1, <1>3, <1>7, <2>1, ArrivalsFacts
    <3>4. PICK x \in Nat : x = f.built[i].time /\ x = Reach(f.built, i)
      <4>1. i \in 0..K /\ i # 0
        OBVIOUS
      <4> QED
        BY <1>12, <4>1 DEF Reach
    <3>5. k = base + (x - B) - x
      BY <2>4, <3>2, <3>3, <3>4
    <3> QED
      BY <3>5
  <2> QED
    BY <1>11, <2>5, <2>6
<1> QED
  BY <1>13, <1>14

(* All the receive times that a message gives are as far from the arrival  *)
(* times as its own time is from the offset of the session.                *)
LEMMA SkewsAfter ==
  ASSUME NEW lo, NEW hi, Within(lo, hi), NEW f, Dated(f, lo, hi), NEW time,
         NewOffset(f, time) \in Int, ProcessTransportFeedback(f, time)
  PROVE  /\ offset' = NewOffset(f, time) /\ last_timestamp' = ParsedTime(f)
         /\ \A k \in skews' : \/ k \in skews /\ ~Rebased(f)
                             \/ k = NewOffset(f, time) - Base(f.built[1].time)
<1>1. PICK packets : packets = Parse(f, SeqSpan)
  OBVIOUS
<1>2. PICK base \in Int : base = NewOffset(f, time)
  OBVIOUS
<1>3. IsMessage(f) /\ Timed(f, lo, hi) /\ ReadsBack(f, packets)
  BY <1>1, DatedIsTimed, MessageReadsBack
<1>4. PICK from \in Int : MessageParts(f, from)
  BY <1>3, MessageHasParts
<1>5. PICK L \in Nat : L = Len(packets) /\ L = f.count
  BY <1>1, <1>4, ParsedFields DEF MessageParts
<1>6. PICK g : g = After(packets, base, Arrivals(f), f.timestamps, AdapterState(0), L)
  OBVIOUS
<1>7. /\ offset' = base /\ last_timestamp' = ParsedTime(f)
      /\ skews' = g[L].skews \cup (IF Rebased(f) THEN {} ELSE skews)
  <2>1. /\ offset' = NewOffset(f, time) /\ last_timestamp' = ParsedTime(f)
        /\ skews' = After(Parse(f, SeqSpan), NewOffset(f, time), Arrivals(f),
                          f.timestamps, AdapterState(0),
                          Len(Parse(f, SeqSpan)))[Len(Parse(f, SeqSpan))].skews
                   \cup (IF Rebased(f) THEN {} ELSE skews)
    BY DEF ProcessTransportFeedback, After, IsAfter, AdapterState, Arrivals
  <2> QED
    BY <1>1, <1>2, <1>5, <1>6, <2>1
<1>8. /\ g[0] = AdapterState(0)
      /\ \A n \in 1..L : OneTime(g[n - 1], packets[n], base, Arrivals(f), f.timestamps, g[n])
  BY <1>6, AfterTurns, TimesTurns
<1> DEFINE S == {n \in 0..L :
                   /\ Reached(f, g[n], n)
                   /\ \A k \in g[n].skews : k = base - Base(f.built[1].time)}
<1>9. 0 \in S
  <2>1. g[0].offset = 0 /\ g[0].skews = {}
    BY <1>8 DEF AdapterState
  <2>2. PICK K \in Nat \ {0} : K = Len(f.built) /\ DOMAIN f.built = 1..K
    BY <1>4 DEF MessageParts
  <2>3. PICK B \in Nat : B = Base(f.built[1].time) /\ B = Reach(f.built, 0)
    <3>1. f.built[1].time \in Nat
      BY <1>3, <2>2 DEF Timed, Within
    <3> QED
      BY <3>1, BaseFacts DEF Reach
  <2>4. PICK e \in Int : e = f.built[K].seq /\ \A i \in Int : NumberOf(f, i) = e - L + i
    <3>1. K \in 1..K /\ f.built[K].seq \in Int
      BY <1>4, <2>2, SMTT(30) DEF MessageParts
    <3>2. \A i \in Int : NumberOf(f, i) = f.built[K].seq - L + i
      BY <1>5, <2>2 DEF NumberOf
    <3> QED
      BY <3>1, <3>2
  <2>5. ASSUME NEW m \in 1..K PROVE ~(m <= 0) /\ ~(f.built[m].seq <= NumberOf(f, 0))
    <3>1. PICK i \in 1..L : f.built[m].seq = NumberOf(f, i)
      BY <1>3, <1>5, <2>2, ZenonT(60) DEF ReadsBack, NumberOf
    <3>2. i \in Int /\ i >= 1 /\ 0 \in Int
      OBVIOUS
    <3>3. NumberOf(f, i) = e - L + i /\ NumberOf(f, 0) = e - L + 0
      BY <2>4, <3>2
    <3> QED
      BY <3>1, <3>2, <3>3
  <2>6. g[0].offset = Reach(f.built, 0) - Base(f.built[1].time)
    BY <2>1, <2>3
  <2>7. Reached(f, g[0], 0)
    BY <2>2, <2>5, <2>6 DEF Reached
  <2> QED
    BY <2>1, <2>7
<1>10. ASSUME NEW n \in 1..L, n - 1 \in S PROVE n \in S
  <2>1. PICK a, b : a = g[n - 1] /\ b = g[n]
    OBVIOUS
  <2>2. /\ Reached(f, a, n - 1)
        /\ \A k \in a.skews : k = base - Base(f.built[1].time)
    BY <1>10, <2>1
  <2>3. OneTime(a, packets[n], base, Arrivals(f), f.timestamps, b) /\ n \in 1..f.count
    BY <1>5, <1>8, <2>1
  <2>4. /\ Reached(f, b, n)
        /\ \A k \in b.skews : k \in a.skews \/ k = base - Base(f.built[1].time)
    BY <1>1, <2>2, <2>3, OneTimeReaches
  <2> QED
    BY <2>1, <2>2, <2>4
<1>11. L \in S
  <2> HIDE DEF S
  <2>1. \A n \in 0..L : n \in S
    BY <1>9, <1>10, IntervalInduction, Zenon
  <2> QED
    BY <2>1
<1> QED
  BY <1>2, <1>7, <1>11

-----------------------------------------------------------------------------
(* The offset of the session *)

(* The offset o keeps its distance from the times of the messages, and the *)
(* skews are that distance; stamp is the time of the last message.         *)
Steady(o, stamp, sk, lo, hi) ==
  /\ o = None => sk = {}
  /\ o # None =>
       /\ o \in Int /\ stamp \in Int
       /\ -WrapPeriod <= 2 * stamp /\ 2 * stamp < WrapPeriod
       /\ \E t \in lo..hi :
            /\ \E z \in Int : Base(t) = stamp + WrapPeriod * z
            /\ \A k \in sk : k = o - Base(t)

LEMMA SteadyAfter ==
  ASSUME NEW lo, NEW hi, Within(lo, hi), Steady(offset, last_timestamp, skews, lo, hi),
         NEW f, Dated(f, lo, hi), NEW time \in Nat, ProcessTransportFeedback(f, time)
  PROVE  Steady(offset', last_timestamp', skews', lo, hi)
<1>0. /\ lo \in Nat /\ hi \in Nat /\ lo <= hi /\ 2 * (hi - lo + BaseScale - 1) < WrapPeriod
      /\ BaseScale \in Nat \ {0} /\ WrapPeriod \in Nat /\ None \notin Int
  BY PacketAssumption, WrapPeriodFacts, SpanAssumption DEF Within
<1>1. IsMessage(f) /\ Timed(f, lo, hi)
  BY DatedIsTimed
<1>2. PICK t \in lo..hi : t = f.built[1].time /\ f.time = BaseTime(t)
  <2>1. PICK from \in Int : MessageParts(f, from)
    BY <1>1, MessageHasParts
  <2>2. 1 \in 1..Len(f.built)
    BY <2>1 DEF MessageParts
  <2> QED
    BY <1>1, <2>2 DEF Timed
<1>3. t \in Nat
  BY <1>0
<1>4. PICK b \in Nat : b = Base(t) /\ b <= t /\ t - b <= BaseScale - 1
  BY <1>3, BaseFacts
<1>5. PICK p \in Int : /\ p = ParsedTime(f)
                        /\ -WrapPeriod <= 2 * p /\ 2 * p < WrapPeriod
                        /\ \E z \in Int : b = p + WrapPeriod * z
  BY <1>2, <1>3, <1>4, ParsedTimeFacts
<1>6. PICK z \in Int : b = p + WrapPeriod * z
  BY <1>5
<1>7. CASE Rebased(f)
  <2>1. NewOffset(f, time) = time
    BY <1>7 DEF NewOffset
  <2>2. /\ offset' = time /\ last_timestamp' = p
        /\ \A k \in skews' : k = time - b
    <3>1. NewOffset(f, time) \in Int
      BY <2>1
    <3>2. /\ offset' = NewOffset(f, time) /\ last_timestamp' = ParsedTime(f)
          /\ \A k \in skews' : \/ k \in skews /\ ~Rebased(f)
                              \/ k = NewOffset(f, time) - Base(f.built[1].time)
      BY <3>1, SkewsAfter, Zenon
    <3> QED
      BY <1>2, <1>4, <1>5, <1>7, <2>1, <3>2
  <2>3. time \in Int /\ time # None
    BY <1>0
  <2> QED
    BY <1>4, <1>5, <1>6, <2>2, <2>3 DEF Steady
<1>8. CASE ~Rebased(f)
  <2>0. offset # None /\ ~(BaseDelta(f, last_timestamp) < -offset)
    BY <1>8 DEF Rebased
  <2>1. PICK o \in Int, stamp \in Int : o = offset /\ stamp = last_timestamp
    BY <2>0 DEF Steady
  <2>2. -WrapPeriod <= 2 * stamp /\ 2 * stamp < WrapPeriod
    BY <2>0, <2>1 DEF Steady
  <2>3. PICK u \in lo..hi : /\ \E y \in Int : Base(u) = stamp + WrapPeriod * y
                            /\ \A k \in skews : k = o - Base(u)
    BY <2>0, <2>1 DEF Steady
  <2>4. PICK a \in Nat : a = Base(u) /\ a <= u /\ u - a <= BaseScale - 1
    <3>1. u \in Nat
      BY <1>0
    <3> QED
      BY <3>1, BaseFacts
  <2>5. PICK y \in Int : a = stamp + WrapPeriod * y
    BY <2>3, <2>4
  <2>6. 2 * (b - a) < WrapPeriod /\ -WrapPeriod < 2 * (b - a)
    BY <1>0, <1>4, <2>4
  <2>7. BaseDelta(f, stamp) = b - a
    BY <1>5, <1>6, <2>2, <2>5, <2>6, BaseDeltaIsExact, SMTT(30)
  <2>8. PICK n \in Int : n = o + (b - a)
    OBVIOUS
  <2>9. n - b = o - a
    BY <2>4, <2>8
  <2>10. NewOffset(f, time) = n
    BY <1>8, <2>1, <2>7, <2>8 DEF NewOffset
  <2>11. /\ offset' = n /\ last_timestamp' = p
         /\ \A k \in skews' : k \in skews \/ k = n - b
    BY <1>2, <1>4, <1>5, <2>10, SkewsAfter
  <2>12. \A k \in skews' : k = n - b
    BY <2>3, <2>4, <2>9, <2>11
  <2>13. n # None
    BY <1>0
  <2> QED
    BY <1>4, <1>5, <1>6, <2>9, <2>11, <2>12, <2>13 DEF Steady
<1> QED
  BY <1>7, <1>8

-----------------------------------------------------------------------------
(* The times in the map of the receiver *)

Filled(m, T) ==
  Len(m.times) <= kMaxNumberOfPackets /\ \A i \in 1..Len(m.times) : m.times[i] \in T

LEMMA DropFilled ==
  ASSUME NEW m \in Map, NEW T, Filled(m, T), NEW n \in 0..Len(m.times)
  PROVE  Filled(Drop(m, n), T)
<1> DEFINE t == SubSeq(m.times, n + 1, Len(m.times))
<1>1. PICK L \in Nat : L = Len(m.times) /\ n \in Nat /\ n <= L /\ L <= kMaxNumberOfPackets
  BY MapFields DEF Filled
<1>2. Len(t) = L - n /\ \A i \in 1..L - n : t[i] = m.times[n + i]
  <2>1. m.times \in Seq(Nat)
    BY MapFields
  <2>2. n + 1 \in 1..L + 1 /\ L \in n..L
    BY <1>1
  <2>3. Len(t) = L - n
    BY <1>1, <2>1, <2>2, SubSeqProperties
  <2>4. \A i \in 1..L - n : t[i] = m.times[(n + 1) + i - 1]
    BY <1>1, <2>1, <2>2, <2>3, SubSeqProperties
  <2>5. \A i \in 1..L - n : (n + 1) + i - 1 = n + i
    BY <1>1
  <2> QED
    BY <2>3, <2>4, <2>5
<1> HIDE DEF t
<1>3. Drop(m, n).times = t
  <2>1. Drop(m, n) = [m EXCEPT !.begin = @ + n, !.times = t]
    BY DEF Drop, t
  <2> QED
    BY <2>1 DEF Map
<1>4. \A i \in 1..L - n : n + i \in 1..Len(m.times)
  BY <1>1
<1>5. L - n <= kMaxNumberOfPackets
  BY <1>1, MapAssumption
<1> QED
  BY <1>2, <1>3, <1>4, <1>5 DEF Filled

LEMMA EraseFilled ==
  ASSUME NEW m \in Map, NEW T, Filled(m, T), NEW s \in Int
  PROVE  Filled(EraseTo(m, s), T)
<1> DEFINE n == IF s - m.begin < Len(m.times) THEN s - m.begin ELSE Len(m.times)
<1>1. CASE s <= m.begin
  BY <1>1 DEF EraseTo
<1>2. CASE ~(s <= m.begin)
  <2>1. n \in 0..Len(m.times)
    BY <1>2, MapFields
  <2>2. EraseTo(m, s) = Drop(m, n)
    BY <1>2 DEF EraseTo
  <2> HIDE DEF n
  <2> QED
    BY <2>1, <2>2, DropFilled
<1> QED
  BY <1>1, <1>2

LEMMA RemoveFilled ==
  ASSUME NEW m \in Map, NEW T, Filled(m, T), NEW s, NEW limit
  PROVE  Filled(RemoveOldPackets(m, s, limit), T)
<1> DEFINE young == {i \in 1..Len(m.times) : m.begin + i - 1 >= s \/ m.times[i] > limit}
           k == CHOOSE i \in young : \A j \in young : i <= j
<1>0. Len(m.times) \in Nat
  BY MapFields
<1>1. RemoveOldPackets(m, s, limit)
        = IF young = {} THEN Drop(m, Len(m.times)) ELSE Drop(m, k - 1)
  BY DEF RemoveOldPackets
<1>2. young \in SUBSET (1..Len(m.times))
  OBVIOUS
<1> HIDE DEF young
<1>3. CASE young = {}
  <2>1. Len(m.times) \in 0..Len(m.times)
    BY <1>0
  <2> QED
    BY <1>1, <1>3, <2>1, DropFilled
<1>4. CASE young # {}
  <2>1. k \in young
    BY <1>0, <1>2, <1>4, FirstOf
  <2> HIDE DEF k
  <2>2. k - 1 \in 0..Len(m.times)
    BY <1>0, <1>2, <2>1
  <2> QED
    BY <1>1, <1>4, <2>2, DropFilled
<1> QED
  BY <1>3, <1>4

(* There is room for the packet s. *)
LEMMA TrimmedFilled ==
  ASSUME NEW m \in Map, NEW T, Filled(m, T), NEW s \in Int, End(m) <= s
  PROVE  /\ Filled(Trimmed(m, s), T)
         /\ s - Trimmed(m, s).begin + 1 <= kMaxNumberOfPackets
<1> DEFINE L == Len(m.times)
           n == s - m.begin - kMaxNumberOfPackets + 1
           kept == {i \in n + 1..L : m.times[i] # 0}
           k == CHOOSE i \in kept : \A j \in kept : i <= j
           late == [m EXCEPT !.begin = s, !.times = <<>>]
<1>0. kMaxNumberOfPackets \in Nat \ {0} /\ m.begin \in Int
  BY MapAssumption, MapFields
<1>1. Trimmed(m, s) = IF n <= 0 THEN m ELSE IF n >= L THEN late
                      ELSE IF kept = {} THEN Drop(m, L) ELSE Drop(m, k - 1)
  BY DEF Trimmed
<1>2. L \in Nat /\ n \in Int /\ n = s - m.begin - kMaxNumberOfPackets + 1
  BY MapFields, MapAssumption
<1>3. n > 0 => kept \in SUBSET (1..L)
  BY <1>2
<1>9. \A i \in kept : n + 1 <= i
  OBVIOUS
<1> HIDE DEF L, n, kept
<1>4. Filled(late, T) /\ late.begin = s
  <2>1. late.begin = s /\ late.times = <<>>
    BY DEF Map
  <2> HIDE DEF late
  <2> QED
    BY <1>0, <2>1, EmptySeq DEF Filled
<1>5. L \in 0..Len(m.times)
  BY <1>2 DEF L
<1>6. CASE n <= 0
  BY <1>0, <1>1, <1>2, <1>6
<1>7. CASE n > 0 /\ n >= L
  <2> HIDE DEF late, k
  <2>1. Trimmed(m, s) = late
    BY <1>1, <1>2, <1>7
  <2> QED
    BY <1>0, <1>4, <2>1
<1>8. CASE ~(n <= 0 \/ n >= L) /\ kept = {}
  <2>1. Trimmed(m, s) = Drop(m, L)
    BY <1>1, <1>8
  <2>2. Filled(Drop(m, L), T) /\ Drop(m, L).begin = m.begin + L
    BY <1>5, DropFilled, DropFacts
  <2> QED
    BY <1>0, <1>2, <1>8, <2>1, <2>2
<1>10. CASE ~(n <= 0 \/ n >= L) /\ kept # {}
  <2>1. k \in kept
    <3>1. kept \in SUBSET (1..L) /\ kept # {}
      BY <1>2, <1>3, <1>10
    <3> QED
      BY <1>2, <3>1, FirstOf, Zenon
  <2> HIDE DEF k
  <2>2. k - 1 \in 0..Len(m.times) /\ n <= k - 1
    BY <1>2, <1>3, <1>9, <1>10, <2>1 DEF L
  <2>3. Filled(Drop(m, k - 1), T) /\ Drop(m, k - 1).begin = m.begin + (k - 1)
    BY <2>2, DropFilled, DropFacts
  <2>4. Trimmed(m, s) = Drop(m, k - 1)
    BY <1>1, <1>10
  <2> QED
    BY <1>0, <1>2, <2>2, <2>3, <2>4
<1> QED
  BY <1>2, <1>6, <1>7, <1>8, <1>10

LEMMA ConcatFilled ==
  ASSUME NEW x \in Seq(Nat), NEW y \in Seq(Nat), NEW T,
         \A i \in 1..Len(x) : x[i] \in T, \A i \in 1..Len(y) : y[i] \in T
  PROVE  /\ x \o y \in Seq(Nat) /\ Len(x \o y) = Len(x) + Len(y)
         /\ \A i \in 1..Len(x \o y) : (x \o y)[i] \in T
<1>1. PICK a \in Nat, b \in Nat : a = Len(x) /\ b = Len(y)
  BY LenProperties
<1>2. PICK z : z = x \o y
  OBVIOUS
<1>3. /\ z \in Seq(Nat) /\ Len(z) = a + b
      /\ \A i \in 1..a + b : z[i] = IF i <= a THEN x[i] ELSE y[i - a]
  BY <1>1, <1>2, ConcatProperties
<1>4. ASSUME NEW i \in 1..a + b PROVE z[i] \in T
  <2>1. CASE i <= a
    BY <1>1, <1>3, <2>1
  <2>2. CASE ~(i <= a)
    <3>1. i - a \in 1..b /\ z[i] = y[i - a]
      BY <1>3, <2>2
    <3> QED
      BY <1>1, <3>1
  <2> QED
    BY <2>1, <2>2
<1> QED
  BY <1>1, <1>2, <1>3, <1>4

LEMMA ZerosFilled ==
  ASSUME NEW n \in Nat
  PROVE  /\ Zeros(n) \in Seq(Nat) /\ Len(Zeros(n)) = n
         /\ \A i \in 1..Len(Zeros(n)) : Zeros(n)[i] = 0
<1>1. Zeros(n) \in Seq(Nat)
  BY ZerosFacts
<1>2. DOMAIN Zeros(n) = 1..n /\ \A i \in 1..n : Zeros(n)[i] = 0
  BY DEF Zeros
<1>3. Len(Zeros(n)) = n
  BY <1>1, <1>2, LenProperties
<1> QED
  BY <1>1, <1>2, <1>3

LEMMA AddFilled ==
  ASSUME NEW m \in Map, NEW T, Filled(m, T), NEW s \in Int, NEW time \in Nat,
         0 \in T, time \in T
  PROVE  Filled(AddPacket(m, s, time), T)
<1>0. kMaxNumberOfPackets \in Nat \ {0}
  BY MapAssumption
<1>1. /\ <<time>> \in Seq(Nat) /\ Len(<<time>>) = 1
      /\ \A i \in 1..Len(<<time>>) : <<time>>[i] \in T
  OBVIOUS
<1>2. CASE ~m.seen
  <2>1. AddPacket(m, s, time) = [seen |-> TRUE, begin |-> s, times |-> <<time>>]
    BY <1>2 DEF AddPacket
  <2>2. AddPacket(m, s, time).times = <<time>>
    BY <2>1
  <2> QED
    BY <1>0, <1>1, <2>2 DEF Filled
<1>3. CASE m.seen /\ Holds(m, s)
  <2> DEFINE i == s - m.begin + 1
             t == [m.times EXCEPT ![i] = time]
  <2>1. AddPacket(m, s, time) = [m EXCEPT !.times = t]
    BY <1>3 DEF AddPacket
  <2>2. i \in 1..Len(m.times) /\ m.times \in Seq(Nat)
    BY <1>3, MapFields, SMTT(30) DEF Holds, End
  <2> HIDE DEF i
  <2>3. t \in Seq(Nat) /\ Len(t) = Len(m.times)
    BY <2>2, ExceptSeq
  <2>4. DOMAIN m.times = 1..Len(m.times)
    BY <2>2, LenProperties
  <2>5. \A j \in 1..Len(m.times) : t[j] = IF j = i THEN time ELSE m.times[j]
    BY <2>4
  <2> HIDE DEF t
  <2>6. AddPacket(m, s, time).times = t
    BY <2>1 DEF Map
  <2> QED
    BY <2>3, <2>5, <2>6 DEF Filled
<1>4. CASE m.seen /\ ~Holds(m, s) /\ s < m.begin
  <2> DEFINE z == Zeros(m.begin - s - 1)
             y == <<time>> \o z
             t == y \o m.times
  <2>0. m.begin \in Int /\ m.times \in Seq(Nat) /\ Len(m.times) \in Nat
    BY MapFields
  <2>1. PICK k \in Nat : k = m.begin - s - 1
    BY <1>4, <2>0
  <2>2. z \in Seq(Nat) /\ Len(z) = k /\ \A i \in 1..Len(z) : z[i] \in T
    BY <2>1, ZerosFilled
  <2>3. \/ AddPacket(m, s, time) = m
        \/ /\ ~(End(m) - s > kMaxNumberOfPackets)
           /\ AddPacket(m, s, time) = [m EXCEPT !.begin = s, !.times = t]
    BY <1>4 DEF AddPacket
  <2> HIDE DEF z
  <2>4. y \in Seq(Nat) /\ Len(y) = 1 + k /\ \A i \in 1..Len(y) : y[i] \in T
    BY <1>1, <2>2, ConcatFilled
  <2> HIDE DEF y
  <2>5. \A i \in 1..Len(m.times) : m.times[i] \in T
    BY DEF Filled
  <2>6. Len(t) = 1 + k + Len(m.times) /\ \A i \in 1..Len(t) : t[i] \in T
    BY <2>0, <2>4, <2>5, ConcatFilled
  <2> HIDE DEF t
  <2>7. CASE AddPacket(m, s, time) = m
    BY <2>7
  <2>8. CASE /\ ~(End(m) - s > kMaxNumberOfPackets)
             /\ AddPacket(m, s, time) = [m EXCEPT !.begin = s, !.times = t]
    <3>1. AddPacket(m, s, time).times = t
      BY <2>8 DEF Map
    <3>2. Len(t) <= kMaxNumberOfPackets
      <4>1. PICK a \in Int, n \in Nat, c \in Nat :
              a = m.begin /\ n = Len(m.times) /\ c = kMaxNumberOfPackets
        BY <1>0, <2>0
      <4>2. ~(a + n - s > c)
        BY <2>8, <4>1 DEF End
      <4>3. k = a - s - 1
        BY <2>1, <4>1
      <4>4. 1 + k + n <= c
        BY ONLY <4>2, <4>3, a \in Int, n \in Nat, c \in Nat, s \in Int, k \in Nat
      <4> QED
        BY <2>6, <4>1, <4>4
    <3> QED
      BY <2>6, <3>1, <3>2 DEF Filled
  <2> QED
    BY <2>3, <2>7, <2>8
<1>5. CASE m.seen /\ ~Holds(m, s) /\ ~(s < m.begin)
  <2> DEFINE r == Trimmed(m, s)
             z == Zeros(s - End(r))
             y == r.times \o z
             t == y \o <<time>>
  <2>1. AddPacket(m, s, time) = [r EXCEPT !.times = t]
    BY <1>5 DEF AddPacket
  <2>2. End(m) <= s
    BY <1>5, MapFields DEF Holds
  <2>3. /\ r \in Map /\ End(r) <= s
        /\ Filled(r, T) /\ s - r.begin + 1 <= kMaxNumberOfPackets
    BY <2>2, TrimmedFacts, TrimmedFilled
  <2> HIDE DEF r
  <2>4. r.begin \in Int /\ r.times \in Seq(Nat) /\ Len(r.times) \in Nat /\ End(r) \in Int
    BY <2>3, MapFields
  <2>5. PICK k \in Nat : k = s - End(r)
    BY <2>3, <2>4
  <2>6. z \in Seq(Nat) /\ Len(z) = k /\ \A i \in 1..Len(z) : z[i] \in T
    BY <2>5, ZerosFilled
  <2> HIDE DEF z
  <2>7. \A i \in 1..Len(r.times) : r.times[i] \in T
    BY <2>3 DEF Filled
  <2>8. y \in Seq(Nat) /\ Len(y) = Len(r.times) + k /\ \A i \in 1..Len(y) : y[i] \in T
    BY <2>4, <2>6, <2>7, ConcatFilled
  <2> HIDE DEF y
  <2>9. Len(t) = Len(r.times) + k + 1 /\ \A i \in 1..Len(t) : t[i] \in T
    BY <1>1, <2>8, ConcatFilled
  <2> HIDE DEF t
  <2>10. AddPacket(m, s, time).times = t
    BY <2>1, <2>3 DEF Map
  <2>11. Len(t) <= kMaxNumberOfPackets
    <3>1. PICK a \in Int, n \in Nat, c \in Nat :
            a = r.begin /\ n = Len(r.times) /\ c = kMaxNumberOfPackets
      BY <1>0, <2>4
    <3>2. s - a + 1 <= c
      BY <2>3, <3>1
    <3>3. k = s - (a + n)
      BY <2>5, <3>1 DEF End
    <3>4. n + k + 1 <= c
      BY ONLY <3>2, <3>3, a \in Int, n \in Nat, c \in Nat, s \in Int, k \in Nat
    <3> QED
      BY <2>9, <3>1, <3>4
  <2> QED
    BY <2>9, <2>10, <2>11 DEF Filled
<1> QED
  BY <1>2, <1>3, <1>4, <1>5

-----------------------------------------------------------------------------
(* The messages of the receiver *)

LEMMA ReceivedDated ==
  ASSUME NEW m \in Map, NEW lo \in Nat, NEW hi \in Nat, Filled(m, {0} \cup (lo..hi)),
         NEW from \in Int, NEW to \in Int, from <= to,
         NEW r, r = Received(m, from, to)
  PROVE  /\ \A i \in 1..Len(r) : r[i].time \in lo..hi
         /\ \A i, j \in 1..Len(r) : r[i].seq - r[j].seq < SeqSpan
<1> DEFINE start == clamp(m, from)
           count == clamp(m, to) - start
<1>0. /\ m.begin \in Int /\ Len(m.times) \in Nat /\ End(m) \in Int
      /\ End(m) = m.begin + Len(m.times) /\ Len(m.times) <= kMaxNumberOfPackets
      /\ kMaxNumberOfPackets \in Nat /\ kMaxNumberOfPackets <= SeqSpan /\ SeqSpan \in Nat
  BY MapFields, MapAssumption, ProxyAssumption, SpanAssumption DEF Filled, End
<1>1. /\ start \in Int /\ count \in Nat /\ m.begin <= start /\ start + count <= End(m)
  <2>1. PICK a \in Int, b \in Int : a = clamp(m, from) /\ b = clamp(m, to)
    BY <1>0 DEF clamp
  <2>2. m.begin <= a /\ a <= b /\ b <= End(m)
    BY <1>0, <2>1, SMTT(30) DEF clamp
  <2> QED
    BY <1>0, <2>1, <2>2
<1> HIDE DEF start, count
<1>7. PICK a \in Int, e \in Int, c \in Nat, u \in Int, w \in Nat :
        /\ a = m.begin /\ e = End(m) /\ c = Len(m.times) /\ u = start /\ w = count
        /\ e = a + c /\ c <= SeqSpan /\ a <= u /\ u + w <= e
  BY <1>0, <1>1, SMTT(30)
<1>2. Collected(r, m, start, count)
  BY <1>1, GotCollects, ReceivedIsGot DEF start, count
<1>3. r \in Seq(Pkt)
  BY <1>2 DEF Collected
<1>4. ASSUME NEW i \in 1..Len(r)
      PROVE  \E s \in Int : /\ s = r[i].seq /\ a <= s /\ s < e
                            /\ At(m, s) # 0 /\ r[i].time = At(m, s)
  <2>1. PICK s \in Int : s = r[i].seq
    BY <1>3, PacketSeq
  <2>2. u <= s /\ s < u + w /\ At(m, s) # 0 /\ r[i].time = At(m, s)
    BY <1>2, <1>7, <2>1 DEF Collected
  <2>3. a <= s /\ s < e
    <3>1. a <= u /\ u + w <= e
      BY <1>7
    <3> QED
      BY ONLY <2>2, <3>1, a \in Int, e \in Int, u \in Int, w \in Nat, s \in Int
  <2> QED
    BY <2>1, <2>2, <2>3
<1>5. ASSUME NEW i \in 1..Len(r) PROVE r[i].time \in lo..hi
  <2>1. PICK s \in Int : a <= s /\ s < e /\ At(m, s) # 0 /\ r[i].time = At(m, s)
    BY <1>4
  <2>2. e = a + c
    BY <1>7
  <2>3. s - a + 1 \in 1..c
    BY ONLY <2>1, <2>2, a \in Int, e \in Int, c \in Nat, s \in Int
  <2>4. m.times[s - a + 1] \in {0} \cup (lo..hi)
    BY <1>7, <2>3 DEF Filled
  <2>5. At(m, s) = m.times[s - a + 1]
    BY <1>7 DEF At
  <2> QED
    BY <2>1, <2>4, <2>5
<1>6. ASSUME NEW i \in 1..Len(r), NEW j \in 1..Len(r)
      PROVE  r[i].seq - r[j].seq < SeqSpan
  <2>1. PICK s \in Int : s = r[i].seq /\ s < e
    BY <1>4
  <2>2. PICK t \in Int : t = r[j].seq /\ a <= t
    BY <1>4
  <2>3. e = a + c /\ c <= SeqSpan /\ SeqSpan \in Nat
    BY <1>0, <1>7
  <2>4. s - t < SeqSpan
    BY ONLY <2>1, <2>2, <2>3, a \in Int, e \in Int, c \in Nat, s \in Int, t \in Int
  <2> QED
    BY <2>1, <2>2, <2>4
<1> QED
  BY <1>5, <1>6

LEMMA BuildDated ==
  ASSUME NEW m \in Map, NEW lo \in Nat, NEW hi \in Nat, Filled(m, {0} \cup (lo..hi)),
         NEW from \in Int, NEW to \in Int, from <= to, NEW timestamps \in BOOLEAN
  PROVE  \A f \in MaybeBuildFeedbackPacket(m, timestamps, from, to).messages :
            Dated(f, lo, hi)
<1> DEFINE at == Received(m, from, to)
           b == MaybeBuildFeedbackPacket(m, timestamps, from, to)
<1> SUFFICES ASSUME NEW f \in b.messages PROVE Dated(f, lo, hi)
  OBVIOUS
<1>1. /\ at \in Seq(Pkt)
      /\ \A i, j \in 1..Len(at) : i < j => at[i].seq < at[j].seq
      /\ \A i \in 1..Len(at) : from <= at[i].seq
  BY ReceivedFacts
<1>2. /\ \A i \in 1..Len(at) : at[i].time \in lo..hi
      /\ \A i, j \in 1..Len(at) : at[i].seq - at[j].seq < SeqSpan
  BY ReceivedDated
<1>3. at # <<>> /\ f = Message(from, at, timestamps, SeqSpan)
  BY DEF MaybeBuildFeedbackPacket
<1> HIDE DEF at, b
<1>4. Arrived(from, at)
  BY <1>1, <1>3 DEF Arrived
<1> QED
  BY <1>2, <1>3, <1>4 DEF Dated

LEMMA PeriodicDated ==
  ASSUME NEW m \in Map, NEW lo \in Nat, NEW hi \in Nat, Filled(m, {0} \cup (lo..hi)),
         NEW start \in Int
  PROVE  \A f \in Periodic(m, start).messages : Dated(f, lo, hi)
<1>0. PICK L \in Nat : L = Len(m.times)
  BY LenProperties DEF Map
<1>1. PICK g : g = SentLoop(m, start, L) /\ Periodic(m, start) = g[L]
  BY <1>0, PeriodicIsSentLoop
<1>2. /\ g[0] = [messages |-> {}, next |-> start]
      /\ \A n \in 1..L : g[n] = SendOne(m, g[n - 1])
  BY <1>1, SentLoopTurns
<1> DEFINE D(sent) == \A f \in sent.messages : Dated(f, lo, hi)
           S == {n \in 0..L : Sending(m, start, g[n]) /\ D(g[n])}
<1>3. 0 \in S
  <2>1. g[0].messages = {} /\ g[0].next = start
    BY <1>2
  <2>2. Sending(m, start, g[0]) /\ D(g[0])
    BY <2>1 DEF Sending
  <2> QED
    BY <2>2
<1>4. ASSUME NEW n \in 1..L, n - 1 \in S PROVE n \in S
  <2>1. PICK sent : sent = g[n - 1]
    OBVIOUS
  <2>2. Sending(m, start, sent) /\ D(sent)
    BY <1>4, <2>1
  <2>3. g[n] = SendOne(m, sent)
    BY <1>2, <2>1
  <2>4. Sending(m, start, g[n])
    BY <2>2, <2>3, SendOneSending
  <2>5. End(m) \in Int /\ sent.next \in Int
    BY <2>2, MapFields DEF Sending
  <2>6. CASE sent.next >= End(m)
    <3>1. g[n] = sent
      BY <2>3, <2>6 DEF SendOne
    <3> QED
      BY <2>2, <2>4, <3>1
  <2>7. CASE ~(sent.next >= End(m))
    <3> DEFINE b == MaybeBuildFeedbackPacket(m, TRUE, sent.next, End(m))
    <3>1. g[n] = [messages |-> sent.messages \cup b.messages, next |-> b.next]
      BY <2>3, <2>7 DEF SendOne
    <3>2. \A f \in b.messages : Dated(f, lo, hi)
      <4>1. sent.next <= End(m) /\ TRUE \in BOOLEAN
        BY <2>5, <2>7
      <4> QED
        BY <2>5, <4>1, BuildDated
    <3> HIDE DEF b
    <3>3. g[n].messages = sent.messages \cup b.messages
      BY <3>1
    <3>4. D(g[n])
      BY <2>2, <3>2, <3>3
    <3> QED
      BY <2>4, <3>4
  <2> QED
    BY <2>6, <2>7
<1>5. L \in S
  <2> HIDE DEF S
  <2>1. \A n \in 1..L : n - 1 \in S => n \in S
    BY <1>4
  <2>2. \A n \in 0..L : n \in S
    BY <1>3, <2>1, IntervalInduction, Zenon
  <2> QED
    BY <2>2
<1> QED
  BY <1>1, <1>5

-----------------------------------------------------------------------------
(* The clock, the map, the messages and the offset of the sender *)

DatedInv ==
  /\ now \in StartTime..StartTime + bound.ticks
  /\ Filled(rmap, {0} \cup (StartTime..now))
  /\ \A f \in feedback : Dated(f, StartTime, now)

SteadyInv == Steady(offset, last_timestamp, skews, StartTime, now)

LEMMA DatedIncoming ==
  ASSUME NetInv, ProxyInv, DatedInv, NEW seq \in Int,
         NEW request \in [count : Nat, timestamps : BOOLEAN],
         IncomingPacket(seq, now, request)
  PROVE  /\ Filled(rmap', {0} \cup (StartTime..now))
         /\ \A f \in feedback' : Dated(f, StartTime, now)
<1> DEFINE s == SeqNumUnwrap(rlast, seq)
           m == Culled(s, now)
           added == AddPacket(m, s, now)
           first == s - request.count + 1
           b == MaybeBuildFeedbackPacket(added, request.timestamps, first, s + 1)
           T == {0} \cup (StartTime..now)
<1>0. now \in Nat /\ StartTime \in Nat /\ StartTime <= now /\ 0 \in T /\ now \in T
  BY FeedbackAssumption DEF NetInv, DatedInv
<1>1. s \in Int
  BY SeqNumUnwrapIsInt DEF ProxyInv
<1> HIDE DEF s
<1>2. rmap \in Map /\ Filled(rmap, T)
  BY DEF ProxyInv, DatedInv
<1> HIDE DEF T
<1>3. m \in Map /\ Filled(m, T)
  BY <1>2, RemoveFacts, RemoveFilled DEF Culled
<1> HIDE DEF m
<1>4. added \in Map /\ Filled(added, T)
  BY <1>0, <1>1, <1>3, AddFacts, AddFilled
<1> HIDE DEF added
<1>5. \/ rmap' = m /\ feedback' = feedback
      \/ SendFeedbackOnRequest(added, s, request)
  BY DEF IncomingPacket, s, m, added
<1>6. CASE rmap' = m /\ feedback' = feedback
  BY <1>3, <1>6 DEF DatedInv, T
<1>7. CASE SendFeedbackOnRequest(added, s, request)
  <2>1. /\ request.count \in Nat /\ request.timestamps \in BOOLEAN
        /\ first \in Int /\ first <= s + 1 /\ s + 1 \in Int
    BY <1>1
  <2> HIDE DEF first
  <2>2. \A f \in b.messages : Dated(f, StartTime, now)
    BY <1>0, <1>4, <2>1, BuildDated DEF T
  <2>3. Filled(EraseTo(added, first), T)
    BY <1>4, <2>1, EraseFilled
  <2> HIDE DEF b
  <2>4. \/ rmap' = added /\ feedback' = feedback
        \/ rmap' = EraseTo(added, first) /\ feedback' = feedback \cup b.messages
    BY <1>7 DEF SendFeedbackOnRequest, b, first
  <2>5. Filled(rmap', T)
    BY <1>4, <2>3, <2>4
  <2>6. \A f \in feedback' : Dated(f, StartTime, now)
    BY <2>2, <2>4 DEF DatedInv
  <2> QED
    BY <2>5, <2>6 DEF T
<1> QED
  BY <1>5, <1>6, <1>7

LEMMA DatedKept ==
  ASSUME DatedInv, UNCHANGED <<now, bound, rmap, feedback>>
  PROVE  DatedInv'
  BY DEF DatedInv

LEMMA DatedStep ==
  ASSUME NetInv, ProxyInv, DatedInv, [Next]_vars
  PROVE  DatedInv'
<1>1. CASE SendPacket
  BY <1>1, DatedKept DEF SendPacket, proxyVars
<1>2. CASE SendFeedback
  <2>1. /\ rmap \in Map /\ wstart \in Int /\ now \in Nat /\ StartTime \in Nat
        /\ Filled(rmap, {0} \cup (StartTime..now))
    BY <1>2, FeedbackAssumption DEF NetInv, ProxyInv, DatedInv, SendFeedback, Process
  <2>2. \A f \in Periodic(rmap, wstart).messages : Dated(f, StartTime, now)
    BY <2>1, PeriodicDated
  <2>3. /\ feedback' = feedback \cup Periodic(rmap, wstart).messages
        /\ UNCHANGED <<now, bound, rmap>>
    BY <1>2 DEF SendFeedback, Process, netVars
  <2>4. \A f \in feedback' : Dated(f, StartTime, now)
    BY <2>2, <2>3 DEF DatedInv
  <2> QED
    BY <2>3, <2>4 DEF DatedInv
<1>3. CASE ChangeRoute
  BY <1>3, DatedKept DEF ChangeRoute, proxyVars
<1>4. CASE ChangeMode
  BY <1>4, DatedKept DEF ChangeMode, SetSendPeriodicFeedback
<1>5. CASE Tick
  <2>1. /\ now' = now + 1 /\ now < StartTime + bound.ticks
        /\ UNCHANGED <<bound, rmap, feedback>>
    BY <1>5 DEF Tick, proxyVars
  <2>2. now \in Nat /\ StartTime \in Nat /\ bound.ticks \in Nat
    BY FeedbackAssumption DEF NetInv
  <2>3. now' \in StartTime..StartTime + bound.ticks /\ now <= now'
    BY <2>1, <2>2 DEF DatedInv
  <2>4. StartTime..now \subseteq StartTime..now'
    BY <2>1, <2>2
  <2>5. Filled(rmap', {0} \cup (StartTime..now'))
    BY <2>1, <2>4 DEF DatedInv, Filled
  <2>6. \A f \in feedback' : Dated(f, StartTime, now')
    BY <2>1, <2>2, <2>3, DatedLater DEF DatedInv
  <2> QED
    BY <2>1, <2>3, <2>5, <2>6 DEF DatedInv
<1>6. ASSUME NEW n \in 1..MaxPackets, OnSentPacket(n) PROVE DatedInv'
  BY <1>6, DatedKept DEF OnSentPacket, proxyVars
<1>7. ASSUME NEW n \in 1..MaxPackets, Deliver(n) PROVE DatedInv'
  <2> DEFINE q == IF bound.requests THEN Request[n] ELSE NoRequest
  <2>1. n \in Nat /\ Wire(n) \in Int
    BY <1>7, AdapterAssumption, WireIsNat
  <2>2. q \in [count : Nat, timestamps : BOOLEAN]
    BY FeedbackAssumption DEF NoRequest
  <2>3. IncomingPacket(Wire(n), now, q) /\ UNCHANGED <<now, bound>>
    BY <1>7 DEF Deliver
  <2> HIDE DEF q
  <2>4. /\ Filled(rmap', {0} \cup (StartTime..now))
        /\ \A f \in feedback' : Dated(f, StartTime, now)
    BY <2>1, <2>2, <2>3, DatedIncoming
  <2> QED
    BY <2>3, <2>4 DEF DatedInv
<1>8. ASSUME NEW f \in feedback, DeliverFeedback(f) PROVE DatedInv'
  BY <1>8, DatedKept DEF DeliverFeedback, proxyVars
<1>9. CASE UNCHANGED vars
  BY <1>9, DatedKept DEF vars, proxyVars, netVars
<1> QED
  BY <1>1, <1>2, <1>3, <1>4, <1>5, <1>6, <1>7, <1>8, <1>9 DEF Next

LEMMA SteadyKept ==
  ASSUME SteadyInv, UNCHANGED <<now, offset, last_timestamp, skews>>
  PROVE  SteadyInv'
  BY DEF SteadyInv

LEMMA SteadyStep ==
  ASSUME ShortSessions, NetInv, DatedInv, SteadyInv, [Next]_vars
  PROVE  SteadyInv'
<1>1. CASE SendPacket
  BY <1>1, SteadyKept DEF SendPacket, AdapterAddPacket
<1>2. CASE SendFeedback
  BY <1>2, SteadyKept DEF SendFeedback, adapterVars, netVars
<1>3. CASE ChangeRoute
  BY <1>3, SteadyKept DEF ChangeRoute, SetNetworkRoute
<1>4. CASE ChangeMode
  BY <1>4, SteadyKept DEF ChangeMode, adapterVars
<1>5. CASE Tick
  <2>1. now' = now + 1 /\ UNCHANGED <<offset, last_timestamp, skews>>
    BY <1>5 DEF Tick, adapterVars
  <2>2. now \in Nat /\ StartTime \in Nat
    BY FeedbackAssumption DEF NetInv
  <2>3. \A t \in StartTime..now : t \in StartTime..now'
    BY <2>1, <2>2
  <2>4. Steady(offset, last_timestamp, skews, StartTime, now)
    BY DEF SteadyInv
  <2>5. Steady(offset, last_timestamp, skews, StartTime, now')
    BY <2>3, <2>4 DEF Steady
  <2> QED
    BY <2>1, <2>5 DEF SteadyInv
<1>6. ASSUME NEW n \in 1..MaxPackets, OnSentPacket(n) PROVE SteadyInv'
  BY <1>6, SteadyKept DEF OnSentPacket, ProcessSentPacket
<1>7. ASSUME NEW n \in 1..MaxPackets, Deliver(n) PROVE SteadyInv'
  BY <1>7, SteadyKept DEF Deliver, adapterVars
<1>8. ASSUME NEW f \in feedback, DeliverFeedback(f) PROVE SteadyInv'
  <2>1. ProcessTransportFeedback(f, SenderTime) /\ now' = now /\ SenderTime \in Nat
    BY <1>8 DEF DeliverFeedback, NetInv
  <2>2. Dated(f, StartTime, now)
    BY <1>8 DEF DatedInv
  <2>3. Within(StartTime, now)
    <3>1. /\ now \in Nat /\ StartTime \in Nat /\ bound.ticks \in Nat
          /\ StartTime <= now /\ now <= StartTime + bound.ticks
      BY FeedbackAssumption DEF NetInv, DatedInv
    <3>2. 2 * (bound.ticks + BaseScale - 1) < WrapPeriod
      BY DEF ShortSessions, NetInv
    <3>3. BaseScale \in Nat \ {0} /\ WrapPeriod \in Nat
      BY PacketAssumption, WrapPeriodFacts
    <3> QED
      BY <3>1, <3>2, <3>3 DEF Within
  <2>4. Steady(offset', last_timestamp', skews', StartTime, now)
    BY <2>1, <2>2, <2>3, SteadyAfter DEF SteadyInv
  <2> QED
    BY <2>1, <2>4 DEF SteadyInv
<1>9. CASE UNCHANGED vars
  BY <1>9, SteadyKept DEF vars, adapterVars, netVars
<1> QED
  BY <1>1, <1>2, <1>3, <1>4, <1>5, <1>6, <1>7, <1>8, <1>9 DEF Next

LEMMA SteadyStart ==
  ASSUME Init
  PROVE  DatedInv /\ SteadyInv
<1>1. rmap.times = <<>> /\ feedback = {} /\ now = StartTime
  BY DEF Init, ProxyInit, EmptyMap
<1>2. Filled(rmap, {0} \cup (StartTime..now))
  BY <1>1, MapAssumption, EmptySeq DEF Filled
<1>3. now \in StartTime..StartTime + bound.ticks
  BY <1>1, FeedbackAssumption DEF Init
<1>4. offset = None /\ skews = {}
  BY DEF Init, AdapterInit
<1>5. SteadyInv
  BY <1>4 DEF SteadyInv, Steady
<1> QED
  BY <1>1, <1>2, <1>3, <1>5 DEF DatedInv

LEMMA SteadyAgrees ==
  ASSUME SteadyInv
  PROVE  TimesAgree
<1>1. CASE skews = {}
  BY <1>1, FS_EmptySet DEF TimesAgree
<1>2. CASE skews # {}
  <2>1. PICK k : skews = {k}
    <3>1. \E c : \A k \in skews : k = c
      BY <1>2 DEF SteadyInv, Steady
    <3> QED
      BY <1>2, <3>1
  <2>2. Cardinality(skews) = 1
    BY <2>1, FS_Singleton
  <2> QED
    BY <2>2 DEF TimesAgree
<1> QED
  BY <1>1, <1>2

(* In every session shorter than half of the time after which the 24 bits  *)
(* of the reference time wrap (64 ms times 2^23, about six days), the      *)
(* receive times that the controller is told differ from the arrival times *)
(* by one constant, a new one only when an older message would make the    *)
(* offset negative, for every loss, duplication and order of packets and   *)
(* messages, every number of packets, every size of the map and any two    *)
(* clocks of the same pace: the deltas and the differences of the          *)
(* reference times are then exact, so the offset of the adapter follows    *)
(* the clock of the receiver.  Longer sessions need not have it: of two    *)
(* messages half a wrap apart GetBaseDeltaUs cannot say which is the       *)
(* earlier (transport_feedback.cc:385).                                    *)
THEOREM TimesAreSteady ==
  ASSUME ShortSessions
  PROVE  Spec => []TimesAgree
<1>1. Init => NetInv /\ ProxyInv /\ DatedInv /\ SteadyInv
  BY ProxyStart, SteadyStart
<1>2. NetInv /\ ProxyInv /\ DatedInv /\ SteadyInv /\ [Next]_vars
        => (NetInv /\ ProxyInv /\ DatedInv /\ SteadyInv)'
  BY NetStep, ProxyStep, DatedStep, SteadyStep
<1>3. SteadyInv => TimesAgree
  BY SteadyAgrees
<1> QED
  BY <1>1, <1>2, <1>3, PTL DEF Spec
=============================================================================

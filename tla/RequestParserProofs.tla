------------------------ MODULE RequestParserProofs -------------------------
(***************************************************************************)
(* Proofs about RequestParser, for inputs of any length over any part of   *)
(* the alphabet.                                                           *)
(***************************************************************************)
EXTENDS RequestParser, SequenceTheorems, TLAPS

(* A well-typed header stays one when a character is pushed. *)
LEMMA PushType ==
    ASSUME NEW hs \in Seq(Header), hs # <<>>, NEW c \in Chars
    PROVE  /\ PushName(hs, c) \in Seq(Header) /\ PushName(hs, c) # <<>>
           /\ PushValue(hs, c) \in Seq(Header) /\ PushValue(hs, c) # <<>>
<1>1. Len(hs) \in Nat \ {0} /\ Len(hs) \in 1..Len(hs) /\ hs \in [1..Len(hs) -> Header]
  BY EmptySeq, LenProperties
<1>2. hs[Len(hs)] \in Header
  BY <1>1
<1> DEFINE h == hs[Len(hs)]
           n == [h EXCEPT !.name = Append(h.name, c)]
           v == [h EXCEPT !.value = Append(h.value, c)]
<1>3. h.name \in Seq(Chars) /\ h.value \in Seq(Chars)
  BY <1>2 DEF Header
<1>4. Append(h.name, c) \in Seq(Chars) /\ Append(h.value, c) \in Seq(Chars)
  BY <1>3, AppendProperties
<1>5. n \in Header /\ v \in Header
  BY <1>2, <1>4 DEF Header
<1>6. /\ PushName(hs, c) = [hs EXCEPT ![Len(hs)] = n]
      /\ PushValue(hs, c) = [hs EXCEPT ![Len(hs)] = v]
  BY <1>1 DEF PushName, PushValue
<1>7. \A x \in Header : [hs EXCEPT ![Len(hs)] = x] \in Seq(Header)
                        /\ [hs EXCEPT ![Len(hs)] = x] # <<>>
  <2> SUFFICES ASSUME NEW x \in Header
               PROVE  [hs EXCEPT ![Len(hs)] = x] \in Seq(Header)
                      /\ [hs EXCEPT ![Len(hs)] = x] # <<>>
    OBVIOUS
  <2>2. /\ [hs EXCEPT ![Len(hs)] = x] \in Seq(Header)
        /\ Len([hs EXCEPT ![Len(hs)] = x]) = Len(hs)
    BY <1>1, ExceptSeq
  <2> QED
    BY <1>1, <2>2, EmptySeq
<1> QED
  BY <1>5, <1>6, <1>7

(* The version stays an int when a digit is added, overflow included. *)
LEMMA NumberTypes ==
    /\ 0 \in Ints
    /\ \A n \in Ints, c \in Chars : is_digit(c) => Number(n, c) \subseteq Ints
<1>1. 0 \in Ints
  BY ParserAssumption DEF Ints
<1>2. ASSUME NEW n \in Ints, NEW c \in Chars, is_digit(c)
      PROVE  Number(n, c) \subseteq Ints
  <2>1. Value[c] = 1 /\ n \in Int
    BY <1>2 DEF is_digit, Value, Ints
  <2>2. n * 10 \in Ints /\ n * 10 + Zero + Value[c] \in Ints => n * 10 + Value[c] \in Ints
    BY <2>1, ParserAssumption DEF Ints
  <2> QED
    BY <2>2 DEF Number
<1> QED
  BY <1>1, <1>2

IInv == TypeOK /\ BackIsDefined

LEMMA InitInv == Init => IInv
<1> SUFFICES ASSUME Init PROVE IInv
  OBVIOUS
<1>1. <<>> \in Seq(Chars) /\ <<>> \in Seq(Header)
  BY EmptySeq
<1> QED
  BY <1>1, NumberTypes DEF Init, IInv, TypeOK, States, BackIsDefined

(* Pushing a character to the method or to the URI, and a new header. *)
LEMMA AppendTypes ==
    ASSUME TypeOK, NEW c \in Chars
    PROVE  /\ Append(method, c) \in Seq(Chars) /\ Append(uri, c) \in Seq(Chars)
           /\ Append(input, c) \in Seq(Chars)
           /\ Append(headers, [name |-> <<c>>, value |-> <<>>]) \in Seq(Header)
           /\ Append(headers, [name |-> <<c>>, value |-> <<>>]) # <<>>
<1>1. method \in Seq(Chars) /\ uri \in Seq(Chars) /\ input \in Seq(Chars) /\ headers \in Seq(Header)
  BY DEF TypeOK
<1>2. <<c>> \in Seq(Chars) /\ <<>> \in Seq(Chars)
  BY EmptySeq
<1>3. [name |-> <<c>>, value |-> <<>>] \in Header
  BY <1>2 DEF Header
<1> QED
  BY <1>1, <1>3, AppendProperties

(* What one character does to the request, and that the state stays one    *)
(* of the parser's.                                                        *)
LEMMA ConsumeTypes ==
    ASSUME IInv, NEW c \in Chars, consume(c)
    PROVE  /\ state' \in States /\ result' \in {"indeterminate", "good", "bad"}
           /\ method' \in Seq(Chars) /\ uri' \in Seq(Chars)
           /\ major' \in Ints /\ minor' \in Ints
           /\ headers' \in Seq(Header)
           /\ BackIsDefined'
<1>1. /\ state \in States /\ method \in Seq(Chars) /\ uri \in Seq(Chars)
      /\ major \in Ints /\ minor \in Ints /\ headers \in Seq(Header) /\ BackIsDefined
      /\ TypeOK
  BY DEF IInv, TypeOK
<1>2. /\ Append(method, c) \in Seq(Chars) /\ Append(uri, c) \in Seq(Chars)
      /\ Append(headers, [name |-> <<c>>, value |-> <<>>]) \in Seq(Header)
      /\ Append(headers, [name |-> <<c>>, value |-> <<>>]) # <<>>
  BY <1>1, AppendTypes
<1>3. CASE Method(c)
  <2>1. /\ state' \in {"method_start", "method", "uri"}
        /\ result' \in {"indeterminate", "bad"}
        /\ method' = method \/ method' = Append(method, c)
        /\ UNCHANGED <<uri, major, minor, headers>>
    BY <1>3 DEF Method, To, Bad, request
  <2> QED
    BY <1>1, <1>2, <2>1 DEF BackIsDefined, States
<1>4. CASE Uri(c)
  <2>1. /\ state' \in {"uri", "http_version_h"} /\ result' \in {"indeterminate", "bad"}
        /\ uri' = uri \/ uri' = Append(uri, c)
        /\ UNCHANGED <<method, major, minor, headers>>
    BY <1>4 DEF Uri, To, Stay, Bad, request
  <2> QED
    BY <1>1, <1>2, <2>1 DEF BackIsDefined, States
<1>5. CASE One(c)
  <2>1. /\ state' = state \/ state' = Literal[state].next
        /\ state \in DOMAIN Literal
        /\ result' \in {"indeterminate", "bad"}
        /\ major' = 0 \/ major' = major
        /\ minor' = 0 \/ minor' = minor
        /\ UNCHANGED <<method, uri, headers>>
    BY <1>5 DEF One, To, Bad, request
  <2>2. /\ Literal[state].next \in States
        /\ Literal[state].next = "header_value" => state = "space_before_header_value"
        /\ Literal[state].next \notin {"header_lws", "header_name",
               "space_before_header_value", "expecting_newline_2"}
    <3>1. DOMAIN Literal =
             {"http_version_h", "http_version_t_1", "http_version_t_2",
              "http_version_p", "http_version_slash", "expecting_newline_1",
              "space_before_header_value", "expecting_newline_2"}
      BY DEF Literal
    <3>2. /\ Literal["http_version_h"].next = "http_version_t_1"
          /\ Literal["http_version_t_1"].next = "http_version_t_2"
          /\ Literal["http_version_t_2"].next = "http_version_p"
          /\ Literal["http_version_p"].next = "http_version_slash"
          /\ Literal["http_version_slash"].next = "http_version_major_start"
          /\ Literal["expecting_newline_1"].next = "header_line_start"
          /\ Literal["space_before_header_value"].next = "header_value"
          /\ Literal["expecting_newline_2"].next = "header_line_start"
      BY DEF Literal
    <3> QED
      BY <2>1, <3>1, <3>2 DEF States
  <2>3. BackIsDefined'
    BY <1>1, <2>1, <2>2 DEF BackIsDefined
  <2>4. state' \in States
    BY <1>1, <2>1, <2>2
  <2>5. major' \in Ints /\ minor' \in Ints
    BY <1>1, <2>1, NumberTypes
  <2> QED
    BY <1>1, <2>1, <2>3, <2>4, <2>5
<1>6. CASE Version(c)
  <2>1. /\ state' \in {"http_version_major_start", "http_version_major",
               "http_version_minor_start", "http_version_minor", "expecting_newline_1"}
        /\ result' \in {"indeterminate", "bad"}
        /\ major' = major \/ (is_digit(c) /\ major' \in Number(major, c))
        /\ minor' = minor \/ (is_digit(c) /\ minor' \in Number(minor, c))
        /\ UNCHANGED <<method, uri, headers>>
    BY <1>6 DEF Version, To, Bad, request
  <2>3. major' \in Ints /\ minor' \in Ints
    BY <1>1, <2>1, NumberTypes
  <2> QED
    BY <1>1, <2>1, <2>3 DEF BackIsDefined, States
<1>7. CASE LineStart(c)
  <2>1. /\ state' \in {"header_line_start", "header_lws", "header_name", "expecting_newline_3"}
        /\ result' \in {"indeterminate", "bad"}
        /\ state' = "header_lws" => headers' = headers /\ headers # <<>>
        /\ state' = "header_name" => headers' = Append(headers, [name |-> <<c>>, value |-> <<>>])
        /\ headers' = headers \/ headers' = Append(headers, [name |-> <<c>>, value |-> <<>>])
        /\ UNCHANGED <<method, uri, major, minor>>
    BY <1>7 DEF LineStart, Continues, To, Bad, request
  <2> QED
    BY <1>1, <1>2, <2>1 DEF BackIsDefined, States
<1>8. CASE Name(c) \/ HeaderValue(c)
  <2>1. headers # <<>>
    BY <1>1, <1>8 DEF BackIsDefined, Name, HeaderValue
  <2>2. /\ PushName(headers, c) \in Seq(Header) /\ PushName(headers, c) # <<>>
        /\ PushValue(headers, c) \in Seq(Header) /\ PushValue(headers, c) # <<>>
    BY <1>1, <2>1, PushType
  <2>3. /\ state' \in States /\ result' \in {"indeterminate", "bad"}
        /\ headers' \in {headers, PushName(headers, c), PushValue(headers, c)}
        /\ UNCHANGED <<method, uri, major, minor>>
    BY <1>1, <1>8 DEF Name, HeaderValue, To, Stay, Bad, request, States
  <2> QED
    BY <1>1, <2>1, <2>2, <2>3 DEF BackIsDefined
<1>9. CASE End(c)
  BY <1>1, <1>9 DEF End, Ending, request, BackIsDefined
<1> QED
  BY <1>3, <1>4, <1>5, <1>6, <1>7, <1>8, <1>9 DEF consume

LEMMA NextInv ==
    ASSUME IInv, [Next]_vars
    PROVE  IInv'
<1>1. CASE UNCHANGED vars
  BY <1>1 DEF vars, request, IInv, TypeOK, BackIsDefined
<1>2. CASE Next
  <2>1. PICK c \in Chars : consume(c) /\ input' = Append(input, c)
    BY <1>2, ParserAssumption DEF Next, Take
  <2>2. input' \in Seq(Chars)
    BY <2>1, AppendTypes DEF IInv
  <2> QED
    BY <2>1, <2>2, ConsumeTypes DEF IInv, TypeOK
<1> QED
  BY <1>1, <1>2

-----------------------------------------------------------------------------
(* Every call of consume leaves the parser in one of its states and the    *)
(* request well typed, whatever arrives and however long it is: a version  *)
(* number with more digits than an int holds is some int, not its value.   *)
THEOREM TypeCorrect == Spec => []TypeOK
<1>1. IInv => TypeOK
  BY DEF IInv
<1> QED
  BY <1>1, InitInv, NextInv, PTL DEF Spec

(* consume never calls back() on an empty vector of headers. *)
THEOREM BackIsAlwaysDefined == Spec => []BackIsDefined
<1>1. IInv => BackIsDefined
  BY DEF IInv
<1> QED
  BY <1>1, InitInv, NextInv, PTL DEF Spec
=============================================================================

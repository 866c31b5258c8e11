--------------------------- MODULE RequestGrammar ---------------------------
(***************************************************************************)
(* What a request is, stated on the whole text and without a state         *)
(* machine, as a reference for RequestParser: a request line, header       *)
(* lines and continuation lines, each ended by "cr" "lf", and an empty     *)
(* line.  Derived from the transitions of request_parser.cpp and checked   *)
(* against them over bounded inputs.                                       *)
(***************************************************************************)
EXTENDS RequestParser, SequencesExt

All(s, P(_)) == \A i \in 1..Len(s) : P(s[i])
IsToken(s) == s # <<>> /\ All(s, LAMBDA c : c \in Token)
IsText(s) == All(s, LAMBDA c : c \notin Ctl)
IsNumber(s) == s # <<>> /\ All(s, LAMBDA c : c \in Digit)

(* The text is cut after every "cr" "lf"; a line is what stands between. *)
Ends(s) == {i \in 2..Len(s) : s[i - 1] = "cr" /\ s[i] = "lf"}
LineEnds(s) == SetToSortSeq(Ends(s), <)
Lines(s) ==
    [k \in 1..Len(LineEnds(s)) |->
        SubSeq(s, IF k = 1 THEN 1 ELSE LineEnds(s)[k - 1] + 1, LineEnds(s)[k] - 2)]

HTTP == <<"H", "T", "T", "P", "/">>

(* Where a request line is cut: the blank after the method, the one after  *)
(* the URI and the dot of the version.                                     *)
Cuts(l) ==
    {t \in (1..Len(l)) \X (1..Len(l)) \X (1..Len(l)) :
        /\ t[1] < t[2] /\ t[2] + 5 < t[3]
        /\ l[t[1]] = " " /\ l[t[2]] = " " /\ l[t[3]] = "."
        /\ IsToken(SubSeq(l, 1, t[1] - 1))
        /\ All(SubSeq(l, t[1] + 1, t[2] - 1), LAMBDA c : c \notin Ctl \union {" "})
        /\ SubSeq(l, t[2] + 1, t[2] + 5) = HTTP
        /\ IsNumber(SubSeq(l, t[2] + 6, t[3] - 1))
        /\ IsNumber(SubSeq(l, t[3] + 1, Len(l)))}

Colons(l) ==
    {i \in 2..Len(l) - 1 :
        l[i] = ":" /\ l[i + 1] = " " /\ IsToken(SubSeq(l, 1, i - 1))
        /\ IsText(SubSeq(l, i + 2, Len(l)))}

(* The blanks a continuation line starts with. *)
Indent(l) == {i \in 1..Len(l) : \A j \in 1..i : l[j] \in Blank}
Folded(l) == SubSeq(l, Cardinality(Indent(l)) + 1, Len(l))
IsFold(l) == Indent(l) # {} /\ IsText(Folded(l))

IsRequest(s) ==
    LET ls == Lines(s)
        n == Len(ls)
    IN  /\ n >= 2 /\ LineEnds(s)[n] = Len(s)
        /\ Cuts(ls[1]) # {}
        /\ ls[n] = <<>>
        /\ \A k \in 2..n - 1 :
              Colons(ls[k]) # {} \/ (k > 2 /\ IsFold(ls[k]))

(* What the request says: one header per line with a colon, its value      *)
(* continued by the lines that follow it.                                  *)
HeaderLines(ls) == {k \in 2..Len(ls) - 1 : Colons(ls[k]) # {}}
LastOf(ls, k) ==
    CHOOSE e \in k..Len(ls) - 1 :
        /\ \A j \in k + 1..e : j \notin HeaderLines(ls)
        /\ e + 1 \in HeaderLines(ls) \union {Len(ls)}
HeaderAt(ls, k) ==
    LET colon == CHOOSE i \in Colons(ls[k]) : TRUE
    IN  [name |-> SubSeq(ls[k], 1, colon - 1),
         value |-> SubSeq(ls[k], colon + 2, Len(ls[k])) \o
                   FlattenSeq([j \in 1..LastOf(ls, k) - k |-> Folded(ls[k + j])])]
HeadersOf(ls) ==
    LET at == SetToSortSeq(HeaderLines(ls), <)
    IN  [i \in 1..Len(at) |-> HeaderAt(ls, at[i])]

-----------------------------------------------------------------------------
(* The parser says "good" exactly when what it consumed is a request: it   *)
(* neither stops before the end of one nor reads past it.                  *)
GoodIsRequest == (result = "good") <=> IsRequest(input)

(* Of a good request the parser has kept what the text says, folded header *)
(* values and version numbers of one digit included.                       *)
FieldsAreRight ==
    result = "good" =>
        LET ls == Lines(input)
            cut == CHOOSE t \in Cuts(ls[1]) : TRUE
        IN  /\ method = SubSeq(ls[1], 1, cut[1] - 1)
            /\ uri = SubSeq(ls[1], cut[1] + 1, cut[2] - 1)
            /\ cut[3] = cut[2] + 7 => major = Value[ls[1][cut[2] + 6]]
            /\ Len(ls[1]) = cut[3] + 1 => minor = Value[ls[1][cut[3] + 1]]
            /\ headers = HeadersOf(ls)
=============================================================================

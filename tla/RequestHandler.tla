--------------------------- MODULE RequestHandler ---------------------------
(***************************************************************************)
(* signal_server/request_handler.cpp: from the URI of a request to the     *)
(* file that is sent back.  A character is "/", ".", "%", "+", one of a    *)
(* few hexadecimal digits, "z" for any other printable one, "nul", or      *)
(* "other".  Whether the file exists is left open.                         *)
(***************************************************************************)
EXTENDS Integers, Sequences, SequencesExt

CONSTANTS UriChars,   \* the characters of a URI
          MaxUri      \* bound: its length

ASSUME HandlerAssumption ==
    UriChars \subseteq {"/", ".", "%", "+", "0", "2", "e", "f", "z"} /\ MaxUri \in Nat

VARIABLES uri,      \* req.uri
          status,   \* "none" before the reply is filled in
          opened,   \* the path given to ifstream, as the C string it becomes
          extension \* what the Content-Type is chosen by

vars == <<uri, status, opened, extension>>

Index == <<"index">>      \* "index.html", a name with an extension
Fail == [ok |-> FALSE, out |-> <<>>]

Init ==
    /\ uri \in UNION {[1..n -> UriChars] : n \in 0..MaxUri}
    /\ status = "none"
    /\ opened = <<>> /\ extension = <<>>

-----------------------------------------------------------------------------
(* istringstream >> hex: the value of the hexadecimal digits the two       *)
(* characters start with, after a sign; a character that is none of them   *)
(* ends the number and is dropped, and without a digit it fails (-1).      *)
Hex == [c \in {"0", "2", "e", "f"} |->
          CASE c = "0" -> 0 [] c = "2" -> 2 [] c = "e" -> 14 [] c = "f" -> 15]
HexValue(a, b) ==
    IF a = "+" /\ b \in DOMAIN Hex THEN Hex[b]
    ELSE IF a \notin DOMAIN Hex THEN -1
    ELSE IF b \in DOMAIN Hex THEN 16 * Hex[a] + Hex[b] ELSE Hex[a]

CharOf(v) ==
    CASE v = 0 -> "nul" [] v = 46 -> "." [] v = 47 -> "/" [] OTHER -> "other"

url_decode(in) ==
    LET rest[i \in 1..Len(in) + 1] ==
          IF i = Len(in) + 1 THEN [ok |-> TRUE, out |-> <<>>]
          ELSE IF in[i] = "%" THEN
            IF i + 2 > Len(in) \/ HexValue(in[i + 1], in[i + 2]) < 0 THEN Fail
            ELSE IF ~rest[i + 3].ok THEN Fail
            ELSE [ok |-> TRUE,
                  out |-> <<CharOf(HexValue(in[i + 1], in[i + 2]))>> \o rest[i + 3].out]
          ELSE IF ~rest[i + 1].ok THEN Fail
          ELSE [ok |-> TRUE,
                out |-> <<IF in[i] = "+" THEN "other" ELSE in[i]>> \o rest[i + 1].out]
    IN  rest[1]

(* Mutant: what is refused is looked for in the URI as it was sent. *)
MutChecked(in, path) == in

(* The text that must be absolute and free of "..": the decoded path. *)
Checked(in, path) == path

HasDotDot(p) == \E i \in 1..Len(p) - 1 : p[i] = "." /\ p[i + 1] = "."
Acceptable(p) == p # <<>> /\ p[1] = "/" /\ ~HasDotDot(p)

WithIndex(path) == IF path[Len(path)] = "/" THEN path \o Index ELSE path

LastAt(p, c) == Cardinality({i \in 1..Len(p) : \E j \in i..Len(p) : p[j] = c})

(* The characters after the last dot, if no slash follows it. *)
ExtensionOf(p) ==
    IF Last(p) = "index" THEN <<"html">>
    ELSE IF LastAt(p, ".") > LastAt(p, "/")
      THEN SubSeq(p, LastAt(p, ".") + 1, Len(p)) ELSE <<>>

(* full_path.c_str(): the path ends at the first nul. *)
CString(p) ==
    IF Contains(p, "nul")
      THEN SubSeq(p, 1, (CHOOSE i \in 1..Len(p) :
                            p[i] = "nul" /\ \A j \in 1..i - 1 : p[j] # "nul") - 1)
      ELSE p

Refuse == status' = "bad_request" /\ UNCHANGED <<opened, extension>>

handle_request ==
    /\ status = "none"
    /\ LET decoded == url_decode(uri)
           path == WithIndex(decoded.out)
       IN  \/ ~decoded.ok /\ Refuse
           \/ /\ decoded.ok /\ ~Acceptable(Checked(uri, decoded.out)) /\ Refuse
           \/ /\ decoded.ok /\ Acceptable(Checked(uri, decoded.out))
              /\ opened' = CString(path)
              /\ extension' = ExtensionOf(path)
              /\ status' \in {"ok", "not_found"}      \* whether the file opens
    /\ UNCHANGED uri

Next == handle_request

Spec == Init /\ [][Next]_vars

-----------------------------------------------------------------------------
(* Properties *)

Opened == status \in {"ok", "not_found"}

(* The components of a path, and how deep below doc_root each one is. *)
Slashes(p) == {i \in 1..Len(p) : p[i] = "/"} \union {Len(p) + 1}
Component(p, i) ==
    SubSeq(p, i + 1, (CHOOSE j \in Slashes(p) :
                        j > i /\ \A k \in Slashes(p) : k > i => j <= k) - 1)
Depth(p, i) ==
    LET step(j) == CASE Component(p, j) = <<".", ".">> -> -1
                     [] Component(p, j) \in {<<>>, <<".">>} -> 0
                     [] OTHER -> 1
        starts == {j \in 1..i : p[j] = "/"}
        up == {j \in starts : step(j) = -1}
        down == {j \in starts : step(j) = 1}
    IN  Cardinality(down) - Cardinality(up)

(* The file system, following the path that is opened component by         *)
(* component, never leaves doc_root, however the URI was encoded.          *)
StaysInRoot ==
    Opened =>
        /\ opened # <<>> /\ opened[1] = "/"
        /\ \A i \in 1..Len(opened) : opened[i] = "/" => Depth(opened, i) >= 0
=============================================================================

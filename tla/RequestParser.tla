---------------------------- MODULE RequestParser ---------------------------
(***************************************************************************)
(* signal_server/request_parser.cpp: the state machine that takes an HTTP  *)
(* request one character at a time, however the characters are spread      *)
(* over reads: parse() stops at "good" or "bad" and otherwise keeps its    *)
(* place in state_ for the next buffer.                                    *)
(*                                                                         *)
(* A character stands for its class: "a" for any other token character,    *)
(* "1" for a digit, "del" for any other control character, "@" for any     *)
(* other tspecial, "hi" for a byte above 127.                              *)
(***************************************************************************)
EXTENDS Integers, Sequences

CONSTANTS Chars,       \* the characters that arrive
          Zero,        \* the code of the character '0'
          MaxInt,      \* the largest int
          HeaderChars, \* bound: those that arrive after the request line
          MaxField,    \* bound: length of the method and of the URI
          MaxDigits,   \* bound: digits in the input
          MaxName,     \* bound: length of a header name
          MaxValue,    \* bound: length of a header value
          MaxInput     \* bound: length of the input

Ctl == {"tab", "cr", "lf", "del"}
TSpecial == {"/", ":", "@", " ", "tab"}
Digit == {"1"}
Token == {"a", "H", "T", "P", ".", "1"}
AllChars == Token \union TSpecial \union Ctl \union {"hi"}

ASSUME ParserAssumption ==
    /\ Chars \subseteq AllChars
    /\ HeaderChars \subseteq Chars
    /\ Zero \in Nat /\ MaxInt \in Nat
    /\ MaxField \in Nat /\ MaxDigits \in Nat /\ MaxName \in Nat /\ MaxValue \in Nat
    /\ MaxInput \in Nat

VARIABLES state,   \* state_
          result,  \* what the last call of consume returned
          method, uri, major, minor, headers,   \* the request
          input    \* history: the characters consumed

request == <<method, uri, major, minor, headers>>
vars == <<state, result, request, input>>

States == {"method_start", "method", "uri", "http_version_h", "http_version_t_1",
           "http_version_t_2", "http_version_p", "http_version_slash",
           "http_version_major_start", "http_version_major",
           "http_version_minor_start", "http_version_minor",
           "expecting_newline_1", "header_line_start", "header_lws",
           "header_name", "space_before_header_value", "header_value",
           "expecting_newline_2", "expecting_newline_3"}

Init ==
    /\ state = "method_start" /\ result = "indeterminate"
    /\ method = <<>> /\ uri = <<>> /\ major = 0 /\ minor = 0 /\ headers = <<>>
    /\ input = <<>>

(* Character classes. *)
is_char(c) == c # "hi"
is_ctl(c) == c \in Ctl
is_tspecial(c) == c \in TSpecial
is_digit(c) == c \in Digit
NotToken(c) == ~is_char(c) \/ is_ctl(c) \/ is_tspecial(c)
Value == [c \in Digit |-> 1]

-----------------------------------------------------------------------------
(* consume *)

To(s) == state' = s /\ result' = "indeterminate"
Stay == UNCHANGED state /\ result' = "indeterminate"
Bad == UNCHANGED <<state, request>> /\ result' = "bad"

Method(c) ==
    \/ /\ state = "method" /\ c = " "
       /\ To("uri") /\ UNCHANGED request
    \/ /\ state \in {"method_start", "method"} /\ ~NotToken(c)
       /\ To("method")
       /\ method' = Append(method, c)
       /\ UNCHANGED <<uri, major, minor, headers>>
    \/ /\ state = "method_start" /\ NotToken(c) /\ Bad
    \/ /\ state = "method" /\ c # " " /\ NotToken(c) /\ Bad

Uri(c) ==
    /\ state = "uri"
    /\ \/ /\ c = " "
          /\ To("http_version_h") /\ UNCHANGED request
       \/ /\ c # " " /\ ~is_ctl(c)
          /\ Stay
          /\ uri' = Append(uri, c)
          /\ UNCHANGED <<method, major, minor, headers>>
       \/ is_ctl(c) /\ Bad

(* The states that wait for one character, and what follows it. *)
Literal ==
    [http_version_h |-> [char |-> "H", next |-> "http_version_t_1"],
     http_version_t_1 |-> [char |-> "T", next |-> "http_version_t_2"],
     http_version_t_2 |-> [char |-> "T", next |-> "http_version_p"],
     http_version_p |-> [char |-> "P", next |-> "http_version_slash"],
     http_version_slash |-> [char |-> "/", next |-> "http_version_major_start"],
     expecting_newline_1 |-> [char |-> "lf", next |-> "header_line_start"],
     space_before_header_value |-> [char |-> " ", next |-> "header_value"],
     expecting_newline_2 |-> [char |-> "lf", next |-> "header_line_start"]]

One(c) ==
    /\ state \in DOMAIN Literal
    /\ \/ /\ c = Literal[state].char
          /\ To(Literal[state].next)
          /\ IF state = "http_version_slash"
               THEN major' = 0 /\ minor' = 0 ELSE UNCHANGED <<major, minor>>
          /\ UNCHANGED <<method, uri, headers>>
       \/ c # Literal[state].char /\ Bad

(* n * 10 + input - '0', from left to right, for an int n.  A step that    *)
(* leaves the ints is undefined: any int may then come out.                *)
Ints == -MaxInt - 1 .. MaxInt
Number(n, c) ==
    IF n * 10 \in Ints /\ n * 10 + Zero + Value[c] \in Ints
      THEN {n * 10 + Value[c]} ELSE Ints

Version(c) ==
    \/ /\ state \in {"http_version_major_start", "http_version_major"} /\ is_digit(c)
       /\ To("http_version_major")
       /\ major' \in Number(major, c)
       /\ UNCHANGED <<method, uri, minor, headers>>
    \/ /\ state \in {"http_version_minor_start", "http_version_minor"} /\ is_digit(c)
       /\ To("http_version_minor")
       /\ minor' \in Number(minor, c)
       /\ UNCHANGED <<method, uri, major, headers>>
    \/ /\ state = "http_version_major" /\ c = "."
       /\ To("http_version_minor_start") /\ UNCHANGED request
    \/ /\ state = "http_version_minor" /\ c = "cr"
       /\ To("expecting_newline_1") /\ UNCHANGED request
    \/ /\ state \in {"http_version_major_start", "http_version_minor_start"}
       /\ ~is_digit(c) /\ Bad
    \/ /\ state = "http_version_major" /\ c # "." /\ ~is_digit(c) /\ Bad
    \/ /\ state = "http_version_minor" /\ c # "cr" /\ ~is_digit(c) /\ Bad

(* req.headers.back().name.push_back(c), and the same for the value. *)
PushName(hs, c) == [hs EXCEPT ![Len(hs)].name = Append(@, c)]
PushValue(hs, c) == [hs EXCEPT ![Len(hs)].value = Append(@, c)]

Blank == {" ", "tab"}

(* Mutant: a continuation may come before the first header. *)
MutContinues(c) == c \in Blank

(* A continuation line needs a header to continue. *)
Continues(c) == headers # <<>> /\ c \in Blank

LineStart(c) ==
    /\ state = "header_line_start"
    /\ \/ /\ c = "cr"
          /\ To("expecting_newline_3") /\ UNCHANGED request
       \/ /\ Continues(c)
          /\ To("header_lws") /\ UNCHANGED request
       \/ /\ ~NotToken(c)
          /\ To("header_name")
          /\ headers' = Append(headers, [name |-> <<c>>, value |-> <<>>])
          /\ UNCHANGED <<method, uri, major, minor>>
       \/ /\ c # "cr" /\ ~Continues(c) /\ NotToken(c) /\ Bad

Name(c) ==
    /\ state = "header_name"
    /\ \/ /\ c = ":"
          /\ To("space_before_header_value") /\ UNCHANGED request
       \/ /\ ~NotToken(c)
          /\ Stay
          /\ headers' = PushName(headers, c)
          /\ UNCHANGED <<method, uri, major, minor>>
       \/ /\ c # ":" /\ NotToken(c) /\ Bad

(* Mutant: blanks at the start of a continuation are kept. *)
MutSkipped(c) == FALSE

(* Blanks at the start of a continuation line are dropped. *)
Skipped(c) == state = "header_lws" /\ c \in Blank

HeaderValue(c) ==
    /\ state \in {"header_lws", "header_value"}
    /\ \/ /\ c = "cr"
          /\ To("expecting_newline_2") /\ UNCHANGED request
       \/ /\ Skipped(c)
          /\ Stay /\ UNCHANGED request
       \/ /\ ~Skipped(c) /\ ~is_ctl(c)
          /\ To("header_value")
          /\ headers' = PushValue(headers, c)
          /\ UNCHANGED <<method, uri, major, minor>>
       \/ /\ c # "cr" /\ ~Skipped(c) /\ is_ctl(c) /\ Bad

(* Mutant: the last character is not looked at. *)
MutEnding(c) == "good"

Ending(c) == IF c = "lf" THEN "good" ELSE "bad"

End(c) ==
    /\ state = "expecting_newline_3"
    /\ result' = Ending(c)
    /\ UNCHANGED <<state, request>>

consume(c) ==
    \/ Method(c) \/ Uri(c) \/ One(c) \/ Version(c)
    \/ LineStart(c) \/ Name(c) \/ HeaderValue(c) \/ End(c)

(* The next character, of this buffer or of a later one. *)
Take(c) ==
    /\ result = "indeterminate"
    /\ consume(c)
    /\ input' = Append(input, c)

(* The bounds on the fields and on the input. *)
Bounded ==
    /\ Len(input') <= MaxInput
    /\ Len(method') <= MaxField /\ Len(uri') <= MaxField
    /\ Len(SelectSeq(input', is_digit)) <= MaxDigits
    /\ \A i \in 1..Len(headers') :
          Len(headers'[i].name) <= MaxName /\ Len(headers'[i].value) <= MaxValue
InHeaders == state \in {"header_line_start", "header_lws", "header_name",
                        "space_before_header_value", "header_value",
                        "expecting_newline_2", "expecting_newline_3"}

Next ==
    /\ \E c \in IF InHeaders THEN HeaderChars ELSE Chars : Take(c)
    /\ Bounded

Spec == Init /\ [][Next]_vars

-----------------------------------------------------------------------------
(* Properties *)

Header == [name : Seq(Chars), value : Seq(Chars)]

(* Types: the parser stays in its states, only characters of the input get *)
(* into the request, and the version numbers are ints.                     *)
TypeOK ==
    /\ state \in States
    /\ result \in {"indeterminate", "good", "bad"}
    /\ method \in Seq(Chars) /\ uri \in Seq(Chars)
    /\ major \in Ints /\ minor \in Ints
    /\ headers \in Seq(Header)
    /\ input \in Seq(Chars)

(* req.headers.back() is called in these states: there is a header then.   *)
(* On an empty vector the call is undefined.                               *)
BackIsDefined ==
    state \in {"header_lws", "header_name", "space_before_header_value",
               "header_value", "expecting_newline_2"} => headers # <<>>
=============================================================================

---------------------------- MODULE MCChatServer ----------------------------
(* Small instances of ChatServer for TLC. *)
EXTENDS ChatServer

CONSTANTS s1, s2

MCSession == {s1, s2}
MCStalled == {s1}

(* A header atoi makes negative, an empty body, a body that just fits and  *)
(* one that does not.                                                      *)
MCHeaderValue == {-1, 0, 1, 2}
=============================================================================

---------------------------- MODULE MCHttpServer ----------------------------
(* Small instances of HttpServer for TLC. *)
EXTENDS HttpServer

CONSTANTS c1, c2

(* One peer that never reads its reply and one that does. *)
MCTwo == {c1, c2}
MCReader == {c1}
=============================================================================

---------------------------- MODULE MCHttpServer ----------------------------
(* HttpServer for TLC: one connection more than the limit, two stops       *)
(* (Ctrl-C twice).                                                         *)
EXTENDS HttpServer
=============================================================================

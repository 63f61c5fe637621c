---------------------------- MODULE MCWebServer ----------------------------
(* WebServer, as it is. *)
EXTENDS WebServer
=============================================================================

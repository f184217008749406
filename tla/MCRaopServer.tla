---------------------------- MODULE MCRaopServer ----------------------------
(* Two connections one after the other, one of them through a restart.     *)
EXTENDS RaopServer
=============================================================================

------------------------------ MODULE MCHttpd ------------------------------
(* Three slots and a spare handler, so that the table can be full, a slot and *)
(* a handler can be reused, and a leaked handler would still leave another.   *)
EXTENDS Httpd
=============================================================================

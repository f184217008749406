----------------------------- MODULE MCRaopRtp -----------------------------
(* Two sessions over a ring of 2 entries and 6 sequence numbers, each with or *)
(* without resends: packets of the first session may still be held when it   *)
(* is stopped, and a flush request may be left for the second one.  The      *)
(* liveness run has one session and one value.                               *)
EXTENDS RaopRtp
=============================================================================

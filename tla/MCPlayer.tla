------------------------------ MODULE MCPlayer ------------------------------
(* Two starts, three clients, two buffers of each kind: more resets than   *)
(* the codec has buffers, and a start whose work the last one's joins.     *)
EXTENDS Player
=============================================================================

---------------------------- MODULE MCRaopBuffer ----------------------------
(* A ring of 4 entries and 16 sequence numbers: the numbers wrap four times  *)
(* round the ring, and a packet may be late, early, beyond the ring or in    *)
(* the half of the numbers that compares as "before".                        *)
EXTENDS RaopBuffer
=============================================================================

------------------------------- MODULE Seqnum -------------------------------
(***************************************************************************)
(* The arithmetic of RTP sequence numbers as src/lib/raop_buffer.c does it: *)
(* an unsigned short counts the packets modulo 2^16, two numbers are        *)
(* compared by the sign of their difference stored in a short, and a packet *)
(* lives in the slot "seqnum modulo RAOP_BUFFER_LENGTH" of the ring.        *)
(*                                                                         *)
(* The widths are parameters, so that TLC can use a small ring and the      *)
(* proofs hold for every one.  The program has HalfMod = 32768 and          *)
(* RAOP_BUFFER_LENGTH = 512.                                               *)
(***************************************************************************)
EXTENDS Integers

CONSTANTS
  HalfMod,             \* half the number of sequence numbers
  RAOP_BUFFER_LENGTH   \* slots of the ring

SeqMod == 2 * HalfMod

ASSUME SeqnumAssumption ==
  /\ HalfMod \in Nat
  /\ RAOP_BUFFER_LENGTH \in Nat \ {0}
  /\ RAOP_BUFFER_LENGTH < HalfMod
  /\ SeqMod % RAOP_BUFFER_LENGTH = 0

Seqnums == 0 .. SeqMod - 1
Slots   == 0 .. RAOP_BUFFER_LENGTH - 1

\* The value an expression has once stored in an unsigned short.
Wrap(x) == x % SeqMod

\* s1 - s2 stored in a short: positive when s1 is ahead of s2.
seqnum_cmp(s1, s2) ==
  LET d == Wrap(s1 - s2) IN IF d < HalfMod THEN d ELSE d - SeqMod

\* The entry a sequence number is kept in.
SlotOf(seqnum) == seqnum % RAOP_BUFFER_LENGTH
=============================================================================

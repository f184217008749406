------------------------------- MODULE Bytes -------------------------------
(***************************************************************************)
(* Bytes, 0..255, and sequences of them, for the ciphers.  Words of 32     *)
(* bits are kept as their four bytes, the most significant first: TLC's    *)
(* integers are too narrow for them.                                       *)
(***************************************************************************)
EXTENDS Naturals, Sequences, SequencesExt
LOCAL INSTANCE Bitwise

BLOCKSIZE == 16

XorTable == [a \in 0..255 |-> [b \in 0..255 |-> a ^^ b]]
Xor8(a, b) == XorTable[a][b]
XorAll(word) == Xor8(Xor8(word[1], word[2]), Xor8(word[3], word[4]))

(* The same sequence, with its elements computed once: TLC may keep a      *)
(* function as an expression and evaluate it at each application.          *)
Fixed(s) == SubSeq(s, 1, Len(s))

(* Bytewise, over the length of the first. *)
XorSeq(s, t) == Fixed([i \in 1..Len(s) |-> Xor8(s[i], t[i])])

(* Doubling in GF(2^8) by the polynomial x^8 + x^4 + x^3 + x + 1, which    *)
(* the two implementations write in three ways.                            *)
Doubled(x) == IF x >= 128 THEN Xor8((2 * x) % 256, 27) ELSE 2 * x

(* The next value of a counter of 16 bytes, the last the lowest: a byte    *)
(* changes when all bytes behind it overflow.                              *)
CountUp(counter) ==
    Fixed([i \in 1..16 |->
        IF \A j \in i + 1..16 : counter[j] = 255
        THEN (counter[i] + 1) % 256 ELSE counter[i]])

(* A block as the four words, or columns, it is loaded into, and back. *)
Columns(block) == Fixed([i \in 1..4 |-> SubSeq(block, 4 * i - 3, 4 * i)])
Block(columns) == columns[1] \o columns[2] \o columns[3] \o columns[4]

Smaller(m, n) == IF m < n THEN m ELSE n

(* What a cipher made of the first bytes, and of those behind them. *)
Before(first, rest) == [ctx |-> rest.ctx, out |-> first \o rest.out]

Zeros(n) == Fixed([i \in 1..n |-> 0])
=============================================================================

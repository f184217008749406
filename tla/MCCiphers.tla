----------------------------- MODULE MCCiphers -----------------------------
(***************************************************************************)
(* Blocks of 16 bytes as in the code, payloads around one and two of them: *)
(* every remainder is left, and is followed by payloads that end on a      *)
(* block and that do not.  One iv carries in its last bytes after a block, *)
(* the other overflows altogether.                                         *)
(***************************************************************************)
EXTENDS Ciphers

FipsKey ==
    <<43, 126, 21, 22, 40, 174, 210, 166, 171, 247, 21, 136, 9, 207, 79, 60>>
MCKeys ==
    {[key |-> FipsKey,
      iv  |-> <<9, 8, 7, 6, 5, 4, 3, 2, 1, 0, 1, 2, 3, 254, 255, 254>>],
     [key |-> Text(100, 16), iv |-> Fixed([i \in 1..16 |-> 255])]}
MCPayloadSizes == {15, 16, 17, 21, 28}

(* The cipher is AES: the example of FIPS 197, appendix B, by both.        *)
FipsInput ==
    <<50, 67, 246, 168, 136, 90, 48, 141, 49, 49, 152, 162, 224, 55, 7, 52>>
FipsOutput ==
    <<57, 37, 132, 29, 2, 220, 9, 251, 220, 17, 133, 151, 25, 106, 11, 50>>
ASSUME CiphersAreAES ==
    /\ Tiny!Cipher(FipsInput, Tiny!KeyExpansion(FipsKey)) = FipsOutput
    /\ AES_cbc_encrypt(AES_set_key(FipsKey, Zeros(16)), FipsInput).out = FipsOutput
=============================================================================

------------------------------ MODULE TinyAes ------------------------------
(***************************************************************************)
(* src/lib/aes.c, the AES-128 in counter mode that decrypts the video.     *)
(* Its ECB and CBC modes, and with them the inverse cipher, are not used   *)
(* by the program.                                                         *)
(***************************************************************************)
EXTENDS Bytes

Nb == 4
Nk == 4
Nr == 10

sbox ==
  <<99, 124, 119, 123, 242, 107, 111, 197, 48, 1, 103, 43, 254, 215, 171, 118, 202, 130, 201, 125,
    250, 89, 71, 240, 173, 212, 162, 175, 156, 164, 114, 192, 183, 253, 147, 38, 54, 63, 247, 204,
    52, 165, 229, 241, 113, 216, 49, 21, 4, 199, 35, 195, 24, 150, 5, 154, 7, 18, 128, 226,
    235, 39, 178, 117, 9, 131, 44, 26, 27, 110, 90, 160, 82, 59, 214, 179, 41, 227, 47, 132,
    83, 209, 0, 237, 32, 252, 177, 91, 106, 203, 190, 57, 74, 76, 88, 207, 208, 239, 170, 251,
    67, 77, 51, 133, 69, 249, 2, 127, 80, 60, 159, 168, 81, 163, 64, 143, 146, 157, 56, 245,
    188, 182, 218, 33, 16, 255, 243, 210, 205, 12, 19, 236, 95, 151, 68, 23, 196, 167, 126, 61,
    100, 93, 25, 115, 96, 129, 79, 220, 34, 42, 144, 136, 70, 238, 184, 20, 222, 94, 11, 219,
    224, 50, 58, 10, 73, 6, 36, 92, 194, 211, 172, 98, 145, 149, 228, 121, 231, 200, 55, 109,
    141, 213, 78, 169, 108, 86, 244, 234, 101, 122, 174, 8, 186, 120, 37, 46, 28, 166, 180, 198,
    232, 221, 116, 31, 75, 189, 139, 138, 112, 62, 181, 102, 72, 3, 246, 14, 97, 53, 87, 185,
    134, 193, 29, 158, 225, 248, 152, 17, 105, 217, 142, 148, 155, 30, 135, 233, 206, 85, 40, 223,
    140, 161, 137, 13, 191, 230, 66, 104, 65, 153, 45, 15, 176, 84, 187, 22>>

getSBoxValue(num) == sbox[num + 1]

Rcon == <<141, 1, 2, 4, 8, 16, 32, 64, 128, 27, 54>>

(* The round keys as Nb * (Nr + 1) words, the first Nk from the key. *)
RECURSIVE Expanded(_)
Expanded(words) ==
    LET i     == Len(words)
        last  == words[i]
        turned == [b \in 1..4 |-> getSBoxValue(last[(b % 4) + 1])]
        tempa == IF i % Nk = 0
                 THEN [turned EXCEPT ![1] = Xor8(@, Rcon[i \div Nk + 1])]
                 ELSE last
    IN  IF i = Nb * (Nr + 1) THEN words
        ELSE Expanded(Append(words, XorSeq(words[i + 1 - Nk], tempa)))

KeyExpansion(Key) == Expanded(Columns(Key))

AES_init_ctx_iv(key, iv) == [RoundKey |-> KeyExpansion(key), Iv |-> iv]

(* The state is a sequence of columns. *)
AddRoundKey(round, state, RoundKey) ==
    Fixed([i \in 1..4 |-> XorSeq(state[i], RoundKey[round * Nb + i])])

SubBytes(state) ==
    Fixed([i \in 1..4 |-> Fixed([j \in 1..4 |-> getSBoxValue(state[i][j])])])

(* Row j goes j - 1 columns to the left. *)
ShiftRows(state) ==
    Fixed([i \in 1..4 |-> Fixed([j \in 1..4 |-> state[((i + j - 2) % 4) + 1][j]])])

MixColumns(state) ==
    Fixed([i \in 1..4 |->
        LET Tmp == XorAll(state[i])
        IN  Fixed([j \in 1..4 |->
                Xor8(state[i][j],
                     Xor8(Tmp, Doubled(Xor8(state[i][j], state[i][(j % 4) + 1]))))])])

(* The rounds after the first round key; the last does not mix. *)
RECURSIVE Rounds(_, _, _)
Rounds(round, state, RoundKey) ==
    LET shifted == ShiftRows(SubBytes(state))
    IN  IF round = Nr THEN AddRoundKey(Nr, shifted, RoundKey)
        ELSE Rounds(round + 1,
                    AddRoundKey(round, MixColumns(shifted), RoundKey), RoundKey)

Cipher(block, RoundKey) ==
    Block(Rounds(1, AddRoundKey(0, Columns(block), RoundKey), RoundKey))

(* A broken form: the overflow is not carried.                             *)
IncrementIvLastByte(Iv) == [Iv EXCEPT ![16] = (@ + 1) % 256]
(* The loop at the end of a block: the last byte that is not 255 goes up.  *)
IncrementIv(Iv) == CountUp(Iv)

(* A call starts with a fresh block of keystream and forgets what it has   *)
(* not used of its last one.                                               *)
RECURSIVE AES_CTR_xcrypt_buffer(_, _)
AES_CTR_xcrypt_buffer(ctx, buf) ==
    IF buf = <<>> THEN [ctx |-> ctx, out |-> <<>>]
    ELSE Before(XorSeq(SubSeq(buf, 1, Smaller(Len(buf), BLOCKSIZE)),
                       Cipher(ctx.Iv, ctx.RoundKey)),
                AES_CTR_xcrypt_buffer([ctx EXCEPT !.Iv = IncrementIv(@)],
                                      SubSeq(buf, BLOCKSIZE + 1, Len(buf))))
=============================================================================

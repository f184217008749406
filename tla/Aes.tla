-------------------------------- MODULE Aes --------------------------------
(***************************************************************************)
(* src/lib/crypto/aes.c and src/lib/aes_ctr.c: the AES that decrypts the   *)
(* audio (CBC) and the signatures of pairing (counter mode).  The program  *)
(* uses keys of 128 bits only.                                             *)
(***************************************************************************)
EXTENDS Bytes

rounds == 10
words  == 4

aes_sbox ==
  <<99, 124, 119, 123, 242, 107, 111, 197, 48, 1, 103, 43, 254, 215, 171, 118, 202, 130, 201, 125,
    250, 89, 71, 240, 173, 212, 162, 175, 156, 164, 114, 192, 183, 253, 147, 38, 54, 63, 247, 204,
    52, 165, 229, 241, 113, 216, 49, 21, 4, 199, 35, 195, 24, 150, 5, 154, 7, 18, 128, 226,
    235, 39, 178, 117, 9, 131, 44, 26, 27, 110, 90, 160, 82, 59, 214, 179, 41, 227, 47, 132,
    83, 209, 0, 237, 32, 252, 177, 91, 106, 203, 190, 57, 74, 76, 88, 207, 208, 239, 170, 251,
    67, 77, 51, 133, 69, 249, 2, 127, 80, 60, 159, 168, 81, 163, 64, 143, 146, 157, 56, 245,
    188, 182, 218, 33, 16, 255, 243, 210, 205, 12, 19, 236, 95, 151, 68, 23, 196, 167, 126, 61,
    100, 93, 25, 115, 96, 129, 79, 220, 34, 42, 144, 136, 70, 238, 184, 20, 222, 94, 11, 219,
    224, 50, 58, 10, 73, 6, 36, 92, 194, 211, 172, 98, 145, 149, 228, 121, 231, 200, 55, 109,
    141, 213, 78, 169, 108, 86, 244, 234, 101, 122, 174, 8, 186, 120, 37, 46, 28, 166, 180, 198,
    232, 221, 116, 31, 75, 189, 139, 138, 112, 62, 181, 102, 72, 3, 246, 14, 97, 53, 87, 185,
    134, 193, 29, 158, 225, 248, 152, 17, 105, 217, 142, 148, 155, 30, 135, 233, 206, 85, 40, 223,
    140, 161, 137, 13, 191, 230, 66, 104, 65, 153, 45, 15, 176, 84, 187, 22>>

aes_isbox ==
  <<82, 9, 106, 213, 48, 54, 165, 56, 191, 64, 163, 158, 129, 243, 215, 251, 124, 227, 57, 130,
    155, 47, 255, 135, 52, 142, 67, 68, 196, 222, 233, 203, 84, 123, 148, 50, 166, 194, 35, 61,
    238, 76, 149, 11, 66, 250, 195, 78, 8, 46, 161, 102, 40, 217, 36, 178, 118, 91, 162, 73,
    109, 139, 209, 37, 114, 248, 246, 100, 134, 104, 152, 22, 212, 164, 92, 204, 93, 101, 182, 146,
    108, 112, 72, 80, 253, 237, 185, 218, 94, 21, 70, 87, 167, 141, 157, 132, 144, 216, 171, 0,
    140, 188, 211, 10, 247, 228, 88, 5, 184, 179, 69, 6, 208, 44, 30, 143, 202, 63, 15, 2,
    193, 175, 189, 3, 1, 19, 138, 107, 58, 145, 17, 65, 79, 103, 220, 234, 151, 242, 207, 206,
    240, 180, 230, 115, 150, 172, 116, 34, 231, 173, 53, 133, 226, 249, 55, 232, 28, 117, 223, 110,
    71, 241, 26, 113, 29, 41, 197, 137, 111, 183, 98, 14, 170, 24, 190, 27, 252, 86, 62, 75,
    198, 210, 121, 32, 154, 219, 192, 254, 120, 205, 90, 244, 31, 221, 168, 51, 136, 7, 199, 49,
    177, 18, 16, 89, 39, 128, 236, 95, 96, 81, 127, 169, 25, 181, 74, 13, 45, 229, 122, 159,
    147, 201, 156, 239, 160, 224, 59, 77, 174, 42, 245, 176, 200, 235, 187, 60, 131, 83, 153, 97,
    23, 43, 4, 126, 186, 119, 214, 38, 225, 105, 20, 99, 85, 33, 12, 125>>

Rcon == <<1, 2, 4, 8, 16, 32, 64, 128, 27, 54>>

(* AES_set_key, the word after those there are. *)
RECURSIVE Scheduled(_)
Scheduled(W) ==
    LET i    == Len(W)
        last == W[i]
        tmp  == IF i % words = 0
                THEN [b \in 1..4 |->
                        Xor8(aes_sbox[last[(b % 4) + 1] + 1],
                            IF b = 1 THEN Rcon[i \div words] ELSE 0)]
                ELSE last
    IN  IF i = 4 * (rounds + 1) THEN W
        ELSE Scheduled(Append(W, XorSeq(W[i + 1 - words], tmp)))

AES_set_key(key, iv) == [ks |-> Scheduled(Columns(key)), iv |-> iv]

(* The macros rot1, rot2, rot3 and mul2 on a word. *)
rot(n, w) == Fixed([b \in 1..4 |-> w[((b + 3 - n) % 4) + 1]])
mul2(w)   == Fixed([b \in 1..4 |-> Doubled(w[b])])

inv_mix_col(x) ==
    LET f2 == mul2(x)
        f4 == mul2(f2)
        f8 == mul2(f4)
        f9 == XorSeq(x, f8)
        sum == XorSeq(XorSeq(f2, f4), f8)
    IN  XorSeq(XorSeq(XorSeq(sum, rot(3, XorSeq(f2, f9))), rot(2, XorSeq(f4, f9))),
               rot(1, f9))

(* The keys of the first and the last round are used as they are. *)
AES_convert_key(ctx) ==
    [ctx EXCEPT !.ks =
        Fixed([i \in 1..4 * (rounds + 1) |->
            IF i \in 5..4 * rounds THEN inv_mix_col(@[i]) ELSE @[i]])]

AddKey(data, k, first) ==
    Fixed([row \in 1..4 |-> XorSeq(data[row], k[first + row])])

(* ByteSub and ShiftRow: byte b of a row is taken b - 1 rows further on to *)
(* encrypt, and b - 1 rows before to decrypt.                              *)
Substituted(data, row) ==
    Fixed([b \in 1..4 |-> aes_sbox[data[((row + b - 2) % 4) + 1][b] + 1]])
InvSubstituted(data, row) ==
    Fixed([b \in 1..4 |-> aes_isbox[data[((row + 4 - b) % 4) + 1][b] + 1]])

Mixed(a) ==
    LET tmp1 == XorAll(a)
    IN  Fixed([b \in 1..4 |->
                  Xor8(a[b], Xor8(tmp1, Doubled(Xor8(a[b], a[(b % 4) + 1]))))])

(* xt0 to xt6 of AES_decrypt. *)
Unmixed(a) ==
    LET xt  == Fixed([b \in 1..4 |-> Doubled(Xor8(a[b], a[(b % 4) + 1]))])
        xt4 == Doubled(Xor8(xt[1], xt[2]))
        xt5 == Doubled(Xor8(xt[2], xt[3]))
        xt6 == Doubled(Xor8(xt4, xt5))
    IN  Fixed([b \in 1..4 |->
                  XorAll(<<xt[b], Xor8(XorAll(a), a[b]),
                           IF b % 2 = 1 THEN xt4 ELSE xt5, xt6>>)])

RECURSIVE EncryptRounds(_, _, _)
EncryptRounds(curr_rnd, data, k) ==
    IF curr_rnd = rounds THEN data
    ELSE LET tmp == Fixed([row \in 1..4 |->
                        IF curr_rnd < rounds - 1
                        THEN Mixed(Substituted(data, row))
                        ELSE Substituted(data, row)])
         IN  EncryptRounds(curr_rnd + 1, AddKey(tmp, k, 4 * (curr_rnd + 1)), k)

AES_encrypt(ctx, data) == EncryptRounds(0, AddKey(data, ctx.ks, 0), ctx.ks)

RECURSIVE DecryptRounds(_, _, _)
DecryptRounds(curr_rnd, data, k) ==
    IF curr_rnd = rounds THEN data
    ELSE LET tmp == Fixed([row \in 1..4 |->
                        IF curr_rnd < rounds - 1
                        THEN Unmixed(InvSubstituted(data, row))
                        ELSE InvSubstituted(data, row)])
         IN  DecryptRounds(curr_rnd + 1,
                           AddKey(tmp, k, 4 * (rounds - 1 - curr_rnd)), k)

AES_decrypt(ctx, data) ==
    DecryptRounds(0, AddKey(data, ctx.ks, 4 * rounds), ctx.ks)

(* Whole blocks of msg; what is behind them is left.  The iv of the        *)
(* context is that of the next call.                                       *)
RECURSIVE AES_cbc_encrypt(_, _)
CbcEncrypted(ctx, tout, msg) ==
    Before(tout, AES_cbc_encrypt([ctx EXCEPT !.iv = tout],
                                 SubSeq(msg, BLOCKSIZE + 1, Len(msg))))
AES_cbc_encrypt(ctx, msg) ==
    IF Len(msg) < BLOCKSIZE THEN [ctx |-> ctx, out |-> <<>>]
    ELSE CbcEncrypted(ctx,
            Block(AES_encrypt(ctx, Columns(XorSeq(SubSeq(msg, 1, BLOCKSIZE), ctx.iv)))),
            msg)

RECURSIVE AES_cbc_decrypt(_, _)
CbcDecrypted(ctx, tin, msg) ==
    Before(XorSeq(Block(AES_decrypt(ctx, Columns(tin))), ctx.iv),
           AES_cbc_decrypt([ctx EXCEPT !.iv = tin],
                           SubSeq(msg, BLOCKSIZE + 1, Len(msg))))
AES_cbc_decrypt(ctx, msg) ==
    IF Len(msg) < BLOCKSIZE THEN [ctx |-> ctx, out |-> <<>>]
    ELSE CbcDecrypted(ctx, SubSeq(msg, 1, BLOCKSIZE), msg)

-----------------------------------------------------------------------------
(* aes_ctr.c *)

ctr128_inc(counter) == CountUp(counter)

AES_ctr_set_key(key, nonce) ==
    [aes_ctx |-> AES_set_key(key, nonce), counter |-> nonce,
     state |-> Zeros(BLOCKSIZE), available |-> 0]

(* The while loop's first lines: a block of keystream when none is left.   *)
WithState(ctx, made) ==
    [aes_ctx |-> made.ctx, counter |-> ctr128_inc(ctx.counter),
     state |-> made.out, available |-> BLOCKSIZE]
Refilled(ctx) ==
    IF ctx.available # 0 THEN ctx
    ELSE WithState(ctx, AES_cbc_encrypt([ctx.aes_ctx EXCEPT !.iv = Zeros(BLOCKSIZE)],
                                        ctx.counter))

RECURSIVE AES_ctr_encrypt(_, _)
CtrEncrypted(ready, msg) ==
    LET n == Smaller(Len(msg), ready.available)
    IN  Before(XorSeq(SubSeq(msg, 1, n),
                      SubSeq(ready.state, BLOCKSIZE - ready.available + 1, BLOCKSIZE)),
               AES_ctr_encrypt([ready EXCEPT !.available = @ - n],
                               SubSeq(msg, n + 1, Len(msg))))
AES_ctr_encrypt(ctx, msg) ==
    IF msg = <<>> THEN [ctx |-> ctx, out |-> <<>>]
    ELSE CtrEncrypted(Refilled(ctx), msg)
=============================================================================

---------------------------- MODULE MirrorBuffer ----------------------------
(***************************************************************************)
(* src/lib/mirror_buffer.c: decryption of the video payloads of a mirroring *)
(* stream.  The sender encrypts all of them with one AES-CTR keystream, and *)
(* payloads do not end on block boundaries, while the cipher of this        *)
(* program produces whole blocks only: mirror_buffer_decrypt keeps what it  *)
(* has not used of the last block in og for the next payload.               *)
(*                                                                         *)
(* A byte is represented by its position in the keystream: the sender's by  *)
(* the position it was encrypted with, an output byte by the one it was     *)
(* decrypted with.                                                          *)
(***************************************************************************)
EXTENDS Integers

CONSTANTS
  BLOCKLEN,      \* bytes of an AES block, 16
  PayloadSizes,  \* sizes of the payloads a sender makes
  MaxBytes       \* bound on the bytes of one stream

ASSUME MirrorBufferAssumption ==
  /\ BLOCKLEN \in Nat \ {0}
  /\ PayloadSizes \subseteq Nat
  /\ MaxBytes \in Nat

VARIABLES
  sent,              \* bytes of the stream before the next payload (the sender's)
  generated,         \* keystream bytes aes_ctx has produced
  og,                \* keystream position of the first byte of the block kept
  nextDecryptCount,  \* bytes of that block still to be used
  payloadStart, output   \* the last payload: its first byte, its decrypted bytes

payloadVars == <<sent, generated, og, nextDecryptCount, payloadStart, output>>

PayloadTypeOK ==
  /\ sent \in 0 .. MaxBytes
  /\ generated \in Nat
  /\ og \in Nat
  /\ nextDecryptCount \in 0 .. BLOCKLEN - 1
  /\ payloadStart \in 0 .. sent
  /\ output \in [0 .. sent - payloadStart - 1 -> Int]

NoOutput == [i \in 0 .. -1 |-> 0]

PayloadInit ==
  /\ sent = 0
  /\ generated = 0
  /\ og = 0
  /\ nextDecryptCount = 0
  /\ payloadStart = 0
  /\ output = NoOutput

\* A new stream starts with a new key: mirror_buffer_init_aes.
InitAes ==
  /\ sent' = 0
  /\ generated' = 0
  /\ nextDecryptCount' = 0
  /\ payloadStart' = 0
  /\ output' = NoOutput
  /\ UNCHANGED og

(* A broken form: the rest of a block is taken from its beginning. *)
KeyOf_FromBlockStart(i) ==
  IF i < nextDecryptCount
  THEN og + i
  ELSE generated + (i - nextDecryptCount)

\* The keystream byte that byte i of the payload is decrypted with.
KeyOf(i) ==
  IF i < nextDecryptCount
  THEN og + (BLOCKLEN - nextDecryptCount) + i
  ELSE generated + (i - nextDecryptCount)

\* Bytes after the ones og serves; C divides towards zero, so that a payload
\* shorter than those has neither a whole block nor a rest.
Fresh(inputLen) ==
  IF inputLen < nextDecryptCount THEN 0 ELSE inputLen - nextDecryptCount
Rest(inputLen)  == Fresh(inputLen) % BLOCKLEN
Whole(inputLen) == Fresh(inputLen) - Rest(inputLen)

\* mirror_buffer_decrypt of the next payload of the stream.
Decrypt(inputLen) ==
  LET restlen == Rest(inputLen) IN
  /\ sent + inputLen <= MaxBytes
  /\ sent' = sent + inputLen
  /\ payloadStart' = sent
  /\ output' = [i \in 0 .. inputLen - 1 |-> KeyOf(i)]
  /\ IF restlen > 0
     THEN /\ og' = generated + Whole(inputLen)
          /\ generated' = generated + Whole(inputLen) + BLOCKLEN
          /\ nextDecryptCount' = BLOCKLEN - restlen
     ELSE /\ generated' = generated + Whole(inputLen)
          /\ nextDecryptCount' = 0
          /\ UNCHANGED og

PayloadNext == InitAes \/ \E inputLen \in PayloadSizes : Decrypt(inputLen)

PayloadSpec == PayloadInit /\ [][PayloadNext]_payloadVars

-----------------------------------------------------------------------------
(* Properties *)

\* Whatever the sizes of the payloads so far, every byte is decrypted with the
\* keystream byte it was encrypted with: video after a payload that ends inside
\* a block is not garbage.
OwnKeystream ==
  \A i \in DOMAIN output : output[i] = payloadStart + i
=============================================================================

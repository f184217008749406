------------------------------ MODULE Ciphers ------------------------------
(***************************************************************************)
(* The three users of the program's two AES implementations, byte by byte: *)
(* mirror_buffer.c (the position arithmetic is MirrorBuffer's, here with   *)
(* the bytes it moves), the audio packets of raop_buffer.c and the         *)
(* signatures of pairing.c.                                                *)
(*                                                                         *)
(* What a sender does is external; it encrypts each thing as one plain     *)
(* stream, and with the other implementation where there is one, so that   *)
(* the two are compared as well.                                           *)
(***************************************************************************)
EXTENDS MirrorBuffer, Aes

CONSTANTS
  Keys,         \* the keys in use: records of a key and an iv, 16 bytes each
  PacketSizes   \* sizes of the audio packets

Tiny == INSTANCE TinyAes

VARIABLES
  stream,     \* the key of the mirroring stream
  aes_ctx,    \* the cipher's context in mirror_buffer
  ogBytes,    \* the block kept in og
  reading     \* what was sent last, in clear, and what it was decrypted to

cipherVars == <<payloadVars, stream, aes_ctx, ogBytes, reading>>

Text(from, n) == Fixed([i \in 1..n |-> (7 * (from + i)) % 256])
Read(clear, out) == reading' = [clear |-> clear, out |-> out]

SignatureSize == 64

CiphersInit ==
    /\ PayloadInit
    /\ stream \in Keys
    /\ aes_ctx = Tiny!AES_init_ctx_iv(stream.key, stream.iv)
    /\ ogBytes = Zeros(BLOCKSIZE)
    /\ reading = [clear |-> <<>>, out |-> <<>>]

-----------------------------------------------------------------------------
(* Video *)

(* mirror_buffer_init_aes with the key of another stream. *)
NewStream(k) ==
    /\ InitAes
    /\ stream' = k
    /\ aes_ctx' = Tiny!AES_init_ctx_iv(k.key, k.iv)
    /\ Read(<<>>, <<>>)
    /\ UNCHANGED ogBytes

(* The sender's keystream, which it uses without a break. *)
Keystream ==
    [k \in Keys |-> AES_ctr_encrypt(AES_ctr_set_key(k.key, k.iv), Zeros(MaxBytes)).out]

(* mirror_buffer_decrypt: the head by the block kept, the whole blocks,    *)
(* and the rest as a block filled with zeros, of which the keystream stays *)
(* behind the rest.                                                        *)
mirror_buffer_decrypt(inputLen) ==
    /\ Decrypt(inputLen)
    /\ \E clear \in {Text(sent, inputLen)} :
       \E input \in {XorSeq(clear, SubSeq(Keystream[stream], sent + 1, sent + inputLen))},
          head  \in {SubSeq(ogBytes, BLOCKSIZE - nextDecryptCount + 1, BLOCKSIZE)},
          start \in {inputLen - Rest(inputLen)} :
       \E whole \in {Tiny!AES_CTR_xcrypt_buffer(
                        aes_ctx, SubSeq(input, nextDecryptCount + 1, start))} :
       \E last \in {Tiny!AES_CTR_xcrypt_buffer(
                        whole.ctx, SubSeq(input, start + 1, inputLen)
                                      \o Zeros(BLOCKSIZE - Rest(inputLen)))} :
          /\ IF Rest(inputLen) > 0
             THEN /\ aes_ctx' = last.ctx
                  /\ ogBytes' = last.out
             ELSE /\ aes_ctx' = whole.ctx
                  /\ UNCHANGED ogBytes
          /\ Read(clear, SubSeq(XorSeq(SubSeq(input, 1, nextDecryptCount), head)
                                   \o whole.out \o last.out, 1, inputLen))
    /\ UNCHANGED stream

-----------------------------------------------------------------------------
(* Audio: each packet by itself, what is behind its last whole block as it *)
(* is.                                                                     *)
AudioPacket(k, payloadsize) ==
    LET encryptedlen == (payloadsize \div BLOCKSIZE) * BLOCKSIZE
        clear == Text(0, payloadsize)
        rest  == SubSeq(clear, encryptedlen + 1, payloadsize)
        data  == AES_cbc_encrypt(AES_set_key(k.key, k.iv), clear).out \o rest
        context == AES_convert_key(AES_set_key(k.key, k.iv))
    IN  /\ Read(clear, AES_cbc_decrypt(context, SubSeq(data, 1, encryptedlen)).out
                           \o SubSeq(data, encryptedlen + 1, payloadsize))
        /\ UNCHANGED <<payloadVars, stream, aes_ctx, ogBytes>>

-----------------------------------------------------------------------------
(* Pairing: the signatures of the two sides are one stream, ours first.    *)

PeerStream(k) == Tiny!AES_init_ctx_iv(k.key, k.iv)

(* pairing_session_get_signature, and the peer that reads it. *)
pairing_session_get_signature(k) ==
    LET signature == Text(0, SignatureSize)
        encrypted == AES_ctr_encrypt(AES_ctr_set_key(k.key, k.iv), signature).out
    IN  /\ Read(signature, Tiny!AES_CTR_xcrypt_buffer(PeerStream(k), encrypted).out)
        /\ UNCHANGED <<payloadVars, stream, aes_ctx, ogBytes>>

(* pairing_session_finish: a context of its own, moved on by a signature's *)
(* length first.                                                           *)
pairing_session_finish(k) ==
    LET signature == Text(SignatureSize, SignatureSize)
        both == Tiny!AES_CTR_xcrypt_buffer(
                    PeerStream(k), Zeros(SignatureSize) \o signature).out
        encrypted == SubSeq(both, SignatureSize + 1, 2 * SignatureSize)
        fake == AES_ctr_encrypt(AES_ctr_set_key(k.key, k.iv), Zeros(SignatureSize))
    IN  /\ Read(signature, AES_ctr_encrypt(fake.ctx, encrypted).out)
        /\ UNCHANGED <<payloadVars, stream, aes_ctx, ogBytes>>

(* Audio and pairing share nothing with the stream; they are taken before  *)
(* its first payload.                                                      *)
Idle == sent = 0 /\ ogBytes = Zeros(BLOCKSIZE)

CiphersNext ==
    \/ \E k \in Keys :
          \/ NewStream(k)
          \/ Idle /\ pairing_session_get_signature(k)
          \/ Idle /\ pairing_session_finish(k)
          \/ \E payloadsize \in PacketSizes : Idle /\ AudioPacket(k, payloadsize)
    \/ \E inputLen \in PayloadSizes : mirror_buffer_decrypt(inputLen)

CiphersSpec == CiphersInit /\ [][CiphersNext]_cipherVars

-----------------------------------------------------------------------------
(* Correctness *)

(* Whatever was sent is read as it was meant, byte for byte: video in      *)
(* payloads of any sizes, also where the counter carries into its higher   *)
(* bytes, audio with its rest in clear, and both signatures; so the two    *)
(* implementations, with their own tables and key schedules, agree.        *)
ReadsWhatWasSent == reading.out = reading.clear
=============================================================================

------------------------- MODULE RaopRtpMirrorProofs -------------------------
(***************************************************************************)
(* What holds of a mirror session for every length of the prefix and every *)
(* number of streams.                                                      *)
(*                                                                         *)
(* The inductive invariant says, for every place of the control thread,    *)
(* which of the two threads and of the two sockets there are (StopInv),    *)
(* and of every byte kept of a prefix that it is of the packet under way   *)
(* or was left by a stream that ended amid one (PrefixInv).                *)
(*                                                                         *)
(* The last section is about the payloads the mirror thread decrypts       *)
(* (MirrorBuffer), for every length of the cipher's block.                 *)
(***************************************************************************)
EXTENDS RaopRtpMirror, MirrorBuffer, SequenceTheorems, TLAPS

Alive == mirror \notin {"none", "exited"}

StopInv ==
  /\ control = "idle" => (running <=> ~joined)
  /\ control \notin {"idle"} => ~running
  /\ control = "gone" => joined
  /\ control \in {"joinMirror", "signal", "joinTime", "markJoined"} => ~joined
  /\ joined => mirror = "none" /\ time = "none" /\ ~dataOpen /\ ~timeOpen
  /\ ~joined /\ control \in {"idle", "joinMirror"} => dataOpen /\ timeOpen
  /\ control \in {"signal", "joinTime"} => mirror = "none" /\ ~dataOpen /\ timeOpen
  /\ control = "markJoined" =>
       mirror = "none" /\ time = "none" /\ ~dataOpen /\ ~timeOpen

PrefixInv ==
  Alive => \A k \in DOMAIN prefix : prefix[k] \in cut \/ (inPacket /\ prefix[k] = stream)

IInv == TypeOK /\ StopInv
HeaderInv == IInv /\ PrefixInv

-----------------------------------------------------------------------------
(* Types, threads and sockets *)

\* TypeOK in the parts that are kept for different reasons.
FlagsOK ==
  /\ running \in BOOLEAN /\ joined \in BOOLEAN /\ destroying \in BOOLEAN
  /\ dataOpen \in BOOLEAN /\ timeOpen \in BOOLEAN
  /\ first \in BOOLEAN /\ asked \in BOOLEAN /\ answer \in BOOLEAN
  /\ inPacket \in BOOLEAN

PlacesOK ==
  /\ control \in {"idle", "joinMirror", "signal", "joinTime", "markJoined", "gone"}
  /\ mirror \in {"none", "check", "select", "header", "payload", "spin",
                "exited"}
  /\ stream \in 0 .. MaxStreams
  /\ time \in {"none", "check", "select", "wait", "send", "exited"}
  /\ streams \in 0 .. MaxStreams
  /\ peer \in {"none", "open", "silent", "closed"}

CutOK == cut \subseteq 1 .. MaxStreams

\* What is received makes the prefix longer, with bytes of the stream.
LEMMA ReceivedBytes ==
  ASSUME NEW n \in 1 .. PREFIX, TypeOK, stream # 0
  PROVE  /\ Received(n) \in Seq(1 .. MaxStreams)
         /\ Len(Received(n)) = Len(prefix) + n
         /\ \A k \in DOMAIN Received(n) :
              Received(n)[k] = IF k \in DOMAIN prefix THEN prefix[k] ELSE stream
<1> DEFINE bytes == [k \in 1 .. n |-> stream]
<1>1. n \in Nat /\ stream \in 1 .. MaxStreams /\ prefix \in Seq(1 .. MaxStreams)
  BY MirrorAssumption DEF TypeOK, PrefixOK
<1>2. bytes \in Seq(1 .. MaxStreams)  BY <1>1
<1>3. Len(bytes) = n  BY <1>1
<1>4. \A k \in 1 .. n : bytes[k] = stream  OBVIOUS
<1>5. Received(n) = prefix \o bytes  BY DEF Received
<1> HIDE DEF bytes
<1>6. /\ prefix \o bytes \in Seq(1 .. MaxStreams)
      /\ Len(prefix \o bytes) = Len(prefix) + n
      /\ \A k \in 1 .. Len(prefix) + n :
           (prefix \o bytes)[k] = IF k <= Len(prefix) THEN prefix[k] ELSE bytes[k - Len(prefix)]
  BY <1>1, <1>2, <1>3, ConcatProperties
<1>7. ASSUME NEW k \in DOMAIN (prefix \o bytes)
      PROVE  (prefix \o bytes)[k] = IF k \in DOMAIN prefix THEN prefix[k] ELSE stream
  <2>1. Len(prefix) \in Nat /\ DOMAIN prefix = 1 .. Len(prefix) /\ k \in 1 .. Len(prefix) + n
    BY <1>1, <1>6
  <2> QED  BY <1>1, <1>4, <1>6, <2>1
<1> QED  BY <1>5, <1>6, <1>7

LEMMA TypeParts == TypeOK <=> FlagsOK /\ PlacesOK /\ PrefixOK /\ CutOK
  BY DEF TypeOK, FlagsOK, PlacesOK, CutOK

LEMMA IInvInit == Init => IInv
<1> SUFFICES ASSUME Init PROVE IInv  OBVIOUS
<1>1. PrefixOK  BY MirrorAssumption DEF Init, PrefixOK
<1>2. FlagsOK  BY Zenon DEF Init, FlagsOK
<1>3. PlacesOK /\ CutOK  BY MirrorAssumption DEF Init, PlacesOK, CutOK
<1>4. StopInv  BY DEF Init, StopInv
<1> QED  BY <1>1, <1>2, <1>3, <1>4, TypeParts DEF IInv

\* A prefix that is kept, forgotten or read on is one.
LEMMA PrefixStep == TypeOK /\ [Next]_vars => PrefixOK'
<1> SUFFICES ASSUME TypeOK, [Next]_vars PROVE PrefixOK'  OBVIOUS
<1>1. CASE UNCHANGED prefix
  BY <1>1 DEF TypeOK, PrefixOK
<1>2. CASE prefix' = <<>>
  BY <1>2, MirrorAssumption DEF PrefixOK
<1>3. ASSUME NEW n \in 1 .. PREFIX, ReadPrefix(n) PROVE PrefixOK'
  BY <1>2, <1>3, ReceivedBytes, MirrorAssumption DEF ReadPrefix, PrefixOK
<1>4. CASE ControlNext
  BY <1>1, <1>2, <1>4
     DEF ControlNext, Start, Stop, JoinMirror, Signal, JoinTime, MarkJoined, DestroyStopped,
         mirrorVars
<1>5. CASE MirrorNext
  BY <1>1, <1>2, <1>3, <1>5
     DEF MirrorNext, CheckRunning, SelectTimeout, SelectError, Accept, StreamEnds,
         LoopNext, ReadRest, ReadHeader, ReadPayload, PayloadRecvFails, EndsInPacket,
         NalLengthNotPositive, PacketDone, MirrorExits
<1>6. CASE TimeNext
  BY <1>1, <1>6
     DEF TimeNext, TimeChecksRunning, TimeSelectTimeout, TimeSelectError, TimeReceives,
         WaitEnds, SendRequest, TimeKeeps, mirrorVars
<1>7. CASE PeerNext
  BY <1>1, <1>7
     DEF PeerNext, PeerConnects, PeerPauses, PeerCloses, ClockAnswers, ClockLost,
         PeerKeeps, mirrorVars
<1>8. CASE UNCHANGED vars
  BY <1>1, <1>8 DEF vars, mirrorVars
<1> QED  BY <1>4, <1>5, <1>6, <1>7, <1>8 DEF Next

LEMMA FlagsStep == FlagsOK /\ [Next]_vars => FlagsOK'
<1> SUFFICES ASSUME FlagsOK, [Next]_vars PROVE FlagsOK'  OBVIOUS
<1> USE DEF FlagsOK, controlVars, mirrorVars, timeVars, streamVars, packetVars, clockVars
<1>1. CASE Start  BY <1>1, Zenon DEF Start, raop_rtp_init_mirror_sockets
<1>2. CASE Stop  BY <1>2, Zenon DEF Stop
<1>3. CASE JoinMirror  BY <1>3, Zenon DEF JoinMirror
<1>4. CASE Signal  BY <1>4, Zenon DEF Signal
<1>5. CASE JoinTime  BY <1>5, Zenon DEF JoinTime
<1>6. CASE MarkJoined \/ DestroyStopped  BY <1>6, Zenon DEF MarkJoined, DestroyStopped
<1>7. CASE PeerNext
  <2> USE DEF PeerKeeps
  <2>1. CASE PeerConnects  BY <2>1, Zenon DEF PeerConnects
  <2>2. CASE PeerPauses    BY <2>2, Zenon DEF PeerPauses
  <2>3. CASE PeerCloses    BY <2>3, Zenon DEF PeerCloses
  <2>4. CASE ClockAnswers  BY <2>4, Zenon DEF ClockAnswers
  <2>5. CASE ClockLost     BY <2>5, Zenon DEF ClockLost
  <2> QED  BY <1>7, <2>1, <2>2, <2>3, <2>4, <2>5 DEF PeerNext
<1>8. CASE CheckRunning \/ SelectTimeout \/ SelectError \/ Accept \/ ReadHeader
            \/ EndsInPacket \/ NalLengthNotPositive
  <2> USE DEF MirrorKeeps
  <2>1. CASE CheckRunning          BY <2>1, Zenon DEF CheckRunning
  <2>2. CASE SelectTimeout         BY <2>2, Zenon DEF SelectTimeout
  <2>3. CASE SelectError           BY <2>3, Zenon DEF SelectError
  <2>4. CASE Accept                BY <2>4, Zenon DEF Accept
  <2>5. CASE ReadHeader            BY <2>5, Zenon DEF ReadHeader
  <2>6. CASE EndsInPacket          BY <2>6, Zenon DEF EndsInPacket
  <2>7. CASE NalLengthNotPositive  BY <2>7, Zenon DEF NalLengthNotPositive
  <2> QED  BY <1>8, <2>1, <2>2, <2>3, <2>4, <2>5, <2>6, <2>7
<1>9. CASE StreamEnds \/ ReadPayload \/ PayloadRecvFails
  <2> USE DEF MirrorKeeps
  <2>1. CASE StreamEnds            BY <2>1, Zenon DEF StreamEnds
  <2>2. CASE ReadPayload           BY <2>2, Zenon DEF ReadPayload, PacketDone
  <2>3. CASE PayloadRecvFails      BY <2>3, Zenon DEF PayloadRecvFails, PacketDone
  <2> QED  BY <1>9, <2>1, <2>2, <2>3
<1>10. ASSUME NEW n \in 1 .. PREFIX, ReadPrefix(n) PROVE FlagsOK'
  BY <1>10, Zenon DEF ReadPrefix, MirrorKeeps
<1>11. CASE TimeChecksRunning
  <2>1. (asked \/ ~first) \in BOOLEAN  BY Zenon
  <2> QED  BY <1>11, <2>1, Zenon DEF TimeChecksRunning, TimeKeeps
<1>12. CASE TimeSelectTimeout \/ TimeSelectError \/ TimeReceives \/ WaitEnds \/ SendRequest
  <2> USE DEF TimeKeeps
  <2>1. CASE TimeSelectTimeout  BY <2>1, Zenon DEF TimeSelectTimeout
  <2>2. CASE TimeSelectError    BY <2>2, Zenon DEF TimeSelectError
  <2>3. CASE TimeReceives       BY <2>3, Zenon DEF TimeReceives
  <2>4. CASE WaitEnds           BY <2>4, Zenon DEF WaitEnds
  <2>5. CASE SendRequest        BY <2>5, Zenon DEF SendRequest
  <2> QED  BY <1>12, <2>1, <2>2, <2>3, <2>4, <2>5
<1>13. CASE UNCHANGED vars  BY <1>13, Zenon DEF vars
<1> QED
  BY <1>1, <1>2, <1>3, <1>4, <1>5, <1>6, <1>7, <1>8, <1>9, <1>10, <1>11, <1>12, <1>13
     DEF Next, ControlNext, MirrorNext, LoopNext, ReadRest, TimeNext

LEMMA PlacesStep == PlacesOK /\ [Next]_vars => PlacesOK'
<1> SUFFICES ASSUME PlacesOK, [Next]_vars PROVE PlacesOK'  OBVIOUS
<1> USE DEF PlacesOK
<1>1. CASE ControlNext
  BY <1>1, MirrorAssumption
     DEF ControlNext, Start, Stop, JoinMirror, Signal, JoinTime, MarkJoined, DestroyStopped,
         mirrorVars, timeVars, streamVars
<1>2. CASE PeerNext
  BY <1>2, MirrorAssumption
     DEF PeerNext, PeerConnects, PeerPauses, PeerCloses, ClockAnswers, ClockLost, PeerKeeps,
         controlVars, mirrorVars, timeVars, streamVars
<1>3. CASE MirrorNext
  <2>1. UNCHANGED <<control, time, streams>>
    BY <1>3 DEF MirrorNext, LoopNext, ReadRest, CheckRunning, SelectTimeout, SelectError,
                Accept, StreamEnds, ReadPrefix, ReadHeader, ReadPayload, PayloadRecvFails,
                EndsInPacket, NalLengthNotPositive, MirrorKeeps, controlVars, timeVars
  <2>2. CASE CheckRunning \/ SelectTimeout \/ SelectError \/ Accept
    BY <2>1, <2>2, MirrorAssumption
       DEF CheckRunning, SelectTimeout, SelectError, Accept, MirrorExits
  <2>3. CASE StreamEnds
    BY <2>1, <2>3, MirrorAssumption DEF StreamEnds
  <2>4. ASSUME NEW n \in 1 .. PREFIX, ReadPrefix(n) PROVE PlacesOK'
    BY <2>1, <2>4 DEF ReadPrefix
  <2>5. CASE ReadHeader \/ EndsInPacket \/ NalLengthNotPositive
    BY <2>1, <2>5 DEF ReadHeader, EndsInPacket, NalLengthNotPositive
  <2>6. CASE ReadPayload \/ PayloadRecvFails
    BY <2>1, <2>6 DEF ReadPayload, PayloadRecvFails, PacketDone
  <2> QED  BY <1>3, <2>2, <2>3, <2>4, <2>5, <2>6 DEF MirrorNext, LoopNext, ReadRest
<1>4. CASE TimeNext
  BY <1>4
     DEF TimeNext, TimeChecksRunning, TimeSelectTimeout, TimeSelectError, TimeReceives,
         WaitEnds, SendRequest, TimeKeeps, controlVars, mirrorVars, streamVars
<1>5. CASE UNCHANGED vars
  BY <1>5 DEF vars, controlVars, mirrorVars, timeVars, streamVars
<1> QED  BY <1>1, <1>2, <1>3, <1>4, <1>5 DEF Next

LEMMA CutStep == TypeOK /\ [Next]_vars => CutOK'
<1> SUFFICES ASSUME TypeOK, [Next]_vars PROVE CutOK'  OBVIOUS
<1>1. CASE UNCHANGED cut
  BY <1>1 DEF TypeOK, CutOK
<1>2. CASE StreamEnds
  <2>1. stream \in 1 .. MaxStreams  BY <1>2 DEF StreamEnds, TypeOK
  <2> QED  BY <1>2, <2>1 DEF StreamEnds, TypeOK, CutOK
<1>3. CASE ControlNext
  BY <1>1, <1>3
     DEF ControlNext, Start, Stop, JoinMirror, Signal, JoinTime, MarkJoined, DestroyStopped,
         packetVars
<1>4. CASE MirrorNext
  BY <1>1, <1>2, <1>4
     DEF MirrorNext, LoopNext, ReadRest, CheckRunning, SelectTimeout, SelectError, Accept,
         ReadPrefix, ReadHeader, ReadPayload, PayloadRecvFails, EndsInPacket,
         NalLengthNotPositive, packetVars
<1>5. CASE TimeNext \/ PeerNext
  BY <1>1, <1>5
     DEF TimeNext, TimeChecksRunning, TimeSelectTimeout, TimeSelectError, TimeReceives,
         WaitEnds, SendRequest, TimeKeeps, PeerNext, PeerConnects, PeerPauses, PeerCloses,
         ClockAnswers, ClockLost, PeerKeeps, packetVars
<1>6. CASE UNCHANGED vars
  BY <1>1, <1>6 DEF vars, packetVars
<1> QED  BY <1>3, <1>4, <1>5, <1>6 DEF Next

\* Only the control thread starts threads and opens and closes sockets, and it
\* alone is at a place of stop.
LEMMA StopStep == IInv /\ [Next]_vars => StopInv'
<1> SUFFICES ASSUME TypeOK, StopInv, [Next]_vars PROVE StopInv'  BY DEF IInv
<1> USE DEF StopInv
<1>1. CASE Start
  BY <1>1 DEF Start, raop_rtp_init_mirror_sockets
<1>2. CASE Stop
  BY <1>2 DEF Stop, mirrorVars, timeVars
<1>3. CASE JoinMirror
  BY <1>3 DEF JoinMirror, timeVars
<1>4. CASE Signal
  BY <1>4 DEF Signal, mirrorVars
<1>5. CASE JoinTime
  BY <1>5 DEF JoinTime, mirrorVars
<1>6. CASE MarkJoined
  BY <1>6 DEF MarkJoined, mirrorVars, timeVars
<1>7. CASE DestroyStopped
  BY <1>7 DEF DestroyStopped, mirrorVars, timeVars
<1>8. CASE PeerNext
  BY <1>8 DEF PeerNext, PeerConnects, PeerPauses, PeerCloses, ClockAnswers, ClockLost,
              PeerKeeps, controlVars, mirrorVars, timeVars
<1>9. CASE MirrorNext
  <2>1. UNCHANGED <<controlVars, timeVars>> /\ mirror # "none"
    BY <1>9 DEF MirrorNext, LoopNext, ReadRest, CheckRunning, SelectTimeout, SelectError,
                Accept, StreamEnds, ReadPrefix, ReadHeader, ReadPayload, PayloadRecvFails,
                EndsInPacket, NalLengthNotPositive, MirrorKeeps
  <2> QED  BY <2>1 DEF controlVars, timeVars
<1>10. CASE TimeNext
  <2>1. UNCHANGED <<controlVars, mirrorVars>> /\ time # "none"
    BY <1>10 DEF TimeNext, TimeChecksRunning, TimeSelectTimeout, TimeSelectError, TimeReceives,
                 WaitEnds, SendRequest, TimeKeeps
  <2> QED  BY <2>1 DEF controlVars, mirrorVars
<1>11. CASE UNCHANGED vars
  BY <1>11 DEF vars, controlVars, mirrorVars, timeVars
<1> QED
  BY <1>1, <1>2, <1>3, <1>4, <1>5, <1>6, <1>7, <1>8, <1>9, <1>10, <1>11
     DEF Next, ControlNext

LEMMA IInvStep == IInv /\ [Next]_vars => IInv'
<1> SUFFICES ASSUME IInv, [Next]_vars PROVE IInv'  OBVIOUS
<1>1. FlagsOK' /\ PlacesOK' /\ PrefixOK' /\ CutOK'
  BY TypeParts, FlagsStep, PlacesStep, PrefixStep, CutStep DEF IInv
<1>2. TypeOK'  BY <1>1, Zenon DEF TypeOK, FlagsOK, PlacesOK, CutOK
<1> QED  BY <1>2, StopStep DEF IInv

LEMMA IInvHolds == Spec => []IInv
  BY IInvInit, IInvStep, PTL DEF Spec

\* Every variable of the session keeps its range (struct raop_rtp_mirror_s).
THEOREM TypeCorrect == Spec => []TypeOK
  BY IInvHolds, PTL DEF IInv

\* After raop_rtp_mirror_stop there is no thread and no socket of the session, and
\* it is not destroyed before.
THEOREM StoppedCorrect == Spec => []JoinedIsQuiet
<1>1. IInv => JoinedIsQuiet  BY DEF IInv, TypeOK, StopInv, JoinedIsQuiet
<1> QED  BY <1>1, IInvHolds, PTL

\* raop_rtp_mirror_stop closes each socket after the thread that selects on it has
\* ended, whatever fails and wherever the threads are.
THEOREM SocketsCorrect == Spec => []SocketsOutliveThreads
<1>1. IInv => SocketsOutliveThreads
  BY DEF IInv, TypeOK, StopInv, SocketsOutliveThreads
<1> QED  BY <1>1, IInvHolds, PTL

-----------------------------------------------------------------------------
(* Headers *)

LEMMA HeaderInvInit == Init => HeaderInv
  BY IInvInit DEF Init, HeaderInv, PrefixInv, Alive

LEMMA KeptPrefix ==
  ASSUME UNCHANGED prefix, \A k \in DOMAIN prefix : prefix[k] \in cut'
  PROVE  PrefixInv'
  BY DEF PrefixInv

LEMMA HeaderInvStep == HeaderInv /\ [Next]_vars => HeaderInv'
<1> SUFFICES ASSUME HeaderInv, [Next]_vars PROVE PrefixInv'
  BY IInvStep DEF HeaderInv
<1> USE DEF HeaderInv, PrefixInv, Alive
<1>1. CASE Start
  BY <1>1 DEF Start
<1>2. CASE Stop \/ Signal \/ JoinTime \/ MarkJoined \/ DestroyStopped
  BY <1>2 DEF Stop, Signal, JoinTime, MarkJoined, DestroyStopped, mirrorVars, packetVars
<1>3. CASE JoinMirror
  BY <1>3 DEF JoinMirror
<1>4. CASE PeerNext
  BY <1>4 DEF PeerNext, PeerConnects, PeerPauses, PeerCloses, ClockAnswers, ClockLost,
              PeerKeeps, mirrorVars, packetVars
<1>5. CASE CheckRunning \/ SelectTimeout \/ SelectError
  BY <1>5 DEF CheckRunning, SelectTimeout, SelectError, MirrorExits, packetVars
<1>6. CASE ReadHeader \/ EndsInPacket \/ NalLengthNotPositive
  BY <1>6 DEF ReadHeader, EndsInPacket, NalLengthNotPositive, packetVars
<1>7. CASE Accept
  <2>1. \A k \in DOMAIN prefix : prefix[k] \in 1 .. MaxStreams
    <3>1. prefix \in Seq(1 .. MaxStreams)  BY DEF IInv, TypeOK, PrefixOK
    <3>2. DOMAIN prefix = 1 .. Len(prefix)  BY <3>1
    <3> QED  BY <3>1, <3>2, ElementOfSeq
  <2>2. stream = 0 /\ mirror = "select" /\ UNCHANGED <<prefix, cut>>
    BY <1>7 DEF Accept, packetVars
  <2>3. \A k \in DOMAIN prefix : prefix[k] \in cut
    BY <2>1, <2>2
  <2> QED  BY <2>2, <2>3, KeptPrefix
<1>8. CASE StreamEnds
  <2>1. /\ mirror = "select" /\ UNCHANGED prefix
        /\ cut' = IF inPacket THEN cut \cup {stream} ELSE cut
    BY <1>8 DEF StreamEnds
  <2>2. \A k \in DOMAIN prefix : prefix[k] \in cut \/ (inPacket /\ prefix[k] = stream)
    BY <2>1
  <2>3. \A k \in DOMAIN prefix : prefix[k] \in cut'
    BY <2>1, <2>2
  <2> QED  BY <2>1, <2>3, KeptPrefix
<1>9. ASSUME NEW n \in 1 .. PREFIX, ReadPrefix(n) PROVE PrefixInv'
  <2>1. CASE prefix' = <<>>
    BY <2>1
  <2>2. CASE prefix' = Received(n) /\ inPacket' = TRUE
    <3>1. stream # 0 /\ mirror = "select" /\ UNCHANGED <<stream, cut>>
      BY <1>9 DEF ReadPrefix
    <3>2. \A k \in DOMAIN Received(n) :
            Received(n)[k] = IF k \in DOMAIN prefix THEN prefix[k] ELSE stream
      BY <3>1, ReceivedBytes DEF IInv
    <3> QED  BY <2>2, <3>1, <3>2
  <2> QED  BY <1>9, <2>1, <2>2 DEF ReadPrefix
<1>10. CASE ReadPayload \/ PayloadRecvFails
  BY <1>10 DEF ReadPayload, PayloadRecvFails, PacketDone
<1>11. CASE TimeNext
  BY <1>11 DEF TimeNext, TimeChecksRunning, TimeSelectTimeout, TimeSelectError, TimeReceives,
               WaitEnds, SendRequest, TimeKeeps, mirrorVars, packetVars
<1>12. CASE UNCHANGED vars
  BY <1>12 DEF vars, mirrorVars, packetVars
<1> QED
  BY <1>1, <1>2, <1>3, <1>4, <1>5, <1>6, <1>7, <1>8, <1>9, <1>10, <1>11, <1>12
     DEF Next, ControlNext, MirrorNext, LoopNext, ReadRest

LEMMA HeaderInvHolds == Spec => []HeaderInv
  BY HeaderInvInit, HeaderInvStep, PTL DEF Spec

\* Whatever the senders do, and wherever their streams end, the thread takes every
\* header from its beginning: the bytes it has kept of a prefix are of the packet
\* under way, or were left by a stream that ended amid the first bytes of a packet
\* (raop_rtp_mirror.c:324-331) and by nothing else.
THEOREM HeaderCorrect == Spec => []HeaderOfOneStream
<1>1. HeaderInv => HeaderOfOneStream
  BY DEF HeaderInv, PrefixInv, Alive, HeaderOfOneStream
<1> QED  BY <1>1, HeaderInvHolds, PTL
-----------------------------------------------------------------------------
(* The decryption of the payloads the mirror thread reads (MirrorBuffer):   *)
(* the receiver's keystream stays in step with the sender's for every block *)
(* length and every sequence of payloads that are never shorter than what   *)
(* the one before left of a block.                                          *)

\* The unused part of the block in og is the last of what was generated, and
\* starts where the sender will go on.
InStep ==
  /\ generated = sent + nextDecryptCount
  /\ nextDecryptCount > 0 => og + BLOCKLEN = generated

LongPayloads == \A n \in PayloadSizes : n >= BLOCKLEN - 1

StreamInv == PayloadTypeOK /\ InStep /\ OwnKeystream

\* What og serves and what it does not make up a payload that is long enough.
LEMMA LeftOverFits ==
  ASSUME PayloadTypeOK, LongPayloads, NEW inputLen \in PayloadSizes
  PROVE  /\ inputLen \in Nat
         /\ Fresh(inputLen) = inputLen - nextDecryptCount
         /\ Fresh(inputLen) \in Nat
  BY MirrorBufferAssumption DEF PayloadTypeOK, Fresh, LongPayloads

\* The rest is shorter than a block, and the whole blocks are a natural number
\* of bytes.
LEMMA RestAndWhole ==
  ASSUME NEW n \in Nat
  PROVE  n % BLOCKLEN \in 0 .. BLOCKLEN - 1 /\ n - (n % BLOCKLEN) \in Nat
<1>1. BLOCKLEN \in Nat \ {0}  BY MirrorBufferAssumption
<1>2. n % BLOCKLEN \in 0 .. BLOCKLEN - 1  BY <1>1
<1>3. n = BLOCKLEN * (n \div BLOCKLEN) + (n % BLOCKLEN)  BY <1>1, Z3
<1>4. n \div BLOCKLEN \in Nat  BY <1>1, Z3
<1>5. BLOCKLEN * (n \div BLOCKLEN) \in Nat  BY <1>1, <1>4, Z3
<1> QED  BY <1>1, <1>2, <1>3, <1>5

LEMMA DecryptStep ==
  ASSUME StreamInv, LongPayloads,
         NEW inputLen \in PayloadSizes, Decrypt(inputLen)
  PROVE  StreamInv'
<1>1. /\ inputLen \in Nat
      /\ Fresh(inputLen) = inputLen - nextDecryptCount
      /\ Fresh(inputLen) \in Nat
  BY LeftOverFits DEF StreamInv
<1>2. /\ Rest(inputLen) \in 0 .. BLOCKLEN - 1
      /\ Whole(inputLen) \in Nat
  BY <1>1, RestAndWhole DEF Rest, Whole
<1>3. Whole(inputLen) + Rest(inputLen) = inputLen - nextDecryptCount
  BY <1>1, <1>2 DEF Whole
<1>4. /\ sent' = sent + inputLen
      /\ IF Rest(inputLen) > 0
         THEN /\ og' = generated + Whole(inputLen)
              /\ generated' = generated + Whole(inputLen) + BLOCKLEN
              /\ nextDecryptCount' = BLOCKLEN - Rest(inputLen)
         ELSE /\ generated' = generated + Whole(inputLen)
              /\ nextDecryptCount' = 0
              /\ og' = og
  BY DEF Decrypt
<1>5. /\ BLOCKLEN \in Nat \ {0}
      /\ sent \in Nat /\ generated \in Nat /\ og \in Nat
      /\ nextDecryptCount \in 0 .. BLOCKLEN - 1
  BY MirrorBufferAssumption DEF StreamInv, PayloadTypeOK
<1>6. InStep'
  BY <1>1, <1>2, <1>3, <1>4, <1>5 DEF StreamInv, InStep
<1>7. ASSUME NEW i \in 0 .. inputLen - 1 PROVE KeyOf(i) = sent + i
  BY <1>1, <1>5 DEF KeyOf, StreamInv, InStep
<1>8. OwnKeystream'
  BY <1>7 DEF OwnKeystream, Decrypt
<1>9. PayloadTypeOK'
  <2>1. payloadStart' = sent /\ sent' \in 0 .. MaxBytes /\ sent' - payloadStart' = inputLen
    BY <1>1, <1>5, MirrorBufferAssumption DEF Decrypt
  <2>2. output' \in [0 .. inputLen - 1 -> Int]
    BY <1>1, <1>5, <1>7 DEF Decrypt
  <2>3. generated' \in Nat /\ og' \in Nat /\ nextDecryptCount' \in 0 .. BLOCKLEN - 1
    BY <1>2, <1>4, <1>5
  <2>4. payloadStart' \in 0 .. sent'  BY <1>1, <1>4, <1>5, <2>1
  <2>5. output' \in [0 .. sent' - payloadStart' - 1 -> Int]  BY <2>1, <2>2
  <2> QED  BY <2>1, <2>3, <2>4, <2>5 DEF PayloadTypeOK
<1> QED  BY <1>6, <1>8, <1>9 DEF StreamInv

LEMMA StreamInvInit == PayloadInit => StreamInv
<1>1. NoOutput \in [0 .. 0 - 0 - 1 -> Int] /\ DOMAIN NoOutput = {}
  BY DEF NoOutput
<1> QED
  BY <1>1, MirrorBufferAssumption DEF PayloadInit, StreamInv, PayloadTypeOK, InStep,
              OwnKeystream

LEMMA StreamInvStep ==
  LongPayloads /\ StreamInv /\ [PayloadNext]_payloadVars
    => StreamInv'
<1> SUFFICES ASSUME LongPayloads, StreamInv, [PayloadNext]_payloadVars
             PROVE  StreamInv'
  OBVIOUS
<1>1. CASE InitAes
  <2>1. NoOutput \in [0 .. 0 - 0 - 1 -> Int] /\ DOMAIN NoOutput = {}
    BY DEF NoOutput
  <2> QED  BY <1>1, <2>1, MirrorBufferAssumption
           DEF InitAes, StreamInv, PayloadTypeOK, InStep, OwnKeystream
<1>2. CASE \E inputLen \in PayloadSizes : Decrypt(inputLen)
  BY <1>2, DecryptStep
<1>3. CASE UNCHANGED payloadVars
  BY <1>3 DEF payloadVars, StreamInv, PayloadTypeOK, InStep, OwnKeystream
<1> QED  BY <1>1, <1>2, <1>3 DEF PayloadNext

LEMMA StreamInvHolds ==
  ASSUME LongPayloads PROVE PayloadSpec => []StreamInv
<1>1. StreamInv /\ [PayloadNext]_payloadVars => StreamInv'  BY StreamInvStep
<1> QED  BY <1>1, StreamInvInit, PTL DEF PayloadSpec

\* mirror_buffer_decrypt decrypts every byte of the stream with its own key byte
\* and carries over less than a block.
THEOREM KeystreamCorrect ==
  ASSUME LongPayloads
  PROVE  PayloadSpec => [](PayloadTypeOK /\ OwnKeystream)
<1>1. StreamInv => PayloadTypeOK /\ OwnKeystream  BY DEF StreamInv
<1> QED  BY <1>1, StreamInvHolds, PTL
=============================================================================

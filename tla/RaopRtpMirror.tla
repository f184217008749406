--------------------------- MODULE RaopRtpMirror ---------------------------
(***************************************************************************)
(* A mirroring session of src/lib/raop_rtp_mirror.c: the thread that reads  *)
(* video packets from a TCP stream, the thread that keeps asking the sender *)
(* for its clock, and the control thread (the httpd thread) that starts,    *)
(* stops and destroys the session.                                          *)
(*                                                                         *)
(* A packet is a prefix of PREFIX bytes, the rest of its header, and its    *)
(* payload.  Only the prefix is read byte by byte between two looks at      *)
(* running; the other two are loops around a blocking recv, so each is one  *)
(* step, taken when the peer has sent all of it.  Those loops look at       *)
(* nothing but what they have counted: where one of them cannot end any     *)
(* more, the thread is at "spin" for good.  A byte is represented by the    *)
(* number of the stream it came from.                                       *)
(***************************************************************************)
EXTENDS Integers, Sequences

CONSTANTS
  PREFIX,          \* bytes read before a packet is recognised, 4
  MaxStreams,      \* bound on the streams the peer opens
  CallsMayFail     \* may select, accept and recv fail?

ASSUME MirrorAssumption ==
  /\ PREFIX \in Nat \ {0}
  /\ MaxStreams \in Nat
  /\ CallsMayFail \in BOOLEAN

VARIABLES
  running, joined,     \* locked by run_mutex
  dataOpen, timeOpen,  \* mirror_data_sock, mirror_time_sock
  control, destroying, \* where the control thread is, and whether to destroy
  mirror,              \* where raop_rtp_mirror_thread is
  stream,              \* its stream_fd, 0 for -1
  prefix,              \* what it has read of packet[]; readstart is its length
  time,                \* where raop_rtp_mirror_thread_time is
  first,               \* has it sent its first request?
  streams, peer,       \* streams the peer has opened; state of the last one
  inPacket,            \* is the last byte received amid a packet of stream?
  cut,                 \* the streams that ended amid a packet's prefix
  asked, answer        \* clock request, or its answer, on its way

controlVars == <<running, joined, dataOpen, timeOpen, control, destroying>>
mirrorVars  == <<mirror, stream, prefix>>
timeVars    == <<time, first>>
streamVars  == <<streams, peer>>
packetVars  == <<inPacket, cut>>   \* what was sent, to compare prefix with
clockVars   == <<asked, answer>>
vars == <<controlVars, mirrorVars, timeVars, streamVars, packetVars, clockVars>>

PrefixOK == prefix \in Seq(1 .. MaxStreams) /\ Len(prefix) <= PREFIX

TypeOK ==
  /\ running \in BOOLEAN /\ joined \in BOOLEAN /\ destroying \in BOOLEAN
  /\ dataOpen \in BOOLEAN /\ timeOpen \in BOOLEAN
  /\ first \in BOOLEAN /\ asked \in BOOLEAN /\ answer \in BOOLEAN
  /\ inPacket \in BOOLEAN
  /\ cut \subseteq 1 .. MaxStreams
  /\ control \in {"idle", "joinMirror", "signal", "joinTime", "markJoined", "gone"}
  /\ mirror \in {"none", "check", "select", "header", "payload", "spin",
                "exited"}
  /\ stream \in 0 .. MaxStreams
  /\ PrefixOK
  /\ time \in {"none", "check", "select", "wait", "send", "exited"}
  /\ streams \in 0 .. MaxStreams
  /\ peer \in {"none", "open", "silent", "closed"}

Init ==
  /\ running = FALSE /\ joined = TRUE
  /\ dataOpen = FALSE /\ timeOpen = FALSE
  /\ control = "idle" /\ destroying = FALSE
  /\ mirror = "none" /\ stream = 0 /\ prefix = <<>>
  /\ time = "none" /\ first = FALSE
  /\ streams = 0 /\ peer = "none"
  /\ inPacket = FALSE /\ cut = {}
  /\ asked = FALSE /\ answer = FALSE

-----------------------------------------------------------------------------
(* The control thread *)

\* The data socket, which listens, and the timing socket, both or none.
raop_rtp_init_mirror_sockets == dataOpen' = TRUE /\ timeOpen' = TRUE

\* raop_rtp_start_mirror; failing sockets leave everything as it was.
Start ==
  /\ control = "idle"
  /\ ~running
  /\ joined
  /\ running' = TRUE
  /\ joined' = FALSE
  /\ raop_rtp_init_mirror_sockets
  /\ mirror' = "check" /\ stream' = 0 /\ prefix' = <<>>
  /\ time' = "check" /\ first' = FALSE
  /\ inPacket' = FALSE
  /\ UNCHANGED <<control, destroying, streamVars, cut, clockVars>>

\* raop_rtp_mirror_stop, also as called by raop_rtp_mirror_destroy,
Stop ==
  /\ control = "idle"
  /\ running
  /\ ~joined
  /\ running' = FALSE
  /\ destroying' \in BOOLEAN
  /\ control' = "joinMirror"
  /\ UNCHANGED <<joined, dataOpen, timeOpen, mirrorVars, timeVars, streamVars,
                 packetVars, clockVars>>

(* A broken form: the thread is not waited for. *)
JoinMirror_DoesNotWait ==
  /\ control = "joinMirror"
  /\ dataOpen' = FALSE
  /\ peer' = "none"
  /\ control' = "signal"
  /\ UNCHANGED <<running, joined, timeOpen, destroying, mirrorVars, timeVars,
                 streams, packetVars, clockVars>>

JoinMirror ==
  /\ control = "joinMirror"
  /\ mirror = "exited"
  /\ mirror' = "none"
  /\ dataOpen' = FALSE
  /\ peer' = "none"
  /\ control' = "signal"
  /\ UNCHANGED <<running, joined, timeOpen, destroying, stream, prefix, timeVars,
                 streams, packetVars, clockVars>>

\* The signal is lost unless the clock thread is waiting at that moment.
Signal ==
  /\ control = "signal"
  /\ time' = IF time = "wait" THEN "send" ELSE time
  /\ control' = "joinTime"
  /\ UNCHANGED <<running, joined, dataOpen, timeOpen, destroying, mirrorVars,
                 first, streamVars, packetVars, clockVars>>

(* A broken form: the thread is not waited for. *)
JoinTime_DoesNotWait ==
  /\ control = "joinTime"
  /\ timeOpen' = FALSE
  /\ asked' = FALSE /\ answer' = FALSE
  /\ control' = "markJoined"
  /\ UNCHANGED <<running, joined, dataOpen, destroying, mirrorVars, timeVars,
                 streamVars, packetVars>>

JoinTime ==
  /\ control = "joinTime"
  /\ time = "exited"
  /\ time' = "none"
  /\ timeOpen' = FALSE
  /\ asked' = FALSE /\ answer' = FALSE
  /\ control' = "markJoined"
  /\ UNCHANGED <<running, joined, dataOpen, destroying, mirrorVars, first,
                 streamVars, packetVars>>

\* and on to video_destroy and free, when the session is destroyed.
MarkJoined ==
  /\ control = "markJoined"
  /\ joined' = TRUE
  /\ control' = IF destroying THEN "gone" ELSE "idle"
  /\ UNCHANGED <<running, dataOpen, timeOpen, destroying, mirrorVars, timeVars,
                 streamVars, packetVars, clockVars>>

\* raop_rtp_mirror_destroy when raop_rtp_mirror_stop has nothing to stop.
DestroyStopped ==
  /\ control = "idle"
  /\ ~running
  /\ control' = "gone"
  /\ UNCHANGED <<running, joined, dataOpen, timeOpen, destroying, mirrorVars,
                 timeVars, streamVars, packetVars, clockVars>>

ControlNext ==
  Start \/ Stop \/ JoinMirror \/ Signal \/ JoinTime \/ MarkJoined \/ DestroyStopped

-----------------------------------------------------------------------------
(* The peer (external): it connects, falls silent, goes on and leaves whenever *)
(* it likes, inside a packet too.                                             *)

PeerKeeps == UNCHANGED <<controlVars, mirrorVars, timeVars, packetVars>>

PeerConnects ==
  /\ dataOpen
  /\ peer = "none"
  /\ streams < MaxStreams
  /\ streams' = streams + 1
  /\ peer' = "open"
  /\ UNCHANGED clockVars
  /\ PeerKeeps

PeerPauses ==
  /\ peer \in {"open", "silent"}
  /\ peer' = IF peer = "open" THEN "silent" ELSE "open"
  /\ UNCHANGED <<streams, clockVars>>
  /\ PeerKeeps

PeerCloses ==
  /\ peer \in {"open", "silent"}
  /\ peer' = "closed"
  /\ UNCHANGED <<streams, clockVars>>
  /\ PeerKeeps

ClockAnswers ==
  /\ asked
  /\ asked' = FALSE
  /\ answer' = TRUE
  /\ UNCHANGED streamVars
  /\ PeerKeeps

ClockLost ==
  /\ asked
  /\ asked' = FALSE
  /\ UNCHANGED <<streamVars, answer>>
  /\ PeerKeeps

-----------------------------------------------------------------------------
(* raop_rtp_mirror_thread *)

MirrorKeeps == UNCHANGED <<controlVars, timeVars, streams, clockVars>>

\* There are bytes to read, or there may be: a closed stream can still hold some.
Readable == peer \in {"open", "closed"}

\* On its way out the thread closes the stream it has.
MirrorExits == mirror' = "exited" /\ stream' = 0 /\ UNCHANGED prefix

CheckRunning ==
  /\ mirror = "check"
  /\ \/ running /\ mirror' = "select" /\ UNCHANGED <<stream, prefix>>
     \/ ~running /\ MirrorExits
  /\ UNCHANGED <<peer, packetVars>>
  /\ MirrorKeeps

SelectTimeout ==
  /\ mirror = "select"
  /\ mirror' = "check"
  /\ UNCHANGED <<stream, prefix, peer, packetVars>>
  /\ MirrorKeeps

\* select, accept or recv fails.
SelectError ==
  /\ mirror = "select"
  /\ CallsMayFail
  /\ MirrorExits
  /\ UNCHANGED <<peer, packetVars>>
  /\ MirrorKeeps

Accept ==
  /\ mirror = "select"
  /\ stream = 0
  /\ peer # "none"
  /\ stream' = streams
  /\ mirror' = "check"
  /\ UNCHANGED <<prefix, peer, packetVars>>
  /\ MirrorKeeps

\* recv returns 0: the stream is forgotten, not closed, and what was read of a
\* packet stays.
StreamEnds ==
  /\ mirror = "select"
  /\ stream # 0
  /\ peer = "closed"
  /\ stream' = 0
  /\ peer' = "none"
  /\ mirror' = "check"
  /\ inPacket' = FALSE
  /\ cut' = IF inPacket THEN cut \cup {stream} ELSE cut
  /\ UNCHANGED prefix
  /\ MirrorKeeps

Received(n) == prefix \o [k \in 1 .. n |-> stream]

ReadPrefix(n) ==
  /\ mirror = "select"
  /\ stream # 0
  /\ Readable
  /\ Len(prefix) + n <= PREFIX
  /\ \/ /\ Len(prefix) + n < PREFIX
        /\ mirror' = "check"
        /\ prefix' = Received(n)
        /\ inPacket' = TRUE
     \/ /\ Len(prefix) + n = PREFIX        \* a packet
        /\ mirror' = "header"
        /\ prefix' = Received(n)
        /\ inPacket' = TRUE
     \/ /\ Len(prefix) + n = PREFIX        \* POST or GET: nothing is done
        /\ mirror' = "check"
        /\ prefix' = <<>>
        /\ inPacket' = FALSE
  /\ UNCHANGED <<stream, peer, cut>>
  /\ MirrorKeeps

\* The header's other 124 bytes have come.
ReadHeader ==
  /\ mirror = "header"
  /\ Readable
  /\ mirror' = "payload"
  /\ UNCHANGED <<stream, prefix, peer, packetVars>>
  /\ MirrorKeeps

(* A broken form: readstart is not reset after a packet. *)
PacketDone_KeepsReadstart ==
  mirror' = "check" /\ prefix' = SubSeq(prefix, 1, PREFIX - 1) /\ inPacket' = FALSE

\* readstart = 0, for the next packet.
PacketDone == mirror' = "check" /\ prefix' = <<>> /\ inPacket' = FALSE

\* The payload is complete: it is decrypted and shown (type 0), shown (the
\* parameter sets of type 1) or dropped.
ReadPayload ==
  /\ mirror = "payload"
  /\ Readable
  /\ PacketDone
  /\ UNCHANGED <<stream, peer, cut>>
  /\ MirrorKeeps

\* The first recv of the payload fails: readstart, which is unsigned, is then
\* past any size, and what malloc returned is taken for the payload.
PayloadRecvFails ==
  /\ mirror = "payload"
  /\ CallsMayFail
  /\ PacketDone
  /\ peer' = "closed"
  /\ UNCHANGED <<stream, cut>>
  /\ MirrorKeeps

\* The stream ends, or breaks, before the header or the payload is complete: every
\* recv adds 0 to readstart from now on (the failing one has taken 1 away).
EndsInPacket ==
  /\ mirror \in {"header", "payload"}
  /\ peer = "closed" \/ CallsMayFail
  /\ mirror' = "spin"
  /\ UNCHANGED <<stream, prefix, peer, packetVars>>
  /\ MirrorKeeps

\* A NAL unit's length in the decrypted payload is not positive: nalu_size is the
\* same in every round of the loop.
NalLengthNotPositive ==
  /\ mirror = "payload"
  /\ Readable \/ CallsMayFail
  /\ mirror' = "spin"
  /\ UNCHANGED <<stream, prefix, peer, packetVars>>
  /\ MirrorKeeps

ReadRest == ReadHeader \/ ReadPayload

\* Whatever is not kept waiting by the peer.
LoopNext ==
  \/ CheckRunning \/ SelectTimeout \/ Accept \/ StreamEnds
  \/ \E n \in 1 .. PREFIX : ReadPrefix(n)

MirrorNext ==
  \/ LoopNext \/ ReadRest
  \/ SelectError \/ PayloadRecvFails \/ EndsInPacket \/ NalLengthNotPositive

-----------------------------------------------------------------------------
(* raop_rtp_mirror_thread_time *)

TimeKeeps == UNCHANGED <<controlVars, mirrorVars, streamVars, packetVars>>

\* The first request is sent before the first select.
TimeChecksRunning ==
  /\ time = "check"
  /\ \/ /\ running
        /\ time' = "select"
        /\ first' = TRUE
        /\ asked' = (asked \/ ~first)
        /\ UNCHANGED answer
     \/ /\ ~running
        /\ time' = "exited"
        /\ UNCHANGED <<first, clockVars>>
  /\ TimeKeeps

TimeSelectTimeout ==
  /\ time = "select"
  /\ ~answer
  /\ time' = "check"
  /\ UNCHANGED <<first, clockVars>>
  /\ TimeKeeps

TimeSelectError ==
  /\ time = "select"
  /\ CallsMayFail
  /\ time' = "exited"
  /\ UNCHANGED <<first, clockVars>>
  /\ TimeKeeps

\* The answer is read and the thread waits for 3 s, or for the signal.
TimeReceives ==
  /\ time = "select"
  /\ answer
  /\ answer' = FALSE
  /\ time' = "wait"
  /\ UNCHANGED <<first, asked>>
  /\ TimeKeeps

(* A broken form: the wait has no timeout. *)
WaitEnds_OnlyBySignal ==
  /\ time = "wait"
  /\ control = "gone"
  /\ UNCHANGED vars

\* 3 s are over, or the wait ends by itself: nothing is asked of it.
WaitEnds ==
  /\ time = "wait"
  /\ time' = "send"
  /\ UNCHANGED <<first, clockVars>>
  /\ TimeKeeps

SendRequest ==
  /\ time = "send"
  /\ asked' = TRUE
  /\ time' = "check"
  /\ UNCHANGED <<first, answer>>
  /\ TimeKeeps

TimeNext ==
  \/ TimeChecksRunning \/ TimeSelectTimeout \/ TimeSelectError \/ TimeReceives
  \/ WaitEnds \/ SendRequest

PeerNext ==
  PeerConnects \/ PeerPauses \/ PeerCloses \/ ClockAnswers \/ ClockLost

Next == ControlNext \/ MirrorNext \/ TimeNext \/ PeerNext

Spec == Init /\ [][Next]_vars

\* The threads are scheduled, stop goes on once called, and a recv loop that gets
\* bytes again and again gets all it waits for, however often the peer pauses.
\* Failures need not happen.
Fairness ==
  /\ WF_vars(LoopNext) /\ SF_vars(ReadRest) /\ WF_vars(TimeNext)
  /\ WF_vars(JoinMirror) /\ WF_vars(Signal) /\ WF_vars(JoinTime) /\ WF_vars(MarkJoined)

FairSpec == Spec /\ Fairness

-----------------------------------------------------------------------------
(* Properties *)

\* A session that can be started again or freed has no thread that could still
\* call video_process, and no socket.
JoinedIsQuiet ==
  /\ ~(running /\ joined)
  /\ joined => mirror = "none" /\ time = "none" /\ ~dataOpen /\ ~timeOpen
  /\ control = "gone" => joined

\* No socket is closed under the thread that selects on it.
SocketsOutliveThreads ==
  /\ mirror \in {"check", "select", "header", "payload", "spin"} => dataOpen
  /\ time \in {"check", "select", "wait", "send"} => timeOpen

\* A packet's header is read from its beginning: it holds bytes of the stream it
\* came on, after a packet of which nothing is left, and of an earlier one only if
\* that ended amid the first bytes of a packet, which the thread then keeps
\* (raop_rtp_mirror.c:324-331).
HeaderOfOneStream ==
  mirror \in {"header", "payload"} =>
    \A k \in DOMAIN prefix : prefix[k] = stream \/ prefix[k] \in cut

\* raop_rtp_mirror_stop returns although its signal may be lost, unless the mirror
\* thread is in a loop that cannot end (raop_rtp_mirror.c:345-349, 374-378,
\* 388-400) or the peer stays silent amid a packet for ever, on an open stream.
StopReturns ==
  []<>(peer # "silent") =>
    ((control = "joinMirror") ~> (control \in {"idle", "gone"} \/ mirror = "spin"))
=============================================================================

------------------------------ MODULE RaopRtp ------------------------------
(***************************************************************************)
(* An audio session of src/lib/raop_rtp.c: the UDP thread                   *)
(* (raop_rtp_thread_udp) that receives, buffers and plays packets, and the  *)
(* control thread (the httpd thread) that starts and stops it, posts        *)
(* volume, metadata, cover art, remote-control ids and progress into        *)
(* mailboxes, and requests flushes.  The two share what the source calls    *)
(* MUTEX LOCKED VARIABLES and, one after the other, the jitter buffer,      *)
(* which is RaopBuffer itself.                                              *)
(*                                                                         *)
(* A critical section is one action.  A packet's timestamp is the number of *)
(* the session whose socket received it.                                    *)
(***************************************************************************)
EXTENDS Integers

CONSTANTS
  HalfMod, RAOP_BUFFER_LENGTH, Timestamps, Vacant, Nothing, Silence,
  Mailboxes,     \* volume, metadata, coverart, remote control, progress
  Values,        \* what can be posted in a mailbox
  Unset,         \* nothing posted
  NO_FLUSH,      \* no flush requested
  UNKNOWN_SEQ,   \* a flush without a sequence number, next_seq = -1
  CallsMayFail   \* may recvfrom, select and socket creation fail?

ASSUME RtpAssumption ==
  /\ CallsMayFail \in BOOLEAN
  /\ Timestamps \subseteq Nat
  /\ Unset \notin Values

VARIABLES
  is_empty, first_seqnum, last_seqnum, entries, ret, played, request,
  running, joined,   \* locked variables
  flush,             \* locked: flush request
  mail,              \* locked: what is posted and not yet taken
  taken,             \* the UDP thread's copies, between the lock and the callbacks
  takenFlush,
  delivered,         \* last value each callback was given
  posted,            \* last value posted in each mailbox
  thread,            \* where the UDP thread is
  dataReady,         \* its FD_ISSET of the data socket
  control,           \* where the control thread is
  no_resend,         \* control_rport = 0: the sender takes no resend requests
  socketsOpen,
  session            \* sessions started so far

bufferVars  == <<is_empty, first_seqnum, last_seqnum, entries, ret, played, request>>
lockedVars  == <<running, joined, flush, mail>>
threadVars  == <<taken, takenFlush, delivered, thread, dataReady>>
controlVars == <<posted, control, no_resend, socketsOpen, session>>
vars == <<bufferVars, lockedVars, threadVars, controlVars>>

Buffer == INSTANCE RaopBuffer

\* The buffer's own assumptions, of the buffer the session has.
ASSUME SessionBufferAssumption ==
  /\ HalfMod \in Nat
  /\ RAOP_BUFFER_LENGTH \in Nat \ {0}
  /\ RAOP_BUFFER_LENGTH < HalfMod
  /\ Buffer!SeqMod % RAOP_BUFFER_LENGTH = 0
  /\ Vacant \notin Buffer!AvailableEntry \cup Timestamps
  /\ {Nothing, Silence} \cap Buffer!AvailableEntry = {}
  /\ Nothing # Silence

ThreadStates == {"none", "events", "callbacks", "select", "control", "data",
                 "drain", "resends", "exited", "aborted"}
ControlStates == {"idle", "join", "cleanup", "markJoined", "aborted"}

TypeOK ==
  /\ Buffer!TypeOK
  /\ running \in BOOLEAN /\ joined \in BOOLEAN /\ socketsOpen \in BOOLEAN
  /\ dataReady \in BOOLEAN /\ no_resend \in BOOLEAN
  /\ flush \in Buffer!Seqnums \cup {NO_FLUSH, UNKNOWN_SEQ}
  /\ takenFlush \in Buffer!Seqnums \cup {NO_FLUSH, UNKNOWN_SEQ}
  /\ mail \in [Mailboxes -> Values \cup {Unset}]
  /\ taken \in [Mailboxes -> Values \cup {Unset}]
  /\ delivered \in [Mailboxes -> Values \cup {Unset}]
  /\ posted \in [Mailboxes -> Values \cup {Unset}]
  /\ thread \in ThreadStates
  /\ control \in ControlStates
  /\ session \in Timestamps \cup {0}

NoMail == [m \in Mailboxes |-> Unset]

Init ==
  /\ Buffer!Init
  /\ running = FALSE
  /\ joined = TRUE
  /\ flush = NO_FLUSH /\ takenFlush = NO_FLUSH
  /\ mail = NoMail /\ taken = NoMail /\ delivered = NoMail /\ posted = NoMail
  /\ thread = "none"
  /\ dataReady = FALSE
  /\ control = "idle"
  /\ no_resend = TRUE
  /\ socketsOpen = FALSE
  /\ session = 0

-----------------------------------------------------------------------------
(* The control thread *)

\* The control, timing and data sockets, all three or none.
raop_rtp_init_sockets == socketsOpen' = TRUE

\* Nothing happens while a thread runs or is not joined; failing sockets leave
\* everything but the port as it was.
StartAudio ==
  /\ control = "idle"
  /\ ~running
  /\ joined
  /\ session + 1 \in Timestamps
  /\ session' = session + 1
  /\ running' = TRUE
  /\ joined' = FALSE
  /\ no_resend' \in BOOLEAN
  /\ raop_rtp_init_sockets
  /\ thread' = "events"
  /\ UNCHANGED <<bufferVars, flush, mail, taken, takenFlush, delivered,
                 dataReady, posted, control>>

Post(m, v) ==
  /\ control = "idle"
  /\ mail' = [mail EXCEPT ![m] = v]
  /\ posted' = [posted EXCEPT ![m] = v]
  /\ UNCHANGED <<bufferVars, running, joined, flush, threadVars, control,
                 socketsOpen, no_resend, session>>

RequestFlush(next_seq) ==
  /\ control = "idle"
  /\ flush' = next_seq
  /\ UNCHANGED <<bufferVars, running, joined, mail, threadVars, posted,
                 control, socketsOpen, no_resend, session>>

(* A broken form: joined is set with running. *)
Stop_MarksJoined ==
  /\ control = "idle"
  /\ running
  /\ ~joined
  /\ running' = FALSE
  /\ joined' = TRUE
  /\ control' = "join"
  /\ UNCHANGED <<bufferVars, flush, mail, threadVars, posted, socketsOpen,
                 no_resend, session>>

\* raop_rtp_stop returns at once unless a thread runs; else it asks it to end,
Stop ==
  /\ control = "idle"
  /\ running
  /\ ~joined
  /\ running' = FALSE
  /\ control' = "join"
  /\ UNCHANGED <<bufferVars, joined, flush, mail, threadVars, posted,
                 socketsOpen, no_resend, session>>

(* A broken form: the thread is not waited for. *)
Join_DoesNotWait ==
  /\ control = "join"
  /\ control' = "cleanup"
  /\ UNCHANGED <<bufferVars, lockedVars, threadVars, posted, socketsOpen,
                 no_resend, session>>

\* waits for it,
Join ==
  /\ control = "join"
  /\ thread = "exited"
  /\ thread' = "none"
  /\ control' = "cleanup"
  /\ UNCHANGED <<bufferVars, lockedVars, taken, takenFlush, delivered,
                 dataReady, posted, socketsOpen, no_resend, session>>

(* A broken form: the buffer is not flushed. *)
Cleanup_KeepsBuffer ==
  /\ control = "cleanup"
  /\ socketsOpen' = FALSE
  /\ control' = "markJoined"
  /\ UNCHANGED <<bufferVars, lockedVars, threadVars, posted, no_resend,
                 session>>

\* closes the sockets and empties the buffer,
Cleanup ==
  /\ control = "cleanup"
  /\ socketsOpen' = FALSE
  /\ Buffer!FlushAll
  /\ control' = "markJoined"
  /\ UNCHANGED <<lockedVars, threadVars, posted, no_resend, session>>

\* and lets the next session start.
MarkJoined ==
  /\ control = "markJoined"
  /\ joined' = TRUE
  /\ control' = "idle"
  /\ UNCHANGED <<bufferVars, running, flush, mail, threadVars, posted,
                 socketsOpen, no_resend, session>>

ControlNext ==
  \/ StartAudio
  \/ \E m \in Mailboxes, v \in Values : Post(m, v)
  \/ \E n \in Buffer!Seqnums \cup {UNKNOWN_SEQ} : RequestFlush(n)
  \/ Stop \/ Join \/ Cleanup \/ MarkJoined

-----------------------------------------------------------------------------
(* The UDP thread *)

(* A broken form: running is not looked at. *)
TakeEvents_WhenStopped ==
  /\ thread = "events"
  /\ taken' = mail
  /\ mail' = NoMail
  /\ takenFlush' = flush
  /\ flush' = NO_FLUSH
  /\ thread' = "callbacks"
  /\ UNCHANGED <<bufferVars, running, joined, delivered, dataReady,
                 controlVars>>

(* A broken form: the mailboxes are not emptied. *)
TakeEvents_LeavesMail ==
  /\ thread = "events"
  /\ running
  /\ taken' = mail
  /\ takenFlush' = flush
  /\ flush' = NO_FLUSH
  /\ thread' = "callbacks"
  /\ UNCHANGED <<bufferVars, running, joined, mail, delivered, dataReady,
                 controlVars>>

\* process_events, first half: under the lock, end if not running, else take
\* everything posted.
TakeEvents ==
  /\ thread = "events"
  /\ running
  /\ taken' = mail
  /\ mail' = NoMail
  /\ takenFlush' = flush
  /\ flush' = NO_FLUSH
  /\ thread' = "callbacks"
  /\ UNCHANGED <<bufferVars, running, joined, delivered, dataReady,
                 controlVars>>

Exit ==
  /\ thread = "events"
  /\ ~running
  /\ thread' = "exited"
  /\ UNCHANGED <<bufferVars, lockedVars, taken, takenFlush, delivered,
                 dataReady, controlVars>>

(* A broken form: the mailboxes are emptied after the lock. *)
Callbacks_ClearsMail ==
  /\ thread = "callbacks"
  /\ delivered' = [m \in Mailboxes |->
                     IF taken[m] = Unset THEN delivered[m] ELSE taken[m]]
  /\ taken' = NoMail
  /\ mail' = NoMail
  /\ takenFlush' = NO_FLUSH
  /\ \/ takenFlush = NO_FLUSH /\ UNCHANGED bufferVars
     \/ takenFlush = UNKNOWN_SEQ /\ Buffer!FlushAll
     \/ takenFlush \in Buffer!Seqnums /\ Buffer!FlushTo(takenFlush)
  /\ thread' = "select"
  /\ UNCHANGED <<running, joined, flush, dataReady, controlVars>>

\* process_events, second half: the callbacks and the flush, without the lock.
Callbacks ==
  /\ thread = "callbacks"
  /\ delivered' = [m \in Mailboxes |->
                     IF taken[m] = Unset THEN delivered[m] ELSE taken[m]]
  /\ taken' = NoMail
  /\ takenFlush' = NO_FLUSH
  /\ \/ takenFlush = NO_FLUSH /\ UNCHANGED bufferVars
     \/ takenFlush = UNKNOWN_SEQ /\ Buffer!FlushAll
     \/ takenFlush \in Buffer!Seqnums /\ Buffer!FlushTo(takenFlush)
  /\ thread' = "select"
  /\ UNCHANGED <<lockedVars, dataReady, controlVars>>

\* select: 5 ms pass, or it fails and the thread ends although nobody asked it
\* to, or one or both sockets are readable.
SelectTimeout ==
  /\ thread = "select"
  /\ thread' = "events"
  /\ UNCHANGED <<bufferVars, lockedVars, taken, takenFlush, delivered,
                 dataReady, controlVars>>

SelectError ==
  /\ thread = "select"
  /\ CallsMayFail
  /\ thread' = "exited"
  /\ UNCHANGED <<bufferVars, lockedVars, taken, takenFlush, delivered,
                 dataReady, controlVars>>

SelectReady(control_ready, data_ready) ==
  /\ thread = "select"
  /\ control_ready \/ data_ready
  /\ thread' = IF control_ready THEN "control" ELSE "data"
  /\ dataReady' = data_ready
  /\ UNCHANGED <<bufferVars, lockedVars, taken, takenFlush, delivered,
                 controlVars>>

AfterControl == IF dataReady THEN "data" ELSE "events"

\* A resent packet is queued, and played only after the next data packet.
ControlResent(q) ==
  /\ thread = "control"
  /\ Buffer!Queue(q, session)
  /\ thread' = AfterControl
  /\ UNCHANGED <<lockedVars, taken, takenFlush, delivered, dataReady,
                 controlVars>>

\* A sync packet, whose times are left out, or a packet of an unknown type.
ControlOther ==
  /\ thread = "control"
  /\ thread' = AfterControl
  /\ UNCHANGED <<bufferVars, lockedVars, taken, takenFlush, delivered,
                 dataReady, controlVars>>

\* A data packet.
DataPacket(q) ==
  /\ thread = "data"
  /\ Buffer!Queue(q, session)
  /\ thread' = "drain"
  /\ UNCHANGED <<lockedVars, taken, takenFlush, delivered, dataReady,
                 controlVars>>

\* A datagram too short to be looked at, or without audio.
DataIgnored ==
  /\ thread = "data"
  /\ thread' \in {"events", "drain"}
  /\ UNCHANGED <<bufferVars, lockedVars, taken, takenFlush, delivered,
                 dataReady, controlVars>>

\* recvfrom fails, a resend reply is too short, or malloc fails:
\* raop_buffer_queue returns an error and the assertion on its result ends the
\* process.
QueueFails(q) ==
  /\ thread \in {"control", "data"}
  /\ CallsMayFail
  /\ \/ Buffer!QueueOutOfMemory(q, session)
     \/ /\ ret' = -1
        /\ UNCHANGED <<is_empty, first_seqnum, last_seqnum, entries, played,
                       request>>
  /\ thread' = "aborted"
  /\ control' = "aborted"
  /\ UNCHANGED <<lockedVars, taken, takenFlush, delivered, dataReady,
                 posted, socketsOpen, no_resend, session>>

\* One round of the loop that plays everything that can be played.
Play ==
  /\ thread = "drain"
  /\ Buffer!DequeueHead(no_resend)
  /\ UNCHANGED <<lockedVars, taken, takenFlush, delivered, thread, dataReady,
                 controlVars>>

Drained ==
  /\ thread = "drain"
  /\ Buffer!DequeueNothing(no_resend)
  /\ thread' = IF no_resend THEN "events" ELSE "resends"
  /\ UNCHANGED <<lockedVars, taken, takenFlush, delivered, dataReady,
                 controlVars>>

Resends ==
  /\ thread = "resends"
  /\ Buffer!HandleResends
  /\ thread' = "events"
  /\ UNCHANGED <<lockedVars, taken, takenFlush, delivered, dataReady,
                 controlVars>>

ThreadNext ==
  \/ TakeEvents \/ Exit \/ Callbacks
  \/ SelectTimeout \/ SelectError
  \/ \E c, d \in BOOLEAN : SelectReady(c, d)
  \/ \E q \in Buffer!Seqnums : ControlResent(q) \/ DataPacket(q) \/ QueueFails(q)
  \/ ControlOther \/ DataIgnored
  \/ Play \/ Drained \/ Resends

Next == ControlNext \/ ThreadNext

Spec == Init /\ [][Next]_vars

\* Both threads are scheduled; the peer need not send anything.
Fairness ==
  /\ WF_vars(ThreadNext)
  /\ WF_vars(Join) /\ WF_vars(Cleanup) /\ WF_vars(MarkJoined)

FairSpec == Spec /\ Fairness

-----------------------------------------------------------------------------
(* Properties *)

\* "joined" tells the truth: a session that may be started has no thread, no
\* open socket and no packet left, and the sockets stay open, and the session
\* unjoinable, for as long as the thread lives (raop_rtp_stop's comment:
\* "thread is not joined (should never be while still running)").
JoinedIsQuiet ==
  /\ ~(running /\ joined)
  /\ joined => thread = "none" /\ ~socketsOpen /\ is_empty
  /\ thread # "none" => ~joined /\ socketsOpen

\* The control thread touches the jitter buffer and the sockets only after the
\* UDP thread is gone, although neither takes a lock for them.
BufferHasOneOwner == control \in {"cleanup", "markJoined"} => thread = "none"

\* No session plays what an earlier one received, however it was stopped.
OwnSessionOnly ==
  played \notin {Nothing, Silence} => played.timestamp = session

\* No posted value is lost between the mailboxes and the callbacks: once the
\* callbacks have run, an empty mailbox means the last value posted was given.
NoLostPost ==
  thread # "callbacks" =>
    \A m \in Mailboxes : mail[m] = Unset => delivered[m] = posted[m]

\* raop_rtp_stop returns, whatever the thread is doing and the peer sends, and
\* however its calls fail, short of an assertion that ends the process.
StopReturns == (control = "join") ~> (control \in {"idle", "aborted"})

\* The thread ended, on its own or with the process.
ThreadGone == thread \in {"exited", "aborted"}

\* What is posted, or flushed, while the session runs is handed to the thread,
\* unless the session is stopped or its thread has died of a failing call.
RequestsAreServed ==
  /\ \A m \in Mailboxes :
       (running /\ mail[m] # Unset) ~> (mail[m] = Unset \/ ~running \/ ThreadGone)
  /\ (running /\ flush # NO_FLUSH) ~> (flush = NO_FLUSH \/ ~running \/ ThreadGone)

=============================================================================

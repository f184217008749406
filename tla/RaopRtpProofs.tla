---------------------------- MODULE RaopRtpProofs ----------------------------
(***************************************************************************)
(* What holds of an audio session for every ring, every set of mailboxes    *)
(* and values, and every number of sessions.                               *)
(*                                                                         *)
(* ThreadsInv says which of the UDP thread, the sockets and the packets     *)
(* there are at each place of the control thread; SessionInv adds whose     *)
(* packets the ring holds, MailInv where a posted value is.  That the       *)
(* session uses the jitter buffer only as raop_buffer.c may be used brings  *)
(* the buffer's own theorems (Ring) over to it.                            *)
(***************************************************************************)
EXTENDS RaopRtp, TLAPS

Ring == INSTANCE RaopBufferProofs

\* TypeOK in the parts that are kept for different reasons.
FlagsOK ==
  /\ running \in BOOLEAN /\ joined \in BOOLEAN /\ socketsOpen \in BOOLEAN
  /\ dataReady \in BOOLEAN /\ no_resend \in BOOLEAN

MailOK ==
  /\ mail \in [Mailboxes -> Values \cup {Unset}]
  /\ taken \in [Mailboxes -> Values \cup {Unset}]
  /\ delivered \in [Mailboxes -> Values \cup {Unset}]
  /\ posted \in [Mailboxes -> Values \cup {Unset}]

PlacesOK ==
  /\ flush \in Buffer!Seqnums \cup {NO_FLUSH, UNKNOWN_SEQ}
  /\ takenFlush \in Buffer!Seqnums \cup {NO_FLUSH, UNKNOWN_SEQ}
  /\ thread \in ThreadStates
  /\ control \in ControlStates
  /\ session \in Timestamps \cup {0}

ThreadsInv ==
  /\ ~(running /\ joined)
  /\ control = "idle" /\ ~joined => running /\ thread # "none"
  /\ control \in {"join", "cleanup", "markJoined"} => ~running /\ ~joined
  /\ control = "join" => thread # "none"
  /\ control \in {"cleanup", "markJoined"} => thread = "none"
  /\ control = "markJoined" => ~socketsOpen
  /\ thread = "aborted" <=> control = "aborted"
  /\ joined => thread = "none" /\ ~socketsOpen /\ control = "idle"
  /\ thread # "none" => ~joined /\ socketsOpen
  /\ joined \/ control = "markJoined" => is_empty /\ entries = Buffer!AllVacant /\ played = Nothing

SessionInv ==
  /\ thread # "none" => session \in Timestamps
  /\ OwnSessionOnly
  /\ \A s \in Buffer!Slots : entries[s] # Vacant => entries[s].timestamp = session

MailInv ==
  /\ NoLostPost
  /\ \A m \in Mailboxes : mail[m] # Unset => mail[m] = posted[m]
  /\ thread = "callbacks" => \A m \in Mailboxes : mail[m] = Unset =>
       posted[m] = IF taken[m] = Unset THEN delivered[m] ELSE taken[m]

\* The process has not been ended by the assertion on raop_buffer_queue's result.
Alive == thread # "aborted"

BufferInv == Alive => Ring!IInv /\ Ring!ResendAsksForTheGap

IInv == TypeOK /\ ThreadsInv /\ SessionInv /\ MailInv /\ BufferInv

-----------------------------------------------------------------------------
(* The buffer of the session *)

LEMMA RingAssumptions == Ring!SeqnumAssumption /\ Ring!BufferAssumption
  BY SessionBufferAssumption
     DEF Ring!SeqMod, Buffer!SeqMod, Ring!AvailableEntry, Buffer!AvailableEntry,
         Ring!Seqnums, Buffer!Seqnums

\* Buffer and Ring are the same module with the same constants and variables.
LEMMA SameNumbers ==
  /\ Buffer!Seqnums = Ring!Seqnums
  /\ Buffer!Slots = Ring!Slots
  /\ Buffer!AvailableEntry = Ring!AvailableEntry
  /\ Buffer!AllVacant = Ring!AllVacant
  /\ Buffer!NoRequest = Ring!NoRequest
  /\ Buffer!BufLen = Ring!BufLen
  /\ \A q : /\ Buffer!Wrap(q) = Ring!Wrap(q)
            /\ Buffer!SlotOf(q) = Ring!SlotOf(q)
            /\ Buffer!Available(q) <=> Ring!Available(q)
  /\ \A a, b : Buffer!seqnum_cmp(a, b) = Ring!seqnum_cmp(a, b)
  BY DEF Buffer!SeqMod, Ring!SeqMod, Buffer!Seqnums, Ring!Seqnums, Buffer!Slots, Ring!Slots,
         Buffer!AvailableEntry, Ring!AvailableEntry, Buffer!AllVacant, Ring!AllVacant,
         Buffer!NoRequest, Ring!NoRequest, Buffer!BufLen, Ring!BufLen,
         Buffer!Wrap, Ring!Wrap, Buffer!SlotOf, Ring!SlotOf,
         Buffer!Available, Ring!Available, Buffer!seqnum_cmp, Ring!seqnum_cmp

LEMMA SameType == Buffer!TypeOK <=> Ring!TypeOK
  BY SameNumbers DEF Buffer!TypeOK, Ring!TypeOK

LEMMA SameQueue ==
  ASSUME NEW q, NEW ts
  PROVE  /\ Buffer!Queue(q, ts) <=> Ring!Queue(q, ts)
         /\ Buffer!QueueOutOfMemory(q, ts) <=> Ring!QueueOutOfMemory(q, ts)
  BY SameNumbers
     DEF Buffer!Queue, Ring!Queue, Buffer!QueueIgnored, Ring!QueueIgnored,
         Buffer!QueueStored, Ring!QueueStored,
         Buffer!QueueOutOfMemory, Ring!QueueOutOfMemory,
         Buffer!Stale, Ring!Stale, Buffer!Beyond, Ring!Beyond, Buffer!Resent, Ring!Resent,
         Buffer!Returns, Ring!Returns

LEMMA SameDequeue ==
  ASSUME NEW nr
  PROVE  /\ Buffer!DequeueHead(nr) <=> Ring!DequeueHead(nr)
         /\ Buffer!DequeueNothing(nr) <=> Ring!DequeueNothing(nr)
  BY SameNumbers
     DEF Buffer!DequeueHead, Ring!DequeueHead, Buffer!DequeueNothing, Ring!DequeueNothing,
         Buffer!HasHead, Ring!HasHead, Buffer!AwaitsResend, Ring!AwaitsResend

LEMMA SameGapLength == Buffer!GapLength = Ring!GapLength
<1>1. Buffer!LeadingGap = Ring!LeadingGap
  BY SameNumbers DEF Buffer!LeadingGap, Ring!LeadingGap
<1> QED
  BY <1>1, Zenon DEF Buffer!GapLength, Ring!GapLength, Buffer!Cardinality, Ring!Cardinality

LEMMA SameRest ==
  /\ Buffer!HandleResends <=> Ring!HandleResends
  /\ Buffer!FlushAll <=> Ring!FlushAll
  /\ \A q : Buffer!FlushTo(q) <=> Ring!FlushTo(q)
  BY SameNumbers, SameGapLength
     DEF Buffer!HandleResends, Ring!HandleResends, Buffer!FlushAll, Ring!FlushAll,
         Buffer!FlushTo, Ring!FlushTo, Buffer!Returns, Ring!Returns

LEMMA SameProperties ==
  /\ Buffer!WindowInv <=> Ring!WindowInv
  /\ Buffer!HeldBackIsRequested <=> Ring!HeldBackIsRequested
  /\ Buffer!ResendAsksForTheGap <=> Ring!ResendAsksForTheGap
  /\ Buffer!TimelyPacketsAccepted <=> Ring!TimelyPacketsAccepted
  BY SameNumbers, SameGapLength
     DEF Buffer!TimelyPacketsAccepted, Ring!TimelyPacketsAccepted,
         Buffer!Stale, Ring!Stale, Buffer!Beyond, Ring!Beyond, Buffer!Resent, Ring!Resent,
         Buffer!windowHeld, Ring!windowHeld,
         Buffer!WindowInv, Ring!WindowInv, Buffer!RingGeometry, Ring!RingGeometry,
         Buffer!HeldBackIsRequested, Ring!HeldBackIsRequested,
         Buffer!HasHead, Ring!HasHead, Buffer!AwaitsResend, Ring!AwaitsResend,
         Buffer!ResendAsksForTheGap, Ring!ResendAsksForTheGap

\* A step of the session is a call of the buffer, or none, or it ends the process.
LEMMA BufferStep ==
  ASSUME [Next]_vars, no_resend \in BOOLEAN, thread # "none" => session \in Timestamps
  PROVE  \/ [Ring!Next]_(Ring!vars)
         \/ \E q \in Buffer!Seqnums : QueueFails(q)
<1>1. CASE UNCHANGED bufferVars
  BY <1>1 DEF bufferVars, Ring!vars
<1>2. ASSUME NEW q \in Buffer!Seqnums, Buffer!Queue(q, session), thread # "none"
      PROVE  Ring!Next
  BY <1>2, SameNumbers, SameQueue DEF Ring!Next
<1>3. CASE Buffer!FlushAll
  BY <1>3, SameRest DEF Ring!Next
<1>4. CASE ControlNext
  BY <1>1, <1>3, <1>4
     DEF ControlNext, StartAudio, Post, RequestFlush, Stop, Join, Cleanup, MarkJoined
<1>5. CASE Callbacks
  <2>1. CASE takenFlush \in Buffer!Seqnums /\ Buffer!FlushTo(takenFlush)
    BY <2>1, SameNumbers, SameRest DEF Ring!Next
  <2> QED  BY <1>1, <1>3, <1>5, <2>1 DEF Callbacks
<1>6. CASE Play \/ Drained
  BY <1>6, SameDequeue DEF Play, Drained, Ring!Next, Ring!Dequeue
<1>7. CASE Resends
  BY <1>7, SameRest DEF Resends, Ring!Next
<1>8. CASE \E q \in Buffer!Seqnums : ControlResent(q) \/ DataPacket(q)
  BY <1>2, <1>8 DEF ControlResent, DataPacket
<1>9. CASE \/ TakeEvents \/ Exit \/ SelectTimeout \/ SelectError
           \/ \E c, d \in BOOLEAN : SelectReady(c, d)
           \/ ControlOther \/ DataIgnored
  BY <1>1, <1>9
     DEF TakeEvents, Exit, SelectTimeout, SelectError, SelectReady, ControlOther, DataIgnored
<1>10. CASE UNCHANGED vars
  BY <1>1, <1>10 DEF vars
<1> QED
  BY <1>4, <1>5, <1>6, <1>7, <1>8, <1>9, <1>10 DEF Next, ThreadNext

\* A process that is alive after a step was so before, and its step of the ring is
\* one of the buffer's own operations.
LEMMA LivingStep ==
  ASSUME [Next]_vars, Alive', ThreadsInv,
         no_resend \in BOOLEAN, thread # "none" => session \in Timestamps
  PROVE  Alive /\ [Ring!Next]_(Ring!vars)
<1>1. Alive
  BY DEF Next, ControlNext, StartAudio, Post, RequestFlush, Stop, Join, Cleanup, MarkJoined,
         ThreadNext, TakeEvents, Exit, Callbacks, SelectTimeout, SelectError, SelectReady,
         ControlResent, ControlOther, DataPacket, DataIgnored, QueueFails, Play, Drained,
         Resends, ThreadsInv, threadVars, vars, Alive
<1>2. ~\E q \in Buffer!Seqnums : QueueFails(q)
  BY DEF QueueFails, Alive
<1> QED  BY <1>1, <1>2, BufferStep

\* Outside the calls of the buffer its variables keep their values.
LEMMA BufferTypeStep == TypeOK /\ SessionInv /\ [Next]_vars => Buffer!TypeOK'
<1> SUFFICES ASSUME TypeOK, SessionInv, [Next]_vars PROVE Buffer!TypeOK'  OBVIOUS
<1>1. no_resend \in BOOLEAN /\ (thread # "none" => session \in Timestamps) /\ Ring!TypeOK
  BY SameType DEF TypeOK, SessionInv
<1>2. CASE [Ring!Next]_(Ring!vars)
  <2>1. Ring!TypeOK'  BY <1>1, <1>2, RingAssumptions, Ring!TypeStep
  <2> QED  BY <2>1, SameNumbers DEF Buffer!TypeOK, Ring!TypeOK
<1>3. ASSUME NEW q \in Buffer!Seqnums, QueueFails(q) PROVE Buffer!TypeOK'
  <2>1. session \in Timestamps /\ q \in Ring!Seqnums
    BY <1>1, <1>3, SameNumbers DEF QueueFails
  <2>2. CASE Buffer!QueueOutOfMemory(q, session)
    <3>1. Ring!TypeOK'
      BY <1>1, <2>1, <2>2, SameQueue, RingAssumptions, Ring!OutOfMemoryType
    <3> QED  BY <3>1, SameNumbers DEF Buffer!TypeOK, Ring!TypeOK
  <2>3. CASE ret' = -1 /\ UNCHANGED <<is_empty, first_seqnum, last_seqnum, entries, played, request>>
    BY <2>3 DEF TypeOK, Buffer!TypeOK
  <2> QED  BY <1>3, <2>2, <2>3 DEF QueueFails
<1> QED  BY <1>1, <1>2, <1>3, BufferStep

LEMMA FlagsStep == FlagsOK /\ [Next]_vars => FlagsOK'
<1> SUFFICES ASSUME FlagsOK, [Next]_vars PROVE FlagsOK'  OBVIOUS
<1> USE DEF FlagsOK, threadVars, controlVars, lockedVars
<1>1. CASE ControlNext
  <2>1. CASE StartAudio  BY <2>1, Zenon DEF StartAudio, raop_rtp_init_sockets
  <2>2. CASE \E m \in Mailboxes, v \in Values : Post(m, v)  BY <2>2, Zenon DEF Post
  <2>3. CASE \E n \in Buffer!Seqnums \cup {UNKNOWN_SEQ} : RequestFlush(n)
    BY <2>3, Zenon DEF RequestFlush
  <2>4. CASE Stop \/ Join  BY <2>4, Zenon DEF Stop, Join
  <2>5. CASE Cleanup \/ MarkJoined  BY <2>5, Zenon DEF Cleanup, MarkJoined
  <2> QED  BY <1>1, <2>1, <2>2, <2>3, <2>4, <2>5 DEF ControlNext
<1>2. ASSUME NEW c \in BOOLEAN, NEW d \in BOOLEAN, SelectReady(c, d) PROVE FlagsOK'
  BY <1>2, Zenon DEF SelectReady
<1>3. CASE TakeEvents \/ Exit \/ Callbacks \/ SelectTimeout \/ SelectError
  BY <1>3, Zenon DEF TakeEvents, Exit, Callbacks, SelectTimeout, SelectError
<1>4. ASSUME NEW q \in Buffer!Seqnums, ControlResent(q) \/ DataPacket(q) \/ QueueFails(q)
      PROVE  FlagsOK'
  BY <1>4, Zenon DEF ControlResent, DataPacket, QueueFails
<1>5. CASE ControlOther \/ DataIgnored \/ Play \/ Drained \/ Resends
  BY <1>5, Zenon DEF ControlOther, DataIgnored, Play, Drained, Resends
<1>6. CASE UNCHANGED vars  BY <1>6, Zenon DEF vars
<1> QED  BY <1>1, <1>2, <1>3, <1>4, <1>5, <1>6 DEF Next, ThreadNext

LEMMA PlacesStep == PlacesOK /\ [Next]_vars => PlacesOK'
<1> SUFFICES ASSUME PlacesOK, [Next]_vars PROVE PlacesOK'  OBVIOUS
<1> USE DEF PlacesOK, ThreadStates, ControlStates
<1>1. CASE ControlNext
  BY <1>1
     DEF ControlNext, StartAudio, Post, RequestFlush, Stop, Join, Cleanup, MarkJoined,
         threadVars, lockedVars
<1>2. CASE ThreadNext
  BY <1>2
     DEF ThreadNext, TakeEvents, Exit, Callbacks, SelectTimeout, SelectError, SelectReady,
         ControlResent, ControlOther, DataPacket, DataIgnored, QueueFails, AfterControl,
         Play, Drained, Resends, controlVars, lockedVars
<1>3. CASE UNCHANGED vars  BY <1>3 DEF vars, threadVars, controlVars, lockedVars
<1> QED  BY <1>1, <1>2, <1>3 DEF Next

\* What the mailboxes and the callbacks' copies do in a step.
LEMMA MailStep == MailOK /\ [Next]_vars => MailOK'
<1> SUFFICES ASSUME MailOK, [Next]_vars PROVE MailOK'  OBVIOUS
<1> USE DEF MailOK
<1>1. ASSUME NEW m \in Mailboxes, NEW v \in Values, Post(m, v) PROVE MailOK'
  BY <1>1 DEF Post, threadVars
<1>2. CASE TakeEvents
  BY <1>2 DEF TakeEvents, NoMail, controlVars
<1>3. CASE Callbacks
  BY <1>3 DEF Callbacks, NoMail, lockedVars, controlVars
<1>4. CASE UNCHANGED <<mail, taken, delivered, posted>>
  BY <1>4
<1>5. ASSUME Next, ~TakeEvents, ~Callbacks,
             ~\E m \in Mailboxes, v \in Values : Post(m, v)
      PROVE  UNCHANGED <<mail, taken, delivered, posted>>
  BY <1>5
     DEF Next, ControlNext, StartAudio, RequestFlush, Stop, Join, Cleanup, MarkJoined,
         ThreadNext, Exit, SelectTimeout, SelectError, SelectReady,
         ControlResent, ControlOther, DataPacket, DataIgnored, QueueFails,
         Play, Drained, Resends, threadVars, controlVars, lockedVars
<1>6. CASE UNCHANGED vars  BY <1>4, <1>6 DEF vars, threadVars, controlVars, lockedVars
<1> QED  BY <1>1, <1>2, <1>3, <1>4, <1>5, <1>6

-----------------------------------------------------------------------------
(* Threads, sockets, sessions and posts *)

\* A call of the buffer by a thread that is there leaves what the control thread
\* knows of the buffer alone, since it then knows nothing.
LEMMA ThreadsStep == TypeOK /\ ThreadsInv /\ [Next]_vars => ThreadsInv'
<1> SUFFICES ASSUME ThreadsInv, [Next]_vars PROVE ThreadsInv'  OBVIOUS
<1> USE DEF ThreadsInv
<1>1. CASE StartAudio
  BY <1>1 DEF StartAudio, raop_rtp_init_sockets, bufferVars
<1>2. ASSUME NEW m \in Mailboxes, NEW v \in Values, Post(m, v) PROVE ThreadsInv'
  BY <1>2 DEF Post, bufferVars, threadVars
<1>3. ASSUME NEW n \in Buffer!Seqnums \cup {UNKNOWN_SEQ}, RequestFlush(n) PROVE ThreadsInv'
  BY <1>3 DEF RequestFlush, bufferVars, threadVars
<1>4. CASE Stop
  BY <1>4 DEF Stop, bufferVars, threadVars
<1>5. CASE Join
  BY <1>5 DEF Join, bufferVars, lockedVars
<1>6. CASE Cleanup
  BY <1>6 DEF Cleanup, lockedVars, threadVars, Buffer!FlushAll, Buffer!Returns
<1>7. CASE MarkJoined
  BY <1>7 DEF MarkJoined, bufferVars, threadVars
<1>8. CASE ThreadNext
  <2>1. /\ thread \notin {"none", "aborted"} /\ thread' # "none"
        /\ thread' = "aborted" <=> control' = "aborted"
        /\ UNCHANGED <<running, joined, socketsOpen>>
        /\ control' = control \/ control' = "aborted"
    BY <1>8
       DEF ThreadNext, TakeEvents, Exit, Callbacks, SelectTimeout, SelectError, SelectReady,
           ControlResent, ControlOther, DataPacket, DataIgnored, QueueFails, AfterControl,
           Play, Drained, Resends, controlVars, lockedVars
  <2> QED  BY <2>1
<1>9. CASE UNCHANGED vars
  BY <1>9 DEF vars, bufferVars, threadVars, controlVars, lockedVars
<1> QED
  BY <1>1, <1>2, <1>3, <1>4, <1>5, <1>6, <1>7, <1>8, <1>9 DEF Next, ControlNext

\* What a call does to the ring: it holds on to what it had or forgets it, and
\* stores at most a packet of the session.
LEMMA OwnPackets ==
  ASSUME TypeOK, SessionInv, session' = session,
         \/ \E q \in Buffer!Seqnums :
              Buffer!Queue(q, session) \/ Buffer!QueueOutOfMemory(q, session)
         \/ \E nr \in BOOLEAN : Buffer!DequeueHead(nr) \/ Buffer!DequeueNothing(nr)
         \/ Buffer!HandleResends \/ Buffer!FlushAll
         \/ \E q \in Buffer!Seqnums : Buffer!FlushTo(q)
         \/ UNCHANGED bufferVars
  PROVE  /\ OwnSessionOnly'
         /\ \A s \in Buffer!Slots : entries'[s] # Vacant => entries'[s].timestamp = session
<1> DEFINE Own(ring) == \A s \in Buffer!Slots : ring[s] # Vacant => ring[s].timestamp = session
<1>0. /\ entries \in [Buffer!Slots -> Buffer!AvailableEntry \cup {Vacant}]
      /\ Own(entries) /\ Own(Buffer!AllVacant)
      /\ Buffer!AllVacant \in [Buffer!Slots -> Buffer!AvailableEntry \cup {Vacant}]
  BY DEF TypeOK, Buffer!TypeOK, SessionInv, Buffer!AllVacant
<1>1. ASSUME NEW ring \in {entries, Buffer!AllVacant}, NEW t, NEW q, NEW b,
             entries' = [ring EXCEPT ![t] = [seqnum |-> q, timestamp |-> session, decoded |-> b]]
      PROVE  Own(entries')
  <2> DEFINE entry == [seqnum |-> q, timestamp |-> session, decoded |-> b]
  <2>1. entry.timestamp = session  OBVIOUS
  <2> HIDE DEF entry
  <2>2. Own(ring) /\ ring \in [Buffer!Slots -> Buffer!AvailableEntry \cup {Vacant}]
    BY <1>0, <1>1
  <2>3. entries' = [ring EXCEPT ![t] = entry]  BY <1>1 DEF entry
  <2> QED  BY <2>1, <2>2, <2>3
<1>2. CASE played' = Nothing /\ entries' \in {entries, Buffer!AllVacant}
  BY <1>0, <1>2 DEF OwnSessionOnly
<1>3. CASE \E q \in Buffer!Seqnums :
             Buffer!Queue(q, session) \/ Buffer!QueueOutOfMemory(q, session)
  <2>1. PICK q \in Buffer!Seqnums :
          Buffer!Queue(q, session) \/ Buffer!QueueOutOfMemory(q, session)
    BY <1>3
  <2>2. CASE Buffer!QueueIgnored(q)
    BY <1>2, <2>2 DEF Buffer!QueueIgnored, Buffer!Returns
  <2>3. CASE Buffer!QueueStored(q, session)
    BY <1>1, <2>3 DEF Buffer!QueueStored, Buffer!Returns, OwnSessionOnly
  <2>4. CASE Buffer!QueueOutOfMemory(q, session)
    BY <1>1, <2>4 DEF Buffer!QueueOutOfMemory, Buffer!Returns, OwnSessionOnly
  <2> QED  BY <2>1, <2>2, <2>3, <2>4 DEF Buffer!Queue
<1>4. ASSUME NEW nr \in BOOLEAN, Buffer!DequeueHead(nr)
      PROVE  OwnSessionOnly' /\ Own(entries')
  <2> DEFINE slot == Buffer!SlotOf(first_seqnum)
  <2>1. slot \in Buffer!Slots
    <3>1. first_seqnum \in Int
      BY SessionBufferAssumption DEF TypeOK, Buffer!TypeOK, Buffer!Seqnums, Buffer!SeqMod
    <3> QED  BY <3>1, SessionBufferAssumption DEF Buffer!SlotOf, Buffer!Slots
  <2> HIDE DEF slot
  <2>2. /\ entries' = [entries EXCEPT ![slot] = Vacant]
        /\ played' = IF entries[slot] = Vacant THEN Silence ELSE entries[slot]
    BY <1>4 DEF Buffer!DequeueHead, slot
  <2>3. Own(entries')  BY <1>0, <2>1, <2>2
  <2>4. OwnSessionOnly'  BY <1>0, <2>1, <2>2 DEF OwnSessionOnly
  <2> QED  BY <2>3, <2>4
<1>5. CASE \/ \E nr \in BOOLEAN : Buffer!DequeueNothing(nr)
           \/ Buffer!HandleResends \/ Buffer!FlushAll
           \/ \E q \in Buffer!Seqnums : Buffer!FlushTo(q)
  BY <1>2, <1>5
     DEF Buffer!DequeueNothing, Buffer!HandleResends, Buffer!FlushAll, Buffer!FlushTo,
         Buffer!Returns
<1>6. CASE UNCHANGED bufferVars
  BY <1>0, <1>6 DEF bufferVars, OwnSessionOnly, SessionInv
<1> QED  BY <1>3, <1>4, <1>5, <1>6

LEMMA SessionStep == TypeOK /\ ThreadsInv /\ SessionInv /\ [Next]_vars => SessionInv'
<1> SUFFICES ASSUME TypeOK, ThreadsInv, SessionInv, [Next]_vars PROVE SessionInv'  OBVIOUS
<1>1. CASE StartAudio
  <2>1. entries = Buffer!AllVacant /\ played = Nothing /\ session' \in Timestamps
        /\ UNCHANGED <<entries, played>>
    BY <1>1 DEF StartAudio, ThreadsInv, bufferVars
  <2> QED  BY <2>1 DEF SessionInv, OwnSessionOnly, Buffer!AllVacant
<1>2. CASE ControlNext /\ ~StartAudio
  <2>1. /\ session' = session
        /\ thread' \in {thread, "none"}
        /\ UNCHANGED bufferVars \/ Buffer!FlushAll
    BY <1>2
       DEF ControlNext, Post, RequestFlush, Stop, Join, Cleanup, MarkJoined,
           threadVars, lockedVars
  <2> QED  BY <2>1, OwnPackets DEF SessionInv
<1>3. CASE ThreadNext
  <2>1. session' = session /\ thread # "none"
    BY <1>3
       DEF ThreadNext, TakeEvents, Exit, Callbacks, SelectTimeout, SelectError, SelectReady,
           ControlResent, ControlOther, DataPacket, DataIgnored, QueueFails,
           Play, Drained, Resends, controlVars
  <2>2. CASE \E q \in Buffer!Seqnums : ControlResent(q) \/ DataPacket(q)
    BY <2>1, <2>2, OwnPackets DEF ControlResent, DataPacket, SessionInv
  <2>3. ASSUME NEW q \in Buffer!Seqnums, QueueFails(q) PROVE SessionInv'
    <3>1. CASE Buffer!QueueOutOfMemory(q, session)
      BY <2>1, <3>1, OwnPackets DEF SessionInv
    <3>2. CASE UNCHANGED <<entries, played>>
      BY <2>1, <3>2 DEF SessionInv, OwnSessionOnly
    <3> QED  BY <2>3, <3>1, <3>2 DEF QueueFails
  <2>4. CASE Callbacks
    BY <2>1, <2>4, OwnPackets DEF Callbacks, SessionInv
  <2>5. CASE Play \/ Drained \/ Resends
    BY <2>1, <2>5, OwnPackets DEF Play, Drained, Resends, SessionInv, TypeOK
  <2>6. CASE \/ TakeEvents \/ Exit \/ SelectTimeout \/ SelectError
             \/ \E c, d \in BOOLEAN : SelectReady(c, d)
             \/ ControlOther \/ DataIgnored
    <3>1. UNCHANGED bufferVars
      BY <2>6
         DEF TakeEvents, Exit, SelectTimeout, SelectError, SelectReady, ControlOther, DataIgnored
    <3> QED  BY <2>1, <3>1, OwnPackets DEF SessionInv
  <2> QED  BY <1>3, <2>2, <2>3, <2>4, <2>5, <2>6 DEF ThreadNext
<1>4. CASE UNCHANGED vars
  BY <1>4, OwnPackets DEF vars, controlVars, threadVars, SessionInv
<1> QED  BY <1>1, <1>2, <1>3, <1>4 DEF Next

LEMMA MailInvStep == MailOK /\ ThreadsInv /\ MailInv /\ [Next]_vars => MailInv'
<1> SUFFICES ASSUME MailOK, ThreadsInv, MailInv, [Next]_vars PROVE MailInv'  OBVIOUS
<1> USE DEF MailOK, MailInv, NoLostPost
<1>1. ASSUME NEW m \in Mailboxes, NEW v \in Values, Post(m, v) PROVE MailInv'
  BY <1>1, RtpAssumption DEF Post, threadVars
<1>2. CASE TakeEvents
  BY <1>2 DEF TakeEvents, NoMail, controlVars
<1>3. CASE Callbacks
  BY <1>3 DEF Callbacks, NoMail, lockedVars, controlVars
<1>4. CASE thread' # "callbacks" /\ thread # "callbacks" /\ UNCHANGED <<mail, delivered, posted>>
  BY <1>4
<1>5. CASE UNCHANGED <<mail, taken, delivered, posted, thread>>
  BY <1>5
<1>6. ASSUME ThreadNext, ~TakeEvents, ~Callbacks
      PROVE  /\ thread' # "callbacks" /\ thread # "callbacks"
             /\ UNCHANGED <<mail, delivered, posted>>
  BY <1>6
     DEF ThreadNext, Exit, SelectTimeout, SelectError, SelectReady,
         ControlResent, ControlOther, DataPacket, DataIgnored, QueueFails, AfterControl,
         Play, Drained, Resends, controlVars, lockedVars
<1>7. CASE StartAudio \/ Join
  BY <1>4, <1>7 DEF StartAudio, Join, lockedVars, ThreadsInv
<1>8. ASSUME ControlNext, ~StartAudio, ~Join,
             ~\E m \in Mailboxes, v \in Values : Post(m, v)
      PROVE  UNCHANGED <<mail, taken, delivered, posted, thread>>
  BY <1>8
     DEF ControlNext, RequestFlush, Stop, Cleanup, MarkJoined, threadVars, lockedVars
<1>9. CASE UNCHANGED vars  BY <1>5, <1>9 DEF vars, threadVars, controlVars, lockedVars
<1> QED  BY <1>1, <1>2, <1>3, <1>4, <1>5, <1>6, <1>7, <1>8, <1>9 DEF Next

\* The buffer's invariant, for as long as the process lives.
LEMMA BufferInvStep ==
  TypeOK /\ ThreadsInv /\ SessionInv /\ BufferInv /\ [Next]_vars => BufferInv'
<1> SUFFICES ASSUME TypeOK, ThreadsInv, SessionInv, BufferInv, [Next]_vars, Alive'
             PROVE  (Ring!IInv /\ Ring!ResendAsksForTheGap)'
  BY DEF BufferInv
<1>1. Alive /\ [Ring!Next]_(Ring!vars)
  BY LivingStep DEF TypeOK, SessionInv
<1> QED
  BY <1>1, RingAssumptions, Ring!IInvStep, Ring!ResendStep DEF BufferInv

-----------------------------------------------------------------------------
(* The theorems *)

LEMMA TypeParts == TypeOK <=> Buffer!TypeOK /\ FlagsOK /\ MailOK /\ PlacesOK
  BY DEF TypeOK, FlagsOK, MailOK, PlacesOK

LEMMA IInvInit == Init => IInv
<1> SUFFICES ASSUME Init PROVE IInv  OBVIOUS
<1>1. Ring!Init
  BY SameNumbers DEF Init, Buffer!Init, Ring!Init
<1>2. Ring!IInv /\ Ring!TypeOK
  BY <1>1, RingAssumptions, Ring!IInvInit, Ring!TypeInit
<1>3. Buffer!TypeOK  BY <1>2, SameType
<1>4. FlagsOK  BY Zenon DEF Init, FlagsOK
<1>5. MailOK /\ MailInv  BY DEF Init, MailOK, MailInv, NoLostPost, NoMail
<1>6. PlacesOK  BY DEF Init, PlacesOK, ThreadStates, ControlStates
<1>7. ThreadsInv  BY DEF Init, Buffer!Init, ThreadsInv
<1>8. SessionInv
  BY DEF Init, Buffer!Init, SessionInv, OwnSessionOnly, Buffer!AllVacant
<1>9. Ring!ResendAsksForTheGap
  BY <1>1 DEF Ring!Init, Ring!ResendAsksForTheGap
<1> QED
  BY <1>2, <1>3, <1>4, <1>5, <1>6, <1>7, <1>8, <1>9, TypeParts DEF IInv, BufferInv

LEMMA IInvStep == IInv /\ [Next]_vars => IInv'
<1> SUFFICES ASSUME IInv, [Next]_vars PROVE IInv'  OBVIOUS
<1>1. Buffer!TypeOK' /\ FlagsOK' /\ MailOK' /\ PlacesOK'
  BY TypeParts, BufferTypeStep, FlagsStep, MailStep, PlacesStep DEF IInv
<1>2. TypeOK'
  BY <1>1, Zenon DEF TypeOK, FlagsOK, MailOK, PlacesOK
<1>3. ThreadsInv' /\ SessionInv' /\ MailInv' /\ BufferInv'
  BY TypeParts, ThreadsStep, SessionStep, MailInvStep, BufferInvStep DEF IInv
<1> QED  BY <1>2, <1>3 DEF IInv

LEMMA IInvHolds == Spec => []IInv
  BY IInvInit, IInvStep, PTL DEF Spec

\* Every variable of the session and of its buffer keeps its type, in a call
\* that runs out of memory too.
THEOREM TypeCorrect == Spec => []TypeOK
  BY IInvHolds, PTL DEF IInv

\* "joined" tells the truth: what may be started anew has no thread, no socket and
\* no packet (raop_rtp_start_audio, raop_rtp_stop).
THEOREM JoinedCorrect == Spec => []JoinedIsQuiet
<1>1. IInv => JoinedIsQuiet  BY DEF IInv, ThreadsInv, JoinedIsQuiet
<1> QED  BY <1>1, IInvHolds, PTL

\* raop_rtp_stop empties the buffer when the UDP thread is gone.
THEOREM OwnerCorrect == Spec => []BufferHasOneOwner
<1>1. IInv => BufferHasOneOwner  BY DEF IInv, ThreadsInv, BufferHasOneOwner
<1> QED  BY <1>1, IInvHolds, PTL

\* No session plays a packet an earlier one has received, however many there are.
THEOREM SessionCorrect == Spec => []OwnSessionOnly
<1>1. IInv => OwnSessionOnly  BY DEF IInv, SessionInv
<1> QED  BY <1>1, IInvHolds, PTL

\* Nothing posted is lost between the mailboxes and the callbacks
\* (raop_rtp_process_events), for every number of mailboxes.
THEOREM PostsCorrect == Spec => []NoLostPost
<1>1. IInv => NoLostPost  BY DEF IInv, MailInv
<1> QED  BY <1>1, IInvHolds, PTL

\* The session keeps the buffer's promises: while the process lives, its ring holds
\* packets of one window only, none that came in time has been dropped, and what
\* holds the head back is asked for.
THEOREM SessionBufferCorrect ==
  Spec => [](Alive => /\ Buffer!WindowInv /\ Buffer!TimelyPacketsAccepted
                      /\ Buffer!HeldBackIsRequested /\ Buffer!ResendAsksForTheGap)
<1>1. IInv => (Alive => /\ Buffer!WindowInv /\ Buffer!TimelyPacketsAccepted
                        /\ Buffer!HeldBackIsRequested /\ Buffer!ResendAsksForTheGap)
  BY SameProperties, RingAssumptions, Ring!HeadIsAskedFor, Ring!NoneDropped
     DEF IInv, BufferInv, Ring!IInv
<1> QED  BY <1>1, IInvHolds, PTL

-----------------------------------------------------------------------------
(* The session implements the sliding window                                *)

LEMMA SessionInitMaps == Init => Ring!Window!WindowInit
<1>1. Init => Ring!Init
  BY SameNumbers DEF Init, Buffer!Init, Ring!Init
<1> QED  BY <1>1, RingAssumptions, Ring!WindowInitMaps

LEMMA SessionStepMaps ==
  IInv /\ [Next]_vars /\ Alive' => [Ring!Window!WindowNext]_(Ring!Window!windowVars)
<1> SUFFICES ASSUME IInv, [Next]_vars, Alive'
             PROVE  [Ring!Window!WindowNext]_(Ring!Window!windowVars)
  OBVIOUS
<1>1. Alive /\ [Ring!Next]_(Ring!vars)
  BY LivingStep DEF IInv, TypeOK, SessionInv
<1> QED
  BY <1>1, RingAssumptions, Ring!StepMaps DEF IInv, BufferInv

\* What a listener is given is what the sliding window of PlayoutWindow gives,
\* through any number of sessions: the two threads, the flush requests, the resends
\* and the stops make of the ring nothing its own operations would not, however
\* their steps fall, for as long as no failing call ends the process.
THEOREM SessionImplementsWindow == Spec /\ []Alive => Ring!ImplementsWindow
  BY SessionInitMaps, SessionStepMaps, IInvHolds, PTL
     DEF Spec, Ring!ImplementsWindow, Ring!Window!WindowSpec

\* The same without a hypothesis: every step but the one that ends the process is
\* a step of the sliding window.
THEOREM EveryLivingStepMaps ==
  Spec => /\ Ring!Window!WindowInit
          /\ [][Alive' => [Ring!Window!WindowNext]_(Ring!Window!windowVars)]_vars
<1>1. IInv /\ [Next]_vars =>
        [Alive' => [Ring!Window!WindowNext]_(Ring!Window!windowVars)]_vars
  BY SessionStepMaps
<1> QED
  BY <1>1, SessionInitMaps, IInvHolds, PTL DEF Spec
=============================================================================

----------------------------- MODULE RaopBuffer -----------------------------
(***************************************************************************)
(* The audio jitter buffer of src/lib/raop_buffer.c: a ring of              *)
(* RAOP_BUFFER_LENGTH entries between the packets that arrive in any order  *)
(* (raop_buffer_queue) and the player that wants them in order              *)
(* (raop_buffer_dequeue), with the scan that asks for missing packets       *)
(* (raop_buffer_handle_resends) and the FLUSH (raop_buffer_flush).          *)
(*                                                                         *)
(* Only one thread is in the buffer at a time (RaopRtp), so that a call is  *)
(* one action.  An entry whose "available" is 0 is Vacant: none of its      *)
(* other fields is read before it is written again.  Decryption and AAC     *)
(* decoding are reduced to "decoded", audio_buffer_len being pcm_pkt_size   *)
(* instead of 0; the timestamp stands for the packet's contents.            *)
(***************************************************************************)
EXTENDS Seqnum, FiniteSets

CONSTANTS
  Timestamps,        \* RTP timestamps
  Vacant, Nothing, Silence

VARIABLES
  is_empty,
  first_seqnum,      \* next number to play
  last_seqnum,       \* newest number received
  entries,           \* the ring
  ret,               \* return value of the last raop_buffer_queue
  played,            \* what the last raop_buffer_dequeue returned
  request            \* what the last raop_buffer_handle_resends asked for

vars == <<is_empty, first_seqnum, last_seqnum, entries, ret, played, request>>

AvailableEntry == [seqnum: Seqnums, timestamp: Timestamps, decoded: BOOLEAN]
AllVacant      == [s \in Slots |-> Vacant]
NoRequest      == [seqnum |-> 0, count |-> 0]

ASSUME BufferAssumption ==
  /\ Vacant \notin AvailableEntry \cup Timestamps
  /\ Nothing \notin AvailableEntry
  /\ Silence \notin AvailableEntry
  /\ Nothing # Silence

Available(seqnum) == entries[SlotOf(seqnum)] # Vacant

\* Entries between first_seqnum and last_seqnum, a short.
BufLen == LET d == seqnum_cmp(last_seqnum, first_seqnum) + 1
          IN IF d >= HalfMod THEN d - SeqMod ELSE d

TypeOK ==
  /\ is_empty \in BOOLEAN
  /\ first_seqnum \in Seqnums
  /\ last_seqnum \in Seqnums
  /\ entries \in [Slots -> AvailableEntry \cup {Vacant}]
  /\ ret \in {-2, -1, 0, 1}
  /\ played \in AvailableEntry \cup {Nothing, Silence}
  /\ request \in [seqnum: Seqnums, count: 0 .. HalfMod]

Init ==
  /\ is_empty = TRUE
  /\ first_seqnum = 0
  /\ last_seqnum = 0
  /\ entries = AllVacant
  /\ ret = 0
  /\ played = Nothing
  /\ request = NoRequest

-----------------------------------------------------------------------------
(* raop_buffer_queue *)

(* A broken form: the window of an empty buffer still counts. *)
Stale_WhenEmpty(q) == seqnum_cmp(q, first_seqnum) < 0
Stale(q) == ~is_empty /\ seqnum_cmp(q, first_seqnum) < 0
(* A broken form: a packet just beyond the ring is not seen. *)
Beyond_OffByOne(q) ==
  seqnum_cmp(q, Wrap(first_seqnum + RAOP_BUFFER_LENGTH)) > 0
Beyond(q) == seqnum_cmp(q, Wrap(first_seqnum + RAOP_BUFFER_LENGTH)) >= 0
Resent(q) == Available(q) /\ entries[SlotOf(q)].seqnum = q

Returns(r) == ret' = r /\ played' = Nothing /\ request' = NoRequest

\* A datagram of the wrong length (-1) or the keep-alive payload (0).
QueueNoPacket ==
  /\ \E r \in {-1, 0} : Returns(r)
  /\ UNCHANGED <<is_empty, first_seqnum, last_seqnum, entries>>

\* The packet's turn has passed, or it is already held.
QueueIgnored(q) ==
  /\ Stale(q) \/ (~Beyond(q) /\ Resent(q))
  /\ Returns(0)
  /\ UNCHANGED <<is_empty, first_seqnum, last_seqnum, entries>>

\* The packet is stored; one beyond the ring flushes it and starts there.
QueueStored(q, ts) ==
  LET jump  == Beyond(q)
      ring  == IF jump THEN AllVacant ELSE entries
      last  == IF jump THEN Wrap(q - 1) ELSE last_seqnum
      entry == [seqnum |-> q, timestamp |-> ts, decoded |-> TRUE]
  IN
  /\ ~Stale(q)
  /\ jump \/ ~Resent(q)
  /\ entries' = [ring EXCEPT ![SlotOf(q)] = entry]
  /\ first_seqnum' = IF is_empty \/ jump THEN q ELSE first_seqnum
  /\ last_seqnum' = IF is_empty \/ seqnum_cmp(q, last) > 0 THEN q ELSE last
  /\ is_empty' = FALSE
  /\ Returns(1)

\* malloc fails after the entry has been marked available: the function returns
\* without decoding the packet and without moving the window over it.
QueueOutOfMemory(q, ts) ==
  LET jump  == Beyond(q)
      ring  == IF jump THEN AllVacant ELSE entries
      old   == ring[SlotOf(q)]
      entry == [seqnum |-> q, timestamp |-> ts,
                decoded |-> old # Vacant /\ old.decoded]
  IN
  /\ ~Stale(q)
  /\ jump \/ ~Resent(q)
  /\ entries' = [ring EXCEPT ![SlotOf(q)] = entry]
  /\ first_seqnum' = IF jump THEN q ELSE first_seqnum
  /\ last_seqnum' = IF jump THEN Wrap(q - 1) ELSE last_seqnum
  /\ UNCHANGED is_empty
  /\ Returns(-2)

Queue(q, ts) == QueueIgnored(q) \/ QueueStored(q, ts)

-----------------------------------------------------------------------------
(* raop_buffer_dequeue *)

HasHead == ~is_empty /\ BufLen > 0

\* Hold the head back while a resend may still fill the gap.
AwaitsResend(no_resend) ==
  ~no_resend /\ ~Available(first_seqnum) /\ BufLen < RAOP_BUFFER_LENGTH

DequeueNothing(no_resend) ==
  /\ ~HasHead \/ AwaitsResend(no_resend)
  /\ played' = Nothing
  /\ ret' = 0
  /\ request' = NoRequest
  /\ UNCHANGED <<is_empty, first_seqnum, last_seqnum, entries>>

(* A broken form: the entry stays available. *)
DequeueHead_KeepsEntry(no_resend) ==
  LET entry == entries[SlotOf(first_seqnum)] IN
  /\ HasHead
  /\ ~AwaitsResend(no_resend)
  /\ first_seqnum' = Wrap(first_seqnum + 1)
  /\ played' = IF entry = Vacant THEN Silence ELSE entry
  /\ ret' = 0
  /\ request' = NoRequest
  /\ UNCHANGED <<is_empty, last_seqnum, entries>>

DequeueHead(no_resend) ==
  LET entry == entries[SlotOf(first_seqnum)] IN
  /\ HasHead
  /\ ~AwaitsResend(no_resend)
  /\ first_seqnum' = Wrap(first_seqnum + 1)
  /\ entries' = [entries EXCEPT ![SlotOf(first_seqnum)] = Vacant]
  /\ played' = IF entry = Vacant THEN Silence ELSE entry
  /\ ret' = 0
  /\ request' = NoRequest
  /\ UNCHANGED <<is_empty, last_seqnum>>

Dequeue(no_resend) == DequeueNothing(no_resend) \/ DequeueHead(no_resend)

-----------------------------------------------------------------------------
(* raop_buffer_handle_resends: the numbers from first_seqnum up to the first *)
(* available one are asked for; the scan stops at last_seqnum unread.        *)

(* A broken form: the scan starts behind the head. *)
LeadingGap_SkipsHead ==
  {k \in 1 .. seqnum_cmp(last_seqnum, first_seqnum) - 1 :
     \A j \in 0 .. k : ~Available(Wrap(first_seqnum + j))}

\* Distances from first_seqnum at which the scan still goes on.
LeadingGap ==
  {k \in 0 .. seqnum_cmp(last_seqnum, first_seqnum) - 1 :
     \A j \in 0 .. k : ~Available(Wrap(first_seqnum + j))}

(* A broken form: everything up to last_seqnum is asked for. *)
GapLength_IgnoresHeld ==
  LET ahead == seqnum_cmp(last_seqnum, first_seqnum) IN
  IF ahead <= 0 THEN 0 ELSE ahead

GapLength == Cardinality(LeadingGap)

HandleResends ==
  /\ request' = IF GapLength = 0 THEN NoRequest
                ELSE [seqnum |-> first_seqnum, count |-> GapLength]
  /\ played' = Nothing
  /\ ret' = 0
  /\ UNCHANGED <<is_empty, first_seqnum, last_seqnum, entries>>

-----------------------------------------------------------------------------
(* raop_buffer_flush: next_seq outside 0..0xffff stands for "unknown"; it    *)
(* alone makes the buffer empty, a known next_seq only moves the window.     *)

FlushTo(next_seq) ==
  /\ entries' = AllVacant
  /\ first_seqnum' = next_seq
  /\ last_seqnum' = Wrap(next_seq - 1)
  /\ Returns(0)
  /\ UNCHANGED is_empty

FlushAll ==
  /\ entries' = AllVacant
  /\ is_empty' = TRUE
  /\ Returns(0)
  /\ UNCHANGED <<first_seqnum, last_seqnum>>

Next ==
  \/ QueueNoPacket
  \/ \E q \in Seqnums, ts \in Timestamps : Queue(q, ts)
  \/ \E no_resend \in BOOLEAN : Dequeue(no_resend)
  \/ HandleResends
  \/ \E next_seq \in Seqnums : FlushTo(next_seq)
  \/ FlushAll

Spec == Init /\ [][Next]_vars

-----------------------------------------------------------------------------
(* Properties *)

\* A packet is only ever found in its own slot, and the window from
\* first_seqnum to last_seqnum never exceeds the ring, whatever wraps, jumps,
\* flushes or failed allocations came before.
RingGeometry ==
  /\ \A s \in Slots : entries[s] # Vacant => SlotOf(entries[s].seqnum) = s
  /\ ~is_empty => BufLen \in 0 .. RAOP_BUFFER_LENGTH

\* The ring holds only packets of the window [first_seqnum, last_seqnum], so a
\* slot never still holds a packet of an earlier lap when its number comes
\* round again: what the lateness test and the flush in raop_buffer_queue are
\* for.
WindowInv ==
  /\ RingGeometry
  /\ is_empty => entries = AllVacant
  /\ ~is_empty =>
       \A s \in Slots : entries[s] # Vacant =>
         seqnum_cmp(entries[s].seqnum, first_seqnum) \in 0 .. BufLen - 1

\* The newest packet of a window that is not used up is always held: the scan
\* of raop_buffer_handle_resends may stop before it, and a listener never
\* hears a trailing silence for packets nobody sent.
NewestIsHeld ==
  (~is_empty /\ BufLen > 0) => /\ Available(last_seqnum)
                               /\ entries[SlotOf(last_seqnum)].seqnum = last_seqnum

\* A resend request names the whole gap at the head and nothing else: all of
\* it is missing, and the packet after it is held (raop_rtp's resend callback
\* gets exactly the packets whose absence holds the playback back).  Of an
\* empty buffer nothing is said: raop_buffer_handle_resends does not look at
\* is_empty, so after FlushAll it scans numbers that no longer mean anything.
ResendAsksForTheGap ==
  (~is_empty /\ request.count > 0) =>
    /\ request.seqnum = first_seqnum
    /\ request.count < BufLen
    /\ \A k \in 0 .. request.count - 1 : ~Available(Wrap(first_seqnum + k))
    /\ Available(Wrap(first_seqnum + request.count))

\* Whenever raop_buffer_dequeue holds the head back for a missing packet, the
\* next raop_buffer_handle_resends asks for it: the two agree on what is
\* missing, and playback is not left to wait for a packet nobody sends again.
HeldBackIsRequested == (HasHead /\ AwaitsResend(FALSE)) => GapLength > 0

\* The sliding window as it is seen through the ring.
windowHead == IF is_empty THEN 0 ELSE first_seqnum
windowSpan == IF is_empty THEN 0 ELSE BufLen
windowHeld == [k \in Slots |->
                 IF Available(Wrap(first_seqnum + k))
                 THEN entries[SlotOf(Wrap(first_seqnum + k))].timestamp
                 ELSE Vacant]
windowPlayed == IF played \in {Nothing, Silence} THEN played
                ELSE [seqnum |-> played.seqnum, timestamp |-> played.timestamp]

\* A packet is dropped on arrival only when its turn has passed or its place in
\* the window is taken: one that comes in time is never lost, wherever an
\* earlier stream had left the numbers.
TimelyPacketsAccepted ==
  \A q \in Seqnums :
    (Stale(q) \/ (~Beyond(q) /\ Resent(q))) =>
      /\ ~is_empty
      /\ \/ seqnum_cmp(q, first_seqnum) < 0
         \/ windowHeld[seqnum_cmp(q, first_seqnum)] # Vacant

Window == INSTANCE PlayoutWindow WITH
  playing <- ~is_empty,
  head    <- windowHead,
  span    <- windowSpan,
  window  <- windowHeld,
  played  <- windowPlayed

\* Every call does to the ring what the sliding window promises: a packet is
\* kept at its place once and played at its turn with its own timestamp,
\* whatever was stored in the slot before, across wrap-around and flushes.
ImplementsWindow == Window!WindowSpec
=============================================================================

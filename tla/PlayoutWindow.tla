---------------------------- MODULE PlayoutWindow ----------------------------
(***************************************************************************)
(* What a jitter buffer promises, without rings, slots or stored sequence   *)
(* numbers: a window of RAOP_BUFFER_LENGTH positions that slides over the   *)
(* stream.  Position 0 is the packet to play next, "head" is its number,    *)
(* and "span" positions have been heard of, the last of them by receiving   *)
(* it.  src/lib/raop_buffer.c is shown to implement this in RaopBuffer.     *)
(***************************************************************************)
EXTENDS Seqnum

CONSTANTS
  Timestamps,   \* RTP timestamps, standing for the packet's contents
  Vacant,       \* a position whose packet has not arrived
  Nothing,      \* nothing was played by the last call
  Silence       \* a missing packet was played as silence

VARIABLES
  playing,      \* the stream has a position
  head,         \* number of the packet to play next (0 when not playing)
  span,         \* positions between head and the newest packet, inclusive
  window,       \* what is held at each position
  played        \* what the last call gave to the player

windowVars == <<playing, head, span, window, played>>

Positions == 0 .. RAOP_BUFFER_LENGTH - 1
Frame     == [seqnum: Seqnums, timestamp: Timestamps]
AllVacant == [k \in Positions |-> Vacant]

WindowTypeOK ==
  /\ playing \in BOOLEAN
  /\ head \in Seqnums
  /\ span \in 0 .. RAOP_BUFFER_LENGTH
  /\ window \in [Positions -> Timestamps \cup {Vacant}]
  /\ played \in Frame \cup {Nothing, Silence}

WindowInit ==
  /\ playing = FALSE
  /\ head = 0
  /\ span = 0
  /\ window = AllVacant
  /\ played = Nothing

\* The stream starts, or restarts far ahead, at packet q.
StartAt(q, ts) ==
  /\ ~playing \/ seqnum_cmp(q, head) >= RAOP_BUFFER_LENGTH
  /\ playing' = TRUE
  /\ head' = q
  /\ span' = 1
  /\ window' = [AllVacant EXCEPT ![0] = ts]
  /\ played' = Nothing

\* Packet q is put at its place in the window, once.
Keep(q, ts) ==
  LET k == seqnum_cmp(q, head) IN
  /\ playing
  /\ k \in Positions
  /\ window[k] = Vacant
  /\ window' = [window EXCEPT ![k] = ts]
  /\ span' = IF k >= span THEN k + 1 ELSE span
  /\ played' = Nothing
  /\ UNCHANGED <<playing, head>>

\* A packet that is late or already held, or a call that plays nothing,
\* leaves the window as it is.
NoEffect ==
  /\ played' = Nothing
  /\ UNCHANGED <<playing, head, span, window>>

\* The head of the window is played, as silence if its packet is missing.
PlayHead ==
  /\ playing
  /\ span > 0
  /\ played' = IF window[0] = Vacant THEN Silence
               ELSE [seqnum |-> head, timestamp |-> window[0]]
  /\ head' = Wrap(head + 1)
  /\ span' = span - 1
  /\ window' = [k \in Positions |->
                  IF k + 1 \in Positions THEN window[k + 1] ELSE Vacant]
  /\ UNCHANGED playing

\* Everything held is dropped: the stream goes on at n, or has no position.
Reposition ==
  /\ \/ playing /\ playing' = TRUE /\ head' \in Seqnums
     \/ playing' = FALSE /\ head' = 0
  /\ span' = 0
  /\ window' = AllVacant
  /\ played' = Nothing

WindowNext ==
  \/ \E q \in Seqnums, ts \in Timestamps : StartAt(q, ts) \/ Keep(q, ts)
  \/ NoEffect
  \/ PlayHead
  \/ Reposition

WindowSpec == WindowInit /\ [][WindowNext]_windowVars
=============================================================================

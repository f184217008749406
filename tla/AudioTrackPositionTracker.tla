--------------------- MODULE AudioTrackPositionTracker ---------------------
(***************************************************************************)
(* AudioTrackPositionTracker.java as far as AudioPlayer uses it: a PCM     *)
(* track, never drained to its end.  A tracker is a record; a track is the *)
(* record of what the platform answers about it at the moment of a call:   *)
(* its play state, the raw position of the head, a timestamp or none, and  *)
(* the latency it states (without the buffer's).                           *)
(***************************************************************************)
EXTENDS AudioTimestampPoller, Sequences, SequencesExt

CONSTANTS
  MAX_TIMESTAMP_OFFSET,    \* 5 s
  MAX_LATENCY,             \* 5 s
  MAX_PLAYHEAD_OFFSET_COUNT,
  MIN_PLAYHEAD_INTERVAL,   \* 30 ms
  MIN_LATENCY_INTERVAL,    \* 500 ms
  SECOND,                  \* ticks of the clock in a second
  SAMPLE_RATE

framesToDuration(frames) == (frames * SECOND) \div SAMPLE_RATE

SetAudioTrack(now) ==
    [poller |-> NewPoller(now), offsets |-> <<>>, nextOffset |-> 1,
     smoothed |-> 0, lastPlayheadSample |-> 0, latency |-> 0,
     lastLatencySample |-> 0, lastRaw |-> 0, wraps |-> 0]

Start(t, now) == [t EXCEPT !.poller = PollerReset(@, now)]

Result(t, value) == [tracker |-> t, value |-> value]

(* A broken form: a wrap is seen when the head has only not moved. *)
PlaybackHeadWrapsAtRest(t, track) ==
    LET wrapped == IF t.lastRaw >= track.raw THEN 1 ELSE 0
    IN  Result([t EXCEPT !.wraps = @ + wrapped, !.lastRaw = track.raw],
               track.raw + (t.wraps + wrapped) * WRAP)

(* getPlaybackHeadPosition.  Up to API 29 a head at zero on a playing      *)
(* track is taken for a track that got stuck, and answered without a look  *)
(* at the wraps counted so far.                                            *)
PlaybackHead(t, track) ==
    LET wrapped == IF t.lastRaw > track.raw THEN 1 ELSE 0
    IN  IF track.state = "stopped" THEN Result(t, 0)
        ELSE IF track.sdk <= 29 /\ track.raw = 0 /\ t.lastRaw > 0
                    /\ track.state = "playing"
        THEN Result(t, t.lastRaw)
        ELSE Result([t EXCEPT !.wraps = @ + wrapped, !.lastRaw = track.raw],
                    track.raw + (t.wraps + wrapped) * WRAP)

(* C and Java divide towards zero. *)
Quotient(a, b) == IF a < 0 THEN -((-a) \div b) ELSE a \div b

(* The ring of the last offsets between head and clock, and their mean. *)
SampleOffset(t, now, position) ==
    IF now - t.lastPlayheadSample < MIN_PLAYHEAD_INTERVAL THEN t
    ELSE LET offset  == position - now
             offsets == IF Len(t.offsets) < MAX_PLAYHEAD_OFFSET_COUNT
                        THEN Append(t.offsets, offset)
                        ELSE [t.offsets EXCEPT ![t.nextOffset] = offset]
         IN  [t EXCEPT !.offsets = offsets,
                       !.nextOffset = (@ % MAX_PLAYHEAD_OFFSET_COUNT) + 1,
                       !.lastPlayheadSample = now,
                       !.smoothed = FoldLeft(LAMBDA sum, o :
                                        sum + Quotient(o, Len(offsets)), 0, offsets)]

Distance(a, b) == IF a > b THEN a - b ELSE b - a

(* maybePollAndCheckTimestamp *)
PollAndCheck(t, track, now, position) ==
    LET polled == MaybePollTimestamp(t.poller, now, track.timestamp)
        p      == polled.poller
        agrees == /\ Distance(p.time, now) <= MAX_TIMESTAMP_OFFSET
                  /\ Distance(framesToDuration(p.frames), position)
                        <= MAX_TIMESTAMP_OFFSET
    IN  [t EXCEPT !.poller =
            IF ~polled.updated THEN p
            ELSE IF agrees THEN AcceptTimestamp(p, now)
            ELSE RejectTimestamp(p)]

(* maybeUpdateLatency *)
UpdateLatency(t, track, now) ==
    IF now - t.lastLatencySample < MIN_LATENCY_INTERVAL THEN t
    ELSE [t EXCEPT !.lastLatencySample = now,
                   !.latency = IF track.latency \in 0..MAX_LATENCY
                               THEN track.latency ELSE 0]

(* maybeSampleSyncParams *)
SampledAt(t, track, now, position) ==
    IF position = 0 THEN t
    ELSE UpdateLatency(PollAndCheck(SampleOffset(t, now, position), track, now, position),
                       track, now)

SampleSyncParams(t, track, now) ==
    LET head == PlaybackHead(t, track)
    IN  SampledAt(head.tracker, track, now, framesToDuration(head.value))

(* getCurrentPositionUs(false), once the tracker has sampled. *)
SampledPosition(t, track, now) ==
    IF HasTimestamp(t.poller)
    THEN Result(t, framesToDuration(t.poller.frames)
                     + IF IsAdvancing(t.poller) THEN now - t.poller.time ELSE 0)
    ELSE IF t.offsets = <<>>
    THEN LET head == PlaybackHead(t, track)
         IN  Result(head.tracker, framesToDuration(head.value) - t.latency)
    ELSE Result(t, now + t.smoothed - t.latency)

CurrentPosition(t, track, now) ==
    SampledPosition(IF track.state = "playing" THEN SampleSyncParams(t, track, now)
                    ELSE t, track, now)
=============================================================================

------------------------------ MODULE AvClock ------------------------------
(***************************************************************************)
(* Video against audio: the times RaopServer.java gives the packets, the   *)
(* clock AudioPlayer makes of the audio track's position, and what         *)
(* MediaCodecVideoRenderer does with a decoded frame by that clock.        *)
(*                                                                         *)
(* A round of AVPlayer.doSomeWork is one step here.  In each tick of the   *)
(* time there is one, after at most one packet of each stream, and the     *)
(* time goes on: what goes wrong between two threads is Player's matter.   *)
(* The audio track is external: it plays SAMPLE_RATE frames in a SECOND    *)
(* while it has some, and answers with timestamps that are true, old, of a *)
(* position it is not at, or both.                                         *)
(***************************************************************************)
EXTENDS AudioTrackPositionTracker

CONSTANTS
  LATE,          \* a frame is late behind it and kept before it, 400 ms
  FORCE,         \* a late frame is shown all the same after it, 100 ms
  PACKET,        \* frames in an audio packet
  Devices,       \* their API levels and the latencies their tracks state
  Errors,        \* how far timestamps are off, in frames, and how old they are
  Boot,          \* the clock at the start
  MaxTime,       \* bound on the clock
  MaxVideo, MaxAudio,   \* bounds on the packets of a connection
  MaxConnections \* bound on the connections

ASSUME AvClockAssumption ==
    /\ SECOND \in Nat \ {0} /\ SAMPLE_RATE \in Nat \ {0} /\ WRAP \in Nat \ {0}
    /\ PACKET \in Nat /\ \A device \in Devices : device.sdk \in Nat
    /\ Boot > SLOW_POLL_INTERVAL

VARIABLES
  now, arrived,           \* the time; the streams a packet came of at it
  connections,            \* so far
  videoSent, audioSent,   \* packets of the connection so far
  basePts,                \* RaopServer.mBasePts
  frames, packets,        \* VideoPlayer.mSyncList, AudioPlayer.mSyncList: pts
  decoded, held,          \* the frames in the codec; whether the first of them
                          \* is in the renderer's output buffer
  initPosition, renderedFirst, lastRender,    \* MediaCodecVideoRenderer
  firstPts, initUs, tracker,                  \* AudioPlayer
  sdk, latency,           \* the device
  buffered, played,       \* frames of the track: to be played, played
  polled,                 \* frames played when the tracker was asked last
  aligned,                \* firstPts is that of the first packet of all, and
                          \* from the same base as the video's
  dealt                   \* the frames of the last round: how they were dealt
                          \* with, and how far ahead of the audio played

serverVars   == <<connections, videoSent, audioSent, basePts, aligned>>
rendererVars == <<decoded, held, initPosition, renderedFirst, lastRender>>
deviceVars   == <<sdk, latency, buffered, played>>
vars == <<now, arrived, serverVars, frames, packets, rendererVars, firstPts,
          initUs, tracker, deviceVars, polled, dealt>>

Init ==
    /\ now = Boot /\ arrived = {} /\ connections = 1
    /\ videoSent = 0 /\ audioSent = 0 /\ basePts = 0 /\ aligned = FALSE
    /\ frames = <<>> /\ packets = <<>>
    /\ decoded = <<>> /\ held = FALSE /\ initPosition = 0 /\ renderedFirst = FALSE
    /\ lastRender = 0
    /\ firstPts = 0 /\ initUs = 0
    /\ tracker = Start(SetAudioTrack(Boot), Boot)
    /\ \E device \in Devices : sdk = device.sdk /\ latency = device.latency
    /\ buffered = 0 /\ played = 0 /\ polled = 0
    /\ dealt = {}

-----------------------------------------------------------------------------
(* The connection *)

(* onRecvVideoData: the first packet's pts becomes the base. *)
onRecvVideoData ==
    /\ now < MaxTime /\ "video" \notin arrived /\ videoSent < MaxVideo
    /\ arrived' = arrived \cup {"video"}
    /\ videoSent' = videoSent + 1
    /\ basePts' = IF basePts = 0 THEN now ELSE basePts
    /\ frames' = Append(frames, now - basePts')
    /\ UNCHANGED <<now, connections, audioSent, aligned, packets,
                   rendererVars, firstPts, initUs, tracker, deviceVars, polled,
                   dealt>>

(* onRecvAudioData and AudioPlayer.addPacker.  A first packet of the same   *)
(* microsecond as the video's base is taken for none, and the next one for *)
(* the first.                                                              *)
onRecvAudioData ==
    /\ now < MaxTime /\ "audio" \notin arrived /\ audioSent < MaxAudio
    /\ arrived' = arrived \cup {"audio"}
    /\ audioSent' = audioSent + 1
    /\ packets' = Append(packets, now - basePts)
    /\ IF firstPts = 0
       THEN /\ firstPts' = now - basePts
            /\ aligned' = (connections = 1 /\ audioSent = 0 /\ basePts \notin {0, now})
       ELSE UNCHANGED <<firstPts, aligned>>
    /\ UNCHANGED <<now, connections, videoSent, basePts, frames,
                   rendererVars, initUs, tracker, deviceVars, polled, dealt>>

(* onRecvVideoDestroy: RaopServer.reset and the resets of the players; and *)
(* the next client comes.  The codec keeps its frames but the one held,    *)
(* which is never released, and the track plays what it has.               *)
Reconnect ==
    /\ now < MaxTime /\ arrived = {} /\ connections < MaxConnections
    /\ connections' = connections + 1
    /\ basePts' = 0 /\ aligned' = FALSE /\ videoSent' = 0 /\ audioSent' = 0
    /\ frames' = <<>> /\ packets' = <<>>
    /\ initPosition' = 0 /\ renderedFirst' = FALSE
    /\ firstPts' = 0 /\ initUs' = 0
    /\ dealt' = {}
    /\ decoded' = (IF held THEN Tail(decoded) ELSE decoded) /\ held' = FALSE
    /\ UNCHANGED <<now, arrived, lastRender, tracker, deviceVars, polled>>

-----------------------------------------------------------------------------
(* The clock *)

(* What AudioTrack.getTimestamp can answer. *)
Answers ==
    {NoTimestamp}
      \cup {[position |-> (played + e.frames) % WRAP, time |-> now - e.age] : e \in Errors}

TrackWith(timestamp) ==
    [state |-> "playing", raw |-> played % WRAP, sdk |-> sdk,
     timestamp |-> timestamp, latency |-> latency]

(* AudioPlayer.getPositionUs. *)
Clock(timestamp) ==
    IF firstPts = 0 THEN Result(tracker, now)
    ELSE [CurrentPosition(tracker, TrackWith(timestamp), now)
             EXCEPT !.value = @ + initUs + firstPts]

-----------------------------------------------------------------------------
(* The round *)

IsLate(early) == early < -LATE

(* processOutputBuffer: what becomes of a decoded frame. *)
Outcome(d, early) ==
    IF ~d.first THEN "first"
    ELSE IF IsLate(early) THEN IF now - d.last > FORCE THEN "forced" ELSE "dropped"
    ELSE IF early < LATE THEN "shown" ELSE "kept"

Ahead(frame) == frame.pts - firstPts - framesToDuration(played)

(* drainOutputBuffer until there is no frame or one is kept.  A drain is    *)
(* the frames left, whether the first of them is held, renderedFirst and    *)
(* lastRender, and how the frames were dealt with.                          *)
Drained(d, frame, position) ==
    LET how   == Outcome(d, frame.at - position)
        after == [d EXCEPT !.dealt = @ \cup {[how |-> how, ahead |-> Ahead(frame)]}]
    IN  CASE d.held -> d
          [] ~d.held /\ how = "kept" -> [after EXCEPT !.held = TRUE]
          [] ~d.held /\ how = "dropped" -> [after EXCEPT !.queue = Tail(@)]
          [] OTHER -> [after EXCEPT !.queue = Tail(@), !.first = TRUE, !.last = now]

Drain(position) ==
    FoldLeft(LAMBDA d, frame : Drained(d, frame, position),
             [queue |-> decoded, held |-> FALSE, first |-> renderedFirst,
              last |-> lastRender, dealt |-> {}],
             decoded)

(* A broken form: the audio player is not told. *)
FeedVideoOnly(position, left) ==
    /\ initPosition' = IF initPosition = 0 /\ frames # <<>> THEN position
                       ELSE initPosition
    /\ frames' = <<>>
    /\ decoded' = left \o [i \in DOMAIN frames |->
                               [pts |-> frames[i], at |-> frames[i] + initPosition']]
    /\ UNCHANGED initUs

(* feedInputBuffer for all packets of video: the first says where the      *)
(* times of both players begin.                                            *)
Feed(position, left) ==
    /\ IF initPosition = 0 /\ frames # <<>>
       THEN initPosition' = position /\ initUs' = position
       ELSE UNCHANGED <<initPosition, initUs>>
    /\ frames' = <<>>
    /\ decoded' = left \o [i \in DOMAIN frames |->
                               [pts |-> frames[i], at |-> frames[i] + initPosition']]

Least(a, b) == IF a < b THEN a ELSE b

(* AudioPlayer.doSomeWork: a packet is written to the track, *)
Written == buffered + IF packets = <<>> THEN 0 ELSE PACKET

(* which plays for a tick. *)
WriteAudio ==
    /\ packets' = IF packets = <<>> THEN <<>> ELSE Tail(packets)
    /\ LET n == Least(Written, SAMPLE_RATE \div SECOND)
       IN  played' = played + n /\ buffered' = Written - n

Round ==
    /\ now < MaxTime /\ now' = now + 1 /\ arrived' = {}
    /\ \E clock \in {Clock(timestamp) : timestamp \in Answers} :
          /\ tracker' = clock.tracker
          /\ \E drain \in {Drain(clock.value)} :
                /\ renderedFirst' = drain.first /\ lastRender' = drain.last
                /\ held' = drain.held
                /\ dealt' = IF aligned THEN drain.dealt ELSE {}
                /\ Feed(clock.value, drain.queue)
    /\ WriteAudio
    /\ polled' = IF firstPts = 0 THEN polled ELSE played
    /\ UNCHANGED <<serverVars, firstPts, sdk, latency>>

Next == onRecvVideoData \/ onRecvAudioData \/ Reconnect \/ Round

Spec == Init /\ [][Next]_vars

-----------------------------------------------------------------------------
(* Correctness *)

(* The head is counted beyond the width of the track's counter: after a    *)
(* round that asked for it, what the tracker has makes the frames played,  *)
(* whatever the rests between packets and connections.  A device up to API *)
(* 29 is asked in vain when its counter is at zero.                        *)
HeadCountsFrames ==
    sdk > 29 \/ polled % WRAP # 0 =>
        tracker.lastRaw + tracker.wraps * WRAP = polled

(* How far the clock can be ahead of the audio: an advancing timestamp is  *)
(* used until the next poll, was within the permitted offset of the time   *)
(* and of the head then, and the track may have had nothing to play since. *)
(* It can be behind by both offsets, too.                                  *)
MaxAhead  == SLOW_POLL_INTERVAL - 1 + 2 * MAX_TIMESTAMP_OFFSET
MaxBehind == 2 * MAX_TIMESTAMP_OFFSET

(* In the first connection, whatever timestamps the device gives and       *)
(* whenever the audio runs dry, what becomes of a frame fits the audio     *)
(* really played: none is shown too far from it, none dropped that is      *)
(* early by it, none kept that is late.  In a later one the track's        *)
(* position goes on from the frames of the ones before, by which all its   *)
(* video is late, and the codec still has frames of theirs.                *)
FramesKeepToAudio ==
    \A frame \in dealt :
        /\ frame.how = "shown"   => frame.ahead \in (-LATE - MaxBehind)..(LATE - 1 + MaxAhead)
        /\ frame.how = "dropped" => frame.ahead < MaxAhead - LATE
        /\ frame.how = "kept"    => frame.ahead >= LATE - MaxBehind
=============================================================================

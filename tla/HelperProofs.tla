--------------------------- MODULE HelperProofs ----------------------------
(***************************************************************************)
(* What is proved of two helpers that others are built on: the tracker     *)
(* under the player's clock, and the lists under the property lists.       *)
(***************************************************************************)
EXTENDS AvClock, PlistNodes, SequenceTheorems, TLAPS

-----------------------------------------------------------------------------
(* The tracker counts the frames played although the track's counter is    *)
(* only WRAP wide and, up to API 29, a counter at zero is not believed.    *)

(* Less than half of what the counter can hold (13 hours of audio) is      *)
(* played between two rounds that ask the tracker.                         *)
PolledInTime == 2 * (played - polled) < WRAP

Counted(t) == t.lastRaw + t.wraps * WRAP

IsTracker(t) ==
  /\ {"lastRaw", "wraps"} \subseteq DOMAIN t
  /\ t.lastRaw \in 0 .. WRAP - 1
  /\ t.wraps \in Nat

(* What the tracker has counted is what was played when it was asked last, *)
(* or less than half a turn of the counter behind a zero it did not        *)
(* believe; then the head it remembers is not zero.                        *)
CountInv ==
  /\ IsTracker(tracker)
  /\ sdk \in Nat
  /\ buffered \in Nat /\ played \in Nat /\ polled \in Nat
  /\ polled <= played
  /\ \/ Counted(tracker) = polled
     \/ /\ sdk <= 29 /\ polled % WRAP = 0 /\ tracker.lastRaw > 0
        /\ Counted(tracker) <= polled
        /\ 2 * (polled - Counted(tracker)) < WRAP

-----------------------------------------------------------------------------
(* The arithmetic of a counter that wraps *)

LEMMA Turns ==
  ASSUME NEW n \in Nat
  PROVE  /\ n % WRAP \in 0 .. WRAP - 1
         /\ n \div WRAP \in Nat
         /\ n = (n \div WRAP) * WRAP + (n % WRAP)
<1>1. WRAP \in Nat \ {0}  BY AvClockAssumption
<1>2. n % WRAP \in 0 .. WRAP - 1  BY <1>1
<1>3. n = WRAP * (n \div WRAP) + (n % WRAP)  BY <1>1, Z3
<1>4. n \div WRAP \in Nat  BY <1>1, Z3
<1>5. WRAP * (n \div WRAP) = (n \div WRAP) * WRAP  BY <1>1, <1>4
<1> QED  BY <1>2, <1>3, <1>4, <1>5

\* A number of whole turns that is not none is at least one of them.
LEMMA WholeTurns ==
  ASSUME NEW k \in Int
  PROVE  /\ k >= 1 => k * WRAP >= WRAP
         /\ k <= -1 => k * WRAP <= -WRAP
         /\ k >= 2 => k * WRAP >= 2 * WRAP
<1>1. WRAP \in Nat  BY AvClockAssumption
<1>2. k >= 1 => k * WRAP >= WRAP  BY <1>1, Z3
<1>3. k <= -1 => k * WRAP <= -WRAP  BY <1>1, Z3
<1>4. k >= 2 => k * WRAP >= 2 * WRAP  BY <1>1, Z3
<1> QED  BY <1>2, <1>3, <1>4

\* Within one turn, the counter has wrapped exactly when it is lower than it was.
LEMMA Unwrap ==
  ASSUME NEW last \in 0 .. WRAP - 1, NEW wraps \in Nat, NEW n \in Nat,
         last + wraps * WRAP <= n, n - (last + wraps * WRAP) < WRAP
  PROVE  (n % WRAP) + (IF last > n % WRAP THEN wraps + 1 ELSE wraps) * WRAP = n
<1> DEFINE turns == n \div WRAP
           raw   == n % WRAP
           more  == turns - wraps
<1>1. WRAP \in Nat \ {0}  BY AvClockAssumption
<1>2. raw \in 0 .. WRAP - 1 /\ turns \in Nat /\ n = turns * WRAP + raw
  BY Turns
<1>3. more \in Int  BY <1>2
<1>4. more * WRAP = turns * WRAP - wraps * WRAP  BY <1>1, <1>2, Z3
<1>5. turns * WRAP \in Nat /\ wraps * WRAP \in Nat /\ more * WRAP \in Int
  BY <1>1, <1>2, <1>3, Z3
<1>6. more * WRAP = n - wraps * WRAP - raw  BY <1>2, <1>4, <1>5
<1>7. more * WRAP > -WRAP /\ more * WRAP < 2 * WRAP
  BY <1>1, <1>2, <1>5, <1>6
<1>8. more \in {0, 1}
  BY <1>1, <1>3, <1>5, <1>7, WholeTurns
<1>9. (wraps + 1) * WRAP = wraps * WRAP + WRAP  BY <1>1, Z3
<1> HIDE DEF turns, raw, more
<1>10. CASE more = 0
  <2>1. more * WRAP = 0  BY <1>1, <1>10
  <2>2. raw + wraps * WRAP = n  BY <1>2, <1>5, <1>6, <2>1
  <2>3. ~(last > raw)  BY <1>1, <1>2, <1>5, <2>2
  <2> QED  BY <2>2, <2>3 DEF raw
<1>11. CASE more = 1
  <2>1. more * WRAP = WRAP  BY <1>1, <1>11
  <2>2. raw + wraps * WRAP + WRAP = n  BY <1>1, <1>2, <1>5, <1>6, <2>1
  <2>3. last > raw  BY <1>1, <1>2, <1>5, <2>2
  <2>4. raw + (wraps + 1) * WRAP = n  BY <1>1, <1>2, <1>5, <1>9, <2>2
  <2> QED  BY <2>3, <2>4 DEF raw
<1> QED  BY <1>8, <1>10, <1>11
-----------------------------------------------------------------------------
(* What a call leaves of the count *)

SameHead(t, u) ==
  /\ {"lastRaw", "wraps"} \subseteq DOMAIN u
  /\ u.lastRaw = t.lastRaw /\ u.wraps = t.wraps

(* What getPlaybackHeadPosition makes of a tracker, for a track at raw.    *)
Disbelieved(t, raw) == sdk <= 29 /\ raw = 0 /\ t.lastRaw > 0
TookHead(t, u, raw) ==
  /\ {"lastRaw", "wraps"} \subseteq DOMAIN u
  /\ IF Disbelieved(t, raw) THEN u.lastRaw = t.lastRaw /\ u.wraps = t.wraps
     ELSE /\ u.lastRaw = raw
          /\ u.wraps = IF t.lastRaw > raw THEN t.wraps + 1 ELSE t.wraps

LEMMA HeadTaken ==
  ASSUME NEW t, IsTracker(t), NEW timestamp
  PROVE  TookHead(t, PlaybackHead(t, TrackWith(timestamp)).tracker, played % WRAP)
<1> DEFINE track == TrackWith(timestamp)
           raw   == played % WRAP
<1>1. track.raw = raw /\ track.sdk = sdk /\ track.state = "playing"
  BY DEF TrackWith
<1> HIDE DEF track, raw
<1>2. CASE Disbelieved(t, raw)
  <2>1. PlaybackHead(t, track).tracker = t
    BY <1>1, <1>2 DEF PlaybackHead, Result, Disbelieved
  <2> QED  BY <1>2, <2>1 DEF TookHead, IsTracker, track, raw
<1>3. CASE ~Disbelieved(t, raw)
  <2> DEFINE wrapped == IF t.lastRaw > raw THEN 1 ELSE 0
             u == [t EXCEPT !.wraps = @ + wrapped, !.lastRaw = raw]
  <2>1. PlaybackHead(t, track).tracker = u
    BY <1>1, <1>3 DEF PlaybackHead, Result, Disbelieved
  <2>2. /\ DOMAIN u = DOMAIN t /\ u.lastRaw = raw /\ u.wraps = t.wraps + wrapped
    BY DEF IsTracker
  <2>3. t.wraps + wrapped = IF t.lastRaw > raw THEN t.wraps + 1 ELSE t.wraps
    BY DEF IsTracker
  <2> HIDE DEF u, wrapped
  <2> QED  BY <1>3, <2>1, <2>2, <2>3 DEF TookHead, IsTracker, track, raw
<1> QED  BY <1>2, <1>3

\* Asked again at once it finds the head where it was.
LEMMA HeadTakenTwice ==
  ASSUME NEW t, NEW u, NEW v, IsTracker(t), played \in Nat,
         TookHead(t, u, played % WRAP), SameHead(u, v)
  PROVE  /\ IsTracker(v)
         /\ \A w : TookHead(v, w, played % WRAP) => SameHead(u, w)
<1>1. played % WRAP \in 0 .. WRAP - 1  BY Turns
<1>2. IsTracker(v)
  BY <1>1 DEF TookHead, SameHead, IsTracker
<1>3. ASSUME NEW w, TookHead(v, w, played % WRAP) PROVE SameHead(u, w)
  BY <1>1, <1>3 DEF TookHead, SameHead, IsTracker, Disbelieved
<1> QED  BY <1>2, <1>3

\* The rest of a sample, offsets, timestamp and latency, leaves the count alone.
LEMMA SampleKeepsHead ==
  ASSUME NEW t, {"lastRaw", "wraps"} \subseteq DOMAIN t, NEW track, NEW at, NEW position
  PROVE  SameHead(t, SampledAt(t, track, at, position))
<1> USE DEF SameHead
<1>1. SameHead(t, SampleOffset(t, at, position))
  BY DEF SampleOffset
<1>2. ASSUME NEW u, SameHead(t, u) PROVE SameHead(t, PollAndCheck(u, track, at, position))
  BY <1>2 DEF PollAndCheck
<1>3. ASSUME NEW u, SameHead(t, u) PROVE SameHead(t, UpdateLatency(u, track, at))
  BY <1>3 DEF UpdateLatency
<1>4. SameHead(t, UpdateLatency(PollAndCheck(SampleOffset(t, at, position), track, at,
                                             position), track, at))
  BY <1>1, <1>2, <1>3
<1> QED  BY <1>4 DEF SampledAt
\* A round that asks for the clock takes the head once, even where the position
\* is made from the head itself, which is then asked for a second time.
LEMMA ClockTakesHead ==
  ASSUME IsTracker(tracker), played \in Nat, firstPts # 0, NEW timestamp
  PROVE  TookHead(tracker, Clock(timestamp).tracker, played % WRAP)
<1> DEFINE track   == TrackWith(timestamp)
           raw     == played % WRAP
           head    == PlaybackHead(tracker, track)
           sampled == SampleSyncParams(tracker, track, now)
           again   == PlaybackHead(sampled, track)
<1>1. TookHead(tracker, head.tracker, raw)  BY HeadTaken
<1>2. SameHead(head.tracker, sampled)
  <2>1. {"lastRaw", "wraps"} \subseteq DOMAIN head.tracker  BY <1>1 DEF TookHead
  <2> HIDE DEF track
  <2> QED  BY <2>1, SampleKeepsHead DEF SampleSyncParams
<1>3. CurrentPosition(tracker, track, now) = SampledPosition(sampled, track, now)
  BY DEF CurrentPosition, TrackWith
<1>4. Clock(timestamp).tracker = SampledPosition(sampled, track, now).tracker
  <2> DEFINE position == CurrentPosition(tracker, track, now)
  <2>1. Clock(timestamp) = [position EXCEPT !.value = @ + initUs + firstPts]
    BY DEF Clock
  <2>2. position.tracker = SampledPosition(sampled, track, now).tracker
        /\ "tracker" \in DOMAIN position
    <3> HIDE DEF sampled, track
    <3> QED  BY <1>3 DEF SampledPosition, Result
  <2> HIDE DEF position, sampled, track
  <2> QED  BY <2>1, <2>2
<1>5. SampledPosition(sampled, track, now).tracker \in {sampled, again.tracker}
  <2> HIDE DEF sampled, track
  <2> QED  BY DEF SampledPosition, Result
<1>6. IsTracker(sampled) /\ SameHead(head.tracker, again.tracker)
  <2>1. /\ IsTracker(sampled)
        /\ \A w : TookHead(sampled, w, raw) => SameHead(head.tracker, w)
    BY <1>1, <1>2, HeadTakenTwice
  <2>2. TookHead(sampled, again.tracker, raw)  BY <2>1, HeadTaken
  <2> QED  BY <2>1, <2>2
<1>7. SameHead(head.tracker, Clock(timestamp).tracker)
  BY <1>2, <1>4, <1>5, <1>6
<1> HIDE DEF head
<1> QED  BY <1>1, <1>7 DEF TookHead, SameHead

-----------------------------------------------------------------------------
(* The invariant *)

LEMMA CountInit == Init => CountInv
<1> SUFFICES ASSUME Init PROVE CountInv  OBVIOUS
<1>1. /\ {"lastRaw", "wraps"} \subseteq DOMAIN tracker
      /\ tracker.lastRaw = 0 /\ tracker.wraps = 0
  BY DEF Init, Start, SetAudioTrack
<1>2. WRAP \in Nat \ {0}  BY AvClockAssumption
<1>3. sdk \in Nat  BY AvClockAssumption DEF Init
<1> QED  BY <1>1, <1>2, <1>3 DEF Init, CountInv, IsTracker, Counted

\* The head taken in time makes the count right, unless it is not believed.
LEMMA CountAfter ==
  ASSUME CountInv, PolledInTime, NEW u, TookHead(tracker, u, played % WRAP)
  PROVE  /\ IsTracker(u)
         /\ \/ Counted(u) = played
            \/ /\ sdk <= 29 /\ played % WRAP = 0 /\ u.lastRaw > 0
               /\ Counted(u) <= played
               /\ 2 * (played - Counted(u)) < WRAP
<1> DEFINE raw     == played % WRAP
           counted == Counted(tracker)
<1>1. /\ WRAP \in Nat \ {0} /\ played \in Nat /\ polled \in Nat /\ polled <= played
      /\ 2 * (played - polled) < WRAP
  BY AvClockAssumption DEF CountInv, PolledInTime
<1>2. tracker.lastRaw \in 0 .. WRAP - 1 /\ tracker.wraps \in Nat
  BY DEF CountInv, IsTracker
<1>3. counted \in Nat
  <2>1. tracker.wraps * WRAP \in Nat  BY <1>1, <1>2, Z3
  <2> QED  BY <1>1, <1>2, <2>1 DEF Counted
<1>4. counted <= polled /\ 2 * (polled - counted) < WRAP
  BY <1>1, <1>3 DEF CountInv
<1>5. counted <= played /\ played - counted < WRAP
  BY <1>1, <1>3, <1>4
<1>6. raw \in 0 .. WRAP - 1  BY <1>1, Turns
<1>7. CASE Disbelieved(tracker, raw)
  <2>1. {"lastRaw", "wraps"} \subseteq DOMAIN u
        /\ u.lastRaw = tracker.lastRaw /\ u.wraps = tracker.wraps
    BY <1>7 DEF TookHead
  <2>2. Counted(u) = counted  BY <2>1 DEF Counted
  <2>3. 2 * (played - counted) < WRAP
    <3>1. CASE counted = polled  BY <1>1, <3>1
    <3>2. CASE counted # polled
      <4>1. polled % WRAP = 0  BY <3>2 DEF CountInv
      <4>2. played = polled
        <5> DEFINE a == played \div WRAP
                   b == polled \div WRAP
        <5>1. a \in Nat /\ b \in Nat /\ played = a * WRAP + raw /\ polled = b * WRAP + 0
          BY <1>1, <4>1, Turns
        <5>2. raw = 0  BY <1>7 DEF Disbelieved
        <5>3. (a - b) \in Int /\ (a - b) * WRAP = a * WRAP - b * WRAP
          BY <1>1, <5>1, Z3
        <5>4. a * WRAP \in Nat /\ b * WRAP \in Nat  BY <1>1, <5>1, Z3
        <5> HIDE DEF a, b
        <5>5. (a - b) * WRAP = played - polled  BY <5>1, <5>2, <5>3, <5>4
        <5>6. ~(a - b >= 1)  BY <1>1, <5>3, <5>5, WholeTurns
        <5>7. ~(a - b <= -1)  BY <1>1, <5>3, <5>5, WholeTurns
        <5>8. a = b  BY <5>1, <5>6, <5>7
        <5> QED  BY <5>1, <5>2, <5>8
      <4> QED  BY <1>4, <4>2
    <3> QED  BY <3>1, <3>2
  <2> QED  BY <1>2, <1>5, <1>7, <2>1, <2>2, <2>3 DEF Disbelieved, IsTracker
<1>8. CASE ~Disbelieved(tracker, raw)
  <2>1. /\ {"lastRaw", "wraps"} \subseteq DOMAIN u
        /\ u.lastRaw = raw
        /\ u.wraps = IF tracker.lastRaw > raw THEN tracker.wraps + 1 ELSE tracker.wraps
    BY <1>8 DEF TookHead
  <2>2. Counted(u) = played
    <3>1. /\ tracker.lastRaw + tracker.wraps * WRAP <= played
          /\ played - (tracker.lastRaw + tracker.wraps * WRAP) < WRAP
      BY <1>5, Zenon DEF Counted
    <3> DEFINE last  == tracker.lastRaw
               wraps == tracker.wraps
    <3>2. raw + (IF last > raw THEN wraps + 1 ELSE wraps) * WRAP = played
      <4> HIDE DEF last, wraps
      <4> QED  BY <1>1, <1>2, <3>1, Unwrap, Zenon DEF last, wraps
    <3> QED  BY <2>1, <3>2, Zenon DEF Counted
  <2> QED  BY <1>2, <1>6, <2>1, <2>2 DEF IsTracker
<1> QED  BY <1>7, <1>8

LEMMA CountStep == CountInv /\ PolledInTime /\ [Next]_vars => CountInv'
<1> SUFFICES ASSUME CountInv, PolledInTime, [Next]_vars PROVE CountInv'  OBVIOUS
<1> USE DEF serverVars, rendererVars, deviceVars
<1>1. CASE onRecvVideoData
  BY <1>1 DEF onRecvVideoData, CountInv, IsTracker, Counted
<1>2. CASE onRecvAudioData
  BY <1>2 DEF onRecvAudioData, CountInv, IsTracker, Counted
<1>3. CASE Reconnect
  BY <1>3 DEF Reconnect, CountInv, IsTracker, Counted
<1>4. CASE Round
  <2>1. UNCHANGED sdk /\ polled' = (IF firstPts = 0 THEN polled ELSE played)
    BY <1>4 DEF Round
  <2>2. buffered' \in Nat /\ played' \in Nat /\ played <= played'
    <3> DEFINE n == Least(Written, SAMPLE_RATE \div SECOND)
    <3>1. SAMPLE_RATE \div SECOND \in Nat  BY AvClockAssumption, Z3
    <3>2. Written \in Nat  BY AvClockAssumption DEF Written, CountInv
    <3>3. n \in Nat /\ n <= Written  BY <3>1, <3>2 DEF Least
    <3>4. played' = played + n /\ buffered' = Written - n
      BY <1>4 DEF Round, WriteAudio
    <3> HIDE DEF n
    <3> QED  BY <3>2, <3>3, <3>4 DEF CountInv
  <2>3. PICK timestamp \in Answers : tracker' = Clock(timestamp).tracker
    BY <1>4 DEF Round
  <2>4. CASE firstPts = 0
    <3>1. tracker' = tracker  BY <2>3, <2>4 DEF Clock, Result
    <3> QED  BY <2>1, <2>2, <2>4, <3>1 DEF CountInv, IsTracker, Counted
  <2>5. CASE firstPts # 0
    <3>1. TookHead(tracker, tracker', played % WRAP)
      BY <2>3, <2>5, ClockTakesHead DEF CountInv
    <3>2. /\ IsTracker(tracker')
          /\ \/ Counted(tracker') = played
             \/ /\ sdk <= 29 /\ played % WRAP = 0 /\ tracker'.lastRaw > 0
                /\ Counted(tracker') <= played
                /\ 2 * (played - Counted(tracker')) < WRAP
      BY <3>1, CountAfter
    <3> QED  BY <2>1, <2>2, <2>5, <3>2 DEF CountInv, IsTracker, Counted
  <2> QED  BY <2>4, <2>5
<1>5. CASE UNCHANGED vars
  BY <1>5 DEF vars, CountInv, IsTracker, Counted
<1> QED  BY <1>1, <1>2, <1>3, <1>4, <1>5 DEF Next

\* Whatever the device answers, however connections and pauses fall and however
\* wide the counter is, the tracker has counted the frames that were played when
\* it was asked last, except on a device up to API 29 whose counter stands at zero
\* (AudioTrackPositionTracker.getPlaybackHeadPosition): as long as it is asked twice
\* in a turn of the counter, which at 44100 frames a second takes 27 hours.
THEOREM HeadCorrect == Spec /\ []PolledInTime => []HeadCountsFrames
<1>1. CountInv => HeadCountsFrames
  BY DEF CountInv, HeadCountsFrames, Counted
<1>2. Spec /\ []PolledInTime => []CountInv
  BY CountInit, CountStep, PTL DEF Spec
<1> QED  BY <1>1, <1>2, PTL

-----------------------------------------------------------------------------
(* The doubly linked lists of node_list.c.  A list is the sequence of its  *)
(* nodes; the functions on lists are functions on sequences, and none      *)
(* touches the list of another node.                                       *)

NodeFields == {"type", "parent", "next", "prev", "begin", "end", "count"}

(* The addresses of nodes that are there. *)
Nodes(h) ==
    {a \in DOMAIN h : a \in Nat \ {0} /\ NodeFields \subseteq DOMAIN h[a]
                     /\ h[a].type # "freed"}

(* The children of p are s: from begin to end, linked both ways.           *)
IsList(h, p, s) ==
    LET n == Len(s)
    IN  /\ p \in Nodes(h) /\ s \in Seq(Nodes(h))
        /\ \A i, j \in 1..n : s[i] = s[j] => i = j
        /\ h[p].count = n
        /\ h[p].begin = IF n = 0 THEN NULL ELSE s[1]
        /\ h[p].end = IF n = 0 THEN -p ELSE s[n]
        /\ \A i \in 1..n : h[s[i]].next = IF i = n THEN NULL ELSE s[i + 1]
        /\ \A i \in 2..n : h[s[i]].prev = s[i - 1]
        /\ n > 0 => h[s[1]].prev \in {-p, NULL}

(* g = SetNext(h, q, n) for a node or a list q.                            *)
LEMMA SetNextFields ==
  ASSUME NEW h, NEW q \in Nodes(h), NEW n
  PROVE  /\ Nodes(h) \subseteq Nodes(SetNext(h, q, n))
         /\ \A a \in Nodes(h) : LET g == SetNext(h, q, n) IN
              /\ g[a].next = IF a = q THEN n ELSE h[a].next
              /\ g[a].prev = h[a].prev /\ g[a].count = h[a].count
              /\ g[a].begin = h[a].begin /\ g[a].end = h[a].end
<1>1. q > 0 /\ ~(q < 0) /\ h[q].type # "freed"
  BY DEF Nodes
<1>2. SetNext(h, q, n) = [h EXCEPT ![q].next = n]
  BY <1>1 DEF SetNext
<1> QED  BY <1>2 DEF Nodes, NodeFields

LEMMA SetBeginFields ==
  ASSUME NEW h, NEW p \in Nodes(h), NEW n
  PROVE  /\ Nodes(h) \subseteq Nodes(SetNext(h, -p, n))
         /\ \A a \in Nodes(h) : LET g == SetNext(h, -p, n) IN
              /\ g[a].begin = IF a = p THEN n ELSE h[a].begin
              /\ g[a].prev = h[a].prev /\ g[a].count = h[a].count
              /\ g[a].next = h[a].next /\ g[a].end = h[a].end
<1>1. -p < 0 /\ ~(-p > 0) /\ -(-p) = p
  BY DEF Nodes
<1>2. SetNext(h, -p, n) = [h EXCEPT ![-(-p)].begin = n]
  BY <1>1, Zenon DEF SetNext
<1>3. SetNext(h, -p, n) = [h EXCEPT ![p].begin = n]
  BY <1>1, <1>2, Zenon
<1> QED  BY <1>3 DEF Nodes, NodeFields

SetsPrev(g, h, q, n) == g = [h EXCEPT ![q].prev = n]

LEMMA SetPrevFields ==
  ASSUME NEW h, NEW q \in Nodes(h), NEW n, NEW g, SetsPrev(g, h, q, n)
  PROVE  /\ Nodes(h) \subseteq Nodes(g)
         /\ \A a \in Nodes(h) :
              /\ g[a].prev = IF a = q THEN n ELSE h[a].prev
              /\ g[a].next = h[a].next /\ g[a].count = h[a].count
              /\ g[a].begin = h[a].begin /\ g[a].end = h[a].end
<1> DEFINE r == [h[q] EXCEPT !.prev = n]
<1>1. /\ DOMAIN g = DOMAIN h /\ g[q] = r
      /\ \A a \in DOMAIN h : a # q => g[a] = h[a]
  BY DEF Nodes, SetsPrev
<1>2. /\ DOMAIN r = DOMAIN h[q] /\ r.prev = n /\ r.type = h[q].type
      /\ r.next = h[q].next /\ r.count = h[q].count
      /\ r.begin = h[q].begin /\ r.end = h[q].end
  BY DEF Nodes, NodeFields
<1> HIDE DEF r
<1> QED  BY <1>1, <1>2 DEF Nodes

LEMMA AddFields ==
  ASSUME NEW h, NEW p \in Nodes(h), NEW n \in Nodes(h),
         NEW last, last = h[p].end, last \in Nodes(h) \/ last = -p
  PROVE  LET g == node_list_add(h, p, n)
         IN  /\ Nodes(h) \subseteq Nodes(g)
             /\ \A a \in Nodes(h) :
                  /\ g[a].next = IF a = last THEN n ELSE IF a = n THEN NULL ELSE h[a].next
                  /\ g[a].prev = IF a = n THEN last ELSE h[a].prev
                  /\ g[a].end = IF a = p THEN n ELSE h[a].end
                  /\ g[a].count = IF a = p THEN h[a].count + 1 ELSE h[a].count
                  /\ g[a].begin = IF a = p /\ last = -p THEN n ELSE h[a].begin
<1> DEFINE f == [h EXCEPT ![n].next = NULL, ![n].prev = last,
                          ![p].end = n, ![p].count = @ + 1]
           g == node_list_add(h, p, n)
<1>1. g = SetNext(f, last, n)
  BY DEF node_list_add
<1>2. /\ Nodes(h) \subseteq Nodes(f)
      /\ \A a \in Nodes(h) :
           /\ f[a].next = IF a = n THEN NULL ELSE h[a].next
           /\ f[a].prev = IF a = n THEN last ELSE h[a].prev
           /\ f[a].end = IF a = p THEN n ELSE h[a].end
           /\ f[a].count = IF a = p THEN h[a].count + 1 ELSE h[a].count
           /\ f[a].begin = h[a].begin
  BY DEF Nodes, NodeFields
<1> HIDE DEF f, g
<1>3. CASE last \in Nodes(h)
  <2>1. \A a \in Nodes(h) : a > 0 /\ ~(last = -p)
    BY <1>3 DEF Nodes
  <2> QED  BY <1>1, <1>2, <1>3, <2>1, SetNextFields DEF g
<1>4. CASE last = -p
  <2>1. \A a \in Nodes(h) : a # last
    BY <1>4 DEF Nodes
  <2> QED  BY <1>1, <1>2, <1>4, <2>1, SetBeginFields DEF g
<1> QED  BY <1>3, <1>4

LEMMA NodesAreNat == \A h : Nodes(h) \subseteq Nat \ {0}
BY DEF Nodes

(* node_list_add puts a node that is in no list at the end of p's.         *)
LEMMA AddAppends ==
  ASSUME NEW h, NEW p, NEW s, IsList(h, p, s),
         NEW n \in Nodes(h), \A i \in 1..Len(s) : s[i] # n
  PROVE  IsList(node_list_add(h, p, n), p, Append(s, n))
<1> DEFINE g == node_list_add(h, p, n)
           t == Append(s, n)
           last == h[p].end
           k == Len(s)
<1>1. /\ p \in Nodes(h) /\ s \in Seq(Nodes(h)) /\ k \in Nat
      /\ \A i \in 1..k : s[i] \in Nodes(h)
  BY LenProperties, ElementOfSeq DEF IsList
<1>2. /\ t \in Seq(Nodes(h)) /\ Len(t) = k + 1
      /\ \A i \in 1..k : t[i] = s[i]
      /\ t[k + 1] = n
  BY <1>1, AppendProperties
<1>3. last = IF k = 0 THEN -p ELSE s[k]
  BY DEF IsList
<1>4. last \in Nodes(h) \/ last = -p
  BY <1>1, <1>3
<1>5. /\ Nodes(h) \subseteq Nodes(g)
      /\ \A a \in Nodes(h) :
           /\ g[a].next = IF a = last THEN n ELSE IF a = n THEN NULL ELSE h[a].next
           /\ g[a].prev = IF a = n THEN last ELSE h[a].prev
           /\ g[a].end = IF a = p THEN n ELSE h[a].end
           /\ g[a].count = IF a = p THEN h[a].count + 1 ELSE h[a].count
           /\ g[a].begin = IF a = p /\ last = -p THEN n ELSE h[a].begin
  BY <1>1, <1>4, AddFields
<1> HIDE DEF g, t, last
<1>6. p \in Nodes(g) /\ t \in Seq(Nodes(g))
  BY <1>1, <1>2, <1>5, SeqMonotonic
<1>7. \A i, j \in 1..k + 1 : t[i] = t[j] => i = j
  BY <1>1, <1>2 DEF IsList
<1>8. g[p].count = k + 1
  BY <1>1, <1>5 DEF IsList
<1>9. g[p].end = t[k + 1]
  BY <1>1, <1>2, <1>5
<1>10. g[p].begin = t[1]
  <2>1. CASE k = 0
    BY <1>1, <1>2, <1>3, <1>5, <2>1
  <2>2. CASE k > 0
    <3>1. last # -p
      BY <1>1, <1>3, <2>2, NodesAreNat
    <3> QED  BY <1>1, <1>2, <1>5, <2>2, <3>1 DEF IsList
  <2> QED  BY <1>1, <2>1, <2>2
<1>11. \A i \in 1..k + 1 : g[t[i]].next = IF i = k + 1 THEN NULL ELSE t[i + 1]
  <2> SUFFICES ASSUME NEW i \in 1..k + 1
               PROVE  g[t[i]].next = IF i = k + 1 THEN NULL ELSE t[i + 1]
    OBVIOUS
  <2>1. CASE i = k + 1
    <3>1. last # n
      BY <1>1, <1>3, NodesAreNat
    <3> QED  BY <1>1, <1>2, <1>5, <2>1, <3>1
  <2>2. CASE i = k
    <3>1. t[i] = last /\ last \in Nodes(h) /\ t[i + 1] = n /\ i # k + 1
      BY <1>1, <1>2, <1>3, <2>2
    <3> QED  BY <1>5, <3>1
  <2>3. CASE i < k
    <3>1. i \in 1..k /\ i + 1 \in 1..k /\ k \in 1..k /\ i # k /\ i # k + 1
      BY <1>1, <2>3
    <3>2. s[i] # last /\ s[i] # n /\ s[i] \in Nodes(h) /\ h[s[i]].next = s[i + 1]
      BY <1>1, <1>3, <3>1 DEF IsList
    <3>3. t[i] = s[i] /\ t[i + 1] = s[i + 1]
      BY <1>2, <3>1
    <3> QED  BY <1>5, <3>1, <3>2, <3>3
  <2> QED  BY <1>1, <2>1, <2>2, <2>3
<1>12. \A i \in 2..k + 1 : g[t[i]].prev = t[i - 1]
  <2> SUFFICES ASSUME NEW i \in 2..k + 1 PROVE g[t[i]].prev = t[i - 1]
    OBVIOUS
  <2>1. CASE i = k + 1
    BY <1>1, <1>2, <1>3, <1>5, <2>1
  <2>2. CASE i < k + 1
    <3>1. h[s[i]].prev = s[i - 1] /\ s[i] # n /\ i \in 1..k /\ i - 1 \in 1..k
      BY <1>1, <2>2 DEF IsList
    <3> QED  BY <1>1, <1>2, <1>5, <3>1
  <2> QED  BY <1>1, <2>1, <2>2
<1>13. g[t[1]].prev \in {-p, NULL}
  BY <1>1, <1>2, <1>3, <1>5 DEF IsList
<1>14. /\ Len(t) = k + 1 /\ k + 1 # 0
  BY <1>1, <1>2
<1> HIDE DEF k
<1> QED
  BY <1>6, <1>7, <1>8, <1>9, <1>10, <1>11, <1>12, <1>13, <1>14 DEF IsList, g, t

LEMMA InsertAtFacts ==
  ASSUME NEW S, NEW s \in Seq(S), NEW n \in S, NEW i \in 0..Len(s),
         NEW t, t = InsertAt(s, i + 1, n)
  PROVE  /\ t \in Seq(S) /\ Len(t) = Len(s) + 1
         /\ \A j \in 1..Len(s) + 1 :
              t[j] = IF j <= i THEN s[j] ELSE IF j = i + 1 THEN n ELSE s[j - 1]
<1> DEFINE k == Len(s)
           a == SubSeq(s, 1, i)
           b == SubSeq(s, i + 1, k)
<1>1. k \in Nat /\ \A j \in 1..k : s[j] \in S
  BY LenProperties, ElementOfSeq
<1>2. a \in Seq(S) /\ Len(a) = i /\ \A j \in 1..i : a[j] = s[j]
  <2>1. \A j \in 1..i : s[j] \in S  BY <1>1
  <2> QED  BY <1>1, <2>1, SubSeqProperties
<1>3. b \in Seq(S) /\ Len(b) = k - i /\ \A j \in 1..k - i : b[j] = s[i + j]
  <2>1. \A j \in i + 1..k : s[j] \in S  BY <1>1
  <2>2. /\ b \in Seq(S) /\ Len(b) = IF i + 1 <= k THEN k - (i + 1) + 1 ELSE 0
        /\ \A j \in 1..k - (i + 1) + 1 : b[j] = s[i + 1 + j - 1]
    BY <1>1, <2>1, SubSeqProperties
  <2> QED  BY <1>1, <2>2
<1>4. <<n>> \in Seq(S) /\ Len(<<n>>) = 1 /\ <<n>>[1] = n
  OBVIOUS
<1> HIDE DEF a, b
<1> DEFINE c == a \o <<n>>
<1>5. c \in Seq(S) /\ Len(c) = i + 1 /\ \A j \in 1..i + 1 : c[j] = IF j <= i THEN s[j] ELSE n
  <2>1. /\ c \in Seq(S) /\ Len(c) = Len(a) + Len(<<n>>)
        /\ \A j \in 1..Len(a) + Len(<<n>>) :
             c[j] = IF j <= Len(a) THEN a[j] ELSE <<n>>[j - Len(a)]
    BY <1>2, <1>4, ConcatProperties
  <2>2. \A j \in 1..i + 1 : c[j] = IF j <= i THEN a[j] ELSE <<n>>[j - i]
    BY <1>2, <1>4, <2>1
  <2>3. \A j \in 1..i + 1 : j <= i \/ j - i = 1
    BY <1>1
  <2> QED  BY <1>1, <1>2, <1>4, <2>1, <2>2, <2>3
<1> HIDE DEF c
<1>6. t = c \o b
  <2>1. (i + 1) - 1 = i  OBVIOUS
  <2> QED  BY <2>1 DEF InsertAt, a, b, c
<1>7. /\ t \in Seq(S) /\ Len(t) = k + 1
      /\ \A j \in 1..k + 1 : t[j] = IF j <= i + 1 THEN c[j] ELSE b[j - (i + 1)]
  <2>1. /\ t \in Seq(S) /\ Len(t) = Len(c) + Len(b)
        /\ \A j \in 1..Len(c) + Len(b) :
             t[j] = IF j <= Len(c) THEN c[j] ELSE b[j - Len(c)]
    <3>1. c \in Seq(S) /\ b \in Seq(S)  BY <1>3, <1>5
    <3>2. /\ c \o b \in Seq(S) /\ Len(c \o b) = Len(c) + Len(b)
          /\ \A j \in 1..Len(c) + Len(b) :
               (c \o b)[j] = IF j <= Len(c) THEN c[j] ELSE b[j - Len(c)]
      BY <3>1, ConcatProperties
    <3> QED  BY <1>6, <3>2, Zenon
  <2>2. Len(c) + Len(b) = k + 1
    BY <1>1, <1>3, <1>5
  <2> QED  BY <1>3, <1>5, <2>1, <2>2
<1>8. \A j \in i + 2..k + 1 : b[j - (i + 1)] = s[j - 1]
  <2> SUFFICES ASSUME NEW j \in i + 2..k + 1 PROVE b[j - (i + 1)] = s[j - 1]
    OBVIOUS
  <2>1. j - (i + 1) \in 1..k - i /\ i + (j - (i + 1)) = j - 1
    BY <1>1
  <2> QED  BY <1>3, <2>1
<1>9. \A j \in 1..k + 1 :
        t[j] = IF j <= i THEN s[j] ELSE IF j = i + 1 THEN n ELSE s[j - 1]
  <2> SUFFICES ASSUME NEW j \in 1..k + 1
               PROVE  t[j] = IF j <= i THEN s[j] ELSE IF j = i + 1 THEN n ELSE s[j - 1]
    OBVIOUS
  <2>1. CASE j <= i      BY <1>1, <1>5, <1>7, <2>1
  <2>2. CASE j = i + 1   BY <1>1, <1>5, <1>7, <2>2
  <2>3. CASE j > i + 1   BY <1>1, <1>7, <1>8, <2>3
  <2>4. i \in Int /\ j \in Int  BY <1>1
  <2> QED  BY <2>1, <2>2, <2>3, <2>4
<1> QED  BY <1>7, <1>9

LEMMA RemoveAtFacts ==
  ASSUME NEW S, NEW s \in Seq(S), NEW i \in 1..Len(s)
  PROVE  LET t == RemoveAt(s, i)
         IN  /\ t \in Seq(S) /\ Len(t) = Len(s) - 1
             /\ \A j \in 1..Len(s) - 1 : t[j] = IF j < i THEN s[j] ELSE s[j + 1]
<1> DEFINE k == Len(s)
           a == SubSeq(s, 1, i - 1)
           b == SubSeq(s, i + 1, k)
<1>1. k \in Nat /\ \A j \in 1..k : s[j] \in S
  BY LenProperties, ElementOfSeq
<1>2. a \in Seq(S) /\ Len(a) = i - 1 /\ \A j \in 1..i - 1 : a[j] = s[j]
  <2>1. \A j \in 1..i - 1 : s[j] \in S  BY <1>1
  <2>2. /\ a \in Seq(S) /\ Len(a) = IF 1 <= i - 1 THEN i - 1 - 1 + 1 ELSE 0
        /\ \A j \in 1..i - 1 - 1 + 1 : a[j] = s[1 + j - 1]
    BY <1>1, <2>1, SubSeqProperties
  <2> QED  BY <1>1, <2>2
<1>3. b \in Seq(S) /\ Len(b) = k - i /\ \A j \in 1..k - i : b[j] = s[i + j]
  <2>1. \A j \in i + 1..k : s[j] \in S  BY <1>1
  <2>2. /\ b \in Seq(S) /\ Len(b) = IF i + 1 <= k THEN k - (i + 1) + 1 ELSE 0
        /\ \A j \in 1..k - (i + 1) + 1 : b[j] = s[i + 1 + j - 1]
    BY <1>1, <2>1, SubSeqProperties
  <2> QED  BY <1>1, <2>2
<1> HIDE DEF a, b
<1>4. /\ a \o b \in Seq(S) /\ Len(a \o b) = k - 1
      /\ \A j \in 1..k - 1 : (a \o b)[j] = IF j <= i - 1 THEN a[j] ELSE b[j - (i - 1)]
  <2>1. /\ a \o b \in Seq(S) /\ Len(a \o b) = Len(a) + Len(b)
        /\ \A j \in 1..Len(a) + Len(b) :
             (a \o b)[j] = IF j <= Len(a) THEN a[j] ELSE b[j - Len(a)]
    BY <1>2, <1>3, ConcatProperties
  <2>2. Len(a) + Len(b) = k - 1
    BY <1>1, <1>2, <1>3
  <2> QED  BY <1>2, <1>3, <2>1, <2>2
<1>5. \A j \in i..k - 1 : b[j - (i - 1)] = s[j + 1]
  <2> SUFFICES ASSUME NEW j \in i..k - 1 PROVE b[j - (i - 1)] = s[j + 1]
    OBVIOUS
  <2>1. j - (i - 1) \in 1..k - i /\ i + (j - (i - 1)) = j + 1
    BY <1>1
  <2> QED  BY <1>3, <2>1
<1>6. RemoveAt(s, i) = a \o b
  BY DEF RemoveAt, a, b
<1> QED  BY <1>1, <1>2, <1>4, <1>5, <1>6

(* g is h with n between prev, or the begin of p's list, and next.         *)
Inserted(h, g, p, prev, next, n) ==
  /\ Nodes(h) \subseteq Nodes(g)
  /\ \A a \in Nodes(h) :
       /\ g[a].next = IF a = prev THEN n ELSE IF a = n THEN next ELSE h[a].next
       /\ g[a].prev = IF a = next THEN n ELSE IF a = n THEN prev ELSE h[a].prev
       /\ g[a].count = IF a = p THEN h[a].count + 1 ELSE h[a].count
       /\ g[a].begin = IF a = p /\ prev = NULL THEN n ELSE h[a].begin
       /\ g[a].end = h[a].end

LEMMA InsertFields ==
  ASSUME NEW h, NEW p \in Nodes(h), NEW n \in Nodes(h), NEW next \in Nodes(h),
         NEW prev \in Nodes(h) \cup {NULL},
         next = IF prev = NULL THEN h[p].begin ELSE h[prev].next,
         NEW g, g = InsertAfter(h, p, prev, n)
  PROVE  Inserted(h, g, p, prev, next, n)
<1> DEFINE e == [h EXCEPT ![n].prev = prev, ![n].next = next, ![p].count = @ + 1]
           q == IF prev = NULL THEN -p ELSE prev
           f == SetNext(e, q, n)
<1>1. next # NULL
  BY NodesAreNat DEF NULL
<1>2. g = [f EXCEPT ![next].prev = n]
  BY <1>1 DEF InsertAfter
<1>3. /\ Nodes(h) \subseteq Nodes(e)
      /\ \A a \in Nodes(h) :
           /\ e[a].next = IF a = n THEN next ELSE h[a].next
           /\ e[a].prev = IF a = n THEN prev ELSE h[a].prev
           /\ e[a].count = IF a = p THEN h[a].count + 1 ELSE h[a].count
           /\ e[a].begin = h[a].begin /\ e[a].end = h[a].end
  BY DEF Nodes, NodeFields
<1> HIDE DEF e
<1>4. /\ Nodes(h) \subseteq Nodes(f)
      /\ \A a \in Nodes(h) :
           /\ f[a].next = IF a = prev THEN n ELSE IF a = n THEN next ELSE h[a].next
           /\ f[a].prev = IF a = n THEN prev ELSE h[a].prev
           /\ f[a].count = IF a = p THEN h[a].count + 1 ELSE h[a].count
           /\ f[a].begin = IF a = p /\ prev = NULL THEN n ELSE h[a].begin
           /\ f[a].end = h[a].end
  <2>1. CASE prev = NULL
    <3>1. \A a \in Nodes(h) : a # prev
      BY <2>1, NodesAreNat DEF NULL
    <3> QED  BY <1>3, <2>1, <3>1, SetBeginFields
  <2>2. CASE prev # NULL
    BY <1>3, <2>2, SetNextFields
  <2> QED  BY <2>1, <2>2
<1> HIDE DEF f
<1>5. next \in Nodes(f)
  BY <1>4
<1>6. /\ Nodes(f) \subseteq Nodes(g)
      /\ \A a \in Nodes(f) :
           /\ g[a].prev = IF a = next THEN n ELSE f[a].prev
           /\ g[a].next = f[a].next /\ g[a].count = f[a].count
           /\ g[a].begin = f[a].begin /\ g[a].end = f[a].end
  <2>1. SetsPrev(g, f, next, n)  BY <1>2 DEF SetsPrev
  <2> QED  BY <1>5, <2>1, SetPrevFields
<1>7. \A a \in Nodes(h) : a \in Nodes(f)
  BY <1>4
<1>8. \A a \in Nodes(h) :
        /\ g[a].next = IF a = prev THEN n ELSE IF a = n THEN next ELSE h[a].next
        /\ g[a].prev = IF a = next THEN n ELSE IF a = n THEN prev ELSE h[a].prev
        /\ g[a].count = IF a = p THEN h[a].count + 1 ELSE h[a].count
        /\ g[a].begin = IF a = p /\ prev = NULL THEN n ELSE h[a].begin
        /\ g[a].end = h[a].end
  BY <1>4, <1>6, <1>7
<1> QED  BY <1>4, <1>6, <1>8 DEF Inserted

(* node_list_insert puts a node that is in no list where it is told,       *)
(* unless that is the end.                                                 *)
LEMMA InsertInserts ==
  ASSUME NEW h, NEW p, NEW s, IsList(h, p, s),
         NEW n \in Nodes(h), \A i \in 1..Len(s) : s[i] # n,
         NEW index \in 0..Len(s) - 1
  PROVE  IsList(InsertAfter(h, p, IF index = 0 THEN NULL ELSE s[index], n), p,
                InsertAt(s, index + 1, n))
<1> DEFINE prev == IF index = 0 THEN NULL ELSE s[index]
           next == s[index + 1]
           g == InsertAfter(h, p, prev, n)
           t == InsertAt(s, index + 1, n)
           k == Len(s)
<1>1. /\ p \in Nodes(h) /\ s \in Seq(Nodes(h)) /\ k \in Nat
      /\ \A i \in 1..k : s[i] \in Nodes(h)
  BY LenProperties, ElementOfSeq DEF IsList
<1>2. index \in Nat /\ index < k /\ index + 1 \in 1..k /\ (index # 0 => index \in 1..k)
  BY <1>1
<1>3. /\ t \in Seq(Nodes(h)) /\ Len(t) = k + 1
      /\ \A j \in 1..k + 1 :
           t[j] = IF j <= index THEN s[j] ELSE IF j = index + 1 THEN n ELSE s[j - 1]
  <2>1. index \in 0..k  BY <1>1, <1>2
  <2> QED  BY <1>1, <2>1, InsertAtFacts
<1>4. next \in Nodes(h) /\ prev \in Nodes(h) \cup {NULL}
  BY <1>1, <1>2
<1>5. next = IF prev = NULL THEN h[p].begin ELSE h[prev].next
  <2>1. CASE index = 0
    BY <1>1, <1>2, <2>1 DEF IsList
  <2>2. CASE index # 0
    <3>1. prev # NULL
      BY <1>1, <1>2, <2>2, NodesAreNat DEF NULL
    <3> QED  BY <1>1, <1>2, <2>2, <3>1 DEF IsList
  <2> QED  BY <2>1, <2>2
<1>6. /\ Nodes(h) \subseteq Nodes(g)
      /\ \A a \in Nodes(h) :
           /\ g[a].next = IF a = prev THEN n ELSE IF a = n THEN next ELSE h[a].next
           /\ g[a].prev = IF a = next THEN n ELSE IF a = n THEN prev ELSE h[a].prev
           /\ g[a].count = IF a = p THEN h[a].count + 1 ELSE h[a].count
           /\ g[a].begin = IF a = p /\ prev = NULL THEN n ELSE h[a].begin
           /\ g[a].end = h[a].end
  <2> HIDE DEF prev, next, g
  <2>1. g = InsertAfter(h, p, prev, n)  BY DEF g
  <2>2. Inserted(h, g, p, prev, next, n)
    BY <1>1, <1>4, <1>5, <2>1, InsertFields
  <2> QED  BY <2>2 DEF Inserted
<1>7. /\ \A i \in 1..k : s[i] # n
      /\ \A i, j \in 1..k : s[i] = s[j] => i = j
      /\ h[p].count = k /\ h[p].begin = s[1] /\ h[p].end = s[k]
      /\ \A i \in 1..k : h[s[i]].next = IF i = k THEN NULL ELSE s[i + 1]
      /\ \A i \in 2..k : h[s[i]].prev = s[i - 1]
      /\ h[s[1]].prev \in {-p, NULL}
  BY <1>2 DEF IsList
<1>8. n # next /\ n # prev
  BY <1>2, <1>7, NodesAreNat DEF NULL
<1> HIDE DEF g, t, k
<1>9. p \in Nodes(g) /\ t \in Seq(Nodes(g))
  BY <1>1, <1>3, <1>6, SeqMonotonic
<1>10. \A i, j \in 1..k + 1 : t[i] = t[j] => i = j
  <2> SUFFICES ASSUME NEW i \in 1..k + 1, NEW j \in 1..k + 1, i < j
               PROVE  t[i] # t[j]
    BY <1>1
  <2>1. CASE j <= index
    <3>1. t[i] = s[i] /\ t[j] = s[j] /\ i \in 1..k /\ j \in 1..k /\ i # j
      BY <1>1, <1>2, <1>3, <2>1
    <3> QED  BY <1>7, <3>1
  <2>2. CASE j = index + 1
    <3>1. t[i] = s[i] /\ t[j] = n /\ i \in 1..k
      BY <1>1, <1>2, <1>3, <2>2
    <3> QED  BY <1>7, <3>1
  <2>3. CASE j > index + 1
    <3>1. t[j] = s[j - 1] /\ j - 1 \in 1..k
      BY <1>1, <1>2, <1>3, <2>3
    <3>2. CASE i <= index
      <4>1. t[i] = s[i] /\ i \in 1..k /\ i # j - 1
        BY <1>1, <1>2, <1>3, <2>3, <3>2
      <4> QED  BY <1>7, <3>1, <4>1
    <3>3. CASE i = index + 1
      <4>1. t[i] = n
        BY <1>1, <1>2, <1>3, <3>3
      <4> QED  BY <1>7, <3>1, <4>1
    <3>4. CASE i > index + 1
      <4>1. t[i] = s[i - 1] /\ i - 1 \in 1..k /\ i - 1 # j - 1
        BY <1>1, <1>2, <1>3, <3>4
      <4> QED  BY <1>7, <3>1, <4>1
    <3> QED  BY <1>2, <3>2, <3>3, <3>4
  <2> QED  BY <1>2, <2>1, <2>2, <2>3
<1>11. g[p].count = k + 1
  BY <1>1, <1>6, <1>7
<1>12. g[p].begin = t[1]
  <2>1. CASE index = 0
    BY <1>1, <1>3, <1>6, <2>1
  <2>2. CASE index # 0
    <3>1. prev # NULL
      BY <1>1, <1>2, <2>2, NodesAreNat DEF NULL
    <3>2. t[1] = s[1]
      BY <1>1, <1>2, <1>3, <2>2
    <3> QED  BY <1>1, <1>6, <1>7, <3>1, <3>2
  <2> QED  BY <2>1, <2>2
<1>13. g[p].end = t[k + 1]
  <2>1. t[k + 1] = s[k]
    BY <1>1, <1>2, <1>3
  <2> QED  BY <1>1, <1>6, <1>7, <2>1
<1>14. \A i \in 1..k + 1 : g[t[i]].next = IF i = k + 1 THEN NULL ELSE t[i + 1]
  <2> SUFFICES ASSUME NEW i \in 1..k + 1
               PROVE  g[t[i]].next = IF i = k + 1 THEN NULL ELSE t[i + 1]
    OBVIOUS
  <2>1. CASE i < index
    <3>1. /\ t[i] = s[i] /\ t[i + 1] = s[i + 1] /\ i \in 1..k /\ i # k /\ i # k + 1
          /\ index # 0
      BY <1>1, <1>2, <1>3, <2>1
    <3>2. s[i] # n /\ s[i] # prev
      BY <1>2, <1>7, <2>1, <3>1
    <3>3. h[s[i]].next = s[i + 1] /\ s[i] \in Nodes(h)
      BY <1>1, <1>7, <3>1
    <3> QED  BY <1>6, <3>1, <3>2, <3>3
  <2>2. CASE i = index
    <3>1. t[i] = s[i] /\ t[i + 1] = n /\ i # k + 1 /\ prev = s[i] /\ s[i] \in Nodes(h)
      BY <1>1, <1>2, <1>3, <2>2
    <3> QED  BY <1>6, <3>1
  <2>3. CASE i = index + 1
    <3>1. /\ index + 1 \in 1..k + 1 /\ index + 2 \in 1..k + 1
          /\ ~(index + 1 <= index) /\ ~(index + 2 <= index) /\ index + 2 # index + 1
          /\ (index + 2) - 1 = index + 1 /\ i # k + 1 /\ i + 1 = index + 2
      BY <1>1, <1>2, <2>3
    <3>2. t[index + 1] = n /\ t[index + 2] = s[index + 1]
      BY <1>3, <3>1
    <3> QED  BY <1>6, <1>8, <2>3, <3>1, <3>2
  <2>4. CASE i > index + 1
    <3>1. /\ t[i] = s[i - 1] /\ i - 1 \in 1..k /\ (i # k + 1 => t[i + 1] = s[i])
          /\ (i - 1) + 1 = i /\ (i - 1 = k <=> i = k + 1)
      <4>1. i \in Int /\ k \in Int /\ (i - 1) + 1 = i /\ (i + 1) - 1 = i
        BY <1>1
      <4>2. t[i] = s[i - 1]
        BY <1>1, <1>2, <1>3, <2>4
      <4>3. i # k + 1 => t[i + 1] = s[(i + 1) - 1]
        BY <1>1, <1>2, <1>3, <2>4
      <4> QED  BY <1>2, <2>4, <4>1, <4>2, <4>3
    <3>2. s[i - 1] # n
      BY <1>7, <3>1
    <3>3. s[i - 1] # prev
      <4>1. CASE index = 0
        BY <1>1, <3>1, <4>1, NodesAreNat DEF NULL
      <4>2. CASE index # 0
        BY <1>2, <1>7, <2>4, <3>1, <4>2
      <4> QED  BY <4>1, <4>2
    <3>4. h[s[i - 1]].next = IF i - 1 = k THEN NULL ELSE s[(i - 1) + 1]
      BY <1>7, <3>1
    <3> QED  BY <1>1, <1>6, <3>1, <3>2, <3>3, <3>4
  <2> QED  BY <1>2, <2>1, <2>2, <2>3, <2>4
<1>15. \A i \in 2..k + 1 : g[t[i]].prev = t[i - 1]
  <2> SUFFICES ASSUME NEW i \in 2..k + 1 PROVE g[t[i]].prev = t[i - 1]
    OBVIOUS
  <2>1. CASE i <= index
    <3>1. t[i] = s[i] /\ t[i - 1] = s[i - 1] /\ i \in 2..k /\ i \in 1..k /\ i # index + 1
      BY <1>1, <1>2, <1>3, <2>1
    <3>2. s[i] # n /\ s[i] # next
      BY <1>2, <1>7, <3>1
    <3>3. h[s[i]].prev = s[i - 1] /\ s[i] \in Nodes(h)
      BY <1>1, <1>7, <3>1
    <3> QED  BY <1>6, <3>1, <3>2, <3>3
  <2>2. CASE i = index + 1
    <3>1. t[i] = n /\ t[i - 1] = prev
      BY <1>1, <1>2, <1>3, <2>2
    <3> QED  BY <1>6, <1>8, <3>1
  <2>3. CASE i = index + 2
    <3>1. t[i] = next /\ t[i - 1] = n
      BY <1>1, <1>2, <1>3, <2>3
    <3> QED  BY <1>4, <1>6, <3>1
  <2>4. CASE i > index + 2
    <3>1. /\ t[i] = s[i - 1] /\ t[i - 1] = s[(i - 1) - 1] /\ i - 1 \in 2..k /\ i - 1 \in 1..k
          /\ i - 1 # index + 1
      BY <1>1, <1>2, <1>3, <2>4
    <3>2. s[i - 1] # n /\ s[i - 1] # next
      BY <1>2, <1>7, <3>1
    <3>3. h[s[i - 1]].prev = s[(i - 1) - 1]
      BY <1>7, <3>1
    <3> QED  BY <1>1, <1>6, <3>1, <3>2, <3>3
  <2> QED  BY <1>2, <2>1, <2>2, <2>3, <2>4
<1>16. g[t[1]].prev \in {-p, NULL}
  <2>1. CASE index = 0
    <3>1. t[1] = n /\ prev = NULL
      BY <1>1, <1>3, <2>1
    <3> QED  BY <1>6, <1>8, <3>1
  <2>2. CASE index # 0
    <3>1. t[1] = s[1] /\ 1 \in 1..k /\ 1 # index + 1
      BY <1>1, <1>2, <1>3, <2>2
    <3>2. s[1] # n /\ s[1] # next
      BY <1>2, <1>7, <3>1
    <3> QED  BY <1>1, <1>6, <1>7, <3>1, <3>2
  <2> QED  BY <2>1, <2>2
<1>17. Len(t) = k + 1 /\ k + 1 # 0
  BY <1>1, <1>3
<1> HIDE DEF prev, next
<1>18. IsList(g, p, t)
  BY <1>9, <1>10, <1>11, <1>12, <1>13, <1>14, <1>15, <1>16, <1>17 DEF IsList
<1> QED  BY <1>18 DEF g, t, prev

(* g is h without what is between prev, or the begin of p's list, and      *)
(* next; the list's end follows unless prev is NULL.                       *)
Removed(h, g, p, prev, next) ==
  /\ Nodes(h) \subseteq Nodes(g)
  /\ \A a \in Nodes(h) :
       /\ g[a].next = IF a = prev THEN next ELSE h[a].next
       /\ g[a].prev = IF a = next THEN prev ELSE h[a].prev
       /\ g[a].count = IF a = p THEN h[a].count - 1 ELSE h[a].count
       /\ g[a].begin = IF a = p /\ prev \notin Nodes(h) THEN next ELSE h[a].begin
       /\ g[a].end = IF a = p /\ next = NULL /\ prev # NULL THEN prev ELSE h[a].end

LEMMA RemoveFields ==
  ASSUME NEW h, NEW p \in Nodes(h), NEW n \in Nodes(h), NEW next, NEW prev,
         next = h[n].next, prev = h[n].prev,
         next \in Nodes(h) \cup {NULL}, prev \in Nodes(h) \cup {NULL, -p},
         NEW g, g = node_list_remove(h, p, n)
  PROVE  Removed(h, g, p, prev, next)
<1> DEFINE e == [h EXCEPT ![p].count = @ - 1]
           f == SetNext(e, IF prev = NULL THEN -p ELSE prev, next)
<1>1. \A a \in Nodes(h) : a # NULL /\ a # -p
  BY NodesAreNat DEF NULL
<1>2. g = IF next # NULL THEN [f EXCEPT ![next].prev = prev]
          ELSE IF prev # NULL THEN [f EXCEPT ![p].end = prev] ELSE f
  BY DEF node_list_remove
<1>3. /\ Nodes(h) \subseteq Nodes(e)
      /\ \A a \in Nodes(h) :
           /\ e[a].next = h[a].next /\ e[a].prev = h[a].prev
           /\ e[a].count = IF a = p THEN h[a].count - 1 ELSE h[a].count
           /\ e[a].begin = h[a].begin /\ e[a].end = h[a].end
  BY DEF Nodes, NodeFields
<1> HIDE DEF e
<1>4. /\ Nodes(h) \subseteq Nodes(f)
      /\ \A a \in Nodes(h) :
           /\ f[a].next = IF a = prev THEN next ELSE h[a].next
           /\ f[a].prev = h[a].prev
           /\ f[a].count = IF a = p THEN h[a].count - 1 ELSE h[a].count
           /\ f[a].begin = IF a = p /\ prev \notin Nodes(h) THEN next ELSE h[a].begin
           /\ f[a].end = h[a].end
  <2>1. CASE prev \in Nodes(h)
    <3>1. f = SetNext(e, prev, next) /\ prev \in Nodes(e)
      BY <1>1, <1>3, <2>1
    <3> QED  BY <1>3, <2>1, <3>1, SetNextFields
  <2>2. CASE prev \notin Nodes(h)
    <3>1. f = SetNext(e, -p, next) /\ p \in Nodes(e)
      BY <1>3, <2>2
    <3>2. \A a \in Nodes(h) : a # prev
      BY <2>2
    <3> QED  BY <1>3, <2>2, <3>1, <3>2, SetBeginFields
  <2> QED  BY <2>1, <2>2
<1> HIDE DEF f
<1>5. \A a \in Nodes(h) : a \in Nodes(f)
  BY <1>4
<1>6. CASE next # NULL
  <2>1. next \in Nodes(f) /\ g = [f EXCEPT ![next].prev = prev]
    BY <1>2, <1>5, <1>6
  <2>2. /\ Nodes(f) \subseteq Nodes(g)
        /\ \A a \in Nodes(f) :
             /\ g[a].prev = IF a = next THEN prev ELSE f[a].prev
             /\ g[a].next = f[a].next /\ g[a].count = f[a].count
             /\ g[a].begin = f[a].begin /\ g[a].end = f[a].end
    <3>1. SetsPrev(g, f, next, prev)  BY <2>1 DEF SetsPrev
    <3>2. next \in Nodes(f)  BY <2>1
    <3> QED  BY <3>1, <3>2, SetPrevFields
  <2> QED  BY <1>4, <1>5, <1>6, <2>2 DEF Removed
<1>7. CASE next = NULL /\ prev # NULL
  <2>1. p \in Nodes(f) /\ g = [f EXCEPT ![p].end = prev]
    BY <1>2, <1>5, <1>7
  <2>2. /\ Nodes(f) \subseteq Nodes(g)
        /\ \A a \in Nodes(f) :
             /\ g[a].end = IF a = p THEN prev ELSE f[a].end
             /\ g[a].next = f[a].next /\ g[a].count = f[a].count
             /\ g[a].begin = f[a].begin /\ g[a].prev = f[a].prev
    BY <2>1 DEF Nodes, NodeFields
  <2>3. \A a \in Nodes(h) : a # next
    BY <1>1, <1>7
  <2> QED  BY <1>4, <1>5, <1>7, <2>2, <2>3 DEF Removed
<1>8. CASE next = NULL /\ prev = NULL
  <2>1. g = f
    BY <1>2, <1>8
  <2>2. \A a \in Nodes(h) : a # next
    BY <1>1, <1>8
  <2> QED  BY <1>4, <1>8, <2>1, <2>2 DEF Removed
<1> QED  BY <1>6, <1>7, <1>8

(* What IsList says of a node of the list.                                 *)
LEMMA Links ==
  ASSUME NEW h, NEW p, NEW s, IsList(h, p, s), NEW i \in 1..Len(s)
  PROVE  /\ s[i] \in Nodes(h) /\ s[i] # NULL
         /\ h[s[i]].next = IF i = Len(s) THEN NULL ELSE s[i + 1]
         /\ i > 1 => h[s[i]].prev = s[i - 1]
         /\ i = 1 => h[s[i]].prev \in {-p, NULL}
<1>1. s \in Seq(Nodes(h)) /\ Len(s) \in Nat
  BY LenProperties DEF IsList
<1>2. s[i] \in Nodes(h) /\ s[i] # NULL
  BY <1>1, ElementOfSeq, NodesAreNat DEF NULL
<1>3. i > 1 => i \in 2..Len(s)
  BY <1>1
<1>4. i = 1 => Len(s) > 0
  BY <1>1
<1> QED  BY <1>2, <1>3, <1>4 DEF IsList

(* node_list_remove takes a node out of its list, if it is not the only    *)
(* one or was not inserted as the first.                                   *)
LEMMA RemoveRemoves ==
  ASSUME NEW h, NEW p, NEW s, IsList(h, p, s), NEW i \in 1..Len(s),
         Len(s) > 1 \/ h[s[i]].prev # NULL
  PROVE  IsList(node_list_remove(h, p, s[i]), p, RemoveAt(s, i))
<1> DEFINE n == s[i]
           prev == h[n].prev
           next == h[n].next
           g == node_list_remove(h, p, n)
           t == RemoveAt(s, i)
           k == Len(s)
<1>1. p \in Nodes(h) /\ s \in Seq(Nodes(h)) /\ k \in Nat /\ i \in 1..k /\ n \in Nodes(h)
  BY LenProperties, ElementOfSeq DEF IsList
<1>2. /\ t \in Seq(Nodes(h)) /\ Len(t) = k - 1
      /\ \A j \in 1..k - 1 : t[j] = IF j < i THEN s[j] ELSE s[j + 1]
  BY <1>1, RemoveAtFacts
<1>3. \A j \in 1..k :
        /\ s[j] \in Nodes(h) /\ s[j] # NULL
        /\ h[s[j]].next = IF j = k THEN NULL ELSE s[j + 1]
        /\ j > 1 => h[s[j]].prev = s[j - 1]
        /\ j = 1 => h[s[j]].prev \in {-p, NULL}
  BY Links
<1>4. /\ \A j, l \in 1..k : s[j] = s[l] => j = l
      /\ h[p].count = k /\ h[p].begin = s[1] /\ h[p].end = s[k]
  BY <1>1 DEF IsList
<1>5. next = IF i = k THEN NULL ELSE s[i + 1]
  BY <1>1, <1>3
<1>6. /\ i > 1 => prev = s[i - 1]
      /\ i = 1 => prev \in {-p, NULL}
  BY <1>1, <1>3
<1>7. next \in Nodes(h) \cup {NULL}
  BY <1>1, <1>3, <1>5
<1>8. prev \in Nodes(h) \cup {NULL, -p}
  BY <1>1, <1>3, <1>6
<1>9. k > 1 \/ prev # NULL
  OBVIOUS
<1>10. Removed(h, g, p, prev, next)
  <2> HIDE DEF n
  <2>1. next = h[n].next /\ prev = h[n].prev /\ g = node_list_remove(h, p, n)
    OBVIOUS
  <2> HIDE DEF prev, next, g
  <2> QED  BY <1>1, <1>7, <1>8, <2>1, RemoveFields
<1> HIDE DEF g, t, k, prev, next
<1>11. p \in Nodes(g) /\ t \in Seq(Nodes(g))
  BY <1>1, <1>2, <1>10, SeqMonotonic DEF Removed
<1>12. \A j, l \in 1..k - 1 : t[j] = t[l] => j = l
  <2> SUFFICES ASSUME NEW j \in 1..k - 1, NEW l \in 1..k - 1, j < l
               PROVE  t[j] # t[l]
    BY <1>1
  <2>1. CASE l < i
    <3>1. t[j] = s[j] /\ t[l] = s[l] /\ j \in 1..k /\ l \in 1..k /\ j # l
      BY <1>1, <1>2, <2>1
    <3> QED  BY <1>4, <3>1
  <2>2. CASE j < i /\ l >= i
    <3>1. t[j] = s[j] /\ t[l] = s[l + 1] /\ j \in 1..k /\ l + 1 \in 1..k /\ j # l + 1
      BY <1>1, <1>2, <2>2
    <3> QED  BY <1>4, <3>1
  <2>3. CASE j >= i
    <3>1. t[j] = s[j + 1] /\ t[l] = s[l + 1] /\ j + 1 \in 1..k /\ l + 1 \in 1..k /\ j + 1 # l + 1
      BY <1>1, <1>2, <2>3
    <3> QED  BY <1>4, <3>1
  <2> QED  BY <1>1, <2>1, <2>2, <2>3
<1>13. g[p].count = k - 1
  BY <1>1, <1>4, <1>10 DEF Removed
<1>14. g[p].begin = IF k - 1 = 0 THEN NULL ELSE t[1]
  <2>1. CASE i = 1
    <3>1. prev \notin Nodes(h)
      BY <1>1, <1>6, <2>1, NodesAreNat DEF NULL
    <3>2. k - 1 # 0 => t[1] = s[i + 1]
      BY <1>1, <1>2, <2>1
    <3> QED  BY <1>1, <1>5, <1>10, <2>1, <3>1, <3>2 DEF Removed
  <2>2. CASE i > 1
    <3>1. prev \in Nodes(h) /\ k - 1 # 0 /\ t[1] = s[1]
      <4>1. i - 1 \in 1..k /\ 1 \in 1..k - 1 /\ 1 < i /\ k - 1 # 0
        BY <1>1, <2>2
      <4>2. prev = s[i - 1]
        BY <1>6, <2>2
      <4> QED  BY <1>2, <1>3, <4>1, <4>2
    <3> QED  BY <1>1, <1>4, <1>10, <3>1 DEF Removed
  <2> QED  BY <1>1, <2>1, <2>2
<1>15. g[p].end = IF k - 1 = 0 THEN -p ELSE t[k - 1]
  <2>1. CASE i = k
    <3>1. next = NULL
      BY <1>5, <2>1
    <3>2. CASE k = 1
      BY <1>1, <1>6, <1>9, <1>10, <2>1, <3>1, <3>2 DEF Removed
    <3>3. CASE k > 1
      <4>1. prev = s[k - 1] /\ k - 1 \in 1..k /\ t[k - 1] = s[k - 1] /\ k - 1 # 0
        BY <1>1, <1>2, <1>6, <2>1, <3>3
      <4>2. prev # NULL
        BY <1>3, <4>1
      <4> QED  BY <1>1, <1>10, <3>1, <4>1, <4>2 DEF Removed
    <3> QED  BY <1>1, <3>2, <3>3
  <2>2. CASE i < k
    <3>1. next # NULL
      BY <1>1, <1>3, <1>5, <2>2
    <3>2. k - 1 # 0 /\ t[k - 1] = s[k]
      BY <1>1, <1>2, <2>2
    <3> QED  BY <1>1, <1>4, <1>10, <3>1, <3>2 DEF Removed
  <2> QED  BY <1>1, <2>1, <2>2
<1>16. \A j \in 1..k - 1 : g[t[j]].next = IF j = k - 1 THEN NULL ELSE t[j + 1]
  <2> SUFFICES ASSUME NEW j \in 1..k - 1
               PROVE  g[t[j]].next = IF j = k - 1 THEN NULL ELSE t[j + 1]
    OBVIOUS
  <2>1. CASE j < i - 1
    <3>1. /\ t[j] = s[j] /\ t[j + 1] = s[j + 1] /\ j \in 1..k /\ j # k /\ j # k - 1
          /\ i > 1 /\ i - 1 \in 1..k /\ j # i - 1
      BY <1>1, <1>2, <2>1
    <3>2. prev = s[i - 1] /\ s[j] # prev
      BY <1>4, <1>6, <3>1
    <3>3. s[j] \in Nodes(h) /\ h[s[j]].next = s[j + 1]
      BY <1>3, <3>1
    <3> QED  BY <1>10, <3>1, <3>2, <3>3 DEF Removed
  <2>2. CASE j = i - 1
    <3>1. t[j] = s[i - 1] /\ i > 1 /\ i - 1 \in 1..k /\ (i = k <=> j = k - 1)
      BY <1>1, <1>2, <2>2
    <3>2. j # k - 1 => t[j + 1] = s[i + 1]
      BY <1>1, <1>2, <2>2
    <3>3. prev = s[i - 1] /\ prev \in Nodes(h)
      BY <1>3, <1>6, <3>1
    <3> QED  BY <1>5, <1>10, <3>1, <3>2, <3>3 DEF Removed
  <2>3. CASE j >= i
    <3>1. /\ t[j] = s[j + 1] /\ j + 1 \in 1..k /\ j + 1 # i - 1
          /\ (j + 1 = k <=> j = k - 1)
      BY <1>1, <1>2, <2>3
    <3>2. j # k - 1 => t[j + 1] = s[(j + 1) + 1]
      BY <1>1, <1>2, <2>3
    <3>3. s[j + 1] # prev
      <4>1. CASE i = 1
        BY <1>3, <1>6, <3>1, <4>1, NodesAreNat, <1>1 DEF NULL
      <4>2. CASE i > 1
        <5>1. prev = s[i - 1] /\ i - 1 \in 1..k
          BY <1>1, <1>6, <4>2
        <5> QED  BY <1>4, <3>1, <5>1
      <4> QED  BY <1>1, <4>1, <4>2
    <3>4. s[j + 1] \in Nodes(h) /\ h[s[j + 1]].next = IF j + 1 = k THEN NULL ELSE s[(j + 1) + 1]
      BY <1>3, <3>1
    <3> QED  BY <1>10, <3>1, <3>2, <3>3, <3>4 DEF Removed
  <2> QED  BY <1>1, <2>1, <2>2, <2>3
<1>17. \A j \in 2..k - 1 : g[t[j]].prev = t[j - 1]
  <2> SUFFICES ASSUME NEW j \in 2..k - 1 PROVE g[t[j]].prev = t[j - 1]
    OBVIOUS
  <2>1. CASE j < i
    <3>1. t[j] = s[j] /\ t[j - 1] = s[j - 1] /\ j \in 1..k /\ j > 1 /\ j # i + 1
      <4>1. /\ j \in 1..k /\ j > 1 /\ j # i + 1
            /\ j \in 1..k - 1 /\ j - 1 \in 1..k - 1 /\ j - 1 < i
        BY <1>1, <2>1
      <4> QED  BY <1>2, <2>1, <4>1
    <3>2. s[j] # next
      BY <1>1, <1>3, <1>4, <1>5, <3>1
    <3>3. s[j] \in Nodes(h) /\ h[s[j]].prev = s[j - 1]
      BY <1>3, <3>1
    <3> QED  BY <1>10, <3>1, <3>2, <3>3 DEF Removed
  <2>2. CASE j = i
    <3>1. t[j] = s[i + 1] /\ t[j - 1] = s[i - 1] /\ i > 1 /\ i # k /\ i + 1 \in 1..k
      BY <1>1, <1>2, <2>2
    <3>2. next = s[i + 1] /\ prev = s[i - 1] /\ s[i + 1] \in Nodes(h)
      BY <1>3, <1>5, <1>6, <3>1
    <3> QED  BY <1>10, <3>1, <3>2 DEF Removed
  <2>3. CASE j > i
    <3>1. /\ t[j] = s[j + 1] /\ t[j - 1] = s[(j + 1) - 1] /\ j + 1 \in 1..k /\ j + 1 > 1
          /\ j + 1 # i + 1
      <4>1. j \in 1..k - 1 /\ j - 1 \in 1..k - 1 /\ ~(j < i) /\ ~(j - 1 < i)
            /\ (j - 1) + 1 = (j + 1) - 1
        BY <1>1, <2>3
      <4>2. t[j] = s[j + 1] /\ t[j - 1] = s[(j - 1) + 1]
        BY <1>2, <4>1
      <4> QED  BY <1>1, <2>3, <4>1, <4>2
    <3>2. s[j + 1] # next
      BY <1>1, <1>3, <1>4, <1>5, <3>1
    <3>3. s[j + 1] \in Nodes(h) /\ h[s[j + 1]].prev = s[(j + 1) - 1]
      BY <1>3, <3>1
    <3> QED  BY <1>10, <3>1, <3>2, <3>3 DEF Removed
  <2> QED  BY <1>1, <2>1, <2>2, <2>3
<1>18. k - 1 > 0 => g[t[1]].prev \in {-p, NULL}
  <2> SUFFICES ASSUME k - 1 > 0 PROVE g[t[1]].prev \in {-p, NULL}
    OBVIOUS
  <2>1. CASE i = 1
    <3>1. t[1] = s[i + 1] /\ i # k /\ i + 1 \in 1..k
      BY <1>1, <1>2, <2>1
    <3>2. next = s[i + 1] /\ s[i + 1] \in Nodes(h)
      BY <1>3, <1>5, <3>1
    <3> QED  BY <1>6, <1>10, <2>1, <3>1, <3>2 DEF Removed
  <2>2. CASE i > 1
    <3>1. t[1] = s[1] /\ 1 \in 1..k /\ 1 # i + 1
      BY <1>1, <1>2, <2>2
    <3>2. s[1] # next
      BY <1>1, <1>3, <1>4, <1>5, <3>1
    <3>3. s[1] \in Nodes(h) /\ h[s[1]].prev \in {-p, NULL}
      BY <1>3, <3>1
    <3> QED  BY <1>10, <3>1, <3>2, <3>3 DEF Removed
  <2> QED  BY <1>1, <2>1, <2>2
<1>19. IsList(g, p, t)
  BY <1>2, <1>11, <1>12, <1>13, <1>14, <1>15, <1>16, <1>17, <1>18 DEF IsList
<1> QED  BY <1>19 DEF g, t

(* The lists kids of a heap, none of which shares a node with another one. *)
Forest(h, kids) ==
  /\ \A p \in DOMAIN kids : IsList(h, p, kids[p])
  /\ \A p, q \in DOMAIN kids :
       \A i \in 1..Len(kids[p]), j \in 1..Len(kids[q]) : kids[p][i] = kids[q][j] => p = q

InNoList(kids, n) == \A p \in DOMAIN kids : \A i \in 1..Len(kids[p]) : kids[p][i] # n

(* A list whose nodes keep their links and that keeps its own fields is    *)
(* the same.                                                               *)
LEMMA OtherList ==
  ASSUME NEW h, NEW g, NEW q, NEW t, IsList(h, q, t), Nodes(h) \subseteq Nodes(g),
         \A i \in 1..Len(t) : g[t[i]].next = h[t[i]].next /\ g[t[i]].prev = h[t[i]].prev,
         g[q].begin = h[q].begin, g[q].end = h[q].end, g[q].count = h[q].count
  PROVE  IsList(g, q, t)
<1>1. q \in Nodes(g) /\ t \in Seq(Nodes(g)) /\ Len(t) \in Nat
  BY SeqMonotonic, LenProperties DEF IsList
<1>2. Len(t) > 0 => 1 \in 1..Len(t)
  BY <1>1
<1>3. \A i \in 2..Len(t) : i \in 1..Len(t)
  BY <1>1
<1> QED  BY <1>1, <1>2, <1>3 DEF IsList

(* Between h and g nothing changes but the links of n and of the nodes of  *)
(* p's list, and that list's own fields.                                   *)
OnlyIn(h, g, kids, p, n) ==
  /\ Nodes(h) \subseteq Nodes(g)
  /\ \A a \in Nodes(h) :
       a # n /\ (\A i \in 1..Len(kids[p]) : a # kids[p][i])
         => g[a].next = h[a].next /\ g[a].prev = h[a].prev
  /\ \A a \in Nodes(h) \ {p} :
       g[a].begin = h[a].begin /\ g[a].end = h[a].end /\ g[a].count = h[a].count

(* Only n is in t and may not be in s.                                     *)
AtMostNew(t, s, n) == \A i \in 1..Len(t) : t[i] = n \/ \E j \in 1..Len(s) : t[i] = s[j]

InNoOther(kids, p, n) ==
  \A q \in DOMAIN kids \ {p} : \A i \in 1..Len(kids[q]) : kids[q][i] # n

(* What is done to p's list leaves the others whole.                       *)
LEMMA ForestStep ==
  ASSUME NEW h, NEW g, NEW kids, Forest(h, kids), NEW p \in DOMAIN kids, NEW s,
         IsList(g, p, s), NEW n,
         AtMostNew(s, kids[p], n), InNoOther(kids, p, n), OnlyIn(h, g, kids, p, n)
  PROVE  Forest(g, [kids EXCEPT ![p] = s])
<1> DEFINE new == [kids EXCEPT ![p] = s]
<1>1. /\ DOMAIN new = DOMAIN kids /\ new[p] = s
      /\ \A q \in DOMAIN kids \ {p} : new[q] = kids[q]
  OBVIOUS
<1> HIDE DEF new
<1>2. ASSUME NEW q \in DOMAIN kids \ {p} PROVE IsList(g, q, kids[q])
  <2>1. IsList(h, q, kids[q])
    BY DEF Forest
  <2>2. q \in Nodes(h) /\ \A i \in 1..Len(kids[q]) : kids[q][i] \in Nodes(h)
    BY <2>1, Links DEF IsList
  <2>3. \A i \in 1..Len(kids[q]) :
          kids[q][i] # n /\ \A j \in 1..Len(kids[p]) : kids[q][i] # kids[p][j]
    BY DEF Forest, InNoOther
  <2> QED  BY <2>1, <2>2, <2>3, OtherList DEF OnlyIn
<1>3. \A q \in DOMAIN new : IsList(g, q, new[q])
  BY <1>1, <1>2
<1>4. ASSUME NEW q \in DOMAIN kids \ {p}, NEW i \in 1..Len(s), NEW j \in 1..Len(kids[q])
      PROVE  s[i] # kids[q][j]
  BY DEF Forest, AtMostNew, InNoOther
<1>5. ASSUME NEW q \in DOMAIN new, NEW r \in DOMAIN new,
             NEW i \in 1..Len(new[q]), NEW j \in 1..Len(new[r]), new[q][i] = new[r][j]
      PROVE  q = r
  <2>1. CASE q = p /\ r # p  BY <1>1, <1>4, <1>5, <2>1
  <2>2. CASE q # p /\ r = p  BY <1>1, <1>4, <1>5, <2>2
  <2>3. CASE q # p /\ r # p
    BY <1>1, <1>5, <2>3 DEF Forest
  <2> QED  BY <2>1, <2>2, <2>3
<1> QED  BY <1>3, <1>5 DEF Forest, new

(* A node that is in no list is the last of p's after node_list_add, and   *)
(* every other list is what it was (node_list.c).                          *)
THEOREM AddKeepsForest ==
  ASSUME NEW h, NEW kids, Forest(h, kids), NEW p \in DOMAIN kids,
         NEW n \in Nodes(h), InNoList(kids, n)
  PROVE  Forest(node_list_add(h, p, n), [kids EXCEPT ![p] = Append(kids[p], n)])
<1> DEFINE s == kids[p]
           t == Append(s, n)
           g == node_list_add(h, p, n)
           last == h[p].end
           k == Len(s)
<1>1. IsList(h, p, s)
  BY DEF Forest
<1>2. p \in Nodes(h) /\ s \in Seq(Nodes(h)) /\ k \in Nat
  BY <1>1, LenProperties DEF IsList
<1>3. \A i \in 1..k : s[i] # n
  BY DEF InNoList
<1>4. IsList(g, p, t)
  BY <1>1, <1>3, AddAppends
<1>5. last = IF k = 0 THEN -p ELSE s[k]
  BY <1>1 DEF IsList
<1>6. k # 0 => k \in 1..k /\ s[k] \in Nodes(h)
  BY <1>2, ElementOfSeq
<1>7. last \in Nodes(h) \/ last = -p
  BY <1>5, <1>6
<1>8. /\ Nodes(h) \subseteq Nodes(g)
      /\ \A a \in Nodes(h) :
           /\ g[a].next = IF a = last THEN n ELSE IF a = n THEN NULL ELSE h[a].next
           /\ g[a].prev = IF a = n THEN last ELSE h[a].prev
           /\ g[a].end = IF a = p THEN n ELSE h[a].end
           /\ g[a].count = IF a = p THEN h[a].count + 1 ELSE h[a].count
           /\ g[a].begin = IF a = p /\ last = -p THEN n ELSE h[a].begin
  BY <1>2, <1>7, AddFields
<1>9. /\ Len(t) = k + 1
      /\ \A i \in 1..k + 1 : t[i] = IF i = k + 1 THEN n ELSE s[i]
  BY <1>2, AppendProperties
<1>10. AtMostNew(t, s, n)
  BY <1>2, <1>9 DEF AtMostNew
<1>11. \A a \in Nodes(h) : (\A i \in 1..k : a # s[i]) => a # last
  <2>1. \A a \in Nodes(h) : a # -p
    BY <1>2, NodesAreNat
  <2> QED  BY <1>5, <1>6, <2>1
<1> HIDE DEF g, t, last
<1>12. \A a \in Nodes(h) : a # n /\ (\A i \in 1..k : a # s[i])
         => g[a].next = h[a].next /\ g[a].prev = h[a].prev
  BY <1>8, <1>11
<1>13. \A a \in Nodes(h) \ {p} :
         g[a].begin = h[a].begin /\ g[a].end = h[a].end /\ g[a].count = h[a].count
  BY <1>8
<1>14. InNoOther(kids, p, n)
  BY DEF InNoList, InNoOther
<1>15. OnlyIn(h, g, kids, p, n)
  BY <1>8, <1>12, <1>13 DEF OnlyIn
<1>16. Forest(g, [kids EXCEPT ![p] = t])
  BY <1>4, <1>10, <1>14, <1>15, ForestStep
<1> QED  BY <1>16 DEF g, t

(* A node that is in no list is where node_list_insert was told to put it, *)
(* and every other list is what it was (node_list.c); at an index beyond   *)
(* the list the function is node_list_add.                                 *)
THEOREM InsertKeepsForest ==
  ASSUME NEW h, NEW kids, Forest(h, kids), NEW p \in DOMAIN kids,
         NEW n \in Nodes(h), InNoList(kids, n), NEW index \in 0..Len(kids[p]) - 1
  PROVE  Forest(InsertAfter(h, p, IF index = 0 THEN NULL ELSE kids[p][index], n),
                [kids EXCEPT ![p] = InsertAt(kids[p], index + 1, n)])
<1> DEFINE s == kids[p]
           prev == IF index = 0 THEN NULL ELSE s[index]
           next == s[index + 1]
           t == InsertAt(s, index + 1, n)
           g == InsertAfter(h, p, prev, n)
           k == Len(s)
<1>1. IsList(h, p, s)
  BY DEF Forest
<1>2. p \in Nodes(h) /\ s \in Seq(Nodes(h)) /\ k \in Nat
  BY <1>1, LenProperties DEF IsList
<1>3. \A i \in 1..k : s[i] # n
  BY DEF InNoList
<1>4. index \in 0..k /\ index + 1 \in 1..k /\ (index # 0 => index \in 1..k)
  BY <1>2
<1>5. IsList(g, p, t)
  BY <1>1, <1>3, InsertInserts
<1>6. \A j \in 1..k : s[j] \in Nodes(h) /\ s[j] # NULL
  BY <1>1, Links
<1>7. next \in Nodes(h) /\ prev \in Nodes(h) \cup {NULL}
  BY <1>4, <1>6
<1>8. next = IF prev = NULL THEN h[p].begin ELSE h[prev].next
  <2>1. CASE index = 0
    BY <1>1, <1>2, <1>4, <2>1 DEF IsList
  <2>2. CASE index # 0
    <3>1. prev = s[index] /\ prev # NULL
      BY <1>4, <1>6, <2>2
    <3>2. h[s[index]].next = IF index = k THEN NULL ELSE s[index + 1]
      BY <1>1, <1>4, <2>2, Links
    <3>3. index # k
      BY <1>2, <1>4
    <3> QED  BY <3>1, <3>2, <3>3
  <2> QED  BY <2>1, <2>2
<1> HIDE DEF prev, next, g
<1>9. Inserted(h, g, p, prev, next, n)
  BY <1>2, <1>7, <1>8, InsertFields DEF g
<1>10. \A a \in Nodes(h) : a # NULL
  BY NodesAreNat DEF NULL
<1>11. /\ Len(t) = k + 1
       /\ \A j \in 1..k + 1 :
            t[j] = IF j <= index THEN s[j] ELSE IF j = index + 1 THEN n ELSE s[j - 1]
  BY <1>2, <1>4, InsertAtFacts
<1> HIDE DEF t
<1>12. AtMostNew(t, s, n)
  <2> SUFFICES ASSUME NEW i \in 1..k + 1
               PROVE  t[i] = n \/ \E j \in 1..k : t[i] = s[j]
    BY <1>11 DEF AtMostNew
  <2>1. CASE i <= index
    BY <1>2, <1>4, <1>11, <2>1
  <2>2. CASE i > index + 1
    <3>1. i - 1 \in 1..k /\ t[i] = s[i - 1]
      BY <1>2, <1>4, <1>11, <2>2
    <3> QED  BY <3>1
  <2> QED  BY <1>4, <1>11, <2>1, <2>2
<1>13. \A a \in Nodes(h) : (\A i \in 1..k : a # s[i]) => a # prev /\ a # next
  BY <1>4, <1>10 DEF prev, next
<1>14. \A a \in Nodes(h) : a # n /\ (\A i \in 1..k : a # s[i])
         => g[a].next = h[a].next /\ g[a].prev = h[a].prev
  BY <1>9, <1>13 DEF Inserted
<1>15. \A a \in Nodes(h) \ {p} :
         g[a].begin = h[a].begin /\ g[a].end = h[a].end /\ g[a].count = h[a].count
  BY <1>9 DEF Inserted
<1>16. InNoOther(kids, p, n)
  BY DEF InNoList, InNoOther
<1>17. OnlyIn(h, g, kids, p, n)
  BY <1>9, <1>14, <1>15 DEF Inserted, OnlyIn
<1>18. Forest(g, [kids EXCEPT ![p] = t])
  BY <1>5, <1>12, <1>16, <1>17, ForestStep
<1> QED  BY <1>18 DEF g, t, prev

(* node_list_remove takes the node out of p's list, after which it is in   *)
(* none, and every other list is what it was: unless the node is the only  *)
(* one and was inserted in front of others, that is, has NULL for its prev *)
(* (node_list.c).                                                          *)
THEOREM RemoveKeepsForest ==
  ASSUME NEW h, NEW kids, Forest(h, kids), NEW p \in DOMAIN kids,
         NEW i \in 1..Len(kids[p]), Len(kids[p]) > 1 \/ h[kids[p][i]].prev # NULL
  PROVE  LET left == [kids EXCEPT ![p] = RemoveAt(kids[p], i)]
         IN  Forest(node_list_remove(h, p, kids[p][i]), left) /\ InNoList(left, kids[p][i])
<1> DEFINE s == kids[p]
           n == s[i]
           prev == h[n].prev
           next == h[n].next
           t == RemoveAt(s, i)
           left == [kids EXCEPT ![p] = t]
           g == node_list_remove(h, p, n)
           k == Len(s)
<1>1. IsList(h, p, s)
  BY DEF Forest
<1>2. p \in Nodes(h) /\ s \in Seq(Nodes(h)) /\ k \in Nat /\ i \in 1..k
  BY <1>1, LenProperties DEF IsList
<1>3. IsList(g, p, t)
  BY <1>1, RemoveRemoves
<1>4. \A j \in 1..k :
        /\ s[j] \in Nodes(h) /\ s[j] # NULL
        /\ h[s[j]].next = IF j = k THEN NULL ELSE s[j + 1]
        /\ j > 1 => h[s[j]].prev = s[j - 1]
        /\ j = 1 => h[s[j]].prev \in {-p, NULL}
  BY <1>1, Links
<1>5. /\ Len(t) = k - 1
      /\ \A j \in 1..k - 1 : t[j] = IF j < i THEN s[j] ELSE s[j + 1]
  BY <1>2, RemoveAtFacts
<1>6. next = NULL \/ \E j \in 1..k : next = s[j]
  <2>1. CASE i = k  BY <1>4, <2>1
  <2>2. CASE i # k
    <3>1. i + 1 \in 1..k  BY <1>2, <2>2
    <3> QED  BY <1>4, <2>2, <3>1
  <2> QED  BY <2>1, <2>2
<1>7. prev \in {-p, NULL} \/ \E j \in 1..k : prev = s[j]
  <2>1. CASE i = 1  BY <1>4, <2>1
  <2>2. CASE i > 1
    <3>1. i - 1 \in 1..k  BY <1>2, <2>2
    <3> QED  BY <1>4, <2>2, <3>1
  <2> QED  BY <1>2, <2>1, <2>2
<1>8. n \in Nodes(h) /\ next \in Nodes(h) \cup {NULL} /\ prev \in Nodes(h) \cup {NULL, -p}
  BY <1>4, <1>6, <1>7
<1>9. Removed(h, g, p, prev, next)
  <2> HIDE DEF n
  <2>1. next = h[n].next /\ prev = h[n].prev /\ g = node_list_remove(h, p, n)
    OBVIOUS
  <2> HIDE DEF prev, next, g
  <2> QED  BY <1>2, <1>8, <2>1, RemoveFields
<1> HIDE DEF g, t, prev, next
<1>10. \A a \in Nodes(h) : a # NULL /\ a # -p
  BY <1>2, NodesAreNat DEF NULL
<1>11. ASSUME NEW j \in 1..Len(t)
       PROVE  \E l \in 1..k : l # i /\ t[j] = s[l]
  <2>1. CASE j < i
    BY <1>2, <1>5, <2>1
  <2>2. CASE j >= i
    <3>1. j + 1 \in 1..k /\ j + 1 # i /\ t[j] = s[j + 1]
      BY <1>2, <1>5, <2>2
    <3> QED  BY <3>1
  <2> QED  BY <1>2, <1>5, <2>1, <2>2
<1>12. \A a \in Nodes(h) : a # n /\ (\A j \in 1..k : a # s[j])
         => g[a].next = h[a].next /\ g[a].prev = h[a].prev
  <2>1. \A a \in Nodes(h) : (\A j \in 1..k : a # s[j]) => a # prev /\ a # next
    BY <1>6, <1>7, <1>10
  <2> QED  BY <1>9, <2>1 DEF Removed
<1>13. \A a \in Nodes(h) \ {p} :
         g[a].begin = h[a].begin /\ g[a].end = h[a].end /\ g[a].count = h[a].count
  BY <1>9 DEF Removed
<1>14. InNoOther(kids, p, n)
  BY <1>2 DEF Forest, InNoOther
<1>15. OnlyIn(h, g, kids, p, n)
  BY <1>9, <1>12, <1>13 DEF Removed, OnlyIn
<1>16. AtMostNew(t, s, n)
  BY <1>11 DEF AtMostNew
<1>17. Forest(g, left)
  <2> HIDE DEF n
  <2> QED  BY <1>3, <1>14, <1>15, <1>16, ForestStep
<1>18. InNoList(left, n)
  <2>1. \A j \in 1..Len(t) : t[j] # n
    BY <1>1, <1>2, <1>11 DEF IsList
  <2>2. /\ DOMAIN left = DOMAIN kids /\ left[p] = t
        /\ \A q \in DOMAIN kids \ {p} : left[q] = kids[q]
    OBVIOUS
  <2> HIDE DEF left
  <2> QED  BY <1>14, <2>1, <2>2 DEF InNoList, InNoOther
<1> QED  BY <1>17, <1>18 DEF g, t

(* In that case, the only node of a list has NULL for its prev, the list   *)
(* that node_list_remove leaves counts nothing and begins with NULL, but   *)
(* its end is the node that was removed (node_list.c).                     *)
THEOREM RemoveLeavesEnd ==
  ASSUME NEW h, NEW p, NEW s, IsList(h, p, s), Len(s) = 1, h[s[1]].prev = NULL,
         NEW g, g = node_list_remove(h, p, s[1])
  PROVE  g[p].count = 0 /\ g[p].begin = NULL /\ g[p].end = s[1] /\ ~IsList(g, p, <<>>)
<1> DEFINE n == s[1]
<1>1. 1 \in 1..Len(s) /\ p \in Nodes(h)
  BY DEF IsList
<1>2. n \in Nodes(h) /\ h[n].next = NULL
  <2>1. \A i \in 1..Len(s) :
          s[i] \in Nodes(h) /\ h[s[i]].next = IF i = Len(s) THEN NULL ELSE s[i + 1]
    BY Links
  <2> QED  BY <1>1, <2>1
<1>3. h[p].count = 1 /\ h[p].end = n
  BY DEF IsList
<1> HIDE DEF n
<1>4. h[n].prev = NULL /\ g = node_list_remove(h, p, n)
  BY DEF n
<1>5. Removed(h, g, p, NULL, NULL)
  BY <1>1, <1>2, <1>4, RemoveFields
<1>6. NULL \notin Nodes(h) /\ n # -p
  BY <1>1, <1>2, NodesAreNat DEF NULL
<1>7. g[p].count = 0 /\ g[p].begin = NULL /\ g[p].end = n
  BY <1>1, <1>3, <1>5, <1>6 DEF Removed
<1>8. ~IsList(g, p, <<>>)
  BY <1>6, <1>7 DEF IsList
<1> QED  BY <1>7, <1>8 DEF n

(* The node that node_create makes is in no list and has an empty list of  *)
(* its own, and every other list is what it was (node.c).                  *)
THEOREM CreateKeepsForest ==
  ASSUME NEW R, NEW h \in Seq(R), NEW kids, Forest(h, kids), NEW type, type # "freed",
         NEW val, NEW n, n = New(h), NEW g, g = node_create(h, type, val),
         NEW new, new = [q \in DOMAIN kids \cup {n} |-> IF q = n THEN <<>> ELSE kids[q]]
  PROVE  Forest(g, new) /\ InNoList(new, n)
<1> DEFINE node == [type |-> type, val |-> val, hashed |-> FALSE, table |-> <<>>,
                    parent |-> NULL, next |-> NULL, prev |-> NULL,
                    begin |-> NULL, end |-> -n, count |-> 0]
<1>1. /\ DOMAIN h = 1..Len(h) /\ Len(h) \in Nat /\ n = Len(h) + 1
      /\ g = Append(h, node)
  BY LenProperties DEF New, node_create
<1>2. /\ DOMAIN g = 1..n /\ g[n] = node
      /\ \A a \in DOMAIN h : g[a] = h[a]
  BY <1>1
<1>3. n \notin Nodes(h) /\ n \in Nodes(g) /\ Nodes(h) \subseteq Nodes(g)
  BY <1>1, <1>2 DEF Nodes, NodeFields
<1>4. \A a \in Nodes(h) : g[a] = h[a]
  BY <1>2 DEF Nodes
<1>5. /\ DOMAIN new = DOMAIN kids \cup {n} /\ new[n] = <<>> /\ Len(new[n]) = 0
      /\ \A q \in DOMAIN kids : q # n => new[q] = kids[q]
  OBVIOUS
<1>6. IsList(g, n, <<>>)
  BY <1>2, <1>3 DEF IsList
<1>7. ASSUME NEW q \in DOMAIN kids
      PROVE  /\ q \in Nodes(h) /\ IsList(g, q, kids[q])
             /\ \A i \in 1..Len(kids[q]) : kids[q][i] \in Nodes(h)
  <2>1. IsList(h, q, kids[q])
    BY DEF Forest
  <2>2. q \in Nodes(h) /\ \A i \in 1..Len(kids[q]) : kids[q][i] \in Nodes(h)
    BY <2>1, Links DEF IsList
  <2> QED  BY <1>3, <1>4, <2>1, <2>2, OtherList
<1> HIDE DEF node
<1>8. \A q \in DOMAIN kids : q # n /\ new[q] = kids[q]
  BY <1>3, <1>5, <1>7
<1>9. \A q \in DOMAIN new : IsList(g, q, new[q])
  BY <1>5, <1>6, <1>7, <1>8
<1>10. \A i \in 1..0 : FALSE
  OBVIOUS
<1>11. \A q \in DOMAIN new : \A i \in 1..Len(new[q]) :
         q \in DOMAIN kids /\ new[q] = kids[q] /\ new[q][i] \in Nodes(h)
  BY <1>5, <1>7, <1>8, <1>10
<1>12. ASSUME NEW p \in DOMAIN new, NEW q \in DOMAIN new,
              NEW i \in 1..Len(new[p]), NEW j \in 1..Len(new[q]), new[p][i] = new[q][j]
       PROVE  p = q
  <2>1. p \in DOMAIN kids /\ new[p] = kids[p] /\ q \in DOMAIN kids /\ new[q] = kids[q]
    BY <1>11
  <2>2. i \in 1..Len(kids[p]) /\ j \in 1..Len(kids[q]) /\ kids[p][i] = kids[q][j]
    BY <1>12, <2>1, Zenon
  <2> QED  BY <2>1, <2>2 DEF Forest
<1>13. Forest(g, new)
  BY <1>9, <1>12, Zenon DEF Forest
<1>14. InNoList(new, n)
  <2>1. ASSUME NEW q \in DOMAIN new, NEW i \in 1..Len(new[q]) PROVE new[q][i] # n
    <3>1. new[q][i] \in Nodes(h)  BY <1>11, Zenon
    <3> QED  BY <1>3, <3>1, Zenon
  <2> QED  BY <2>1, Zenon DEF InNoList
<1> QED  BY <1>13, <1>14
=============================================================================

------------------------ MODULE AudioTimestampPoller ------------------------
(***************************************************************************)
(* AudioTimestampPoller.java: when the platform's timestamps of an audio   *)
(* track are asked for, and when they are to be used.  A poller is a       *)
(* record; its methods are operators from it and the time to the record    *)
(* after the call.                                                         *)
(***************************************************************************)
EXTENDS Integers

CONSTANTS
  FAST_POLL_INTERVAL,    \* 5 ms
  SLOW_POLL_INTERVAL,    \* 10 s
  ERROR_POLL_INTERVAL,   \* 500 ms
  INITIALIZING_DURATION, \* 500 ms
  WRAP                   \* the frame counter of the track is below it, 2^32

NoTimestamp == [position |-> -1, time |-> -1]
POSITION_UNSET == -1

Interval(state) ==
    CASE state \in {"initializing", "timestamp"}  -> FAST_POLL_INTERVAL
      [] state \in {"advancing", "no timestamp"}  -> SLOW_POLL_INTERVAL
      [] state = "error"                          -> ERROR_POLL_INTERVAL

(* updateState: only the first state does more than set the interval. *)
UpdateState(p, state) == [p EXCEPT !.state = state]
PollerReset(p, now) ==
    [p EXCEPT !.state = "initializing", !.lastSample = 0,
              !.initialFrames = POSITION_UNSET, !.initialized = now]

NewPoller(now) ==
    PollerReset([state |-> "initializing", initialized |-> 0, lastSample |-> 0,
                 initialFrames |-> 0, wraps |-> 0, lastRaw |-> 0,
                 frames |-> 0, time |-> 0], now)

(* AudioTimestampV19.maybeUpdateTimestamp with what the track answers. *)
Updated(p, answer) ==
    LET wrapped == IF p.lastRaw > answer.position THEN 1 ELSE 0
    IN  [p EXCEPT !.wraps = @ + wrapped, !.lastRaw = answer.position,
                  !.frames = answer.position + (p.wraps + wrapped) * WRAP,
                  !.time = answer.time]

HasTimestamp(p) == p.state \in {"timestamp", "advancing"}
IsAdvancing(p)  == p.state = "advancing"

RejectTimestamp(p) == UpdateState(p, "error")

AcceptTimestamp(p, now) == IF p.state = "error" THEN PollerReset(p, now) ELSE p

(* maybePollTimestamp: the poller after it, and what it returns. *)
MaybePollTimestamp(p, now, answer) ==
    LET updated == answer # NoTimestamp
        sampled == [p EXCEPT !.lastSample = now]
        q       == IF updated THEN Updated(sampled, answer) ELSE sampled
        After(poller, returned) == [poller |-> poller, updated |-> returned]
    IN  CASE now - p.lastSample < Interval(p.state) -> After(p, FALSE)
          [] OTHER ->
             CASE p.state = "initializing" /\ updated ->
                    IF q.time >= p.initialized
                    THEN After([UpdateState(q, "timestamp") EXCEPT
                                    !.initialFrames = q.frames], TRUE)
                    ELSE After(q, FALSE)
               [] p.state = "initializing" /\ ~updated ->
                    After(IF now - p.initialized > INITIALIZING_DURATION
                          THEN UpdateState(q, "no timestamp") ELSE q, FALSE)
               [] p.state = "timestamp" /\ updated ->
                    After(IF q.frames > q.initialFrames
                          THEN UpdateState(q, "advancing") ELSE q, TRUE)
               [] p.state \in {"timestamp", "advancing"} /\ ~updated ->
                    After(PollerReset(q, now), FALSE)
               [] p.state = "no timestamp" /\ updated ->
                    After(PollerReset(q, now), TRUE)
               [] OTHER -> After(q, updated)
=============================================================================

------------------------------- MODULE Player -------------------------------
(***************************************************************************)
(* The Android receiver around the server: MainActivity's start and stop   *)
(* (user interface thread), RaopServer.java's callbacks (the threads of    *)
(* the sessions and of httpd), and the players a render thread works for:  *)
(* AVPlayer, AudioPlayer, VideoPlayer and MediaCodecVideoRenderer.         *)
(*                                                                         *)
(* The packets are counted, their timestamps left out: the decisions the   *)
(* renderer takes from the clock (show, drop, wait) are open here.  The    *)
(* codec is external: it has InputBuffers and OutputBuffers, hands them    *)
(* out, turns a queued input into an output, and may fail for good; how    *)
(* long a frame is, and whether it fits an input buffer, is open.          *)
(*                                                                         *)
(* No lock protects the fields the threads share; only the two lists are   *)
(* synchronized, call by call.                                             *)
(***************************************************************************)
EXTENDS Naturals

CONSTANTS
    InputBuffers,    \* input buffers of the codec
    OutputBuffers,   \* output buffers of the codec
    MaxList,         \* bound: packets waiting in a list
    MaxStarts,       \* bound: times the user starts the server
    MaxConnections   \* bound: clients that stream

ASSUME PlayerAssumption ==
    /\ InputBuffers \in Nat \ {0} /\ OutputBuffers \in Nat \ {0}
    /\ MaxList \in Nat \ {0} /\ MaxStarts \in Nat /\ MaxConnections \in Nat

VARIABLES
    ui,        \* the place of the user interface thread
    starts,    \* starts so far
    work,      \* the place of the render thread
    messages,  \* MSG_DO_SOME_WORK messages queued for it
    codec,     \* the MediaCodec: "none", "started", "error"
    inFree,    \* input buffers the codec can hand out
    queued,    \* inputs it has to decode
    outFree,   \* output buffers it can fill
    outReady,  \* outputs it can hand out
    format,    \* it has a format change to announce
    renderer,  \* mRender: "none", "started", "stopped"
    stale,     \* the render thread is inside a renderer since replaced
    input,     \* inputIndex >= 0
    output,    \* outputIndex >= 0
    track,     \* mAudioTrack is not null
    vlist,     \* packets in VideoPlayer.mSyncList
    alist,     \* packets in AudioPlayer.mSyncList
    native,    \* the native server runs
    streams,   \* the sessions that call back: "video", "audio"
    clients,   \* clients that have streamed so far
    overlap,   \* another thread has reset or stopped what the render thread
               \* is working with
    crashed    \* the exception that ended the process, "no" when none has

uiVars     == <<ui, starts>>
codecVars  == <<codec, inFree, queued, outFree, outReady, format>>
listVars   == <<vlist, alist>>
serverVars == <<native, streams, clients>>
vars == <<uiVars, work, messages, codecVars, renderer, stale, input, output,
          track, listVars, serverVars, overlap, crashed>>

Init ==
    /\ ui = "stopped" /\ starts = 0
    /\ work = "idle" /\ messages = 0
    /\ codec = "none" /\ inFree = 0 /\ queued = 0 /\ outFree = 0 /\ outReady = 0
    /\ format = FALSE
    /\ renderer = "none" /\ stale = FALSE /\ input = FALSE /\ output = FALSE
    /\ track = TRUE
    /\ vlist = 0 /\ alist = 0
    /\ native = FALSE /\ streams = {} /\ clients = 0
    /\ overlap = FALSE /\ crashed = "no"

Alive == crashed = "no"
Disturb == overlap' = (overlap \/ work # "idle")

-----------------------------------------------------------------------------
(* The user interface thread: startServer *)

UiGoto(from, to) == Alive /\ ui = from /\ ui' = to

(* RaopServer.startServer: the native server first. *)
StartNative ==
    /\ UiGoto("stopped", "start video") /\ starts < MaxStarts
    /\ starts' = starts + 1 /\ native' = TRUE
    /\ UNCHANGED <<work, messages, codecVars, renderer, stale, input, output,
                   track, listVars, streams, clients, overlap, crashed>>

(* VideoPlayer.start: a new codec and a new renderer.  The exception of a  *)
(* codec that cannot be had is caught, and the old renderer stays.         *)
StartVideo ==
    /\ UiGoto("start video", "start audio")
    /\ \/ /\ codec' = "started" /\ inFree' = InputBuffers /\ queued' = 0
          /\ outFree' = OutputBuffers /\ outReady' = 0 /\ format' = TRUE
          /\ renderer' = "started" /\ input' = FALSE /\ output' = FALSE
          /\ stale' = (work \notin {"idle", "audio", "audio remove", "audio write"})
          /\ Disturb
       \/ UNCHANGED <<codecVars, renderer, stale, input, output, overlap>>
    /\ UNCHANGED <<starts, work, messages, track, listVars, serverVars, crashed>>

(* AudioPlayer.start. *)
StartAudio ==
    /\ UiGoto("start audio", "start work")
    /\ track' = TRUE
    /\ UNCHANGED <<starts, work, messages, codecVars, renderer, stale, input,
                   output, listVars, serverVars, overlap, crashed>>

(* AVPlayer.start sends one more message; those of earlier starts are      *)
(* still going round.                                                      *)
StartWork ==
    /\ UiGoto("start work", "started")
    /\ messages' = messages + 1
    /\ UNCHANGED <<starts, work, codecVars, renderer, stale, input, output, track,
                   listVars, serverVars, overlap, crashed>>

-----------------------------------------------------------------------------
(* The user interface thread: stopServer *)

(* The native stop returns when the sessions' threads are gone. *)
StopNative ==
    /\ UiGoto("started", "stop video")
    /\ streams = {} /\ native' = FALSE
    /\ UNCHANGED <<starts, work, messages, codecVars, renderer, stale, input,
                   output, track, listVars, streams, clients, overlap, crashed>>

(* MediaCodecVideoRenderer.reset: the indices are forgotten, the buffers   *)
(* they stand for are not given back to the codec.                         *)
RendererReset == input' = FALSE /\ output' = FALSE

(* A broken form: rendering stays set. *)
StopVideoKeepsRendering ==
    /\ UiGoto("stop video", "stop codec")
    /\ vlist' = 0 /\ RendererReset
    /\ renderer' = renderer
    /\ Disturb
    /\ UNCHANGED <<starts, work, messages, codecVars, stale, track, alist,
                   serverVars, crashed>>

(* VideoPlayer.stop up to the renderer's stop.  removeCallbacks(null)      *)
(* before it removes no message.                                           *)
StopVideo ==
    /\ UiGoto("stop video", "stop codec")
    /\ vlist' = 0 /\ RendererReset
    /\ renderer' = IF renderer = "none" THEN "none" ELSE "stopped"
    /\ Disturb
    /\ UNCHANGED <<starts, work, messages, codecVars, stale, track, alist,
                   serverVars, crashed>>

(* The rest of VideoPlayer.stop. *)
StopCodec ==
    /\ UiGoto("stop codec", "stop audio")
    /\ codec' = "none" /\ inFree' = 0 /\ queued' = 0 /\ outFree' = 0
    /\ outReady' = 0 /\ format' = FALSE
    /\ Disturb
    /\ UNCHANGED <<starts, work, messages, renderer, stale, input, output, track,
                   listVars, serverVars, crashed>>

(* AudioPlayer.stop: the list, then the track. *)
StopAudio ==
    /\ UiGoto("stop audio", "stop track")
    /\ alist' = 0 /\ Disturb
    /\ UNCHANGED <<starts, work, messages, codecVars, renderer, stale, input,
                   output, track, vlist, serverVars, crashed>>

StopTrack ==
    /\ UiGoto("stop track", "stopped")
    /\ track' = FALSE /\ Disturb
    /\ UNCHANGED <<starts, work, messages, codecVars, renderer, stale, input,
                   output, listVars, serverVars, crashed>>

-----------------------------------------------------------------------------
(* Callbacks from the threads of the sessions *)

(* A client sets up its streams. *)
Connect ==
    /\ Alive /\ native /\ streams = {} /\ clients < MaxConnections
    /\ clients' = clients + 1 /\ streams' = {"video", "audio"}
    /\ UNCHANGED <<uiVars, work, messages, codecVars, renderer, stale, input,
                   output, track, listVars, native, overlap, crashed>>

onRecvVideoData ==
    /\ Alive /\ "video" \in streams /\ vlist < MaxList
    /\ vlist' = vlist + 1
    /\ UNCHANGED <<uiVars, work, messages, codecVars, renderer, stale, input,
                   output, track, alist, serverVars, overlap, crashed>>

onRecvAudioData ==
    /\ Alive /\ "audio" \in streams /\ alist < MaxList
    /\ alist' = alist + 1
    /\ UNCHANGED <<uiVars, work, messages, codecVars, renderer, stale, input,
                   output, track, vlist, serverVars, overlap, crashed>>

(* The mirror session is destroyed: both players are reset in this thread. *)
onRecvVideoDestroy ==
    /\ Alive /\ "video" \in streams
    /\ streams' = streams \ {"video"}
    /\ vlist' = 0 /\ alist' = 0
    /\ RendererReset /\ Disturb
    /\ UNCHANGED <<uiVars, work, messages, codecVars, renderer, stale, track,
                   native, clients, crashed>>

(* The audio session is stopped: a TEARDOWN stops it after the mirror      *)
(* session or alone, conn_destroy before the mirror session.               *)
AudioGone ==
    /\ Alive /\ "audio" \in streams
    /\ streams' = streams \ {"audio"}
    /\ UNCHANGED <<uiVars, work, messages, codecVars, renderer, stale, input,
                   output, track, listVars, native, clients, overlap, crashed>>

-----------------------------------------------------------------------------
(* The render thread: AVPlayer.doSomeWork *)

Work(from, to)   == Alive /\ work = from /\ work' = to
Rendering        == renderer = "started" /\ ~stale
Usable           == codec = "started" /\ ~stale
Crash(from, why) == Alive /\ work = from /\ crashed' = why /\ UNCHANGED work

\* A call of a codec that has failed throws as one of a released codec does.
CodecThrows(from) ==
    ~Usable /\ Crash(from, IF codec = "error" /\ ~stale THEN "codec error" ELSE "codec")

(* A message is taken; VideoPlayer.doSomeWork calls mRender.render. *)
TakeMessage ==
    /\ messages > 0 /\ messages' = messages - 1
    /\ overlap' = FALSE /\ stale' = FALSE
    /\ \/ renderer # "none" /\ Work("idle", "drain") /\ UNCHANGED crashed
       \/ renderer = "none" /\ Crash("idle", "no renderer")
    /\ UNCHANGED <<uiVars, codecVars, renderer, input, output, track, listVars,
                   serverVars>>

Unmoved == UNCHANGED <<uiVars, messages, renderer, stale, track, alist,
                       serverVars, overlap>>

(* drainOutputBuffer up to the output buffer in hand; without one, or when *)
(* the renderer is stopped, feeding is next.                               *)
DrainStops ==
    /\ ~Rendering \/ (~output /\ Usable /\ outReady = 0 /\ ~format)
    /\ Work("drain", "feed")
    /\ Unmoved /\ UNCHANGED <<codecVars, input, output, vlist, crashed>>

DrainHeld ==
    /\ Rendering /\ output
    /\ Work("drain", "show")
    /\ Unmoved /\ UNCHANGED <<codecVars, input, output, vlist, crashed>>

FormatChanged ==
    /\ Rendering /\ ~output /\ Usable /\ format
    /\ Work("drain", "drain") /\ format' = FALSE
    /\ Unmoved
    /\ UNCHANGED <<codec, inFree, queued, outFree, outReady, input, output, vlist,
                   crashed>>

DequeueOutput ==
    /\ Rendering /\ ~output
    /\ \/ /\ Usable /\ outReady > 0 /\ ~format
          /\ Work("drain", "show")
          /\ outReady' = outReady - 1 /\ output' = TRUE /\ UNCHANGED crashed
       \/ CodecThrows("drain") /\ UNCHANGED <<outReady, output>>
    /\ Unmoved /\ UNCHANGED <<codec, inFree, queued, outFree, format, input, vlist>>

(* processOutputBuffer: the buffer is shown or dropped, which both give it *)
(* back, or kept when it is early.  It is called with the index, which a   *)
(* reset may have made -1 before the call, or too late to matter.          *)
ReleaseOutput ==
    /\ \/ /\ Usable
          /\ Work("show", "drain")
          /\ outFree' = outFree + 1 /\ output' = FALSE /\ UNCHANGED crashed
       \/ /\ ~output /\ Crash("show", "index") /\ UNCHANGED <<outFree, output>>
       \/ CodecThrows("show") /\ UNCHANGED <<outFree, output>>
    /\ Unmoved
    /\ UNCHANGED <<codec, inFree, queued, outReady, format, input, vlist>>

KeepOutput ==
    /\ Work("show", "feed")
    /\ Unmoved /\ UNCHANGED <<codecVars, input, output, vlist, crashed>>

(* feedInputBuffer: an input buffer is taken before it is known whether    *)
(* there is a packet to put into it, and held for the next round.          *)
FeedStops ==
    /\ ~Rendering \/ (~input /\ Usable /\ inFree = 0)
    /\ Work("feed", "audio")
    /\ Unmoved /\ UNCHANGED <<codecVars, input, output, vlist, crashed>>

DequeueInput ==
    /\ Rendering
    /\ \/ /\ input /\ Work("feed", "packet") /\ UNCHANGED <<inFree, input, crashed>>
       \/ /\ ~input /\ Usable /\ inFree > 0
          /\ Work("feed", "packet")
          /\ inFree' = inFree - 1 /\ input' = TRUE /\ UNCHANGED crashed
       \/ ~input /\ CodecThrows("feed") /\ UNCHANGED <<inFree, input>>
    /\ Unmoved
    /\ UNCHANGED <<codec, queued, outFree, outReady, format, output, vlist>>

(* VideoPlayer.getPacket: isEmpty, then remove. *)
NoPacket ==
    /\ vlist = 0 /\ Work("packet", "audio")
    /\ Unmoved /\ UNCHANGED <<codecVars, input, output, vlist, crashed>>

HasPacket ==
    /\ vlist > 0 /\ Work("packet", "remove")
    /\ Unmoved /\ UNCHANGED <<codecVars, input, output, vlist, crashed>>

RemovePacket ==
    /\ \/ /\ vlist > 0 /\ Work("remove", "queue")
          /\ vlist' = vlist - 1 /\ UNCHANGED crashed
       \/ /\ vlist = 0 /\ Crash("remove", "list") /\ UNCHANGED vlist
    /\ Unmoved /\ UNCHANGED <<codecVars, input, output>>

(* The frame is put into the input buffer, which throws when the frame is  *)
(* the longer, and the buffer is queued.                                   *)
FrameTooLong == input /\ Usable /\ Crash("queue", "frame")

(* A broken form: the index of the input buffer is kept. *)
QueueKeepsIndex ==
    /\ \/ /\ input /\ Usable /\ Work("queue", "feed")
          /\ queued' = queued + 1 /\ UNCHANGED <<input, crashed>>
       \/ FrameTooLong /\ UNCHANGED <<queued, input>>
       \/ ~input /\ Crash("queue", "index") /\ UNCHANGED <<queued, input>>
       \/ input /\ CodecThrows("queue") /\ UNCHANGED <<queued, input>>
    /\ Unmoved
    /\ UNCHANGED <<codec, inFree, outFree, outReady, format, output, vlist>>
QueueInput ==
    /\ \/ /\ input /\ Usable /\ Work("queue", "feed")
          /\ queued' = queued + 1 /\ input' = FALSE /\ UNCHANGED crashed
       \/ FrameTooLong /\ UNCHANGED <<queued, input>>
       \/ ~input /\ Crash("queue", "index") /\ UNCHANGED <<queued, input>>
       \/ input /\ CodecThrows("queue") /\ UNCHANGED <<queued, input>>
    /\ Unmoved
    /\ UNCHANGED <<codec, inFree, outFree, outReady, format, output, vlist>>

(* A broken form: no round is ordered after a stop. *)
AgainUnlessReset == messages' = IF overlap THEN messages ELSE messages + 1

(* AudioPlayer.doSomeWork: isEmpty, then remove, then write; and the next  *)
(* round is ordered, whatever became of the player.                        *)
Again == messages' = messages + 1

NoAudio ==
    /\ alist = 0 /\ Work("audio", "idle") /\ Again
    /\ UNCHANGED <<uiVars, codecVars, renderer, stale, input, output, track,
                   listVars, serverVars, overlap, crashed>>

HasAudio ==
    /\ alist > 0 /\ Work("audio", "audio remove")
    /\ Unmoved /\ UNCHANGED <<codecVars, input, output, vlist, crashed>>

RemoveAudio ==
    /\ \/ /\ alist > 0 /\ Work("audio remove", "audio write")
          /\ alist' = alist - 1 /\ UNCHANGED crashed
       \/ /\ alist = 0 /\ Crash("audio remove", "list") /\ UNCHANGED alist
    /\ UNCHANGED <<uiVars, messages, codecVars, renderer, stale, input, output,
                   track, vlist, serverVars, overlap>>

WriteAudio ==
    /\ \/ track /\ Work("audio write", "idle") /\ Again /\ UNCHANGED crashed
       \/ ~track /\ Crash("audio write", "track") /\ UNCHANGED messages
    /\ UNCHANGED <<uiVars, codecVars, renderer, stale, input, output, track,
                   listVars, serverVars, overlap>>

-----------------------------------------------------------------------------
(* The codec, external: an input becomes an output, its buffer is free. *)
Decode ==
    /\ Alive /\ codec = "started" /\ queued > 0 /\ outFree > 0
    /\ queued' = queued - 1 /\ inFree' = inFree + 1
    /\ outFree' = outFree - 1 /\ outReady' = outReady + 1
    /\ UNCHANGED <<uiVars, work, messages, codec, format, renderer, stale, input,
                   output, track, listVars, serverVars, overlap, crashed>>

(* It fails for good: a stream it cannot decode, a lost resource. *)
CodecFails ==
    /\ Alive /\ codec = "started" /\ codec' = "error"
    /\ UNCHANGED <<uiVars, work, messages, inFree, queued, outFree, outReady,
                   format, renderer, stale, input, output, track, listVars,
                   serverVars, overlap, crashed>>

UserInterface ==
    \/ StartNative \/ StartVideo \/ StartAudio \/ StartWork
    \/ StopNative \/ StopVideo \/ StopCodec \/ StopAudio \/ StopTrack
Callbacks ==
    \/ Connect \/ onRecvVideoData \/ onRecvAudioData \/ onRecvVideoDestroy
    \/ AudioGone
Render ==
    \/ TakeMessage \/ DrainStops \/ DrainHeld \/ FormatChanged \/ DequeueOutput
    \/ ReleaseOutput \/ KeepOutput \/ FeedStops \/ DequeueInput \/ NoPacket
    \/ HasPacket \/ RemovePacket \/ QueueInput
    \/ NoAudio \/ HasAudio \/ RemoveAudio \/ WriteAudio

Next == UserInterface \/ Callbacks \/ Render \/ Decode \/ CodecFails

(* The looper delivers its messages, and the threads of the platform that  *)
(* have begun to start or stop the players go on.                          *)
Fairness ==
    /\ WF_vars(Render)
    /\ WF_vars(StartVideo \/ StartAudio \/ StartWork)
    /\ WF_vars(StopVideo \/ StopCodec \/ StopAudio \/ StopTrack)

Spec == Init /\ [][Next]_vars /\ Fairness

-----------------------------------------------------------------------------
(* Correctness *)

TypeOK ==
    /\ ui \in {"stopped", "start video", "start audio", "start work", "started",
               "stop video", "stop codec", "stop audio", "stop track"}
    /\ starts \in 0..MaxStarts /\ messages \in 0..MaxStarts
    /\ work \in {"idle", "drain", "show", "feed", "packet", "remove", "queue",
                 "audio", "audio remove", "audio write"}
    /\ codec \in {"none", "started", "error"}
    /\ inFree \in 0..InputBuffers /\ queued \in 0..InputBuffers
    /\ outFree \in 0..OutputBuffers /\ outReady \in 0..OutputBuffers
    /\ renderer \in {"none", "started", "stopped"}
    /\ format \in BOOLEAN /\ stale \in BOOLEAN /\ input \in BOOLEAN
    /\ output \in BOOLEAN /\ track \in BOOLEAN /\ native \in BOOLEAN
    /\ overlap \in BOOLEAN
    /\ vlist \in 0..MaxList /\ alist \in 0..MaxList
    /\ streams \subseteq {"video", "audio"}
    /\ clients \in 0..MaxConnections
    /\ crashed \in {"no", "no renderer", "frame", "codec error",
                   "codec", "index", "list", "track"}

(* By itself the render thread ends with an exception in three ways: the   *)
(* first start found no codec, a frame was longer than the input buffer,   *)
(* or the codec has failed.  For every other, of a released codec, a       *)
(* buffer's index, an empty list or a track that is gone, it takes another *)
(* thread: the interface starts or stops the players, or a client leaves,  *)
(* in the middle of the round.                                             *)
CrashNeedsOverlap ==
    crashed \in {"codec", "index", "list", "track"} =>
        overlap \/ ui \notin {"stopped", "started"}

(* No buffer of the codec is in two places: what it can hand out, what it  *)
(* has to decode and what the renderer holds never exceed what it has.     *)
BuffersInOnePlace ==
    /\ inFree + queued + (IF input THEN 1 ELSE 0) <= InputBuffers
    /\ outFree + outReady + (IF output THEN 1 ELSE 0) <= OutputBuffers

(* While the player is started, the render thread comes to take a packet   *)
(* of audio that waits, unless a reset clears the list: the work orders    *)
(* itself again, and no loop of the renderer goes on for ever.             *)
AudioIsTaken ==
    alist > 0 /\ ui = "started" ~>
        work = "audio remove" \/ alist = 0 \/ ~Alive \/ ui # "started"

(* RaopServer.java:99-101: a destroyed video is the end of one connection, *)
(* others can follow.  For that the codec of a started server must still   *)
(* have an input buffer that is free, in use or in the renderer's hands.   *)
CanContinueToConnect ==
    ui = "started" /\ codec = "started" => inFree + queued + (IF input THEN 1 ELSE 0) > 0
=============================================================================

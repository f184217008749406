---------------------------- MODULE PlayerProofs ----------------------------
(***************************************************************************)
(* The player, for any codec, any list bound and any number of starts and  *)
(* clients.  StateInv is what holds between the threads, RoundInv what the *)
(* render thread may rely on in the middle of a round unless overlap says  *)
(* that another thread has come in between, RoundsInv counts the rounds.   *)
(***************************************************************************)
EXTENDS Player, TLAPS

One(b) == IF b THEN 1 ELSE 0

(* What the places of the interface's thread and the objects have to do    *)
(* with each other.                                                        *)
StateInv ==
  /\ renderer = "started" => codec # "none"
  /\ stale => overlap
  /\ ui = "stop codec" => renderer # "started"
  /\ ~native => streams = {}
  /\ ui \in {"stopped", "stop video", "stop codec", "stop audio", "stop track"} => ~native
  /\ ui \in {"stop track", "stopped"} => alist = 0
  /\ ui \in {"start work", "started"} => track

(* What the render thread has in hand in an undisturbed round. *)
RoundInv ==
  ~overlap =>
    /\ work = "show" => output /\ codec # "none"
    /\ work \in {"packet", "remove", "queue"} => input /\ codec # "none"
    /\ work = "remove" => vlist # 0
    /\ work = "audio remove" => alist # 0
    /\ ui = "stopped" => work \notin {"audio remove", "audio write"}

(* Every start adds one message, and every round that takes one leaves at  *)
(* most one.                                                               *)
Starting == {"start video", "start audio", "start work"}
RoundsInv ==
  messages + One(work # "idle") + One(ui \in Starting) <= starts

(* The buffer of an output whose round was reset after it was fetched is   *)
(* still the render thread's to give back.                                 *)
Showing == output \/ (work = "show" /\ Usable)
HandsInv ==
  /\ inFree + queued + One(input) <= InputBuffers
  /\ outFree + outReady + One(Showing) <= OutputBuffers

-----------------------------------------------------------------------------
(* Types *)

FlagsOK ==
  /\ format \in BOOLEAN /\ stale \in BOOLEAN /\ input \in BOOLEAN
  /\ output \in BOOLEAN /\ track \in BOOLEAN /\ native \in BOOLEAN
  /\ overlap \in BOOLEAN

UiPlaces == {"stopped", "start video", "start audio", "start work", "started",
             "stop video", "stop codec", "stop audio", "stop track"}
WorkPlaces == {"idle", "drain", "show", "feed", "packet", "remove", "queue",
               "audio", "audio remove", "audio write"}
CrashKinds == {"no", "no renderer", "frame", "codec error",
               "codec", "index", "list", "track"}

PlacesOK ==
  /\ ui \in UiPlaces /\ work \in WorkPlaces /\ crashed \in CrashKinds
  /\ codec \in {"none", "started", "error"}
  /\ renderer \in {"none", "started", "stopped"}
  /\ streams \subseteq {"video", "audio"}

CountsOK ==
  /\ starts \in 0..MaxStarts /\ messages \in Nat
  /\ vlist \in 0..MaxList /\ alist \in 0..MaxList
  /\ clients \in 0..MaxConnections

BuffersOK ==
  /\ inFree \in Nat /\ queued \in Nat /\ outFree \in Nat /\ outReady \in Nat

IInv ==
  /\ FlagsOK /\ PlacesOK /\ CountsOK /\ BuffersOK
  /\ StateInv /\ RoundInv /\ RoundsInv /\ HandsInv /\ CrashNeedsOverlap

LEMMA IInvTypes == IInv => TypeOK
<1> SUFFICES ASSUME IInv PROVE TypeOK  OBVIOUS
<1>1. messages \in 0..MaxStarts
  BY PlayerAssumption DEF IInv, CountsOK, RoundsInv, One
<1>2. /\ inFree \in 0..InputBuffers /\ queued \in 0..InputBuffers
      /\ outFree \in 0..OutputBuffers /\ outReady \in 0..OutputBuffers
  BY PlayerAssumption DEF IInv, BuffersOK, HandsInv, One
<1>3. FlagsOK /\ PlacesOK /\ CountsOK  BY DEF IInv
<1> QED  BY <1>1, <1>2, <1>3, Zenon
         DEF TypeOK, FlagsOK, PlacesOK, CountsOK, UiPlaces, WorkPlaces, CrashKinds

-----------------------------------------------------------------------------
(* One step per action *)

LEMMA FlagsStep ==
  ASSUME FlagsOK, Next
  PROVE  FlagsOK'
<1> USE DEF FlagsOK, codecVars, listVars, serverVars, uiVars, Disturb, RendererReset,
            Unmoved
<1>1. StartNative => FlagsOK'  BY Zenon DEF StartNative
<1>2. StartVideo => FlagsOK'  BY Zenon DEF StartVideo
<1>3. StartAudio => FlagsOK'  BY Zenon DEF StartAudio
<1>4. StartWork => FlagsOK'  BY Zenon DEF StartWork
<1>5. StopNative => FlagsOK'  BY Zenon DEF StopNative
<1>6. StopVideo => FlagsOK'  BY Zenon DEF StopVideo
<1>7. StopCodec => FlagsOK'  BY Zenon DEF StopCodec
<1>8. StopAudio => FlagsOK'  BY Zenon DEF StopAudio
<1>9. StopTrack => FlagsOK'  BY Zenon DEF StopTrack
<1>10. Connect => FlagsOK'  BY Zenon DEF Connect
<1>11. onRecvVideoData => FlagsOK'  BY Zenon DEF onRecvVideoData
<1>12. onRecvAudioData => FlagsOK'  BY Zenon DEF onRecvAudioData
<1>13. onRecvVideoDestroy => FlagsOK'  BY Zenon DEF onRecvVideoDestroy
<1>14. AudioGone => FlagsOK'  BY Zenon DEF AudioGone
<1>15. TakeMessage => FlagsOK'  BY Zenon DEF TakeMessage
<1>16. DrainStops => FlagsOK'  BY Zenon DEF DrainStops
<1>17. DrainHeld => FlagsOK'  BY Zenon DEF DrainHeld
<1>18. FormatChanged => FlagsOK'  BY Zenon DEF FormatChanged
<1>19. DequeueOutput => FlagsOK'  BY Zenon DEF DequeueOutput
<1>20. ReleaseOutput => FlagsOK'  BY Zenon DEF ReleaseOutput
<1>21. KeepOutput => FlagsOK'  BY Zenon DEF KeepOutput
<1>22. FeedStops => FlagsOK'  BY Zenon DEF FeedStops
<1>23. DequeueInput => FlagsOK'  BY Zenon DEF DequeueInput
<1>24. NoPacket => FlagsOK'  BY Zenon DEF NoPacket
<1>25. HasPacket => FlagsOK'  BY Zenon DEF HasPacket
<1>26. RemovePacket => FlagsOK'  BY Zenon DEF RemovePacket
<1>27. QueueInput => FlagsOK'  BY Zenon DEF QueueInput
<1>28. NoAudio => FlagsOK'  BY Zenon DEF NoAudio
<1>29. HasAudio => FlagsOK'  BY Zenon DEF HasAudio
<1>30. RemoveAudio => FlagsOK'  BY Zenon DEF RemoveAudio
<1>31. WriteAudio => FlagsOK'  BY Zenon DEF WriteAudio
<1>32. Decode => FlagsOK'  BY Zenon DEF Decode
<1>33. CodecFails => FlagsOK'  BY Zenon DEF CodecFails
<1> QED
  BY <1>1, <1>2, <1>3, <1>4, <1>5, <1>6, <1>7, <1>8, <1>9, <1>10, <1>11, <1>12, <1>13,
     <1>14, <1>15, <1>16, <1>17, <1>18, <1>19, <1>20, <1>21, <1>22, <1>23, <1>24, <1>25,
     <1>26, <1>27, <1>28, <1>29, <1>30, <1>31, <1>32, <1>33
     DEF Next, UserInterface, Callbacks, Render

LEMMA PlacesStep ==
  ASSUME PlacesOK, Next
  PROVE  PlacesOK'
<1> USE DEF PlacesOK, UiGoto, Work, Crash, CodecThrows, FrameTooLong, Disturb,
            RendererReset, codecVars, listVars, serverVars, uiVars, Unmoved
<1>1. CASE StartNative  BY <1>1 DEF StartNative, UiPlaces
<1>2. CASE StartVideo  BY <1>2 DEF StartVideo, UiPlaces
<1>3. CASE StartAudio  BY <1>3 DEF StartAudio, UiPlaces
<1>4. CASE StartWork  BY <1>4 DEF StartWork, UiPlaces
<1>5. CASE StopNative  BY <1>5 DEF StopNative, UiPlaces
<1>6. CASE StopVideo  BY <1>6 DEF StopVideo, UiPlaces
<1>7. CASE StopCodec  BY <1>7 DEF StopCodec, UiPlaces
<1>8. CASE StopAudio  BY <1>8 DEF StopAudio, UiPlaces
<1>9. CASE StopTrack  BY <1>9 DEF StopTrack, UiPlaces
<1>10. CASE Connect  BY <1>10 DEF Connect
<1>11. CASE onRecvVideoData  BY <1>11 DEF onRecvVideoData
<1>12. CASE onRecvAudioData  BY <1>12 DEF onRecvAudioData
<1>13. CASE onRecvVideoDestroy  BY <1>13 DEF onRecvVideoDestroy
<1>14. CASE AudioGone  BY <1>14 DEF AudioGone
<1>15. CASE TakeMessage  BY <1>15 DEF TakeMessage, WorkPlaces, CrashKinds
<1>16. CASE DrainStops  BY <1>16 DEF DrainStops, WorkPlaces
<1>17. CASE DrainHeld  BY <1>17 DEF DrainHeld, WorkPlaces
<1>18. CASE FormatChanged  BY <1>18 DEF FormatChanged, WorkPlaces
<1>19. CASE DequeueOutput  BY <1>19 DEF DequeueOutput, WorkPlaces, CrashKinds
<1>20. CASE ReleaseOutput  BY <1>20 DEF ReleaseOutput, WorkPlaces, CrashKinds
<1>21. CASE KeepOutput  BY <1>21 DEF KeepOutput, WorkPlaces
<1>22. CASE FeedStops  BY <1>22 DEF FeedStops, WorkPlaces
<1>23. CASE DequeueInput  BY <1>23 DEF DequeueInput, WorkPlaces, CrashKinds
<1>24. CASE NoPacket  BY <1>24 DEF NoPacket, WorkPlaces
<1>25. CASE HasPacket  BY <1>25 DEF HasPacket, WorkPlaces
<1>26. CASE RemovePacket  BY <1>26 DEF RemovePacket, WorkPlaces, CrashKinds
<1>27. CASE QueueInput  BY <1>27 DEF QueueInput, WorkPlaces, CrashKinds
<1>28. CASE NoAudio  BY <1>28 DEF NoAudio, WorkPlaces
<1>29. CASE HasAudio  BY <1>29 DEF HasAudio, WorkPlaces
<1>30. CASE RemoveAudio  BY <1>30 DEF RemoveAudio, WorkPlaces, CrashKinds
<1>31. CASE WriteAudio  BY <1>31 DEF WriteAudio, WorkPlaces, CrashKinds
<1>32. CASE Decode  BY <1>32 DEF Decode
<1>33. CASE CodecFails  BY <1>33 DEF CodecFails
<1> QED
  BY <1>1, <1>2, <1>3, <1>4, <1>5, <1>6, <1>7, <1>8, <1>9, <1>10, <1>11, <1>12, <1>13,
     <1>14, <1>15, <1>16, <1>17, <1>18, <1>19, <1>20, <1>21, <1>22, <1>23, <1>24,
     <1>25, <1>26, <1>27, <1>28, <1>29, <1>30, <1>31, <1>32, <1>33
     DEF Next, UserInterface, Callbacks, Render

LEMMA ListFacts ==
  ASSUME CountsOK
  PROVE  /\ vlist + 1 # 0 /\ (vlist > 0 <=> vlist # 0)
         /\ alist + 1 # 0 /\ (alist > 0 <=> alist # 0)
<1>1. vlist \in Nat /\ alist \in Nat  BY PlayerAssumption DEF CountsOK
<1> QED  BY <1>1

(* What a step does to the rounds: the first step of a start, the message  *)
(* its last one sends, a message taken, a round ended, or nothing.         *)
RoundMoves ==
  \/ /\ ui \notin Starting /\ ui' \in Starting
     /\ starts < MaxStarts /\ starts' = starts + 1
     /\ UNCHANGED <<work, messages>>
  \/ /\ ui \in Starting /\ ui' \notin Starting
     /\ messages' = messages + 1
     /\ UNCHANGED <<starts, work>>
  \/ /\ work = "idle" /\ messages > 0 /\ messages' = messages - 1
     /\ UNCHANGED <<ui, starts>>
  \/ /\ work # "idle" /\ work' = "idle" /\ messages' = messages + 1
     /\ UNCHANGED <<ui, starts>>
  \/ /\ UNCHANGED <<messages, starts>>
     /\ work = "idle" <=> work' = "idle"
     /\ ui \in Starting <=> ui' \in Starting

LEMMA RoundMovesStep ==
  ASSUME Next
  PROVE  RoundMoves
<1> USE DEF RoundMoves, Starting, UiGoto, Work, Crash, CodecThrows, FrameTooLong,
            Again, codecVars, listVars, serverVars, uiVars, Unmoved
<1>1. CASE StartNative  BY <1>1 DEF StartNative
<1>2. CASE StartVideo  BY <1>2 DEF StartVideo
<1>3. CASE StartAudio  BY <1>3 DEF StartAudio
<1>4. CASE StartWork  BY <1>4 DEF StartWork
<1>5. CASE StopNative  BY <1>5 DEF StopNative
<1>6. CASE StopVideo  BY <1>6 DEF StopVideo
<1>7. CASE StopCodec  BY <1>7 DEF StopCodec
<1>8. CASE StopAudio  BY <1>8 DEF StopAudio
<1>9. CASE StopTrack  BY <1>9 DEF StopTrack
<1>10. CASE Connect  BY <1>10 DEF Connect
<1>11. CASE onRecvVideoData  BY <1>11 DEF onRecvVideoData
<1>12. CASE onRecvAudioData  BY <1>12 DEF onRecvAudioData
<1>13. CASE onRecvVideoDestroy  BY <1>13 DEF onRecvVideoDestroy
<1>14. CASE AudioGone  BY <1>14 DEF AudioGone
<1>15. CASE TakeMessage  BY <1>15 DEF TakeMessage
<1>16. CASE DrainStops  BY <1>16 DEF DrainStops
<1>17. CASE DrainHeld  BY <1>17 DEF DrainHeld
<1>18. CASE FormatChanged  BY <1>18 DEF FormatChanged
<1>19. CASE DequeueOutput  BY <1>19 DEF DequeueOutput
<1>20. CASE ReleaseOutput  BY <1>20 DEF ReleaseOutput
<1>21. CASE KeepOutput  BY <1>21 DEF KeepOutput
<1>22. CASE FeedStops  BY <1>22 DEF FeedStops
<1>23. CASE DequeueInput  BY <1>23 DEF DequeueInput
<1>24. CASE NoPacket  BY <1>24 DEF NoPacket
<1>25. CASE HasPacket  BY <1>25 DEF HasPacket
<1>26. CASE RemovePacket  BY <1>26 DEF RemovePacket
<1>27. CASE QueueInput  BY <1>27 DEF QueueInput
<1>28. CASE NoAudio  BY <1>28 DEF NoAudio
<1>29. CASE HasAudio  BY <1>29 DEF HasAudio
<1>30. CASE RemoveAudio  BY <1>30 DEF RemoveAudio
<1>31. CASE WriteAudio  BY <1>31 DEF WriteAudio
<1>32. CASE Decode  BY <1>32 DEF Decode
<1>33. CASE CodecFails  BY <1>33 DEF CodecFails
<1> QED
  BY <1>1, <1>2, <1>3, <1>4, <1>5, <1>6, <1>7, <1>8, <1>9, <1>10, <1>11, <1>12, <1>13,
     <1>14, <1>15, <1>16, <1>17, <1>18, <1>19, <1>20, <1>21, <1>22, <1>23, <1>24,
     <1>25, <1>26, <1>27, <1>28, <1>29, <1>30, <1>31, <1>32, <1>33
     DEF Next, UserInterface, Callbacks, Render

LEMMA RoundsStep ==
  ASSUME CountsOK, RoundsInv, Next
  PROVE  RoundsInv' /\ starts' \in 0..MaxStarts /\ messages' \in Nat
<1>1. RoundMoves  BY RoundMovesStep
<1>2. /\ starts \in Nat /\ messages \in Nat /\ starts <= MaxStarts /\ MaxStarts \in Nat
      /\ messages + One(work # "idle") + One(ui \in Starting) <= starts
  BY PlayerAssumption DEF CountsOK, RoundsInv
<1> QED  BY <1>1, <1>2 DEF RoundMoves, RoundsInv, One

\* The lists and the number of clients stay within their bounds.
ListMoves ==
  /\ vlist' = vlist \/ vlist' = 0 \/ (vlist < MaxList /\ vlist' = vlist + 1)
       \/ (vlist > 0 /\ vlist' = vlist - 1)
  /\ alist' = alist \/ alist' = 0 \/ (alist < MaxList /\ alist' = alist + 1)
       \/ (alist > 0 /\ alist' = alist - 1)
  /\ clients' = clients \/ (clients < MaxConnections /\ clients' = clients + 1)

LEMMA ListMovesStep ==
  ASSUME Next
  PROVE  ListMoves
<1> USE DEF ListMoves, codecVars, listVars, serverVars, uiVars, Unmoved
<1>1. CASE StartNative  BY <1>1 DEF StartNative
<1>2. CASE StartVideo  BY <1>2 DEF StartVideo
<1>3. CASE StartAudio  BY <1>3 DEF StartAudio
<1>4. CASE StartWork  BY <1>4 DEF StartWork
<1>5. CASE StopNative  BY <1>5 DEF StopNative
<1>6. CASE StopVideo  BY <1>6 DEF StopVideo
<1>7. CASE StopCodec  BY <1>7 DEF StopCodec
<1>8. CASE StopAudio  BY <1>8 DEF StopAudio
<1>9. CASE StopTrack  BY <1>9 DEF StopTrack
<1>10. CASE Connect  BY <1>10 DEF Connect
<1>11. CASE onRecvVideoData  BY <1>11 DEF onRecvVideoData
<1>12. CASE onRecvAudioData  BY <1>12 DEF onRecvAudioData
<1>13. CASE onRecvVideoDestroy  BY <1>13 DEF onRecvVideoDestroy
<1>14. CASE AudioGone  BY <1>14 DEF AudioGone
<1>15. CASE TakeMessage  BY <1>15 DEF TakeMessage
<1>16. CASE DrainStops  BY <1>16 DEF DrainStops
<1>17. CASE DrainHeld  BY <1>17 DEF DrainHeld
<1>18. CASE FormatChanged  BY <1>18 DEF FormatChanged
<1>19. CASE DequeueOutput  BY <1>19 DEF DequeueOutput
<1>20. CASE ReleaseOutput  BY <1>20 DEF ReleaseOutput
<1>21. CASE KeepOutput  BY <1>21 DEF KeepOutput
<1>22. CASE FeedStops  BY <1>22 DEF FeedStops
<1>23. CASE DequeueInput  BY <1>23 DEF DequeueInput
<1>24. CASE NoPacket  BY <1>24 DEF NoPacket
<1>25. CASE HasPacket  BY <1>25 DEF HasPacket
<1>26. CASE RemovePacket  BY <1>26 DEF RemovePacket
<1>27. CASE QueueInput  BY <1>27 DEF QueueInput
<1>28. CASE NoAudio  BY <1>28 DEF NoAudio
<1>29. CASE HasAudio  BY <1>29 DEF HasAudio
<1>30. CASE RemoveAudio  BY <1>30 DEF RemoveAudio
<1>31. CASE WriteAudio  BY <1>31 DEF WriteAudio
<1>32. CASE Decode  BY <1>32 DEF Decode
<1>33. CASE CodecFails  BY <1>33 DEF CodecFails
<1> QED
  BY <1>1, <1>2, <1>3, <1>4, <1>5, <1>6, <1>7, <1>8, <1>9, <1>10, <1>11, <1>12, <1>13,
     <1>14, <1>15, <1>16, <1>17, <1>18, <1>19, <1>20, <1>21, <1>22, <1>23, <1>24,
     <1>25, <1>26, <1>27, <1>28, <1>29, <1>30, <1>31, <1>32, <1>33
     DEF Next, UserInterface, Callbacks, Render

LEMMA CountsStep ==
  ASSUME CountsOK, RoundsInv, Next
  PROVE  CountsOK'
<1>1. ListMoves  BY ListMovesStep
<1>2. /\ vlist \in 0..MaxList /\ alist \in 0..MaxList /\ clients \in 0..MaxConnections
      /\ MaxList \in Nat /\ MaxConnections \in Nat
  BY PlayerAssumption DEF CountsOK
<1>3. /\ vlist' \in 0..MaxList /\ alist' \in 0..MaxList
      /\ clients' \in 0..MaxConnections
  BY <1>1, <1>2 DEF ListMoves
<1> QED  BY <1>3, RoundsStep DEF CountsOK

\* Only the interface's thread opens and closes the codec, the track and the
\* native server, in this order.
LEMMA StateStep ==
  ASSUME CountsOK, StateInv, Next
  PROVE  StateInv'
<1> USE DEF StateInv, UiGoto, Work, Crash, CodecThrows, FrameTooLong, Disturb,
            RendererReset, codecVars, listVars, serverVars, uiVars, Unmoved
<1>1. CASE StartNative  BY <1>1 DEF StartNative
<1>2. CASE StartVideo
  <2>1. CASE UNCHANGED <<codecVars, renderer, stale, input, output, overlap>>
    BY <1>2, <2>1 DEF StartVideo
  <2>2. CASE /\ codec' = "started"
             /\ stale' = (work \notin {"idle", "audio", "audio remove", "audio write"})
             /\ overlap' = (overlap \/ work # "idle")
    <3>1. CASE work = "idle"
      <4>1. ~stale'  BY <2>2, <3>1
      <4> QED  BY <1>2, <2>2, <4>1 DEF StartVideo
    <3>2. CASE work # "idle"
      <4>1. overlap'  BY <2>2, <3>2
      <4> QED  BY <1>2, <2>2, <4>1 DEF StartVideo
    <3> QED  BY <3>1, <3>2
  <2> QED  BY <1>2, <2>1, <2>2 DEF StartVideo
<1>3. CASE StartAudio  BY <1>3 DEF StartAudio
<1>4. CASE StartWork  BY <1>4 DEF StartWork
<1>5. CASE StopNative  BY <1>5 DEF StopNative
<1>6. CASE StopVideo  BY <1>6 DEF StopVideo
<1>7. CASE StopCodec  BY <1>7 DEF StopCodec
<1>8. CASE StopAudio  BY <1>8 DEF StopAudio
<1>9. CASE StopTrack  BY <1>9 DEF StopTrack
<1>10. CASE Connect  BY <1>10 DEF Connect
<1>11. CASE onRecvVideoData  BY <1>11 DEF onRecvVideoData
<1>12. CASE onRecvAudioData  BY <1>12 DEF onRecvAudioData
<1>13. CASE onRecvVideoDestroy  BY <1>13 DEF onRecvVideoDestroy
<1>14. CASE AudioGone  BY <1>14 DEF AudioGone
<1>15. CASE TakeMessage  BY <1>15 DEF TakeMessage
<1>16. CASE DrainStops  BY <1>16 DEF DrainStops
<1>17. CASE DrainHeld  BY <1>17 DEF DrainHeld
<1>18. CASE FormatChanged  BY <1>18 DEF FormatChanged
<1>19. CASE DequeueOutput  BY <1>19 DEF DequeueOutput
<1>20. CASE ReleaseOutput  BY <1>20 DEF ReleaseOutput
<1>21. CASE KeepOutput  BY <1>21 DEF KeepOutput
<1>22. CASE FeedStops  BY <1>22 DEF FeedStops
<1>23. CASE DequeueInput  BY <1>23 DEF DequeueInput
<1>24. CASE NoPacket  BY <1>24 DEF NoPacket
<1>25. CASE HasPacket  BY <1>25 DEF HasPacket
<1>26. CASE RemovePacket  BY <1>26 DEF RemovePacket
<1>27. CASE QueueInput  BY <1>27 DEF QueueInput
<1>28. CASE NoAudio  BY <1>28 DEF NoAudio
<1>29. CASE HasAudio  BY <1>29 DEF HasAudio
<1>30. CASE RemoveAudio
  <2>1. alist = 0 => alist' = 0  BY <1>30, ListFacts DEF RemoveAudio
  <2>2. UNCHANGED <<ui, codec, renderer, stale, overlap, native, streams, track>>
    BY <1>30 DEF RemoveAudio
  <2> QED  BY <2>1, <2>2
<1>31. CASE WriteAudio  BY <1>31 DEF WriteAudio
<1>32. CASE Decode  BY <1>32 DEF Decode
<1>33. CASE CodecFails  BY <1>33 DEF CodecFails
<1> QED
  BY <1>1, <1>2, <1>3, <1>4, <1>5, <1>6, <1>7, <1>8, <1>9, <1>10, <1>11, <1>12, <1>13,
     <1>14, <1>15, <1>16, <1>17, <1>18, <1>19, <1>20, <1>21, <1>22, <1>23, <1>24,
     <1>25, <1>26, <1>27, <1>28, <1>29, <1>30, <1>31, <1>32, <1>33
     DEF Next, UserInterface, Callbacks, Render

\* Nothing takes from the render thread what it has in hand without leaving
\* overlap set.
LEMMA RoundStep ==
  ASSUME CountsOK, StateInv, RoundInv, Next
  PROVE  RoundInv'
<1> USE DEF RoundInv, UiGoto, Work, Crash, CodecThrows, FrameTooLong, Disturb,
            RendererReset, Usable, Rendering, codecVars, listVars, serverVars,
            uiVars, Unmoved
<1>1. CASE StartNative  BY <1>1 DEF StartNative
<1>2. CASE StartVideo
  <2>1. CASE work = "idle"
    BY <1>2, <2>1 DEF StartVideo
  <2>2. CASE overlap'  BY <2>2
  <2>3. CASE UNCHANGED <<codecVars, renderer, stale, input, output, overlap>>
    BY <1>2, <2>3 DEF StartVideo
  <2>4. overlap' = (overlap \/ work # "idle") => work = "idle" \/ overlap'
    OBVIOUS
  <2> QED  BY <1>2, <2>1, <2>2, <2>3, <2>4 DEF StartVideo
<1>3. CASE StartAudio  BY <1>3 DEF StartAudio
<1>4. CASE StartWork
  BY <1>4 DEF StartWork, StateInv
<1>5. CASE StopNative  BY <1>5 DEF StopNative
<1>6. CASE StopVideo  BY <1>6 DEF StopVideo
<1>7. CASE StopCodec  BY <1>7 DEF StopCodec
<1>8. CASE StopAudio  BY <1>8 DEF StopAudio
<1>9. CASE StopTrack  BY <1>9 DEF StopTrack
<1>10. CASE Connect  BY <1>10 DEF Connect
<1>11. CASE onRecvVideoData
  <2>1. vlist' # 0  BY <1>11, ListFacts DEF onRecvVideoData
  <2> QED  BY <1>11, <2>1 DEF onRecvVideoData
<1>12. CASE onRecvAudioData
  <2>1. alist' # 0  BY <1>12, ListFacts DEF onRecvAudioData
  <2> QED  BY <1>12, <2>1 DEF onRecvAudioData
<1>13. CASE onRecvVideoDestroy  BY <1>13 DEF onRecvVideoDestroy
<1>14. CASE AudioGone  BY <1>14 DEF AudioGone
<1>15. CASE TakeMessage  BY <1>15 DEF TakeMessage
<1>16. CASE DrainStops  BY <1>16 DEF DrainStops
<1>17. CASE DrainHeld
  <2>1. renderer = "started" => codec # "none"  BY DEF StateInv
  <2> QED  BY <1>17, <2>1 DEF DrainHeld
<1>18. CASE FormatChanged  BY <1>18 DEF FormatChanged
<1>19. CASE DequeueOutput
  <2>1. renderer = "started" => codec # "none"  BY DEF StateInv
  <2> QED  BY <1>19, <2>1 DEF DequeueOutput
<1>20. CASE ReleaseOutput  BY <1>20 DEF ReleaseOutput
<1>21. CASE KeepOutput  BY <1>21 DEF KeepOutput
<1>22. CASE FeedStops  BY <1>22 DEF FeedStops
<1>23. CASE DequeueInput
  <2>1. renderer = "started" /\ codec # "none" /\ UNCHANGED <<codec, overlap>>
    BY <1>23 DEF DequeueInput, StateInv
  <2>2. work = "feed" /\ (work' = "feed" \/ (work' = "packet" /\ input'))
    <3>1. CASE input /\ Work("feed", "packet") /\ UNCHANGED input  BY <3>1
    <3>2. CASE Work("feed", "packet") /\ input' = TRUE  BY <3>2
    <3>3. CASE work = "feed" /\ work' = work  BY <3>3
    <3> QED  BY <1>23, <3>1, <3>2, <3>3 DEF DequeueInput
  <2> QED  BY <2>1, <2>2
<1>24. CASE NoPacket  BY <1>24 DEF NoPacket
<1>25. CASE HasPacket
  <2>1. vlist # 0  BY <1>25, ListFacts DEF HasPacket
  <2> QED  BY <1>25, <2>1 DEF HasPacket
<1>26. CASE RemovePacket  BY <1>26 DEF RemovePacket
<1>27. CASE QueueInput  BY <1>27 DEF QueueInput
<1>28. CASE NoAudio  BY <1>28 DEF NoAudio
<1>29. CASE HasAudio
  <2>1. ui # "stopped" /\ alist # 0  BY <1>29, ListFacts DEF HasAudio, StateInv
  <2> QED  BY <1>29, <2>1 DEF HasAudio
<1>30. CASE RemoveAudio  BY <1>30 DEF RemoveAudio
<1>31. CASE WriteAudio  BY <1>31 DEF WriteAudio
<1>32. CASE Decode  BY <1>32 DEF Decode
<1>33. CASE CodecFails  BY <1>33 DEF CodecFails
<1> QED
  BY <1>1, <1>2, <1>3, <1>4, <1>5, <1>6, <1>7, <1>8, <1>9, <1>10, <1>11, <1>12, <1>13,
     <1>14, <1>15, <1>16, <1>17, <1>18, <1>19, <1>20, <1>21, <1>22, <1>23, <1>24,
     <1>25, <1>26, <1>27, <1>28, <1>29, <1>30, <1>31, <1>32, <1>33
     DEF Next, UserInterface, Callbacks, Render

\* A codec that has not failed throws only when it is not the one in hand.
LEMMA ThrowNeedsOverlap ==
  ASSUME PlacesOK, StateInv, RoundInv, NEW from \in {"drain", "show", "feed", "queue"},
         CodecThrows(from), from \in {"drain", "feed"} => Rendering,
         UNCHANGED overlap
  PROVE  CrashNeedsOverlap'
<1>1. CASE crashed' = "codec error"  BY <1>1 DEF CrashNeedsOverlap
<1>2. CASE stale  BY <1>2 DEF StateInv, CrashNeedsOverlap
<1>3. CASE ~stale /\ codec # "error"
  <2>1. codec = "none"  BY <1>3 DEF CodecThrows, Usable, PlacesOK
  <2>2. overlap
    BY <2>1 DEF CodecThrows, Crash, Rendering, StateInv, RoundInv
  <2> QED  BY <2>2 DEF CrashNeedsOverlap
<1> QED  BY <1>1, <1>2, <1>3 DEF CodecThrows, Crash

\* An exception needs what only a disturbed round can lack.
LEMMA CrashStep ==
  ASSUME PlacesOK, CountsOK, StateInv, RoundInv, CrashNeedsOverlap, Next
  PROVE  CrashNeedsOverlap'
<1> USE DEF StateInv, RoundInv, CrashNeedsOverlap, Alive, UiGoto, Work, Crash,
            FrameTooLong, Disturb, RendererReset, codecVars, listVars, serverVars,
            uiVars, Unmoved
<1>1. CASE StartNative  BY <1>1 DEF StartNative
<1>2. CASE StartVideo  BY <1>2 DEF StartVideo
<1>3. CASE StartAudio  BY <1>3 DEF StartAudio
<1>4. CASE StartWork  BY <1>4 DEF StartWork
<1>5. CASE StopNative  BY <1>5 DEF StopNative
<1>6. CASE StopVideo  BY <1>6 DEF StopVideo
<1>7. CASE StopCodec  BY <1>7 DEF StopCodec
<1>8. CASE StopAudio  BY <1>8 DEF StopAudio
<1>9. CASE StopTrack  BY <1>9 DEF StopTrack
<1>10. CASE Connect  BY <1>10 DEF Connect
<1>11. CASE onRecvVideoData  BY <1>11 DEF onRecvVideoData
<1>12. CASE onRecvAudioData  BY <1>12 DEF onRecvAudioData
<1>13. CASE onRecvVideoDestroy  BY <1>13 DEF onRecvVideoDestroy
<1>14. CASE AudioGone  BY <1>14 DEF AudioGone
<1>15. CASE TakeMessage  BY <1>15 DEF TakeMessage
<1>16. CASE DrainStops  BY <1>16 DEF DrainStops
<1>17. CASE DrainHeld  BY <1>17 DEF DrainHeld
<1>18. CASE FormatChanged  BY <1>18 DEF FormatChanged
<1>19. CASE DequeueOutput
  <2>1. CASE UNCHANGED crashed  BY <1>19, <2>1 DEF DequeueOutput
  <2>2. CASE CodecThrows("drain") /\ Rendering /\ UNCHANGED overlap
    BY <2>2, ThrowNeedsOverlap
  <2> QED  BY <1>19, <2>1, <2>2 DEF DequeueOutput
<1>20. CASE ReleaseOutput
  <2>1. CASE UNCHANGED crashed  BY <1>20, <2>1 DEF ReleaseOutput
  <2>2. CASE CodecThrows("show") /\ UNCHANGED overlap
    BY <2>2, ThrowNeedsOverlap
  <2>3. CASE ~output /\ Crash("show", "index") /\ UNCHANGED overlap  BY <2>3
  <2> QED  BY <1>20, <2>1, <2>2, <2>3 DEF ReleaseOutput
<1>21. CASE KeepOutput  BY <1>21 DEF KeepOutput
<1>22. CASE FeedStops  BY <1>22 DEF FeedStops
<1>23. CASE DequeueInput
  <2>1. CASE UNCHANGED crashed  BY <1>23, <2>1 DEF DequeueInput
  <2>2. CASE CodecThrows("feed") /\ Rendering /\ UNCHANGED overlap
    BY <2>2, ThrowNeedsOverlap
  <2> QED  BY <1>23, <2>1, <2>2 DEF DequeueInput
<1>24. CASE NoPacket  BY <1>24 DEF NoPacket
<1>25. CASE HasPacket  BY <1>25 DEF HasPacket
<1>26. CASE RemovePacket
  <2>1. CASE vlist = 0 /\ work = "remove"
    BY <1>26, <2>1 DEF RemovePacket
  <2>2. CASE UNCHANGED crashed
    BY <1>26, <2>2 DEF RemovePacket
  <2> QED  BY <1>26, <2>1, <2>2 DEF RemovePacket
<1>27. CASE QueueInput
  <2>1. CASE UNCHANGED crashed  BY <1>27, <2>1 DEF QueueInput
  <2>2. CASE CodecThrows("queue") /\ UNCHANGED overlap
    BY <2>2, ThrowNeedsOverlap
  <2>3. CASE ~input /\ Crash("queue", "index") /\ UNCHANGED overlap  BY <2>3
  <2>4. CASE FrameTooLong  BY <2>4
  <2> QED  BY <1>27, <2>1, <2>2, <2>3, <2>4 DEF QueueInput
<1>28. CASE NoAudio  BY <1>28 DEF NoAudio
<1>29. CASE HasAudio  BY <1>29 DEF HasAudio
<1>30. CASE RemoveAudio
  <2>1. CASE alist = 0 /\ work = "audio remove"
    BY <1>30, <2>1 DEF RemoveAudio
  <2>2. CASE UNCHANGED crashed
    BY <1>30, <2>2 DEF RemoveAudio
  <2> QED  BY <1>30, <2>1, <2>2 DEF RemoveAudio
<1>31. CASE WriteAudio  BY <1>31 DEF WriteAudio
<1>32. CASE Decode  BY <1>32 DEF Decode
<1>33. CASE CodecFails  BY <1>33 DEF CodecFails
<1> QED
  BY <1>1, <1>2, <1>3, <1>4, <1>5, <1>6, <1>7, <1>8, <1>9, <1>10, <1>11, <1>12, <1>13,
     <1>14, <1>15, <1>16, <1>17, <1>18, <1>19, <1>20, <1>21, <1>22, <1>23, <1>24,
     <1>25, <1>26, <1>27, <1>28, <1>29, <1>30, <1>31, <1>32, <1>33
     DEF Next, UserInterface, Callbacks, Render

(* The ways of an input buffer: to the renderer, to the codec, back to its *)
(* free ones; a new codec has all of them, a closed one none.              *)
InputMoves ==
  \/ UNCHANGED <<inFree, queued>> /\ (input' => input)
  \/ /\ inFree > 0 /\ inFree' = inFree - 1 /\ ~input /\ input'
     /\ UNCHANGED queued
  \/ input /\ ~input' /\ queued' = queued + 1 /\ UNCHANGED inFree
  \/ /\ queued > 0 /\ queued' = queued - 1 /\ inFree' = inFree + 1
     /\ UNCHANGED input
  \/ inFree' = InputBuffers /\ queued' = 0 /\ ~input'
  \/ inFree' = 0 /\ queued' = 0

LEMMA InputMovesStep ==
  ASSUME FlagsOK, Next
  PROVE  InputMoves
<1> USE DEF InputMoves, RendererReset, codecVars, listVars, serverVars, uiVars,
            Unmoved
<1>1. CASE StartNative  BY <1>1 DEF StartNative
<1>2. CASE StartVideo  BY <1>2 DEF StartVideo
<1>3. CASE StartAudio  BY <1>3 DEF StartAudio
<1>4. CASE StartWork  BY <1>4 DEF StartWork
<1>5. CASE StopNative  BY <1>5 DEF StopNative
<1>6. CASE StopVideo  BY <1>6 DEF StopVideo
<1>7. CASE StopCodec  BY <1>7 DEF StopCodec
<1>8. CASE StopAudio  BY <1>8 DEF StopAudio
<1>9. CASE StopTrack  BY <1>9 DEF StopTrack
<1>10. CASE Connect  BY <1>10 DEF Connect
<1>11. CASE onRecvVideoData  BY <1>11 DEF onRecvVideoData
<1>12. CASE onRecvAudioData  BY <1>12 DEF onRecvAudioData
<1>13. CASE onRecvVideoDestroy  BY <1>13 DEF onRecvVideoDestroy
<1>14. CASE AudioGone  BY <1>14 DEF AudioGone
<1>15. CASE TakeMessage  BY <1>15 DEF TakeMessage
<1>16. CASE DrainStops  BY <1>16 DEF DrainStops
<1>17. CASE DrainHeld  BY <1>17 DEF DrainHeld
<1>18. CASE FormatChanged  BY <1>18 DEF FormatChanged
<1>19. CASE DequeueOutput  BY <1>19 DEF DequeueOutput
<1>20. CASE ReleaseOutput  BY <1>20 DEF ReleaseOutput
<1>21. CASE KeepOutput  BY <1>21 DEF KeepOutput
<1>22. CASE FeedStops  BY <1>22 DEF FeedStops
<1>23. CASE DequeueInput  BY <1>23 DEF DequeueInput
<1>24. CASE NoPacket  BY <1>24 DEF NoPacket
<1>25. CASE HasPacket  BY <1>25 DEF HasPacket
<1>26. CASE RemovePacket  BY <1>26 DEF RemovePacket
<1>27. CASE QueueInput  BY <1>27 DEF QueueInput
<1>28. CASE NoAudio  BY <1>28 DEF NoAudio
<1>29. CASE HasAudio  BY <1>29 DEF HasAudio
<1>30. CASE RemoveAudio  BY <1>30 DEF RemoveAudio
<1>31. CASE WriteAudio  BY <1>31 DEF WriteAudio
<1>32. CASE Decode  BY <1>32 DEF Decode
<1>33. CASE CodecFails  BY <1>33 DEF CodecFails
<1> QED
  BY <1>1, <1>2, <1>3, <1>4, <1>5, <1>6, <1>7, <1>8, <1>9, <1>10, <1>11, <1>12, <1>13,
     <1>14, <1>15, <1>16, <1>17, <1>18, <1>19, <1>20, <1>21, <1>22, <1>23, <1>24,
     <1>25, <1>26, <1>27, <1>28, <1>29, <1>30, <1>31, <1>32, <1>33
     DEF Next, UserInterface, Callbacks, Render

(* The ways of an output buffer. *)
OutputMoves ==
  \/ UNCHANGED <<outFree, outReady>> /\ (Showing' => Showing)
  \/ /\ outReady > 0 /\ outReady' = outReady - 1 /\ ~Showing
     /\ UNCHANGED outFree
  \/ Showing /\ ~Showing' /\ outFree' = outFree + 1 /\ UNCHANGED outReady
  \/ /\ outFree > 0 /\ outFree' = outFree - 1 /\ outReady' = outReady + 1
     /\ (Showing' => Showing)
  \/ outFree' = OutputBuffers /\ outReady' = 0 /\ ~Showing'
  \/ outFree' = 0 /\ outReady' = 0

LEMMA OutputMovesStep ==
  ASSUME FlagsOK, StateInv, Next
  PROVE  OutputMoves
<1> USE DEF OutputMoves, Showing, Usable, Rendering, UiGoto, Work, Crash,
            CodecThrows, FrameTooLong, RendererReset, codecVars, listVars,
            serverVars, uiVars, Unmoved
<1>1. CASE StartNative  BY <1>1 DEF StartNative
<1>2. CASE StartVideo  BY <1>2 DEF StartVideo
<1>3. CASE StartAudio  BY <1>3 DEF StartAudio
<1>4. CASE StartWork  BY <1>4 DEF StartWork
<1>5. CASE StopNative  BY <1>5 DEF StopNative
<1>6. CASE StopVideo  BY <1>6 DEF StopVideo
<1>7. CASE StopCodec  BY <1>7 DEF StopCodec
<1>8. CASE StopAudio  BY <1>8 DEF StopAudio
<1>9. CASE StopTrack  BY <1>9 DEF StopTrack
<1>10. CASE Connect  BY <1>10 DEF Connect
<1>11. CASE onRecvVideoData  BY <1>11 DEF onRecvVideoData
<1>12. CASE onRecvAudioData  BY <1>12 DEF onRecvAudioData
<1>13. CASE onRecvVideoDestroy  BY <1>13 DEF onRecvVideoDestroy
<1>14. CASE AudioGone  BY <1>14 DEF AudioGone
<1>15. CASE TakeMessage  BY <1>15 DEF TakeMessage
<1>16. CASE DrainStops  BY <1>16 DEF DrainStops
<1>17. CASE DrainHeld  BY <1>17 DEF DrainHeld
<1>18. CASE FormatChanged  BY <1>18 DEF FormatChanged
<1>19. CASE DequeueOutput  BY <1>19 DEF DequeueOutput
<1>20. CASE ReleaseOutput  BY <1>20 DEF ReleaseOutput
<1>21. CASE KeepOutput  BY <1>21 DEF KeepOutput
<1>22. CASE FeedStops  BY <1>22 DEF FeedStops
<1>23. CASE DequeueInput  BY <1>23 DEF DequeueInput
<1>24. CASE NoPacket  BY <1>24 DEF NoPacket
<1>25. CASE HasPacket  BY <1>25 DEF HasPacket
<1>26. CASE RemovePacket  BY <1>26 DEF RemovePacket
<1>27. CASE QueueInput  BY <1>27 DEF QueueInput
<1>28. CASE NoAudio  BY <1>28 DEF NoAudio
<1>29. CASE HasAudio  BY <1>29 DEF HasAudio
<1>30. CASE RemoveAudio  BY <1>30 DEF RemoveAudio
<1>31. CASE WriteAudio  BY <1>31 DEF WriteAudio
<1>32. CASE Decode  BY <1>32 DEF Decode
<1>33. CASE CodecFails  BY <1>33 DEF CodecFails
<1> QED
  BY <1>1, <1>2, <1>3, <1>4, <1>5, <1>6, <1>7, <1>8, <1>9, <1>10, <1>11, <1>12, <1>13,
     <1>14, <1>15, <1>16, <1>17, <1>18, <1>19, <1>20, <1>21, <1>22, <1>23, <1>24,
     <1>25, <1>26, <1>27, <1>28, <1>29, <1>30, <1>31, <1>32, <1>33
     DEF Next, UserInterface, Callbacks, Render

LEMMA HandsStep ==
  ASSUME FlagsOK, BuffersOK, StateInv, HandsInv, Next
  PROVE  BuffersOK' /\ HandsInv'
<1>1. InputMoves  BY InputMovesStep
<1>2. OutputMoves  BY OutputMovesStep
<1>3. /\ inFree \in Nat /\ queued \in Nat /\ outFree \in Nat /\ outReady \in Nat
      /\ InputBuffers \in Nat \ {0} /\ OutputBuffers \in Nat \ {0}
      /\ inFree + queued + One(input) <= InputBuffers
      /\ outFree + outReady + One(Showing) <= OutputBuffers
  BY PlayerAssumption DEF BuffersOK, HandsInv
<1>4. /\ inFree' \in Nat /\ queued' \in Nat
      /\ inFree' + queued' + One(input') <= InputBuffers
  BY <1>1, <1>3 DEF InputMoves, One
<1>5. /\ outFree' \in Nat /\ outReady' \in Nat
      /\ outFree' + outReady' + One(Showing') <= OutputBuffers
  BY <1>2, <1>3 DEF OutputMoves, One
<1> QED  BY <1>4, <1>5 DEF BuffersOK, HandsInv

-----------------------------------------------------------------------------
(* Together *)

LEMMA IInvInit == Init => IInv
<1> SUFFICES ASSUME Init PROVE IInv  OBVIOUS
<1> USE PlayerAssumption DEF Init
<1>1. FlagsOK /\ PlacesOK
  BY DEF FlagsOK, PlacesOK, UiPlaces, WorkPlaces, CrashKinds
<1>2. CountsOK /\ BuffersOK  BY DEF CountsOK, BuffersOK
<1>3. StateInv /\ RoundInv /\ CrashNeedsOverlap
  BY DEF StateInv, RoundInv, CrashNeedsOverlap
<1>4. RoundsInv  BY DEF RoundsInv, One, Starting
<1>5. HandsInv  BY DEF HandsInv, Showing, One
<1> QED  BY <1>1, <1>2, <1>3, <1>4, <1>5 DEF IInv

LEMMA IInvStep == IInv /\ [Next]_vars => IInv'
<1> SUFFICES ASSUME IInv, [Next]_vars PROVE IInv'  OBVIOUS
<1>0. /\ FlagsOK /\ PlacesOK /\ CountsOK /\ BuffersOK
      /\ StateInv /\ RoundInv /\ RoundsInv /\ HandsInv /\ CrashNeedsOverlap
  BY DEF IInv
<1>1. CASE Next
  <2>1. FlagsOK' /\ PlacesOK' /\ CountsOK'
    BY <1>0, <1>1, FlagsStep, PlacesStep, CountsStep
  <2>2. StateInv' /\ RoundInv' /\ CrashNeedsOverlap'
    BY <1>0, <1>1, StateStep, RoundStep, CrashStep
  <2>3. RoundsInv' /\ BuffersOK' /\ HandsInv'
    BY <1>0, <1>1, RoundsStep, HandsStep
  <2> QED  BY <2>1, <2>2, <2>3 DEF IInv
<1>2. CASE UNCHANGED vars
  <2> USE <1>2 DEF vars, uiVars, codecVars, listVars, serverVars
  <2>1. FlagsOK'  BY <1>0, Zenon DEF FlagsOK
  <2>2. PlacesOK' /\ CountsOK' /\ BuffersOK'
    <3>1. PlacesOK'   BY <1>0, Zenon DEF PlacesOK
    <3>2. CountsOK'   BY <1>0, Zenon DEF CountsOK
    <3>3. BuffersOK'  BY <1>0, Zenon DEF BuffersOK
    <3> QED  BY <3>1, <3>2, <3>3
  <2>3. StateInv' /\ RoundInv' /\ CrashNeedsOverlap'
    BY <1>0 DEF StateInv, RoundInv, CrashNeedsOverlap
  <2>4. RoundsInv' /\ HandsInv'
    BY <1>0 DEF RoundsInv, HandsInv, Showing, Usable
  <2> QED  BY <2>1, <2>2, <2>3, <2>4 DEF IInv
<1> QED  BY <1>1, <1>2

LEMMA IInvHolds == Spec => []IInv
  BY IInvInit, IInvStep, PTL DEF Spec

-----------------------------------------------------------------------------
(* What it gives *)

\* Every field of the players keeps its range, the messages in the looper's queue
\* included: no more rounds go on than there were starts (AVPlayer.start).
THEOREM TypeCorrect == Spec => []TypeOK
  BY IInvHolds, IInvTypes, PTL

\* The render thread ends with an exception of a released codec, of an index, of a
\* list or of the track only if another thread came in between, or is starting or
\* stopping the players; of itself it ends at a frame too long for the input buffer,
\* at a codec that has failed, or without a first renderer (AVPlayer.doSomeWork,
\* MediaCodecVideoRenderer.render).
THEOREM CrashCorrect == Spec => []CrashNeedsOverlap
  BY IInvHolds, PTL DEF IInv

\* No buffer of the codec is in two places, however resets and stops fall between
\* the calls that fetch it, fill it and give it back
\* (MediaCodecVideoRenderer.reset, drainOutputBuffer, feedInputBuffer).
THEOREM BuffersCorrect == Spec => []BuffersInOnePlace
<1>1. IInv => BuffersInOnePlace
  <2> SUFFICES ASSUME IInv PROVE BuffersInOnePlace  OBVIOUS
  <2>1. /\ inFree \in Nat /\ queued \in Nat /\ outFree \in Nat /\ outReady \in Nat
        /\ InputBuffers \in Nat \ {0} /\ OutputBuffers \in Nat \ {0}
        /\ inFree + queued + One(input) <= InputBuffers
        /\ outFree + outReady + One(Showing) <= OutputBuffers
    BY PlayerAssumption DEF IInv, BuffersOK, HandsInv
  <2>2. output => Showing  BY DEF Showing
  <2> QED  BY <2>1, <2>2 DEF BuffersInOnePlace, One
<1> QED  BY <1>1, IInvHolds, PTL
=============================================================================
